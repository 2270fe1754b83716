---------------------------- MODULE MCWsClients ----------------------------
(***************************************************************************)
(* WsClients on a small instance: one slot that changes hands while frames  *)
(* are under way.                                                           *)
(***************************************************************************)
EXTENDS WsClients
=============================================================================
