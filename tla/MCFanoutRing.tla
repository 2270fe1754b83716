---------------------------- MODULE MCFanoutRing ----------------------------
(***************************************************************************)
(* FanoutRing on a small instance.  The two slots are treated alike by      *)
(* every operation, so they are model values and symmetric.                 *)
(***************************************************************************)
EXTENDS FanoutRing, TLC

Symmetry == Permutations(Clients)
=============================================================================
