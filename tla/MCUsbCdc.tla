------------------------------ MODULE MCUsbCdc ------------------------------
(***************************************************************************)
(* UsbCdc with one user that makes every shape of call, the one that keeps   *)
(* the mutex for a second among them.  Two users exclude one another by the  *)
(* mutex; the proofs of UsbCdc_proof are about every number of them.        *)
(***************************************************************************)
EXTENDS UsbCdc, TLC

CONSTANT web

MCUserOps == web :> {"touch", "restore", "query", "line_coding"}
=============================================================================
