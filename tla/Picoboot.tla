------------------------------ MODULE Picoboot ------------------------------
(***************************************************************************)
(* picoboot_reboot_application of main/firmware_update.c: a client of the   *)
(* USB host opens the BOOTSEL device a second time, beside the MSC driver,  *)
(* claims its PICOBOOT interface and makes three transfers one after the    *)
(* other.  A transfer and the record its callback writes to are the         *)
(* function's own: the host may use them until the transfer is over.        *)
(*                                                                         *)
(* d is the device on the port, [kind, id, family].                         *)
(***************************************************************************)
EXTENDS Naturals

VARIABLE picoboot  \* [at, client, device, claimed, transfer, accepted]

Idle == [at |-> "none", client |-> FALSE, device |-> 0, claimed |-> FALSE,
         transfer |-> "none", accepted |-> FALSE]

\* Where the reset of the interface, the command and its acknowledgement are waited for.
Transfers == {"reset", "command", "ack"}

Enter ==
    /\ picoboot.at = "none"
    /\ picoboot' = [Idle EXCEPT !.at = "open"]

\* Registering the client, opening the device at the drive's address, and looking whether it
\* is a bootloader with the interface.
Open(d) ==
    /\ picoboot.at = "open"
    /\ \/ picoboot' = [picoboot EXCEPT !.at = "out"]
       \/ picoboot' = [picoboot EXCEPT !.at = "out", !.client = TRUE]
       \/ /\ d.id # 0
          /\ picoboot' = [picoboot EXCEPT !.at = "out", !.client = TRUE, !.device = d.id]
       \/ /\ d.kind = "boot"
          /\ picoboot' = [picoboot EXCEPT !.at = "claim", !.client = TRUE, !.device = d.id]

Claim(d) ==
    /\ picoboot.at = "claim"
    /\ \/ /\ d.id = picoboot.device
          /\ picoboot' = [picoboot EXCEPT !.at = "reset", !.claimed = TRUE]
       \/ picoboot' = [picoboot EXCEPT !.at = "out"]

\* What follows a transfer: without the reset it goes on.
After(p, ok) ==
    CASE p.at = "reset" -> [p EXCEPT !.at = "command", !.transfer = "none"]
      [] p.at = "command" -> [p EXCEPT !.at = IF ok THEN "ack" ELSE "out", !.transfer = "none"]
      [] p.at = "ack" -> [p EXCEPT !.at = "out", !.accepted = ok, !.transfer = "none"]

\* There may be no memory for the transfer, or the host does not take it.
Submit(d) ==
    /\ picoboot.at \in Transfers /\ picoboot.transfer = "none"
    /\ \/ /\ d.id = picoboot.device
          /\ picoboot' = [picoboot EXCEPT !.transfer = "submitted"]
       \/ picoboot' = After(picoboot, FALSE)

\* The USB host: a transfer ends well, or with an error, or because the device is gone.
Completes(d) ==
    /\ picoboot.transfer = "submitted"
    /\ \/ d.id = picoboot.device /\ picoboot' = [picoboot EXCEPT !.transfer = "completed"]
       \/ picoboot' = [picoboot EXCEPT !.transfer = "failed"]

\* Mistake: the time-out ends the wait.
WaitTimesOut ==
    /\ picoboot.at \in Transfers /\ picoboot.transfer # "none"
    /\ picoboot' = IF picoboot.transfer = "submitted"
                   THEN [picoboot EXCEPT !.at = "out"]
                   ELSE After(picoboot, picoboot.transfer = "completed")

\* picoboot_submit_and_wait: a time-out is logged, and the wait goes on.
Wait ==
    /\ picoboot.at \in Transfers /\ picoboot.transfer \in {"completed", "failed"}
    /\ picoboot' = After(picoboot, picoboot.transfer = "completed")

\* The interface is given back unless a transfer is under way on it, the device is closed
\* unless it has an interface claimed, the client goes unless it has a device open.  What
\* the host refuses is logged and stays.
Out ==
    /\ picoboot.at = "out"
    /\ LET claimed == picoboot.claimed /\ picoboot.transfer = "submitted"
           device == IF claimed THEN picoboot.device ELSE 0
       IN picoboot' = [picoboot EXCEPT !.at = "back", !.claimed = claimed, !.device = device,
                                       !.client = @ /\ device # 0]

Return ==
    /\ picoboot.at = "back"
    /\ picoboot' = [picoboot EXCEPT !.at = "none", !.accepted = FALSE]

Step(d) == Open(d) \/ Claim(d) \/ Submit(d) \/ Wait \/ Out
=============================================================================
