----------------------------- MODULE BoundedFifo -----------------------------
(***************************************************************************)
(* What bridge_buffers.h promises of the buffers between USB and TCP: a     *)
(* queue of at most Capacity bytes that grows at one end with bytes in      *)
(* their order and is read, or emptied, from the other.                     *)
(***************************************************************************)
EXTENDS Naturals, SequencesExt

CONSTANT Capacity

VARIABLE queue

Init == queue = <<>>

\* What does not fit stays with the caller, who is told how much that is.
Push == IsPrefix(queue, queue') /\ Len(queue') <= Capacity

\* A pop takes bytes from the front, a reset all of them.
Pop == IsSuffix(queue', queue)

Next == Push \/ Pop

Spec == Init /\ [][Next]_queue
=============================================================================
