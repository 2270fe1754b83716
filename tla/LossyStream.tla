----------------------------- MODULE LossyStream -----------------------------
(***************************************************************************)
(* What bridge_buffers.h promises a browser terminal: the bytes the USB     *)
(* device sends are one numbered stream; a subscriber gets them in order,   *)
(* from the moment it joined, through a queue of its own that holds the     *)
(* newest Capacity bytes.  What does not fit is dropped from the old end    *)
(* and counted.  A slow subscriber never costs the other one a byte.        *)
(***************************************************************************)
EXTENDS Naturals, Sequences

CONSTANTS Clients,   \* the subscribers' slots
          Capacity,  \* bytes a queue holds
          MaxChunk,  \* bytes of one USB transfer, at most
          MaxPop,    \* bytes of one pop, at most
          MaxBytes   \* bound: bytes the stream carries in all

VARIABLES sent,      \* bytes sent so far; they are numbered 1..sent
          queue,     \* per client: the bytes that wait for it
          joined,    \* per client: subscribed or not
          received,  \* per client: the bytes it got in this subscription
          lost       \* per client: bytes dropped in this subscription

vars == <<sent, queue, joined, received, lost>>

Newest(s) == IF Len(s) > Capacity THEN SubSeq(s, Len(s) - Capacity + 1, Len(s)) ELSE s

Init ==
    /\ sent = 0
    /\ queue = [c \in Clients |-> <<>>]
    /\ joined = [c \in Clients |-> FALSE]
    /\ received = [c \in Clients |-> <<>>]
    /\ lost = [c \in Clients |-> 0]

Send(len) ==
    LET arrived(c) == queue[c] \o [i \in 1..len |-> sent + i]
    IN  /\ sent + len <= MaxBytes
        /\ sent' = sent + len
        /\ queue' = [c \in Clients |-> IF joined[c] THEN Newest(arrived(c)) ELSE <<>>]
        /\ lost' = [c \in Clients |->
                       IF joined[c] THEN lost[c] + Len(arrived(c)) - Len(queue'[c]) ELSE lost[c]]
        /\ UNCHANGED <<joined, received>>

Join(c) ==
    /\ joined' = [joined EXCEPT ![c] = TRUE]
    /\ queue' = [queue EXCEPT ![c] = <<>>]
    /\ received' = [received EXCEPT ![c] = <<>>]
    /\ lost' = [lost EXCEPT ![c] = 0]
    /\ UNCHANGED sent

Leave(c) ==
    /\ joined' = [joined EXCEPT ![c] = FALSE]
    /\ queue' = [queue EXCEPT ![c] = <<>>]
    /\ UNCHANGED <<sent, received, lost>>

Receive(c, n) ==
    /\ joined[c] /\ n <= Len(queue[c])
    /\ received' = [received EXCEPT ![c] = @ \o SubSeq(queue[c], 1, n)]
    /\ queue' = [queue EXCEPT ![c] = SubSeq(@, n + 1, Len(@))]
    /\ UNCHANGED <<sent, joined, lost>>

\* A new USB connection: nobody is sent what is left of the old one.
Discard ==
    /\ queue' = [c \in Clients |-> <<>>]
    /\ UNCHANGED <<sent, joined, received, lost>>

Next ==
    \/ \E len \in 1..MaxChunk : Send(len)
    \/ \E c \in Clients : Join(c) \/ Leave(c)
    \/ \E c \in Clients, n \in 1..MaxPop : Receive(c, n)
    \/ Discard

Spec == Init /\ [][Next]_vars
=============================================================================
