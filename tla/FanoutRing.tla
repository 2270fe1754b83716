----------------------------- MODULE FanoutRing -----------------------------
(***************************************************************************)
(* The one-writer, many-reader ring of main/bridge_buffers.c: the USB       *)
(* receive callback broadcasts into it, ws_tx_task pops for one browser     *)
(* terminal at a time, the httpd task activates and deactivates readers,    *)
(* and the USB connect task resets it.  Every operation runs inside         *)
(* portENTER_CRITICAL/portEXIT_CRITICAL of the ring's own mux, so each is   *)
(* one step here.                                                           *)
(*                                                                         *)
(* A byte is modelled by its place in the stream the USB device sent: the   *)
(* n-th byte ever broadcast has value n, so a reader that is handed an      *)
(* overwritten or skipped byte is seen to be.                               *)
(***************************************************************************)
EXTENDS Integers, Sequences

CONSTANTS Clients,   \* 0..BRIDGE_WS_MAX_CLIENTS-1
          Capacity,  \* CONFIG_BRIDGE_WS_BUFFER_SIZE
          MaxChunk,  \* bytes of one USB transfer, at most
          MaxPop,    \* WS_TX_CHUNK
          MaxBytes   \* bound: bytes the stream carries in all

\* The Kconfig range of the buffer size starts at 2048; the code needs no more than 1.
ASSUME FanoutAssumption ==
    /\ Capacity \in Nat \ {0}
    /\ MaxChunk \in Nat
    /\ MaxPop \in Nat
    /\ MaxBytes \in Nat

VARIABLES data,       \* the storage, one byte per slot
          write_seq,  \* logical position of the next byte
          read_seq,   \* per client: logical position of its next byte
          active      \* per client: subscribed or not

\* What was observed, for the properties only:
VARIABLES sent,       \* bytes broadcast so far
          received,   \* per client: bytes popped in this subscription
          lost,       \* per client: bytes reported as dropped in this subscription
          since,      \* per client: sent when it subscribed
          cleared     \* per client: bytes a reset took from it in this subscription

ring == <<data, write_seq, read_seq, active>>
vars == <<ring, sent, received, lost, since, cleared>>

Slots == 0 .. Capacity - 1

Available(c) == write_seq - read_seq[c]

\* The bytes fanout_pop_now copies out from cursor seq on.
Stored(seq, len) == [i \in 1..len |-> data[(seq + i - 1) % Capacity]]

Init ==
    /\ data = [p \in Slots |-> 0]
    /\ write_seq = 0
    /\ read_seq = [c \in Clients |-> 0]
    /\ active = [c \in Clients |-> FALSE]
    /\ sent = 0
    /\ received = [c \in Clients |-> <<>>]
    /\ lost = [c \in Clients |-> 0]
    /\ since = [c \in Clients |-> 0]
    /\ cleared = [c \in Clients |-> 0]

-----------------------------------------------------------------------------
(* bridge_usb_to_ws_broadcast.  Of a transfer longer than the ring only the *)
(* last Capacity bytes are written.                                         *)

NewWriteSeq(len) == write_seq + len

OldestKept(len) == IF NewWriteSeq(len) > Capacity THEN NewWriteSeq(len) - Capacity ELSE 0

\* What would go wrong (each of these stands for a plausible mistake and replaces the
\* definition after it when a property is tried on it): the start is off by one.
LogicalStartLate(len) == IF len > Capacity THEN write_seq + (len - Capacity) + 1 ELSE write_seq

LogicalStart(len) == IF len > Capacity THEN write_seq + (len - Capacity) ELSE write_seq

\* How far a lagging cursor is moved: its share of the returned aggregate_dropped.
\* Mistakes: it is left where it is; all it has to read is dropped.
DroppedNever(c, len) == 0
DroppedAll(c, len) ==
    IF active[c] /\ read_seq[c] < OldestKept(len) THEN NewWriteSeq(len) - read_seq[c] ELSE 0

Dropped(c, len) ==
    IF active[c] /\ read_seq[c] < OldestKept(len) THEN OldestKept(len) - read_seq[c] ELSE 0

\* Byte with logical position seq of the transfer is the (sent + seq - write_seq + 1)-th.
Written(len) ==
    [p \in Slots |->
        IF \E seq \in LogicalStart(len) .. NewWriteSeq(len) - 1 : seq % Capacity = p
        THEN sent - write_seq + 1 +
                CHOOSE seq \in LogicalStart(len) .. NewWriteSeq(len) - 1 : seq % Capacity = p
        ELSE data[p]]

Broadcast(len) ==
    /\ sent + len <= MaxBytes
    /\ read_seq' = [c \in Clients |-> read_seq[c] + Dropped(c, len)]
    /\ data' = Written(len)
    /\ write_seq' = NewWriteSeq(len)
    /\ sent' = sent + len
    /\ lost' = [c \in Clients |-> lost[c] + Dropped(c, len)]
    /\ UNCHANGED <<active, received, since, cleared>>

\* fanout_pop_now, as ws_tx_task calls it (wait = 0); nothing to read changes nothing.
Pop(c, max_len) ==
    LET read == IF Available(c) < max_len THEN Available(c) ELSE max_len
    IN  /\ active[c] /\ read > 0
        /\ read_seq' = [read_seq EXCEPT ![c] = @ + read]
        /\ received' = [received EXCEPT ![c] = @ \o Stored(read_seq[c], read)]
        /\ UNCHANGED <<data, write_seq, active, sent, lost, since, cleared>>

\* Mistake: the cursor stays where the last subscription left it.
ActivateWhereItWas(c) ==
    /\ active' = [active EXCEPT ![c] = TRUE]
    /\ received' = [received EXCEPT ![c] = <<>>]
    /\ lost' = [lost EXCEPT ![c] = 0]
    /\ since' = [since EXCEPT ![c] = sent]
    /\ cleared' = [cleared EXCEPT ![c] = 0]
    /\ UNCHANGED <<data, write_seq, read_seq, sent>>

\* bridge_usb_to_ws_client_activate: a subscriber starts at the newest byte, also
\* when it was subscribed already.
Activate(c) ==
    /\ read_seq' = [read_seq EXCEPT ![c] = write_seq]
    /\ active' = [active EXCEPT ![c] = TRUE]
    /\ received' = [received EXCEPT ![c] = <<>>]
    /\ lost' = [lost EXCEPT ![c] = 0]
    /\ since' = [since EXCEPT ![c] = sent]
    /\ cleared' = [cleared EXCEPT ![c] = 0]
    /\ UNCHANGED <<data, write_seq, sent>>

\* bridge_usb_to_ws_client_deactivate.
Deactivate(c) ==
    /\ active' = [active EXCEPT ![c] = FALSE]
    /\ read_seq' = [read_seq EXCEPT ![c] = write_seq]
    /\ UNCHANGED <<data, write_seq, sent, received, lost, since, cleared>>

\* bridge_usb_to_ws_reset: a new USB connection restarts the sequence numbers and
\* leaves the subscriptions as they are.
Reset ==
    /\ write_seq' = 0
    /\ read_seq' = [c \in Clients |-> 0]
    /\ cleared' = [c \in Clients |-> IF active[c] THEN cleared[c] + Available(c) ELSE cleared[c]]
    /\ UNCHANGED <<data, active, sent, received, lost, since>>

Next ==
    \/ \E len \in 1..MaxChunk : Broadcast(len)
    \/ \E c \in Clients, max_len \in 1..MaxPop : Pop(c, max_len)
    \/ \E c \in Clients : Activate(c)
    \/ \E c \in Clients : Deactivate(c)
    \/ Reset

Spec == Init /\ [][Next]_vars

-----------------------------------------------------------------------------
\* Every variable keeps its type: 64-bit sequence numbers as naturals.
TypeOK ==
    /\ data \in [Slots -> Nat]
    /\ write_seq \in Nat
    /\ read_seq \in [Clients -> Nat]
    /\ active \in [Clients -> BOOLEAN]
    /\ sent \in Nat
    /\ received \in [Clients -> Seq(Nat)]
    /\ lost \in [Clients -> Nat]
    /\ since \in [Clients -> Nat]
    /\ cleared \in [Clients -> Nat]

\* A subscriber's cursor is never ahead of the writer (the unsigned difference
\* write_seq - read_seq would wrap) and never more than the storage behind it, after
\* any mix of overruns, resets and re-subscriptions.
CursorWindow ==
    /\ write_seq <= sent
    /\ \A c \in Clients : active[c] => /\ read_seq[c] <= write_seq
                                       /\ Available(c) <= Capacity

\* Each position a subscriber has still to read holds the very byte the device sent
\* there: nothing between a cursor and the writer is overwritten or left unwritten.
UnreadIntact ==
    \A c \in Clients : active[c] =>
        \A seq \in read_seq[c] .. write_seq - 1 : data[seq % Capacity] = sent - write_seq + 1 + seq

\* Every byte the device sent since a terminal subscribed was delivered to it, waits
\* for it, was reported as dropped, or went with a USB reconnect: none is lost
\* silently and none is counted twice, whatever the other terminal does.
EveryByteAccounted ==
    \A c \in Clients : active[c] =>
        sent - since[c] = Len(received[c]) + Available(c) + lost[c] + cleared[c]

\* A terminal sees the device's bytes in the order they were sent, each at most once,
\* and only bytes sent after it subscribed.
StreamInOrder ==
    \A c \in Clients :
        /\ \A i \in 1..Len(received[c]) : received[c][i] > since[c]
        /\ \A i, j \in 1..Len(received[c]) : i < j => received[c][i] < received[c][j]

\* The ring implements a queue per subscriber that keeps the newest Capacity bytes.
Queues == INSTANCE LossyStream WITH
    queue <- [c \in Clients |-> IF active[c] THEN Stored(read_seq[c], Available(c)) ELSE <<>>],
    joined <- active
ImplementsLossyStream == Queues!Spec
=============================================================================
