------------------------------- MODULE ByteRing -------------------------------
(***************************************************************************)
(* The byte ring of main/bridge_buffers.c, of which the bridge has two:     *)
(* usb_to_net from the USB callback to the TCP server, net_to_usb from TCP  *)
(* and the browsers to usb_tx_task.  Each operation runs inside             *)
(* portENTER_CRITICAL/portEXIT_CRITICAL, so each is one function from ring  *)
(* to ring here; who calls it when is modelled by TcpBridge.                *)
(***************************************************************************)
EXTENDS Integers, Sequences

CONSTANT Capacity  \* CONFIG_BRIDGE_USB_BUFFER_SIZE

ASSUME RingAssumption == Capacity \in Nat \ {0}

Slots == 0 .. Capacity - 1

\* byte_ring_t, with the bytes of some set.
RingOf(Byte) == [data : [Slots -> Byte], head : Slots, tail : Slots, count : 0..Capacity]

Smaller(m, n) == IF m < n THEN m ELSE n

\* Static storage: zeros, emptied by bridge_buffers_init.
EmptyRing == [data |-> [p \in Slots |-> 0], head |-> 0, tail |-> 0, count |-> 0]

\* How much of a chunk ring_push takes, and ring_pop_now hands out.
Accepted(ring, chunk) == Smaller(Len(chunk), Capacity - ring.count)
Available(ring, max_len) == Smaller(ring.count, max_len)

\* What would go wrong (each of these stands for a plausible mistake and replaces the
\* definition after it when a property is tried on it): the last free slot overwrites.
PushOneTooMany(ring, chunk) ==
    LET written == Smaller(Len(chunk), Capacity + 1 - ring.count)
    IN  [ring EXCEPT
            !.data = [p \in Slots |->
                LET k == (p - ring.head) % Capacity
                IN  IF k < written THEN chunk[k + 1] ELSE ring.data[p]],
            !.head = (@ + written) % Capacity,
            !.count = Smaller(Capacity, @ + written)]

ring_push(ring, chunk) ==
    LET written == Accepted(ring, chunk)
    IN  [ring EXCEPT
            !.data = [p \in Slots |->
                LET k == (p - ring.head) % Capacity
                IN  IF k < written THEN chunk[k + 1] ELSE ring.data[p]],
            !.head = (@ + written) % Capacity,
            !.count = @ + written]

\* The bytes a pop hands out, oldest first ...
Popped(ring, max_len) ==
    [i \in 1..Available(ring, max_len) |-> ring.data[(ring.tail + i - 1) % Capacity]]

\* ... and the ring it leaves.
ring_pop_now(ring, max_len) ==
    [ring EXCEPT !.tail = (@ + Available(ring, max_len)) % Capacity,
                 !.count = @ - Available(ring, max_len)]

ring_reset(ring) == [ring EXCEPT !.head = 0, !.tail = 0, !.count = 0]

\* What waits in a ring, in the order it will be popped.
Contents(ring) == [i \in 1..ring.count |-> ring.data[(ring.tail + i - 1) % Capacity]]

\* The writer is count slots ahead of the reader.
Aligned(ring) == ring.head = (ring.tail + ring.count) % Capacity
=============================================================================
