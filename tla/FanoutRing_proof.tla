-------------------------- MODULE FanoutRing_proof --------------------------
(***************************************************************************)
(* The invariants of FanoutRing, for every ring size, any number of         *)
(* readers and every transfer and pop length.                               *)
(***************************************************************************)
EXTENDS FanoutRing, SequenceTheorems, TLAPS

\* What a terminal got lies before its cursor: with CursorWindow and the accounts this
\* makes StreamInOrder inductive.
ReceivedBehindCursor ==
    \A c \in Clients : active[c] =>
        \A i \in 1..Len(received[c]) : received[c][i] <= sent - Available(c)

IInv ==
    /\ TypeOK
    /\ CursorWindow
    /\ UnreadIntact
    /\ EveryByteAccounted
    /\ StreamInOrder
    /\ ReceivedBehindCursor

-----------------------------------------------------------------------------
\* The slot of a position is a slot: fanout_pop_now and the broadcast never index
\* outside the storage.
LEMMA SlotInRange ==
    ASSUME NEW seq \in Nat
    PROVE  seq % Capacity \in Slots
BY FanoutAssumption, SMT DEF Slots

\* What a pop copies out is a sequence.
LEMMA FunctionIsSeq ==
    ASSUME NEW S, NEW n \in Nat, NEW f \in [1..n -> S]
    PROVE  f \in Seq(S) /\ Len(f) = n
OBVIOUS

\* Two positions less than one ring length apart share a slot only if they are equal.
LEMMA SlotUnique ==
    ASSUME NEW a \in Nat, NEW b \in Nat,
           a <= b, b < a + Capacity, a % Capacity = b % Capacity
    PROVE  a = b
<1> DEFINE qa == a \div Capacity
           qb == b \div Capacity
<1>1. /\ a = Capacity * qa + (a % Capacity)
      /\ b = Capacity * qb + (b % Capacity)
      /\ qa \in Int /\ qb \in Int
  BY FanoutAssumption, SMT
<1> HIDE DEF qa, qb
<1>2. b - a = Capacity * (qb - qa)
  BY <1>1, FanoutAssumption, SMT
<1>3. 0 <= Capacity * (qb - qa) /\ Capacity * (qb - qa) < Capacity
  <2>1. 0 <= b - a /\ b - a < Capacity
    BY FanoutAssumption, SMT
  <2> QED BY <2>1, <1>2
<1>4. qb - qa = 0
  <2> DEFINE k == qb - qa
  <2>1. k \in Int BY <1>1
  <2>2. 0 <= Capacity * k /\ Capacity * k < Capacity BY <1>3
  <2> HIDE DEF k
  <2>3. ~(k >= 1) BY <2>1, <2>2, FanoutAssumption, SMT
  <2>4. ~(k <= -1) BY <2>1, <2>2, FanoutAssumption, SMT
  <2>5. k = 0 BY <2>1, <2>3, <2>4, SMT
  <2> QED BY <2>5 DEF k
<1>5. Capacity * (qb - qa) = 0
  BY <1>4, FanoutAssumption, SMT
<1> QED BY <1>2, <1>5, SMT

-----------------------------------------------------------------------------
\* A broadcast leaves in the slot of each position it keeps the byte of that position:
\* the ones it writes hold the transfer's, the others what they held.
LEMMA WrittenSlots ==
    ASSUME IInv, NEW len \in 1..MaxChunk, NEW seq \in Nat,
           OldestKept(len) <= seq, seq < NewWriteSeq(len)
    PROVE  Written(len)[seq % Capacity] =
              IF LogicalStart(len) <= seq THEN sent - write_seq + 1 + seq
                                          ELSE data[seq % Capacity]
<1> DEFINE W == LogicalStart(len) .. NewWriteSeq(len) - 1
           p == seq % Capacity
<1>1. p \in Slots
  BY SlotInRange
<1>2. /\ len \in Nat \ {0} /\ write_seq \in Nat /\ sent \in Nat /\ Capacity \in Nat \ {0}
      /\ LogicalStart(len) \in Nat /\ NewWriteSeq(len) \in Nat
      /\ NewWriteSeq(len) - LogicalStart(len) <= Capacity
      /\ NewWriteSeq(len) - seq <= Capacity
  BY FanoutAssumption, SMT DEF IInv, TypeOK, LogicalStart, NewWriteSeq, OldestKept
<1>3. \A s \in W : s % Capacity = p => s = seq
  <2> SUFFICES ASSUME NEW s \in W, s % Capacity = p PROVE s = seq
    OBVIOUS
  <2>1. s \in Nat /\ s < seq + Capacity /\ seq < s + Capacity
    BY <1>2, SMT
  <2>2. CASE s <= seq BY <2>1, <2>2, SlotUnique
  <2>3. CASE seq <= s BY <2>1, <2>3, SlotUnique
  <2> QED BY <2>1, <2>2, <2>3, SMT
<1>4. CASE LogicalStart(len) <= seq
  <2>1. seq \in W BY <1>2, <1>4, SMT
  <2>2. (CHOOSE s \in W : s % Capacity = p) = seq BY <1>3, <2>1
  <2> QED BY <1>1, <1>4, <2>1, <2>2 DEF Written
<1>5. CASE ~(LogicalStart(len) <= seq)
  <2>1. seq \notin W BY <1>2, <1>5, SMT
  <2>2. ~\E s \in W : s % Capacity = p BY <1>3, <2>1
  <2> QED BY <1>1, <1>5, <2>2 DEF Written
<1> QED BY <1>4, <1>5

\* The cursor a broadcast leaves a subscriber with: where it was, or at the oldest byte
\* still in the ring.
LEMMA DroppedBounds ==
    ASSUME IInv, NEW len \in 1..MaxChunk, NEW c \in Clients
    PROVE  /\ Dropped(c, len) \in Nat
           /\ active[c] => /\ OldestKept(len) <= read_seq[c] + Dropped(c, len)
                           /\ read_seq[c] + Dropped(c, len) <= NewWriteSeq(len)
                           /\ Dropped(c, len) > 0 => read_seq[c] + Dropped(c, len) = OldestKept(len)
<1>1. /\ len \in Nat \ {0} /\ write_seq \in Nat /\ read_seq[c] \in Nat /\ Capacity \in Nat \ {0}
      /\ active[c] => read_seq[c] <= write_seq
  BY FanoutAssumption, SMT DEF IInv, TypeOK, CursorWindow
<1> QED BY <1>1, SMT DEF Dropped, OldestKept, NewWriteSeq

\* The positions a broadcast keeps are those it writes and the newest of the old ones.
LEMMA KeptPositions ==
    ASSUME IInv, NEW len \in 1..MaxChunk, NEW seq \in Nat,
           OldestKept(len) <= seq, ~(LogicalStart(len) <= seq)
    PROVE  seq < write_seq
BY FanoutAssumption, SMT DEF IInv, TypeOK, OldestKept, LogicalStart, NewWriteSeq

-----------------------------------------------------------------------------
\* bridge_buffers_init leaves an empty ring nobody reads.
LEMMA InitEstablishes == Init => IInv
<1> SUFFICES ASSUME Init PROVE IInv
  OBVIOUS
<1>1. TypeOK BY DEF Init, TypeOK, Slots
<1>2. CursorWindow BY <1>1, FanoutAssumption DEF Init, CursorWindow
<1>3. UnreadIntact BY DEF Init, UnreadIntact
<1>4. EveryByteAccounted BY DEF Init, EveryByteAccounted
<1>5. StreamInOrder
  <2>1. \A c \in Clients : received[c] = <<>> BY DEF Init
  <2>2. \A c \in Clients : Len(received[c]) = 0 BY <2>1, EmptySeq
  <2>3. ASSUME NEW c \in Clients PROVE 1..Len(received[c]) = {}
    <3> DEFINE n == Len(received[c])
    <3>1. n = 0 BY <2>2
    <3> HIDE DEF n
    <3>2. 1..n = {} BY <3>1
    <3> QED BY <3>2 DEF n
  <2> QED BY <2>3 DEF StreamInOrder
<1>6. ReceivedBehindCursor BY DEF Init, ReceivedBehindCursor
<1> QED BY <1>1, <1>2, <1>3, <1>4, <1>5, <1>6 DEF IInv

\* bridge_usb_to_ws_broadcast: a transfer of any length, over readers anywhere in the ring.
LEMMA BroadcastPreserves ==
    ASSUME IInv, NEW len \in 1..MaxChunk, Broadcast(len)
    PROVE  IInv'
<1> USE FanoutAssumption
<1>1. /\ len \in Nat \ {0} /\ write_seq \in Nat /\ sent \in Nat /\ Capacity \in Nat \ {0}
      /\ write_seq <= sent
      /\ write_seq' = write_seq + len /\ sent' = sent + len
      /\ NewWriteSeq(len) = write_seq + len
      /\ UNCHANGED <<active, received, since, cleared>>
  BY DEF IInv, TypeOK, CursorWindow, Broadcast, NewWriteSeq
<1>2. \A c \in Clients : Dropped(c, len) \in Nat
  BY DroppedBounds
<1>3. \A c \in Clients : /\ read_seq'[c] = read_seq[c] + Dropped(c, len)
                         /\ lost'[c] = lost[c] + Dropped(c, len)
                         /\ read_seq[c] \in Nat /\ lost[c] \in Nat
                         /\ received[c] \in Seq(Nat) /\ since[c] \in Nat /\ cleared[c] \in Nat
  BY DEF Broadcast, IInv, TypeOK
<1>4. TypeOK'
  <2>1. data' \in [Slots -> Nat]
    <3>1. \A s \in LogicalStart(len) .. NewWriteSeq(len) - 1 : sent - write_seq + 1 + s \in Nat
      BY <1>1, SMT DEF LogicalStart
    <3>2. data \in [Slots -> Nat] BY DEF IInv, TypeOK
    <3>3. \A p \in Slots : Written(len)[p] \in Nat
      BY <3>1, <3>2 DEF Written
    <3>4. data' = Written(len) BY DEF Broadcast
    <3> QED BY <3>3, <3>4 DEF Written
  <2>2. read_seq' \in [Clients -> Nat] /\ lost' \in [Clients -> Nat]
    <3>1. /\ read_seq' = [c \in Clients |-> read_seq[c] + Dropped(c, len)]
          /\ lost' = [c \in Clients |-> lost[c] + Dropped(c, len)]
      BY DEF Broadcast
    <3>2. \A c \in Clients : read_seq[c] + Dropped(c, len) \in Nat /\ lost[c] + Dropped(c, len) \in Nat
      BY <1>2, <1>3
    <3> QED BY <3>1, <3>2
  <2>3. active \in [Clients -> BOOLEAN] /\ received \in [Clients -> Seq(Nat)]
        /\ since \in [Clients -> Nat] /\ cleared \in [Clients -> Nat]
    BY DEF IInv, TypeOK
  <2> QED BY <1>1, <2>1, <2>2, <2>3 DEF TypeOK
<1>5. \A c \in Clients : active'[c] =>
         /\ read_seq[c] <= write_seq
         /\ OldestKept(len) <= read_seq'[c]
         /\ read_seq'[c] <= write_seq'
         /\ read_seq'[c] \in Nat
         /\ read_seq[c] <= read_seq'[c]
         /\ Available(c)' = Available(c) + len - Dropped(c, len)
         /\ Available(c)' <= Capacity
  <2> SUFFICES ASSUME NEW c \in Clients, active[c]
               PROVE /\ read_seq[c] <= write_seq
                     /\ OldestKept(len) <= read_seq'[c]
                     /\ read_seq'[c] <= write_seq'
                     /\ read_seq'[c] \in Nat
                     /\ read_seq[c] <= read_seq'[c]
                     /\ Available(c)' = Available(c) + len - Dropped(c, len)
                     /\ Available(c)' <= Capacity
    BY <1>1
  <2>1. read_seq[c] <= write_seq BY DEF IInv, CursorWindow
  <2>2. OldestKept(len) <= read_seq'[c] /\ read_seq'[c] <= NewWriteSeq(len)
    BY <1>3, DroppedBounds
  <2>3. write_seq' - OldestKept(len) <= Capacity /\ OldestKept(len) \in Nat
    BY <1>1, SMT DEF OldestKept
  <2> QED BY <1>1, <1>2, <1>3, <2>1, <2>2, <2>3, SMT DEF Available
<1>6. CursorWindow'
  BY <1>1, <1>5, SMT DEF CursorWindow
<1>7. UnreadIntact'
  <2> SUFFICES ASSUME NEW c \in Clients, active[c],
                      NEW seq \in read_seq'[c] .. write_seq' - 1
               PROVE  data'[seq % Capacity] = sent' - write_seq' + 1 + seq
    BY <1>1 DEF UnreadIntact
  <2>1. /\ seq \in Nat /\ OldestKept(len) <= seq /\ seq < NewWriteSeq(len) /\ read_seq[c] <= seq
    <3>1. /\ OldestKept(len) <= read_seq'[c] /\ read_seq'[c] \in Nat
          /\ read_seq[c] <= read_seq'[c]
      BY <1>1, <1>5
    <3>2. OldestKept(len) \in Nat BY <1>1, SMT DEF OldestKept
    <3> QED BY <1>1, <1>3, <3>1, <3>2, SMT
  <2>2. data' = Written(len) BY DEF Broadcast
  <2>3. sent' - write_seq' = sent - write_seq BY <1>1, SMT
  <2>4. CASE LogicalStart(len) <= seq
    BY <2>1, <2>2, <2>3, <2>4, WrittenSlots
  <2>5. CASE ~(LogicalStart(len) <= seq)
    <3>1. seq < write_seq BY <2>1, <2>5, KeptPositions
    <3>2. seq \in read_seq[c] .. write_seq - 1 BY <1>1, <1>3, <2>1, <3>1, SMT
    <3>3. data[seq % Capacity] = sent - write_seq + 1 + seq
      BY <3>2 DEF IInv, UnreadIntact
    <3> QED BY <2>1, <2>2, <2>3, <2>5, <3>3, WrittenSlots
  <2> QED BY <2>4, <2>5
<1>8. EveryByteAccounted'
  <2> SUFFICES ASSUME NEW c \in Clients, active[c]
               PROVE  sent' - since[c] = Len(received[c]) + Available(c)' + lost'[c] + cleared[c]
    BY <1>1 DEF EveryByteAccounted
  <2>1. sent - since[c] = Len(received[c]) + Available(c) + lost[c] + cleared[c]
    BY DEF IInv, EveryByteAccounted
  <2>2. Available(c)' = Available(c) + len - Dropped(c, len)
    BY <1>1, <1>5
  <2>3. Len(received[c]) \in Nat /\ Available(c) \in Int
    BY <1>1, <1>3 DEF Available
  <2>4. /\ lost'[c] = lost[c] + Dropped(c, len) /\ sent' = sent + len
        /\ Dropped(c, len) \in Nat /\ lost[c] \in Nat /\ sent \in Nat /\ len \in Nat
        /\ since[c] \in Nat /\ cleared[c] \in Nat
    BY <1>1, <1>2, <1>3
  <2> DEFINE n == Len(received[c])
             a == Available(c)
             aa == Available(c)'
             drop == Dropped(c, len)
             l == lost[c]
  <2> HIDE DEF n, a, aa, drop, l
  <2>5. sent - since[c] = n + a + l + cleared[c] BY <2>1 DEF n, a, l
  <2>6. aa = a + len - drop BY <2>2 DEF a, aa, drop
  <2>7. n \in Nat /\ a \in Int BY <2>3 DEF n, a
  <2>8. /\ lost'[c] = l + drop /\ sent' = sent + len
        /\ drop \in Nat /\ l \in Nat /\ sent \in Nat /\ len \in Nat
        /\ since[c] \in Nat /\ cleared[c] \in Nat
    BY <2>4 DEF l, drop
  <2>9. sent' - since[c] = n + aa + lost'[c] + cleared[c] BY <2>5, <2>6, <2>7, <2>8, SMT
  <2> QED BY <2>9 DEF n, aa
<1>9. StreamInOrder'
  BY <1>1 DEF IInv, StreamInOrder
<1>10. ReceivedBehindCursor'
  <2> SUFFICES ASSUME NEW c \in Clients, active[c], NEW i \in 1..Len(received[c])
               PROVE  received[c][i] <= sent' - Available(c)'
    BY <1>1 DEF ReceivedBehindCursor
  <2>1. received[c][i] <= sent - Available(c)
    BY DEF IInv, ReceivedBehindCursor
  <2>2. received[c][i] \in Nat BY <1>3
  <2>3. Available(c)' = Available(c) + len - Dropped(c, len) /\ Available(c) \in Int
    BY <1>1, <1>3, <1>5 DEF Available
  <2> QED BY <1>1, <1>2, <2>1, <2>2, <2>3, SMT
<1> QED BY <1>4, <1>6, <1>7, <1>8, <1>9, <1>10 DEF IInv

\* bridge_usb_to_ws_pop_client: what is copied out are the bytes the cursor passes.
LEMMA PopPreserves ==
    ASSUME IInv, NEW c \in Clients, NEW max_len \in 1..MaxPop, Pop(c, max_len)
    PROVE  IInv'
<1> USE FanoutAssumption
<1> DEFINE read == IF Available(c) < max_len THEN Available(c) ELSE max_len
           chunk == Stored(read_seq[c], read)
<1>1. /\ active[c] /\ read_seq[c] \in Nat /\ write_seq \in Nat /\ sent \in Nat
      /\ write_seq <= sent /\ read_seq[c] <= write_seq
      /\ read \in Nat \ {0} /\ read <= Available(c)
      /\ received[c] \in Seq(Nat)
  BY SMT DEF IInv, TypeOK, CursorWindow, Pop, Available
<1>2. /\ read_seq' = [read_seq EXCEPT ![c] = @ + read]
      /\ received' = [received EXCEPT ![c] = @ \o chunk]
      /\ UNCHANGED <<data, write_seq, active, sent, lost, since, cleared>>
  BY DEF Pop
<1> HIDE DEF read
<1>3. /\ chunk \in Seq(Nat) /\ Len(chunk) = read
      /\ \A i \in 1..read : chunk[i] = sent - Available(c) + i
  <2>1. \A i \in 1..read : data[(read_seq[c] + i - 1) % Capacity] = sent - Available(c) + i
    <3> SUFFICES ASSUME NEW i \in 1..read
                 PROVE  data[(read_seq[c] + i - 1) % Capacity] = sent - Available(c) + i
      OBVIOUS
    <3> DEFINE seq == read_seq[c] + i - 1
    <3>1. seq \in read_seq[c] .. write_seq - 1
      BY <1>1, SMT DEF Available
    <3>2. data[seq % Capacity] = sent - write_seq + 1 + seq
      BY <1>1, <3>1 DEF IInv, UnreadIntact
    <3>3. sent - write_seq + 1 + seq = sent - Available(c) + i
      BY <1>1, SMT DEF Available
    <3> QED BY <3>2, <3>3
  <2>2. \A i \in 1..read : sent - Available(c) + i \in Nat
    BY <1>1, SMT DEF Available
  <2>3. chunk = [i \in 1..read |-> data[(read_seq[c] + i - 1) % Capacity]]
    BY DEF Stored
  <2>4. chunk \in [1..read -> Nat]
    BY <2>1, <2>2, <2>3
  <2>5. \A i \in 1..read : chunk[i] = sent - Available(c) + i
    BY <2>1, <2>3
  <2> HIDE DEF chunk
  <2>6. chunk \in Seq(Nat) /\ Len(chunk) = read BY <1>1, <2>4, FunctionIsSeq
  <2> QED BY <2>5, <2>6
<1> HIDE DEF chunk
<1>4. /\ received'[c] = received[c] \o chunk
      /\ received'[c] \in Seq(Nat)
      /\ Len(received'[c]) = Len(received[c]) + read
      /\ \A i \in 1..Len(received[c]) : received'[c][i] = received[c][i]
      /\ \A i \in 1..Len(received'[c]) : i > Len(received[c]) =>
            received'[c][i] = sent - Available(c) + (i - Len(received[c]))
  <2>1. received'[c] = received[c] \o chunk
    BY <1>2 DEF IInv, TypeOK
  <2> DEFINE old == received[c]
             new == received'[c]
  <2> HIDE DEF old, new
  <2>2. old \in Seq(Nat) /\ new = old \o chunk BY <1>1, <2>1 DEF old, new
  <2>3. /\ new \in Seq(Nat) /\ Len(new) = Len(old) + read
        /\ \A i \in 1..Len(new) : new[i] = IF i <= Len(old) THEN old[i] ELSE chunk[i - Len(old)]
        /\ Len(old) \in Nat
    <3>1. Len(old) \in Nat BY <2>2, LenProperties
    <3>2. /\ new \in Seq(Nat) /\ Len(new) = Len(old) + Len(chunk)
          /\ \A i \in 1..Len(old) + Len(chunk) :
                new[i] = IF i <= Len(old) THEN old[i] ELSE chunk[i - Len(old)]
      BY <1>3, <2>2, ConcatProperties, Zenon
    <3> QED BY <1>3, <3>1, <3>2, Zenon
  <2>4. \A i \in 1..Len(old) : new[i] = old[i]
    BY <1>1, <2>3
  <2>5. ASSUME NEW i \in 1..Len(new), i > Len(old)
        PROVE  new[i] = sent - Available(c) + (i - Len(old))
    <3>1. i - Len(old) \in 1..read BY <1>1, <2>3, <2>5
    <3>2. new[i] = chunk[i - Len(old)] BY <2>3, <2>5
    <3> QED BY <1>3, <3>1, <3>2
  <2> QED BY <2>1, <2>3, <2>4, <2>5 DEF old, new
<1>5. \A d \in Clients \ {c} : received'[d] = received[d] /\ read_seq'[d] = read_seq[d]
  BY <1>2
<1>6. read_seq'[c] = read_seq[c] + read /\ Available(c)' = Available(c) - read
      /\ Available(c) \in Nat
  <2>1. read_seq'[c] = read_seq[c] + read BY <1>2 DEF IInv, TypeOK
  <2> QED BY <1>1, <1>2, <2>1, SMT DEF Available
<1>7. TypeOK'
  <2>1. received' \in [Clients -> Seq(Nat)]
    <3>1. received' = [received EXCEPT ![c] = received'[c]] BY <1>2 DEF IInv, TypeOK
    <3> QED BY <1>4, <3>1 DEF IInv, TypeOK
  <2>2. read_seq' \in [Clients -> Nat]
    <3>1. read_seq[c] + read \in Nat BY <1>1
    <3> QED BY <1>2, <3>1 DEF IInv, TypeOK
  <2> QED BY <1>2, <2>1, <2>2 DEF IInv, TypeOK
<1>8. CursorWindow'
  <2> SUFFICES ASSUME NEW d \in Clients, active[d]
               PROVE  read_seq'[d] <= write_seq /\ Available(d)' <= Capacity
    BY <1>1, <1>2 DEF CursorWindow
  <2>1. read_seq[d] <= write_seq /\ Available(d) <= Capacity
    BY DEF IInv, CursorWindow
  <2>2. CASE d = c BY <1>1, <1>6, <2>1, <2>2, SMT DEF Available
  <2>3. CASE d # c BY <1>2, <1>5, <2>1, <2>3 DEF Available
  <2> QED BY <2>2, <2>3
<1>9. UnreadIntact'
  <2> SUFFICES ASSUME NEW d \in Clients, active[d], NEW seq \in read_seq'[d] .. write_seq - 1
               PROVE  data[seq % Capacity] = sent - write_seq + 1 + seq
    BY <1>2 DEF UnreadIntact
  <2>1. seq \in read_seq[d] .. write_seq - 1
    <3>1. read_seq[d] \in Nat BY DEF IInv, TypeOK
    <3>2. read_seq'[d] \in Nat /\ read_seq[d] <= read_seq'[d]
      BY <1>1, <1>5, <1>6, <3>1
    <3> QED BY <1>1, <3>1, <3>2, SMT
  <2> QED BY <2>1 DEF IInv, UnreadIntact
<1>10. EveryByteAccounted'
  <2> SUFFICES ASSUME NEW d \in Clients, active[d]
               PROVE  sent - since[d] =
                          Len(received'[d]) + Available(d)' + lost[d] + cleared[d]
    BY <1>2 DEF EveryByteAccounted
  <2>1. sent - since[d] = Len(received[d]) + Available(d) + lost[d] + cleared[d]
    BY DEF IInv, EveryByteAccounted
  <2>2. CASE d = c
    <3> DEFINE n == Len(received[c])
               nn == Len(received'[c])
               a == Available(c)
               aa == Available(c)'
    <3> HIDE DEF n, nn, a, aa
    <3>1. nn = n + read /\ n \in Nat BY <1>1, <1>4, LenProperties DEF n, nn
    <3>2. aa = a - read /\ a \in Nat /\ read \in Nat BY <1>1, <1>6 DEF a, aa
    <3>3. lost[c] \in Nat /\ cleared[c] \in Nat /\ since[c] \in Nat BY DEF IInv, TypeOK
    <3>4. sent - since[c] = n + a + lost[c] + cleared[c] BY <2>1, <2>2 DEF n, a
    <3>5. sent - since[c] = nn + aa + lost[c] + cleared[c]
      BY <1>1, <3>1, <3>2, <3>3, <3>4, SMT
    <3> QED BY <2>2, <3>5 DEF nn, aa
  <2>3. CASE d # c
    <3>1. Available(d)' = Available(d) BY <1>2, <1>5, <2>3 DEF Available
    <3> QED BY <1>5, <2>1, <2>3, <3>1
  <2> QED BY <2>2, <2>3
<1>11. \A i \in 1..Len(received[c]) :
          /\ received[c][i] \in Nat
          /\ received[c][i] <= sent - Available(c)
          /\ received[c][i] > since[c]
  BY <1>1 DEF IInv, ReceivedBehindCursor, StreamInOrder
<1>12. StreamInOrder'
  <2> SUFFICES ASSUME NEW d \in Clients
               PROVE  /\ \A i \in 1..Len(received'[d]) : received'[d][i] > since[d]
                      /\ \A i, j \in 1..Len(received'[d]) :
                            i < j => received'[d][i] < received'[d][j]
    BY <1>2 DEF StreamInOrder
  <2>1. CASE d # c
    BY <1>5, <2>1 DEF IInv, StreamInOrder
  <2>2. CASE d = c
    <3>1. since[c] <= sent - Available(c) /\ since[c] \in Nat
      <4>1. since[c] \in Nat /\ lost[c] \in Nat /\ cleared[c] \in Nat
        BY DEF IInv, TypeOK
      <4>2. sent - since[c] = Len(received[c]) + Available(c) + lost[c] + cleared[c]
        BY <1>1 DEF IInv, EveryByteAccounted
      <4> DEFINE n == Len(received[c])
                 a == Available(c)
      <4> HIDE DEF n, a
      <4>3. n \in Nat /\ a \in Nat BY <1>1, <1>6, LenProperties DEF n, a
      <4>4. sent - since[c] = n + a + lost[c] + cleared[c] BY <4>2 DEF n, a
      <4>5. since[c] <= sent - a BY <1>1, <4>1, <4>3, <4>4, SMT
      <4> QED BY <4>1, <4>5 DEF a
    <3> DEFINE n == Len(received[c])
               m == Len(received'[c])
    <3>2. n \in Nat /\ m \in Nat /\ sent - Available(c) \in Int
      BY <1>1, <1>4, <1>6, LenProperties
    <3>3. ASSUME NEW i \in 1..m PROVE received'[c][i] > since[c]
      <4>1. CASE i <= n BY <1>4, <1>11, <3>2, <4>1
      <4>2. CASE i > n
        <5>1. received'[c][i] = sent - Available(c) + (i - n) BY <1>4, <3>2, <4>2
        <5> QED BY <3>1, <3>2, <4>2, <5>1, SMT
      <4> QED BY <3>2, <4>1, <4>2
    <3>4. ASSUME NEW i \in 1..m, NEW j \in 1..m, i < j
          PROVE  received'[c][i] < received'[c][j]
      <4>1. CASE j <= n
        <5>1. i \in 1..n /\ j \in 1..n BY <3>2, <3>4, <4>1
        <5>2. received[c][i] < received[c][j] BY <3>4, <5>1 DEF IInv, StreamInOrder
        <5> QED BY <1>4, <5>1, <5>2
      <4>2. CASE i <= n /\ j > n
        <5>1. received'[c][j] = sent - Available(c) + (j - n) BY <1>4, <3>2, <4>2
        <5>2. i \in 1..n BY <3>2, <4>2
        <5>3. received'[c][i] <= sent - Available(c) /\ received'[c][i] \in Nat
          BY <1>4, <1>11, <5>2
        <5> QED BY <3>2, <4>2, <5>1, <5>3, SMT
      <4>3. CASE i > n
        <5>0. j > n BY <3>2, <3>4, <4>3
        <5>1. received'[c][j] = sent - Available(c) + (j - n) BY <1>4, <3>2, <5>0
        <5>2. received'[c][i] = sent - Available(c) + (i - n) BY <1>4, <3>2, <4>3
        <5> QED BY <3>2, <3>4, <5>1, <5>2, SMT
      <4> QED BY <3>2, <4>1, <4>2, <4>3
    <3> QED BY <2>2, <3>3, <3>4
  <2> QED BY <2>1, <2>2
<1>13. ReceivedBehindCursor'
  <2> SUFFICES ASSUME NEW d \in Clients, active[d], NEW i \in 1..Len(received'[d])
               PROVE  received'[d][i] <= sent - Available(d)'
    BY <1>2 DEF ReceivedBehindCursor
  <2>1. CASE d # c
    <3>1. Available(d)' = Available(d) BY <1>2, <1>5, <2>1 DEF Available
    <3> QED BY <1>5, <2>1, <3>1 DEF IInv, ReceivedBehindCursor
  <2>2. CASE d = c
    <3> DEFINE n == Len(received[c])
    <3>1. n \in Nat /\ sent - Available(c) \in Int /\ read \in Nat
          /\ sent - Available(c)' = sent - Available(c) + read
      BY <1>1, <1>6, SMT
    <3>2. CASE i <= n
      <4>1. i \in 1..n BY <2>2, <3>1, <3>2
      <4>2. received'[c][i] <= sent - Available(c) /\ received'[c][i] \in Nat
        BY <1>4, <1>11, <4>1
      <4> QED BY <2>2, <3>1, <4>2, SMT
    <3>3. CASE i > n
      <4>1. received'[c][i] = sent - Available(c) + (i - n)
        BY <1>4, <2>2, <3>3
      <4>2. i <= n + read /\ i \in Nat
        BY <1>4, <2>2, <3>1
      <4> HIDE DEF n
      <4> QED BY <2>2, <3>1, <3>3, <4>1, <4>2, SMT
    <3> QED BY <3>1, <3>2, <3>3
  <2> QED BY <2>1, <2>2
<1> QED BY <1>7, <1>8, <1>9, <1>10, <1>12, <1>13 DEF IInv

\* bridge_usb_to_ws_client_activate: a subscription starts with nothing to read.
LEMMA ActivatePreserves ==
    ASSUME IInv, NEW c \in Clients, Activate(c)
    PROVE  IInv'
<1> USE FanoutAssumption
<1>1. /\ write_seq \in Nat /\ sent \in Nat /\ write_seq <= sent
      /\ UNCHANGED <<data, write_seq, sent>>
  BY DEF IInv, TypeOK, CursorWindow, Activate
<1>2. /\ read_seq'[c] = write_seq /\ active'[c] /\ received'[c] = <<>>
      /\ lost'[c] = 0 /\ since'[c] = sent /\ cleared'[c] = 0
  BY DEF IInv, TypeOK, Activate
<1>3. \A d \in Clients \ {c} :
          /\ read_seq'[d] = read_seq[d] /\ active'[d] = active[d] /\ received'[d] = received[d]
          /\ lost'[d] = lost[d] /\ since'[d] = since[d] /\ cleared'[d] = cleared[d]
          /\ Available(d)' = Available(d)
  BY DEF IInv, TypeOK, Activate, Available
<1>4. Available(c)' = 0
  <2>1. Available(c)' = write_seq - write_seq BY <1>1, <1>2 DEF Available
  <2> QED BY <1>1, <2>1
<1>5. Len(received'[c]) = 0
  BY <1>2, EmptySeq
<1>6. TypeOK'
  <2>1. <<>> \in Seq(Nat) BY EmptySeq
  <2> QED BY <1>1, <2>1 DEF IInv, TypeOK, Activate
<1>7. CursorWindow'
  <2> SUFFICES ASSUME NEW d \in Clients, active'[d]
               PROVE  read_seq'[d] <= write_seq /\ Available(d)' <= Capacity
    BY <1>1 DEF CursorWindow
  <2>1. CASE d = c BY <1>1, <1>2, <1>4, <2>1
  <2>2. CASE d # c BY <1>3, <2>2 DEF IInv, CursorWindow
  <2> QED BY <2>1, <2>2
<1>8. UnreadIntact'
  <2> SUFFICES ASSUME NEW d \in Clients, active'[d], NEW seq \in read_seq'[d] .. write_seq - 1
               PROVE  data[seq % Capacity] = sent - write_seq + 1 + seq
    BY <1>1 DEF UnreadIntact
  <2>1. d # c BY <1>1, <1>2
  <2> QED BY <1>3, <2>1 DEF IInv, UnreadIntact
<1>9. EveryByteAccounted'
  <2> SUFFICES ASSUME NEW d \in Clients, active'[d]
               PROVE  sent - since'[d] =
                          Len(received'[d]) + Available(d)' + lost'[d] + cleared'[d]
    BY <1>1 DEF EveryByteAccounted
  <2>1. CASE d = c BY <1>1, <1>2, <1>4, <1>5, <2>1
  <2>2. CASE d # c BY <1>3, <2>2 DEF IInv, EveryByteAccounted
  <2> QED BY <2>1, <2>2
<1>10. StreamInOrder'
  <2> SUFFICES ASSUME NEW d \in Clients
               PROVE  /\ \A i \in 1..Len(received'[d]) : received'[d][i] > since'[d]
                      /\ \A i, j \in 1..Len(received'[d]) :
                            i < j => received'[d][i] < received'[d][j]
    BY DEF StreamInOrder
  <2>1. CASE d = c BY <1>5, <2>1
  <2>2. CASE d # c BY <1>3, <2>2 DEF IInv, StreamInOrder
  <2> QED BY <2>1, <2>2
<1>11. ReceivedBehindCursor'
  <2> SUFFICES ASSUME NEW d \in Clients, active'[d], NEW i \in 1..Len(received'[d])
               PROVE  received'[d][i] <= sent - Available(d)'
    BY <1>1 DEF ReceivedBehindCursor
  <2>1. CASE d = c BY <1>5, <2>1
  <2>2. CASE d # c BY <1>3, <2>2 DEF IInv, ReceivedBehindCursor
  <2> QED BY <2>1, <2>2
<1> QED BY <1>6, <1>7, <1>8, <1>9, <1>10, <1>11 DEF IInv

\* bridge_usb_to_ws_client_deactivate: a reader leaves, the others keep their place.
LEMMA DeactivatePreserves ==
    ASSUME IInv, NEW c \in Clients, Deactivate(c)
    PROVE  IInv'
<1>1. /\ write_seq \in Nat /\ UNCHANGED <<data, write_seq, sent, received, lost, since, cleared>>
      /\ ~active'[c]
  BY DEF IInv, TypeOK, Deactivate
<1>2. \A d \in Clients : active'[d] =>
          active[d] /\ read_seq'[d] = read_seq[d] /\ Available(d)' = Available(d)
  BY DEF IInv, TypeOK, Deactivate, Available
<1>3. TypeOK' BY <1>1 DEF IInv, TypeOK, Deactivate
<1>4. CursorWindow' BY <1>1, <1>2 DEF IInv, CursorWindow
<1>5. UnreadIntact' BY <1>1, <1>2 DEF IInv, UnreadIntact
<1>6. EveryByteAccounted'
  <2> SUFFICES ASSUME NEW d \in Clients, active'[d]
               PROVE  sent - since[d] = Len(received[d]) + Available(d)' + lost[d] + cleared[d]
    BY <1>1 DEF EveryByteAccounted
  <2> QED BY <1>2 DEF IInv, EveryByteAccounted
<1>7. StreamInOrder' BY <1>1 DEF IInv, StreamInOrder
<1>8. ReceivedBehindCursor' BY <1>1, <1>2 DEF IInv, ReceivedBehindCursor
<1> QED BY <1>3, <1>4, <1>5, <1>6, <1>7, <1>8 DEF IInv

\* bridge_usb_to_ws_reset: the sequence numbers restart with every cursor at the writer.
LEMMA ResetPreserves == IInv /\ Reset => IInv'
<1> SUFFICES ASSUME IInv, Reset PROVE IInv'
  OBVIOUS
<1> USE FanoutAssumption
<1>1. /\ write_seq' = 0 /\ UNCHANGED <<data, active, sent, received, lost, since>>
      /\ write_seq \in Nat /\ sent \in Nat
  BY DEF IInv, TypeOK, Reset
<1>2. \A c \in Clients :
          /\ read_seq'[c] = 0 /\ Available(c)' = 0
          /\ active[c] => cleared'[c] = cleared[c] + Available(c) /\ Available(c) \in Nat
  <2> SUFFICES ASSUME NEW c \in Clients
               PROVE  /\ read_seq'[c] = 0 /\ Available(c)' = 0
                      /\ active[c] => cleared'[c] = cleared[c] + Available(c)
                                       /\ Available(c) \in Nat
    OBVIOUS
  <2>1. read_seq'[c] = 0 /\ (active[c] => cleared'[c] = cleared[c] + Available(c))
    BY DEF Reset
  <2>2. Available(c)' = 0 BY <1>1, <2>1 DEF Available
  <2>3. active[c] => Available(c) \in Nat
    BY SMT DEF IInv, TypeOK, CursorWindow, Available
  <2> QED BY <2>1, <2>2, <2>3
<1>3. TypeOK'
  <2>1. cleared' \in [Clients -> Nat]
    <3>1. \A c \in Clients : cleared[c] \in Nat BY DEF IInv, TypeOK
    <3>2. \A c \in Clients : active[c] => cleared[c] + Available(c) \in Nat BY <1>2, <3>1
    <3> QED BY <3>1, <3>2 DEF Reset
  <2> QED BY <2>1 DEF IInv, TypeOK, Reset
<1>4. CursorWindow' BY <1>1, <1>2 DEF CursorWindow
<1>5. UnreadIntact' BY <1>1, <1>2 DEF UnreadIntact
<1>6. EveryByteAccounted'
  <2> SUFFICES ASSUME NEW c \in Clients, active[c]
               PROVE  sent - since[c] = Len(received[c]) + Available(c)' + lost[c] + cleared'[c]
    BY <1>1 DEF EveryByteAccounted
  <2> DEFINE n == Len(received[c])
             a == Available(c)
             aa == Available(c)'
  <2>1. n \in Nat
    <3>1. received[c] \in Seq(Nat) BY DEF IInv, TypeOK
    <3> QED BY <3>1, LenProperties
  <2>2. sent - since[c] = n + a + lost[c] + cleared[c]
    BY DEF IInv, EveryByteAccounted
  <2>3. aa = 0 /\ cleared'[c] = cleared[c] + a /\ a \in Nat BY <1>2
  <2>4. lost[c] \in Nat /\ cleared[c] \in Nat BY DEF IInv, TypeOK
  <2> HIDE DEF n, a, aa
  <2>5. sent - since[c] = n + aa + lost[c] + cleared'[c] BY <2>1, <2>2, <2>3, <2>4, SMT
  <2> QED BY <2>5 DEF n, aa
<1>7. StreamInOrder' BY <1>1 DEF IInv, StreamInOrder
<1>8. ReceivedBehindCursor'
  <2> SUFFICES ASSUME NEW c \in Clients, active[c], NEW i \in 1..Len(received[c])
               PROVE  received[c][i] <= sent - Available(c)'
    BY <1>1 DEF ReceivedBehindCursor
  <2>1. received[c][i] <= sent - Available(c) BY DEF IInv, ReceivedBehindCursor
  <2>2. received[c][i] \in Nat
    <3>1. received[c] \in Seq(Nat) BY DEF IInv, TypeOK
    <3> QED BY <3>1, ElementOfSeq
  <2> QED BY <1>1, <1>2, <2>1, <2>2, SMT
<1> QED BY <1>3, <1>4, <1>5, <1>6, <1>7, <1>8 DEF IInv

-----------------------------------------------------------------------------
\* Every reachable state satisfies the strengthened invariant.
THEOREM Inductive == Spec => []IInv
<1>1. Init => IInv BY InitEstablishes
<1>2. IInv /\ [Next]_vars => IInv'
  <2> SUFFICES ASSUME IInv, [Next]_vars PROVE IInv'
    OBVIOUS
  <2>1. ASSUME NEW len \in 1..MaxChunk, Broadcast(len) PROVE IInv'
    BY <2>1, BroadcastPreserves
  <2>2. ASSUME NEW c \in Clients, NEW max_len \in 1..MaxPop, Pop(c, max_len) PROVE IInv'
    BY <2>2, PopPreserves
  <2>3. ASSUME NEW c \in Clients, Activate(c) PROVE IInv'
    BY <2>3, ActivatePreserves
  <2>4. ASSUME NEW c \in Clients, Deactivate(c) PROVE IInv'
    BY <2>4, DeactivatePreserves
  <2>5. CASE Reset
    BY <2>5, ResetPreserves
  <2>6. CASE UNCHANGED vars
    BY <2>6 DEF vars, ring, IInv, TypeOK, CursorWindow, UnreadIntact, EveryByteAccounted,
                StreamInOrder, ReceivedBehindCursor, Available
  <2> QED BY <2>1, <2>2, <2>3, <2>4, <2>5, <2>6 DEF Next
<1> QED BY <1>1, <1>2, PTL DEF Spec

\* The ring's variables keep their types under every interleaving.
THEOREM TypeCorrect == Spec => []TypeOK
<1>1. IInv => TypeOK BY DEF IInv
<1> QED BY <1>1, Inductive, PTL

\* No subscriber's cursor leaves the window the storage covers.
THEOREM CursorsInWindow == Spec => []CursorWindow
<1>1. IInv => CursorWindow BY DEF IInv
<1> QED BY <1>1, Inductive, PTL

\* What a subscriber has still to read is in the ring, whatever its size and however
\* long a transfer is.
THEOREM UnreadBytesIntact == Spec => []UnreadIntact
<1>1. IInv => UnreadIntact BY DEF IInv
<1> QED BY <1>1, Inductive, PTL

\* No byte of a subscription is lost without being counted.
THEOREM NoSilentLoss == Spec => []EveryByteAccounted
<1>1. IInv => EveryByteAccounted BY DEF IInv
<1> QED BY <1>1, Inductive, PTL

\* Terminals see the device's bytes in order and without repetition.
THEOREM InOrder == Spec => []StreamInOrder
<1>1. IInv => StreamInOrder BY DEF IInv
<1> QED BY <1>1, Inductive, PTL

-----------------------------------------------------------------------------
(* The ring implements LossyStream.  What waits for a client is known from  *)
(* the counters alone: the newest bytes of the stream, as many as its       *)
(* cursor is behind.                                                        *)

\* The newest n of m bytes.
Latest(n, m) == [i \in 1..n |-> m - n + i]

Waiting(c) == IF active[c] THEN Stored(read_seq[c], Available(c)) ELSE <<>>

\* Bytes that follow the newest ones are the newest with them.
LEMMA LatestGrow ==
    ASSUME NEW n \in Nat, NEW m \in Nat, NEW len \in Nat, n <= m
    PROVE  /\ Latest(n, m) \in Seq(Nat) /\ Len(Latest(n, m)) = n
           /\ Latest(n, m) \o [i \in 1..len |-> m + i] = Latest(n + len, m + len)
<1> DEFINE s == Latest(n, m)
           t == [i \in 1..len |-> m + i]
           u == Latest(n + len, m + len)
<1>1. s \in Seq(Nat) /\ Len(s) = n
  <2>1. s \in [1..n -> Nat] BY SMT DEF Latest
  <2> QED BY <2>1, FunctionIsSeq
<1>2. t \in Seq(Nat) /\ Len(t) = len
  <2>1. t \in [1..len -> Nat] BY SMT
  <2> QED BY <2>1, FunctionIsSeq
<1>3. u \in Seq(Nat) /\ Len(u) = n + len
  <2>1. u \in [1..(n + len) -> Nat] BY SMT DEF Latest
  <2> QED BY <2>1, FunctionIsSeq
<1>4. /\ s \o t \in Seq(Nat) /\ Len(s \o t) = n + len
      /\ \A i \in 1..(n + len) : (s \o t)[i] = IF i <= n THEN s[i] ELSE t[i - n]
  <2> HIDE DEF s, t
  <2> QED BY <1>1, <1>2, ConcatProperties
<1>5. \A i \in 1..(n + len) : (s \o t)[i] = u[i]
  <2> SUFFICES ASSUME NEW i \in 1..(n + len) PROVE (s \o t)[i] = u[i]
    OBVIOUS
  <2>1. u[i] = m - n + i BY SMT DEF Latest
  <2>2. i <= n => s[i] = m - n + i BY SMT DEF Latest
  <2>3. i > n => t[i - n] = m + (i - n) BY SMT
  <2> HIDE DEF s, t, u
  <2> QED BY <1>4, <2>1, <2>2, <2>3, SMT
<1>6. s \o t = u
  <2> HIDE DEF s, t, u
  <2> QED BY <1>3, <1>4, <1>5, SeqEqual
<1> QED BY <1>1, <1>6

\* Without the oldest k of them they are the newest n - k.
LEMMA LatestRest ==
    ASSUME NEW n \in Nat, NEW m \in Nat, NEW k \in 0..n, n <= m
    PROVE  SubSeq(Latest(n, m), k + 1, n) = Latest(n - k, m)
<1> DEFINE s == Latest(n, m)
           r == SubSeq(s, k + 1, n)
           u == Latest(n - k, m)
<1>1. s \in Seq(Nat) /\ Len(s) = n BY LatestGrow, 0 \in Nat
<1>2. /\ r \in Seq(Nat) /\ Len(r) = n - k
      /\ \A i \in 1..(n - k) : r[i] = s[k + i]
  <2> HIDE DEF s
  <2>1. /\ Len(SubSeq(s, k + 1, n)) = IF k + 1 <= n THEN n - (k + 1) + 1 ELSE 0
        /\ \A i \in 1..(n - (k + 1) + 1) : SubSeq(s, k + 1, n)[i] = s[k + 1 + i - 1]
        /\ SubSeq(s, k + 1, n) \in Seq(Nat)
    BY <1>1, SubSeqProperties, SMT
  <2> QED BY <2>1, SMT
<1>3. u \in Seq(Nat) /\ Len(u) = n - k
  <2>1. u \in [1..(n - k) -> Nat] BY SMT DEF Latest
  <2> QED BY <2>1, FunctionIsSeq
<1>4. \A i \in 1..(n - k) : r[i] = u[i]
  <2> SUFFICES ASSUME NEW i \in 1..(n - k) PROVE r[i] = u[i]
    OBVIOUS
  <2>1. s[k + i] = m - n + (k + i) BY SMT DEF Latest
  <2>2. u[i] = m - (n - k) + i BY SMT DEF Latest
  <2> HIDE DEF r, s, u
  <2> QED BY <1>2, <2>1, <2>2, SMT
<1> HIDE DEF r, u
<1>5. r = u BY <1>2, <1>3, <1>4, SeqEqual
<1> QED BY <1>5 DEF r, u

\* A queue is the newest bytes of the stream.
QueuesAreLatest ==
    \A c \in Clients :
        /\ active[c] => Available(c) \in 0..Capacity /\ Available(c) <= sent
        /\ Waiting(c) = IF active[c] THEN Latest(Available(c), sent) ELSE <<>>

LEMMA WaitingIsLatest == IInv => QueuesAreLatest
<1> SUFFICES ASSUME IInv, NEW c \in Clients, active[c]
             PROVE  /\ Available(c) \in 0..Capacity /\ Available(c) <= sent
                    /\ Waiting(c) = Latest(Available(c), sent)
  BY DEF Waiting, QueuesAreLatest
<1>1. read_seq[c] \in Nat /\ write_seq \in Nat /\ sent \in Nat BY DEF IInv, TypeOK
<1>2. write_seq <= sent /\ read_seq[c] <= write_seq /\ Available(c) <= Capacity
  BY DEF IInv, CursorWindow
<1>3. Available(c) \in 0..Capacity /\ Available(c) <= sent
  BY <1>1, <1>2, FanoutAssumption, SMT DEF Available
<1>4. ASSUME NEW i \in 1..Available(c)
      PROVE  data[(read_seq[c] + i - 1) % Capacity] = sent - Available(c) + i
  <2>1. read_seq[c] + i - 1 \in read_seq[c] .. write_seq - 1
    BY <1>1, <1>2, <1>3, SMT DEF Available
  <2>2. data[(read_seq[c] + i - 1) % Capacity] = sent - write_seq + 1 + (read_seq[c] + i - 1)
    BY <2>1 DEF IInv, UnreadIntact
  <2> QED BY <1>1, <2>2, SMT DEF Available
<1>5. Stored(read_seq[c], Available(c)) = Latest(Available(c), sent)
  BY <1>4 DEF Stored, Latest
<1> QED BY <1>3, <1>5 DEF Waiting

\* The queues of LossyStream.
Queue == [c \in Clients |-> Waiting(c)]

LEMMA QueueIs == Queue = [c \in Clients |-> IF active[c] THEN Stored(read_seq[c], Available(c)) ELSE <<>>]
BY DEF Queue, Waiting

\* The broadcast moves a cursor exactly past what does not fit.
LEMMA BroadcastAvailable ==
    ASSUME IInv, NEW len \in 1..MaxChunk, Broadcast(len), NEW c \in Clients, active[c]
    PROVE  /\ Available(c)' = Available(c) + len - Dropped(c, len)
           /\ Dropped(c, len) = IF Available(c) + len > Capacity
                                THEN Available(c) + len - Capacity ELSE 0
<1>1. read_seq[c] \in Nat /\ write_seq \in Nat /\ len \in Nat /\ Capacity \in Nat
  BY FanoutAssumption, SMT DEF IInv, TypeOK
<1>2. read_seq[c] <= write_seq BY DEF IInv, CursorWindow
<1>3. Dropped(c, len) = IF Available(c) + len > Capacity
                        THEN Available(c) + len - Capacity ELSE 0
  BY <1>1, <1>2, SMT DEF Dropped, OldestKept, NewWriteSeq, Available
<1>4. read_seq'[c] = read_seq[c] + Dropped(c, len) /\ write_seq' = write_seq + len
  BY DEF Broadcast, NewWriteSeq
<1>5. Dropped(c, len) \in Int BY <1>1, <1>2, <1>3, SMT DEF Available
<1>6. Available(c)' = Available(c) + len - Dropped(c, len)
  <2> DEFINE d == Dropped(c, len)
  <2> HIDE DEF d
  <2>1. d \in Int /\ read_seq'[c] = read_seq[c] + d BY <1>4, <1>5 DEF d
  <2>2. Available(c)' = Available(c) + len - d
    BY <1>1, <1>4, <2>1, SMT DEF Available
  <2> QED BY <2>2 DEF d
<1> QED BY <1>3, <1>6

\* What is kept of the bytes that wait and those that came.
LEMMA NewestOfLatest ==
    ASSUME NEW n \in Nat, NEW m \in Nat, n <= m
    PROVE  Queues!Newest(Latest(n, m)) = Latest(IF n > Capacity THEN Capacity ELSE n, m)
<1>1. Len(Latest(n, m)) = n BY LatestGrow, 0 \in Nat
<1>2. CASE n > Capacity
  <2>1. n - Capacity \in 0..n /\ n - (n - Capacity) = Capacity
    BY <1>2, FanoutAssumption, SMT
  <2>2. SubSeq(Latest(n, m), n - Capacity + 1, n) = Latest(Capacity, m)
    <3> DEFINE k == n - Capacity
    <3>1. k \in 0..n /\ n - k = Capacity BY <2>1
    <3> HIDE DEF k
    <3>2. SubSeq(Latest(n, m), k + 1, n) = Latest(n - k, m) BY <3>1, LatestRest
    <3> QED BY <3>1, <3>2 DEF k
  <2> QED BY <1>1, <1>2, <2>2 DEF Queues!Newest
<1>3. CASE ~(n > Capacity)
  BY <1>1, <1>3 DEF Queues!Newest
<1> QED BY <1>2, <1>3

LEMMA BroadcastSends ==
    ASSUME IInv, IInv', NEW len \in 1..MaxChunk, Broadcast(len)
    PROVE  Queues!Send(len)
<1> DEFINE more == [i \in 1..len |-> sent + i]
           arrived(c) == Queue[c] \o more
<1>1. len \in Nat /\ sent \in Nat /\ sent' = sent + len /\ sent' \in Nat /\ active' = active
  BY FanoutAssumption, SMT DEF IInv, TypeOK, Broadcast
<1>2. ASSUME NEW c \in Clients, active[c]
      PROVE  /\ Queue'[c] = Queues!Newest(arrived(c))
             /\ lost[c] + Dropped(c, len) = lost[c] + Len(arrived(c)) - Len(Queue'[c])
  <2> DEFINE a == Available(c)
  <2>1. a \in 0..Capacity /\ a <= sent /\ Queue[c] = Latest(a, sent)
    BY <1>2, WaitingIsLatest DEF Queue, QueuesAreLatest
  <2>2. Available(c)' \in 0..Capacity /\ Available(c)' <= sent'
        /\ Queue'[c] = Latest(Available(c)', sent')
    <3>1. QueuesAreLatest' BY WaitingIsLatest, PTL
    <3>2. Queue'[c] = Waiting(c)' BY DEF Queue
    <3> QED BY <1>1, <1>2, <3>1, <3>2 DEF QueuesAreLatest
  <2>3. /\ Available(c)' = a + len - Dropped(c, len)
        /\ Dropped(c, len) = IF a + len > Capacity THEN a + len - Capacity ELSE 0
    BY <1>2, BroadcastAvailable
  <2>4. arrived(c) = Latest(a + len, sent + len)
    <3> HIDE DEF a
    <3>1. a \in Nat BY <2>1, FanoutAssumption, SMT
    <3>2. Latest(a, sent) \o more = Latest(a + len, sent + len)
      BY <1>1, <2>1, <3>1, LatestGrow
    <3> QED BY <2>1, <3>2
  <2>5. a \in Nat /\ a + len \in Nat /\ a + len <= sent + len /\ Capacity \in Nat
    <3> HIDE DEF a
    <3> QED BY <1>1, <2>1, FanoutAssumption, SMT
  <2>6. Available(c)' = IF a + len > Capacity THEN Capacity ELSE a + len
    <3> HIDE DEF a
    <3> QED BY <1>1, <2>3, <2>5, SMT
  <2>7. Queues!Newest(arrived(c)) = Queue'[c]
    <3> HIDE DEF a
    <3>1. Queues!Newest(Latest(a + len, sent + len)) =
             Latest(IF a + len > Capacity THEN Capacity ELSE a + len, sent + len)
      BY <1>1, <2>5, NewestOfLatest
    <3> QED BY <1>1, <2>2, <2>4, <2>6, <3>1
  <2>8. Len(arrived(c)) = a + len
    <3> HIDE DEF a
    <3>1. sent + len \in Nat BY <1>1
    <3> QED BY <2>4, <2>5, <3>1, LatestGrow, 0 \in Nat
  <2>9. Len(Queue'[c]) = Available(c)'
    <3>1. Available(c)' \in Nat BY <2>2, FanoutAssumption, SMT
    <3> QED BY <1>1, <2>2, <3>1, LatestGrow, 0 \in Nat
  <2>10. lost[c] \in Nat BY DEF IInv, TypeOK
  <2> HIDE DEF a, arrived
  <2>11. lost[c] + Dropped(c, len) = lost[c] + Len(arrived(c)) - Len(Queue'[c])
    <3>1. Dropped(c, len) = (a + len) - Available(c)' BY <1>1, <2>3, <2>5, <2>6, SMT
    <3> DEFINE d == Dropped(c, len)
    <3> HIDE DEF d
    <3>2. d = (a + len) - Available(c)' /\ Available(c)' \in Int BY <2>2, <3>1 DEF d
    <3>3. lost[c] + d = lost[c] + Len(arrived(c)) - Len(Queue'[c])
      BY <1>1, <2>5, <2>8, <2>9, <2>10, <3>2, SMT
    <3> QED BY <3>3 DEF d
  <2> QED BY <2>7, <2>11
<1>3. ASSUME NEW c \in Clients, ~active[c] PROVE Queue'[c] = <<>> /\ Dropped(c, len) = 0
  <2>1. Waiting(c)' = <<>> BY <1>1, <1>3 DEF Waiting
  <2> QED BY <1>3, <2>1 DEF Queue, Dropped
<1>4. Queue' = [c \in Clients |-> IF active[c] THEN Queues!Newest(arrived(c)) ELSE <<>>]
  <2>1. Queue' = [c \in Clients |-> Queue'[c]] BY DEF Queue
  <2> HIDE DEF arrived
  <2> QED BY <1>2, <1>3, <2>1
<1>5. lost' = [c \in Clients |->
                  IF active[c] THEN lost[c] + Len(arrived(c)) - Len(Queue'[c]) ELSE lost[c]]
  <2>1. lost' = [c \in Clients |-> lost[c] + Dropped(c, len)] BY DEF Broadcast
  <2>2. \A c \in Clients : ~active[c] => lost[c] + Dropped(c, len) = lost[c]
    <3> SUFFICES ASSUME NEW c \in Clients, ~active[c] PROVE lost[c] + Dropped(c, len) = lost[c]
      OBVIOUS
    <3>1. lost[c] \in Nat BY DEF IInv, TypeOK
    <3>2. Dropped(c, len) = 0 BY <1>3
    <3> QED BY <3>1, <3>2, SMT
  <2> HIDE DEF arrived
  <2> QED BY <1>2, <2>1, <2>2
<1>6. sent + len <= MaxBytes /\ active' = active /\ received' = received BY DEF Broadcast
<1>7. Queue' = [c \in Clients |-> IF active'[c] THEN Stored(read_seq[c], Available(c))' ELSE <<>>]
  BY DEF Queue, Waiting
<1> QED
  <2>1. Queue = [c \in Clients |-> IF active[c] THEN Stored(read_seq[c], Available(c)) ELSE <<>>]
    BY QueueIs
  <2> QED BY <1>1, <1>4, <1>5, <1>6, <1>7, <2>1 DEF Queues!Send

\* Nothing of the stream is an empty queue.
LEMMA LatestOfNone ==
    ASSUME NEW m \in Nat
    PROVE  Latest(0, m) = <<>>
<1>1. Latest(0, m) \in Seq(Nat) /\ Len(Latest(0, m)) = 0
  BY LatestGrow, 0 \in Nat, 0 <= m
<1> QED BY <1>1, EmptySeq

\* The queues of those an operation on one client leaves alone.
LEMMA OthersWait ==
    ASSUME NEW c \in Clients, data' = data, write_seq' = write_seq,
           active'[c] = active[c], read_seq'[c] = read_seq[c]
    PROVE  Waiting(c)' = Waiting(c)
BY DEF Waiting, Stored, Available

LEMMA PopReceives ==
    ASSUME IInv, IInv', NEW c \in Clients, NEW max_len \in 1..MaxPop, Pop(c, max_len)
    PROVE  \E len \in 1..MaxPop : Queues!Receive(c, len)
<1> DEFINE a == Available(c)
           n == IF a < max_len THEN a ELSE max_len
<1>1. /\ active[c] /\ n > 0
      /\ read_seq' = [read_seq EXCEPT ![c] = @ + n]
      /\ received' = [received EXCEPT ![c] = @ \o Stored(read_seq[c], n)]
      /\ UNCHANGED <<data, write_seq, active, sent, lost>>
  BY DEF Pop
<1>2. a \in 0..Capacity /\ a <= sent /\ Waiting(c) = Latest(a, sent) /\ sent \in Nat
  BY <1>1, WaitingIsLatest DEF QueuesAreLatest, IInv, TypeOK
<1>3. a \in Nat /\ n \in 0..a /\ n \in 1..MaxPop
  <2> HIDE DEF a
  <2> QED BY <1>1, <1>2, FanoutAssumption, SMT
<1>4. read_seq[c] \in Nat /\ write_seq \in Nat /\ read_seq \in [Clients -> Nat]
  BY DEF IInv, TypeOK
<1>5. Available(c)' = a - n
  <2>1. n \in Int BY <1>3, SMT
  <2> HIDE DEF n
  <2>2. read_seq'[c] = read_seq[c] + n BY <1>1, <1>4
  <2> QED BY <1>1, <1>4, <2>1, <2>2, SMT DEF Available
<1>6. Waiting(c)' = SubSeq(Waiting(c), n + 1, Len(Waiting(c)))
  <2>1. QueuesAreLatest' BY WaitingIsLatest, PTL
  <2>2. Waiting(c)' = Latest(Available(c)', sent')
    BY <1>1, <2>1 DEF QueuesAreLatest
  <2>3. Len(Waiting(c)) = a
    <3> HIDE DEF a
    <3> QED BY <1>2, <1>3, LatestGrow, 0 \in Nat
  <2> HIDE DEF a, n
  <2>4. SubSeq(Latest(a, sent), n + 1, a) = Latest(a - n, sent)
    BY <1>2, <1>3, LatestRest
  <2> QED BY <1>1, <1>2, <1>5, <2>2, <2>3, <2>4
<1>7. Stored(read_seq[c], n) = SubSeq(Waiting(c), 1, n)
  <2> DEFINE s == Waiting(c)
             t == Stored(read_seq[c], n)
             u == SubSeq(s, 1, n)
  <2>1. s \in Seq(Nat) /\ Len(s) = a
    <3> HIDE DEF a
    <3> QED BY <1>2, <1>3, LatestGrow, 0 \in Nat
  <2>2. s = Stored(read_seq[c], a) BY <1>1 DEF Waiting
  <2>3. \A i \in 1..n : s[i] = t[i]
    <3> SUFFICES ASSUME NEW i \in 1..n PROVE s[i] = t[i]
      OBVIOUS
    <3>1. i \in 1..a
      <4> HIDE DEF a, n
      <4> QED BY <1>3, SMT
    <3>2. s[i] = data[(read_seq[c] + i - 1) % Capacity] BY <2>2, <3>1 DEF Stored
    <3>3. t[i] = data[(read_seq[c] + i - 1) % Capacity] BY DEF Stored
    <3> HIDE DEF s, t
    <3> QED BY <3>2, <3>3
  <2>4. \A i \in 1..n : s[i] \in Nat
    <3> HIDE DEF a, n, s
    <3> QED BY <1>3, <2>1, ElementOfSeq, SMT
  <2>5. u \in Seq(Nat) /\ Len(u) = n /\ \A i \in 1..n : u[i] = s[i]
    <3> HIDE DEF a, n, s
    <3>1. n \in Int /\ 1 <= n BY <1>3, SMT
    <3>2. /\ SubSeq(s, 1, n) \in Seq(Nat)
          /\ Len(SubSeq(s, 1, n)) = IF 1 <= n THEN n - 1 + 1 ELSE 0
          /\ \A i \in 1..(n - 1 + 1) : SubSeq(s, 1, n)[i] = s[1 + i - 1]
      BY <2>4, <3>1, SubSeqProperties
    <3> QED BY <3>1, <3>2, SMT
  <2>6. t \in Seq(Nat) /\ Len(t) = n
    <3>1. t \in [1..n -> Nat]
      <4>1. t = [i \in 1..n |-> t[i]] BY DEF Stored
      <4> HIDE DEF t, s, n
      <4> QED BY <2>3, <2>4, <4>1
    <3>2. n \in Nat
      <4> HIDE DEF n, a
      <4> QED BY <1>3, SMT
    <3> HIDE DEF t, n
    <3> QED BY <3>1, <3>2, FunctionIsSeq
  <2> HIDE DEF s, t, u, n
  <2>7. t = u BY <2>3, <2>5, <2>6, SeqEqual
  <2> QED BY <2>7 DEF t, u, s, n
<1>8. Queue' = [Queue EXCEPT ![c] = SubSeq(@, n + 1, Len(@))]
  <2>1. \A d \in Clients \ {c} : Waiting(d)' = Waiting(d)
    <3> SUFFICES ASSUME NEW d \in Clients, d # c PROVE Waiting(d)' = Waiting(d)
      OBVIOUS
    <3> HIDE DEF n
    <3>1. read_seq'[d] = read_seq[d] BY <1>1, <1>4
    <3> QED BY <1>1, <3>1, OthersWait
  <2>2. Queue' = [d \in Clients |-> Waiting(d)'] /\ Queue = [d \in Clients |-> Waiting(d)]
    BY DEF Queue
  <2> HIDE DEF n
  <2> QED BY <1>6, <2>1, <2>2
<1>9. received' = [received EXCEPT ![c] = @ \o SubSeq(Queue[c], 1, n)]
  <2> HIDE DEF n
  <2> QED BY <1>1, <1>7 DEF Queue
<1>10. n <= Len(Queue[c])
  <2>1. Queue[c] = Waiting(c) BY DEF Queue
  <2>2. Len(Waiting(c)) = a
    <3> HIDE DEF a
    <3> QED BY <1>2, <1>3, LatestGrow, 0 \in Nat
  <2> HIDE DEF a, n
  <2> QED BY <1>3, <2>1, <2>2, SMT
<1> HIDE DEF n
<1>11. PICK k \in 1..MaxPop : k = n BY <1>3
<1>12. Queues!Receive(c, k)
  <2>1. Queue = [d \in Clients |-> IF active[d] THEN Stored(read_seq[d], Available(d)) ELSE <<>>]
    BY QueueIs
  <2>2. Queue' = [d \in Clients |-> IF active[d] THEN Stored(read_seq[d], Available(d)) ELSE <<>>]'
    BY DEF Queue, Waiting
  <2> QED BY <1>1, <1>8, <1>9, <1>10, <1>11, <2>1, <2>2 DEF Queues!Receive
<1> QED BY <1>12

\* A client's queue is empty once its cursor is at the writer, or it left.
LEMMA CaughtUp ==
    ASSUME NEW c \in Clients, write_seq' \in Nat, read_seq'[c] = write_seq'
    PROVE  Waiting(c)' = <<>>
<1>1. Available(c)' = 0
  <2>1. Available(c)' = write_seq' - read_seq'[c] BY DEF Available
  <2> DEFINE w == write_seq'
  <2>2. w \in Nat /\ Available(c)' = w - w BY <2>1
  <2> HIDE DEF w
  <2> QED BY <2>2, SMT
<1>2. Stored(read_seq[c], Available(c))' = <<>>
  <2>1. Stored(read_seq[c], Available(c))' = [i \in 1..0 |-> data'[(read_seq'[c] + i - 1) % Capacity]]
    BY <1>1 DEF Stored
  <2>2. Latest(0, 0) = [i \in 1..0 |-> 0 - 0 + i] BY DEF Latest
  <2>3. 1..0 = {} BY SMT
  <2> QED BY <2>1, <2>2, <2>3, LatestOfNone, 0 \in Nat
<1> QED BY <1>2 DEF Waiting

LEMMA SubscriptionMoves ==
    ASSUME IInv, NEW c \in Clients, data' = data, write_seq' = write_seq,
           read_seq' = [read_seq EXCEPT ![c] = write_seq],
           NEW b \in BOOLEAN, active' = [active EXCEPT ![c] = b]
    PROVE  Queue' = [Queue EXCEPT ![c] = <<>>]
<1>1. read_seq \in [Clients -> Nat] /\ write_seq \in Nat /\ active \in [Clients -> BOOLEAN]
  BY DEF IInv, TypeOK
<1>2. Waiting(c)' = <<>> BY <1>1, CaughtUp
<1>3. \A d \in Clients \ {c} : Waiting(d)' = Waiting(d)
  <2> SUFFICES ASSUME NEW d \in Clients, d # c PROVE Waiting(d)' = Waiting(d)
    OBVIOUS
  <2> QED BY <1>1, OthersWait
<1>4. Queue' = [d \in Clients |-> Waiting(d)'] /\ Queue = [d \in Clients |-> Waiting(d)]
  BY DEF Queue
<1> QED BY <1>2, <1>3, <1>4

LEMMA SubscriptionSteps ==
    ASSUME IInv, NEW c \in Clients
    PROVE  (Activate(c) => Queues!Join(c)) /\ (Deactivate(c) => Queues!Leave(c))
<1>1. Queue = [d \in Clients |-> IF active[d] THEN Stored(read_seq[d], Available(d)) ELSE <<>>]
  BY QueueIs
<1>2. Queue' = [d \in Clients |-> IF active[d] THEN Stored(read_seq[d], Available(d)) ELSE <<>>]'
  BY DEF Queue, Waiting
<1>3. ASSUME Activate(c) PROVE Queues!Join(c)
  <2>1. Queue' = [Queue EXCEPT ![c] = <<>>] BY <1>3, SubscriptionMoves DEF Activate
  <2> QED BY <1>1, <1>2, <1>3, <2>1 DEF Activate, Queues!Join
<1>4. ASSUME Deactivate(c) PROVE Queues!Leave(c)
  <2>1. Queue' = [Queue EXCEPT ![c] = <<>>] BY <1>4, SubscriptionMoves DEF Deactivate
  <2> QED BY <1>1, <1>2, <1>4, <2>1 DEF Deactivate, Queues!Leave
<1> QED BY <1>3, <1>4

LEMMA ResetDiscards == Reset => Queues!Discard
<1> SUFFICES ASSUME Reset PROVE Queues!Discard
  OBVIOUS
<1>1. \A c \in Clients : Waiting(c)' = <<>>
  <2> SUFFICES ASSUME NEW c \in Clients PROVE Waiting(c)' = <<>>
    OBVIOUS
  <2>1. write_seq' = 0 /\ read_seq'[c] = 0 BY DEF Reset
  <2> QED BY <2>1, CaughtUp, 0 \in Nat
<1>2. Queue' = [c \in Clients |-> <<>>] BY <1>1 DEF Queue
<1>3. Queue' = [c \in Clients |-> IF active[c] THEN Stored(read_seq[c], Available(c)) ELSE <<>>]'
  BY DEF Queue, Waiting
<1> QED BY <1>2, <1>3 DEF Reset, Queues!Discard

\* The ring of bridge_buffers.c does for its readers what queues of their own would do, for
\* every capacity, every number of readers, every transfer and pop.
THEOREM ImplementsQueues == Spec => ImplementsLossyStream
<1>1. Init => Queues!Init
  BY DEF Init, Queues!Init
<1>2. IInv /\ IInv' /\ [Next]_vars => [Queues!Next]_(Queues!vars)
  <2> SUFFICES ASSUME IInv, IInv', [Next]_vars PROVE [Queues!Next]_(Queues!vars)
    OBVIOUS
  <2>1. ASSUME NEW len \in 1..MaxChunk, Broadcast(len) PROVE Queues!Next
    BY <2>1, BroadcastSends DEF Queues!Next
  <2>2. ASSUME NEW c \in Clients, NEW max_len \in 1..MaxPop, Pop(c, max_len) PROVE Queues!Next
    <3>1. \E len \in 1..MaxPop : Queues!Receive(c, len) BY <2>2, PopReceives
    <3> QED BY <3>1 DEF Queues!Next
  <2>3. ASSUME NEW c \in Clients, Activate(c) \/ Deactivate(c) PROVE Queues!Next
    <3>1. Queues!Join(c) \/ Queues!Leave(c) BY <2>3, SubscriptionSteps
    <3> QED BY <3>1 DEF Queues!Next
  <2>4. CASE Reset
    BY <2>4, ResetDiscards DEF Queues!Next
  <2>5. CASE UNCHANGED vars
    BY <2>5 DEF vars, ring, Queues!vars, Stored, Available
  <2> QED BY <2>1, <2>2, <2>3, <2>4, <2>5 DEF Next
<1> QED BY <1>1, <1>2, Inductive, PTL DEF Spec, ImplementsLossyStream, Queues!Spec
=============================================================================
