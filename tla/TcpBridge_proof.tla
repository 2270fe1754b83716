--------------------------- MODULE TcpBridge_proof ---------------------------
(***************************************************************************)
(* The way of the bytes, for rings, probes, transfers and commands of any   *)
(* size, any number of clients, devices and browser frames, and any bytes.  *)
(*                                                                         *)
(* First the byte ring by itself, which is a queue for every capacity: what *)
(* a push, a pop and a reset do to the bytes that wait in it.  Then the two *)
(* rings between the TCP server, usb_tx_task and the USB callback.          *)
(*                                                                         *)
(* Then the server with the client's stream, in whatever pieces it comes:   *)
(* it is taken for the kind it is and every byte and command of it is dealt  *)
(* with once, in its order.  What the parser makes of a text is proved in   *)
(* TelnetStream_proof.                                                      *)
(***************************************************************************)
EXTENDS TcpBridge, TelnetStream_proof

-----------------------------------------------------------------------------
(* Remainders.                                                              *)

LEMMA ModOfSmall ==
    ASSUME NEW x \in 0 .. Capacity - 1
    PROVE  x % Capacity = x
<1>1. x = Capacity * (x \div Capacity) + (x % Capacity) /\ x \div Capacity \in Int
      /\ x % Capacity \in 0 .. Capacity - 1
  BY RingAssumption, SMT
<1> DEFINE q == x \div Capacity
           r == x % Capacity
<1>2. q \in Int /\ r \in 0 .. Capacity - 1 /\ x = Capacity * q + r
  BY <1>1
<1> HIDE DEF q, r
<1>3. ~(q >= 1)
  <2> SUFFICES ASSUME q >= 1 PROVE FALSE OBVIOUS
  <2>1. Capacity * q >= Capacity BY <1>2, RingAssumption, SMT
  <2> QED BY <2>1, <1>2, RingAssumption, SMT
<1>4. ~(q <= -1)
  <2> SUFFICES ASSUME q <= -1 PROVE FALSE OBVIOUS
  <2>1. Capacity * q <= -Capacity BY <1>2, RingAssumption, SMT
  <2> QED BY <2>1, <1>2, RingAssumption, SMT
<1>5. q = 0 BY <1>2, <1>3, <1>4, SMT
<1> QED BY <1>2, <1>5, RingAssumption, SMT DEF q, r

LEMMA ModOfNegative ==
    ASSUME NEW x \in Int, -Capacity <= x, x < 0
    PROVE  x % Capacity = x + Capacity
<1>1. x = Capacity * (x \div Capacity) + (x % Capacity) /\ x \div Capacity \in Int
      /\ x % Capacity \in 0 .. Capacity - 1
  BY RingAssumption, SMT
<1> DEFINE q == x \div Capacity
           r == x % Capacity
<1>2. q \in Int /\ r \in 0 .. Capacity - 1 /\ x = Capacity * q + r
  BY <1>1
<1> HIDE DEF q, r
<1>3. ~(q >= 0)
  <2> SUFFICES ASSUME q >= 0 PROVE FALSE OBVIOUS
  <2>1. Capacity * q >= 0 BY <1>2, RingAssumption, SMT
  <2> QED BY <2>1, <1>2, RingAssumption, SMT
<1>4. ~(q <= -2)
  <2> SUFFICES ASSUME q <= -2 PROVE FALSE OBVIOUS
  <2>1. Capacity * q <= -(Capacity + Capacity) BY <1>2, RingAssumption, SMT
  <2> QED BY <2>1, <1>2, RingAssumption, SMT
<1>5. q = -1 BY <1>2, <1>3, <1>4, SMT
<1> QED BY <1>2, <1>5, RingAssumption, SMT DEF q, r

\* How far one position is ahead of another can be told from their slots, up to one turn.
LEMMA SlotDistance ==
    ASSUME NEW a \in Nat, NEW b \in Nat, a - b < Capacity, b - a <= Capacity
    PROVE  ((a % Capacity) - (b % Capacity)) % Capacity =
              IF b <= a THEN a - b ELSE a - b + Capacity
<1> DEFINE qa == a \div Capacity
           ra == a % Capacity
           qb == b \div Capacity
           rb == b % Capacity
           q  == qa - qb
           d  == ra - rb
<1>1. /\ a = Capacity * qa + ra /\ qa \in Int /\ ra \in 0 .. Capacity - 1
      /\ b = Capacity * qb + rb /\ qb \in Int /\ rb \in 0 .. Capacity - 1
  BY RingAssumption, SMT
<1> HIDE DEF qa, ra, qb, rb
<1>2. q \in Int /\ d \in Int /\ a - b = Capacity * q + d /\ -Capacity < d /\ d < Capacity
  BY <1>1, RingAssumption, SMT
<1> HIDE DEF q, d
<1>3. CASE d >= 0
  <2>1. d % Capacity = d BY <1>2, <1>3, ModOfSmall, RingAssumption, SMT
  <2>2. ~(q >= 1)
    <3> SUFFICES ASSUME q >= 1 PROVE FALSE OBVIOUS
    <3>1. Capacity * q >= Capacity BY <1>2, RingAssumption, SMT
    <3> QED BY <3>1, <1>2, <1>3, RingAssumption, SMT
  <2>3. ~(q <= -2)
    <3> SUFFICES ASSUME q <= -2 PROVE FALSE OBVIOUS
    <3>1. Capacity * q <= -(Capacity + Capacity) BY <1>2, RingAssumption, SMT
    <3> QED BY <3>1, <1>2, <1>3, RingAssumption, SMT
  <2>4. CASE q = 0
    <3>1. a - b = d BY <2>4, <1>2, RingAssumption, SMT
    <3> QED BY <3>1, <2>1, <1>3, SMT DEF d, ra, rb
  <2>5. CASE q = -1
    <3>1. a - b + Capacity = d BY <2>5, <1>2, RingAssumption, SMT
    <3>2. ~(b <= a) BY <3>1, <1>2, RingAssumption, SMT
    <3> QED BY <3>1, <3>2, <2>1 DEF d, ra, rb
  <2> QED BY <2>2, <2>3, <2>4, <2>5, <1>2, SMT
<1>4. CASE d < 0
  <2>1. d % Capacity = d + Capacity BY <1>2, <1>4, ModOfNegative, RingAssumption, SMT
  <2>2. ~(q >= 2)
    <3> SUFFICES ASSUME q >= 2 PROVE FALSE OBVIOUS
    <3>1. Capacity * q >= Capacity + Capacity BY <1>2, RingAssumption, SMT
    <3> QED BY <3>1, <1>2, <1>4, RingAssumption, SMT
  <2>3. ~(q <= -1)
    <3> SUFFICES ASSUME q <= -1 PROVE FALSE OBVIOUS
    <3>1. Capacity * q <= -Capacity BY <1>2, RingAssumption, SMT
    <3> QED BY <3>1, <1>2, <1>4, RingAssumption, SMT
  <2>4. CASE q = 0
    <3>1. a - b = d BY <2>4, <1>2, RingAssumption, SMT
    <3>2. ~(b <= a) BY <3>1, <1>4, SMT
    <3> QED BY <3>1, <3>2, <2>1 DEF d, ra, rb
  <2>5. CASE q = 1
    <3>1. a - b = d + Capacity BY <2>5, <1>2, RingAssumption, SMT
    <3>2. b <= a BY <3>1, <1>2, RingAssumption, SMT
    <3> QED BY <3>1, <3>2, <2>1 DEF d, ra, rb
  <2> QED BY <2>2, <2>3, <2>4, <2>5, <1>2, SMT
<1> QED BY <1>2, <1>3, <1>4, SMT

\* Positions a whole number of turns apart share a slot.
LEMMA ModOfSum ==
    ASSUME NEW a \in Nat, NEW n \in Nat
    PROVE  ((a % Capacity) + n) % Capacity = (a + n) % Capacity
<1> DEFINE x  == (a % Capacity) + n
           y  == a + n
           k  == a \div Capacity
           qx == x \div Capacity
           mx == x % Capacity
           qy == y \div Capacity
           my == y % Capacity
           z  == qy - qx - k
<1>1. a = Capacity * k + (a % Capacity) /\ k \in Int /\ a % Capacity \in 0 .. Capacity - 1
  BY RingAssumption, SMT
<1>2. x \in Nat /\ y \in Nat /\ y - x = Capacity * k
  BY <1>1, RingAssumption, SMT
<1> HIDE DEF x, y
<1>3. /\ x = Capacity * qx + mx /\ qx \in Int /\ mx \in 0 .. Capacity - 1
      /\ y = Capacity * qy + my /\ qy \in Int /\ my \in 0 .. Capacity - 1
  BY <1>2, RingAssumption, SMT
<1> HIDE DEF k, qx, mx, qy, my
<1>4. z \in Int /\ mx - my = Capacity * z
  <2>1. Capacity \in Int /\ qx \in Int /\ qy \in Int /\ k \in Int
    BY <1>1, <1>3, RingAssumption
  <2>2. z \in Int /\ Capacity * z = Capacity * qy - Capacity * qx - Capacity * k
    BY <2>1, SMT
  <2> DEFINE cx == Capacity * qx
             cy == Capacity * qy
             ck == Capacity * k
             cz == Capacity * z
  <2>3. cx \in Int /\ cy \in Int /\ ck \in Int BY <2>1, SMT
  <2>4. x = cx + mx /\ y = cy + my /\ y - x = ck /\ cz = cy - cx - ck
        /\ mx \in Int /\ my \in Int
    BY <1>2, <1>3, <2>2, RingAssumption
  <2> HIDE DEF cx, cy, ck, cz
  <2>5. mx - my = cz BY <2>3, <2>4, SMT
  <2> QED BY <2>2, <2>5 DEF cz
<1> HIDE DEF z
<1>5. ~(z >= 1)
  <2> SUFFICES ASSUME z >= 1 PROVE FALSE OBVIOUS
  <2>1. Capacity * z >= Capacity BY <1>4, RingAssumption, SMT
  <2> QED BY <2>1, <1>3, <1>4, RingAssumption, SMT
<1>6. ~(z <= -1)
  <2> SUFFICES ASSUME z <= -1 PROVE FALSE OBVIOUS
  <2>1. Capacity * z <= -Capacity BY <1>4, RingAssumption, SMT
  <2> QED BY <2>1, <1>3, <1>4, RingAssumption, SMT
<1>7. z = 0 BY <1>4, <1>5, <1>6, SMT
<1>8. mx = my BY <1>3, <1>4, <1>7, RingAssumption, SMT
<1> QED BY <1>8 DEF mx, my, x, y

-----------------------------------------------------------------------------
(* A ring's bytes: where they lie, and what each operation makes of them.   *)

LEMMA SlotInRange ==
    ASSUME NEW n \in Nat
    PROVE  n % Capacity \in Slots
BY RingAssumption, SMT DEF Slots

LEMMA EmptyRingIsOne ==
    ASSUME NEW Byte, 0 \in Byte
    PROVE  EmptyRing \in RingOf(Byte) /\ Aligned(EmptyRing) /\ Contents(EmptyRing) = <<>>
<1>1. 0 \in Slots /\ 0 \in 0..Capacity BY RingAssumption, SMT DEF Slots
<1>2. EmptyRing \in RingOf(Byte) BY <1>1 DEF EmptyRing, RingOf
<1>3. 0 % Capacity = 0 BY ModOfSmall, RingAssumption, SMT
<1>4. Aligned(EmptyRing) BY <1>3 DEF EmptyRing, Aligned
<1>5. Contents(EmptyRing) = <<>> BY DEF EmptyRing, Contents
<1> QED BY <1>2, <1>4, <1>5

LEMMA ContentsType ==
    ASSUME NEW Byte, NEW ring \in RingOf(Byte)
    PROVE  /\ Contents(ring) \in Seq(Byte)
           /\ Len(Contents(ring)) = ring.count
           /\ ring.count \in 0..Capacity
           /\ \A i \in 1..ring.count : Contents(ring)[i] = ring.data[(ring.tail + i - 1) % Capacity]
<1>1. ring.count \in 0..Capacity /\ ring.tail \in Nat /\ ring.data \in [Slots -> Byte]
  BY RingAssumption, SMT DEF RingOf, Slots
<1>2. \A i \in 1..ring.count : (ring.tail + i - 1) % Capacity \in Slots
  BY <1>1, SlotInRange, RingAssumption, SMT
<1>3. Contents(ring) \in [1..ring.count -> Byte]
  BY <1>1, <1>2 DEF Contents
<1>4. ring.count \in Nat BY <1>1, RingAssumption, SMT
<1>5. \A i \in 1..ring.count : Contents(ring)[i] = ring.data[(ring.tail + i - 1) % Capacity]
  BY DEF Contents
<1> QED BY <1>1, <1>3, <1>4, <1>5

\* What a push accepts, as numbers.
LEMMA AcceptedFits ==
    ASSUME NEW Byte, NEW ring \in RingOf(Byte), NEW chunk \in Seq(Byte)
    PROVE  LET n == Accepted(ring, chunk)
           IN  /\ n \in 0..Len(chunk) /\ n \in Nat /\ ring.count + n <= Capacity
               /\ ring.count \in Nat /\ ring.tail \in Nat /\ ring.tail < Capacity
               /\ ring.head \in Nat
<1>1. /\ ring.count \in 0..Capacity /\ ring.tail \in Slots /\ ring.head \in Slots
      /\ Len(chunk) \in Nat
  BY DEF RingOf
<1> DEFINE c == ring.count
           l == Len(chunk)
<1>2. c \in 0..Capacity /\ l \in Nat BY <1>1
<1> HIDE DEF c, l
<1>3. LET n == IF l < Capacity - c THEN l ELSE Capacity - c
      IN  n \in 0..l /\ n \in Nat /\ c + n <= Capacity /\ c \in Nat
  BY <1>2, RingAssumption, SMT
<1>4. ring.tail \in Nat /\ ring.tail < Capacity /\ ring.head \in Nat
  BY <1>1, RingAssumption, SMT DEF Slots
<1> QED BY <1>3, <1>4 DEF Accepted, Smaller, c, l

\* The slot of the i-th waiting byte, as the distance from a push's first slot.
LEMMA SlotFromHead ==
    ASSUME NEW tail \in Nat, NEW count \in Nat, NEW n \in Nat, tail < Capacity,
           count + n <= Capacity, NEW i \in 1 .. count + n
    PROVE  LET k == (((tail + i - 1) % Capacity) - ((tail + count) % Capacity)) % Capacity
           IN  /\ (tail + i - 1) % Capacity \in Slots
               /\ i <= count => ~(k < n)
               /\ ~(i <= count) => k = i - count - 1 /\ k < n
<1> DEFINE a == tail + i - 1
           b == tail + count
           k == ((a % Capacity) - (b % Capacity)) % Capacity
<1>1. /\ a \in Nat /\ b \in Nat /\ a - b < Capacity /\ b - a <= Capacity
      /\ i <= count => ~(b <= a) /\ a - b + Capacity >= n /\ a - b + Capacity \in Int
      /\ ~(i <= count) => b <= a /\ a - b = i - count - 1 /\ a - b < n
  BY RingAssumption, SMT
<1> HIDE DEF a, b
<1>2. k = IF b <= a THEN a - b ELSE a - b + Capacity BY <1>1, SlotDistance
<1>3. a % Capacity \in Slots BY <1>1, SlotInRange
<1> HIDE DEF k
<1>4. i <= count => ~(k < n)
  <2> SUFFICES ASSUME i <= count PROVE ~(k < n) OBVIOUS
  <2>1. k = a - b + Capacity /\ a - b + Capacity >= n /\ a - b + Capacity \in Int
    BY <1>1, <1>2
  <2> QED BY <2>1, SMT
<1>5. ~(i <= count) => k = i - count - 1 /\ k < n
  <2> SUFFICES ASSUME ~(i <= count) PROVE k = i - count - 1 /\ k < n OBVIOUS
  <2>1. k = a - b /\ a - b = i - count - 1 /\ a - b < n BY <1>1, <1>2
  <2> QED BY <2>1
<1> QED BY <1>3, <1>4, <1>5 DEF k, a, b

\* A push adds the bytes it accepts behind the ones that wait, which it leaves alone.
THEOREM PushAppends ==
    ASSUME NEW Byte, NEW ring \in RingOf(Byte), Aligned(ring), NEW chunk \in Seq(Byte)
    PROVE  LET n == Accepted(ring, chunk)
           IN  /\ n \in 0..Len(chunk) /\ ring.count + n <= Capacity
               /\ ring_push(ring, chunk) \in RingOf(Byte)
               /\ Aligned(ring_push(ring, chunk))
               /\ Contents(ring_push(ring, chunk)) = Contents(ring) \o SubSeq(chunk, 1, n)
<1> DEFINE n == Accepted(ring, chunk)
           new == ring_push(ring, chunk)
           K(p) == (p - ring.head) % Capacity
           written == [p \in Slots |-> IF K(p) < n THEN chunk[K(p) + 1] ELSE ring.data[p]]
<1>1. /\ ring.count \in 0..Capacity /\ ring.tail \in Slots /\ ring.head \in Slots
      /\ ring.data \in [Slots -> Byte] /\ Len(chunk) \in Nat
      /\ ring.head = (ring.tail + ring.count) % Capacity
  BY DEF RingOf, Aligned
<1>2. /\ n \in 0..Len(chunk) /\ n \in Nat /\ ring.count + n <= Capacity
      /\ ring.count \in Nat /\ ring.tail \in Nat /\ ring.tail < Capacity /\ ring.head \in Nat
  BY AcceptedFits
<1>3. /\ new = [ring EXCEPT !.data = written, !.head = (ring.head + n) % Capacity,
                            !.count = ring.count + n]
      /\ new.data = written /\ new.head = (ring.head + n) % Capacity
      /\ new.tail = ring.tail /\ new.count = ring.count + n
  <2>1. new = [ring EXCEPT !.data = written, !.head = (ring.head + n) % Capacity,
                           !.count = ring.count + n]
    BY DEF ring_push
  <2> HIDE DEF new, written
  <2> QED BY <2>1 DEF RingOf
<1> HIDE DEF n
<1>4. \A p \in Slots : K(p) \in Slots
  <2> TAKE p \in Slots
  <2> DEFINE x == p - ring.head
  <2>1. x \in Int BY <1>2, RingAssumption, SMT DEF Slots
  <2> HIDE DEF x
  <2>2. x % Capacity \in Slots BY <2>1, RingAssumption, SMT DEF Slots
  <2> QED BY <2>2 DEF x
<1> HIDE DEF written, new
<1>5. new \in RingOf(Byte)
  <2>1. \A p \in Slots : K(p) < n => K(p) + 1 \in 1..Len(chunk)
    <3> TAKE p \in Slots
    <3> DEFINE k == K(p)
               l == Len(chunk)
    <3>1. k \in Slots /\ l \in Nat /\ n \in 0..l BY <1>1, <1>2, <1>4
    <3> HIDE DEF k, l
    <3>2. k < n => k + 1 \in 1..l BY <3>1, RingAssumption, SMT DEF Slots
    <3> QED BY <3>2 DEF k, l
  <2>2. \A p \in Slots : K(p) < n => chunk[K(p) + 1] \in Byte
    BY <2>1
  <2>3. written \in [Slots -> Byte]
    BY <1>1, <2>2 DEF written
  <2>4. (ring.head + n) % Capacity \in Slots
    <3>1. ring.head + n \in Nat BY <1>2, SMT
    <3> QED BY <3>1, SlotInRange
  <2>5. ring.count + n \in 0..Capacity
    BY <1>2, RingAssumption, SMT
  <2> QED BY <1>1, <1>3, <2>3, <2>4, <2>5 DEF RingOf
<1>6. Aligned(new)
  <2> DEFINE s == ring.tail + ring.count
  <2>1. s \in Nat /\ s + n = ring.tail + (ring.count + n) BY <1>2, SMT
  <2>2. ring.head = s % Capacity BY <1>1
  <2> HIDE DEF s
  <2>3. ((s % Capacity) + n) % Capacity = (s + n) % Capacity BY <1>2, <2>1, ModOfSum
  <2>4. (ring.head + n) % Capacity = (ring.tail + (ring.count + n)) % Capacity
    BY <2>1, <2>2, <2>3
  <2> QED BY <1>3, <2>4 DEF Aligned
<1>7. Contents(new) = Contents(ring) \o SubSeq(chunk, 1, n)
  <2> DEFINE old == Contents(ring)
             sub == SubSeq(chunk, 1, n)
             Slot(i) == (ring.tail + i - 1) % Capacity
  <2>1. /\ old \in Seq(Byte) /\ Len(old) = ring.count
        /\ \A i \in 1..ring.count : old[i] = ring.data[Slot(i)]
    BY ContentsType
  <2>2. /\ sub \in Seq(Byte) /\ Len(sub) = n /\ \A i \in 1..n : sub[i] = chunk[i]
    BY <1>2, SMT
  <2>3. /\ Contents(new) \in Seq(Byte) /\ Len(Contents(new)) = ring.count + n
        /\ \A i \in 1..(ring.count + n) : Contents(new)[i] = written[Slot(i)]
    <3>1. /\ Contents(new) \in Seq(Byte) /\ Len(Contents(new)) = new.count
          /\ \A i \in 1..new.count :
                Contents(new)[i] = new.data[(new.tail + i - 1) % Capacity]
      BY <1>5, ContentsType
    <3> QED BY <3>1, <1>3
  <2> HIDE DEF old, sub
  <2>4. /\ old \o sub \in Seq(Byte) /\ Len(old \o sub) = ring.count + n
        /\ \A i \in 1..(ring.count + n) :
              (old \o sub)[i] = IF i <= ring.count THEN old[i] ELSE sub[i - ring.count]
    <3>1. /\ old \o sub \in Seq(Byte) /\ Len(old \o sub) = Len(old) + Len(sub)
          /\ \A i \in 1 .. Len(old) + Len(sub) :
                (old \o sub)[i] = IF i <= Len(old) THEN old[i] ELSE sub[i - Len(old)]
      BY <2>1, <2>2, ConcatProperties
    <3> HIDE DEF Slot
    <3> QED BY <3>1, <2>1, <2>2
  <2>5. ASSUME NEW i \in 1..(ring.count + n)
        PROVE  written[Slot(i)] = (old \o sub)[i]
    <3>1. /\ Slot(i) \in Slots
          /\ i <= ring.count => ~(K(Slot(i)) < n)
          /\ ~(i <= ring.count) => K(Slot(i)) = i - ring.count - 1 /\ K(Slot(i)) < n
      BY <1>1, <1>2, SlotFromHead
    <3>2. written[Slot(i)] = IF K(Slot(i)) < n THEN chunk[K(Slot(i)) + 1] ELSE ring.data[Slot(i)]
      BY <3>1 DEF written
    <3>3. CASE i <= ring.count
      <4>1. i \in 1..ring.count BY <3>3, <1>2, SMT
      <4>2. written[Slot(i)] = ring.data[Slot(i)] BY <3>1, <3>2, <3>3
      <4> QED BY <4>1, <4>2, <2>1, <2>4, <3>3
    <3>4. CASE ~(i <= ring.count)
      <4>1. i - ring.count \in 1..n /\ i - ring.count - 1 + 1 = i - ring.count
        BY <3>4, <1>2, SMT
      <4>2. written[Slot(i)] = chunk[K(Slot(i)) + 1] BY <3>1, <3>2, <3>4
      <4>3. written[Slot(i)] = chunk[i - ring.count] BY <4>1, <4>2, <3>1, <3>4
      <4> QED BY <4>1, <4>3, <2>2, <2>4, <3>4
    <3> QED BY <3>3, <3>4
  <2>6. Contents(new) = old \o sub
    BY <2>3, <2>4, <2>5, SeqEqual
  <2> QED BY <2>6 DEF old, sub
<1> QED BY <1>2, <1>5, <1>6, <1>7 DEF n, new

\* A pop hands out the bytes at the front and leaves the others as they were.
THEOREM PopTakesFront ==
    ASSUME NEW Byte, NEW ring \in RingOf(Byte), Aligned(ring), NEW max_len \in Nat
    PROVE  /\ ring_pop_now(ring, max_len) \in RingOf(Byte)
           /\ Aligned(ring_pop_now(ring, max_len))
           /\ Popped(ring, max_len) \in Seq(Byte)
           /\ Contents(ring) = Popped(ring, max_len) \o Contents(ring_pop_now(ring, max_len))
<1> DEFINE m == Available(ring, max_len)
           new == ring_pop_now(ring, max_len)
           head == Popped(ring, max_len)
           Slot(i) == (ring.tail + i - 1) % Capacity
<1>1. /\ ring.count \in 0..Capacity /\ ring.tail \in Slots /\ ring.head \in Slots
      /\ ring.data \in [Slots -> Byte] /\ ring.head = (ring.tail + ring.count) % Capacity
  BY DEF RingOf, Aligned
<1>2. /\ m \in 0..ring.count /\ m \in Nat /\ ring.count \in Nat /\ ring.tail \in Nat
      /\ ring.count - m \in 0..Capacity /\ ring.count - m \in Nat
  <2> DEFINE c == ring.count
  <2>1. c \in 0..Capacity /\ ring.tail \in Slots BY <1>1
  <2> HIDE DEF c
  <2>2. LET k == IF c < max_len THEN c ELSE max_len
        IN  k \in 0..c /\ k \in Nat /\ c \in Nat /\ c - k \in 0..Capacity /\ c - k \in Nat
    BY <2>1, RingAssumption, SMT
  <2>3. ring.tail \in Nat BY <2>1, RingAssumption, SMT DEF Slots
  <2> QED BY <2>2, <2>3 DEF Available, Smaller, c
<1>3. /\ new = [ring EXCEPT !.tail = (ring.tail + m) % Capacity, !.count = ring.count - m]
      /\ new.data = ring.data /\ new.head = ring.head
      /\ new.tail = (ring.tail + m) % Capacity /\ new.count = ring.count - m
  <2>1. new = [ring EXCEPT !.tail = (ring.tail + m) % Capacity, !.count = ring.count - m]
    BY DEF ring_pop_now
  <2> HIDE DEF new, m
  <2> QED BY <2>1 DEF RingOf
<1>4. head = [i \in 1..m |-> ring.data[Slot(i)]]
  BY DEF Popped
<1> HIDE DEF m, new, head
<1>5. new \in RingOf(Byte)
  <2>1. (ring.tail + m) % Capacity \in Slots
    <3>1. ring.tail + m \in Nat BY <1>2, SMT
    <3> QED BY <3>1, SlotInRange
  <2> QED BY <1>1, <1>2, <1>3, <2>1 DEF RingOf
<1>6. Aligned(new)
  <2> DEFINE s == ring.tail + m
             d == ring.count - m
  <2>1. s \in Nat /\ d \in Nat /\ s + d = ring.tail + ring.count BY <1>2, SMT
  <2> HIDE DEF s, d
  <2>2. ((s % Capacity) + d) % Capacity = (s + d) % Capacity BY <2>1, ModOfSum
  <2>3. ring.head = ((s % Capacity) + d) % Capacity BY <1>1, <2>1, <2>2
  <2> QED BY <1>3, <2>3 DEF Aligned, s, d
<1>7. /\ head \in Seq(Byte) /\ Len(head) = m
      /\ \A i \in 1..m : head[i] = ring.data[Slot(i)]
  <2>1. \A i \in 1..m : Slot(i) \in Slots
    <3> TAKE i \in 1..m
    <3>1. ring.tail + i - 1 \in Nat BY <1>2, SMT
    <3> QED BY <3>1, SlotInRange
  <2>2. head \in [1..m -> Byte] BY <1>1, <1>4, <2>1
  <2>3. \A i \in 1..m : head[i] = ring.data[Slot(i)] BY <1>4
  <2>4. head \in Seq(Byte) /\ Len(head) = m BY <1>2, <2>2
  <2> QED BY <2>3, <2>4
<1>8. Contents(ring) = head \o Contents(new)
  <2> DEFINE old == Contents(ring)
             rest == Contents(new)
  <2>1. /\ old \in Seq(Byte) /\ Len(old) = ring.count
        /\ \A i \in 1..ring.count : old[i] = ring.data[Slot(i)]
    BY ContentsType
  <2>2. /\ rest \in Seq(Byte) /\ Len(rest) = ring.count - m
        /\ \A i \in 1..(ring.count - m) : rest[i] = ring.data[(new.tail + i - 1) % Capacity]
    <3>1. /\ rest \in Seq(Byte) /\ Len(rest) = new.count
          /\ \A i \in 1..new.count : rest[i] = new.data[(new.tail + i - 1) % Capacity]
      BY <1>5, ContentsType
    <3> HIDE DEF rest
    <3> QED BY <3>1, <1>3
  <2> HIDE DEF old, rest
  <2>3. /\ head \o rest \in Seq(Byte) /\ Len(head \o rest) = Len(head) + Len(rest)
        /\ \A i \in 1 .. Len(head) + Len(rest) :
              (head \o rest)[i] = IF i <= Len(head) THEN head[i] ELSE rest[i - Len(head)]
    BY <1>7, <2>2, ConcatProperties
  <2>4. m + (ring.count - m) = ring.count BY <1>2, SMT
  <2>5. /\ Len(head \o rest) = ring.count
        /\ \A i \in 1 .. ring.count :
              (head \o rest)[i] = IF i <= m THEN head[i] ELSE rest[i - m]
    BY <2>2, <2>3, <2>4, <1>7
  <2>6. ASSUME NEW i \in 1..ring.count
        PROVE  old[i] = (head \o rest)[i]
    <3>1. CASE i <= m
      <4>1. i \in 1..m BY <3>1, <1>2, SMT
      <4> QED BY <4>1, <3>1, <2>1, <2>5, <1>7
    <3>2. CASE ~(i <= m)
      <4> DEFINE s == ring.tail + m
                 d == i - m - 1
      <4>1. /\ i - m \in 1..(ring.count - m) /\ s \in Nat /\ d \in Nat
            /\ s + d = ring.tail + i - 1 /\ \A t \in Nat : t + (i - m) - 1 = t + d
        BY <3>2, <1>2, SMT
      <4>2. s % Capacity \in Nat
        <5>1. s % Capacity \in Slots BY <4>1, SlotInRange
        <5> QED BY <5>1, RingAssumption, SMT DEF Slots
      <4>3. rest[i - m] = ring.data[(new.tail + (i - m) - 1) % Capacity] BY <4>1, <2>2
      <4>4. new.tail = s % Capacity BY <1>3
      <4> HIDE DEF s, d
      <4>5. ((s % Capacity) + d) % Capacity = (s + d) % Capacity BY <4>1, ModOfSum
      <4>6. (new.tail + (i - m) - 1) % Capacity = Slot(i) BY <4>1, <4>2, <4>4, <4>5
      <4>7. rest[i - m] = ring.data[Slot(i)] BY <4>3, <4>6
      <4> QED BY <4>7, <3>2, <2>1, <2>5
    <3> QED BY <3>1, <3>2
  <2>7. old = head \o rest
    BY <2>1, <2>3, <2>5, <2>6, SeqEqual
  <2> QED BY <2>7 DEF old, rest
<1> QED BY <1>5, <1>6, <1>7, <1>8 DEF new, head

\* A reset leaves an empty ring.
THEOREM ResetEmpties ==
    ASSUME NEW Byte, NEW ring \in RingOf(Byte)
    PROVE  /\ ring_reset(ring) \in RingOf(Byte)
           /\ Aligned(ring_reset(ring))
           /\ Contents(ring_reset(ring)) = <<>>
<1>1. 0 \in Slots /\ 0 \in 0..Capacity /\ 0 % Capacity = 0
  BY ModOfSmall, RingAssumption, SMT DEF Slots
<1>2. /\ ring_reset(ring).head = 0 /\ ring_reset(ring).tail = 0 /\ ring_reset(ring).count = 0
      /\ ring_reset(ring) \in RingOf(Byte)
  BY <1>1 DEF ring_reset, RingOf
<1>3. Aligned(ring_reset(ring)) BY <1>1, <1>2 DEF Aligned
<1>4. Contents(ring_reset(ring)) = <<>>
  <2> DEFINE new == ring_reset(ring)
  <2>1. Contents(new) \in Seq(Byte) /\ Len(Contents(new)) = new.count /\ new.count = 0
    BY <1>2, ContentsType
  <2> HIDE DEF new
  <2>2. Contents(new) = <<>> BY <2>1, EmptySeq
  <2> QED BY <2>2 DEF new
<1> QED BY <1>2, <1>3, <1>4

-----------------------------------------------------------------------------
(* The state the bridge can be in.                                          *)

Places ==
    {"listen", "accept", "announce", "select", "parse", "command", "apply", "applying",
     "answer", "offer", "push", "pop", "send", "leave", "close"}

\* The probe, which is given away when it is full, and the chunk for the client never outgrow
\* their buffers.
Servers ==
    [at : Places, connected : BOOLEAN, probe : SeqUpTo(ProbeSize - 1), parser : Parsers,
     parts : Seq(Seq(Nat)), input : Seq(Nat), serial_rx : Seq(Nat), request : CommandRecords,
     out : SeqUpTo(MaxPop), next : {"pop", "close"}]

RingsOK ==
    /\ usb_to_net \in RingOf(Nat) /\ Aligned(usb_to_net)
    /\ net_to_usb \in RingOf(Nat) /\ Aligned(net_to_usb)

UsbOK ==
    /\ s_connected \in BOOLEAN
    /\ cdc_mutex \in {"free", "server", "tx", "connect"}
    /\ device \in [at : {"away", "opened", "setting", "up"}, gone : BOOLEAN, came : Nat, sent : Nat]
    /\ rx \in Seq(Nat)
    /\ usb_tx \in [at : {"pop", "check", "lock", "send"}, buf : SeqUpTo(MaxTransfer)]

ClientOK ==
    /\ client \in [state : {"none", "open", "closed"}, unsent : Seq(Nat), sessions : Nat]
    /\ client_mode \in {"none", "auto", "raw", "rfc2217"}
    /\ tcp_client \in BOOLEAN /\ client_connected \in BOOLEAN
    /\ web \in [chunk : Seq(Nat), came : Nat]

HistoryOK ==
    /\ received \in Seq(Nat) /\ handed \in Seq(Nat) /\ handled \in Seq(CommandRecords)
    /\ owed \in Int /\ owed_client \in Int /\ uncounted \in Nat

TypeOK ==
    /\ world \in World
    /\ RingsOK /\ UsbOK /\ ClientOK /\ HistoryOK
    /\ server \in Servers

-----------------------------------------------------------------------------
(* The operators the actions are built from.                                *)

LEMMA SmallerIs ==
    ASSUME NEW m \in Int, NEW n \in Int
    PROVE  Smaller(m, n) \in Int /\ Smaller(m, n) <= m /\ Smaller(m, n) <= n
           /\ Smaller(m, n) \in {m, n}
BY DEF Smaller

LEMMA IdleServerType == IdleServer \in Servers
<1>1. <<>> \in Seq(Nat) /\ Len(<<>>) = 0 /\ <<>> \in Seq(Seq(Nat)) BY EmptySeq
<1>2. \A n \in Int : n >= 0 => <<>> \in SeqUpTo(n) BY <1>1 DEF SeqUpTo
<1>3. <<>> \in SeqUpTo(ProbeSize - 1) /\ <<>> \in SeqUpTo(MaxPop)
  BY <1>2, TcpAssumption
<1>4. NoCommand \in CommandRecords BY <1>1 DEF NoCommand, CommandRecords
<1> QED BY <1>1, <1>3, <1>4, NewParserType DEF IdleServer, Servers, Places

\* What an operation of a ring does to the number of its bytes, and to which they are.
LEMMA PushOnRing ==
    ASSUME NEW ring \in RingOf(Nat), Aligned(ring), NEW chunk \in Seq(Nat)
    PROVE  LET new == ring_push(ring, chunk)
               n == Accepted(ring, chunk)
           IN  /\ new \in RingOf(Nat) /\ Aligned(new)
               /\ n \in 0..Len(chunk) /\ n \in Nat /\ ring.count \in Nat
               /\ new.count = ring.count + n
               /\ Range(Contents(new)) \subseteq Range(Contents(ring)) \cup Range(chunk)
<1> DEFINE n == Accepted(ring, chunk)
           new == ring_push(ring, chunk)
           taken == SubSeq(chunk, 1, n)
<1>1. /\ n \in 0..Len(chunk) /\ new \in RingOf(Nat) /\ Aligned(new)
      /\ Contents(new) = Contents(ring) \o taken
  BY PushAppends
<1>2. n \in Nat /\ ring.count \in Nat BY AcceptedFits
<1> HIDE DEF n
<1>3. new.count = ring.count + n BY DEF ring_push, RingOf, n
<1> HIDE DEF new
<1>4. Len(chunk) \in Nat BY LenProperties
<1>5. n <= Len(chunk) /\ n \in Int BY <1>1, <1>2, <1>4, SMT
<1>6. taken \in Seq(Nat) /\ Len(taken) = n
  <2>1. /\ taken \in Seq(Nat)
        /\ Len(taken) = IF 1 <= n THEN n - 1 + 1 ELSE 0
    BY <1>5, SubSeqType
  <2> QED BY <2>1, <1>2, SMT
<1>7. Range(taken) \subseteq Range(chunk)
  <2>1. Range(taken) = {taken[i] : i \in 1..n} BY <1>6, RangeEquality
  <2>2. Range(chunk) = {chunk[i] : i \in 1..Len(chunk)} BY RangeEquality
  <2>3. \A i \in 1..n : i \in 1..Len(chunk) /\ taken[i] = chunk[i]
    <3> TAKE i \in 1..n
    <3>1. i \in 1..Len(chunk) /\ i \in 1..(n - 1 + 1) BY <1>2, <1>4, <1>5, SMT
    <3> QED BY <3>1, <1>2, <1>5
  <2> QED BY <2>1, <2>2, <2>3
<1>8. Range(Contents(ring) \o taken) = Range(Contents(ring)) \cup Range(taken)
  <2>1. Contents(ring) \in Seq(Nat) BY ContentsType
  <2> HIDE DEF taken
  <2> QED BY <2>1, <1>6, RangeConcatenation
<1> QED BY <1>1, <1>2, <1>3, <1>7, <1>8 DEF n, new

LEMMA PopOnRing ==
    ASSUME NEW ring \in RingOf(Nat), Aligned(ring), NEW max_len \in Nat
    PROVE  LET new == ring_pop_now(ring, max_len)
               out == Popped(ring, max_len)
           IN  /\ new \in RingOf(Nat) /\ Aligned(new) /\ out \in Seq(Nat)
               /\ Len(out) \in Nat /\ Len(out) <= max_len
               /\ ring.count \in Nat /\ new.count \in Nat /\ ring.count = new.count + Len(out)
               /\ ring.count > 0 /\ max_len > 0 => out # <<>>
               /\ Range(Contents(ring)) = Range(out) \cup Range(Contents(new))
<1> DEFINE new == ring_pop_now(ring, max_len)
           out == Popped(ring, max_len)
           c == ring.count
           m == Available(ring, max_len)
<1>1. /\ new \in RingOf(Nat) /\ Aligned(new) /\ out \in Seq(Nat)
      /\ Contents(ring) = out \o Contents(new)
  BY PopTakesFront
<1>2. c \in Nat
  <2>1. c \in 0..Capacity BY DEF RingOf
  <2> HIDE DEF c
  <2> QED BY <2>1, RingAssumption, SMT
<1>3. /\ m \in Nat /\ m <= max_len /\ m <= c /\ (c > 0 /\ max_len > 0 => m > 0)
  <2>1. m = Smaller(c, max_len) BY DEF Available
  <2> HIDE DEF m, c
  <2> QED BY <2>1, <1>2, SMT DEF Smaller
<1>4. new.count = c - m
  <2> HIDE DEF m
  <2> QED BY DEF ring_pop_now, RingOf, m, c
<1>5. Len(out) = m
  <2> HIDE DEF m
  <2>1. out = [i \in 1..m |-> ring.data[(ring.tail + i - 1) % Capacity]] BY DEF Popped, m
  <2> HIDE DEF out
  <2>2. DOMAIN out = 1..m BY <2>1
  <2>3. DOMAIN out = 1..Len(out) /\ Len(out) \in Nat BY <1>1, LenProperties
  <2> QED BY <2>2, <2>3, <1>3, SMT
<1> HIDE DEF m, new, out, c
<1>6. c - m \in Nat /\ c = (c - m) + m BY <1>2, <1>3, SMT
<1>7. c > 0 /\ max_len > 0 => out # <<>>
  BY <1>3, <1>5, EmptySeq, SMT
<1>8. Range(out \o Contents(new)) = Range(out) \cup Range(Contents(new))
  BY <1>1, ContentsType, RangeConcatenation
<1>9. Range(Contents(ring)) = Range(out) \cup Range(Contents(new)) BY <1>1, <1>8
<1>10. new \in RingOf(Nat) /\ Aligned(new) /\ out \in Seq(Nat) BY <1>1
<1>11. Len(out) \in Nat /\ Len(out) <= max_len /\ c \in Nat /\ new.count \in Nat /\ c = new.count + Len(out)
  BY <1>2, <1>3, <1>4, <1>5, <1>6
<1> QED BY <1>7, <1>9, <1>10, <1>11 DEF new, out, c

LEMMA ResetOnRing ==
    ASSUME NEW ring \in RingOf(Nat)
    PROVE  /\ ring_reset(ring) \in RingOf(Nat) /\ Aligned(ring_reset(ring))
           /\ Contents(ring_reset(ring)) = <<>> /\ Range(Contents(ring_reset(ring))) = {}
           /\ ring_reset(ring).count = 0
<1>1. /\ ring_reset(ring) \in RingOf(Nat) /\ Aligned(ring_reset(ring))
      /\ Contents(ring_reset(ring)) = <<>>
  BY ResetEmpties
<1>2. ring_reset(ring).count = 0 BY DEF ring_reset, RingOf
<1>3. Range(<<>>) = {} BY DEF Range
<1> QED BY <1>1, <1>2, <1>3

LEMMA ProceedType ==
    ASSUME NEW s \in Servers, NEW parts \in Seq(Seq(Nat)), NEW mode
    PROVE  LET p == Proceed(s, parts, mode)
           IN  /\ p \in Servers
               /\ p.at \in {"parse", "offer", "pop", "close"}
               /\ p.out = s.out /\ p.connected = s.connected /\ p.probe = s.probe
               /\ p.next = s.next /\ p.request = s.request
               /\ parts = <<>> => p.at = s.next /\ p.parts = <<>> /\ p.serial_rx = <<>>
                                  /\ p.input = s.input
               /\ parts # <<>> /\ mode = "rfc2217" =>
                     /\ p.at = "parse" /\ p.parts = Tail(parts) /\ p.input = Head(parts)
                     /\ p.serial_rx = <<>>
               /\ parts # <<>> /\ mode # "rfc2217" =>
                     /\ p.at = "offer" /\ p.parts = Tail(parts) /\ p.serial_rx = Head(parts)
                     /\ p.input = s.input
<1>0. <<>> \in Seq(Nat) /\ <<>> \in Seq(Seq(Nat)) OBVIOUS
<1>1. CASE parts = <<>>
  <2>1. PICK p : p = [s EXCEPT !.at = s.next, !.parts = <<>>, !.serial_rx = <<>>] OBVIOUS
  <2>2. p = Proceed(s, parts, mode) BY <2>1, <1>1 DEF Proceed
  <2>3. p \in Servers /\ p.at \in {"pop", "close"} BY <1>0, <2>1 DEF Servers, Places
  <2>4. /\ p.out = s.out /\ p.connected = s.connected /\ p.probe = s.probe
        /\ p.next = s.next /\ p.request = s.request /\ p.input = s.input
        /\ p.at = s.next /\ p.parts = <<>> /\ p.serial_rx = <<>>
    BY <2>1 DEF Servers
  <2> QED BY <1>1, <2>2, <2>3, <2>4
<1>2. CASE parts # <<>>
  <2>1. Head(parts) \in Seq(Nat) /\ Tail(parts) \in Seq(Seq(Nat)) BY <1>2, HeadTailProperties
  <2>2. CASE mode = "rfc2217"
    <3>1. PICK p : p = [s EXCEPT !.at = "parse", !.parts = Tail(parts), !.input = Head(parts),
                                 !.serial_rx = <<>>]
      OBVIOUS
    <3>2. p = Proceed(s, parts, mode) BY <3>1, <1>2, <2>2 DEF Proceed
    <3>3. p \in Servers BY <1>0, <2>1, <3>1 DEF Servers, Places
    <3>4. /\ p.out = s.out /\ p.connected = s.connected /\ p.probe = s.probe
          /\ p.next = s.next /\ p.request = s.request
          /\ p.at = "parse" /\ p.parts = Tail(parts) /\ p.input = Head(parts)
          /\ p.serial_rx = <<>>
      BY <3>1 DEF Servers
    <3> QED BY <1>2, <2>2, <3>2, <3>3, <3>4
  <2>3. CASE mode # "rfc2217"
    <3>1. PICK p : p = [s EXCEPT !.at = "offer", !.parts = Tail(parts), !.serial_rx = Head(parts)]
      OBVIOUS
    <3>2. p = Proceed(s, parts, mode) BY <3>1, <1>2, <2>3 DEF Proceed
    <3>3. p \in Servers BY <2>1, <3>1 DEF Servers, Places
    <3>4. /\ p.out = s.out /\ p.connected = s.connected /\ p.probe = s.probe
          /\ p.next = s.next /\ p.request = s.request /\ p.input = s.input
          /\ p.at = "offer" /\ p.parts = Tail(parts) /\ p.serial_rx = Head(parts)
      BY <3>1 DEF Servers
    <3> QED BY <1>2, <2>3, <3>2, <3>3, <3>4
  <2> QED BY <2>2, <2>3
<1> QED BY <1>1, <1>2

-----------------------------------------------------------------------------
(* The bytes of the client: what a part of them that arrives may change.    *)

\* The two ways a Receive goes on: the probe grows and the loop turns, or what arrived,
\* cut into at most two pieces, is on its way.
LEMMA ReceiveCases ==
    ASSUME TypeOK, NEW n \in 1..Len(client.unsent), Receive(n)
    PROVE  \E data \in Seq(Nat) :
             /\ data = SubSeq(client.unsent, 1, n)
             /\ server.at = "select"
             /\ client'.unsent \in Seq(Nat)
             /\ client' = [client EXCEPT !.unsent = client'.unsent]
             /\ received' = received \o data
             /\ \/ /\ client_mode # "auto"
                   /\ server' = Proceed(server, <<data>>, client_mode)
                   /\ UNCHANGED client_mode
                \/ \E copied \in Seq(Nat) :
                      LET probe == server.probe \o copied
                      IN  /\ client_mode = "auto" /\ copied = data /\ UNCHANGED client_mode
                          /\ detect_client_mode(probe) = "auto"
                          /\ probe \in SeqUpTo(ProbeSize - 1)
                          /\ server' = [server EXCEPT !.at = "pop", !.probe = probe]
                \/ \E copied \in Seq(Nat), rest \in Seq(Seq(Nat)) :
                      LET probe == server.probe \o copied
                          empty == [server EXCEPT !.probe = <<>>]
                      IN  /\ client_mode = "auto"
                          /\ \/ rest = <<>> /\ data = copied
                             \/ \E late \in Seq(Nat) : rest = <<late>> /\ data = copied \o late
                          /\ probe \in Seq(Nat) /\ Len(probe) <= ProbeSize
                          /\ client_mode' = (IF detect_client_mode(probe) = "auto"
                                             THEN "raw" ELSE detect_client_mode(probe))
                          /\ detect_client_mode(probe) = "auto" => Len(probe) = ProbeSize
                          /\ empty \in Servers
                          /\ server' = Proceed(empty, <<probe>> \o rest, client_mode')
<1> DEFINE unsent == client.unsent
           data == SubSeq(unsent, 1, n)
           copy == Smaller(n, ProbeSize - Len(server.probe))
           copied == SubSeq(data, 1, copy)
           late == SubSeq(data, copy + 1, n)
           probe == server.probe \o copied
           found == detect_client_mode(probe)
           rest == IF copy < n THEN <<late>> ELSE <<>>
<1>1. /\ client \in [state : {"none", "open", "closed"}, unsent : Seq(Nat), sessions : Nat]
      /\ server \in Servers
  BY DEF TypeOK, ClientOK
<1>2. /\ unsent \in Seq(Nat) /\ server.probe \in Seq(Nat) /\ Len(server.probe) \in Nat
      /\ Len(server.probe) <= ProbeSize - 1 /\ Len(unsent) \in Nat
  BY <1>1 DEF Servers, SeqUpTo
<1>3. /\ server.at = "select"
      /\ client' = [client EXCEPT !.unsent = SubSeq(unsent, n + 1, Len(unsent))]
      /\ received' = received \o data
      /\ \/ /\ client_mode # "auto"
            /\ server' = Proceed(server, <<data>>, client_mode)
            /\ UNCHANGED client_mode
         \/ /\ client_mode = "auto" /\ ~(found # "auto" \/ Len(probe) = ProbeSize)
            /\ server' = [server EXCEPT !.at = "pop", !.probe = probe]
            /\ UNCHANGED client_mode
         \/ /\ client_mode = "auto" /\ (found # "auto" \/ Len(probe) = ProbeSize)
            /\ server' = Proceed([server EXCEPT !.probe = <<>>], <<probe>> \o rest,
                                 IF found = "auto" THEN "raw" ELSE found)
            /\ client_mode' = IF found = "auto" THEN "raw" ELSE found
  BY DEF Receive
<1>4. /\ n \in Nat /\ 1 <= n /\ n <= Len(unsent)
      /\ data \in Seq(Nat) /\ Len(data) = n
  <2>1. n \in Int /\ 1 <= n /\ n <= Len(unsent) /\ n \in Nat BY <1>2, SMT
  <2>2. data \in Seq(Nat) /\ Len(data) = IF 1 <= n THEN n - 1 + 1 ELSE 0
    BY <2>1, <1>2, SubSeqType
  <2> QED BY <2>1, <2>2, SMT
<1> HIDE DEF data
<1>5. SubSeq(unsent, n + 1, Len(unsent)) \in Seq(Nat)
  <2>1. n + 1 \in Int /\ n + 1 >= 1 /\ Len(unsent) \in Int BY <1>2, <1>4, SMT
  <2> QED BY <2>1, <1>2, SubSeqType
<1>6. /\ copy \in Nat /\ copy <= n /\ copy <= ProbeSize - Len(server.probe)
      /\ copy < n => copy = ProbeSize - Len(server.probe)
  <2>1. \A l \in Nat : LET m == IF n < ProbeSize - l THEN n ELSE ProbeSize - l
                       IN  l <= ProbeSize - 1 =>
                              /\ m \in Nat /\ m <= n /\ m <= ProbeSize - l
                              /\ m < n => m = ProbeSize - l
    BY <1>4, TcpAssumption, SMT
  <2> QED BY <2>1, <1>2 DEF Smaller
<1> HIDE DEF copy
<1>7. copied \in Seq(Nat) /\ Len(copied) = copy
  <2>1. copied \in Seq(Nat) /\ Len(copied) = IF 1 <= copy THEN copy - 1 + 1 ELSE 0
    BY <1>4, <1>6, SubSeqType
  <2> QED BY <2>1, <1>6, SMT
<1>8. late \in Seq(Nat) /\ (copy < n => data = copied \o late)
  <2>1. copy + 1 \in Int /\ copy + 1 >= 1 /\ n <= Len(data) /\ n \in Int BY <1>4, <1>6, SMT
  <2>2. late \in Seq(Nat) BY <2>1, <1>4, SubSeqType
  <2>3. ASSUME copy < n PROVE data = copied \o late
    <3>1. 1 \in 1..(Len(data) + 1) /\ copy \in 1-1 .. Len(data) /\ n \in copy .. Len(data)
      BY <1>4, <1>6, <2>3, SMT
    <3>2. SubSeq(data, 1, copy) \o SubSeq(data, copy + 1, n) = SubSeq(data, 1, n)
      BY <3>1, <1>4, ConcatAdjacentSubSeq
    <3>3. SubSeq(data, 1, n) = data BY <1>4, SubSeqFull
    <3> QED BY <3>2, <3>3
  <2> QED BY <2>2, <2>3
<1>9. ~(copy < n) => data = copied
  <2> SUFFICES ASSUME ~(copy < n) PROVE data = copied OBVIOUS
  <2>1. copy = n BY <1>4, <1>6, SMT
  <2> QED BY <2>1, <1>4, SubSeqFull
<1> HIDE DEF copied, late, unsent
<1>10. probe \in Seq(Nat) /\ Len(probe) <= ProbeSize /\ Len(probe) \in Nat
  <2>1. probe \in Seq(Nat) /\ Len(probe) = Len(server.probe) + Len(copied)
    BY <1>2, <1>7, ConcatProperties
  <2> QED BY <2>1, <1>2, <1>6, <1>7, TcpAssumption, SMT
<1>11. /\ rest \in Seq(Seq(Nat))
       /\ \/ rest = <<>> /\ data = copied
          \/ \E l \in Seq(Nat) : rest = <<l>> /\ data = copied \o l
  BY <1>8, <1>9
<1>12. client'.unsent \in Seq(Nat) /\ client' = [client EXCEPT !.unsent = client'.unsent]
  <2>1. PICK left \in Seq(Nat) : left = SubSeq(unsent, n + 1, Len(unsent)) BY <1>5
  <2>2. client' = [client EXCEPT !.unsent = left] BY <2>1, <1>3 DEF unsent
  <2>3. client'.unsent = left BY <2>2, <1>1
  <2> QED BY <2>2, <2>3
<1>13. [server EXCEPT !.probe = <<>>] \in Servers
  <2>1. <<>> \in SeqUpTo(ProbeSize - 1) BY IdleServerType DEF IdleServer, Servers
  <2> QED BY <2>1, <1>1 DEF Servers
<1>14. ~(Len(probe) = ProbeSize) => probe \in SeqUpTo(ProbeSize - 1) /\ data = copied
  <2> SUFFICES ASSUME ~(Len(probe) = ProbeSize)
               PROVE  probe \in SeqUpTo(ProbeSize - 1) /\ data = copied
    OBVIOUS
  <2>0. \A l \in Nat : l <= ProbeSize /\ l # ProbeSize => l <= ProbeSize - 1
    BY TcpAssumption, SMT
  <2>1. Len(probe) <= ProbeSize - 1 BY <1>10, <2>0
  <2>2. ~(copy < n)
    <3>1. Len(probe) = Len(server.probe) + Len(copied) BY <1>2, <1>7, ConcatProperties
    <3> QED BY <3>1, <2>1, <1>2, <1>6, <1>7, TcpAssumption, SMT
  <2> QED BY <2>1, <2>2, <1>9, <1>10 DEF SeqUpTo
<1>15. data = SubSeq(client.unsent, 1, n) BY DEF data, unsent
<1> HIDE DEF probe, rest
<1>16. CASE client_mode # "auto"
  BY <1>3, <1>4, <1>12, <1>15, <1>16
<1>17. CASE client_mode = "auto" /\ ~(found # "auto" \/ Len(probe) = ProbeSize)
  BY <1>3, <1>4, <1>7, <1>12, <1>14, <1>15, <1>17 DEF probe
<1>18. CASE client_mode = "auto" /\ (found # "auto" \/ Len(probe) = ProbeSize)
  <2>1. /\ client_mode' = (IF found = "auto" THEN "raw" ELSE found)
        /\ server' = Proceed([server EXCEPT !.probe = <<>>], <<probe>> \o rest, client_mode')
        /\ found = "auto" => Len(probe) = ProbeSize
    BY <1>3, <1>18
  <2> HIDE DEF found
  <2> QED BY <2>1, <1>3, <1>4, <1>7, <1>10, <1>11, <1>12, <1>13, <1>15, <1>18 DEF probe, found
<1> QED BY <1>16, <1>17, <1>18

-----------------------------------------------------------------------------
(* Every variable keeps its type.                                           *)

LEMMA InitType == Init => TypeOK
<1> SUFFICES ASSUME Init PROVE TypeOK OBVIOUS
<1>0. <<>> \in Seq(Nat) /\ Len(<<>>) = 0 /\ <<>> \in Seq(CommandRecords) BY EmptySeq
<1>1. RingsOK BY EmptyRingIsOne DEF Init, RingsOK
<1>2. <<>> \in SeqUpTo(MaxTransfer) BY <1>0, TcpAssumption DEF SeqUpTo
<1>3. UsbOK BY <1>0, <1>2 DEF Init, UsbOK
<1>4. ClientOK BY <1>0 DEF Init, ClientOK
<1>5. HistoryOK BY <1>0 DEF Init, HistoryOK
<1>6. world \in World BY TcpAssumption DEF Init
<1>7. server \in Servers BY IdleServerType DEF Init
<1> QED BY <1>1, <1>3, <1>4, <1>5, <1>6, <1>7 DEF TypeOK

\* A step of the server that touches nothing but where it is and what it holds.
ServerOnly ==
    UNCHANGED <<rings, usb, rx, usb_tx, client, client_mode, tcp_client, client_connected, web,
                received, handed, ours, fresh, owed, owed_client, uncounted>>

\* Such steps: where they lead, and what else of the task they change.
LEMMA ServerOnlySteps ==
    ASSUME TypeOK,
           \/ Listen \/ AcceptFails \/ ReceiveEnd \/ SelectTimeout \/ SelectFails
           \/ ParseByte \/ ParseEnd \/ Negotiate \/ Handle \/ Leave
    PROVE  /\ ServerOnly /\ server' \in Servers /\ handled' \in Seq(CommandRecords)
           /\ server'.out = server.out
           /\ server.at \in {"listen", "accept", "select", "parse", "command", "leave"}
           /\ server'.at \in {"accept", "listen", "pop", "leave", "parse", "command", "offer",
                              "apply", "answer", "close"}
<1>1. /\ server \in Servers /\ handled \in Seq(CommandRecords) /\ <<>> \in Seq(Nat)
      /\ <<>> \in Seq(Seq(Nat)) /\ NoCommand \in CommandRecords
  BY DEF TypeOK, HistoryOK, NoCommand, CommandRecords
<1>2. CASE Listen \/ AcceptFails \/ ReceiveEnd \/ SelectTimeout \/ SelectFails \/ ParseEnd
  <2>1. /\ ServerOnly /\ handled' = handled
        /\ \/ server.at = "listen" /\ server' = [server EXCEPT !.at = "accept"]
           \/ server.at = "accept" /\ server' = [server EXCEPT !.at = "listen"]
           \/ server.at = "select" /\ server' = [server EXCEPT !.at = "pop", !.connected = FALSE]
           \/ server.at = "select" /\ server' = [server EXCEPT !.at = "pop"]
           \/ server.at = "select" /\ server' = [server EXCEPT !.at = "leave"]
           \/ server.at = "parse" /\ server' = [server EXCEPT !.at = "offer"]
    BY <1>2 DEF Listen, AcceptFails, ReceiveEnd, SelectTimeout, SelectFails, ParseEnd, ServerOnly,
                history
  <2> QED BY <1>1, <2>1 DEF Servers, Places
<1>3. CASE ParseByte
  <2> DEFINE byte == Head(server.input)
             commands == Commands(server.parser, byte)
  <2>1. /\ server.at = "parse" /\ server.input # <<>> /\ ServerOnly
        /\ handled' = handled \o commands
        /\ server' = [server EXCEPT
                         !.at = IF commands = <<>> THEN "parse" ELSE "command",
                         !.input = Tail(server.input),
                         !.parser = Step(server.parser, byte),
                         !.serial_rx = server.serial_rx \o Serial(server.parser, byte),
                         !.request = IF commands = <<>> THEN NoCommand ELSE Head(commands)]
    BY <1>3 DEF ParseByte, ServerOnly
  <2>2. /\ server.input \in Seq(Nat) /\ server.parser \in Parsers /\ server.serial_rx \in Seq(Nat)
    BY <1>1 DEF Servers
  <2>3. byte \in Nat /\ Tail(server.input) \in Seq(Nat) BY <2>1, <2>2, HeadTailProperties
  <2>4. /\ Step(server.parser, byte) \in Parsers /\ Serial(server.parser, byte) \in Seq(Nat)
        /\ commands \in Seq(CommandRecords)
        /\ commands # <<>> => Head(commands) \in CommandRecords
    BY <2>2, <2>3, StepType, ParsedType
  <2>5. PICK s : s = server.serial_rx \o Serial(server.parser, byte) OBVIOUS
  <2>6. s \in Seq(Nat) BY <2>2, <2>4, <2>5, ConcatProperties
  <2>7. PICK r : r = (IF commands = <<>> THEN NoCommand ELSE Head(commands)) OBVIOUS
  <2>8. r \in CommandRecords BY <1>1, <2>4, <2>7
  <2>9. PICK a : a = (IF commands = <<>> THEN "parse" ELSE "command") OBVIOUS
  <2>10. a \in {"parse", "command"} BY <2>9
  <2>11. handled' \in Seq(CommandRecords) BY <1>1, <2>1, <2>4, ConcatProperties
  <2>12. server' = [server EXCEPT !.at = a, !.input = Tail(server.input),
                                  !.parser = Step(server.parser, byte), !.serial_rx = s,
                                  !.request = r]
    BY <2>1, <2>5, <2>7, <2>9
  <2>13. server' \in Servers /\ server'.out = server.out /\ server'.at = a
    <3> HIDE DEF byte, commands
    <3> QED BY <1>1, <2>3, <2>4, <2>6, <2>8, <2>10, <2>12 DEF Servers, Places
  <2> QED BY <2>1, <2>10, <2>11, <2>13
<1>4. CASE Negotiate
  <2>1. Served \in Servers /\ Served.out = server.out /\ Served.at = "parse"
    BY <1>1 DEF Served, Servers, Places
  <2>2. Failed \in Servers /\ Failed.out = server.out /\ Failed.at = "pop"
    BY <1>1 DEF Failed, Servers, Places
  <2> QED BY <1>1, <1>4, <2>1, <2>2 DEF Negotiate, ServerOnly, history
<1>5. CASE Handle
  <2>1. /\ server.at = "command" /\ ServerOnly /\ handled' = handled
        /\ \/ server' = [server EXCEPT !.at = "apply"]
           \/ server' = [server EXCEPT !.at = "answer"]
           \/ server' = [server EXCEPT !.at = "parse", !.request = NoCommand]
    BY <1>5 DEF Handle, ServerOnly, history, Served
  <2> QED BY <1>1, <2>1 DEF Servers, Places
<1>6. CASE Leave
  <2> DEFINE kept == IF client_mode = "auto" /\ server.probe # <<>> THEN <<server.probe>> ELSE <<>>
             closing == [server EXCEPT !.next = "close"]
  <2>1. /\ server.at = "leave" /\ ServerOnly /\ handled' = handled
        /\ server' = Proceed(closing, kept, client_mode)
    BY <1>6 DEF Leave, ServerOnly, history
  <2>2. server.probe \in Seq(Nat) BY <1>1 DEF Servers, SeqUpTo
  <2>3. kept \in Seq(Seq(Nat)) BY <1>1, <2>2
  <2>4. closing \in Servers /\ closing.out = server.out BY <1>1 DEF Servers
  <2> HIDE DEF closing, kept
  <2>5. server' \in Servers /\ server'.out = closing.out /\ server'.at \in {"parse", "offer", "pop", "close"}
    BY <2>1, <2>3, <2>4, ProceedType
  <2> QED BY <1>1, <2>1, <2>4, <2>5
<1> QED BY <1>2, <1>3, <1>4, <1>5, <1>6

LEMMA ServerTypes ==
    ASSUME TypeOK, UNCHANGED world, Server
    PROVE  TypeOK'
<1>1. /\ world \in World /\ RingsOK /\ UsbOK /\ ClientOK /\ HistoryOK /\ server \in Servers
  BY DEF TypeOK
<1> USE DEF rings, usb, tcp, history
<1>2. CASE \/ Listen \/ AcceptFails \/ ReceiveEnd \/ SelectTimeout \/ SelectFails
           \/ ParseByte \/ ParseEnd \/ Negotiate \/ Handle \/ Leave
  <2>1. ServerOnly /\ server' \in Servers /\ handled' \in Seq(CommandRecords)
    BY <1>2, ServerOnlySteps
  <2> QED BY <1>1, <2>1 DEF ServerOnly, TypeOK, RingsOK, UsbOK, ClientOK, HistoryOK
<1>3. CASE Announce
  <2>1. server' \in Servers BY <1>1, <1>3 DEF Announce, Servers, Places
  <2> QED BY <1>1, <1>3, <2>1 DEF Announce, TypeOK, RingsOK, UsbOK, ClientOK, HistoryOK
<1>4. ASSUME NEW n \in 1..Len(client.unsent), Receive(n) PROVE TypeOK'
  <2>1. PICK data \in Seq(Nat) :
             /\ client'.unsent \in Seq(Nat)
             /\ client' = [client EXCEPT !.unsent = client'.unsent]
             /\ received' = received \o data
             /\ \/ /\ server' = Proceed(server, <<data>>, client_mode)
                   /\ UNCHANGED client_mode
                \/ \E copied \in Seq(Nat) :
                      LET probe == server.probe \o copied
                      IN  /\ UNCHANGED client_mode
                          /\ probe \in SeqUpTo(ProbeSize - 1)
                          /\ server' = [server EXCEPT !.at = "pop", !.probe = probe]
                \/ \E copied \in Seq(Nat), rest \in Seq(Seq(Nat)) :
                      LET probe == server.probe \o copied
                          empty == [server EXCEPT !.probe = <<>>]
                      IN  /\ probe \in Seq(Nat)
                          /\ client_mode' = (IF detect_client_mode(probe) = "auto"
                                             THEN "raw" ELSE detect_client_mode(probe))
                          /\ empty \in Servers
                          /\ server' = Proceed(empty, <<probe>> \o rest, client_mode')
    BY <1>4, ReceiveCases
  <2>2. received' \in Seq(Nat) BY <1>1, <2>1, ConcatProperties DEF HistoryOK
  <2>3. client' \in [state : {"none", "open", "closed"}, unsent : Seq(Nat), sessions : Nat]
    <3>1. PICK u \in Seq(Nat) : u = client'.unsent BY <2>1
    <3>2. client' = [client EXCEPT !.unsent = u] BY <2>1, <3>1
    <3> QED BY <1>1, <3>2 DEF ClientOK
  <2>4. server' \in Servers /\ client_mode' \in {"none", "auto", "raw", "rfc2217"}
    <3>1. CASE server' = Proceed(server, <<data>>, client_mode) /\ UNCHANGED client_mode
      <4>1. <<data>> \in Seq(Seq(Nat)) OBVIOUS
      <4>2. server' \in Servers BY <1>1, <3>1, <4>1, ProceedType
      <4> QED BY <1>1, <3>1, <4>2 DEF ClientOK
    <3>2. ASSUME NEW probe \in SeqUpTo(ProbeSize - 1), UNCHANGED client_mode,
                 server' = [server EXCEPT !.at = "pop", !.probe = probe]
          PROVE  server' \in Servers /\ client_mode' \in {"none", "auto", "raw", "rfc2217"}
      <4>1. server' \in Servers BY <1>1, <3>2 DEF Servers, Places
      <4> QED BY <1>1, <3>2, <4>1 DEF ClientOK
    <3>3. ASSUME NEW copied \in Seq(Nat), NEW rest \in Seq(Seq(Nat)), NEW probe \in Seq(Nat),
                 client_mode' = (IF detect_client_mode(probe) = "auto"
                                 THEN "raw" ELSE detect_client_mode(probe)),
                 NEW empty \in Servers,
                 server' = Proceed(empty, <<probe>> \o rest, client_mode')
          PROVE  server' \in Servers /\ client_mode' \in {"none", "auto", "raw", "rfc2217"}
      <4>1. detect_client_mode(probe) \in {"auto", "raw", "rfc2217"}
        <5>1. Len(probe) \in Nat BY LenProperties
        <5> QED BY <5>1 DEF detect_client_mode
      <4>2. <<probe>> \in Seq(Seq(Nat)) OBVIOUS
      <4>3. <<probe>> \o rest \in Seq(Seq(Nat)) BY <3>3, <4>2, ConcatProperties
      <4>4. server' \in Servers BY <3>3, <4>3, ProceedType
      <4>5. client_mode' \in {"none", "auto", "raw", "rfc2217"} BY <3>3, <4>1
      <4> QED BY <4>4, <4>5
    <3> QED BY <2>1, <3>1, <3>2, <3>3
  <2>5. UNCHANGED <<rings, usb, rx, usb_tx, tcp_client, client_connected, web, handed, handled,
                    owed, owed_client, uncounted>>
    BY <1>4 DEF Receive
  <2> QED BY <1>1, <2>2, <2>3, <2>4, <2>5 DEF TypeOK, RingsOK, UsbOK, ClientOK, HistoryOK
<1>5. CASE Apply \/ Applied
  <2>1. server' \in Servers BY <1>1, <1>5 DEF Apply, Applied, Servers, Places
  <2>2. cdc_mutex' \in {"free", "server", "tx", "connect"}
    BY <1>1, <1>5 DEF Apply, Applied, UsbOK
  <2> QED BY <1>1, <1>5, <2>1, <2>2
          DEF Apply, Applied, TypeOK, RingsOK, UsbOK, ClientOK, HistoryOK
<1>6. CASE Answer
  <2>0. <<>> \in Seq(Nat) /\ <<>> \in Seq(Seq(Nat)) /\ NoCommand \in CommandRecords
    BY DEF NoCommand, CommandRecords
  <2>1. server' \in Servers BY <1>1, <1>6, <2>0 DEF Answer, Served, Failed, Servers, Places
  <2>2. /\ usb_to_net' \in {usb_to_net, ring_reset(usb_to_net)}
        /\ net_to_usb' \in {net_to_usb, ring_reset(net_to_usb)}
        /\ owed' \in {owed, owed - net_to_usb.count}
        /\ owed_client' \in {owed_client, owed_client - usb_to_net.count}
        /\ UNCHANGED <<usb, rx, usb_tx, client, client_mode, tcp_client, client_connected, web,
                       history, uncounted>>
    BY <1>6 DEF Answer
  <2>3. RingsOK' BY <1>1, <2>2, ResetOnRing DEF RingsOK
  <2>4. net_to_usb.count \in Int /\ usb_to_net.count \in Int
    <3>1. \A c \in 0..Capacity : c \in Int BY RingAssumption, SMT
    <3> QED BY <1>1, <3>1 DEF RingsOK, RingOf
  <2>5. owed' \in Int /\ owed_client' \in Int BY <1>1, <2>2, <2>4, SMT DEF HistoryOK
  <2> QED BY <1>1, <2>1, <2>2, <2>3, <2>5 DEF TypeOK, UsbOK, ClientOK, HistoryOK
<1>7. CASE Offer
  <2>1. server.serial_rx \in Seq(Nat) /\ server.parts \in Seq(Seq(Nat)) BY <1>1 DEF Servers
  <2>2. handed' \in Seq(Nat) BY <1>1, <1>7, <2>1, ConcatProperties DEF Offer, HistoryOK
  <2>3. [server EXCEPT !.at = "push"] \in Servers BY <1>1 DEF Servers, Places
  <2>4. Proceed(server, server.parts, client_mode) \in Servers BY <1>1, <2>1, ProceedType
  <2>5. server' \in Servers BY <1>7, <2>3, <2>4 DEF Offer
  <2>6. owed' \in Int
    <3>1. Len(server.serial_rx) \in Nat /\ owed \in Int BY <1>1, <2>1, LenProperties DEF HistoryOK
    <3>2. owed' \in {owed, owed + Len(server.serial_rx)} BY <1>7 DEF Offer
    <3> QED BY <3>1, <3>2, SMT
  <2> QED BY <1>1, <1>7, <2>2, <2>5, <2>6
          DEF Offer, TypeOK, RingsOK, UsbOK, ClientOK, HistoryOK
<1>8. CASE Push
  <2>1. server.serial_rx \in Seq(Nat) /\ server.parts \in Seq(Seq(Nat)) BY <1>1 DEF Servers
  <2>2. server' \in Servers BY <1>1, <1>8, <2>1, ProceedType DEF Push
  <2>3. /\ net_to_usb' \in RingOf(Nat) /\ Aligned(net_to_usb')
        /\ Accepted(net_to_usb, server.serial_rx) \in Nat
    BY <1>1, <1>8, <2>1, PushOnRing DEF Push, RingsOK
  <2>4. owed' \in Int
    <3>1. Len(server.serial_rx) \in Nat /\ owed \in Int BY <1>1, <2>1, LenProperties DEF HistoryOK
    <3>2. owed' = owed - (Len(server.serial_rx) - Accepted(net_to_usb, server.serial_rx))
      BY <1>8 DEF Push
    <3> QED BY <2>3, <3>1, <3>2, SMT
  <2> QED BY <1>1, <1>8, <2>2, <2>3, <2>4 DEF Push, TypeOK, RingsOK, UsbOK, ClientOK, HistoryOK
<1>9. CASE PopForClient
  <2> DEFINE out == Popped(usb_to_net, MaxPop)
  <2>1. /\ usb_to_net' \in RingOf(Nat) /\ Aligned(usb_to_net')
        /\ out \in Seq(Nat) /\ Len(out) <= MaxPop /\ Len(out) \in Nat
    BY <1>1, <1>9, PopOnRing, TcpAssumption DEF PopForClient, RingsOK
  <2>2. out \in SeqUpTo(MaxPop) BY <2>1 DEF SeqUpTo
  <2>3. /\ \/ server' = [server EXCEPT !.at = "send", !.out = out]
           \/ server' = [server EXCEPT !.at = AfterPop]
        /\ owed_client' = owed_client /\ uncounted' \in {uncounted, uncounted + Len(out)}
    BY <1>9 DEF PopForClient
  <2> HIDE DEF out
  <2>4. server' \in Servers BY <1>1, <2>2, <2>3 DEF Servers, Places, AfterPop
  <2>5. uncounted' \in Nat BY <1>1, <2>1, <2>3, SMT DEF HistoryOK
  <2> QED BY <1>1, <1>9, <2>1, <2>4, <2>5
          DEF PopForClient, TypeOK, RingsOK, UsbOK, ClientOK, HistoryOK
<1>10. CASE Send
  <2>0. <<>> \in SeqUpTo(MaxPop) BY IdleServerType DEF IdleServer, Servers
  <2>1. server' \in Servers BY <1>1, <1>10, <2>0 DEF Send, Servers, Places
  <2>2. owed_client' \in Int /\ uncounted' \in Nat
    <3>1. server.out \in Seq(Nat) BY <1>1 DEF Servers, SeqUpTo
    <3>2. Len(server.out) \in Nat /\ owed_client \in Int /\ uncounted \in Nat
      BY <1>1, <3>1, LenProperties DEF HistoryOK
    <3>3. /\ owed_client' \in {owed_client, owed_client - Len(server.out)}
          /\ uncounted' \in {uncounted, uncounted + Len(server.out)}
      BY <1>10 DEF Send
    <3> QED BY <3>2, <3>3, SMT
  <2> QED BY <1>1, <1>10, <2>1, <2>2 DEF Send, TypeOK, RingsOK, UsbOK, ClientOK, HistoryOK
<1>11. CASE CloseClient
  <2>1. server' \in Servers BY <1>11, IdleServerType DEF CloseClient, Servers, Places
  <2>2. client' \in [state : {"none", "open", "closed"}, unsent : Seq(Nat), sessions : Nat]
    <3>1. <<>> \in Seq(Nat) OBVIOUS
    <3> QED BY <1>1, <1>11, <3>1 DEF CloseClient, ClientOK
  <2>3. usb_to_net' \in RingOf(Nat) /\ Aligned(usb_to_net')
    BY <1>1, <1>11, ResetOnRing DEF CloseClient, RingsOK
  <2>4. owed_client' \in Int
    <3>1. \A c \in 0..Capacity : c \in Int BY RingAssumption, SMT
    <3>2. usb_to_net.count \in Int /\ owed_client \in Int
      BY <1>1, <3>1 DEF RingsOK, RingOf, HistoryOK
    <3>3. owed_client' = owed_client - usb_to_net.count BY <1>11 DEF CloseClient
    <3> QED BY <3>2, <3>3, SMT
  <2> QED BY <1>1, <1>11, <2>1, <2>2, <2>3, <2>4
          DEF CloseClient, TypeOK, RingsOK, UsbOK, ClientOK, HistoryOK
<1> QED BY <1>2, <1>3, <1>4, <1>5, <1>6, <1>7, <1>8, <1>9, <1>10, <1>11 DEF Server

LEMMA CountType ==
    ASSUME NEW ring \in RingOf(Nat)
    PROVE  ring.count \in Nat /\ ring.count <= Capacity
<1>1. \A c \in 0..Capacity : c \in Nat /\ c <= Capacity BY RingAssumption, SMT
<1> QED BY <1>1 DEF RingOf

LEMMA OtherTypes ==
    ASSUME TypeOK, UNCHANGED world, NextClient \/ ClientEnds \/ UsbTx \/ WebFrame \/ WebPush
    PROVE  TypeOK'
<1>1. /\ world \in World /\ RingsOK /\ UsbOK /\ ClientOK /\ HistoryOK /\ server \in Servers
  BY DEF TypeOK
<1>2. /\ net_to_usb.count \in Int /\ usb_to_net.count \in Int /\ owed \in Int /\ owed_client \in Int
      /\ <<>> \in Seq(Nat) /\ <<>> \in Seq(CommandRecords)
  BY <1>1, CountType DEF RingsOK, HistoryOK
<1>3. /\ usb_tx.buf \in Seq(Nat) /\ Len(usb_tx.buf) \in Int
      /\ web.chunk \in Seq(Nat) /\ Len(web.chunk) \in Int
  BY <1>1, LenProperties DEF UsbOK, ClientOK, SeqUpTo
<1> USE DEF rings, usb, tcp, history
<1>4. CASE NextClient
  <2>1. PICK s \in 1..Len(world.scripts) : \E script \in world.scripts[s] : Accept(script)
    BY <1>4 DEF NextClient
  <2>2. PICK script \in world.scripts[s] : Accept(script) BY <2>1
  <2>3. script \in Seq(Nat)
    <3>1. world.scripts \in Seq(SUBSET Seq(Nat)) BY <1>1 DEF World
    <3>2. world.scripts[s] \in SUBSET Seq(Nat) BY <2>1, <3>1, ElementOfSeq
    <3> QED BY <2>2, <3>2
  <2>4. client' \in [state : {"none", "open", "closed"}, unsent : Seq(Nat), sessions : Nat]
    <3>1. client.sessions + 1 \in Nat BY <1>1 DEF ClientOK
    <3> QED BY <2>2, <2>3, <3>1 DEF Accept
  <2>5. server' \in Servers BY <2>2, IdleServerType DEF Accept, Servers, Places
  <2>6. usb_to_net' \in RingOf(Nat) /\ Aligned(usb_to_net')
    BY <1>1, <2>2, ResetOnRing DEF Accept, RingsOK
  <2>7. owed_client' \in Int /\ uncounted' \in Nat
    <3>1. uncounted \in Int BY <1>1, SMT DEF HistoryOK
    <3>2. owed_client' = owed_client - usb_to_net.count - uncounted /\ uncounted' = 0
      BY <2>2 DEF Accept
    <3> QED BY <1>2, <3>1, <3>2, SMT
  <2> QED BY <1>1, <1>2, <2>2, <2>4, <2>5, <2>6, <2>7
          DEF Accept, TypeOK, RingsOK, UsbOK, ClientOK, HistoryOK
<1>5. CASE ClientEnds
  <2>1. client' \in [state : {"none", "open", "closed"}, unsent : Seq(Nat), sessions : Nat]
    BY <1>1, <1>2, <1>5 DEF ClientEnds, ClientOK
  <2> QED BY <1>1, <1>5, <2>1 DEF ClientEnds, TypeOK, RingsOK, UsbOK, ClientOK, HistoryOK
<1>6. CASE UsbPop
  <2> DEFINE buf == Popped(net_to_usb, MaxTransfer)
  <2>1. /\ net_to_usb' \in RingOf(Nat) /\ Aligned(net_to_usb')
        /\ buf \in Seq(Nat) /\ Len(buf) <= MaxTransfer
    BY <1>1, <1>6, PopOnRing, TcpAssumption DEF UsbPop, RingsOK
  <2>2. buf \in SeqUpTo(MaxTransfer) BY <2>1 DEF SeqUpTo
  <2>3. usb_tx' = [at |-> "check", buf |-> buf] BY <1>6 DEF UsbPop
  <2> HIDE DEF buf
  <2>4. usb_tx' \in [at : {"pop", "check", "lock", "send"}, buf : SeqUpTo(MaxTransfer)]
    BY <2>2, <2>3
  <2> QED BY <1>1, <1>6, <2>1, <2>4
          DEF UsbPop, TypeOK, RingsOK, UsbOK, ClientOK, HistoryOK
<1>7. CASE UsbCheck \/ UsbLock \/ UsbSend
  <2>1. <<>> \in SeqUpTo(MaxTransfer)
    <3>1. Len(<<>>) = 0 OBVIOUS
    <3> QED BY <1>2, <3>1, TcpAssumption DEF SeqUpTo
  <2>2. usb_tx' \in [at : {"pop", "check", "lock", "send"}, buf : SeqUpTo(MaxTransfer)]
    BY <1>1, <1>7, <2>1 DEF UsbCheck, UsbLock, UsbSend, Counted, UsbOK
  <2>3. owed' \in Int
    <3>1. owed' \in {owed, owed - Len(usb_tx.buf)}
      BY <1>7 DEF UsbCheck, UsbLock, UsbSend, Counted
    <3> QED BY <1>2, <1>3, <3>1, SMT
  <2>4. cdc_mutex' \in {"free", "server", "tx", "connect"}
    BY <1>1, <1>7 DEF UsbCheck, UsbLock, UsbSend, UsbOK
  <2>5. UNCHANGED <<rings, s_connected, device, rx, tcp, web, history, owed_client, uncounted>>
    BY <1>7 DEF UsbCheck, UsbLock, UsbSend
  <2> QED BY <1>1, <2>2, <2>3, <2>4, <2>5 DEF TypeOK, RingsOK, UsbOK, ClientOK, HistoryOK
<1>8. CASE WebFrame
  <2> DEFINE frame == world.frames[web.came + 1]
  <2>1. world.frames \in Seq(Seq(Nat)) /\ web.came \in Nat BY <1>1 DEF World, ClientOK
  <2>2. web.came + 1 \in 1..Len(world.frames) /\ web.came + 1 \in Nat
    <3>1. Len(world.frames) \in Nat /\ web.came < Len(world.frames)
      BY <1>8, <2>1, LenProperties DEF WebFrame
    <3> QED BY <2>1, <3>1, SMT
  <2>3. frame \in Seq(Nat) /\ Len(frame) \in Int BY <2>1, <2>2, ElementOfSeq, LenProperties
  <2>4. web' \in {[chunk |-> frame, came |-> web.came + 1], [web EXCEPT !.came = web.came + 1]}
        /\ owed' \in {owed, owed + Len(frame)}
    BY <1>8 DEF WebFrame
  <2> HIDE DEF frame
  <2>5. web' \in [chunk : Seq(Nat), came : Nat]
    <3>1. PICK k \in Nat : k = web.came + 1 BY <2>2
    <3>2. web' = [chunk |-> frame, came |-> k] \/ web' = [web EXCEPT !.came = k]
      BY <2>4, <3>1
    <3>3. [chunk |-> frame, came |-> k] \in [chunk : Seq(Nat), came : Nat] BY <2>3, <3>1
    <3>4. [web EXCEPT !.came = k] \in [chunk : Seq(Nat), came : Nat]
      BY <1>1, <3>1 DEF ClientOK
    <3> QED BY <3>2, <3>3, <3>4
  <2>6. owed' \in Int BY <1>2, <2>3, <2>4, SMT
  <2> QED BY <1>1, <1>8, <2>5, <2>6 DEF WebFrame, TypeOK, RingsOK, UsbOK, ClientOK, HistoryOK
<1>9. CASE WebPush
  <2>1. /\ net_to_usb' \in RingOf(Nat) /\ Aligned(net_to_usb')
        /\ Accepted(net_to_usb, web.chunk) \in Int
    BY <1>1, <1>3, <1>9, PushOnRing DEF WebPush, RingsOK
  <2>2. web' \in [chunk : Seq(Nat), came : Nat] BY <1>1, <1>2, <1>9 DEF WebPush, ClientOK
  <2>3. owed' \in Int
    <3>1. owed' = owed - (Len(web.chunk) - Accepted(net_to_usb, web.chunk)) BY <1>9 DEF WebPush
    <3> QED BY <1>2, <1>3, <2>1, <3>1, SMT
  <2> QED BY <1>1, <1>9, <2>1, <2>2, <2>3
          DEF WebPush, TypeOK, RingsOK, UsbOK, ClientOK, HistoryOK
<1> QED BY <1>4, <1>5, <1>6, <1>7, <1>8, <1>9 DEF UsbTx

LEMMA ChunkType ==
    ASSUME NEW sent \in Nat, NEW n \in Nat
    PROVE  [i \in 1..n |-> sent + i] \in Seq(Nat) /\ Len([i \in 1..n |-> sent + i]) = n
<1> DEFINE chunk == [i \in 1..n |-> sent + i]
<1>1. chunk \in [1..n -> Nat] OBVIOUS
<1> HIDE DEF chunk
<1>2. chunk \in Seq(Nat) /\ Len(chunk) = n BY <1>1
<1> QED BY <1>2 DEF chunk

LEMMA DeviceTypes ==
    ASSUME TypeOK, UNCHANGED world, Device
    PROVE  TypeOK'
<1>1. /\ world \in World /\ RingsOK /\ UsbOK /\ ClientOK /\ HistoryOK /\ server \in Servers
  BY DEF TypeOK
<1>2. /\ net_to_usb.count \in Int /\ usb_to_net.count \in Int /\ owed \in Int /\ owed_client \in Int
      /\ <<>> \in Seq(Nat) /\ rx \in Seq(Nat) /\ Len(rx) \in Int
  BY <1>1, CountType, LenProperties DEF RingsOK, HistoryOK, UsbOK
<1> USE DEF rings, usb, tcp, history
<1>3. CASE Open \/ Connected \/ Disconnected
  <2>1. device' \in [at : {"away", "opened", "setting", "up"}, gone : BOOLEAN, came : Nat, sent : Nat]
    <3>1. PICK k \in Nat : k = device.came + 1 BY <1>1 DEF UsbOK
    <3>2. \/ device' = [device EXCEPT !.at = "opened", !.gone = FALSE, !.came = k]
          \/ device' = [device EXCEPT !.at = "up"]
          \/ device' = [device EXCEPT !.gone = TRUE]
      BY <1>3, <3>1 DEF Open, Connected, Disconnected
    <3> QED BY <1>1, <3>1, <3>2 DEF UsbOK
  <2>2. s_connected' \in BOOLEAN /\ cdc_mutex' \in {"free", "server", "tx", "connect"}
    BY <1>1, <1>3 DEF Open, Connected, Disconnected, UsbOK
  <2>3. UNCHANGED <<rings, rx, usb_tx, tcp, web, history, owed, owed_client, uncounted>>
    BY <1>3 DEF Open, Connected, Disconnected
  <2> QED BY <1>1, <2>1, <2>2, <2>3 DEF TypeOK, RingsOK, UsbOK, ClientOK, HistoryOK
<1>4. CASE SetUp \/ CloseDevice
  <2>1. device' \in [at : {"away", "opened", "setting", "up"}, gone : BOOLEAN, came : Nat, sent : Nat]
    BY <1>1, <1>4 DEF SetUp, CloseDevice, UsbOK
  <2>2. s_connected' \in BOOLEAN /\ cdc_mutex' \in {"free", "server", "tx", "connect"}
    BY <1>1, <1>4 DEF SetUp, CloseDevice, UsbOK
  <2>3. /\ usb_to_net' = ring_reset(usb_to_net) /\ net_to_usb' = ring_reset(net_to_usb)
        /\ owed' = owed - net_to_usb.count /\ owed_client' = owed_client - usb_to_net.count
        /\ UNCHANGED <<rx, usb_tx, tcp, web, history, uncounted>>
    BY <1>4 DEF SetUp, CloseDevice
  <2>4. RingsOK' BY <1>1, <2>3, ResetOnRing DEF RingsOK
  <2>5. owed' \in Int /\ owed_client' \in Int BY <1>2, <2>3, SMT
  <2> QED BY <1>1, <2>1, <2>2, <2>3, <2>4, <2>5 DEF TypeOK, UsbOK, ClientOK, HistoryOK
<1>5. ASSUME NEW n \in 1..world.usb, DeviceSends(n) PROVE TypeOK'
  <2> DEFINE chunk == [i \in 1..n |-> device.sent + i]
  <2>1. device.sent \in Nat /\ world.usb \in Nat BY <1>1 DEF UsbOK, World
  <2>2. n \in Nat BY <2>1, SMT
  <2>3. chunk \in Seq(Nat) BY <2>1, <2>2, ChunkType
  <2>4. /\ rx' \in {rx, chunk} /\ owed_client' \in {owed_client, owed_client + n}
        /\ device' = [device EXCEPT !.sent = device.sent + n]
        /\ UNCHANGED <<rings, s_connected, cdc_mutex, usb_tx, tcp, web, history, owed, uncounted>>
    BY <1>5 DEF DeviceSends
  <2> HIDE DEF chunk
  <2>5. device' \in [at : {"away", "opened", "setting", "up"}, gone : BOOLEAN, came : Nat, sent : Nat]
    BY <1>1, <2>1, <2>2, <2>4 DEF UsbOK
  <2>6. owed_client' \in Int BY <1>2, <2>2, <2>4, SMT
  <2> QED BY <1>1, <2>3, <2>4, <2>5, <2>6 DEF TypeOK, RingsOK, UsbOK, ClientOK, HistoryOK
<1>6. CASE RxPush
  <2>1. /\ usb_to_net' \in RingOf(Nat) /\ Aligned(usb_to_net') /\ Accepted(usb_to_net, rx) \in Int
    BY <1>1, <1>2, <1>6, PushOnRing DEF RxPush, RingsOK
  <2>2. owed_client' \in Int
    <3>1. owed_client' = owed_client - (Len(rx) - Accepted(usb_to_net, rx)) BY <1>6 DEF RxPush
    <3> QED BY <1>2, <2>1, <3>1, SMT
  <2> QED BY <1>1, <1>2, <1>6, <2>1, <2>2
          DEF RxPush, TypeOK, RingsOK, UsbOK, ClientOK, HistoryOK
<1> QED BY <1>3, <1>4, <1>5, <1>6 DEF Device

LEMMA TypeStep == TypeOK /\ [Next]_vars => TypeOK'
<1> SUFFICES ASSUME TypeOK, [Next]_vars PROVE TypeOK' OBVIOUS
<1>1. CASE Next
  BY <1>1, ServerTypes, OtherTypes, DeviceTypes DEF Next
<1>2. CASE UNCHANGED vars
  BY <1>2 DEF vars, rings, usb, tcp, history, TypeOK, RingsOK, UsbOK, ClientOK, HistoryOK
<1> QED BY <1>1, <1>2

\* Whatever the clients, the device and the browsers do, every variable keeps its type: the
\* rings stay rings whose writer is count bytes ahead of the reader, the probe never reaches
\* ProbeSize, a subnegotiation never outgrows SubnegMax, and what is taken out of a ring at
\* once never outgrows the buffer it is put in.
THEOREM TypeCorrect == Spec => []TypeOK
BY InitType, TypeStep, PTL DEF Spec

-----------------------------------------------------------------------------
(* Every byte is accounted for.                                             *)

\* The chunk for the client is only in hand while it is sent, the one for the device only
\* until it is counted: without this a pop would write over bytes nobody had counted.
InHand ==
    /\ server.at # "send" => server.out = <<>>
    /\ usb_tx.at = "pop" => usb_tx.buf = <<>>

\* A Receive leads to the next piece or back to the pop, and changes nothing that is counted.
LEMMA ReceiveLeads ==
    ASSUME TypeOK, NEW n \in 1..Len(client.unsent), Receive(n)
    PROVE  /\ server.at = "select" /\ server'.out = server.out
           /\ server'.at \in {"parse", "offer", "pop", "close"}
           /\ UNCHANGED <<rings, usb, rx, usb_tx, web, ours, fresh, owed, owed_client, uncounted>>
<1>1. server \in Servers BY DEF TypeOK
<1>2. server'.out = server.out /\ server'.at \in {"parse", "offer", "pop", "close"}
  <2>1. \/ \E data \in Seq(Nat) : server' = Proceed(server, <<data>>, client_mode)
        \/ \E probe \in SeqUpTo(ProbeSize - 1) : server' = [server EXCEPT !.at = "pop", !.probe = probe]
        \/ \E probe \in Seq(Nat), rest \in Seq(Seq(Nat)) :
              /\ [server EXCEPT !.probe = <<>>] \in Servers
              /\ server' = Proceed([server EXCEPT !.probe = <<>>], <<probe>> \o rest, client_mode')
    BY ReceiveCases
  <2>2. ASSUME NEW data \in Seq(Nat), server' = Proceed(server, <<data>>, client_mode)
        PROVE  server'.out = server.out /\ server'.at \in {"parse", "offer", "pop", "close"}
    <3>0. <<data>> \in Seq(Seq(Nat)) OBVIOUS
    <3>1. PICK parts \in Seq(Seq(Nat)) : parts = <<data>> BY <3>0
    <3>2. /\ Proceed(server, parts, client_mode).out = server.out
          /\ Proceed(server, parts, client_mode).at \in {"parse", "offer", "pop", "close"}
      BY <1>1, ProceedType
    <3> QED BY <2>2, <3>1, <3>2
  <2>3. ASSUME NEW probe \in SeqUpTo(ProbeSize - 1), server' = [server EXCEPT !.at = "pop", !.probe = probe]
        PROVE  server'.out = server.out /\ server'.at \in {"parse", "offer", "pop", "close"}
    BY <1>1, <2>3 DEF Servers
  <2>4. ASSUME NEW probe \in Seq(Nat), NEW rest \in Seq(Seq(Nat)),
               [server EXCEPT !.probe = <<>>] \in Servers,
               server' = Proceed([server EXCEPT !.probe = <<>>], <<probe>> \o rest, client_mode')
        PROVE  server'.out = server.out /\ server'.at \in {"parse", "offer", "pop", "close"}
    <3>1. <<probe>> \in Seq(Seq(Nat)) OBVIOUS
    <3>2. <<probe>> \o rest \in Seq(Seq(Nat)) BY <3>1, ConcatProperties
    <3>3. PICK empty \in Servers : empty = [server EXCEPT !.probe = <<>>] BY <2>4
    <3>4. empty.out = server.out BY <1>1, <3>3 DEF Servers
    <3>5. PICK parts \in Seq(Seq(Nat)) : parts = <<probe>> \o rest BY <3>2
    <3>6. /\ Proceed(empty, parts, client_mode').out = empty.out
          /\ Proceed(empty, parts, client_mode').at \in {"parse", "offer", "pop", "close"}
      BY ProceedType
    <3> QED BY <2>4, <3>3, <3>4, <3>5, <3>6
  <2> QED BY <2>1, <2>2, <2>3, <2>4
<1> QED BY <1>2 DEF Receive

LEMMA InHandStep == TypeOK /\ InHand /\ [Next]_vars => InHand'
<1> SUFFICES ASSUME TypeOK, InHand, [Next]_vars PROVE InHand' OBVIOUS
<1>1. server \in Servers /\ UsbOK BY DEF TypeOK
<1> USE DEF rings, usb, tcp, history
<1>2. CASE Server
  <2>1. UNCHANGED usb_tx
    BY <1>2 DEF Server, Listen, AcceptFails, Announce, Receive, ReceiveEnd, SelectTimeout,
                SelectFails, ParseByte, ParseEnd, Negotiate, Handle, Apply, Applied, Answer,
                Offer, Push, PopForClient, Send, Leave, CloseClient
  <2>2. CASE \/ Listen \/ AcceptFails \/ ReceiveEnd \/ SelectTimeout \/ SelectFails
             \/ ParseByte \/ ParseEnd \/ Negotiate \/ Handle \/ Leave
    BY <2>1, <2>2, ServerOnlySteps DEF InHand
  <2>3. ASSUME NEW n \in 1..Len(client.unsent), Receive(n) PROVE InHand'
    BY <2>1, <2>3, ReceiveLeads DEF InHand
  <2>4. CASE Announce \/ Apply \/ Applied
    <3>1. server.at # "send" /\ server'.out = server.out
      BY <1>1, <2>4 DEF Announce, Apply, Applied, Servers
    <3> QED BY <2>1, <3>1 DEF InHand
  <2>5. CASE Answer
    <3>1. server.at # "send" /\ server'.out = server.out
      BY <1>1, <2>5 DEF Answer, Served, Failed, Servers
    <3> QED BY <2>1, <3>1 DEF InHand
  <2>6. CASE Offer \/ Push
    <3>1. server.parts \in Seq(Seq(Nat)) BY <1>1 DEF Servers
    <3>2. Proceed(server, server.parts, client_mode).out = server.out BY <1>1, <3>1, ProceedType
    <3>3. [server EXCEPT !.at = "push"].out = server.out BY <1>1 DEF Servers
    <3>4. server.at # "send" /\ server'.out = server.out BY <2>6, <3>2, <3>3 DEF Offer, Push
    <3> QED BY <2>1, <3>4 DEF InHand
  <2>7. CASE PopForClient
    <3>1. \/ server'.at = "send"
          \/ server.at # "send" /\ server'.out = server.out
      BY <1>1, <2>7 DEF PopForClient, Servers
    <3> QED BY <2>1, <3>1 DEF InHand
  <2>8. CASE Send
    <3>1. server'.out = <<>> BY <1>1, <2>8 DEF Send, Servers
    <3> QED BY <2>1, <3>1 DEF InHand
  <2>9. CASE CloseClient
    <3>1. server'.out = <<>> BY <2>9 DEF CloseClient, IdleServer
    <3> QED BY <2>1, <3>1 DEF InHand
  <2> QED BY <1>2, <2>2, <2>3, <2>4, <2>5, <2>6, <2>7, <2>8, <2>9 DEF Server
<1>3. CASE NextClient
  <2>1. server'.out = <<>> /\ UNCHANGED usb_tx
    BY <1>3 DEF NextClient, Accept, IdleServer
  <2> QED BY <2>1 DEF InHand
<1>4. CASE ClientEnds \/ Device \/ WebFrame \/ WebPush
  <2>1. UNCHANGED <<server, usb_tx>>
    BY <1>4 DEF ClientEnds, Device, WebFrame, WebPush, Open, SetUp, Connected, Disconnected,
                CloseDevice, DeviceSends, RxPush
  <2> QED BY <2>1 DEF InHand
<1>5. CASE UsbTx
  <2>1. UNCHANGED server /\ (usb_tx'.at = "pop" => usb_tx'.buf = <<>>)
    BY <1>1, <1>5 DEF UsbTx, UsbPop, UsbCheck, UsbLock, UsbSend, Counted, UsbOK
  <2> QED BY <2>1 DEF InHand
<1>6. CASE UNCHANGED vars
  BY <1>6 DEF vars, InHand
<1> QED BY <1>2, <1>3, <1>4, <1>5, <1>6 DEF Next

\* The two sums of BytesAccounted, and what a step may do to their parts: each sum is kept if its parts are
\* left alone, and if what leaves one part is added to another or taken from what is owed.
ToDevice ==
    net_to_usb.count + Len(usb_tx.buf) + Len(web.chunk)
        + (IF server.at = "push" THEN Len(server.serial_rx) ELSE 0)
ToTheClient == usb_to_net.count + Len(rx) + Len(server.out) + uncounted
Sums == owed = ToDevice /\ owed_client = ToTheClient

LEMMA PartTypes ==
    ASSUME TypeOK
    PROVE  /\ net_to_usb.count \in Nat /\ Len(usb_tx.buf) \in Nat /\ Len(web.chunk) \in Nat
           /\ Len(server.serial_rx) \in Nat
           /\ usb_to_net.count \in Nat /\ Len(rx) \in Nat /\ Len(server.out) \in Nat
           /\ owed \in Int /\ owed_client \in Int /\ uncounted \in Nat
           /\ server.serial_rx \in Seq(Nat) /\ web.chunk \in Seq(Nat) /\ rx \in Seq(Nat)
           /\ server.parts \in Seq(Seq(Nat)) /\ server.out \in Seq(Nat) /\ usb_tx.buf \in Seq(Nat)
<1>1. /\ usb_tx.buf \in Seq(Nat) /\ web.chunk \in Seq(Nat) /\ server.serial_rx \in Seq(Nat)
      /\ rx \in Seq(Nat) /\ server.out \in Seq(Nat) /\ server.parts \in Seq(Seq(Nat))
  BY DEF TypeOK, UsbOK, ClientOK, Servers, SeqUpTo
<1>2. net_to_usb.count \in Nat /\ usb_to_net.count \in Nat BY CountType DEF TypeOK, RingsOK
<1>3. owed \in Int /\ owed_client \in Int /\ uncounted \in Nat BY DEF TypeOK, HistoryOK
<1> QED BY <1>1, <1>2, <1>3, LenProperties

LEMMA ServerAccounts ==
    ASSUME TypeOK, TypeOK', InHand, Sums, Server
    PROVE  Sums'
<1>1. server \in Servers /\ RingsOK BY DEF TypeOK
<1>2. /\ net_to_usb.count \in Nat /\ Len(usb_tx.buf) \in Nat /\ Len(web.chunk) \in Nat
      /\ Len(server.serial_rx) \in Nat
      /\ usb_to_net.count \in Nat /\ Len(rx) \in Nat /\ Len(server.out) \in Nat
      /\ owed \in Int /\ owed_client \in Int /\ uncounted \in Nat
      /\ server.serial_rx \in Seq(Nat) /\ server.parts \in Seq(Seq(Nat))
  BY PartTypes
<1>3. owed = ToDevice /\ owed_client = ToTheClient
  BY DEF Sums
<1>4. Len(<<>>) = 0 OBVIOUS
<1> SUFFICES owed' = ToDevice' /\ owed_client' = ToTheClient'
  BY DEF Sums
<1> USE DEF rings, usb, tcp, history
<1>5. ASSUME server.at # "push", server'.at # "push", server'.out = server.out,
             UNCHANGED <<rings, usb_tx, web, rx, owed, owed_client, uncounted>>
      PROVE  owed' = ToDevice' /\ owed_client' = ToTheClient'
  BY <1>3, <1>5 DEF ToDevice, ToTheClient
<1>6. CASE \/ Listen \/ AcceptFails \/ ReceiveEnd \/ SelectTimeout \/ SelectFails
           \/ ParseByte \/ ParseEnd \/ Negotiate \/ Handle \/ Leave
  BY <1>5, <1>6, ServerOnlySteps DEF ServerOnly
<1>7. ASSUME NEW n \in 1..Len(client.unsent), Receive(n)
      PROVE  owed' = ToDevice' /\ owed_client' = ToTheClient'
  BY <1>5, <1>7, ReceiveLeads
<1>8. CASE Announce \/ Apply \/ Applied
  <2>1. /\ server.at # "push" /\ server'.at # "push" /\ server'.out = server.out
        /\ UNCHANGED <<rings, usb_tx, web, rx, owed, owed_client, uncounted>>
    BY <1>1, <1>8 DEF Announce, Apply, Applied, Servers
  <2> QED BY <1>5, <2>1
<1>9. CASE Answer
  <2>1. /\ server.at # "push" /\ server'.at # "push" /\ server'.out = server.out
        /\ UNCHANGED <<usb_tx, web, rx, uncounted>>
    BY <1>1, <1>9 DEF Answer, Served, Failed, Servers
  <2>2. /\ ring_reset(net_to_usb).count = 0 /\ ring_reset(usb_to_net).count = 0
    BY <1>1, ResetOnRing DEF RingsOK
  <2>3. /\ \/ net_to_usb'.count = 0 /\ owed' = owed - net_to_usb.count
           \/ net_to_usb'.count = net_to_usb.count /\ owed' = owed
        /\ \/ usb_to_net'.count = 0 /\ owed_client' = owed_client - usb_to_net.count
           \/ usb_to_net'.count = usb_to_net.count /\ owed_client' = owed_client
    BY <1>9, <2>2 DEF Answer
  <2>4. owed' = ToDevice'
    <3>1. CASE net_to_usb'.count = 0 /\ owed' = owed - net_to_usb.count
      <4>1. \A a, b, c \in Nat : (a + b + c + 0) - a = 0 + b + c + 0 BY SMT
      <4>2. owed' = (net_to_usb.count + Len(usb_tx.buf) + Len(web.chunk) + 0) - net_to_usb.count
        BY <1>3, <2>1, <3>1 DEF ToDevice
      <4>3. owed' = 0 + Len(usb_tx.buf) + Len(web.chunk) + 0 BY <1>2, <4>1, <4>2
      <4>4. usb_tx' = usb_tx /\ web' = web BY <2>1
      <4> QED BY <2>1, <3>1, <4>3, <4>4 DEF ToDevice
    <3>2. CASE net_to_usb'.count = net_to_usb.count /\ owed' = owed
      BY <1>2, <1>3, <2>1, <3>2, SMT DEF ToDevice
    <3> QED BY <2>3, <3>1, <3>2
  <2>5. owed_client' = ToTheClient'
    <3>1. CASE usb_to_net'.count = 0 /\ owed_client' = owed_client - usb_to_net.count
      BY <1>2, <1>3, <2>1, <3>1, SMT DEF ToTheClient
    <3>2. CASE usb_to_net'.count = usb_to_net.count /\ owed_client' = owed_client
      BY <1>2, <1>3, <2>1, <3>2, SMT DEF ToTheClient
    <3> QED BY <2>3, <3>1, <3>2
  <2> QED BY <2>4, <2>5
<1>10. CASE Offer
  <2>1. server.at = "offer" /\ UNCHANGED <<rings, usb_tx, web, rx, owed_client, uncounted>>
    BY <1>10 DEF Offer
  <2>2. CASE server.serial_rx # <<>> /\ s_connected
    <3>1. /\ server' = [server EXCEPT !.at = "push"]
          /\ owed' = owed + Len(server.serial_rx)
      BY <1>10, <2>2 DEF Offer
    <3>2. server'.at = "push" /\ server'.out = server.out /\ server'.serial_rx = server.serial_rx
      BY <1>1, <3>1 DEF Servers
    <3>3. owed_client' = ToTheClient' BY <1>3, <2>1, <3>2 DEF ToTheClient
    <3>4. owed = net_to_usb.count + Len(usb_tx.buf) + Len(web.chunk) + 0
      BY <1>3, <2>1 DEF ToDevice
    <3>5. ToDevice' = net_to_usb.count + Len(usb_tx.buf) + Len(web.chunk) + Len(server.serial_rx)
      BY <2>1, <3>2 DEF ToDevice
    <3>6. owed' = ToDevice' BY <1>2, <3>1, <3>4, <3>5, SMT
    <3> QED BY <3>3, <3>6
  <2>3. CASE ~(server.serial_rx # <<>> /\ s_connected)
    <3>1. /\ server' = Proceed(server, server.parts, client_mode) /\ owed' = owed
      BY <1>10, <2>3 DEF Offer
    <3>2. server'.at # "push" /\ server'.out = server.out BY <1>1, <1>2, <3>1, ProceedType
    <3> QED BY <1>5, <2>1, <3>1, <3>2
  <2> QED BY <2>2, <2>3
<1>11. CASE Push
  <2>1. /\ server.at = "push" /\ UNCHANGED <<usb_to_net, usb_tx, web, rx, owed_client, uncounted>>
        /\ server' = Proceed(server, server.parts, client_mode)
        /\ owed' = owed - (Len(server.serial_rx) - Accepted(net_to_usb, server.serial_rx))
        /\ net_to_usb' = ring_push(net_to_usb, server.serial_rx)
    BY <1>11 DEF Push
  <2>2. server'.at # "push" /\ server'.out = server.out BY <1>1, <1>2, <2>1, ProceedType
  <2>3. /\ net_to_usb'.count = net_to_usb.count + Accepted(net_to_usb, server.serial_rx)
        /\ Accepted(net_to_usb, server.serial_rx) \in Nat
    BY <1>1, <1>2, <2>1, PushOnRing DEF RingsOK
  <2>4. PICK n \in Nat : n = Accepted(net_to_usb, server.serial_rx) BY <2>3
  <2>5. /\ owed' = owed - (Len(server.serial_rx) - n)
        /\ net_to_usb'.count = net_to_usb.count + n
    BY <2>1, <2>3, <2>4
  <2>6. owed' = ToDevice'
    <3> DEFINE a == net_to_usb.count
               b == Len(usb_tx.buf)
               c == Len(web.chunk)
               l == Len(server.serial_rx)
    <3>2. owed' = (net_to_usb.count + Len(usb_tx.buf) + Len(web.chunk) + Len(server.serial_rx))
                    - (Len(server.serial_rx) - n)
      BY <1>3, <2>1, <2>5 DEF ToDevice
    <3>3. owed' = (net_to_usb.count + n) + Len(usb_tx.buf) + Len(web.chunk) + 0
      <4>1. a \in Nat /\ b \in Nat /\ c \in Nat /\ l \in Nat BY <1>2
      <4>2. owed' = (a + b + c + l) - (l - n) BY <3>2
      <4> HIDE DEF a, b, c, l
      <4>3. owed' = (a + n) + b + c + 0 BY <2>4, <4>1, <4>2, SMT
      <4> QED BY <4>3 DEF a, b, c
    <3>4. usb_tx' = usb_tx /\ web' = web BY <2>1
    <3> QED BY <2>2, <2>5, <3>3, <3>4 DEF ToDevice
  <2>7. owed_client' = ToTheClient' BY <1>3, <2>1, <2>2 DEF ToTheClient
  <2> QED BY <2>6, <2>7
<1>12. CASE PopForClient
  <2> DEFINE out == Popped(usb_to_net, MaxPop)
  <2>1. /\ server.at = "pop" /\ UNCHANGED <<net_to_usb, usb_tx, web, rx, owed, owed_client>>
        /\ usb_to_net' = ring_pop_now(usb_to_net, MaxPop)
        /\ \/ server' = [server EXCEPT !.at = "send", !.out = out] /\ uncounted' = uncounted
           \/ server' = [server EXCEPT !.at = AfterPop] /\ uncounted' = uncounted + Len(out)
    BY <1>12 DEF PopForClient
  <2>2. server.out = <<>> BY <2>1 DEF InHand
  <2>3. /\ usb_to_net.count = usb_to_net'.count + Len(out) /\ Len(out) \in Nat
        /\ usb_to_net'.count \in Nat
    BY <1>1, <2>1, PopOnRing, TcpAssumption DEF RingsOK
  <2> HIDE DEF out
  <2>4. /\ server'.at # "push"
        /\ \/ server'.out = out /\ uncounted' = uncounted
           \/ server'.out = <<>> /\ uncounted' = uncounted + Len(out)
    BY <1>1, <2>1, <2>2 DEF Servers, AfterPop
  <2>5. owed' = ToDevice' BY <1>3, <2>1, <2>4 DEF ToDevice
  <2>6. owed_client' = (usb_to_net'.count + Len(out)) + Len(rx) + 0 + uncounted
    BY <1>3, <1>4, <2>1, <2>2, <2>3 DEF ToTheClient
  <2>7. CASE server'.out = out /\ uncounted' = uncounted
    <3>1. \A a, b, c, d \in Nat : (a + b) + c + 0 + d = a + c + b + d BY SMT
    <3>2. owed_client' = usb_to_net'.count + Len(rx) + Len(out) + uncounted
      BY <1>2, <2>3, <2>6, <3>1
    <3>3. rx' = rx /\ server'.out = out BY <2>1, <2>7
    <3> QED BY <2>5, <2>7, <3>2, <3>3 DEF ToTheClient
  <2>8. CASE server'.out = <<>> /\ uncounted' = uncounted + Len(out)
    <3>1. \A a, b, c, d \in Nat : (a + b) + c + 0 + d = a + c + 0 + (d + b) BY SMT
    <3>2. owed_client' = usb_to_net'.count + Len(rx) + 0 + (uncounted + Len(out))
      BY <1>2, <2>3, <2>6, <3>1
    <3>3. rx' = rx /\ Len(server'.out) = 0 BY <1>4, <2>1, <2>8
    <3> QED BY <2>5, <2>8, <3>2, <3>3 DEF ToTheClient
  <2> QED BY <2>4, <2>5, <2>7, <2>8
<1>13. CASE Send
  <2>1. /\ server.at # "push" /\ server'.at # "push" /\ server'.out = <<>>
        /\ UNCHANGED <<rings, usb_tx, web, rx, owed>>
        /\ \/ owed_client' = owed_client - Len(server.out) /\ uncounted' = uncounted
           \/ owed_client' = owed_client /\ uncounted' = uncounted + Len(server.out)
    BY <1>1, <1>13 DEF Send, Servers
  <2>2. owed' = ToDevice' BY <1>3, <2>1 DEF ToDevice
  <2>3. \A a, b, c, d \in Nat : /\ (a + b + c + d) - c = a + b + 0 + d
                                /\ a + b + c + d = a + b + 0 + (d + c)
    BY SMT
  <2>4. owed_client' = usb_to_net.count + Len(rx) + 0 + uncounted'
    BY <1>2, <1>3, <2>1, <2>3 DEF ToTheClient
  <2>5. usb_to_net' = usb_to_net /\ rx' = rx /\ Len(server'.out) = 0 BY <1>4, <2>1
  <2> QED BY <2>2, <2>4, <2>5 DEF ToTheClient
<1>14. CASE CloseClient
  <2>1. /\ server.at = "close" /\ server'.at = "accept" /\ server'.out = <<>>
        /\ UNCHANGED <<net_to_usb, usb_tx, web, rx, owed, uncounted>>
        /\ owed_client' = owed_client - usb_to_net.count
    BY <1>14 DEF CloseClient, IdleServer
  <2>2. usb_to_net'.count = 0 BY <1>1, <1>14, ResetOnRing DEF CloseClient, RingsOK
  <2>3. server.out = <<>> BY <2>1 DEF InHand
  <2>4. owed' = ToDevice' BY <1>3, <2>1 DEF ToDevice
  <2>5. owed_client' = ToTheClient'
    BY <1>2, <1>3, <1>4, <2>1, <2>2, <2>3, SMT DEF ToTheClient
  <2> QED BY <2>4, <2>5
<1> QED BY <1>6, <1>7, <1>8, <1>9, <1>10, <1>11, <1>12, <1>13, <1>14 DEF Server

LEMMA OtherAccounts ==
    ASSUME TypeOK, TypeOK', InHand, Sums,
           NextClient \/ ClientEnds \/ UsbTx \/ Device \/ WebFrame \/ WebPush
    PROVE  Sums'
<1>1. server \in Servers /\ RingsOK /\ UsbOK /\ ClientOK BY DEF TypeOK
<1> DEFINE n == net_to_usb.count
           b == Len(usb_tx.buf)
           w == Len(web.chunk)
           p == IF server.at = "push" THEN Len(server.serial_rx) ELSE 0
           u == usb_to_net.count
           r == Len(rx)
           o == Len(server.out) + uncounted
<1>2. /\ n \in Nat /\ b \in Nat /\ w \in Nat /\ p \in Nat /\ u \in Nat /\ r \in Nat /\ o \in Nat
      /\ owed \in Int /\ owed_client \in Int /\ uncounted \in Nat
  <2>1. Len(server.out) \in Nat /\ uncounted \in Nat BY PartTypes
  <2>2. o \in Nat BY <2>1, SMT
  <2> QED BY <2>1, <2>2, PartTypes
<1>3. owed = n + b + w + p /\ owed_client = u + r + o
  <2>1. owed_client = usb_to_net.count + Len(rx) + Len(server.out) + uncounted
    BY DEF Sums, ToTheClient
  <2>2. owed_client = u + r + o BY <2>1, PartTypes, SMT
  <2> QED BY <2>2 DEF Sums, ToDevice
<1>4. Len(<<>>) = 0 OBVIOUS
<1> HIDE DEF n, b, w, p, u, r, o
<1> USE DEF rings, usb, tcp, history
<1>5. /\ ring_reset(net_to_usb).count = 0 /\ ring_reset(usb_to_net).count = 0
  BY <1>1, ResetOnRing DEF RingsOK
\* A step that leaves the server alone: the sums of the parts after it.
<1>6. ASSUME UNCHANGED <<server, uncounted>>,
             owed' = net_to_usb'.count + Len(usb_tx'.buf) + Len(web'.chunk) + p,
             owed_client' = usb_to_net'.count + Len(rx') + o
      PROVE  Sums'
  <2>1. /\ owed' = ToDevice' BY <1>6 DEF ToDevice, p
  <2>2. usb_to_net'.count \in Nat /\ Len(rx') \in Nat /\ Len(server.out) \in Nat
    <3>1. usb_to_net'.count \in Nat /\ rx' \in Seq(Nat)
      BY CountType DEF TypeOK, RingsOK, UsbOK
    <3> QED BY <3>1, PartTypes, LenProperties
  <2>3. owed_client' = usb_to_net'.count + Len(rx') + Len(server.out) + uncounted
    BY <1>2, <1>6, <2>2, SMT DEF o
  <2>4. owed_client' = ToTheClient' BY <1>6, <2>3 DEF ToTheClient
  <2> QED BY <2>1, <2>4 DEF Sums
<1>7. CASE NextClient
  <2>1. /\ server.at = "accept" /\ server'.at = "announce" /\ server'.out = <<>>
        /\ UNCHANGED <<net_to_usb, usb_tx, web, rx, owed>>
        /\ owed_client' = owed_client - u - uncounted /\ uncounted' = 0
        /\ usb_to_net'.count = 0
    BY <1>5, <1>7 DEF NextClient, Accept, IdleServer, u
  <2>2. Len(server.out) = 0 BY <1>4, <2>1 DEF InHand
  <2>3. p = 0 /\ o = uncounted BY <1>2, <2>1, <2>2, SMT DEF p, o
  <2>4. owed' = n + b + w + 0 /\ owed_client' = 0 + r + 0 + 0 BY <1>2, <1>3, <2>1, <2>3, SMT
  <2> QED BY <1>4, <2>1, <2>4 DEF Sums, ToDevice, ToTheClient, n, b, w, r
<1>8. CASE ClientEnds \/ Open \/ Connected \/ Disconnected
  <2>1. UNCHANGED <<server, rings, usb_tx, web, rx, owed, owed_client, uncounted>>
    BY <1>8 DEF ClientEnds, Open, Connected, Disconnected
  <2> QED BY <2>1 DEF Sums, ToDevice, ToTheClient
<1>9. CASE UsbPop
  <2> DEFINE buf == Popped(net_to_usb, MaxTransfer)
  <2>1. /\ usb_tx.at = "pop" /\ usb_tx'.buf = buf
        /\ net_to_usb' = ring_pop_now(net_to_usb, MaxTransfer)
        /\ UNCHANGED <<server, usb_to_net, web, rx, owed, owed_client, uncounted>>
    BY <1>9 DEF UsbPop
  <2>2. b = 0 BY <1>4, <2>1 DEF b, InHand
  <2>3. /\ n = net_to_usb'.count + Len(buf) /\ Len(buf) \in Nat /\ net_to_usb'.count \in Nat
    BY <1>1, <2>1, PopOnRing, TcpAssumption DEF RingsOK, n
  <2> HIDE DEF buf
  <2>4. PICK n1 \in Nat : n1 = net_to_usb'.count BY <2>3
  <2>5. PICK b1 \in Nat : b1 = Len(usb_tx'.buf) BY <2>1, <2>3
  <2>6. n = n1 + b1 BY <2>1, <2>3, <2>4, <2>5
  <2>7. owed' = n1 + b1 + w + p BY <1>2, <1>3, <2>1, <2>2, <2>6, SMT
  <2>8. w = Len(web'.chunk) /\ owed_client' = usb_to_net'.count + Len(rx') + o
    BY <1>3, <2>1 DEF w, u, r
  <2> QED BY <1>6, <2>1, <2>4, <2>5, <2>7, <2>8
<1>10. CASE UsbCheck \/ UsbLock \/ UsbSend
  <2>1. /\ UNCHANGED <<server, rings, web, rx, owed_client, uncounted>>
        /\ \/ owed' = owed /\ usb_tx'.buf = usb_tx.buf
           \/ owed' = owed - b /\ usb_tx'.buf = <<>>
    BY <1>1, <1>10 DEF UsbCheck, UsbLock, UsbSend, Counted, UsbOK, b
  <2>2. owed' = n + Len(usb_tx'.buf) + w + p
    <3>1. CASE owed' = owed /\ usb_tx'.buf = usb_tx.buf BY <1>3, <3>1 DEF b
    <3>2. CASE owed' = owed - b /\ usb_tx'.buf = <<>>
      <4>1. owed' = n + 0 + w + p BY <1>2, <1>3, <3>2, SMT
      <4> QED BY <1>4, <3>2, <4>1
    <3> QED BY <2>1, <3>1, <3>2
  <2>3. /\ n = net_to_usb'.count /\ w = Len(web'.chunk)
        /\ owed_client' = usb_to_net'.count + Len(rx') + o
    BY <1>3, <2>1 DEF n, w, u, r
  <2> QED BY <1>6, <2>1, <2>2, <2>3
<1>11. CASE SetUp \/ CloseDevice
  <2>1. /\ UNCHANGED <<server, usb_tx, web, rx, uncounted>>
        /\ net_to_usb'.count = 0 /\ usb_to_net'.count = 0
        /\ owed' = owed - n /\ owed_client' = owed_client - u
    BY <1>5, <1>11 DEF SetUp, CloseDevice, n, u
  <2>2. owed' = 0 + b + w + p /\ owed_client' = 0 + r + o BY <1>2, <1>3, <2>1, SMT
  <2>3. b = Len(usb_tx'.buf) /\ w = Len(web'.chunk) /\ r = Len(rx') BY <2>1 DEF b, w, r
  <2> QED BY <1>6, <2>1, <2>2, <2>3
<1>12. ASSUME NEW k \in 1..world.usb, DeviceSends(k) PROVE Sums'
  <2>1. /\ UNCHANGED <<server, rings, usb_tx, web, owed, uncounted>> /\ rx = <<>>
        /\ \/ rx' = [i \in 1..k |-> device.sent + i] /\ owed_client' = owed_client + k
           \/ rx' = rx /\ owed_client' = owed_client
    BY <1>12 DEF DeviceSends
  <2>2. k \in Nat /\ device.sent \in Nat
    <3>1. world.usb \in Nat /\ device.sent \in Nat BY DEF TypeOK, World, UsbOK
    <3> QED BY <3>1, SMT
  <2>3. r = 0 BY <1>4, <2>1 DEF r
  <2>4. owed_client' = u + Len(rx') + o
    <3>1. CASE rx' = [i \in 1..k |-> device.sent + i] /\ owed_client' = owed_client + k
      <4>1. Len(rx') = k BY <2>2, <3>1, ChunkType
      <4>2. owed_client' = u + k + o BY <1>2, <1>3, <2>2, <2>3, <3>1, SMT
      <4> QED BY <4>1, <4>2
    <3>2. CASE rx' = rx /\ owed_client' = owed_client BY <1>3, <3>2 DEF r
    <3> QED BY <2>1, <3>1, <3>2
  <2>5. /\ u = usb_to_net'.count /\ owed' = net_to_usb'.count + Len(usb_tx'.buf) + Len(web'.chunk) + p
    BY <1>3, <2>1 DEF n, w, u, b
  <2> QED BY <1>6, <2>1, <2>4, <2>5
<1>13. CASE RxPush
  <2>1. /\ UNCHANGED <<server, net_to_usb, usb_tx, web, owed, uncounted>> /\ rx' = <<>>
        /\ usb_to_net' = ring_push(usb_to_net, rx)
        /\ owed_client' = owed_client - (r - Accepted(usb_to_net, rx))
    BY <1>13 DEF RxPush, r
  <2>2. rx \in Seq(Nat) BY <1>1 DEF UsbOK
  <2>3. Accepted(usb_to_net, rx) \in Nat /\ usb_to_net'.count = u + Accepted(usb_to_net, rx)
    BY <1>1, <2>1, <2>2, PushOnRing DEF RingsOK, u
  <2>4. PICK m \in Nat : m = Accepted(usb_to_net, rx) BY <2>3
  <2>5. PICK u1 \in Nat : u1 = usb_to_net'.count /\ u1 = u + m BY <1>2, <2>3, <2>4
  <2>6. owed_client' = owed_client - (r - m) BY <2>1, <2>4
  <2>7. owed_client' = u1 + 0 + o BY <1>2, <1>3, <2>4, <2>5, <2>6, SMT
  <2>8. owed' = net_to_usb'.count + Len(usb_tx'.buf) + Len(web'.chunk) + p
    BY <1>3, <2>1 DEF n, w, b
  <2>9. Len(rx') = 0 BY <1>4, <2>1
  <2> QED BY <1>6, <2>1, <2>5, <2>7, <2>8, <2>9
<1>14. CASE WebFrame
  <2> DEFINE frame == world.frames[web.came + 1]
  <2>1. /\ UNCHANGED <<server, rings, usb_tx, rx, owed_client, uncounted>> /\ web.chunk = <<>>
        /\ \/ web' = [chunk |-> frame, came |-> web.came + 1] /\ owed' = owed + Len(frame)
           \/ web' = [web EXCEPT !.came = web.came + 1] /\ owed' = owed
    BY <1>14 DEF WebFrame
  <2> HIDE DEF frame
  <2>2. w = 0 BY <1>4, <2>1 DEF w
  <2>3. \/ web'.chunk = frame /\ owed' = owed + Len(frame)
        \/ web'.chunk = <<>> /\ owed' = owed
    BY <1>1, <2>1 DEF ClientOK
  <2>4. Len(web'.chunk) \in Nat
    <3>1. web'.chunk \in Seq(Nat) BY DEF TypeOK, ClientOK
    <3> QED BY <3>1, LenProperties
  <2>5. PICK w1 \in Nat : w1 = Len(web'.chunk) /\ owed' = owed + w1
    <3>1. owed = owed + 0 BY <1>2, SMT
    <3> QED BY <1>4, <2>3, <2>4, <3>1
  <2>6. owed' = n + b + w1 + p
    <3>1. owed' = owed + w1 /\ owed = n + b + w + p BY <1>3, <2>5
    <3> QED BY <1>2, <2>2, <3>1, SMT
  <2>7. /\ n = net_to_usb'.count /\ b = Len(usb_tx'.buf)
        /\ owed_client' = usb_to_net'.count + Len(rx') + o
    BY <1>3, <2>1 DEF n, u, b, r
  <2> QED BY <1>6, <2>1, <2>5, <2>6, <2>7
<1>15. CASE WebPush
  <2>1. /\ UNCHANGED <<server, usb_to_net, usb_tx, rx, owed_client, uncounted>>
        /\ web' = [web EXCEPT !.chunk = <<>>]
        /\ net_to_usb' = ring_push(net_to_usb, web.chunk)
        /\ owed' = owed - (w - Accepted(net_to_usb, web.chunk))
    BY <1>15 DEF WebPush, w
  <2>2. web.chunk \in Seq(Nat) /\ web'.chunk = <<>> BY <1>1, <2>1 DEF ClientOK
  <2>3. Accepted(net_to_usb, web.chunk) \in Nat /\ net_to_usb'.count = n + Accepted(net_to_usb, web.chunk)
    BY <1>1, <2>1, <2>2, PushOnRing DEF RingsOK, n
  <2>4. PICK m \in Nat : m = Accepted(net_to_usb, web.chunk) BY <2>3
  <2>5. PICK n1 \in Nat : n1 = net_to_usb'.count /\ n1 = n + m BY <1>2, <2>3, <2>4
  <2>6. owed' = owed - (w - m) BY <2>1, <2>4
  <2>7. owed' = n1 + b + 0 + p BY <1>2, <1>3, <2>4, <2>5, <2>6, SMT
  <2>8. b = Len(usb_tx'.buf) /\ owed_client' = usb_to_net'.count + Len(rx') + o
    BY <1>3, <2>1 DEF u, r, b
  <2>9. Len(web'.chunk) = 0 BY <1>4, <2>2
  <2> QED BY <1>6, <2>1, <2>5, <2>7, <2>8, <2>9
<1> QED BY <1>7, <1>8, <1>9, <1>10, <1>11, <1>12, <1>13, <1>14, <1>15 DEF UsbTx, Device

LEMMA AccountsStep == TypeOK /\ InHand /\ Sums /\ [Next]_vars => Sums'
<1> SUFFICES ASSUME TypeOK, InHand, Sums, [Next]_vars PROVE Sums' OBVIOUS
<1>1. TypeOK' BY TypeStep
<1>2. CASE Next
  BY <1>1, <1>2, ServerAccounts, OtherAccounts DEF Next
<1>3. CASE UNCHANGED vars
  BY <1>3 DEF vars, rings, tcp, Sums, ToDevice, ToTheClient
<1> QED BY <1>2, <1>3

\* What is in no counter: nothing before the connection of the client ended, and then the
\* server goes to its close without another pop.
Uncounted ==
    /\ uncounted \in 0..MaxPop
    /\ server.at = "send" => server.connected
    /\ uncounted # 0 =>
         /\ ~server.connected
         /\ \/ server.at \in {"leave", "close", "accept", "listen"}
            \/ server.at \in {"offer", "push"} /\ server.next = "close" /\ server.parts = <<>>

LEMMA ServerUncounted ==
    ASSUME TypeOK, Uncounted, Server
    PROVE  Uncounted'
<1>1. server \in Servers /\ RingsOK BY DEF TypeOK
<1> USE DEF rings, usb, tcp, history
<1>2. CASE uncounted # 0
  <2>1. /\ ~server.connected /\ server.at # "send" /\ server.at # "pop" /\ server.at # "select"
        /\ \/ server.at \in {"leave", "close", "accept", "listen"}
           \/ server.at \in {"offer", "push"} /\ server.next = "close" /\ server.parts = <<>>
    BY <1>2 DEF Uncounted
  <2>2. CASE Listen \/ AcceptFails
    <3>1. /\ UNCHANGED uncounted
          /\ server'.connected = server.connected /\ server'.at \in {"accept", "listen"}
      BY <1>1, <2>2 DEF Listen, AcceptFails, Servers
    <3> QED BY <2>1, <3>1 DEF Uncounted
  <2>3. CASE Leave
    <3> DEFINE closing == [server EXCEPT !.next = "close"]
               kept == IF client_mode = "auto" /\ server.probe # <<>> THEN <<server.probe>> ELSE <<>>
    <3>1. server' = Proceed(closing, kept, client_mode) /\ UNCHANGED uncounted
      BY <2>3 DEF Leave
    <3>2. /\ closing \in Servers /\ closing.next = "close"
          /\ closing.connected = server.connected
      BY <1>1 DEF Servers
    <3>3. server.probe \in Seq(Nat) BY <1>1 DEF Servers, SeqUpTo
    <3>4. /\ kept \in Seq(Seq(Nat))
          /\ kept # <<>> => client_mode # "rfc2217" /\ Tail(kept) = <<>>
      <4>1. CASE client_mode = "auto" /\ server.probe # <<>>
        <5>1. kept = <<server.probe>> BY <4>1
        <5> QED BY <3>3, <4>1, <5>1
      <4>2. CASE ~(client_mode = "auto" /\ server.probe # <<>>)
        BY <1>1, <4>2
      <4> QED BY <4>1, <4>2
    <3> HIDE DEF closing, kept
    <3>5. CASE kept = <<>>
      <4>1. server'.at = "close" /\ server'.connected = server.connected
        BY <3>1, <3>2, <3>4, <3>5, ProceedType
      <4> QED BY <2>1, <3>1, <4>1 DEF Uncounted
    <3>6. CASE kept # <<>>
      <4>1. /\ Proceed(closing, kept, client_mode).at = "offer"
            /\ Proceed(closing, kept, client_mode).parts = Tail(kept)
        BY <3>2, <3>4, <3>6, ProceedType
      <4>2. /\ Proceed(closing, kept, client_mode).connected = closing.connected
            /\ Proceed(closing, kept, client_mode).next = closing.next
        BY <3>2, <3>4, ProceedType
      <4>3. /\ server'.at = "offer" /\ server'.connected = server.connected
            /\ server'.next = "close" /\ server'.parts = <<>>
        BY <3>1, <3>2, <3>4, <3>6, <4>1, <4>2
      <4> QED BY <2>1, <3>1, <4>3 DEF Uncounted
    <3> QED BY <3>5, <3>6
  <2>4. CASE Offer \/ Push
    <3>1. /\ server.parts = <<>> /\ server.parts \in Seq(Seq(Nat)) /\ server.next = "close"
          /\ UNCHANGED uncounted
          /\ \/ server' = [server EXCEPT !.at = "push"]
             \/ server' = Proceed(server, server.parts, client_mode)
      BY <1>1, <2>1, <2>4 DEF Offer, Push, Servers
    <3>2. CASE server' = [server EXCEPT !.at = "push"]
      <4>1. /\ server'.at = "push" /\ server'.connected = server.connected
            /\ server'.next = "close" /\ server'.parts = <<>>
        BY <1>1, <3>1, <3>2 DEF Servers
      <4> QED BY <2>1, <3>1, <4>1 DEF Uncounted
    <3>3. CASE server' = Proceed(server, server.parts, client_mode)
      <4>1. server' = [server EXCEPT !.at = server.next, !.parts = <<>>, !.serial_rx = <<>>]
        BY <3>1, <3>3 DEF Proceed
      <4>2. server'.at = "close" /\ server'.connected = server.connected
        BY <1>1, <3>1, <4>1 DEF Servers
      <4> QED BY <2>1, <3>1, <4>2 DEF Uncounted
    <3> QED BY <3>1, <3>2, <3>3
  <2>5. CASE CloseClient
    <3>1. server'.at = "accept" /\ ~server'.connected /\ UNCHANGED uncounted
      BY <2>5 DEF CloseClient, IdleServer
    <3> QED BY <2>1, <3>1 DEF Uncounted
  <2> QED
    BY <2>1, <2>2, <2>3, <2>4, <2>5
       DEF Server, Announce, Receive, ReceiveEnd, SelectTimeout, SelectFails, ParseByte,
           ParseEnd, Negotiate, Handle, Apply, Applied, Answer, PopForClient, Send
<1>3. CASE uncounted = 0
  <2>1. 0 \in 0..MaxPop BY TcpAssumption
  <2>2. ASSUME uncounted' = 0, server'.at # "send" PROVE Uncounted'
    BY <2>1, <2>2 DEF Uncounted
  <2>3. CASE \/ Listen \/ AcceptFails \/ ReceiveEnd \/ SelectTimeout \/ SelectFails
             \/ ParseByte \/ ParseEnd \/ Negotiate \/ Handle \/ Leave
    BY <1>3, <2>2, <2>3, ServerOnlySteps DEF ServerOnly
  <2>4. ASSUME NEW n \in 1..Len(client.unsent), Receive(n) PROVE Uncounted'
    BY <1>3, <2>2, <2>4, ReceiveLeads
  <2>5. CASE Announce \/ Apply \/ Applied \/ Answer
    <3>1. UNCHANGED uncounted /\ server'.at # "send"
      BY <1>1, <2>5 DEF Announce, Apply, Applied, Answer, Served, Failed, Servers
    <3> QED BY <1>3, <2>2, <3>1
  <2>6. CASE Offer \/ Push
    <3>1. server.parts \in Seq(Seq(Nat)) BY <1>1 DEF Servers
    <3>2. Proceed(server, server.parts, client_mode).at # "send" BY <1>1, <3>1, ProceedType
    <3>3. [server EXCEPT !.at = "push"].at = "push" BY <1>1 DEF Servers
    <3>4. UNCHANGED uncounted /\ server'.at # "send" BY <2>6, <3>2, <3>3 DEF Offer, Push
    <3> QED BY <1>3, <2>2, <3>4
  <2>7. CASE PopForClient
    <3> DEFINE out == Popped(usb_to_net, MaxPop)
    <3>1. Len(out) \in Nat /\ Len(out) <= MaxPop BY <1>1, PopOnRing, TcpAssumption DEF RingsOK
    <3>2. \/ /\ server' = [server EXCEPT !.at = "send", !.out = out]
             /\ server.connected /\ uncounted' = uncounted
          \/ /\ server' = [server EXCEPT !.at = AfterPop] /\ uncounted' = uncounted + Len(out)
             /\ out = <<>> \/ ~server.connected
      BY <2>7 DEF PopForClient
    <3> HIDE DEF out
    <3>3. CASE /\ server' = [server EXCEPT !.at = "send", !.out = out]
               /\ server.connected /\ uncounted' = uncounted
      <4>1. server'.at = "send" /\ server'.connected BY <1>1, <3>3 DEF Servers
      <4> QED BY <1>3, <2>1, <3>3, <4>1 DEF Uncounted
    <3>4. CASE /\ server' = [server EXCEPT !.at = AfterPop] /\ uncounted' = uncounted + Len(out)
               /\ out = <<>> \/ ~server.connected
      <4>1. uncounted' \in 0..MaxPop /\ uncounted' = Len(out)
        BY <1>3, <3>1, <3>4, TcpAssumption, SMT
      <4>2. server'.at # "send" /\ server'.connected = server.connected
        BY <1>1, <3>4 DEF Servers, AfterPop
      <4>3. ~server.connected => server'.at = "leave" BY <1>1, <3>4 DEF Servers, AfterPop
      <4>4. out = <<>> => uncounted' = 0 BY <4>1, EmptySeq
      <4> QED BY <3>4, <4>1, <4>2, <4>3, <4>4 DEF Uncounted
    <3> QED BY <3>2, <3>3, <3>4
  <2>8. CASE Send
    <3>1. Len(server.out) \in Nat /\ Len(server.out) <= MaxPop
      <4>1. server.out \in SeqUpTo(MaxPop) BY <1>1 DEF Servers
      <4> QED BY <4>1, LenProperties DEF SeqUpTo
    <3>2. \/ server'.at = "select" /\ uncounted' = uncounted
          \/ /\ server'.at = "leave" /\ ~server'.connected
             /\ uncounted' = uncounted + Len(server.out)
      BY <1>1, <2>8 DEF Send, Servers
    <3>3. uncounted' \in 0..MaxPop BY <1>3, <3>1, <3>2, TcpAssumption, SMT
    <3> QED BY <1>3, <3>2, <3>3 DEF Uncounted
  <2>9. CASE CloseClient
    <3>1. server'.at = "accept" /\ UNCHANGED uncounted BY <2>9 DEF CloseClient, IdleServer
    <3> QED BY <1>3, <2>2, <3>1
  <2> QED BY <2>3, <2>4, <2>5, <2>6, <2>7, <2>8, <2>9 DEF Server
<1> QED BY <1>2, <1>3

LEMMA UncountedStep == TypeOK /\ Uncounted /\ [Next]_vars => Uncounted'
<1> SUFFICES ASSUME TypeOK, Uncounted, [Next]_vars PROVE Uncounted' OBVIOUS
<1> USE DEF rings, usb, tcp, history
<1>1. CASE Server BY <1>1, ServerUncounted
<1>2. CASE NextClient
  <2>1. uncounted' = 0 /\ server'.at = "announce" BY <1>2 DEF NextClient, Accept, IdleServer
  <2> QED BY <2>1, TcpAssumption DEF Uncounted
<1>3. CASE ClientEnds \/ UsbTx \/ Device \/ WebFrame \/ WebPush
  <2>1. UNCHANGED <<server, uncounted>>
    BY <1>3 DEF ClientEnds, UsbTx, UsbPop, UsbCheck, UsbLock, UsbSend, Device, Open, SetUp,
                Connected, Disconnected, CloseDevice, DeviceSends, RxPush, WebFrame, WebPush
  <2> QED BY <2>1 DEF Uncounted
<1>4. CASE UNCHANGED vars
  BY <1>4 DEF vars, Uncounted
<1> QED BY <1>1, <1>2, <1>3, <1>4 DEF Next

LEMMA InitAccounts == Init => InHand /\ Sums /\ Uncounted
<1> SUFFICES ASSUME Init PROVE InHand /\ Sums /\ Uncounted OBVIOUS
<1>1. Len(<<>>) = 0 OBVIOUS
<1>2. InHand BY DEF Init, InHand, IdleServer
<1>3. Sums BY <1>1 DEF Init, Sums, ToDevice, ToTheClient, EmptyRing, IdleServer
<1>4. Uncounted BY TcpAssumption DEF Init, Uncounted, IdleServer
<1> QED BY <1>2, <1>3, <1>4

LEMMA AllAccounted == Sums /\ Uncounted => BytesAccounted
BY DEF Sums, ToDevice, ToTheClient, Uncounted, BytesAccounted

\* For every size of the rings and of the transfers, and however the tasks, the device, the
\* clients and the browsers interleave: a byte that was offered to the device or to the client
\* waits, is held by one of the tasks, was counted or was taken by a reset, and none is counted
\* twice.  Only what the server had popped when the client's connection ended is counted
\* nowhere: one buffer of MaxPop bytes at most in a session, and none while it serves.
THEOREM NoByteUnaccounted == Spec => []BytesAccounted
BY InitType, TypeStep, InitAccounts, InHandStep, AccountsStep, UncountedStep, AllAccounted, PTL DEF Spec

-----------------------------------------------------------------------------
(* Whose bytes wait.                                                        *)

\* Steps that leave what waits and what is in hand alone.
LEMMA RangeOfEmpty == Range(<<>>) = {}
BY DEF Range

LEMMA ServerFresh ==
    ASSUME TypeOK, NewDeviceNewBytes, Server
    PROVE  NewDeviceNewBytes'
<1>1. server \in Servers /\ RingsOK BY DEF TypeOK
<1>2. server.serial_rx \in Seq(Nat) /\ server.parts \in Seq(Seq(Nat)) BY PartTypes
<1>3. /\ Range(Contents(net_to_usb)) \subseteq fresh /\ Range(usb_tx.buf) \subseteq fresh
      /\ Range(web.chunk) \subseteq fresh
      /\ server.at = "push" => Range(server.serial_rx) \subseteq fresh
  BY DEF NewDeviceNewBytes, UnderWay
<1> USE DEF rings, usb, tcp, history
<1>4. /\ UNCHANGED <<usb_tx, web>>
      /\ fresh \subseteq fresh'
      /\ net_to_usb' # net_to_usb =>
            \/ net_to_usb' = ring_reset(net_to_usb)
            \/ server.at = "push" /\ net_to_usb' = ring_push(net_to_usb, server.serial_rx)
  BY DEF Server, Listen, AcceptFails, Announce, Receive, ReceiveEnd, SelectTimeout,
         SelectFails, ParseByte, ParseEnd, Negotiate, Handle, Apply, Applied, Answer,
         Offer, Push, PopForClient, Send, Leave, CloseClient
<1>5. server'.at = "push" => Range(server'.serial_rx) \subseteq fresh'
  <2>1. CASE \/ Listen \/ AcceptFails \/ ReceiveEnd \/ SelectTimeout \/ SelectFails
             \/ ParseByte \/ ParseEnd \/ Negotiate \/ Handle \/ Leave
    BY <2>1, ServerOnlySteps
  <2>2. ASSUME NEW n \in 1..Len(client.unsent), Receive(n) PROVE server'.at # "push"
    BY <2>2, ReceiveLeads
  <2>3. CASE Announce \/ Apply \/ Applied \/ Answer \/ PopForClient \/ Send \/ CloseClient
    <3>1. CASE Announce \/ Apply \/ Applied \/ Send
      BY <1>1, <3>1 DEF Announce, Apply, Applied, Send, Servers
    <3>2. CASE Answer BY <1>1, <3>2 DEF Answer, Served, Failed, Servers
    <3>3. CASE PopForClient BY <1>1, <3>3 DEF PopForClient, AfterPop, Servers
    <3>4. CASE CloseClient BY <3>4 DEF CloseClient, IdleServer
    <3> QED BY <2>3, <3>1, <3>2, <3>3, <3>4
  <2>4. CASE Push
    <3>1. server'.at # "push" BY <1>1, <1>2, <2>4, ProceedType DEF Push
    <3> QED BY <3>1
  <2>5. CASE Offer
    <3>1. CASE server.serial_rx # <<>> /\ s_connected
      <4>1. server'.serial_rx = server.serial_rx /\ fresh' = fresh \cup Range(server.serial_rx)
        BY <1>1, <2>5, <3>1 DEF Offer, Servers
      <4> QED BY <4>1
    <3>2. CASE ~(server.serial_rx # <<>> /\ s_connected)
      <4>1. server' = Proceed(server, server.parts, client_mode) BY <2>5, <3>2 DEF Offer
      <4>2. server'.at # "push" BY <1>1, <1>2, <4>1, ProceedType
      <4> QED BY <4>2
    <3> QED BY <3>1, <3>2
  <2> QED BY <2>1, <2>2, <2>3, <2>4, <2>5 DEF Server
<1>6. Range(Contents(net_to_usb')) \subseteq fresh'
  <2>1. CASE net_to_usb' = net_to_usb BY <1>3, <1>4, <2>1
  <2>2. CASE net_to_usb' = ring_reset(net_to_usb)
    <3>1. Range(Contents(net_to_usb')) = {} BY <1>1, <2>2, ResetOnRing DEF RingsOK
    <3> QED BY <3>1
  <2>3. CASE server.at = "push" /\ net_to_usb' = ring_push(net_to_usb, server.serial_rx)
    <3>1. Range(Contents(net_to_usb')) \subseteq Range(Contents(net_to_usb)) \cup Range(server.serial_rx)
      BY <1>1, <1>2, <2>3, PushOnRing DEF RingsOK
    <3> QED BY <1>3, <1>4, <2>3, <3>1
  <2> QED BY <1>4, <2>1, <2>2, <2>3
<1>7. Range(usb_tx'.buf) \subseteq fresh' /\ Range(web'.chunk) \subseteq fresh'
  BY <1>3, <1>4
<1> QED BY <1>5, <1>6, <1>7 DEF NewDeviceNewBytes, UnderWay

LEMMA OtherFresh ==
    ASSUME TypeOK, NewDeviceNewBytes,
           NextClient \/ ClientEnds \/ UsbTx \/ Device \/ WebFrame \/ WebPush
    PROVE  NewDeviceNewBytes'
<1>1. server \in Servers /\ RingsOK /\ UsbOK /\ ClientOK BY DEF TypeOK
<1>2. web.chunk \in Seq(Nat) BY PartTypes
<1>3. /\ Range(Contents(net_to_usb)) \subseteq fresh /\ Range(usb_tx.buf) \subseteq fresh
      /\ Range(web.chunk) \subseteq fresh
      /\ server.at = "push" => Range(server.serial_rx) \subseteq fresh
  BY DEF NewDeviceNewBytes, UnderWay
<1> USE DEF rings, usb, tcp, history
<1>4. CASE NextClient
  <2>1. server'.at # "push" /\ UNCHANGED <<net_to_usb, usb_tx, web, fresh>>
    BY <1>4 DEF NextClient, Accept, IdleServer
  <2> QED BY <1>3, <2>1 DEF NewDeviceNewBytes, UnderWay
<1>5. CASE ClientEnds \/ Open \/ Connected \/ Disconnected \/ RxPush
           \/ \E n \in 1..world.usb : DeviceSends(n)
  <2>1. UNCHANGED <<server, net_to_usb, usb_tx, web, fresh>>
    BY <1>5 DEF ClientEnds, Open, Connected, Disconnected, RxPush, DeviceSends
  <2> QED BY <2>1 DEF NewDeviceNewBytes, UnderWay
<1>6. CASE UsbPop
  <2>1. /\ usb_tx'.buf = Popped(net_to_usb, MaxTransfer)
        /\ net_to_usb' = ring_pop_now(net_to_usb, MaxTransfer)
        /\ UNCHANGED <<server, web, fresh>>
    BY <1>6 DEF UsbPop
  <2>2. Range(Contents(net_to_usb)) = Range(usb_tx'.buf) \cup Range(Contents(net_to_usb'))
    BY <1>1, <2>1, PopOnRing, TcpAssumption DEF RingsOK
  <2> QED BY <1>3, <2>1, <2>2 DEF NewDeviceNewBytes, UnderWay
<1>7. CASE UsbCheck \/ UsbLock \/ UsbSend
  <2>1. UNCHANGED <<server, rings, web, fresh>> /\ usb_tx'.buf \in {usb_tx.buf, <<>>}
    BY <1>1, <1>7 DEF UsbCheck, UsbLock, UsbSend, Counted, UsbOK
  <2>2. Range(usb_tx'.buf) \subseteq fresh BY <1>3, <2>1, RangeOfEmpty
  <2> QED BY <1>3, <2>1, <2>2 DEF NewDeviceNewBytes, UnderWay
<1>8. CASE SetUp
  <2>1. /\ net_to_usb' = ring_reset(net_to_usb) /\ fresh' = Range(usb_tx.buf) \cup UnderWay
        /\ UNCHANGED <<server, usb_tx, web>>
    BY <1>8 DEF SetUp
  <2>2. Range(Contents(net_to_usb')) = {} BY <1>1, <2>1, ResetOnRing DEF RingsOK
  <2>3. UnderWay' = UnderWay BY <2>1 DEF UnderWay
  <2> QED BY <2>1, <2>2, <2>3 DEF NewDeviceNewBytes
<1>9. CASE CloseDevice
  <2>1. /\ net_to_usb' = ring_reset(net_to_usb) /\ UNCHANGED <<server, usb_tx, web, fresh>>
    BY <1>9 DEF CloseDevice
  <2>2. Range(Contents(net_to_usb')) = {} BY <1>1, <2>1, ResetOnRing DEF RingsOK
  <2> QED BY <1>3, <2>1, <2>2 DEF NewDeviceNewBytes, UnderWay
<1>10. CASE WebFrame
  <2>1. /\ UNCHANGED <<server, rings, usb_tx>>
        /\ \/ web' = web /\ fresh' = fresh
           \/ web'.chunk = web.chunk /\ fresh' = fresh
           \/ fresh' = fresh \cup Range(web'.chunk)
    BY <1>1, <1>10 DEF WebFrame, ClientOK
  <2>2. fresh \subseteq fresh' /\ Range(web'.chunk) \subseteq fresh' BY <1>3, <2>1
  <2> QED BY <1>3, <2>1, <2>2 DEF NewDeviceNewBytes, UnderWay
<1>11. CASE WebPush
  <2>1. /\ UNCHANGED <<server, usb_tx, fresh>> /\ web'.chunk = <<>>
        /\ net_to_usb' = ring_push(net_to_usb, web.chunk)
    BY <1>1, <1>11 DEF WebPush, ClientOK
  <2>2. Range(Contents(net_to_usb')) \subseteq Range(Contents(net_to_usb)) \cup Range(web.chunk)
    BY <1>1, <1>2, <2>1, PushOnRing DEF RingsOK
  <2> QED BY <1>3, <2>1, <2>2, RangeOfEmpty DEF NewDeviceNewBytes, UnderWay
<1> QED BY <1>4, <1>5, <1>6, <1>7, <1>8, <1>9, <1>10, <1>11 DEF UsbTx, Device

LEMMA FreshStep == TypeOK /\ NewDeviceNewBytes /\ [Next]_vars => NewDeviceNewBytes'
<1>1. TypeOK /\ NewDeviceNewBytes /\ UNCHANGED vars => NewDeviceNewBytes'
  BY DEF vars, rings, tcp, NewDeviceNewBytes, UnderWay
<1> QED BY <1>1, ServerFresh, OtherFresh DEF Next

LEMMA InitOwners == Init => NewDeviceNewBytes /\ OwnSession
<1> SUFFICES ASSUME Init PROVE NewDeviceNewBytes /\ OwnSession OBVIOUS
<1>1. 0 \in Nat OBVIOUS
<1>2. Contents(EmptyRing) = <<>> BY <1>1, EmptyRingIsOne
<1> QED BY <1>2, RangeOfEmpty DEF Init, IdleServer, NewDeviceNewBytes, OwnSession, UnderWay

\* A device is never sent what was meant for the one before it, except for the transfer and
\* the chunks that were already under way when it was set up.
THEOREM NothingForOldDevice == Spec => []NewDeviceNewBytes
BY InitType, TypeStep, InitOwners, FreshStep, PTL DEF Spec

LEMMA ServerOwn ==
    ASSUME TypeOK, OwnSession, Server
    PROVE  OwnSession'
<1>1. server \in Servers /\ RingsOK BY DEF TypeOK
<1>2. server.parts \in Seq(Seq(Nat)) BY PartTypes
<1>3. /\ Range(Contents(usb_to_net)) \subseteq ours /\ Range(server.out) \subseteq ours
      /\ Range(rx) \subseteq ours
  BY DEF OwnSession
<1> USE DEF rings, usb, tcp, history
<1>4. UNCHANGED <<rx, ours>>
  BY DEF Server, Listen, AcceptFails, Announce, Receive, ReceiveEnd, SelectTimeout,
         SelectFails, ParseByte, ParseEnd, Negotiate, Handle, Apply, Applied, Answer,
         Offer, Push, PopForClient, Send, Leave, CloseClient
\* It is enough to see what is in the ring and in hand afterwards.
<1>5. ASSUME usb_to_net' \in {usb_to_net, ring_reset(usb_to_net)},
             server'.out \in {server.out, <<>>}
      PROVE  OwnSession'
  <2>1. Range(Contents(ring_reset(usb_to_net))) = {} BY <1>1, ResetOnRing DEF RingsOK
  <2>2. Range(Contents(usb_to_net')) \subseteq ours BY <1>3, <1>5, <2>1
  <2>3. Range(server'.out) \subseteq ours BY <1>3, <1>5, RangeOfEmpty
  <2> QED BY <1>3, <1>4, <2>2, <2>3 DEF OwnSession
<1>6. CASE \/ Listen \/ AcceptFails \/ ReceiveEnd \/ SelectTimeout \/ SelectFails
           \/ ParseByte \/ ParseEnd \/ Negotiate \/ Handle \/ Leave
  BY <1>5, <1>6, ServerOnlySteps DEF ServerOnly
<1>7. ASSUME NEW n \in 1..Len(client.unsent), Receive(n) PROVE OwnSession'
  BY <1>5, <1>7, ReceiveLeads
<1>8. CASE Announce \/ Apply \/ Applied \/ Send
  <2>1. usb_to_net' = usb_to_net /\ server'.out \in {server.out, <<>>}
    BY <1>1, <1>8 DEF Announce, Apply, Applied, Send, Servers
  <2> QED BY <1>5, <2>1
<1>9. CASE Answer
  <2>1. usb_to_net' \in {usb_to_net, ring_reset(usb_to_net)} /\ server'.out = server.out
    BY <1>1, <1>9 DEF Answer, Served, Failed, Servers
  <2> QED BY <1>5, <2>1
<1>10. CASE Offer \/ Push
  <2>1. Proceed(server, server.parts, client_mode).out = server.out BY <1>1, <1>2, ProceedType
  <2>2. [server EXCEPT !.at = "push"].out = server.out BY <1>1 DEF Servers
  <2>3. usb_to_net' = usb_to_net /\ server'.out = server.out BY <1>10, <2>1, <2>2 DEF Offer, Push
  <2> QED BY <1>5, <2>3
<1>11. CASE CloseClient
  <2>1. usb_to_net' = ring_reset(usb_to_net) /\ server'.out = <<>>
    BY <1>11 DEF CloseClient, IdleServer
  <2> QED BY <1>5, <2>1
<1>12. CASE PopForClient
  <2>1. /\ usb_to_net' = ring_pop_now(usb_to_net, MaxPop)
        /\ server'.out \in {server.out, Popped(usb_to_net, MaxPop)}
    BY <1>1, <1>12 DEF PopForClient, Servers
  <2>2. Range(Contents(usb_to_net)) = Range(Popped(usb_to_net, MaxPop)) \cup Range(Contents(usb_to_net'))
    BY <1>1, <2>1, PopOnRing, TcpAssumption DEF RingsOK
  <2>3. Range(server'.out) \subseteq ours BY <1>3, <2>1, <2>2
  <2> QED BY <1>3, <1>4, <2>2, <2>3 DEF OwnSession
<1> QED BY <1>6, <1>7, <1>8, <1>9, <1>10, <1>11, <1>12 DEF Server

LEMMA OtherOwn ==
    ASSUME TypeOK, InHand, OwnSession,
           NextClient \/ ClientEnds \/ UsbTx \/ Device \/ WebFrame \/ WebPush
    PROVE  OwnSession'
<1>1. server \in Servers /\ RingsOK /\ UsbOK BY DEF TypeOK
<1>2. rx \in Seq(Nat) BY PartTypes
<1>3. /\ Range(Contents(usb_to_net)) \subseteq ours /\ Range(server.out) \subseteq ours
      /\ Range(rx) \subseteq ours
  BY DEF OwnSession
<1>4. Range(Contents(ring_reset(usb_to_net))) = {} BY <1>1, ResetOnRing DEF RingsOK
<1> USE DEF rings, usb, tcp, history
<1>5. CASE NextClient
  <2>1. server'.out = <<>> /\ usb_to_net' = ring_reset(usb_to_net) /\ ours' = Range(rx) /\ rx' = rx
    BY <1>5 DEF NextClient, Accept, IdleServer
  <2> QED BY <1>4, <2>1, RangeOfEmpty DEF OwnSession
<1>6. CASE ClientEnds \/ UsbTx \/ WebFrame \/ WebPush \/ Open \/ Connected \/ Disconnected
  <2>1. UNCHANGED <<server, usb_to_net, rx, ours>>
    BY <1>6 DEF ClientEnds, UsbTx, UsbPop, UsbCheck, UsbLock, UsbSend, WebFrame, WebPush,
                Open, Connected, Disconnected
  <2> QED BY <2>1 DEF OwnSession
<1>7. CASE SetUp \/ CloseDevice
  <2>1. UNCHANGED <<server, rx, ours>> /\ usb_to_net' = ring_reset(usb_to_net)
    BY <1>7 DEF SetUp, CloseDevice
  <2> QED BY <1>3, <1>4, <2>1 DEF OwnSession
<1>8. ASSUME NEW n \in 1..world.usb, DeviceSends(n) PROVE OwnSession'
  <2>1. /\ UNCHANGED <<server, usb_to_net>>
        /\ \/ rx' = rx /\ ours' = ours
           \/ ours' = ours \cup Range(rx')
    BY <1>8 DEF DeviceSends
  <2>2. ours \subseteq ours' /\ Range(rx') \subseteq ours' BY <1>3, <2>1
  <2> QED BY <1>3, <2>1, <2>2 DEF OwnSession
<1>9. CASE RxPush
  <2>1. UNCHANGED <<server, ours>> /\ rx' = <<>> /\ usb_to_net' = ring_push(usb_to_net, rx)
    BY <1>9 DEF RxPush
  <2>2. Range(Contents(usb_to_net')) \subseteq Range(Contents(usb_to_net)) \cup Range(rx)
    BY <1>1, <1>2, <2>1, PushOnRing DEF RingsOK
  <2> QED BY <1>3, <2>1, <2>2, RangeOfEmpty DEF OwnSession
<1> QED BY <1>5, <1>6, <1>7, <1>8, <1>9 DEF Device

LEMMA OwnStep == TypeOK /\ InHand /\ OwnSession /\ [Next]_vars => OwnSession'
<1>1. OwnSession /\ UNCHANGED vars => OwnSession'
  BY DEF vars, rings, tcp, OwnSession
<1> QED BY <1>1, ServerOwn, OtherOwn DEF Next

\* Nothing a device sent in an earlier session reaches a later client, except the chunk the
\* USB callback was pushing when the client was accepted.
THEOREM NothingOfOldSession == Spec => []OwnSession
BY InitType, TypeStep, InitAccounts, InHandStep, InitOwners, OwnStep, PTL DEF Spec

-----------------------------------------------------------------------------
(* Both rings implement the bounded queue.                                  *)

LEMMA PrefixOfConcat ==
    ASSUME NEW s \in Seq(Nat), NEW t \in Seq(Nat)
    PROVE  ToUsb!IsPrefix(s, s \o t) /\ ToClient!IsPrefix(s, s \o t)
<1>1. /\ s \o t \in Seq(Nat) /\ Len(s \o t) = Len(s) + Len(t)
      /\ Len(s) \in Nat /\ Len(t) \in Nat
      /\ \A i \in 1 .. Len(s) + Len(t) : (s \o t)[i] = IF i <= Len(s) THEN s[i] ELSE t[i - Len(s)]
  BY ConcatProperties, LenProperties
<1>2. Len(s) <= Len(s) + Len(t) /\ 1 \in Int /\ Len(s) \in Int BY <1>1, SMT
<1>3. SubSeq(s, 1, Len(s)) = s BY SubSeqFull
<1>4. SubSeq(s \o t, 1, Len(s)) = s
  <2>1. /\ SubSeq(s \o t, 1, Len(s)) \in Seq(Nat)
        /\ Len(SubSeq(s \o t, 1, Len(s))) = IF 1 <= Len(s) THEN Len(s) - 1 + 1 ELSE 0
    BY <1>1, <1>2, SubSeqType
  <2>2. Len(SubSeq(s \o t, 1, Len(s))) = Len(s) BY <1>1, <2>1, SMT
  <2>3. \A i \in 1..Len(s) : SubSeq(s \o t, 1, Len(s))[i] = s[i]
    <3> TAKE i \in 1..Len(s)
    <3>1. i \in 1..(Len(s) - 1 + 1) /\ 1 + i - 1 = i /\ i \in 1..(Len(s) + Len(t)) /\ i <= Len(s)
      BY <1>1, SMT
    <3>2. (s \o t)[i] = s[i] BY <1>1, <3>1
    <3> QED BY <1>1, <3>1, <3>2
  <2> QED BY <2>1, <2>2, <2>3, SeqEqual
<1> QED BY <1>1, <1>2, <1>3, <1>4 DEF ToUsb!IsPrefix, ToClient!IsPrefix

Backwards(s) == [i \in 1..Len(s) |-> s[(Len(s) - i) + 1]]

LEMMA BackwardsType ==
    ASSUME NEW s \in Seq(Nat)
    PROVE  /\ Backwards(s) \in Seq(Nat) /\ Len(Backwards(s)) = Len(s)
           /\ \A i \in 1..Len(s) : Backwards(s)[i] = s[(Len(s) - i) + 1]
<1>1. Len(s) \in Nat BY LenProperties
<1>2. \A i \in 1..Len(s) : (Len(s) - i) + 1 \in 1..Len(s) BY <1>1, SMT
<1>3. \A i \in 1..Len(s) : s[(Len(s) - i) + 1] \in Nat BY <1>2, ElementOfSeq
<1>4. Backwards(s) \in [1..Len(s) -> Nat] BY <1>3 DEF Backwards
<1> QED BY <1>1, <1>4 DEF Backwards

LEMMA SuffixOfConcat ==
    ASSUME NEW s \in Seq(Nat), NEW t \in Seq(Nat)
    PROVE  ToUsb!IsSuffix(t, s \o t) /\ ToClient!IsSuffix(t, s \o t)
<1> DEFINE a == Backwards(t)
           b == Backwards(s \o t)
           m == Len(t)
           n == Len(s) + Len(t)
<1>1. /\ s \o t \in Seq(Nat) /\ Len(s \o t) = n /\ Len(s) \in Nat /\ m \in Nat
      /\ \A i \in 1..n : (s \o t)[i] = IF i <= Len(s) THEN s[i] ELSE t[i - Len(s)]
  BY ConcatProperties, LenProperties
<1>2. n \in Nat /\ m <= n /\ n - m = Len(s) BY <1>1, SMT
<1>3. /\ a \in Seq(Nat) /\ Len(a) = m /\ \A i \in 1..m : a[i] = t[(m - i) + 1]
      /\ b \in Seq(Nat) /\ Len(b) = n /\ \A i \in 1..n : b[i] = (s \o t)[(n - i) + 1]
  <2>1. a \in Seq(Nat) /\ Len(a) = m /\ \A i \in 1..m : a[i] = t[(m - i) + 1]
    BY BackwardsType
  <2>2. PICK c \in Seq(Nat) : c = s \o t BY <1>1
  <2>3. /\ Backwards(c) \in Seq(Nat) /\ Len(Backwards(c)) = Len(c)
        /\ \A i \in 1..Len(c) : Backwards(c)[i] = c[(Len(c) - i) + 1]
    BY BackwardsType
  <2>4. Len(c) = n /\ b = Backwards(c) BY <1>1, <2>2
  <2> HIDE DEF a, b, m, n
  <2> QED BY <2>1, <2>2, <2>3, <2>4
<1>4. ASSUME NEW i \in 1..m PROVE b[i] = a[i]
  <2>1. /\ i \in 1..n /\ (n - i) + 1 \in 1..n /\ ~((n - i) + 1 <= Len(s))
        /\ ((n - i) + 1) - Len(s) = (m - i) + 1
    BY <1>1, SMT
  <2>2. b[i] = t[((n - i) + 1) - Len(s)] BY <1>1, <1>3, <2>1
  <2> QED BY <1>3, <2>1, <2>2
<1> HIDE DEF a, b, m, n
<1>5. SubSeq(b, 1, m) \in Seq(Nat) /\ Len(SubSeq(b, 1, m)) = m
  <2>1. /\ SubSeq(b, 1, m) \in Seq(Nat)
        /\ Len(SubSeq(b, 1, m)) = IF 1 <= m THEN m - 1 + 1 ELSE 0
    <3>1. m \in Int /\ 1 \in Int /\ 1 >= 1 /\ m <= Len(b) /\ b \in Seq(Nat) BY <1>1, <1>2, <1>3
    <3> QED BY <3>1, SubSeqType
  <2> QED BY <1>1, <2>1, SMT
<1>6. \A i \in 1..m : SubSeq(b, 1, m)[i] = a[i]
  <2> TAKE i \in 1..m
  <2>1. i \in 1..(m - 1 + 1) /\ 1 + i - 1 = i /\ i \in 1..n BY <1>1, <1>2, SMT
  <2> QED BY <1>1, <1>3, <1>4, <2>1
<1>7. SubSeq(b, 1, m) = a BY <1>3, <1>5, <1>6, SeqEqual
<1>8. SubSeq(a, 1, m) = a BY <1>3, SubSeqFull
<1>9. Len(a) <= Len(b) /\ SubSeq(a, 1, Len(a)) = SubSeq(b, 1, Len(a))
  BY <1>2, <1>3, <1>7, <1>8
<1> QED BY <1>9 DEF ToUsb!IsSuffix, ToUsb!IsPrefix, ToUsb!Reverse, ToClient!IsSuffix,
                    ToClient!IsPrefix, ToClient!Reverse, Backwards, a, b

\* What an operation of a ring is to the queue.
QueueStep(old, new) ==
    \/ \E t \in Seq(Nat) : new = old \o t /\ Len(new) <= Capacity
    \/ \E s \in Seq(Nat) : old = s \o new

LEMMA RingQueues ==
    ASSUME NEW ring \in RingOf(Nat), Aligned(ring), NEW chunk \in Seq(Nat), NEW max_len \in Nat,
           NEW new \in {ring, ring_push(ring, chunk), ring_pop_now(ring, max_len), ring_reset(ring)}
    PROVE  Contents(new) \in Seq(Nat) /\ QueueStep(Contents(ring), Contents(new))
<1>0. Contents(ring) \in Seq(Nat) /\ <<>> \in Seq(Nat) BY ContentsType
<1>1. CASE new = ring
  <2>1. Contents(ring) = <<>> \o Contents(ring) BY <1>0, ConcatEmptySeq
  <2> QED BY <1>0, <1>1, <2>1 DEF QueueStep
<1>2. CASE new = ring_push(ring, chunk)
  <2> DEFINE n == Accepted(ring, chunk)
  <2>1. /\ n \in 0..Len(chunk) /\ new \in RingOf(Nat)
        /\ Contents(new) = Contents(ring) \o SubSeq(chunk, 1, n)
    BY <1>2, PushAppends
  <2>2. n \in Int /\ n <= Len(chunk)
    <3>1. Len(chunk) \in Nat BY LenProperties
    <3> HIDE DEF n
    <3> QED BY <2>1, <3>1, SMT
  <2> HIDE DEF n
  <2>3. SubSeq(chunk, 1, n) \in Seq(Nat) BY <2>2, SubSeqType
  <2>4. Contents(new) \in Seq(Nat) /\ Len(Contents(new)) <= Capacity
    BY <2>1, ContentsType, CountType
  <2> QED BY <2>1, <2>3, <2>4 DEF QueueStep
<1>3. CASE new = ring_pop_now(ring, max_len)
  <2>1. /\ new \in RingOf(Nat) /\ Popped(ring, max_len) \in Seq(Nat)
        /\ Contents(ring) = Popped(ring, max_len) \o Contents(new)
    BY <1>3, PopTakesFront
  <2>2. Contents(new) \in Seq(Nat) BY <2>1, ContentsType
  <2> QED BY <2>1, <2>2 DEF QueueStep
<1>4. CASE new = ring_reset(ring)
  <2>1. Contents(new) = <<>> BY <1>4, ResetOnRing
  <2>2. Contents(ring) = Contents(ring) \o <<>> BY <1>0, ConcatEmptySeq
  <2> QED BY <1>0, <2>1, <2>2 DEF QueueStep
<1> QED BY <1>1, <1>2, <1>3, <1>4

\* Every step does one operation at most to each ring.
LEMMA RingSteps ==
    ASSUME TypeOK, [Next]_vars
    PROVE  /\ \E chunk \in Seq(Nat), max_len \in Nat :
                 net_to_usb' \in {net_to_usb, ring_push(net_to_usb, chunk),
                                  ring_pop_now(net_to_usb, max_len), ring_reset(net_to_usb)}
           /\ \E chunk \in Seq(Nat), max_len \in Nat :
                 usb_to_net' \in {usb_to_net, ring_push(usb_to_net, chunk),
                                  ring_pop_now(usb_to_net, max_len), ring_reset(usb_to_net)}
<1>1. /\ server.serial_rx \in Seq(Nat) /\ web.chunk \in Seq(Nat) /\ rx \in Seq(Nat)
      /\ MaxTransfer \in Nat /\ MaxPop \in Nat
  BY PartTypes, TcpAssumption
<1>2. /\ net_to_usb' \in {net_to_usb, ring_reset(net_to_usb), ring_pop_now(net_to_usb, MaxTransfer),
                          ring_push(net_to_usb, server.serial_rx), ring_push(net_to_usb, web.chunk)}
      /\ usb_to_net' \in {usb_to_net, ring_reset(usb_to_net), ring_pop_now(usb_to_net, MaxPop),
                          ring_push(usb_to_net, rx)}
  <2> USE DEF rings, usb, tcp, history
  <2>1. CASE Server
    BY <2>1 DEF Server, Listen, AcceptFails, Announce, Receive, ReceiveEnd, SelectTimeout,
                SelectFails, ParseByte, ParseEnd, Negotiate, Handle, Apply, Applied, Answer,
                Offer, Push, PopForClient, Send, Leave, CloseClient
  <2>2. CASE NextClient \/ ClientEnds \/ UsbTx \/ WebFrame \/ WebPush
    BY <2>2 DEF NextClient, Accept, ClientEnds, UsbTx, UsbPop, UsbCheck, UsbLock, UsbSend,
                WebFrame, WebPush
  <2>3. CASE Device
    BY <2>3 DEF Device, Open, SetUp, Connected, Disconnected, CloseDevice, DeviceSends, RxPush
  <2>4. CASE UNCHANGED vars BY <2>4 DEF vars
  <2> QED BY <2>1, <2>2, <2>3, <2>4 DEF Next
<1> QED BY <1>1, <1>2

LEMMA FifoStep ==
    ASSUME TypeOK, [Next]_vars
    PROVE  [ToUsb!Next]_(Contents(net_to_usb)) /\ [ToClient!Next]_(Contents(usb_to_net))
<1>1. RingsOK BY DEF TypeOK
<1>2. /\ Contents(net_to_usb) \in Seq(Nat) /\ Contents(net_to_usb') \in Seq(Nat)
      /\ QueueStep(Contents(net_to_usb), Contents(net_to_usb'))
  <2>1. PICK chunk \in Seq(Nat), max_len \in Nat :
              net_to_usb' \in {net_to_usb, ring_push(net_to_usb, chunk),
                               ring_pop_now(net_to_usb, max_len), ring_reset(net_to_usb)}
    BY RingSteps
  <2> QED BY <1>1, <2>1, RingQueues, ContentsType DEF RingsOK
<1>3. /\ Contents(usb_to_net) \in Seq(Nat) /\ Contents(usb_to_net') \in Seq(Nat)
      /\ QueueStep(Contents(usb_to_net), Contents(usb_to_net'))
  <2>1. PICK chunk \in Seq(Nat), max_len \in Nat :
              usb_to_net' \in {usb_to_net, ring_push(usb_to_net, chunk),
                               ring_pop_now(usb_to_net, max_len), ring_reset(usb_to_net)}
    BY RingSteps
  <2> QED BY <1>1, <2>1, RingQueues, ContentsType DEF RingsOK
<1>4. ToUsb!Next
  <2>1. CASE \E t \in Seq(Nat) : /\ Contents(net_to_usb') = Contents(net_to_usb) \o t
                                 /\ Len(Contents(net_to_usb')) <= Capacity
    BY <1>2, <2>1, PrefixOfConcat DEF ToUsb!Next, ToUsb!Push
  <2>2. CASE \E s \in Seq(Nat) : Contents(net_to_usb) = s \o Contents(net_to_usb')
    BY <1>2, <2>2, SuffixOfConcat DEF ToUsb!Next, ToUsb!Pop
  <2> QED BY <1>2, <2>1, <2>2 DEF QueueStep
<1>5. ToClient!Next
  <2>1. CASE \E t \in Seq(Nat) : /\ Contents(usb_to_net') = Contents(usb_to_net) \o t
                                 /\ Len(Contents(usb_to_net')) <= Capacity
    BY <1>3, <2>1, PrefixOfConcat DEF ToClient!Next, ToClient!Push
  <2>2. CASE \E s \in Seq(Nat) : Contents(usb_to_net) = s \o Contents(usb_to_net')
    BY <1>3, <2>2, SuffixOfConcat DEF ToClient!Next, ToClient!Pop
  <2> QED BY <1>3, <2>1, <2>2 DEF QueueStep
<1> QED BY <1>4, <1>5

LEMMA FifoInit == Init => ToUsb!Init /\ ToClient!Init
<1> SUFFICES ASSUME Init PROVE ToUsb!Init /\ ToClient!Init OBVIOUS
<1>1. Contents(EmptyRing) = <<>>
  <2>1. 0 \in Nat OBVIOUS
  <2> QED BY <2>1, EmptyRingIsOne
<1> QED BY <1>1 DEF Init, ToUsb!Init, ToClient!Init

\* Each ring implements the bounded queue of bridge_buffers.h, whoever pushes, pops and resets
\* it: bytes are never reordered, doubled or lost from its middle, and it never holds more than
\* its capacity.
THEOREM RingsImplementFifos == Spec => RingsAreFifos
<1>1. TypeOK /\ [Next]_vars =>
          [ToUsb!Next]_(Contents(net_to_usb)) /\ [ToClient!Next]_(Contents(usb_to_net))
  BY FifoStep
<1> QED BY FifoInit, TypeCorrect, <1>1, PTL DEF Spec, RingsAreFifos, ToUsb!Spec, ToClient!Spec

-----------------------------------------------------------------------------
(* What is sent comes back, and answers are requests.                       *)

\* Data and answers, sent as the bridge escapes them, come out of a parser like its own as
\* they went in, however long they are (send_rfc2217_data, send_rfc2217_subneg and
\* rfc2217_process_input).
THEOREM SentComesBack == Spec => []RoundTrip
<1>1. RoundTrip
  BY TrialAssumption, DataComeBack, ValueComesBack DEF RoundTrip
<1> QED BY <1>1, PTL

LEMMA AnswerFits ==
    ASSUME NEW frame \in Requests, NEW remembered \in Lines,
           NEW state, state = current_serial_state(remembered),
           NEW after, after = (IF AsksLine(frame) \/ AsksControl(frame)
                               THEN Requested(frame, state) ELSE state),
           NEW value \in AnswerValues(frame, after),
           NEW again, again = Again(frame[2], value)
    PROVE  /\ AsksLine(frame) \/ AsksControl(frame) => value = Value(frame)
           /\ frame[2] # SET_CONTROL => AsksLine(again) /\ Requested(again, after) = after
<1>1. IsRequest(frame) /\ state \in LineStates
  <2>1. IsRequest(frame) /\ remembered \in LineStates BY TrialAssumption
  <2> QED BY <2>1, StateIs
<1>2. after \in LineStates /\ (AsksLine(frame) \/ AsksControl(frame) => value = Value(frame))
  <2>1. CASE AsksLine(frame) \/ AsksControl(frame)
    <3>1. /\ Requested(frame, state) \in LineStates
          /\ AnswerValues(frame, Requested(frame, state)) = {Value(frame)}
      BY <1>1, <2>1, GrantedIs
    <3>2. after = Requested(frame, state) BY <2>1
    <3> QED BY <3>1, <3>2
  <2>2. CASE ~(AsksLine(frame) \/ AsksControl(frame)) BY <1>1, <2>2
  <2> QED BY <2>1, <2>2
<1>3. ASSUME frame[2] # SET_CONTROL
      PROVE  AsksLine(again) /\ Requested(again, after) = after
  <2>1. PICK line \in LineStates : line = after BY <1>2
  <2>2. value \in AnswerValues(frame, line) BY <2>1
  <2>3. AsksLine(again) /\ Requested(again, line) = line BY <1>1, <1>3, <2>2, AnswerAsks
  <2> QED BY <2>1, <2>3
<1> QED BY <1>2, <1>3

\* A request that sets something and succeeds is answered with the value it asked for, and a
\* refused one with the value in force, which asks for what is in force: for every frame and
\* every state of the line, rates of 32 bits among them (handle_rfc2217_subneg).
THEOREM AnswersFit == Spec => []AnswersAreRequests
<1>1. ASSUME NEW frame \in Requests, NEW remembered \in Lines
      PROVE  LET state == current_serial_state(remembered)
                 sets == AsksLine(frame) \/ AsksControl(frame)
                 after == IF sets THEN Requested(frame, state) ELSE state
             IN  \A value \in AnswerValues(frame, after) :
                    /\ sets => value = Value(frame)
                    /\ frame[2] # SET_CONTROL =>
                           LET again == <<COM_PORT_OPTION, frame[2]>> \o value
                           IN  AsksLine(again) /\ Requested(again, after) = after
  <2> DEFINE state == current_serial_state(remembered)
             sets == AsksLine(frame) \/ AsksControl(frame)
             after == IF sets THEN Requested(frame, state) ELSE state
  <2>1. ASSUME NEW value \in AnswerValues(frame, after)
        PROVE  /\ sets => value = Value(frame)
               /\ frame[2] # SET_CONTROL =>
                      LET again == <<COM_PORT_OPTION, frame[2]>> \o value
                      IN  AsksLine(again) /\ Requested(again, after) = after
    <3>1. PICK again : again = Again(frame[2], value) OBVIOUS
    <3>2. PICK before : before = state OBVIOUS
    <3>3. PICK line : line = after OBVIOUS
    <3>4. /\ value \in AnswerValues(frame, line) /\ before = current_serial_state(remembered)
          /\ line = (IF AsksLine(frame) \/ AsksControl(frame)
                     THEN Requested(frame, before) ELSE before)
      BY <3>2, <3>3
    <3> HIDE DEF state, sets, after
    <3>5. /\ AsksLine(frame) \/ AsksControl(frame) => value = Value(frame)
          /\ frame[2] # SET_CONTROL => AsksLine(again) /\ Requested(again, line) = line
      BY <3>1, <3>4, AnswerFits
    <3> QED BY <3>1, <3>3, <3>5 DEF sets, Again
  <2> QED BY <2>1
<1>2. AnswersAreRequests BY <1>1 DEF AnswersAreRequests
<1> QED BY <1>2, PTL

-----------------------------------------------------------------------------
(* However a stream is cut into pieces, it is understood the same.          *)

\* What the first bytes tell is what the whole stream says, and stays so as it grows.
LEMMA DetectIs ==
    ASSUME NEW s \in Seq(Nat)
    PROVE  LET found == detect_client_mode(s)
           IN  /\ found \in {"auto", "raw", "rfc2217"}
               /\ found = "auto" <=> Undecided(s)
               /\ found = "rfc2217" <=> SpeaksRfc2217(s)
<1>1. Len(s) \in Nat /\ (s = <<>> <=> Len(s) = 0) BY LenProperties, EmptySeq
<1>2. CASE Len(s) = 0
  <2>1. detect_client_mode(s) = "auto" BY <1>2 DEF detect_client_mode
  <2>2. Undecided(s) /\ ~SpeaksRfc2217(s) BY <1>1, <1>2 DEF Undecided, SpeaksRfc2217
  <2> QED BY <2>1, <2>2
<1>3. CASE Len(s) > 0 /\ s[1] # IAC
  <2>1. detect_client_mode(s) = "raw" BY <1>1, <1>3 DEF detect_client_mode
  <2>2. ~Opens(s) /\ s # <<>> BY <1>1, <1>3 DEF Opens
  <2> QED BY <2>1, <2>2 DEF Undecided, SpeaksRfc2217
<1>4. CASE Len(s) = 1 /\ s[1] = IAC
  <2>1. detect_client_mode(s) = "auto" BY <1>1, <1>4 DEF detect_client_mode
  <2>2. Undecided(s) /\ ~SpeaksRfc2217(s) BY <1>4 DEF Undecided, SpeaksRfc2217, Opens
  <2> QED BY <2>1, <2>2
<1>5. CASE Len(s) > 1 /\ s[1] = IAC /\ s[2] \notin Negotiations \cup {SB}
  <2>1. detect_client_mode(s) = "raw" BY <1>1, <1>5 DEF detect_client_mode
  <2>2. ~Opens(s) /\ s # <<>> BY <1>1, <1>5 DEF Opens
  <2> QED BY <2>1, <2>2 DEF Undecided, SpeaksRfc2217
<1>6. CASE Len(s) > 1 /\ s[1] = IAC /\ s[2] \in Negotiations \cup {SB}
  <2>1. detect_client_mode(s) = IF Len(s) >= 3 THEN "rfc2217" ELSE "auto"
    BY <1>1, <1>6 DEF detect_client_mode
  <2>2. Opens(s) /\ s # <<>> BY <1>1, <1>6 DEF Opens
  <2> QED BY <1>1, <2>1, <2>2 DEF Undecided, SpeaksRfc2217
<1>7. Len(s) = 0 \/ (Len(s) = 1 /\ Len(s) > 0) \/ (Len(s) > 1 /\ Len(s) > 0)
  <2>1. \A n \in Nat : n = 0 \/ (n = 1 /\ n > 0) \/ (n > 1 /\ n > 0) BY SMT
  <2> QED BY <1>1, <2>1
<1> QED BY <1>2, <1>3, <1>4, <1>5, <1>6, <1>7

LEMMA TellsForGood ==
    ASSUME NEW s \in Seq(Nat), NEW more \in Seq(Nat)
    PROVE  /\ SpeaksRfc2217(s) => SpeaksRfc2217(s \o more)
           /\ ~SpeaksRfc2217(s) /\ ~Undecided(s) =>
                 ~SpeaksRfc2217(s \o more) /\ ~Undecided(s \o more)
<1> DEFINE t == s \o more
<1>1. /\ Len(s) \in Nat /\ Len(more) \in Nat /\ t \in Seq(Nat) /\ Len(t) = Len(s) + Len(more)
      /\ \A i \in 1 .. Len(s) : t[i] = s[i]
  BY LenProperties, ConcatProperties
<1>2. (s = <<>> <=> Len(s) = 0) /\ (t = <<>> <=> Len(t) = 0) BY <1>1, EmptySeq
<1> HIDE DEF t
<1>3. /\ Len(s) >= 1 => 1 \in 1 .. Len(s)
      /\ Len(s) >= 2 => 2 \in 1 .. Len(s)
  BY <1>1, SMT
<1>4. Len(s) >= 1 => t[1] = s[1] BY <1>1, <1>3
<1>5. Len(s) >= 2 => t[2] = s[2] BY <1>1, <1>3
<1>6. SpeaksRfc2217(s) => SpeaksRfc2217(t)
  BY <1>1, <1>4, <1>5, SMT DEF SpeaksRfc2217, Opens
<1>7. ASSUME ~SpeaksRfc2217(s), ~Undecided(s) PROVE ~SpeaksRfc2217(t) /\ ~Undecided(t)
  <2>1. Len(s) >= 1 /\ ~Opens(s) BY <1>1, <1>2, <1>7, SMT DEF SpeaksRfc2217, Undecided
  <2>2. ~Opens(t) BY <1>1, <1>4, <1>5, <2>1, SMT DEF Opens
  <2>3. t # <<>> BY <1>1, <1>2, <2>1, SMT
  <2> QED BY <2>2, <2>3 DEF SpeaksRfc2217, Undecided
<1> QED BY <1>6, <1>7 DEF t

\* Where the server has no bytes in hand, and where it reads a piece byte by byte.
Waiting == {"select", "pop", "send", "leave"}
Reading == {"parse", "command", "apply", "applying", "answer"}

\* The piece of what arrived that has its turn after the one in hand.
First(parts) == IF parts = <<>> THEN <<>> ELSE Head(parts)

\* In these got is what was received of the client, given what was handed on, and done the
\* commands that were dealt with.  A client that was only just accepted ...
Announced(s, got, given, done) ==
    /\ s.next = "pop" /\ s.connected /\ s.probe = <<>> /\ s.parser = NewParser
    /\ got = <<>> /\ given = <<>> /\ done = <<>>

\* ... one that is not told yet, and whose bytes are kept back until its end ...
Held(s, got, given, done) ==
    /\ s.parser = NewParser /\ done = <<>>
    /\ s.at \in Waiting \cup {"offer", "push", "close"}
    /\ s.at \in Waiting => s.next = "pop" /\ given = <<>> /\ got = s.probe /\ Undecided(got)
    /\ s.at = "offer" => s.next = "close" /\ s.parts = <<>> /\ given = <<>> /\ s.serial_rx = got
    /\ s.at = "push" => s.next = "close" /\ s.parts = <<>> /\ given = got
    /\ s.at = "close" => given = got

\* ... a raw one, whose bytes are passed on ...
Passed(s, got, given, done) ==
    /\ ~SpeaksRfc2217(got) /\ ~Undecided(got) /\ done = <<>>
    /\ s.at \in Waiting \cup {"offer", "push", "close"}
    /\ s.at = "offer" => got = given \o (s.serial_rx \o First(s.parts))
    /\ s.at = "push" => got = given \o First(s.parts)
    /\ s.at \notin {"offer", "push"} => given = got

\* ... and one that speaks RFC 2217, of whose bytes the parser is through with c.
UpToHere(s, got, given, done, c) ==
    /\ s.parser = Parsed(c).parser /\ done = Parsed(c).commands
    /\ s.at \in {"select", "pop", "send"} => got = c /\ given = Parsed(c).serial
    /\ s.at \in Reading => /\ got = c \o (s.input \o First(s.parts))
                           /\ given \o s.serial_rx = Parsed(c).serial
    /\ s.at = "offer" => got = c \o First(s.parts) /\ given \o s.serial_rx = Parsed(c).serial
    /\ s.at = "push" => got = c \o First(s.parts) /\ given = Parsed(c).serial

Understood(s, got, given, done) ==
    /\ SpeaksRfc2217(got)
    /\ \/ \E c \in Seq(Nat) : UpToHere(s, got, given, done, c)
       \/ s.at = "pop" /\ ~s.connected
       \/ s.at \in {"leave", "close"}

Ordered(s, mode, got, given, done) ==
    /\ Len(s.parts) <= 1
    /\ s.at \in {"select", "send"} => s.connected
    /\ mode = "none" <=> s.at \in {"listen", "accept", "announce"}
    /\ s.at = "announce" => Announced(s, got, given, done)
    /\ mode = "auto" => Held(s, got, given, done)
    /\ mode = "raw" => Passed(s, got, given, done)
    /\ mode = "rfc2217" => Understood(s, got, given, done)

\* Every byte of the present client is dealt with once, in its order.
InOrder == Ordered(server, client_mode, received, handed, handled)

\* A piece has been given away, the pieces in parts are left.
Gone(s, parts, mode, got, given, done) ==
    /\ mode \in {"auto", "raw", "rfc2217"}
    /\ mode = "auto" => /\ s.parser = NewParser /\ done = <<>> /\ s.next = "close"
                        /\ parts = <<>> /\ given = got
    /\ mode = "raw" => /\ ~SpeaksRfc2217(got) /\ ~Undecided(got) /\ done = <<>>
                       /\ got = given \o First(parts)
    /\ mode = "rfc2217" =>
          /\ SpeaksRfc2217(got)
          /\ \E c \in Seq(Nat) : /\ s.parser = Parsed(c).parser /\ done = Parsed(c).commands
                                 /\ got = c \o First(parts) /\ given = Parsed(c).serial

LEMMA ProceedParser ==
    ASSUME NEW s \in Servers, NEW parts, NEW mode
    PROVE  Proceed(s, parts, mode).parser = s.parser
<1>1. CASE parts = <<>>
  <2>1. PICK p : p = [s EXCEPT !.at = s.next, !.parts = <<>>, !.serial_rx = <<>>] OBVIOUS
  <2>2. p = Proceed(s, parts, mode) BY <2>1, <1>1 DEF Proceed
  <2>3. p.parser = s.parser BY <2>1 DEF Servers
  <2> QED BY <2>2, <2>3
<1>2. CASE parts # <<>> /\ mode = "rfc2217"
  <2>1. PICK p : p = [s EXCEPT !.at = "parse", !.parts = Tail(parts), !.input = Head(parts),
                               !.serial_rx = <<>>]
    OBVIOUS
  <2>2. p = Proceed(s, parts, mode) BY <2>1, <1>2 DEF Proceed
  <2>3. p.parser = s.parser BY <2>1 DEF Servers
  <2> QED BY <2>2, <2>3
<1>3. CASE parts # <<>> /\ mode # "rfc2217"
  <2>1. PICK p : p = [s EXCEPT !.at = "offer", !.parts = Tail(parts), !.serial_rx = Head(parts)]
    OBVIOUS
  <2>2. p = Proceed(s, parts, mode) BY <2>1, <1>3 DEF Proceed
  <2>3. p.parser = s.parser BY <2>1 DEF Servers
  <2> QED BY <2>2, <2>3
<1> QED BY <1>1, <1>2, <1>3

LEMMA ProceedPiece ==
    ASSUME NEW s \in Servers, NEW parts \in Seq(Seq(Nat)), NEW mode, parts # <<>>
    PROVE  IF mode = "rfc2217"
           THEN /\ Proceed(s, parts, mode).at = "parse" /\ Proceed(s, parts, mode).parts = Tail(parts)
                /\ Proceed(s, parts, mode).input = Head(parts) /\ Proceed(s, parts, mode).serial_rx = <<>>
           ELSE /\ Proceed(s, parts, mode).at = "offer" /\ Proceed(s, parts, mode).parts = Tail(parts)
                /\ Proceed(s, parts, mode).serial_rx = Head(parts)
<1> DEFINE p == Proceed(s, parts, mode)
<1>1. /\ parts # <<>> /\ mode = "rfc2217" =>
            p.at = "parse" /\ p.parts = Tail(parts) /\ p.input = Head(parts) /\ p.serial_rx = <<>>
      /\ parts # <<>> /\ mode # "rfc2217" =>
            p.at = "offer" /\ p.parts = Tail(parts) /\ p.serial_rx = Head(parts)
  BY ProceedType, SMTT(60)
<1> HIDE DEF p
<1>2. CASE mode = "rfc2217" BY <1>1, <1>2 DEF p
<1>3. CASE mode # "rfc2217" BY <1>1, <1>3 DEF p
<1> QED BY <1>2, <1>3

LEMMA FirstType ==
    ASSUME NEW parts \in Seq(Seq(Nat)), Len(parts) <= 1
    PROVE  /\ First(parts) \in Seq(Nat)
           /\ parts # <<>> => First(parts) = Head(parts) /\ Tail(parts) = <<>>
           /\ Len(Tail(parts)) <= 1 \/ parts = <<>>
<1>1. CASE parts = <<>>
  BY <1>1, EmptySeq DEF First
<1>2. CASE parts # <<>>
  <2>1. /\ Head(parts) \in Seq(Nat) /\ Tail(parts) \in Seq(Seq(Nat)) /\ Len(Tail(parts)) = Len(parts) - 1
        /\ Len(parts) \in Nat /\ Len(parts) # 0
    BY <1>2, HeadTailProperties, EmptySeq, LenProperties
  <2>2. Len(Tail(parts)) = 0 BY <2>1, SMT
  <2>3. Tail(parts) = <<>> BY <2>1, <2>2, EmptySeq
  <2> QED BY <1>2, <2>1, <2>2, <2>3 DEF First
<1> QED BY <1>1, <1>2

LEMMA GoneProceeds ==
    ASSUME NEW s \in Servers, NEW parts \in Seq(Seq(Nat)), Len(parts) <= 1, NEW mode,
           NEW got \in Seq(Nat), NEW given \in Seq(Nat), NEW done,
           Gone(s, parts, mode, got, given, done)
    PROVE  Ordered(Proceed(s, parts, mode), mode, got, given, done)
<1> DEFINE q == Proceed(s, parts, mode)
<1>1. /\ q.next = s.next /\ s.next \in {"pop", "close"} /\ q.parser = s.parser
      /\ parts = <<>> => q.at = s.next /\ q.parts = <<>> /\ q.serial_rx = <<>>
      /\ parts # <<>> /\ mode = "rfc2217" =>
            q.at = "parse" /\ q.parts = Tail(parts) /\ q.input = Head(parts) /\ q.serial_rx = <<>>
      /\ parts # <<>> /\ mode # "rfc2217" =>
            q.at = "offer" /\ q.parts = Tail(parts) /\ q.serial_rx = Head(parts)
  BY ProceedType, ProceedParser DEF Servers
<1> SUFFICES Ordered(q, mode, got, given, done) BY DEF q
<1> HIDE DEF q
<1>2. q.parts = <<>> /\ Len(q.parts) <= 1 /\ First(q.parts) = <<>>
  <2>1. q.parts = <<>> BY <1>1, FirstType
  <2>2. Len(<<>>) <= 1 BY EmptySeq
  <2> QED BY <2>1, <2>2 DEF First
<1>3. First(parts) \in Seq(Nat) /\ First(parts) \o <<>> = First(parts) /\ given \o <<>> = given
      /\ got \o <<>> = got
  BY FirstType, ConcatEmptySeq
<1>4. CASE mode = "auto"
  <2>1. q.at = "close" /\ q.parser = NewParser /\ done = <<>> /\ given = got BY <1>1, <1>4 DEF Gone
  <2>2. Held(q, got, given, done) BY <2>1 DEF Held, Waiting
  <2> QED BY <1>2, <1>4, <2>1, <2>2 DEF Ordered
<1>5. CASE mode = "raw"
  <2>1. ~SpeaksRfc2217(got) /\ ~Undecided(got) /\ done = <<>> /\ got = given \o First(parts)
    BY <1>5 DEF Gone
  <2>2. CASE parts = <<>>
    <3>1. q.at \in {"pop", "close"} /\ given = got BY <1>1, <1>3, <2>1, <2>2 DEF First
    <3>2. Passed(q, got, given, done) BY <2>1, <3>1 DEF Passed, Waiting
    <3> QED BY <1>2, <1>5, <3>1, <3>2 DEF Ordered
  <2>3. CASE parts # <<>>
    <3>1. q.at = "offer" /\ q.serial_rx = First(parts) BY <1>1, <1>5, <2>3, FirstType
    <3>2. Passed(q, got, given, done) BY <1>2, <1>3, <2>1, <3>1 DEF Passed, Waiting
    <3> QED BY <1>2, <1>5, <3>1, <3>2 DEF Ordered
  <2> QED BY <2>2, <2>3
<1>6. CASE mode = "rfc2217"
  <2>1. PICK c \in Seq(Nat) :
            /\ s.parser = Parsed(c).parser /\ done = Parsed(c).commands
            /\ got = c \o First(parts) /\ given = Parsed(c).serial
    BY <1>6 DEF Gone
  <2>2. SpeaksRfc2217(got) BY <1>6 DEF Gone
  <2>3. CASE parts = <<>>
    <3>1. q.at \in {"pop", "close"} /\ got = c
      BY <1>1, <2>1, <2>3, ConcatEmptySeq DEF First
    <3>2. UpToHere(q, got, given, done, c) BY <1>1, <2>1, <3>1 DEF UpToHere, Reading
    <3>3. Understood(q, got, given, done) BY <2>2, <3>2 DEF Understood
    <3> QED BY <1>2, <1>6, <3>1, <3>3 DEF Ordered
  <2>4. CASE parts # <<>>
    <3>1. q.at = "parse" /\ q.input = First(parts) /\ q.serial_rx = <<>>
      BY <1>1, <1>6, <2>4, FirstType
    <3>2. got = c \o (q.input \o First(q.parts)) /\ given \o q.serial_rx = Parsed(c).serial
      BY <1>2, <1>3, <2>1, <3>1
    <3>3. UpToHere(q, got, given, done, c) BY <1>1, <2>1, <3>1, <3>2 DEF UpToHere, Reading
    <3>4. Understood(q, got, given, done) BY <2>2, <3>3 DEF Understood
    <3> QED BY <1>2, <1>6, <3>1, <3>4 DEF Ordered
  <2> QED BY <2>3, <2>4
<1> QED BY <1>4, <1>5, <1>6 DEF Gone

\* What arrives comes after all that is still to be dealt with.
LEMMA ReceiveInOrder ==
    ASSUME TypeOK, InOrder, NEW n \in 1..Len(client.unsent), Receive(n)
    PROVE  InOrder'
<1>1. /\ server \in Servers /\ received \in Seq(Nat) /\ handed \in Seq(Nat)
      /\ UNCHANGED <<handed, handled>>
  BY DEF TypeOK, HistoryOK, Receive
<1>2. PICK data \in Seq(Nat) :
         /\ server.at = "select"
         /\ received' = received \o data
         /\ \/ /\ client_mode # "auto"
               /\ server' = Proceed(server, <<data>>, client_mode)
               /\ UNCHANGED client_mode
            \/ \E copied \in Seq(Nat) :
                  LET probe == server.probe \o copied
                  IN  /\ client_mode = "auto" /\ copied = data /\ UNCHANGED client_mode
                      /\ detect_client_mode(probe) = "auto"
                      /\ probe \in SeqUpTo(ProbeSize - 1)
                      /\ server' = [server EXCEPT !.at = "pop", !.probe = probe]
            \/ \E copied \in Seq(Nat), rest \in Seq(Seq(Nat)) :
                  LET probe == server.probe \o copied
                      empty == [server EXCEPT !.probe = <<>>]
                  IN  /\ client_mode = "auto"
                      /\ \/ rest = <<>> /\ data = copied
                         \/ \E late \in Seq(Nat) : rest = <<late>> /\ data = copied \o late
                      /\ probe \in Seq(Nat) /\ Len(probe) <= ProbeSize
                      /\ client_mode' = (IF detect_client_mode(probe) = "auto"
                                         THEN "raw" ELSE detect_client_mode(probe))
                      /\ detect_client_mode(probe) = "auto" => Len(probe) = ProbeSize
                      /\ empty \in Servers
                      /\ server' = Proceed(empty, <<probe>> \o rest, client_mode')
  BY ReceiveCases
<1>3. Ordered(server, client_mode, received, handed, handled) BY DEF InOrder
<1>4. PICK got \in Seq(Nat) : got = received \o data BY <1>1, ConcatProperties
<1>5. SUFFICES Ordered(server', client_mode', got, handed, handled)
  BY <1>1, <1>2, <1>4 DEF InOrder
<1>6. First(<<data>>) = data /\ <<data>> \in Seq(Seq(Nat)) /\ Len(<<data>>) <= 1
  BY DEF First
<1>7. CASE /\ client_mode # "auto"
           /\ server' = Proceed(server, <<data>>, client_mode)
           /\ UNCHANGED client_mode
  <2>1. client_mode \in {"raw", "rfc2217"}
    <3>1. client_mode \in {"none", "auto", "raw", "rfc2217"} BY DEF TypeOK, ClientOK
    <3>2. client_mode # "none" BY <1>2, <1>3 DEF Ordered
    <3> QED BY <1>7, <3>1, <3>2
  <2>2. PICK parts \in Seq(Seq(Nat)) : parts = <<data>> BY <1>6
  <2>3. First(parts) = data /\ Len(parts) <= 1 BY <1>6, <2>2
  <2>4. Gone(server, parts, client_mode, got, handed, handled)
    <3>1. CASE client_mode = "raw"
      <4>1. ~SpeaksRfc2217(received) /\ ~Undecided(received) /\ handled = <<>> /\ handed = received
        BY <1>2, <1>3, <3>1 DEF Ordered, Passed
      <4>2. ~SpeaksRfc2217(got) /\ ~Undecided(got) BY <1>1, <1>4, <4>1, TellsForGood
      <4> QED BY <1>4, <2>3, <3>1, <4>1, <4>2 DEF Gone
    <3>2. CASE client_mode = "rfc2217"
      <4>1. Understood(server, received, handed, handled) BY <1>3, <3>2 DEF Ordered
      <4>2. PICK c \in Seq(Nat) : UpToHere(server, received, handed, handled, c)
        BY <1>2, <4>1 DEF Understood
      <4>3. /\ server.parser = Parsed(c).parser /\ handled = Parsed(c).commands
            /\ received = c /\ handed = Parsed(c).serial
        BY <1>2, <4>2 DEF UpToHere
      <4>4. SpeaksRfc2217(got) BY <1>1, <1>4, <4>1, TellsForGood DEF Understood
      <4>5. got = c \o First(parts) BY <1>4, <2>3, <4>3
      <4> QED BY <3>2, <4>3, <4>4, <4>5 DEF Gone
    <3> QED BY <2>1, <3>1, <3>2
  <2>5. Ordered(Proceed(server, parts, client_mode), client_mode, got, handed, handled)
    <3>1. PICK given \in Seq(Nat) : given = handed BY <1>1
    <3>2. PICK s \in Servers : s = server BY <1>1
    <3>3. PICK mode : mode = client_mode OBVIOUS
    <3>4. PICK done : done = handled OBVIOUS
    <3>5. Ordered(Proceed(s, parts, mode), mode, got, given, done)
      BY <2>3, <2>4, <3>1, <3>2, <3>3, <3>4, GoneProceeds
    <3> QED BY <3>1, <3>2, <3>3, <3>4, <3>5
  <2> QED BY <1>7, <2>2, <2>5
<1>8. ASSUME client_mode = "auto"
      PROVE  /\ server.parser = NewParser /\ handled = <<>> /\ server.next = "pop" /\ handed = <<>>
             /\ received = server.probe /\ Len(server.parts) <= 1
  BY <1>2, <1>3, <1>8 DEF Ordered, Held, Waiting
<1>9. ASSUME NEW copied \in Seq(Nat), NEW probe,
             probe = server.probe \o copied, client_mode = "auto", copied = data,
             UNCHANGED client_mode, detect_client_mode(probe) = "auto",
             server' = [server EXCEPT !.at = "pop", !.probe = probe]
      PROVE  Ordered(server', client_mode', got, handed, handled)
  <2>1. probe = got BY <1>4, <1>8, <1>9
  <2>2. Undecided(got) BY <1>9, <2>1, DetectIs
  <2>3. PICK q : q = server' OBVIOUS
  <2>4. /\ q.at = "pop" /\ q.probe = got /\ q.parser = server.parser /\ q.next = server.next
        /\ q.parts = server.parts
    BY <1>1, <1>9, <2>1, <2>3 DEF Servers
  <2>5. Held(q, got, handed, handled) BY <1>8, <1>9, <2>2, <2>4 DEF Held, Waiting
  <2>6. Ordered(q, "auto", got, handed, handled) BY <1>8, <1>9, <2>4, <2>5 DEF Ordered
  <2> QED BY <1>9, <2>3, <2>6
<1>10. ASSUME NEW copied \in Seq(Nat), NEW rest \in Seq(Seq(Nat)), NEW probe \in Seq(Nat), NEW empty \in Servers,
              probe = server.probe \o copied, empty = [server EXCEPT !.probe = <<>>],
              client_mode = "auto",
              \/ rest = <<>> /\ data = copied
              \/ \E late \in Seq(Nat) : rest = <<late>> /\ data = copied \o late,
              client_mode' = (IF detect_client_mode(probe) = "auto"
                              THEN "raw" ELSE detect_client_mode(probe)),
              detect_client_mode(probe) = "auto" => Len(probe) = ProbeSize,
              server' = Proceed(empty, <<probe>> \o rest, client_mode')
       PROVE  Ordered(server', client_mode', got, handed, handled)
  <2>1. First(rest) \in Seq(Nat) /\ data = copied \o First(rest) /\ Len(rest) <= 1
    <3>1. CASE rest = <<>> /\ data = copied
      BY <3>1, ConcatEmptySeq, EmptySeq DEF First
    <3>2. ASSUME NEW late \in Seq(Nat), rest = <<late>>, data = copied \o late
          PROVE  First(rest) \in Seq(Nat) /\ data = copied \o First(rest) /\ Len(rest) <= 1
      <4>1. First(rest) = late /\ Len(rest) = 1 BY <3>2 DEF First
      <4>2. data = copied \o First(rest) BY <3>2, <4>1, Zenon
      <4>3. First(rest) \in Seq(Nat) BY <4>1, Zenon
      <4>4. Len(rest) <= 1 BY <4>1, SMT
      <4> QED BY <4>2, <4>3, <4>4, Zenon
    <3> QED BY <1>10, <3>1, <3>2
  <2>2. got = probe \o First(rest)
    <3>1. server.probe \in Seq(Nat) BY <1>1 DEF Servers, SeqUpTo
    <3>2. PICK was \in Seq(Nat) : was = server.probe BY <3>1
    <3>3. PICK late \in Seq(Nat) : late = First(rest) BY <2>1
    <3>4. got = was \o (copied \o late) /\ probe = was \o copied BY <1>4, <1>8, <1>10, <2>1, <3>2, <3>3
    <3>5. (was \o copied) \o late = was \o (copied \o late) BY Associative, SMTT(30)
    <3> QED BY <3>3, <3>4, <3>5
  <2>3. PICK mode : mode = client_mode' OBVIOUS
  <2>4. /\ mode \in {"raw", "rfc2217"}
        /\ mode = "raw" => ~SpeaksRfc2217(got) /\ ~Undecided(got)
        /\ mode = "rfc2217" => SpeaksRfc2217(got)
    <3>1. Len(probe) = ProbeSize => ~Undecided(probe) BY TcpAssumption, SMT DEF Undecided
    <3>2. /\ mode \in {"raw", "rfc2217"}
          /\ mode = "raw" => ~SpeaksRfc2217(probe) /\ ~Undecided(probe)
          /\ mode = "rfc2217" => SpeaksRfc2217(probe)
      BY <1>10, <2>3, <3>1, DetectIs
    <3>3. PICK late \in Seq(Nat) : late = First(rest) BY <2>1
    <3>4. got = probe \o late BY <2>2, <3>3
    <3> QED BY <3>2, <3>4, TellsForGood
  <2>5. PICK parts \in Seq(Seq(Nat)) : parts = <<probe>> \o rest
    <3>1. <<probe>> \in Seq(Seq(Nat)) OBVIOUS
    <3> QED BY <3>1, ConcatProperties
  <2>6. parts # <<>> /\ Head(parts) = probe /\ Tail(parts) = rest
    <3>1. Len(<<probe>>) = 1 /\ <<probe>>[1] = probe /\ <<probe>> \in Seq(Seq(Nat)) OBVIOUS
    <3> HIDE DEF First
    <3> QED BY <2>5, <3>1
  <2>7. PICK q : q = server' OBVIOUS
  <2>8. /\ q.parser = NewParser /\ q.parts = rest
        /\ mode = "rfc2217" => q.at = "parse" /\ q.input = probe /\ q.serial_rx = <<>>
        /\ mode # "rfc2217" => q.at = "offer" /\ q.serial_rx = probe
    <3>1. q = Proceed(empty, parts, mode) BY <1>10, <2>3, <2>5, <2>7
    <3>2. empty.parser = server.parser BY <1>1, <1>10 DEF Servers
    <3>3. q.parser = NewParser
      <4>1. server.parser = NewParser BY <1>8, <1>10
      <4>2. Proceed(empty, parts, mode).parser = empty.parser BY ProceedParser
      <4> QED BY <3>1, <3>2, <4>1, <4>2
    <3>4. /\ mode = "rfc2217" => q.at = "parse" /\ q.parts = Tail(parts) /\ q.input = Head(parts)
                                 /\ q.serial_rx = <<>>
          /\ mode # "rfc2217" => q.at = "offer" /\ q.parts = Tail(parts) /\ q.serial_rx = Head(parts)
      <4>1. IF mode = "rfc2217"
            THEN /\ Proceed(empty, parts, mode).at = "parse" /\ Proceed(empty, parts, mode).parts = Tail(parts)
                 /\ Proceed(empty, parts, mode).input = Head(parts) /\ Proceed(empty, parts, mode).serial_rx = <<>>
            ELSE /\ Proceed(empty, parts, mode).at = "offer" /\ Proceed(empty, parts, mode).parts = Tail(parts)
                 /\ Proceed(empty, parts, mode).serial_rx = Head(parts)
        BY <2>6, ProceedPiece
      <4> QED BY <2>6, <3>1, <4>1
    <3> QED BY <2>4, <2>6, <3>3, <3>4
  <2>9. handed = <<>> /\ handled = <<>> /\ \A s \in Seq(Nat) : <<>> \o s = s /\ s \o <<>> = s
    BY <1>8, <1>10, ConcatEmptySeq
  <2>10. CASE mode = "raw"
    <3>1. q.at = "offer" /\ q.serial_rx = probe /\ q.parts = rest BY <2>8, <2>10
    <3>2. got = handed \o (q.serial_rx \o First(q.parts)) BY <2>2, <2>9, <3>1
    <3>3. Passed(q, got, handed, handled) BY <2>4, <2>9, <2>10, <3>1, <3>2 DEF Passed, Waiting
    <3>4. Ordered(q, "raw", got, handed, handled) BY <2>1, <3>1, <3>3 DEF Ordered
    <3> QED BY <2>3, <2>7, <2>10, <3>4
  <2>11. CASE mode = "rfc2217"
    <3>1. q.at = "parse" /\ q.input = probe /\ q.serial_rx = <<>> /\ q.parts = rest BY <2>8, <2>11
    <3>2. got = <<>> \o (q.input \o First(q.parts)) BY <2>2, <2>9, <3>1
    <3>3. /\ <<>> \in Seq(Nat) /\ Parsed(<<>>).parser = NewParser /\ Parsed(<<>>).serial = <<>>
          /\ Parsed(<<>>).commands = <<>>
      BY ParsedEmpty, EmptySeq DEF NothingParsed
    <3>4. handed \o q.serial_rx = Parsed(<<>>).serial BY <2>9, <3>1, <3>3
    <3>5. UpToHere(q, got, handed, handled, <<>>)
      BY <2>8, <2>9, <3>1, <3>2, <3>3, <3>4 DEF UpToHere, Reading
    <3>6. Understood(q, got, handed, handled) BY <2>4, <2>11, <3>3, <3>5 DEF Understood
    <3>7. Ordered(q, "rfc2217", got, handed, handled) BY <2>1, <3>1, <3>6 DEF Ordered
    <3> QED BY <2>3, <2>7, <2>11, <3>7
  <2> QED BY <2>4, <2>10, <2>11
<1> QED BY <1>2, <1>7, <1>9, <1>10

\* A piece in hand is read byte by byte.
LEMMA ParseInOrder ==
    ASSUME TypeOK, InOrder, ParseByte
    PROVE  InOrder'
<1> DEFINE now == Commands(server.parser, Head(server.input))
<1>1. /\ server \in Servers /\ received \in Seq(Nat) /\ handed \in Seq(Nat)
      /\ handled \in Seq(CommandRecords)
  BY DEF TypeOK, HistoryOK
<1>2. /\ server.at = "parse" /\ server.input # <<>>
      /\ server' = [server EXCEPT
                       !.at = IF now = <<>> THEN "parse" ELSE "command",
                       !.input = Tail(@),
                       !.parser = Step(@, Head(server.input)),
                       !.serial_rx = @ \o Serial(server.parser, Head(server.input)),
                       !.request = IF now = <<>> THEN NoCommand ELSE Head(now)]
      /\ handled' = handled \o now
      /\ UNCHANGED <<client_mode, received, handed>>
  BY DEF ParseByte
<1>3. Ordered(server, client_mode, received, handed, handled) BY DEF InOrder
<1>4. client_mode = "rfc2217"
  <2>1. client_mode \in {"none", "auto", "raw", "rfc2217"} BY DEF TypeOK, ClientOK
  <2>2. client_mode # "none" BY <1>2, <1>3 DEF Ordered
  <2>3. client_mode # "auto" BY <1>2, <1>3 DEF Ordered, Held, Waiting
  <2>4. client_mode # "raw" BY <1>2, <1>3 DEF Ordered, Passed, Waiting
  <2> QED BY <2>1, <2>2, <2>3, <2>4
<1>5. /\ SpeaksRfc2217(received) /\ Len(server.parts) <= 1
      /\ \E c \in Seq(Nat) : UpToHere(server, received, handed, handled, c)
  BY <1>2, <1>3, <1>4 DEF Ordered, Understood
<1>6. PICK c \in Seq(Nat) : UpToHere(server, received, handed, handled, c) BY <1>5
<1>7. /\ server.parser = Parsed(c).parser /\ handled = Parsed(c).commands
      /\ received = c \o (server.input \o First(server.parts))
      /\ handed \o server.serial_rx = Parsed(c).serial
  BY <1>2, <1>6 DEF UpToHere, Reading
<1>8. /\ server.input \in Seq(Nat) /\ server.parser \in Parsers /\ server.serial_rx \in Seq(Nat)
      /\ server.parts \in Seq(Seq(Nat))
  BY <1>1 DEF Servers
<1>9. PICK byte \in Nat : byte = Head(server.input) BY <1>2, <1>8, HeadTailProperties
<1>10. PICK left \in Seq(Nat) : left = Tail(server.input) BY <1>2, <1>8, HeadTailProperties
<1>11. PICK rest \in Seq(Nat) : rest = First(server.parts) BY <1>5, <1>8, FirstType
<1>12. PICK d \in Seq(Nat) : d = Append(c, byte) BY AppendProperties
<1>13. received = d \o (left \o rest)
  <2>1. server.input = <<byte>> \o left BY <1>2, <1>8, <1>9, <1>10, HeadTailProperties, AppendIsConcat
  <2>2. d = c \o <<byte>> BY <1>12, AppendIsConcat
  <2>3. PICK one \in Seq(Nat) : one = <<byte>> BY OneElement
  <2>4. left \o rest \in Seq(Nat) BY ConcatProperties
  <2>5. PICK after \in Seq(Nat) : after = left \o rest BY <2>4
  <2>6. (one \o left) \o rest = one \o (left \o rest) BY Associative, SMTT(30)
  <2>7. (c \o one) \o after = c \o (one \o after) BY Associative, SMTT(30)
  <2> QED BY <1>7, <1>11, <2>1, <2>2, <2>3, <2>5, <2>6, <2>7
<1>14. /\ Parsed(d).parser = Step(server.parser, byte)
       /\ Parsed(d).serial = Parsed(c).serial \o Serial(server.parser, byte)
       /\ Parsed(d).commands = Parsed(c).commands \o Commands(server.parser, byte)
  <2>1. PICK r \in Results : r = Parsed(c) BY ParsedResult
  <2>2. Parsed(d) = WithByte(r, byte) BY <1>12, <2>1, ParsedAppend
  <2> QED BY <1>7, <2>1, <2>2, WithByteIs
<1>15. PICK q : q = server' OBVIOUS
<1>16. /\ q.at \in {"parse", "command"} /\ q.input = left /\ q.parser = Step(server.parser, byte)
       /\ q.serial_rx = server.serial_rx \o Serial(server.parser, byte) /\ q.parts = server.parts
  <2>1. PICK a \in {"parse", "command"} : a = (IF now = <<>> THEN "parse" ELSE "command") OBVIOUS
  <2>2. PICK r : r = (IF now = <<>> THEN NoCommand ELSE Head(now)) OBVIOUS
  <2>3. PICK p : p = Step(server.parser, byte) OBVIOUS
  <2>4. PICK x : x = server.serial_rx \o Serial(server.parser, byte) OBVIOUS
  <2> HIDE DEF now
  <2>5. q = [server EXCEPT !.at = a, !.input = left, !.parser = p, !.serial_rx = x, !.request = r]
    BY <1>2, <1>9, <1>10, <1>15, <2>1, <2>2, <2>3, <2>4
  <2> QED BY <1>1, <2>3, <2>4, <2>5 DEF Servers
<1>17. handed \o q.serial_rx = Parsed(d).serial
  <2>1. PICK x \in Seq(Nat) : x = Serial(server.parser, byte) BY <1>8, ParsedType
  <2>2. PICK u \in Seq(Nat) : u = handed BY <1>1
  <2>3. PICK w \in Seq(Nat) : w = server.serial_rx BY <1>8
  <2>4. (u \o w) \o x = u \o (w \o x) BY Associative, SMTT(30)
  <2> QED BY <1>7, <1>14, <1>16, <2>1, <2>2, <2>3, <2>4
<1>18. handled' = Parsed(d).commands BY <1>2, <1>7, <1>9, <1>14
<1>19. UpToHere(q, received, handed, handled', d)
  BY <1>11, <1>13, <1>14, <1>16, <1>17, <1>18 DEF UpToHere, Reading
<1>20. Ordered(q, "rfc2217", received, handed, handled')
  BY <1>5, <1>16, <1>19 DEF Ordered, Understood
<1> QED BY <1>2, <1>4, <1>15, <1>20 DEF InOrder

\* While a command is dealt with, only the place and the command in hand change, or all is
\* given up.
LEMMA ReadingInOrder ==
    ASSUME TypeOK, InOrder, server.at \in Reading, UNCHANGED <<client_mode, history>>,
           \/ server' = Failed
           \/ /\ server' \in Servers /\ server'.at \in Reading
              /\ server'.parser = server.parser /\ server'.input = server.input
              /\ server'.parts = server.parts /\ server'.serial_rx = server.serial_rx
    PROVE  InOrder'
<1>1. server \in Servers /\ <<>> \in Seq(Nat) /\ Len(<<>>) <= 1 BY DEF TypeOK
<1>2. Ordered(server, client_mode, received, handed, handled) BY DEF InOrder
<1>3. client_mode = "rfc2217"
  <2>1. client_mode \in {"none", "auto", "raw", "rfc2217"} BY DEF TypeOK, ClientOK
  <2>2. client_mode # "none" BY <1>2 DEF Ordered, Reading
  <2>3. client_mode # "auto" BY <1>2 DEF Ordered, Held, Waiting, Reading
  <2>4. client_mode # "raw" BY <1>2 DEF Ordered, Passed, Waiting, Reading
  <2> QED BY <2>1, <2>2, <2>3, <2>4
<1>4. SpeaksRfc2217(received) /\ Len(server.parts) <= 1 BY <1>2, <1>3 DEF Ordered, Understood
<1>5. PICK q : q = server' OBVIOUS
<1>6. SUFFICES Ordered(q, "rfc2217", received, handed, handled)
  BY <1>3, <1>5 DEF InOrder, history
<1>7. CASE server' = Failed
  <2>1. q.at = "pop" /\ ~q.connected /\ q.parts = <<>> BY <1>1, <1>5, <1>7 DEF Failed, Servers
  <2>2. Understood(q, received, handed, handled) BY <1>4, <2>1 DEF Understood
  <2> QED BY <1>1, <2>1, <2>2 DEF Ordered
<1>8. CASE /\ server'.at \in Reading
           /\ server'.parser = server.parser /\ server'.input = server.input
           /\ server'.parts = server.parts /\ server'.serial_rx = server.serial_rx
  <2>1. PICK c \in Seq(Nat) : UpToHere(server, received, handed, handled, c)
    BY <1>2, <1>3 DEF Ordered, Understood, Reading
  <2>2. /\ server.parser = Parsed(c).parser /\ handled = Parsed(c).commands
        /\ received = c \o (server.input \o First(server.parts))
        /\ handed \o server.serial_rx = Parsed(c).serial
    BY <2>1 DEF UpToHere
  <2>3. UpToHere(q, received, handed, handled, c) BY <1>5, <1>8, <2>2 DEF UpToHere, Reading
  <2>4. Understood(q, received, handed, handled) BY <1>4, <2>3 DEF Understood
  <2>5. q.at \in Reading /\ Len(q.parts) <= 1 BY <1>4, <1>5, <1>8
  <2> QED BY <2>4, <2>5 DEF Ordered, Reading
<1> QED BY <1>7, <1>8

LEMMA CommandInOrder ==
    ASSUME TypeOK, InOrder, Negotiate \/ Handle \/ Apply \/ Applied \/ Answer
    PROVE  InOrder'
<1>1. server \in Servers BY DEF TypeOK
<1>2. server.at \in Reading /\ UNCHANGED <<client_mode, history>>
  BY DEF Negotiate, Handle, Apply, Applied, Answer, Reading, history
<1>3. \/ server' = Failed \/ server' = Served
      \/ server' = [server EXCEPT !.at = "apply"]
      \/ server' = [server EXCEPT !.at = "applying"]
      \/ server' = [server EXCEPT !.at = "answer"]
  BY DEF Negotiate, Handle, Apply, Applied, Answer
<1>4. \/ server' = Failed
      \/ /\ server' \in Servers /\ server'.at \in Reading
         /\ server'.parser = server.parser /\ server'.input = server.input
         /\ server'.parts = server.parts /\ server'.serial_rx = server.serial_rx
  <2>1. NoCommand \in CommandRecords BY EmptySeq DEF NoCommand, CommandRecords
  <2>2. CASE server' = Served
    <3>1. server' = [server EXCEPT !.at = "parse", !.request = NoCommand] BY <2>2 DEF Served
    <3> QED BY <1>1, <2>1, <3>1 DEF Servers, Places, Reading
  <2>3. ASSUME NEW a \in {"apply", "applying", "answer"}, server' = [server EXCEPT !.at = a]
        PROVE  /\ server' \in Servers /\ server'.at \in Reading
               /\ server'.parser = server.parser /\ server'.input = server.input
               /\ server'.parts = server.parts /\ server'.serial_rx = server.serial_rx
    BY <1>1, <2>3 DEF Servers, Places, Reading
  <2> QED BY <1>3, <2>2, <2>3
<1> QED BY <1>2, <1>4, ReadingInOrder

LEMMA ParseEndInOrder ==
    ASSUME TypeOK, InOrder, ParseEnd
    PROVE  InOrder'
<1>1. /\ server \in Servers /\ server.at = "parse" /\ server.input = <<>>
      /\ server' = [server EXCEPT !.at = "offer"]
      /\ UNCHANGED <<client_mode, received, handed, handled>>
  BY DEF TypeOK, ParseEnd, history
<1>2. Ordered(server, client_mode, received, handed, handled) BY DEF InOrder
<1>3. client_mode = "rfc2217"
  <2>1. client_mode \in {"none", "auto", "raw", "rfc2217"} BY DEF TypeOK, ClientOK
  <2>2. client_mode # "none" BY <1>1, <1>2 DEF Ordered
  <2>3. client_mode # "auto" BY <1>1, <1>2 DEF Ordered, Held, Waiting
  <2>4. client_mode # "raw" BY <1>1, <1>2 DEF Ordered, Passed, Waiting
  <2> QED BY <2>1, <2>2, <2>3, <2>4
<1>4. SpeaksRfc2217(received) /\ Len(server.parts) <= 1 BY <1>2, <1>3 DEF Ordered, Understood
<1>5. PICK c \in Seq(Nat) : UpToHere(server, received, handed, handled, c)
  BY <1>1, <1>2, <1>3 DEF Ordered, Understood
<1>6. /\ server.parser = Parsed(c).parser /\ handled = Parsed(c).commands
      /\ received = c \o (server.input \o First(server.parts))
      /\ handed \o server.serial_rx = Parsed(c).serial
  BY <1>1, <1>5 DEF UpToHere, Reading
<1>7. <<>> \o First(server.parts) = First(server.parts)
  <2>1. First(server.parts) \in Seq(Nat) BY <1>1, <1>4, FirstType DEF Servers
  <2> QED BY <2>1, ConcatEmptySeq
<1>8. PICK q : q = server' OBVIOUS
<1>9. /\ q.at = "offer" /\ q.parts = server.parts /\ q.parser = server.parser
      /\ q.serial_rx = server.serial_rx
  BY <1>1, <1>8 DEF Servers
<1>10. UpToHere(q, received, handed, handled, c) BY <1>1, <1>6, <1>7, <1>9 DEF UpToHere, Reading
<1>11. Ordered(q, "rfc2217", received, handed, handled)
  BY <1>4, <1>9, <1>10 DEF Ordered, Understood
<1> QED BY <1>1, <1>3, <1>8, <1>11 DEF InOrder

\* A piece handed on as it is, to the USB device or into the ring.
LEMMA PieceInOrder ==
    ASSUME TypeOK, InOrder, Offer \/ Push
    PROVE  InOrder'
<1>1. /\ server \in Servers /\ received \in Seq(Nat) /\ handed \in Seq(Nat)
      /\ client_mode \in {"none", "auto", "raw", "rfc2217"}
      /\ server.at \in {"offer", "push"}
      /\ UNCHANGED <<client_mode, received, handled>>
  BY DEF TypeOK, HistoryOK, ClientOK, Offer, Push, history
<1>2. /\ server.serial_rx \in Seq(Nat) /\ server.parts \in Seq(Seq(Nat)) BY <1>1 DEF Servers
<1>3. Ordered(server, client_mode, received, handed, handled) BY DEF InOrder
<1>4. Len(server.parts) <= 1 /\ client_mode # "none" BY <1>1, <1>3 DEF Ordered
<1>5. PICK rest \in Seq(Nat) : rest = First(server.parts) BY <1>2, <1>4, FirstType
<1>6. PICK given \in Seq(Nat) : given = IF server.at = "offer" THEN handed \o server.serial_rx ELSE handed
  <2>1. handed \o server.serial_rx \in Seq(Nat) BY <1>1, <1>2, ConcatProperties
  <2> QED BY <1>1, <2>1
<1>7. handed' = given BY <1>1, <1>6 DEF Offer, Push, history
<1>8. Gone(server, server.parts, client_mode, received, given, handled)
  <2>1. CASE client_mode = "auto"
    <3>1. /\ server.parser = NewParser /\ handled = <<>> /\ server.next = "close"
          /\ server.parts = <<>>
          /\ server.at = "offer" => handed = <<>> /\ server.serial_rx = received
          /\ server.at = "push" => handed = received
      BY <1>1, <1>3, <2>1 DEF Ordered, Held
    <3>2. given = received BY <1>1, <1>6, <3>1, ConcatEmptySeq
    <3> QED BY <2>1, <3>1, <3>2 DEF Gone
  <2>2. CASE client_mode = "raw"
    <3>1. /\ ~SpeaksRfc2217(received) /\ ~Undecided(received) /\ handled = <<>>
          /\ server.at = "offer" => received = handed \o (server.serial_rx \o rest)
          /\ server.at = "push" => received = handed \o rest
      BY <1>1, <1>3, <1>5, <2>2 DEF Ordered, Passed
    <3>2. received = given \o rest
      <4>1. PICK u \in Seq(Nat) : u = handed BY <1>1
      <4>2. PICK w \in Seq(Nat) : w = server.serial_rx BY <1>2
      <4>3. (u \o w) \o rest = u \o (w \o rest) BY Associative, SMTT(30)
      <4> QED BY <1>1, <1>6, <3>1, <4>1, <4>2, <4>3
    <3> QED BY <1>5, <2>2, <3>1, <3>2 DEF Gone
  <2>3. CASE client_mode = "rfc2217"
    <3>1. SpeaksRfc2217(received) BY <1>3, <2>3 DEF Ordered, Understood
    <3>2. PICK c \in Seq(Nat) : UpToHere(server, received, handed, handled, c)
      BY <1>1, <1>3, <2>3 DEF Ordered, Understood
    <3>3. /\ server.parser = Parsed(c).parser /\ handled = Parsed(c).commands
          /\ received = c \o First(server.parts)
          /\ server.at = "offer" => handed \o server.serial_rx = Parsed(c).serial
          /\ server.at = "push" => handed = Parsed(c).serial
      BY <1>1, <3>2 DEF UpToHere
    <3>4. given = Parsed(c).serial BY <1>1, <1>6, <3>3
    <3> QED BY <2>3, <3>1, <3>3, <3>4 DEF Gone
  <2> QED BY <1>1, <1>4, <2>1, <2>2, <2>3
<1>9. CASE server' = Proceed(server, server.parts, client_mode)
  <2>1. PICK parts \in Seq(Seq(Nat)) : parts = server.parts BY <1>2
  <2>2. PICK s \in Servers : s = server BY <1>1
  <2>3. PICK mode : mode = client_mode OBVIOUS
  <2>4. PICK done : done = handled OBVIOUS
  <2>5. PICK got \in Seq(Nat) : got = received BY <1>1
  <2>6. Gone(s, parts, mode, got, given, done) /\ Len(parts) <= 1
    BY <1>4, <1>8, <2>1, <2>2, <2>3, <2>4, <2>5
  <2>7. Ordered(Proceed(s, parts, mode), mode, got, given, done) BY <2>6, GoneProceeds
  <2> QED BY <1>1, <1>7, <1>9, <2>1, <2>2, <2>3, <2>4, <2>5, <2>7 DEF InOrder
<1>10. CASE server.at = "offer" /\ server' = [server EXCEPT !.at = "push"]
  <2>1. PICK q : q = server' OBVIOUS
  <2>2. /\ q.at = "push" /\ q.next = server.next /\ q.parts = server.parts /\ q.parser = server.parser
    BY <1>1, <1>10, <2>1 DEF Servers
  <2>3. CASE client_mode = "auto"
    <3>1. Held(q, received, given, handled) BY <1>8, <2>2, <2>3 DEF Gone, Held, Waiting
    <3> QED BY <1>1, <1>4, <1>7, <2>1, <2>2, <2>3, <3>1 DEF InOrder, Ordered
  <2>4. CASE client_mode = "raw"
    <3>1. Passed(q, received, given, handled) BY <1>8, <2>2, <2>4 DEF Gone, Passed, Waiting
    <3> QED BY <1>1, <1>4, <1>7, <2>1, <2>2, <2>4, <3>1 DEF InOrder, Ordered
  <2>5. CASE client_mode = "rfc2217"
    <3>1. PICK c \in Seq(Nat) :
              /\ server.parser = Parsed(c).parser /\ handled = Parsed(c).commands
              /\ received = c \o First(server.parts) /\ given = Parsed(c).serial
      BY <1>8, <2>5 DEF Gone
    <3>2. UpToHere(q, received, given, handled, c) BY <2>2, <3>1 DEF UpToHere, Reading
    <3>3. Understood(q, received, given, handled) BY <1>8, <2>5, <3>2 DEF Gone, Understood
    <3> QED BY <1>1, <1>4, <1>7, <2>1, <2>2, <2>5, <3>3 DEF InOrder, Ordered
  <2> QED BY <1>1, <1>4, <2>3, <2>4, <2>5
<1> QED BY <1>9, <1>10 DEF Offer, Push

\* A turn of the loop between two pieces.
LEMMA TurnInOrder ==
    ASSUME TypeOK, InOrder, ReceiveEnd \/ SelectTimeout \/ SelectFails \/ PopForClient \/ Send
    PROVE  InOrder'
<1>1. /\ server \in Servers /\ client_mode \in {"none", "auto", "raw", "rfc2217"}
      /\ UNCHANGED <<client_mode, received, handed, handled>>
  BY DEF TypeOK, ClientOK, ReceiveEnd, SelectTimeout, SelectFails, PopForClient, Send, history
<1>2. Ordered(server, client_mode, received, handed, handled) BY DEF InOrder
<1>3. PICK q : q = server' OBVIOUS
<1>4. /\ q.parser = server.parser /\ q.parts = server.parts /\ q.probe = server.probe
      /\ q.next = server.next
      /\ \/ /\ server.at = "select" /\ q.at = "pop"
            /\ q.connected = FALSE \/ q.connected = server.connected
         \/ server.at = "select" /\ q.at = "leave"
         \/ server.at = "pop" /\ server.connected /\ q.at \in {"send", "select"} /\ q.connected
         \/ server.at = "pop" /\ ~server.connected /\ q.at = "leave"
         \/ server.at = "send" /\ q.at = "select" /\ q.connected = server.connected
         \/ server.at = "send" /\ q.at = "leave"
  <2>1. CASE ReceiveEnd BY <1>1, <1>3, <2>1 DEF ReceiveEnd, Servers
  <2>2. CASE SelectTimeout BY <1>1, <1>3, <2>2 DEF SelectTimeout, Servers
  <2>3. CASE SelectFails BY <1>1, <1>3, <2>3 DEF SelectFails, Servers
  <2>4. CASE PopForClient
    <3>1. PICK out : out = Popped(usb_to_net, MaxPop) OBVIOUS
    <3>2. /\ server.at = "pop"
          /\ IF out # <<>> /\ server.connected
             THEN server' = [server EXCEPT !.at = "send", !.out = out]
             ELSE server' = [server EXCEPT !.at = AfterPop]
      BY <2>4, <3>1 DEF PopForClient
    <3>3. AfterPop = IF server.connected THEN "select" ELSE "leave" BY DEF AfterPop
    <3>4. CASE out # <<>> /\ server.connected
      BY <1>1, <1>3, <3>2, <3>4 DEF Servers
    <3>5. CASE ~(out # <<>> /\ server.connected) /\ server.connected
      BY <1>1, <1>3, <3>2, <3>3, <3>5 DEF Servers
    <3>6. CASE ~server.connected
      BY <1>1, <1>3, <3>2, <3>3, <3>6 DEF Servers
    <3> QED BY <3>4, <3>5, <3>6
  <2>5. CASE Send BY <1>1, <1>3, <2>5 DEF Send, Servers
  <2> QED BY <2>1, <2>2, <2>3, <2>4, <2>5
<1>5. server.at \in {"select", "pop", "send"} /\ q.at \in Waiting
  BY <1>4 DEF Waiting
<1>6. /\ Len(q.parts) <= 1 /\ client_mode # "none"
      /\ q.at \in {"select", "send"} => q.connected
  BY <1>2, <1>4, <1>5 DEF Ordered
<1>7. q.at \notin {"listen", "accept", "announce", "offer", "push", "close"} BY <1>5 DEF Waiting
<1>8. SUFFICES Ordered(q, client_mode, received, handed, handled) BY <1>1, <1>3 DEF InOrder
<1>9. CASE client_mode = "auto"
  <2>1. /\ server.parser = NewParser /\ handled = <<>> /\ server.next = "pop" /\ handed = <<>>
        /\ received = server.probe /\ Undecided(received)
    BY <1>2, <1>5, <1>9 DEF Ordered, Held, Waiting
  <2>2. Held(q, received, handed, handled) BY <1>4, <1>5, <1>7, <2>1 DEF Held
  <2> QED BY <1>6, <1>7, <1>9, <2>2 DEF Ordered
<1>10. CASE client_mode = "raw"
  <2>1. /\ ~SpeaksRfc2217(received) /\ ~Undecided(received) /\ handled = <<>> /\ handed = received
    BY <1>2, <1>5, <1>10 DEF Ordered, Passed
  <2>2. Passed(q, received, handed, handled) BY <1>5, <1>7, <2>1 DEF Passed
  <2> QED BY <1>6, <1>7, <1>10, <2>2 DEF Ordered
<1>11. CASE client_mode = "rfc2217"
  <2>1. Understood(server, received, handed, handled) BY <1>2, <1>11 DEF Ordered
  <2>2. CASE \E c \in Seq(Nat) : UpToHere(server, received, handed, handled, c)
    <3>1. PICK c \in Seq(Nat) : UpToHere(server, received, handed, handled, c) BY <2>2
    <3>2. /\ server.parser = Parsed(c).parser /\ handled = Parsed(c).commands
          /\ received = c /\ handed = Parsed(c).serial
      BY <1>5, <3>1 DEF UpToHere
    <3>3. UpToHere(q, received, handed, handled, c)
      BY <1>4, <1>5, <1>7, <3>2 DEF UpToHere, Waiting, Reading
    <3> QED BY <1>6, <1>7, <1>11, <2>1, <3>3 DEF Ordered, Understood
  <2>3. CASE server.at = "pop" /\ ~server.connected
    <3>1. q.at = "leave" BY <1>4, <2>3
    <3> QED BY <1>6, <1>7, <1>11, <2>1, <3>1 DEF Ordered, Understood
  <2> QED BY <1>5, <2>1, <2>2, <2>3 DEF Understood
<1> QED BY <1>1, <1>6, <1>9, <1>10, <1>11

\* A session that ends.
LEMMA LeaveInOrder ==
    ASSUME TypeOK, InOrder, Leave
    PROVE  InOrder'
<1> DEFINE closing == [server EXCEPT !.next = "close"]
           kept == IF client_mode = "auto" /\ server.probe # <<>> THEN <<server.probe>> ELSE <<>>
<1>1. /\ server \in Servers /\ client_mode \in {"none", "auto", "raw", "rfc2217"}
      /\ server.at = "leave" /\ server' = Proceed(closing, kept, client_mode)
      /\ UNCHANGED <<client_mode, received, handed, handled>>
  BY DEF TypeOK, ClientOK, Leave, history
<1>2. Ordered(server, client_mode, received, handed, handled) BY DEF InOrder
<1>3. client_mode # "none" BY <1>1, <1>2 DEF Ordered
<1>4. PICK s \in Servers :
          s = closing /\ s.next = "close" /\ s.parser = server.parser
  <2>1. closing \in Servers BY <1>1 DEF Servers
  <2>2. closing.next = "close" /\ closing.parser = server.parser BY <1>1 DEF Servers
  <2> QED BY <2>1, <2>2
<1>5. PICK probe \in Seq(Nat) : probe = server.probe BY <1>1 DEF Servers, SeqUpTo
<1>6. PICK parts \in Seq(Seq(Nat)) : parts = kept
  <2>1. <<probe>> \in Seq(Seq(Nat)) /\ <<>> \in Seq(Seq(Nat)) BY OneElement, EmptySeq
  <2> QED BY <1>5, <2>1
<1>7. PICK mode : mode = client_mode OBVIOUS
<1>8. PICK q : q = Proceed(s, parts, mode) OBVIOUS
<1>9. SUFFICES Ordered(q, mode, received, handed, handled)
  BY <1>1, <1>4, <1>6, <1>7, <1>8 DEF InOrder
<1>10. CASE parts = <<>>
  <2>1. q.at = "close" /\ q.parts = <<>> /\ q.parser = server.parser
    <3>1. q.at = s.next /\ q.parts = <<>>
      <4>1. q = [s EXCEPT !.at = s.next, !.parts = <<>>, !.serial_rx = <<>>]
        BY <1>8, <1>10 DEF Proceed
      <4> QED BY <4>1 DEF Servers
    <3>2. q.parser = s.parser BY <1>8, ProceedParser
    <3> QED BY <1>4, <3>1, <3>2
  <2>2. Len(q.parts) <= 1 BY <2>1, EmptySeq
  <2>3. CASE mode = "auto"
    <3>1. probe = <<>>
      <4> SUFFICES ASSUME probe # <<>> PROVE FALSE OBVIOUS
      <4>1. parts = <<probe>> BY <1>5, <1>6, <1>7, <2>3
      <4>2. <<probe>> # <<>> OBVIOUS
      <4> QED BY <1>10, <4>1, <4>2
    <3>2. /\ server.parser = NewParser /\ handled = <<>> /\ handed = <<>> /\ received = server.probe
      BY <1>1, <1>2, <1>7, <2>3 DEF Ordered, Held, Waiting
    <3>3. Held(q, received, handed, handled) BY <1>5, <2>1, <3>1, <3>2 DEF Held, Waiting
    <3> QED BY <2>1, <2>2, <2>3, <3>3 DEF Ordered
  <2>4. CASE mode = "raw"
    <3>1. /\ ~SpeaksRfc2217(received) /\ ~Undecided(received) /\ handled = <<>> /\ handed = received
      BY <1>1, <1>2, <1>7, <2>4 DEF Ordered, Passed
    <3>2. Passed(q, received, handed, handled) BY <2>1, <3>1 DEF Passed, Waiting
    <3> QED BY <2>1, <2>2, <2>4, <3>2 DEF Ordered
  <2>5. CASE mode = "rfc2217"
    <3>1. Understood(q, received, handed, handled)
      BY <1>2, <1>7, <2>1, <2>5 DEF Ordered, Understood
    <3> QED BY <2>1, <2>2, <2>5, <3>1 DEF Ordered
  <2> QED BY <1>1, <1>3, <1>7, <2>3, <2>4, <2>5
<1>11. CASE parts # <<>>
  <2>1. mode = "auto" /\ parts = <<probe>> BY <1>5, <1>6, <1>7, <1>11
  <2>2. Head(parts) = probe /\ Tail(parts) = <<>>
    <3>1. Len(<<probe>>) = 1 /\ <<probe>>[1] = probe OBVIOUS
    <3> QED BY <2>1, <3>1
  <2>3. q.at = "offer" /\ q.parts = <<>> /\ q.serial_rx = probe
    BY <1>8, <1>11, <2>1, <2>2, ProceedPiece
  <2>4. q.next = "close" /\ q.parser = server.parser
    <3>1. q.next = s.next BY <1>8, ProceedType
    <3>2. q.parser = s.parser BY <1>8, ProceedParser
    <3> QED BY <1>4, <3>1, <3>2
  <2>5. /\ server.parser = NewParser /\ handled = <<>> /\ handed = <<>> /\ received = server.probe
    BY <1>1, <1>2, <1>7, <2>1 DEF Ordered, Held, Waiting
  <2>6. Held(q, received, handed, handled) BY <1>5, <2>3, <2>4, <2>5 DEF Held, Waiting
  <2>7. Len(q.parts) <= 1 BY <2>3, EmptySeq
  <2> QED BY <2>1, <2>3, <2>6, <2>7 DEF Ordered
<1> QED BY <1>10, <1>11

\* Between two sessions, and when one begins.
LEMMA SessionInOrder ==
    ASSUME TypeOK, InOrder, Listen \/ AcceptFails \/ Announce \/ CloseClient \/ NextClient
    PROVE  InOrder'
<1>1. server \in Servers BY DEF TypeOK
<1>2. Ordered(server, client_mode, received, handed, handled) BY DEF InOrder
<1>3. Len(<<>>) <= 1 BY EmptySeq
<1>4. CASE Listen \/ AcceptFails
  <2>1. /\ server.at \in {"listen", "accept"} /\ server'.at \in {"listen", "accept"}
        /\ server'.parts = server.parts /\ UNCHANGED <<client_mode, received, handed, handled>>
    BY <1>1, <1>4 DEF Listen, AcceptFails, Servers, history
  <2>2. client_mode = "none" /\ Len(server.parts) <= 1 BY <1>2, <2>1 DEF Ordered
  <2> QED BY <2>1, <2>2 DEF InOrder, Ordered
<1>5. CASE CloseClient
  <2>1. server'.at = "accept" /\ server'.parts = <<>> /\ client_mode' = "none"
    BY <1>5 DEF CloseClient, IdleServer
  <2> QED BY <1>3, <2>1 DEF InOrder, Ordered
<1>6. CASE NextClient
  <2>1. PICK script : Accept(script) BY <1>6 DEF NextClient
  <2>2. /\ server.at = "accept" /\ server'.at = "announce" /\ server'.parts = <<>>
        /\ server'.next = "pop" /\ server'.connected /\ server'.probe = <<>>
        /\ server'.parser = NewParser /\ UNCHANGED client_mode
        /\ received' = <<>> /\ handed' = <<>> /\ handled' = <<>>
    BY <2>1 DEF Accept, IdleServer
  <2>3. client_mode = "none" BY <1>2, <2>2 DEF Ordered
  <2> QED BY <1>3, <2>2, <2>3 DEF InOrder, Ordered, Announced
<1>7. CASE Announce
  <2>1. /\ server.at = "announce" /\ server' = [server EXCEPT !.at = "select"]
        /\ client_mode' = "auto" /\ UNCHANGED <<received, handed, handled>>
    BY <1>7 DEF Announce, history
  <2>2. /\ server.next = "pop" /\ server.connected /\ server.probe = <<>>
        /\ server.parser = NewParser /\ received = <<>> /\ handed = <<>> /\ handled = <<>>
        /\ Len(server.parts) <= 1
    BY <1>2, <2>1 DEF Ordered, Announced
  <2>3. PICK q : q = server' OBVIOUS
  <2>4. /\ q.at = "select" /\ q.next = "pop" /\ q.connected /\ q.probe = <<>>
        /\ q.parser = NewParser /\ q.parts = server.parts
    BY <1>1, <2>1, <2>2, <2>3 DEF Servers
  <2>5. Undecided(<<>>) BY EmptySeq DEF Undecided
  <2>6. Held(q, <<>>, <<>>, <<>>) BY <2>4, <2>5 DEF Held, Waiting
  <2>7. Ordered(q, "auto", <<>>, <<>>, <<>>) BY <2>2, <2>4, <2>6 DEF Ordered
  <2> QED BY <2>1, <2>2, <2>3, <2>7 DEF InOrder
<1> QED BY <1>4, <1>5, <1>6, <1>7

LEMMA InOrderStep == TypeOK /\ InOrder /\ [Next]_vars => InOrder'
<1> SUFFICES ASSUME TypeOK, InOrder, [Next]_vars PROVE InOrder' OBVIOUS
<1>1. CASE Server
  <2>1. CASE Listen \/ AcceptFails \/ Announce \/ CloseClient
    BY <2>1, SessionInOrder
  <2>2. ASSUME NEW n \in 1..Len(client.unsent), Receive(n) PROVE InOrder'
    BY <2>2, ReceiveInOrder
  <2>3. CASE ReceiveEnd \/ SelectTimeout \/ SelectFails \/ PopForClient \/ Send
    BY <2>3, TurnInOrder
  <2>4. CASE ParseByte BY <2>4, ParseInOrder
  <2>5. CASE ParseEnd BY <2>5, ParseEndInOrder
  <2>6. CASE Negotiate \/ Handle \/ Apply \/ Applied \/ Answer
    BY <2>6, CommandInOrder
  <2>7. CASE Offer \/ Push BY <2>7, PieceInOrder
  <2>8. CASE Leave BY <2>8, LeaveInOrder
  <2> QED BY <1>1, <2>1, <2>2, <2>3, <2>4, <2>5, <2>6, <2>7, <2>8 DEF Server
<1>2. CASE NextClient BY <1>2, SessionInOrder
<1>3. CASE ClientEnds \/ UsbTx \/ Device \/ WebFrame \/ WebPush
  <2>1. UNCHANGED <<server, client_mode, received, handed, handled>>
    BY <1>3 DEF ClientEnds, UsbTx, UsbPop, UsbCheck, UsbLock, UsbSend, Device, Open, SetUp,
                Connected, Disconnected, CloseDevice, DeviceSends, RxPush, WebFrame, WebPush,
                tcp, history
  <2> QED BY <2>1 DEF InOrder
<1>4. CASE UNCHANGED vars
  BY <1>4 DEF vars, tcp, history, InOrder
<1> QED BY <1>1, <1>2, <1>3, <1>4 DEF Next

LEMMA InOrderInit == Init => InOrder
<1> SUFFICES ASSUME Init PROVE InOrder OBVIOUS
<1>1. server.at = "listen" /\ server.parts = <<>> /\ client_mode = "none"
  BY DEF Init, IdleServer
<1>2. Len(<<>>) <= 1 BY EmptySeq
<1> QED BY <1>1, <1>2 DEF InOrder, Ordered

LEMMA InOrderSays == TypeOK /\ InOrder => SplitNeverMatters
<1> SUFFICES ASSUME TypeOK, InOrder PROVE SplitNeverMatters OBVIOUS
<1>1. received \in Seq(Nat) /\ client_mode \in {"none", "auto", "raw", "rfc2217"}
  BY DEF TypeOK, HistoryOK, ClientOK
<1>2. Ordered(server, client_mode, received, handed, handled) BY DEF InOrder
<1>3. ASSUME server.at = "select"
      PROVE  \/ client_mode = "auto" /\ Undecided(received) /\ handed = <<>> /\ handled = <<>>
             \/ /\ client_mode = "rfc2217" /\ SpeaksRfc2217(received)
                /\ handed = DataIn(received) /\ handled = CommandsIn(received)
             \/ /\ client_mode = "raw" /\ ~SpeaksRfc2217(received) /\ ~Undecided(received)
                /\ handed = received /\ handled = <<>>
  <2>1. client_mode # "none" BY <1>2, <1>3 DEF Ordered
  <2>2. CASE client_mode = "auto"
    BY <1>2, <1>3, <2>2 DEF Ordered, Held, Waiting
  <2>3. CASE client_mode = "raw"
    BY <1>2, <1>3, <2>3 DEF Ordered, Passed
  <2>4. CASE client_mode = "rfc2217"
    <3>1. Understood(server, received, handed, handled) BY <1>2, <2>4 DEF Ordered
    <3>2. PICK c \in Seq(Nat) : UpToHere(server, received, handed, handled, c)
      BY <1>3, <3>1 DEF Understood
    <3>3. received = c /\ handled = Parsed(c).commands /\ handed = Parsed(c).serial
      BY <1>3, <3>2 DEF UpToHere
    <3>4. handed = DataIn(received) /\ handled = CommandsIn(received)
      BY <3>3, DataInParsed, CommandsInParsed
    <3> QED BY <2>4, <3>1, <3>4 DEF Understood
  <2> QED BY <1>1, <2>1, <2>2, <2>3, <2>4
<1>4. ASSUME server.at = "close", client_mode # "rfc2217" PROVE handed = received
  <2>1. client_mode # "none" BY <1>2, <1>4 DEF Ordered
  <2>2. CASE client_mode = "auto" BY <1>2, <1>4, <2>2 DEF Ordered, Held, Waiting
  <2>3. CASE client_mode = "raw" BY <1>2, <1>4, <2>3 DEF Ordered, Passed
  <2> QED BY <1>1, <1>4, <2>1, <2>2, <2>3
<1> QED BY <1>3, <1>4 DEF SplitNeverMatters

\* Whatever pieces the bytes of a client come in, the bridge takes it for the kind it is by its
\* first three bytes, and hands to the USB device the data, and deals with the commands, that a
\* reading of its whole stream finds (detect_client_mode, tcp_server_task and
\* rfc2217_process_input).
THEOREM StreamUnderstood == Spec => []SplitNeverMatters
BY InitType, TypeStep, InOrderInit, InOrderStep, InOrderSays, PTL DEF Spec
==============================================================================
