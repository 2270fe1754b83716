--------------------------- MODULE WsClients_proof ---------------------------
(***************************************************************************)
(* The browser terminals, for any number of slots and sockets, any sizes    *)
(* and any number of activations of a slot.                                 *)
(***************************************************************************)
EXTENDS WsClients, FiniteSetTheorems, SequenceTheorems, TLAPS

\* Where the frame of a slot is, from the moment ws_tx_task claimed the slot for it.
WithTx(s) == tx.at = "queue" /\ tx.slot = s
InWork(s) == \E i \in 1..Len(work) : work[i] = s
Sending(s) == httpd.at = "send" /\ httpd.slot = s
Ending(s) ==
    \/ httpd.at = "finish" /\ httpd.slot = s
    \/ httpd.at \in {"join", "leave", "sync"} /\ httpd.next.at = "finish" /\ httpd.next.slot = s

\* It is in one place at most, and the slot is in flight then.
Frames ==
    \A s \in Slots :
        /\ WithTx(s) \/ InWork(s) \/ Sending(s) \/ Ending(s) => client[s].in_flight
        /\ InWork(s) => ~WithTx(s) /\ ~Sending(s) /\ ~Ending(s)
        /\ WithTx(s) => ~Sending(s) /\ ~Ending(s)
        /\ \A i, j \in 1..Len(work) : work[i] = s /\ work[j] = s => i = j

\* ws_tx_task works on slots that have no frame, and on no later session than theirs.
Popping ==
    tx.at \in {"pop", "claim"} =>
        ~client[tx.slot].in_flight /\ tx.generation <= client[tx.slot].generation

\* Slot and subscription differ only while the httpd task changes both; a slot that is
\* about to subscribe has no frame, and none that ws_tx_task could claim for it.
Subscribed ==
    /\ \A s \in Slots : \/ joined[s] = client[s].active
                        \/ httpd.at \in {"join", "leave"} /\ httpd.slot = s
    /\ httpd.at = "leave" => ~client[httpd.slot].active
    /\ httpd.at = "join" =>
          /\ client[httpd.slot].active /\ ~joined[httpd.slot] /\ ~client[httpd.slot].in_flight
          /\ ~(tx.at = "claim" /\ tx.slot = httpd.slot
                 /\ tx.generation = client[httpd.slot].generation)

\* The capture flag lags only as long as ws_sync_usb_capture_state is to come.
Captured ==
    httpd.at \notin {"join", "leave", "sync"} => capture = (\E s \in Slots : client[s].active)

\* The lengths that tasks keep outside the mux are those of the buffer, and one pop's.
Lengths ==
    /\ tx.at = "claim" => tx.len = Len(tx_data[tx.slot]) /\ tx.len <= MaxPop
    /\ \A s \in Slots : /\ WithTx(s) \/ InWork(s) => client[s].tx_len = Len(tx_data[s])
                        /\ Sending(s) => httpd.len = Len(tx_data[s])

Rising(a) == \A i, j \in 1..Len(a) : i < j => a[i] < a[j]
Above(a, n) == \A i \in 1..Len(a) : a[i] > n
UpTo(a, n) == \A i \in 1..Len(a) : a[i] <= n
Before(a, b) == \A i \in 1..Len(a), j \in 1..Len(b) : a[i] < b[j]

\* Bytes of the slot's session that are in its buffer and still to be sent.
Pending(s) ==
    \/ WithTx(s) \/ InWork(s) \/ Sending(s)
    \/ tx.at = "claim" /\ tx.slot = s /\ tx.generation = client[s].generation

\* What was delivered, what is pending and what waits are in the stream's order.
FrameInOrder(s) ==
    /\ Rising(tx_data[s]) /\ Above(tx_data[s], since[s]) /\ UpTo(tx_data[s], sent)
    /\ Before(delivered[s], tx_data[s]) /\ Before(tx_data[s], queue[s])

InOrder(s) ==
    /\ since[s] <= sent
    /\ Rising(delivered[s]) /\ Above(delivered[s], since[s]) /\ UpTo(delivered[s], sent)
    /\ Rising(queue[s]) /\ Above(queue[s], since[s]) /\ UpTo(queue[s], sent)
    /\ Before(delivered[s], queue[s])
    /\ Pending(s) => FrameInOrder(s)

Ordered == \A s \in Slots : Served(s) => InOrder(s)

IInv == TypeOK /\ Frames /\ Popping /\ Subscribed /\ Captured /\ Lengths /\ Ordered

-----------------------------------------------------------------------------
(* Sequences in order.                                                      *)

LEMMA Together ==
    ASSUME NEW a \in Seq(Nat), NEW b \in Seq(Nat), NEW c \in Seq(Nat), NEW n \in Nat
    PROVE  /\ a \o b \in Seq(Nat)
           /\ Rising(a) /\ Rising(b) /\ Before(a, b) => Rising(a \o b)
           /\ Above(a, n) /\ Above(b, n) => Above(a \o b, n)
           /\ UpTo(a, n) /\ UpTo(b, n) => UpTo(a \o b, n)
           /\ Before(a, c) /\ Before(b, c) => Before(a \o b, c)
           /\ Before(c, a) /\ Before(c, b) => Before(c, a \o b)
<1> DEFINE s == a \o b
<1>1. /\ s \in Seq(Nat) /\ Len(s) = Len(a) + Len(b)
      /\ \A i \in 1..Len(a) + Len(b) : s[i] = IF i <= Len(a) THEN a[i] ELSE b[i - Len(a)]
  BY ConcatProperties
<1>2. Len(a) \in Nat /\ Len(b) \in Nat /\ Len(s) \in Nat BY <1>1, LenProperties
<1>3. \A i \in 1..Len(a) : a[i] \in Nat BY ElementOfSeq
<1>4. \A i \in 1..Len(b) : b[i] \in Nat BY ElementOfSeq
<1> HIDE DEF s
<1>5. \A i \in 1..Len(s) : \/ i \in 1..Len(a) /\ s[i] = a[i]
                           \/ i - Len(a) \in 1..Len(b) /\ i > Len(a) /\ s[i] = b[i - Len(a)]
  BY <1>1, <1>2, SMT
<1>6. Rising(a) /\ Rising(b) /\ Before(a, b) => Rising(s)
  <2> SUFFICES ASSUME Rising(a), Rising(b), Before(a, b), NEW i \in 1..Len(s),
                      NEW j \in 1..Len(s), i < j
               PROVE  s[i] < s[j]
    BY DEF Rising
  <2>1. CASE i \in 1..Len(a) /\ j \in 1..Len(a) /\ s[i] = a[i] /\ s[j] = a[j]
    BY <2>1 DEF Rising
  <2>2. CASE i \in 1..Len(a) /\ j - Len(a) \in 1..Len(b) /\ s[i] = a[i] /\ s[j] = b[j - Len(a)]
    BY <2>2 DEF Before
  <2>3. CASE i - Len(a) \in 1..Len(b) /\ j - Len(a) \in 1..Len(b)
             /\ s[i] = b[i - Len(a)] /\ s[j] = b[j - Len(a)]
    <3>1. i - Len(a) < j - Len(a) BY <1>2, SMT
    <3> QED BY <2>3, <3>1 DEF Rising
  <2>4. CASE i > Len(a) /\ j \in 1..Len(a)
    BY <1>2, <2>4, SMT
  <2> QED BY <1>5, <2>1, <2>2, <2>3, <2>4
<1>7. Above(a, n) /\ Above(b, n) => Above(s, n) BY <1>5 DEF Above
<1>8. UpTo(a, n) /\ UpTo(b, n) => UpTo(s, n) BY <1>5 DEF UpTo
<1>9. Before(a, c) /\ Before(b, c) => Before(s, c) BY <1>5 DEF Before
<1>10. Before(c, a) /\ Before(c, b) => Before(c, s) BY <1>5 DEF Before
<1> QED BY <1>1, <1>6, <1>7, <1>8, <1>9, <1>10 DEF s

\* A part of a sequence is in order, and lies where the whole lies.
LEMMA Part ==
    ASSUME NEW a \in Seq(Nat), NEW l \in Nat, NEW r \in 0..Len(a), l >= 1,
           NEW c \in Seq(Nat), NEW n \in Nat
    PROVE  /\ SubSeq(a, l, r) \in Seq(Nat)
           /\ Len(SubSeq(a, l, r)) = IF l <= r THEN r - l + 1 ELSE 0
           /\ \A i \in 1..Len(SubSeq(a, l, r)) : /\ i + l - 1 \in 1..Len(a)
                                                 /\ i + l - 1 <= r
                                                 /\ SubSeq(a, l, r)[i] = a[i + l - 1]
           /\ Rising(a) => Rising(SubSeq(a, l, r))
           /\ Above(a, n) => Above(SubSeq(a, l, r), n)
           /\ UpTo(a, n) => UpTo(SubSeq(a, l, r), n)
           /\ Before(a, c) => Before(SubSeq(a, l, r), c)
           /\ Before(c, a) => Before(c, SubSeq(a, l, r))
<1> DEFINE p == SubSeq(a, l, r)
<1>1. Len(a) \in Nat BY LenProperties
<1>2. \A i \in l..r : a[i] \in Nat
  <2> SUFFICES ASSUME NEW i \in l..r PROVE a[i] \in Nat
    OBVIOUS
  <2>1. i \in 1..Len(a) BY <1>1, SMT
  <2> QED BY <2>1, ElementOfSeq
<1>3. /\ p \in Seq(Nat) /\ Len(p) = (IF l <= r THEN r - l + 1 ELSE 0)
      /\ \A i \in 1 .. r - l + 1 : p[i] = a[l + i - 1]
  <2>1. l \in Int /\ r \in Int BY <1>1, SMT
  <2> QED BY <1>2, <2>1, SubSeqProperties
<1> HIDE DEF p
<1>4. ASSUME NEW i \in 1..Len(p)
      PROVE  /\ i + l - 1 \in 1..Len(a) /\ i + l - 1 <= r /\ p[i] = a[i + l - 1]
  <2>1. i \in 1 .. r - l + 1 /\ i + l - 1 = l + i - 1 /\ i + l - 1 \in 1..Len(a) /\ i + l - 1 <= r
    BY <1>1, <1>3, SMT
  <2> QED BY <1>3, <2>1
<1>5. Rising(a) => Rising(p)
  <2> SUFFICES ASSUME Rising(a), NEW i \in 1..Len(p), NEW j \in 1..Len(p), i < j
               PROVE  p[i] < p[j]
    BY DEF Rising
  <2>1. i + l - 1 < j + l - 1 BY SMT
  <2> QED BY <1>4, <2>1 DEF Rising
<1>6. Above(a, n) => Above(p, n) BY <1>4 DEF Above
<1>7. UpTo(a, n) => UpTo(p, n) BY <1>4 DEF UpTo
<1>8. Before(a, c) => Before(p, c) BY <1>4 DEF Before
<1>9. Before(c, a) => Before(c, p) BY <1>4 DEF Before
<1> QED BY <1>3, <1>4, <1>5, <1>6, <1>7, <1>8, <1>9 DEF p

\* The front of a sequence in order lies before the rest.
LEMMA FrontBeforeRest ==
    ASSUME NEW a \in Seq(Nat), NEW k \in 0..Len(a), Rising(a)
    PROVE  Before(SubSeq(a, 1, k), SubSeq(a, k + 1, Len(a)))
<1> DEFINE p == SubSeq(a, 1, k)
           q == SubSeq(a, k + 1, Len(a))
<1>1. Len(a) \in Nat /\ Len(a) \in 0..Len(a) /\ k + 1 \in Nat /\ k + 1 >= 1 /\ k \in Nat
  BY LenProperties, SMT
<1>2. \A i \in 1..Len(p) : i + 1 - 1 \in 1..Len(a) /\ i + 1 - 1 <= k /\ p[i] = a[i + 1 - 1]
  BY Part, 1 \in Nat, 1 >= 1
<1>3. \A i \in 1..Len(q) : i + (k + 1) - 1 \in 1..Len(a) /\ q[i] = a[i + (k + 1) - 1]
  BY <1>1, Part
<1> HIDE DEF p, q
<1>4. Before(p, q)
  <2> SUFFICES ASSUME NEW i \in 1..Len(p), NEW j \in 1..Len(q) PROVE p[i] < q[j]
    BY DEF Before
  <2>1. i + 1 - 1 < j + (k + 1) - 1 BY <1>1, <1>2, SMT
  <2> QED BY <1>2, <1>3, <2>1 DEF Rising
<1> QED BY <1>4 DEF p, q

\* New bytes of the stream come after all that were sent before.
LEMMA Arriving ==
    ASSUME NEW n \in Nat, NEW len \in Nat, NEW a \in Seq(Nat), NEW m \in Nat, m <= n
    PROVE  LET t == [i \in 1..len |-> n + i]
           IN  /\ t \in Seq(Nat) /\ Rising(t) /\ Above(t, m) /\ UpTo(t, n + len)
               /\ UpTo(a, n) => (Before(a, t) /\ UpTo(a, n + len))
<1> DEFINE t == [i \in 1..len |-> n + i]
<1>1. t \in Seq(Nat) /\ Len(t) = len
  <2>1. t \in [1..len -> Nat] BY SMT
  <2> HIDE DEF t
  <2> QED BY <2>1
<1>2. \A i \in 1..len : t[i] = n + i OBVIOUS
<1> HIDE DEF t
<1>3. Rising(t) BY <1>1, <1>2, SMT DEF Rising
<1>4. Above(t, m) BY <1>1, <1>2, SMT DEF Above
<1>5. UpTo(t, n + len) BY <1>1, <1>2, SMT DEF UpTo
<1>6. \A i \in 1..Len(a) : a[i] \in Nat BY ElementOfSeq
<1>7. UpTo(a, n) => Before(a, t) BY <1>1, <1>2, <1>6, SMT DEF UpTo, Before
<1>8. UpTo(a, n) => UpTo(a, n + len) BY <1>6, SMT DEF UpTo
<1> QED BY <1>1, <1>3, <1>4, <1>5, <1>7, <1>8 DEF t

-----------------------------------------------------------------------------
(* Types.                                                                   *)

LEMMA InitTyped == Init => TypeOK
<1> SUFFICES ASSUME Init PROVE TypeOK
  OBVIOUS
<1>1. <<>> \in Seq(Nat) /\ <<>> \in Seq(Slots \cup {Touch}) BY EmptySeq
<1>2. FreeClient \in ClientType BY DEF FreeClient, ClientType
<1>3. httpd = Idle /\ tx = [at |-> "scan", slot |-> 0] BY DEF Init
<1>4. Resumes(httpd) /\ httpd.at = "idle" BY <1>3 DEF Idle, Resumes
<1> QED BY <1>1, <1>2, <1>3, <1>4, WsAssumption DEF Init, Ring!Init, TypeOK

\* ws_client_deactivate_fd, seen from outside: one slot is given up, or nothing happens.
LEMMA GivesUp ==
    ASSUME TypeOK, NEW fd, NEW place, Deactivate(fd, place)
    PROVE  \/ \E s \in Slots :
                /\ client[s].active /\ client[s].fd = fd
                /\ client' = [client EXCEPT ![s] = [@ EXCEPT !.active = FALSE, !.fd = NoFd]]
                /\ httpd' = [at |-> "leave", slot |-> s, next |-> place]
           \/ client' = client /\ httpd' = place
BY DEF Deactivate, Holds, TypeOK, ClientType

\* What an operation of the httpd task's session side changes.
LEMMA DeactivateTyped ==
    ASSUME TypeOK, NEW fd, NEW place, Deactivate(fd, place), Resumes(place)
    PROVE  /\ client' \in [Slots -> ClientType]
           /\ httpd'.at \in {"idle", "join", "leave", "sync", "close", "prune", "send", "finish"}
           /\ httpd'.at \in {"idle", "close", "prune", "finish"} => Resumes(httpd')
           /\ httpd'.at \in {"join", "leave", "send"} => httpd'.slot \in Slots
           /\ httpd'.at \in {"join", "leave", "sync"} => Resumes(httpd'.next)
           /\ httpd'.at # "send"
<1>1. CASE client' = client /\ httpd' = place
  BY <1>1 DEF TypeOK, Resumes
<1>2. ASSUME NEW s \in Slots,
             client' = [client EXCEPT ![s] = [@ EXCEPT !.active = FALSE, !.fd = NoFd]],
             httpd' = [at |-> "leave", slot |-> s, next |-> place]
      PROVE  /\ client' \in [Slots -> ClientType]
             /\ httpd'.at = "leave" /\ httpd'.slot \in Slots /\ Resumes(httpd'.next)
  BY <1>2 DEF TypeOK, ClientType
<1>3. CASE \E s \in Slots :
              /\ client' = [client EXCEPT ![s] = [@ EXCEPT !.active = FALSE, !.fd = NoFd]]
              /\ httpd' = [at |-> "leave", slot |-> s, next |-> place]
  <2>1. client' \in [Slots -> ClientType] BY <1>2, <1>3
  <2>2. httpd'.at = "leave" /\ httpd'.slot \in Slots /\ Resumes(httpd'.next) BY <1>2, <1>3
  <2> QED BY <2>1, <2>2
<1> QED
  <2>1. \/ client' = client /\ httpd' = place
        \/ \E s \in Slots :
              /\ client' = [client EXCEPT ![s] = [@ EXCEPT !.active = FALSE, !.fd = NoFd]]
              /\ httpd' = [at |-> "leave", slot |-> s, next |-> place]
    BY GivesUp
  <2> QED BY <1>1, <1>3, <2>1

LEMMA RingTyped ==
    ASSUME TypeOK
    PROVE  /\ \A s \in Slots : Ring!Join(s) \/ Ring!Leave(s) =>
                  sent' = sent /\ queue' \in [Slots -> Seq(Nat)] /\ joined' \in [Slots -> BOOLEAN]
           /\ Ring!Discard =>
                  sent' = sent /\ queue' \in [Slots -> Seq(Nat)] /\ joined' \in [Slots -> BOOLEAN]
<1>1. <<>> \in Seq(Nat) BY EmptySeq
<1> QED BY <1>1 DEF TypeOK, Ring!Join, Ring!Leave, Ring!Discard

\* The steps of the shared code, and those that leave the slots to it.
LEMMA TypedSharedSteps ==
    ASSUME TypeOK, LeaveRing \/ JoinRing \/ ws_sync_usb_capture_state
    PROVE  TypeOK'
<1>1. CASE LeaveRing
  BY <1>1, RingTyped DEF LeaveRing, TypeOK, Ring!Leave, seen
<1>2. CASE JoinRing
  <2>1. <<>> \in Seq(Nat) BY EmptySeq
  <2> QED BY <1>2, <2>1, RingTyped DEF JoinRing, TypeOK, Ring!Join
<1>3. CASE ws_sync_usb_capture_state
  BY <1>3 DEF ws_sync_usb_capture_state, TypeOK, Resumes, stream, seen
<1> QED BY <1>1, <1>2, <1>3

LEMMA TypedSessionSteps ==
    ASSUME TypeOK, NEW fd \in Fds,
           \/ ws_on_connect(fd) \/ http_session_close(fd) \/ ws_handler_fails(fd)
           \/ PeerGone(fd) \/ CloseSocket \/ StartPrune \/ ws_prune_stale_clients
    PROVE  TypeOK'
<1>0. Resumes(Idle) /\ Resumes([at |-> "close", fd |-> fd]) /\ Resumes([at |-> "prune"])
  BY DEF Resumes, Idle
<1>1. CASE ws_on_connect(fd)
  <2>1. ASSUME NEW s \in Slots,
               client' = [client EXCEPT ![s] =
                  [@ EXCEPT !.fd = fd, !.active = TRUE, !.generation = NextGeneration(client[s]),
                            !.scheduled_fd = NoFd, !.scheduled_generation = 0, !.tx_len = 0]],
               httpd' = [at |-> "join", slot |-> s, next |-> Idle]
        PROVE  /\ client' \in [Slots -> ClientType]
               /\ httpd'.at = "join" /\ httpd'.slot \in Slots /\ Resumes(httpd'.next)
    <3> DEFINE c == [client[s] EXCEPT
                        !.fd = fd, !.active = TRUE, !.generation = NextGeneration(client[s]),
                        !.scheduled_fd = NoFd, !.scheduled_generation = 0, !.tx_len = 0]
    <3>1. client[s] \in ClientType /\ client[s].generation \in Nat BY DEF TypeOK, ClientType
    <3>2. NextGeneration(client[s]) \in Nat BY <3>1, SMT DEF NextGeneration
    <3>3. c \in ClientType BY <3>1, <3>2 DEF ClientType
    <3>4. client' = [client EXCEPT ![s] = c] BY <2>1
    <3> HIDE DEF c
    <3>5. client' \in [Slots -> ClientType] BY <3>3, <3>4 DEF TypeOK
    <3> QED BY <1>0, <2>1, <3>5
  <2>2. \/ client' = client /\ httpd' = httpd
        \/ client' \in [Slots -> ClientType] /\ httpd'.at = "join" /\ httpd'.slot \in Slots
              /\ Resumes(httpd'.next)
    BY <1>1, <2>1 DEF ws_on_connect, FreeSlots
  <2>3. UNCHANGED <<stream, tx_data, work, tx, seen>> BY <1>1 DEF ws_on_connect
  <2> QED BY <2>2, <2>3 DEF TypeOK, stream, seen
<1>2. CASE http_session_close(fd)
  BY <1>0, <1>2, DeactivateTyped DEF http_session_close, TypeOK, stream, seen
<1>3. CASE ws_handler_fails(fd)
  BY <1>0, <1>3, DeactivateTyped DEF ws_handler_fails, TypeOK, stream, seen
<1>4. CASE PeerGone(fd)
  BY <1>4 DEF PeerGone, TypeOK, stream, seen
<1>5. CASE CloseSocket
  BY <1>0, <1>5 DEF CloseSocket, TypeOK, stream, seen, Idle
<1>6. CASE StartPrune
  BY <1>0, <1>6 DEF StartPrune, TypeOK, stream, seen
<1>7. CASE ws_prune_stale_clients
  <2>1. httpd.at = "prune" /\ Resumes(httpd) BY <1>7 DEF ws_prune_stale_clients, TypeOK
  <2>2. UNCHANGED <<stream, tx_data, work, tx, seen>> BY <1>7 DEF ws_prune_stale_clients
  <2>3. \/ \E s \in Slots : Deactivate(client[s].fd, httpd)
        \/ httpd' = Idle /\ client' = client
    BY <1>7 DEF ws_prune_stale_clients
  <2>4. CASE httpd' = Idle /\ client' = client
    BY <1>0, <2>2, <2>4 DEF TypeOK, stream, seen, Idle
  <2>5. ASSUME NEW s \in Slots, Deactivate(client[s].fd, httpd) PROVE TypeOK'
    <3>1. /\ client' \in [Slots -> ClientType]
          /\ httpd'.at \in {"idle", "join", "leave", "sync", "close", "prune", "send", "finish"}
          /\ httpd'.at \in {"idle", "close", "prune", "finish"} => Resumes(httpd')
          /\ httpd'.at \in {"join", "leave", "send"} => httpd'.slot \in Slots
          /\ httpd'.at \in {"join", "leave", "sync"} => Resumes(httpd'.next)
          /\ httpd'.at # "send"
      BY <2>1, <2>5, DeactivateTyped
    <3> QED BY <2>2, <3>1 DEF TypeOK, stream, seen
  <2> QED BY <2>3, <2>4, <2>5
<1> QED BY <1>1, <1>2, <1>3, <1>4, <1>5, <1>6, <1>7

LEMMA TypedWork ==
    ASSUME TypeOK, Lengths, StartSend \/ SendFrame \/ FinishSend \/ ws_lru_touch_work
    PROVE  TypeOK'
<1>0. ASSUME work # <<>>
      PROVE  Tail(work) \in Seq(Slots \cup {Touch}) /\ Head(work) \in Slots \cup {Touch}
  <2>1. work \in Seq(Slots \cup {Touch}) BY DEF TypeOK
  <2> QED BY <1>0, <2>1, HeadTailProperties
<1>1. CASE StartSend
  <2> DEFINE s == Head(work)
             c == client[s]
  <2>1. s \in Slots /\ work' \in Seq(Slots \cup {Touch}) BY <1>0, <1>1 DEF StartSend
  <2>2. c.scheduled_fd \in Fds \cup {NoFd} /\ c.tx_len \in Nat
    <3>1. c \in ClientType BY <2>1 DEF TypeOK
    <3> HIDE DEF c
    <3> QED BY <3>1 DEF ClientType
  <2>3. /\ httpd'.at = "send" /\ httpd'.slot \in Slots /\ httpd'.len \in Nat
        /\ httpd'.fd \in Fds \cup {NoFd}
    <3>1. httpd'.at = "send" /\ httpd'.slot = s /\ httpd'.len = c.tx_len /\ httpd'.fd = c.scheduled_fd
      BY <1>1 DEF StartSend
    <3> QED BY <2>1, <2>2, <3>1
  <2> HIDE DEF s, c
  <2>4. UNCHANGED <<stream, client, tx_data, tx, seen>> BY <1>1 DEF StartSend
  <2> QED BY <2>1, <2>3, <2>4 DEF TypeOK, stream, seen
<1>2. CASE SendFrame
  <2> DEFINE s == httpd.slot
             finish == [at |-> "finish", slot |-> s]
  <2>1. s \in Slots /\ httpd.len \in Nat /\ httpd.at = "send" BY <1>2 DEF SendFrame, TypeOK
  <2>2. Resumes(finish) BY <2>1 DEF Resumes
  <2>3. UNCHANGED <<stream, tx_data, work, tx, since>> BY <1>2 DEF SendFrame
  <2>4. SubSeq(tx_data[s], 1, httpd.len) \in Seq(Nat)
    <3>1. tx_data[s] \in Seq(Nat) /\ httpd.len <= Len(tx_data[s])
      BY <2>1 DEF TypeOK, Lengths, Sending
    <3>2. httpd.len \in 0..Len(tx_data[s]) BY <2>1, <3>1, LenProperties, SMT
    <3> HIDE DEF s
    <3> QED BY <3>1, <3>2, Part, 1 \in Nat, 1 >= 1
  <2>5. CASE /\ delivered' = [delivered EXCEPT ![s] = @ \o SubSeq(tx_data[s], 1, httpd.len)]
             /\ httpd' = finish /\ client' = client
    <3>1. delivered' \in [Slots -> Seq(Nat)]
      <4> DEFINE f == SubSeq(tx_data[s], 1, httpd.len)
      <4> HIDE DEF f, s
      <4>1. delivered[s] \in Seq(Nat) BY <2>1 DEF TypeOK
      <4>2. delivered[s] \o f \in Seq(Nat) BY <2>4, <4>1, ConcatProperties DEF f
      <4>3. delivered' = [delivered EXCEPT ![s] = delivered[s] \o f] BY <2>5 DEF f
      <4> QED BY <4>2, <4>3 DEF TypeOK
    <3> QED BY <2>2, <2>3, <2>5, <3>1 DEF TypeOK, stream
  <2>6. CASE Deactivate(httpd.fd, finish) /\ delivered' = delivered
    <3>1. /\ client' \in [Slots -> ClientType]
          /\ httpd'.at \in {"idle", "join", "leave", "sync", "close", "prune", "send", "finish"}
          /\ httpd'.at \in {"idle", "close", "prune", "finish"} => Resumes(httpd')
          /\ httpd'.at \in {"join", "leave", "send"} => httpd'.slot \in Slots
          /\ httpd'.at \in {"join", "leave", "sync"} => Resumes(httpd'.next)
          /\ httpd'.at # "send"
      BY <2>2, <2>6, DeactivateTyped
    <3> QED BY <2>3, <2>6, <3>1 DEF TypeOK, stream
  <2>7. CASE httpd' = finish /\ client' = client /\ delivered' = delivered
    BY <2>2, <2>3, <2>7 DEF TypeOK, stream
  <2> QED BY <1>2, <2>5, <2>6, <2>7 DEF SendFrame
<1>3. CASE FinishSend
  <2>1. httpd.slot \in Slots BY <1>3 DEF FinishSend, TypeOK, Resumes
  <2>2. client' \in [Slots -> ClientType]
    BY <1>3, <2>1 DEF FinishSend, TypeOK, ClientType, Unscheduled
  <2>3. UNCHANGED <<stream, tx_data, work, tx, seen>> /\ httpd' = Idle BY <1>3 DEF FinishSend
  <2> QED BY <2>2, <2>3 DEF TypeOK, stream, seen, Idle, Resumes
<1>4. CASE ws_lru_touch_work
  <2>1. work' \in Seq(Slots \cup {Touch}) BY <1>0, <1>4 DEF ws_lru_touch_work
  <2>2. UNCHANGED <<stream, client, tx_data, httpd, tx, seen>> BY <1>4 DEF ws_lru_touch_work
  <2> QED BY <2>1, <2>2 DEF TypeOK, stream, seen
<1> QED BY <1>1, <1>2, <1>3, <1>4

LEMMA NextSlotTyped ==
    ASSUME NEW s \in Slots
    PROVE  LET next == NextSlot(s)
           IN  /\ next.at \in {"scan", "lru"}
               /\ next.at = "scan" => next.slot \in Slots
BY DEF NextSlot

LEMMA TypedTx ==
    ASSUME TypeOK, TxStep
    PROVE  TypeOK'
<1>1. CASE Scan
  <2>1. tx.slot \in Slots /\ client[tx.slot] \in ClientType BY <1>1 DEF Scan, TypeOK
  <2>2. UNCHANGED <<stream, client, tx_data, work, httpd, seen>> BY <1>1 DEF Scan
  <2>3. /\ tx'.at \in {"scan", "pop", "lru"}
        /\ tx'.at \in {"scan", "pop"} => tx'.slot \in Slots
        /\ tx'.at = "pop" => tx'.fd \in Fds \cup {NoFd} /\ tx'.generation \in Nat
    BY <1>1, <2>1, NextSlotTyped DEF Scan, ClientType
  <2> QED BY <2>2, <2>3 DEF TypeOK, stream, seen
<1>2. CASE PopClient
  <2>1. tx.slot \in Slots /\ tx.fd \in Fds \cup {NoFd} /\ tx.generation \in Nat
    BY <1>2 DEF PopClient, TypeOK
  <2>2. UNCHANGED <<client, work, httpd, seen>> BY <1>2 DEF PopClient
  <2> DEFINE s == tx.slot
             len == IF Len(queue[s]) < MaxPop THEN Len(queue[s]) ELSE MaxPop
  <2>3. queue[s] \in Seq(Nat) BY <2>1 DEF TypeOK
  <2>4. len \in Nat /\ len \in 0..Len(queue[s]) /\ len + 1 \in Nat /\ len + 1 >= 1
        /\ Len(queue[s]) \in 0..Len(queue[s])
    <3>1. Len(queue[s]) \in Nat BY <2>3, LenProperties
    <3> QED BY <3>1, WsAssumption, SMT
  <2> HIDE DEF len
  <2>5. /\ SubSeq(queue[s], 1, len) \in Seq(Nat)
        /\ SubSeq(queue[s], len + 1, Len(queue[s])) \in Seq(Nat)
    BY <2>3, <2>4, Part, 1 \in Nat, 1 >= 1
  <2>6. CASE /\ Ring!Receive(s, len)
             /\ tx_data' = [tx_data EXCEPT ![s] = SubSeq(queue[s], 1, len)]
             /\ tx' = [at |-> "claim", slot |-> s, fd |-> tx.fd,
                       generation |-> tx.generation, len |-> len]
    <3>1. tx_data' \in [Slots -> Seq(Nat)] BY <2>1, <2>5, <2>6 DEF TypeOK
    <3>2. queue' \in [Slots -> Seq(Nat)] /\ sent' = sent /\ joined' = joined
      BY <2>1, <2>5, <2>6 DEF TypeOK, Ring!Receive
    <3> QED BY <2>1, <2>2, <2>4, <2>6, <3>1, <3>2 DEF TypeOK, seen
  <2>7. CASE tx' = NextSlot(s) /\ UNCHANGED <<stream, tx_data>>
    BY <2>1, <2>2, <2>7, NextSlotTyped DEF TypeOK, seen, stream
  <2> QED BY <1>2, <2>6, <2>7 DEF PopClient, len
<1>3. CASE Claim
  <2>1. tx.slot \in Slots /\ tx.fd \in Fds \cup {NoFd} /\ tx.generation \in Nat /\ tx.len \in Nat
    BY <1>3 DEF Claim, TypeOK
  <2>2. UNCHANGED <<stream, tx_data, work, httpd, since, delivered>> BY <1>3 DEF Claim
  <2>3. CASE /\ client' = [client EXCEPT ![tx.slot] =
                   [@ EXCEPT !.in_flight = TRUE, !.scheduled_fd = tx.fd,
                             !.scheduled_generation = tx.generation, !.tx_len = tx.len]]
             /\ tx' = [at |-> "queue", slot |-> tx.slot]
    <3>1. client' \in [Slots -> ClientType] BY <2>1, <2>3 DEF TypeOK, ClientType
    <3> QED BY <2>1, <2>2, <2>3, <3>1 DEF TypeOK, stream
  <2>4. CASE tx' = NextSlot(tx.slot) /\ client' = client
    BY <2>1, <2>2, <2>4, NextSlotTyped DEF TypeOK, stream
  <2> QED BY <1>3, <2>3, <2>4 DEF Claim
<1>4. CASE QueueWork
  <2>1. tx.slot \in Slots BY <1>4 DEF QueueWork, TypeOK
  <2>2. UNCHANGED <<stream, tx_data, httpd, since, delivered>> /\ tx' = NextSlot(tx.slot)
    BY <1>4 DEF QueueWork
  <2>3. CASE work' = Append(work, tx.slot) /\ client' = client
    <3>1. work' \in Seq(Slots \cup {Touch})
      <4>1. work \in Seq(Slots \cup {Touch}) BY DEF TypeOK
      <4> QED BY <2>1, <2>3, <4>1, AppendProperties
    <3> QED BY <2>1, <2>2, <2>3, <3>1, NextSlotTyped DEF TypeOK, stream
  <2>4. CASE DropFrame(tx.slot) /\ work' = work
    <3>1. client' \in [Slots -> ClientType]
      BY <2>1, <2>4 DEF DropFrame, TypeOK, ClientType, Unscheduled
    <3> QED BY <2>1, <2>2, <2>4, <3>1, NextSlotTyped DEF TypeOK, stream
  <2> QED BY <1>4, <2>3, <2>4 DEF QueueWork
<1>5. CASE LruTouch
  BY <1>5, WsAssumption DEF LruTouch, TypeOK, stream, seen
<1>6. CASE QueueTouch
  <2>1. work' \in Seq(Slots \cup {Touch})
    <3>1. work \in Seq(Slots \cup {Touch}) BY DEF TypeOK
    <3> QED BY <1>6, <3>1, AppendProperties DEF QueueTouch
  <2> QED BY <1>6, <2>1, WsAssumption DEF QueueTouch, TypeOK, stream, seen
<1> QED BY <1>1, <1>2, <1>3, <1>4, <1>5, <1>6 DEF TxStep

\* What a broadcast does to one queue: its end grows, and its front may go.
LEMMA Grown ==
    ASSUME TypeOK, NEW len \in 1..MaxChunk, Ring!Send(len), NEW s \in Slots
    PROVE  LET more == queue[s] \o [i \in 1..len |-> sent + i]
           IN  /\ len \in Nat /\ more \in Seq(Nat)
               /\ joined[s] => \E l \in Nat : l >= 1 /\ queue'[s] = SubSeq(more, l, Len(more))
               /\ ~joined[s] => queue'[s] = <<>>
<1> DEFINE t == [i \in 1..len |-> sent + i]
           more == queue[s] \o t
<1>1. len \in Nat /\ sent \in Nat /\ queue[s] \in Seq(Nat) BY WsAssumption, SMT DEF TypeOK
<1>2. t \in Seq(Nat) BY <1>1, Arriving, 0 \in Nat, 0 <= sent
<1> HIDE DEF t
<1>3. more \in Seq(Nat) /\ Len(more) \in Nat BY <1>1, <1>2, ConcatProperties, LenProperties
<1>4. queue'[s] = IF joined[s] THEN Ring!Newest(more) ELSE <<>> BY DEF Ring!Send, t
<1> HIDE DEF more
<1>5. Ring!Newest(more) = SubSeq(more, 1, Len(more))
      \/ /\ Len(more) - Capacity + 1 \in Nat /\ Len(more) - Capacity + 1 >= 1
         /\ Ring!Newest(more) = SubSeq(more, Len(more) - Capacity + 1, Len(more))
  <2>1. CASE Len(more) > Capacity
    <3>1. Len(more) - Capacity + 1 \in Nat /\ Len(more) - Capacity + 1 >= 1
      BY <1>3, <2>1, WsAssumption, SMT
    <3> QED BY <2>1, <3>1 DEF Ring!Newest
  <2>2. CASE ~(Len(more) > Capacity)
    <3>1. Ring!Newest(more) = more BY <2>2 DEF Ring!Newest
    <3>2. SubSeq(more, 1, Len(more)) = more BY <1>3, SMT
    <3> QED BY <3>1, <3>2
  <2> QED BY <2>1, <2>2
<1>6. joined[s] => \E l \in Nat : l >= 1 /\ queue'[s] = SubSeq(more, l, Len(more))
  BY <1>4, <1>5, 1 \in Nat, 1 >= 1
<1> QED BY <1>1, <1>3, <1>4, <1>6 DEF more, t

LEMMA TypedUsb ==
    ASSUME TypeOK, UsbReset \/ \E len \in 1..MaxChunk : UsbReceive(len)
    PROVE  TypeOK'
<1>1. CASE UsbReset
  BY <1>1, RingTyped DEF UsbReset, TypeOK, Ring!Discard
<1>2. ASSUME NEW len \in 1..MaxChunk, UsbReceive(len) PROVE TypeOK'
  <2>1. Ring!Send(len) /\ UNCHANGED <<client, tx_data, work, httpd, tx, seen>>
    BY <1>2 DEF UsbReceive
  <2>2. sent' \in Nat /\ joined' = joined
    <3>1. len \in Nat BY WsAssumption, SMT
    <3> QED BY <2>1, <3>1, SMT DEF Ring!Send, TypeOK
  <2>3. \A s \in Slots : queue'[s] \in Seq(Nat)
    <3> SUFFICES ASSUME NEW s \in Slots PROVE queue'[s] \in Seq(Nat)
      OBVIOUS
    <3> DEFINE more == queue[s] \o [i \in 1..len |-> sent + i]
    <3>1. /\ more \in Seq(Nat)
          /\ joined[s] => \E l \in Nat : l >= 1 /\ queue'[s] = SubSeq(more, l, Len(more))
          /\ ~joined[s] => queue'[s] = <<>>
      BY <2>1, Grown
    <3> HIDE DEF more
    <3>2. CASE joined[s]
      <4>1. PICK l \in Nat : l >= 1 /\ queue'[s] = SubSeq(more, l, Len(more)) BY <3>1, <3>2
      <4>2. Len(more) \in 0..Len(more) BY <3>1, LenProperties, SMT
      <4> DEFINE r == Len(more)
      <4> HIDE DEF r
      <4>3. r \in 0..Len(more) BY <4>2 DEF r
      <4>4. SubSeq(more, l, r) \in Seq(Nat) BY <3>1, <4>1, <4>3, Part
      <4> QED BY <4>1, <4>4 DEF r
    <3>3. CASE ~joined[s]
      BY <3>1, <3>3, EmptySeq
    <3> QED BY <3>2, <3>3
  <2>4. queue' \in [Slots -> Seq(Nat)]
    <3>1. queue' = [s \in Slots |-> queue'[s]] BY <2>1 DEF Ring!Send
    <3> QED BY <2>3, <3>1
  <2> QED BY <2>1, <2>2, <2>4 DEF TypeOK, seen
<1> QED BY <1>1, <1>2

-----------------------------------------------------------------------------
(* Who has a slot's frame, and what is true between the two tasks.          *)

Control == Frames /\ Popping /\ Subscribed /\ Captured /\ Lengths

\* Places of the httpd task outside the shared code.
Own == {"idle", "close", "prune", "finish", "send"}

\* The fields of a slot that giving it up leaves alone.
FrameKept(s) == /\ client'[s].in_flight = client[s].in_flight
                /\ client'[s].generation = client[s].generation
                /\ client'[s].tx_len = client[s].tx_len

LEMMA GivenUp ==
    ASSUME TypeOK, NEW fd, NEW place, Deactivate(fd, place)
    PROVE  /\ \A s \in Slots : FrameKept(s)
           /\ \/ client' = client /\ httpd' = place
              \/ \E s \in Slots :
                    /\ client[s].active /\ ~client'[s].active
                    /\ \A t \in Slots \ {s} : client'[t].active = client[t].active
                    /\ httpd' = [at |-> "leave", slot |-> s, next |-> place]
<1>1. CASE client' = client /\ httpd' = place
  BY <1>1 DEF FrameKept
<1>2. ASSUME NEW s \in Slots, client[s].active,
             client' = [client EXCEPT ![s] = [@ EXCEPT !.active = FALSE, !.fd = NoFd]],
             httpd' = [at |-> "leave", slot |-> s, next |-> place]
      PROVE  /\ \A t \in Slots : FrameKept(t)
             /\ client[s].active /\ ~client'[s].active
             /\ \A t \in Slots \ {s} : client'[t].active = client[t].active
             /\ httpd' = [at |-> "leave", slot |-> s, next |-> place]
  BY <1>2 DEF TypeOK, ClientType, FrameKept
<1>3. CASE \E s \in Slots :
              /\ client[s].active
              /\ client' = [client EXCEPT ![s] = [@ EXCEPT !.active = FALSE, !.fd = NoFd]]
              /\ httpd' = [at |-> "leave", slot |-> s, next |-> place]
  BY <1>2, <1>3
<1> QED
  <2>1. \/ client' = client /\ httpd' = place
        \/ \E s \in Slots :
              /\ client[s].active
              /\ client' = [client EXCEPT ![s] = [@ EXCEPT !.active = FALSE, !.fd = NoFd]]
              /\ httpd' = [at |-> "leave", slot |-> s, next |-> place]
    BY GivesUp
  <2> QED BY <1>1, <1>3, <2>1

\* What a slot's place depends on.
LEMMA DeactivateKeeps ==
    ASSUME TypeOK, Control, NEW fd, NEW place, Deactivate(fd, place), Resumes(place),
           httpd.at \in Own, UNCHANGED <<joined, capture, work, tx, tx_data>>,
           place.at = "finish" => Sending(place.slot)
    PROVE  Control'
<1>1. \A s \in Slots : FrameKept(s) BY GivenUp
<1>2. \/ client' = client /\ httpd' = place
      \/ \E s \in Slots :
            /\ client[s].active /\ ~client'[s].active
            /\ \A t \in Slots \ {s} : client'[t].active = client[t].active
            /\ httpd' = [at |-> "leave", slot |-> s, next |-> place]
  BY GivenUp
<1>3. \/ httpd' = place
      \/ httpd'.at = "leave" /\ httpd'.next = place
  BY <1>2
<1>4. ASSUME NEW s \in Slots
      PROVE  /\ WithTx(s)' = WithTx(s) /\ InWork(s)' = InWork(s)
             /\ ~Sending(s)' /\ (Ending(s)' => Sending(s))
  <2>1. WithTx(s)' = WithTx(s) /\ InWork(s)' = InWork(s) BY DEF WithTx, InWork
  <2>2. ~Sending(s)' BY <1>3 DEF Sending, Resumes
  <2>3. Ending(s)' => Sending(s) BY <1>3 DEF Ending, Resumes
  <2> QED BY <2>1, <2>2, <2>3
<1>5. Frames' BY <1>1, <1>4 DEF Control, Frames, FrameKept
<1>6. Popping' BY <1>1 DEF Control, Popping, FrameKept, TypeOK
<1>7. Subscribed'
  <2>1. CASE client' = client /\ httpd' = place
    BY <2>1 DEF Control, Subscribed, Resumes, Own
  <2>2. ASSUME NEW s \in Slots, ~client'[s].active,
               \A t \in Slots \ {s} : client'[t].active = client[t].active,
               httpd' = [at |-> "leave", slot |-> s, next |-> place]
        PROVE  Subscribed'
    BY <2>2 DEF Control, Subscribed, Own
  <2> QED BY <1>2, <2>1, <2>2
<1>8. Captured'
  <2>1. CASE client' = client /\ httpd' = place
    BY <2>1 DEF Control, Captured, Own
  <2>2. CASE httpd'.at = "leave"
    BY <2>2 DEF Captured
  <2> QED BY <1>2, <2>1, <2>2
<1>9. Lengths' BY <1>1, <1>4 DEF Control, Lengths, FrameKept
<1> QED BY <1>5, <1>6, <1>7, <1>8, <1>9 DEF Control

\* A step that leaves frames, lengths and ws_tx_task alone.
LEMMA FramesKept ==
    ASSUME TypeOK, Control, UNCHANGED <<client, work, tx, tx_data>>,
           \A s \in Slots : ~Sending(s)' /\ (Ending(s)' => Ending(s) \/ Sending(s))
    PROVE  Frames' /\ Popping' /\ Lengths'
<1>1. \A s \in Slots : WithTx(s)' = WithTx(s) /\ InWork(s)' = InWork(s) BY DEF WithTx, InWork
<1>2. Frames' BY <1>1 DEF Control, Frames
<1>3. Popping' BY DEF Control, Popping
<1>4. Lengths' BY <1>1 DEF Control, Lengths
<1> QED BY <1>2, <1>3, <1>4

LEMMA SharedSteps ==
    ASSUME TypeOK, Control, LeaveRing \/ JoinRing \/ ws_sync_usb_capture_state
    PROVE  Control'
<1>1. CASE LeaveRing
  <2>1. /\ httpd.at = "leave" /\ httpd' = [at |-> "sync", next |-> httpd.next]
        /\ joined' = [joined EXCEPT ![httpd.slot] = FALSE]
        /\ UNCHANGED <<client, tx_data, work, tx>>
    BY <1>1 DEF LeaveRing, Ring!Leave
  <2>2. \A s \in Slots : ~Sending(s)' /\ (Ending(s)' => Ending(s) \/ Sending(s))
    BY <2>1 DEF Sending, Ending
  <2>3. Frames' /\ Popping' /\ Lengths' BY <2>1, <2>2, FramesKept
  <2>4. Subscribed' BY <2>1 DEF Control, Subscribed, TypeOK, ClientType
  <2>5. Captured' BY <2>1 DEF Captured
  <2> QED BY <2>3, <2>4, <2>5 DEF Control
<1>2. CASE JoinRing
  <2>1. /\ httpd.at = "join" /\ httpd' = [at |-> "sync", next |-> httpd.next]
        /\ joined' = [joined EXCEPT ![httpd.slot] = TRUE]
        /\ UNCHANGED <<client, tx_data, work, tx>>
    BY <1>2 DEF JoinRing, Ring!Join
  <2>2. \A s \in Slots : ~Sending(s)' /\ (Ending(s)' => Ending(s) \/ Sending(s))
    BY <2>1 DEF Sending, Ending
  <2>4. Frames' /\ Popping' /\ Lengths' BY <2>1, <2>2, FramesKept
  <2>5. Subscribed' BY <2>1 DEF Control, Subscribed, TypeOK, ClientType
  <2>6. Captured' BY <2>1 DEF Captured
  <2> QED BY <2>4, <2>5, <2>6 DEF Control
<1>3. CASE ws_sync_usb_capture_state
  <2>1. /\ httpd.at = "sync" /\ httpd' = httpd.next
        /\ capture' = (ws_client_count > 0)
        /\ UNCHANGED <<client, tx_data, work, tx, joined>>
    BY <1>3 DEF ws_sync_usb_capture_state, stream
  <2>2. Resumes(httpd.next) BY <2>1 DEF TypeOK
  <2>3. \A s \in Slots : ~Sending(s)' /\ (Ending(s)' => Ending(s) \/ Sending(s))
    BY <2>1, <2>2 DEF Sending, Ending, Resumes
  <2>4. Frames' /\ Popping' /\ Lengths' BY <2>1, <2>3, FramesKept
  <2>5. Subscribed' BY <2>1, <2>2 DEF Control, Subscribed, Resumes
  <2>6. ws_client_count > 0 <=> \E s \in Slots : client[s].active
    <3> DEFINE a == {s \in Slots : client[s].active}
    <3>1. IsFiniteSet(a) BY WsAssumption, FS_Subset
    <3>2. Cardinality(a) \in Nat /\ (Cardinality(a) = 0 <=> a = {})
      BY <3>1, FS_CardinalityType, FS_EmptySet
    <3>3. Cardinality(a) > 0 <=> a # {}
      <4> HIDE DEF a
      <4> QED BY <3>2, SMT
    <3>4. ws_client_count = Cardinality(a) BY DEF ws_client_count
    <3>5. a # {} <=> \E s \in Slots : client[s].active OBVIOUS
    <3>6. ws_client_count > 0 <=> a # {} BY <3>3, <3>4, Zenon
    <3> QED BY <3>5, <3>6, Zenon
  <2>7. Captured'
    <3>0. (ws_client_count > 0) \in BOOLEAN OBVIOUS
    <3> DEFINE any == \E s \in Slots : client[s].active
    <3>1. CASE any
      <4>1. capture' = TRUE BY <2>1, <2>6, <3>0, <3>1, Zenon
      <4> QED BY <2>1, <3>1, <4>1 DEF Captured
    <3>2. CASE ~any
      <4>1. capture' = FALSE BY <2>1, <2>6, <3>0, <3>2, Zenon
      <4> QED BY <2>1, <3>2, <4>1 DEF Captured
    <3> QED BY <3>1, <3>2
  <2> QED BY <2>4, <2>5, <2>7 DEF Control
<1> QED BY <1>1, <1>2, <1>3

\* The httpd task opens, closes and prunes sessions.
LEMMA SessionSteps ==
    ASSUME TypeOK, Control, NEW fd \in Fds,
           \/ ws_on_connect(fd) \/ http_session_close(fd) \/ ws_handler_fails(fd)
           \/ PeerGone(fd) \/ CloseSocket \/ StartPrune \/ ws_prune_stale_clients
    PROVE  Control'
<1>0. Resumes(Idle) /\ Resumes([at |-> "close", fd |-> fd]) /\ Resumes([at |-> "prune"])
  BY DEF Resumes, Idle
<1>1. CASE ws_on_connect(fd)
  <2>1. ASSUME NEW s \in Slots, ~client[s].active, ~client[s].in_flight,
               client' = [client EXCEPT ![s] =
                  [@ EXCEPT !.fd = fd, !.active = TRUE, !.generation = NextGeneration(client[s]),
                            !.scheduled_fd = NoFd, !.scheduled_generation = 0, !.tx_len = 0]],
               httpd' = [at |-> "join", slot |-> s, next |-> Idle]
        PROVE  Control'
    <3>0. httpd.at = "idle" /\ UNCHANGED <<joined, capture, work, tx, tx_data>>
      BY <1>1 DEF ws_on_connect, stream
    <3>1. /\ client'[s].active /\ ~client'[s].in_flight
          /\ client'[s].generation = client[s].generation + 1
          /\ client[s].generation \in Nat
          /\ \A t \in Slots \ {s} : client'[t] = client[t]
      BY <2>1 DEF TypeOK, ClientType, NextGeneration
    <3>2. ~WithTx(s) /\ ~InWork(s) BY <2>1 DEF Control, Frames
    <3>3. ASSUME NEW t \in Slots
          PROVE  /\ WithTx(t)' = WithTx(t) /\ InWork(t)' = InWork(t)
                 /\ ~Sending(t)' /\ ~Ending(t)'
      BY <2>1, <3>0 DEF WithTx, InWork, Sending, Ending, Idle
    <3>4. Frames'
      <4>1. ASSUME NEW t \in Slots, WithTx(t) \/ InWork(t) PROVE client'[t].in_flight
        <5>1. t # s BY <3>2, <4>1
        <5> QED BY <3>1, <4>1, <5>1 DEF Control, Frames
      <4> QED BY <3>0, <3>3, <4>1 DEF Control, Frames
    <3>5. ASSUME tx.at \in {"pop", "claim"}
          PROVE  /\ ~client'[tx.slot].in_flight /\ tx.generation <= client'[tx.slot].generation
                 /\ tx.slot = s => tx.generation # client'[s].generation
      <4>1. /\ tx.slot \in Slots /\ tx.generation \in Nat /\ ~client[tx.slot].in_flight
            /\ tx.generation <= client[tx.slot].generation
        BY <3>5 DEF Control, Popping, TypeOK
      <4>2. CASE tx.slot = s BY <3>1, <4>1, <4>2, SMT
      <4>3. CASE tx.slot # s BY <3>1, <4>1, <4>3
      <4> QED BY <4>2, <4>3
    <3>6. Popping' BY <3>0, <3>5 DEF Popping
    <3>7. Subscribed'
      <4>1. ~joined[s] BY <2>1, <3>0 DEF Control, Subscribed, TypeOK
      <4> QED BY <2>1, <3>0, <3>1, <3>5, <4>1 DEF Control, Subscribed
    <3>8. Captured' BY <2>1 DEF Captured
    <3>9. Lengths'
      <4>1. ASSUME NEW t \in Slots, WithTx(t) \/ InWork(t)
            PROVE  client'[t].tx_len = Len(tx_data[t])
        <5>1. t # s BY <3>2, <4>1
        <5> QED BY <3>1, <4>1, <5>1 DEF Control, Lengths
      <4> QED BY <3>0, <3>3, <4>1 DEF Control, Lengths
    <3> QED BY <3>4, <3>6, <3>7, <3>8, <3>9 DEF Control
  <2>2. CASE client' = client /\ httpd' = httpd
    <3>1. UNCHANGED <<joined, capture, work, tx, tx_data>> BY <1>1 DEF ws_on_connect, stream
    <3>2. \A s \in Slots : ~Sending(s)' /\ (Ending(s)' => Ending(s) \/ Sending(s))
      BY <1>1, <2>2 DEF ws_on_connect, Sending, Ending
    <3>3. Frames' /\ Popping' /\ Lengths' BY <2>2, <3>1, <3>2, FramesKept
    <3> QED BY <2>2, <3>1, <3>3 DEF Control, Subscribed, Captured
  <2> QED BY <1>1, <2>1, <2>2 DEF ws_on_connect, FreeSlots
<1>2. CASE http_session_close(fd)
  <2>1. httpd.at \in Own /\ UNCHANGED <<joined, capture, work, tx, tx_data>>
    BY <1>2 DEF http_session_close, Own, stream
  <2> QED BY <1>0, <1>2, <2>1, DeactivateKeeps DEF http_session_close
<1>3. CASE ws_handler_fails(fd)
  <2>1. httpd.at \in Own /\ UNCHANGED <<joined, capture, work, tx, tx_data>>
    BY <1>3 DEF ws_handler_fails, Own, stream
  <2>2. Idle.at # "finish" BY DEF Idle
  <2> QED BY <1>0, <1>3, <2>1, <2>2, DeactivateKeeps DEF ws_handler_fails
<1>4. CASE PeerGone(fd)
  <2>1. UNCHANGED <<client, joined, capture, work, tx, tx_data, httpd>>
    BY <1>4 DEF PeerGone, stream
  <2>2. \A s \in Slots : WithTx(s)' = WithTx(s) /\ InWork(s)' = InWork(s)
                         /\ Sending(s)' = Sending(s) /\ Ending(s)' = Ending(s)
    BY <2>1 DEF WithTx, InWork, Sending, Ending
  <2>3. Frames' BY <2>1, <2>2 DEF Control, Frames
  <2>4. Popping' BY <2>1 DEF Control, Popping
  <2>5. Subscribed' BY <2>1 DEF Control, Subscribed
  <2>6. Captured' BY <2>1 DEF Control, Captured
  <2>7. Lengths' BY <2>1, <2>2 DEF Control, Lengths
  <2> QED BY <2>3, <2>4, <2>5, <2>6, <2>7 DEF Control
<1>5. ASSUME httpd.at \in {"close", "prune", "idle"}, httpd' = Idle \/ httpd'.at = "prune",
             UNCHANGED <<client, joined, capture, work, tx, tx_data>>
      PROVE  Control'
  <2>1. httpd'.at \in {"idle", "prune"} BY <1>5 DEF Idle
  <2>2. \A s \in Slots : ~Sending(s)' /\ (Ending(s)' => Ending(s) \/ Sending(s))
    BY <2>1 DEF Sending, Ending
  <2>3. Frames' /\ Popping' /\ Lengths' BY <1>5, <2>2, FramesKept
  <2>4. Subscribed' /\ Captured' BY <1>5, <2>1 DEF Control, Subscribed, Captured
  <2> QED BY <2>3, <2>4 DEF Control
<1>6. CASE CloseSocket BY <1>5, <1>6 DEF CloseSocket, stream
<1>7. CASE StartPrune BY <1>5, <1>7 DEF StartPrune, stream
<1>8. CASE ws_prune_stale_clients
  <2>1. /\ httpd.at = "prune" /\ httpd.at \in Own /\ Resumes(httpd)
        /\ UNCHANGED <<joined, capture, work, tx, tx_data>>
    BY <1>8 DEF ws_prune_stale_clients, Own, TypeOK, stream
  <2>2. \/ \E s \in Slots : Deactivate(client[s].fd, httpd)
        \/ httpd' = Idle /\ client' = client
    BY <1>8 DEF ws_prune_stale_clients
  <2>3. ASSUME NEW s \in Slots, Deactivate(client[s].fd, httpd) PROVE Control'
    BY <2>1, <2>3, DeactivateKeeps
  <2> QED BY <1>5, <2>1, <2>2, <2>3
<1> QED BY <1>1, <1>2, <1>3, <1>4, <1>6, <1>7, <1>8

\* The frame at the head of the work queue, and those behind it.
LEMMA Taken ==
    ASSUME TypeOK, work # <<>>, work' = Tail(work)
    PROVE  /\ \A s \in Slots : InWork(s)' <=> \E i \in 2..Len(work) : work[i] = s
           /\ Len(work') = Len(work) - 1 /\ Len(work) \in Nat \ {0}
           /\ \A i \in 1..Len(work') : i + 1 \in 2..Len(work) /\ work'[i] = work[i + 1]
<1>1. work \in Seq(Slots \cup {Touch}) BY DEF TypeOK
<1>2. Len(work) \in Nat /\ Len(work) # 0 BY <1>1, LenProperties, EmptySeq
<1>3. Len(work') = Len(work) - 1 /\ \A i \in 1..Len(work') : work'[i] = work[i + 1]
  BY <1>1, HeadTailProperties
<1>4. \A i \in 1..Len(work') : i + 1 \in 2..Len(work) BY <1>2, <1>3, SMT
<1>5. \A i \in 2..Len(work) : i - 1 \in 1..Len(work') /\ (i - 1) + 1 = i BY <1>2, <1>3, SMT
<1>6. ASSUME NEW s \in Slots PROVE InWork(s)' <=> \E i \in 2..Len(work) : work[i] = s
  <2>1. ASSUME NEW i \in 1..Len(work'), work'[i] = s PROVE \E j \in 2..Len(work) : work[j] = s
    BY <1>3, <1>4, <2>1
  <2>2. ASSUME NEW i \in 2..Len(work), work[i] = s PROVE \E j \in 1..Len(work') : work'[j] = s
    BY <1>3, <1>5, <2>2
  <2> QED BY <2>1, <2>2 DEF InWork
<1> QED BY <1>2, <1>3, <1>4, <1>6

\* The httpd task takes a frame from the queue, sends it and ends it.
LEMMA StartSendKeeps ==
    ASSUME TypeOK, Control, StartSend
    PROVE  Control'
<1>0. Head(work) \in Slots
  BY HeadTailProperties DEF StartSend, TypeOK
<1>00. PICK s \in Slots : s = Head(work) BY <1>0
<1>1. /\ httpd.at = "idle" /\ work # <<>> /\ s # Touch /\ work' = Tail(work)
      /\ httpd'.at = "send" /\ httpd'.slot = s /\ httpd'.len = client[s].tx_len
      /\ UNCHANGED <<client, joined, capture, tx, tx_data>>
  BY <1>00 DEF StartSend, stream
<1>2. work \in Seq(Slots \cup {Touch}) /\ s = work[1]
  BY <1>00, <1>1, HeadTailProperties DEF TypeOK
<1>3. /\ \A t \in Slots : InWork(t)' <=> \E i \in 2..Len(work) : work[i] = t
      /\ Len(work') = Len(work) - 1 /\ Len(work) \in Nat \ {0}
      /\ \A i \in 1..Len(work') : i + 1 \in 2..Len(work) /\ work'[i] = work[i + 1]
  BY <1>1, Taken
<1>4. 1 \in 1..Len(work) /\ \A i \in 2..Len(work) : i \in 1..Len(work) /\ i # 1
  BY <1>3, SMT
<1>5. InWork(s) /\ ~InWork(s)'
  <2>1. InWork(s) BY <1>2, <1>4 DEF InWork
  <2>2. ASSUME NEW i \in 2..Len(work), work[i] = s PROVE FALSE
    <3>1. \A a, b \in 1..Len(work) : work[a] = s /\ work[b] = s => a = b
      BY <1>2 DEF Control, Frames
    <3> QED BY <1>2, <1>4, <2>2, <3>1
  <2> QED BY <1>2, <1>3, <2>1, <2>2
<1>6. ASSUME NEW t \in Slots
      PROVE  /\ WithTx(t)' = WithTx(t) /\ (InWork(t)' => InWork(t))
             /\ Sending(t)' <=> t = s
             /\ ~Ending(t)'
  BY <1>1, <1>3, <1>4 DEF WithTx, InWork, Sending, Ending
<1>7. Frames'
  <2>1. ASSUME NEW t \in Slots, NEW i \in 1..Len(work'), NEW j \in 1..Len(work'),
               work'[i] = t, work'[j] = t
        PROVE  i = j
    <3>1. i + 1 \in 1..Len(work) /\ j + 1 \in 1..Len(work) /\ work[i + 1] = t /\ work[j + 1] = t
      BY <1>3, <1>4, <2>1
    <3>2. i + 1 = j + 1 BY <3>1 DEF Control, Frames
    <3> QED BY <3>2, SMT
  <2>2. ASSUME NEW t \in Slots
        PROVE  /\ WithTx(t)' \/ InWork(t)' \/ Sending(t)' \/ Ending(t)' => client'[t].in_flight
               /\ InWork(t)' => ~WithTx(t)' /\ ~Sending(t)' /\ ~Ending(t)'
               /\ WithTx(t)' => ~Sending(t)' /\ ~Ending(t)'
    <3>1. /\ WithTx(t) \/ InWork(t) => client[t].in_flight
          /\ InWork(t) => ~WithTx(t)
      BY DEF Control, Frames
    <3>2. CASE t = s BY <1>1, <1>5, <1>6, <3>1, <3>2
    <3>3. CASE t # s BY <1>1, <1>6, <3>1, <3>3
    <3> QED BY <3>2, <3>3
  <2> QED BY <2>1, <2>2 DEF Frames
<1>8. Popping' BY <1>1 DEF Control, Popping
<1>9. Subscribed' BY <1>1 DEF Control, Subscribed
<1>10. Captured' BY <1>1 DEF Control, Captured
<1>11. Lengths' BY <1>1, <1>2, <1>5, <1>6 DEF Control, Lengths
<1> QED BY <1>7, <1>8, <1>9, <1>10, <1>11 DEF Control

LEMMA TouchKeeps ==
    ASSUME TypeOK, Control, ws_lru_touch_work
    PROVE  Control'
<1>1. /\ work # <<>> /\ work' = Tail(work)
      /\ UNCHANGED <<client, joined, capture, httpd, tx, tx_data>>
  BY DEF ws_lru_touch_work, stream
<1>2. /\ \A t \in Slots : InWork(t)' <=> \E i \in 2..Len(work) : work[i] = t
      /\ Len(work') = Len(work) - 1 /\ Len(work) \in Nat \ {0}
      /\ \A i \in 1..Len(work') : i + 1 \in 2..Len(work) /\ work'[i] = work[i + 1]
  BY <1>1, Taken
<1>3. \A i \in 2..Len(work) : i \in 1..Len(work) BY <1>2, SMT
<1>4. ASSUME NEW t \in Slots
      PROVE  /\ WithTx(t)' = WithTx(t) /\ (InWork(t)' => InWork(t))
             /\ Sending(t)' = Sending(t) /\ Ending(t)' = Ending(t)
  BY <1>1, <1>2, <1>3 DEF WithTx, InWork, Sending, Ending
<1>5. Frames'
  <2>1. ASSUME NEW t \in Slots, NEW i \in 1..Len(work'), NEW j \in 1..Len(work'),
               work'[i] = t, work'[j] = t
        PROVE  i = j
    <3>1. i + 1 \in 1..Len(work) /\ j + 1 \in 1..Len(work) /\ work[i + 1] = t /\ work[j + 1] = t
      BY <1>2, <1>3, <2>1
    <3>2. i + 1 = j + 1 BY <3>1 DEF Control, Frames
    <3> QED BY <3>2, SMT
  <2> QED BY <1>1, <1>4, <2>1 DEF Control, Frames
<1>6. Popping' BY <1>1 DEF Control, Popping
<1>7. Subscribed' BY <1>1 DEF Control, Subscribed
<1>8. Captured' BY <1>1 DEF Control, Captured
<1>9. Lengths' BY <1>1, <1>4 DEF Control, Lengths
<1> QED BY <1>5, <1>6, <1>7, <1>8, <1>9 DEF Control

LEMMA SendFrameKeeps ==
    ASSUME TypeOK, Control, SendFrame
    PROVE  Control'
<1> DEFINE place == [at |-> "finish", slot |-> httpd.slot]
<1>1. /\ httpd.at = "send" /\ httpd.slot \in Slots
      /\ UNCHANGED <<joined, capture, work, tx, tx_data>>
  BY DEF SendFrame, stream, TypeOK
<1>2. Resumes(place) /\ Sending(httpd.slot) /\ httpd.at \in Own
  BY <1>1 DEF Resumes, Sending, Own
<1>3. Deactivate(httpd.fd, place) \/ (httpd' = place /\ client' = client)
  BY DEF SendFrame
<1>4. CASE Deactivate(httpd.fd, place)
  BY <1>1, <1>2, <1>4, DeactivateKeeps
<1>5. CASE httpd' = place /\ client' = client
  <2>1. \A s \in Slots : ~Sending(s)' /\ (Ending(s)' => Ending(s) \/ Sending(s))
    BY <1>1, <1>5 DEF Sending, Ending
  <2>2. Frames' /\ Popping' /\ Lengths' BY <1>1, <1>5, <2>1, FramesKept
  <2>3. Subscribed' BY <1>1, <1>5 DEF Control, Subscribed
  <2>4. Captured' BY <1>1, <1>5 DEF Control, Captured
  <2> QED BY <2>2, <2>3, <2>4 DEF Control
<1> QED BY <1>3, <1>4, <1>5

LEMMA FinishSendKeeps ==
    ASSUME TypeOK, Control, FinishSend
    PROVE  Control'
<1> DEFINE s == httpd.slot
<1>1. /\ httpd.at = "finish" /\ httpd' = Idle /\ s \in Slots
      /\ client' = [client EXCEPT ![s] = Unscheduled(@)]
      /\ UNCHANGED <<joined, capture, work, tx, tx_data>>
  BY DEF FinishSend, stream, TypeOK, Resumes
<1>2. /\ ~client'[s].in_flight /\ client'[s].active = client[s].active
      /\ client'[s].generation = client[s].generation
      /\ \A t \in Slots \ {s} : client'[t] = client[t]
  BY <1>1 DEF TypeOK, ClientType, Unscheduled
<1>3. ASSUME NEW t \in Slots
      PROVE  /\ WithTx(t)' = WithTx(t) /\ InWork(t)' = InWork(t)
             /\ ~Sending(t)' /\ ~Ending(t)'
             /\ WithTx(t) \/ InWork(t) => t # s
  BY <1>1 DEF WithTx, InWork, Sending, Ending, Idle, Control, Frames
<1> HIDE DEF s
<1>4. Frames' BY <1>1, <1>2, <1>3 DEF Control, Frames
<1>5. Popping' BY <1>1, <1>2 DEF Control, Popping, TypeOK
<1>6. Subscribed' BY <1>1, <1>2 DEF Control, Subscribed, Idle
<1>7. Captured'
  <2>1. \A t \in Slots : client'[t].active = client[t].active BY <1>2
  <2> QED BY <1>1, <2>1 DEF Control, Captured
<1>8. Lengths' BY <1>1, <1>2, <1>3 DEF Control, Lengths
<1> QED BY <1>4, <1>5, <1>6, <1>7, <1>8 DEF Control

\* A step of ws_tx_task that has no frame after it and leaves the slots alone.
LEMMA TxAside ==
    ASSUME TypeOK, Control, UNCHANGED <<client, joined, capture, httpd, tx_data, work>>,
           \A s \in Slots : WithTx(s)' = WithTx(s), tx'.at # "claim",
           tx'.at = "pop" => ~client[tx'.slot].in_flight
                               /\ tx'.generation <= client[tx'.slot].generation
    PROVE  Control'
<1>1. \A s \in Slots : InWork(s)' = InWork(s) /\ Sending(s)' = Sending(s)
                       /\ Ending(s)' = Ending(s)
  BY DEF InWork, Sending, Ending
<1>2. Frames' BY <1>1 DEF Control, Frames
<1>3. Popping' BY DEF Popping
<1>4. Subscribed' BY DEF Control, Subscribed
<1>5. Captured' BY DEF Control, Captured
<1>6. Lengths' BY <1>1 DEF Control, Lengths
<1> QED BY <1>2, <1>3, <1>4, <1>5, <1>6 DEF Control

\* The bytes popped lie in the slot's buffer.
LEMMA Popped ==
    ASSUME TypeOK, NEW s \in Slots
    PROVE  LET len == IF Len(queue[s]) < MaxPop THEN Len(queue[s]) ELSE MaxPop
           IN  /\ len \in 0..Len(queue[s]) /\ len <= MaxPop
               /\ Len(SubSeq(queue[s], 1, len)) = len
<1> DEFINE len == IF Len(queue[s]) < MaxPop THEN Len(queue[s]) ELSE MaxPop
<1>1. queue[s] \in Seq(Nat) /\ Len(queue[s]) \in Nat BY LenProperties DEF TypeOK
<1>2. len \in 0..Len(queue[s]) /\ len <= MaxPop BY <1>1, WsAssumption, SMT
<1> HIDE DEF len
<1>3. Len(SubSeq(queue[s], 1, len)) = IF 1 <= len THEN len - 1 + 1 ELSE 0
  BY <1>1, <1>2, Part, 1 \in Nat, 1 >= 1
<1>4. Len(SubSeq(queue[s], 1, len)) = len BY <1>1, <1>2, <1>3, SMT
<1> QED BY <1>2, <1>4 DEF len

LEMMA TxKeeps ==
    ASSUME TypeOK, Control, Scan \/ PopClient \/ Claim
    PROVE  Control'
<1>1. CASE Scan
  <2>1. UNCHANGED <<client, joined, capture, httpd, tx_data, work>> /\ tx.slot \in Slots
    BY <1>1 DEF Scan, stream, TypeOK
  <2>2. \/ tx'.at \in {"scan", "lru"}
        \/ /\ tx'.at = "pop" /\ tx'.slot = tx.slot /\ ~client[tx.slot].in_flight
           /\ tx'.generation = client[tx.slot].generation
    BY <1>1, <2>1, NextSlotTyped DEF Scan
  <2>3. \A s \in Slots : WithTx(s)' = WithTx(s) BY <1>1, <2>2 DEF Scan, WithTx
  <2>4. client[tx.slot].generation \in Nat BY <2>1 DEF TypeOK, ClientType
  <2>5. client[tx.slot].generation <= client[tx.slot].generation BY <2>4, SMT
  <2> QED BY <2>1, <2>2, <2>3, <2>5, TxAside
<1>2. CASE PopClient
  <2>1. tx.slot \in Slots BY <1>2 DEF PopClient, TypeOK
  <2>2. PICK s \in Slots : s = tx.slot BY <2>1
  <2>3. PICK len : len = IF Len(queue[s]) < MaxPop THEN Len(queue[s]) ELSE MaxPop OBVIOUS
  <2>4. tx.at = "pop" /\ UNCHANGED <<client, capture, work, httpd>> BY <1>2 DEF PopClient
  <2>5. CASE tx' = NextSlot(s) /\ UNCHANGED <<stream, tx_data>>
    <3>1. tx'.at \in {"scan", "lru"} BY <2>5, NextSlotTyped
    <3>2. \A t \in Slots : WithTx(t)' = WithTx(t) BY <2>4, <3>1 DEF WithTx
    <3> QED BY <2>4, <2>5, <3>1, <3>2, TxAside DEF stream
  <2>6. CASE /\ joined[s]
             /\ Ring!Receive(s, len)
             /\ tx_data' = [tx_data EXCEPT ![s] = SubSeq(queue[s], 1, len)]
             /\ tx' = [at |-> "claim", slot |-> s, fd |-> tx.fd,
                       generation |-> tx.generation, len |-> len]
    <3>1. joined' = joined BY <2>6 DEF Ring!Receive
    <3>2. \A t \in Slots : /\ WithTx(t)' = WithTx(t) /\ InWork(t)' = InWork(t)
                           /\ Sending(t)' = Sending(t) /\ Ending(t)' = Ending(t)
      BY <2>4, <2>6 DEF WithTx, InWork, Sending, Ending
    <3>3. ~client[s].in_flight /\ tx.generation <= client[s].generation
      BY <2>2, <2>4 DEF Control, Popping
    <3>4. Frames' BY <2>4, <3>2 DEF Control, Frames
    <3>5. Popping' BY <2>4, <2>6, <3>3 DEF Popping
    <3>6. Subscribed' BY <2>4, <2>6, <3>1 DEF Control, Subscribed
    <3>7. Captured' BY <2>4 DEF Control, Captured
    <3>8. Lengths'
      <4>1. Len(SubSeq(queue[s], 1, len)) = len /\ len <= MaxPop BY <2>3, Popped
      <4>3. tx_data'[s] = SubSeq(queue[s], 1, len) BY <2>6 DEF TypeOK
      <4>4. ASSUME NEW t \in Slots, WithTx(t) \/ InWork(t) \/ Sending(t)
            PROVE  tx_data'[t] = tx_data[t]
        <5>1. t # s BY <3>3, <4>4 DEF Control, Frames
        <5> QED BY <2>6, <5>1 DEF TypeOK
      <4> QED BY <2>4, <2>6, <3>2, <4>1, <4>3, <4>4 DEF Control, Lengths
    <3> QED BY <3>4, <3>5, <3>6, <3>7, <3>8 DEF Control
  <2> QED BY <1>2, <2>2, <2>3, <2>5, <2>6 DEF PopClient
<1>3. CASE Claim
  <2>1. tx.slot \in Slots BY <1>3 DEF Claim, TypeOK
  <2>2. PICK s \in Slots : s = tx.slot BY <2>1
  <2>3. tx.at = "claim" /\ UNCHANGED <<joined, capture, work, httpd, tx_data>>
    BY <1>3 DEF Claim, stream
  <2>4. CASE tx' = NextSlot(s) /\ client' = client
    <3>1. tx'.at \in {"scan", "lru"} BY <2>4, NextSlotTyped
    <3>2. \A t \in Slots : WithTx(t)' = WithTx(t) BY <2>3, <3>1 DEF WithTx
    <3> QED BY <2>3, <2>4, <3>1, <3>2, TxAside
  <2>5. CASE /\ QueuedOwner(client[s])
             /\ client' = [client EXCEPT ![s] =
                   [@ EXCEPT !.in_flight = TRUE, !.scheduled_fd = tx.fd,
                             !.scheduled_generation = tx.generation, !.tx_len = tx.len]]
             /\ tx' = [at |-> "queue", slot |-> s]
    <3>1. /\ client'[s].in_flight /\ client'[s].active = client[s].active
          /\ client'[s].tx_len = tx.len /\ \A t \in Slots \ {s} : client'[t] = client[t]
      BY <2>5 DEF TypeOK, ClientType
    <3>2. \A t \in Slots : /\ WithTx(t)' <=> t = s
                           /\ ~WithTx(t)
                           /\ InWork(t)' = InWork(t)
                           /\ Sending(t)' = Sending(t) /\ Ending(t)' = Ending(t)
      BY <2>3, <2>5 DEF WithTx, InWork, Sending, Ending
    <3>3. ~client[s].in_flight BY <2>2, <2>3 DEF Control, Popping
    <3>4. ~InWork(s) /\ ~Sending(s) /\ ~Ending(s) BY <3>3 DEF Control, Frames
    <3>5. Frames'
      <4>1. \A t \in Slots : client[t].in_flight => client'[t].in_flight BY <3>1
      <4> QED BY <2>3, <3>1, <3>2, <3>4, <4>1 DEF Control, Frames
    <3>6. Popping' BY <2>5 DEF Popping
    <3>7. Subscribed'
      <4>1. httpd.at = "join" => httpd.slot # s
        BY <2>2, <2>3, <2>5 DEF Control, Subscribed, QueuedOwner
      <4>2. \A t \in Slots : client'[t].active = client[t].active BY <3>1
      <4>3. httpd.at \in {"join", "leave"} => httpd.slot \in Slots BY DEF TypeOK
      <4> QED BY <2>3, <2>5, <3>1, <4>1, <4>2, <4>3 DEF Control, Subscribed
    <3>8. Captured'
      <4>1. \A t \in Slots : client'[t].active = client[t].active BY <3>1
      <4> QED BY <2>3, <4>1 DEF Control, Captured
    <3>9. Lengths'
      <4>1. tx.len = Len(tx_data[s]) BY <2>2, <2>3 DEF Control, Lengths
      <4> QED BY <2>3, <2>5, <3>1, <3>2, <3>4, <4>1 DEF Control, Lengths
    <3> QED BY <3>5, <3>6, <3>7, <3>8, <3>9 DEF Control
  <2> QED BY <1>3, <2>2, <2>4, <2>5 DEF Claim
<1> QED BY <1>1, <1>2, <1>3

\* What is appended to the work queue comes after what was there.
LEMMA Appended ==
    ASSUME TypeOK, NEW e \in Slots \cup {Touch}, work' = Append(work, e)
    PROVE  /\ Len(work) \in Nat /\ Len(work') = Len(work) + 1
           /\ \A i \in 1..Len(work) : i \in 1..Len(work') /\ work'[i] = work[i]
           /\ work'[Len(work) + 1] = e
           /\ \A i \in 1..Len(work') : i \in 1..Len(work) \/ i = Len(work) + 1
           /\ \A s \in Slots : InWork(s)' <=> (InWork(s) \/ e = s)
<1>1. work \in Seq(Slots \cup {Touch}) BY DEF TypeOK
<1>2. Len(work) \in Nat BY <1>1, LenProperties
<1>3. /\ Len(work') = Len(work) + 1 /\ work'[Len(work) + 1] = e
      /\ \A i \in 1..Len(work) : work'[i] = work[i]
  BY <1>1, AppendProperties
<1>4. /\ \A i \in 1..Len(work) : i \in 1..Len(work')
      /\ \A i \in 1..Len(work') : i \in 1..Len(work) \/ i = Len(work) + 1
      /\ Len(work) + 1 \in 1..Len(work')
  BY <1>2, <1>3, SMT
<1>5. ASSUME NEW s \in Slots PROVE InWork(s)' <=> (InWork(s) \/ e = s)
  <2>1. InWork(s)' => InWork(s) \/ e = s BY <1>3, <1>4 DEF InWork
  <2>2. InWork(s) => InWork(s)' BY <1>3, <1>4 DEF InWork
  <2>3. e = s => InWork(s)' BY <1>3, <1>4 DEF InWork
  <2> QED BY <2>1, <2>2, <2>3
<1> QED BY <1>2, <1>3, <1>4, <1>5

LEMMA QueueKeeps ==
    ASSUME TypeOK, Control, QueueWork \/ LruTouch \/ QueueTouch
    PROVE  Control'
<1>1. CASE QueueWork
  <2>1. tx.slot \in Slots BY <1>1 DEF QueueWork, TypeOK
  <2>2. PICK s \in Slots : s = tx.slot BY <2>1
  <2>3. /\ tx.at = "queue" /\ tx' = NextSlot(s)
        /\ UNCHANGED <<joined, capture, httpd, tx_data>>
    BY <1>1, <2>2 DEF QueueWork, stream
  <2>4. tx'.at \in {"scan", "lru"} BY <2>3, NextSlotTyped
  <2>5. \A t \in Slots : (WithTx(t) <=> t = s) /\ ~WithTx(t)'
    BY <2>2, <2>3, <2>4 DEF WithTx
  <2>6. \A t \in Slots : Sending(t)' = Sending(t) /\ Ending(t)' = Ending(t)
    BY <2>3 DEF Sending, Ending
  <2>7. client[s].in_flight /\ ~InWork(s) /\ ~Sending(s) /\ ~Ending(s)
    BY <2>5 DEF Control, Frames
  <2>8. CASE work' = Append(work, s) /\ client' = client
    <3>1. /\ Len(work) \in Nat /\ Len(work') = Len(work) + 1
          /\ \A i \in 1..Len(work) : i \in 1..Len(work') /\ work'[i] = work[i]
          /\ work'[Len(work) + 1] = s
          /\ \A i \in 1..Len(work') : i \in 1..Len(work) \/ i = Len(work) + 1
          /\ \A t \in Slots : InWork(t)' <=> (InWork(t) \/ s = t)
      BY <2>8, Appended
    <3>2. ASSUME NEW t \in Slots, NEW i \in 1..Len(work'), NEW j \in 1..Len(work'),
                 work'[i] = t, work'[j] = t
          PROVE  i = j
      <4>1. CASE i \in 1..Len(work) /\ j \in 1..Len(work)
        BY <3>1, <3>2, <4>1 DEF Control, Frames
      <4>2. CASE i = Len(work) + 1 /\ j \in 1..Len(work)
        BY <2>7, <3>1, <3>2, <4>2 DEF InWork
      <4>3. CASE j = Len(work) + 1 /\ i \in 1..Len(work)
        BY <2>7, <3>1, <3>2, <4>3 DEF InWork
      <4>4. CASE i = Len(work) + 1 /\ j = Len(work) + 1
        BY <4>4
      <4> QED BY <3>1, <4>1, <4>2, <4>3, <4>4
    <3>3. Frames' BY <2>5, <2>6, <2>7, <2>8, <3>1, <3>2 DEF Control, Frames
    <3>4. Popping' BY <2>4 DEF Popping
    <3>5. Subscribed' BY <2>3, <2>4, <2>8 DEF Control, Subscribed
    <3>6. Captured' BY <2>3, <2>8 DEF Control, Captured
    <3>7. Lengths'
      <4>1. client[s].tx_len = Len(tx_data[s]) BY <2>5 DEF Control, Lengths
      <4> QED BY <2>3, <2>4, <2>5, <2>6, <2>8, <3>1, <4>1 DEF Control, Lengths
    <3> QED BY <3>3, <3>4, <3>5, <3>6, <3>7 DEF Control
  <2>9. CASE DropFrame(s) /\ work' = work
    <3>1. /\ ~client'[s].in_flight /\ client'[s].active = client[s].active
          /\ \A t \in Slots \ {s} : client'[t] = client[t]
      BY <2>9 DEF DropFrame, Unscheduled, TypeOK, ClientType
    <3>2. \A t \in Slots : InWork(t)' = InWork(t) BY <2>9 DEF InWork
    <3>3. Frames' BY <2>5, <2>6, <2>7, <2>9, <3>1, <3>2 DEF Control, Frames
    <3>4. Popping' BY <2>4 DEF Popping
    <3>5. \A t \in Slots : client'[t].active = client[t].active BY <3>1
    <3>6. Subscribed'
      <4>1. httpd.at \in {"join", "leave"} => httpd.slot \in Slots BY DEF TypeOK
      <4> QED BY <2>3, <2>4, <3>1, <3>5, <4>1 DEF Control, Subscribed
    <3>7. Captured' BY <2>3, <3>5 DEF Control, Captured
    <3>8. Lengths' BY <2>3, <2>4, <2>5, <2>6, <2>7, <3>1, <3>2 DEF Control, Lengths
    <3> QED BY <3>3, <3>4, <3>6, <3>7, <3>8 DEF Control
  <2> QED BY <1>1, <2>2, <2>8, <2>9 DEF QueueWork
<1>2. CASE LruTouch
  <2>1. /\ UNCHANGED <<client, joined, capture, httpd, tx_data, work>>
        /\ tx.at = "lru" /\ tx'.at \in {"scan", "touch"}
    BY <1>2 DEF LruTouch, stream
  <2>2. \A s \in Slots : WithTx(s)' = WithTx(s) BY <2>1 DEF WithTx
  <2> QED BY <2>1, <2>2, TxAside
<1>3. CASE QueueTouch
  <2>1. /\ UNCHANGED <<client, joined, capture, httpd, tx_data>>
        /\ tx.at = "touch" /\ tx'.at = "scan"
        /\ work' = work \/ work' = Append(work, Touch)
    BY <1>3 DEF QueueTouch, stream
  <2>2. \A s \in Slots : WithTx(s)' = WithTx(s) /\ Sending(s)' = Sending(s)
                         /\ Ending(s)' = Ending(s)
    BY <2>1 DEF WithTx, Sending, Ending
  <2>3. CASE work' = work BY <2>1, <2>2, <2>3, TxAside
  <2>4. CASE work' = Append(work, Touch)
    <3>1. /\ \A i \in 1..Len(work) : i \in 1..Len(work') /\ work'[i] = work[i]
          /\ work'[Len(work) + 1] = Touch
          /\ \A i \in 1..Len(work') : i \in 1..Len(work) \/ i = Len(work) + 1
          /\ \A t \in Slots : InWork(t)' <=> (InWork(t) \/ Touch = t)
      BY <2>4, Appended
    <3>2. \A t \in Slots : (InWork(t)' <=> InWork(t)) /\ t # Touch BY <3>1, WsAssumption
    <3>3. ASSUME NEW t \in Slots, NEW i \in 1..Len(work'), NEW j \in 1..Len(work'),
                 work'[i] = t, work'[j] = t
          PROVE  i = j
      BY <3>1, <3>2, <3>3 DEF Control, Frames
    <3>4. Frames' BY <2>1, <2>2, <3>2, <3>3 DEF Control, Frames
    <3>5. Popping' BY <2>1 DEF Popping
    <3>6. Subscribed' BY <2>1 DEF Control, Subscribed
    <3>7. Captured' BY <2>1 DEF Control, Captured
    <3>8. Lengths' BY <2>1, <2>2, <3>2 DEF Control, Lengths
    <3> QED BY <3>4, <3>5, <3>6, <3>7, <3>8 DEF Control
  <2> QED BY <2>1, <2>3, <2>4
<1> QED BY <1>1, <1>2, <1>3

\* The USB side does not touch slots, frames and subscriptions.
LEMMA Beside ==
    ASSUME Control, UNCHANGED <<client, joined, capture, httpd, tx, tx_data, work>>
    PROVE  Control'
<1>1. \A s \in Slots : /\ WithTx(s)' = WithTx(s) /\ InWork(s)' = InWork(s)
                       /\ Sending(s)' = Sending(s) /\ Ending(s)' = Ending(s)
  BY DEF WithTx, InWork, Sending, Ending
<1>2. Frames' BY <1>1 DEF Control, Frames
<1>3. Popping' BY DEF Control, Popping
<1>4. Subscribed' BY DEF Control, Subscribed
<1>5. Captured' BY DEF Control, Captured
<1>6. Lengths' BY <1>1 DEF Control, Lengths
<1> QED BY <1>2, <1>3, <1>4, <1>5, <1>6 DEF Control

-----------------------------------------------------------------------------
(* The order of the bytes, slot by slot.                                    *)

\* A step that leaves a slot's bytes where they are.
LEMMA StaysInOrder ==
    ASSUME Ordered, NEW s \in Slots, Served(s)' => Served(s), Pending(s)' => Pending(s),
           sent' = sent, since'[s] = since[s], queue'[s] = queue[s],
           delivered'[s] = delivered[s], tx_data'[s] = tx_data[s]
    PROVE  Served(s)' => InOrder(s)'
<1> SUFFICES ASSUME Served(s)' PROVE InOrder(s)'
  OBVIOUS
<1>1. InOrder(s) BY DEF Ordered
<1>2. Pending(s)' => FrameInOrder(s)'
  BY <1>1 DEF InOrder, FrameInOrder, Rising, Above, UpTo, Before
<1> QED BY <1>1, <1>2 DEF InOrder, Rising, Above, UpTo, Before

\* A slot without a frame has nothing pending, as long as nothing popped waits for it.
LEMMA NothingPending ==
    ASSUME Control, NEW s \in Slots, ~client[s].in_flight,
           ~(tx.at = "claim" /\ tx.slot = s /\ tx.generation = client[s].generation)
    PROVE  ~Pending(s)
BY DEF Control, Frames, Pending

LEMMA OrderedSharedSteps ==
    ASSUME TypeOK, Control, Ordered, LeaveRing \/ JoinRing \/ ws_sync_usb_capture_state
    PROVE  Ordered'
<1>1. CASE LeaveRing
  <2> SUFFICES ASSUME NEW s \in Slots PROVE Served(s)' => InOrder(s)'
    BY DEF Ordered
  <2>1. /\ httpd.at = "leave" /\ httpd'.at = "sync" /\ sent' = sent
        /\ joined' = [joined EXCEPT ![httpd.slot] = FALSE]
        /\ queue' = [queue EXCEPT ![httpd.slot] = <<>>]
        /\ UNCHANGED <<client, tx_data, work, tx, since, delivered>>
    BY <1>1 DEF LeaveRing, Ring!Leave, seen
  <2>2. CASE s = httpd.slot BY <2>1, <2>2 DEF Served, TypeOK
  <2>3. CASE s # httpd.slot
    <3>1. queue'[s] = queue[s] /\ joined'[s] = joined[s] BY <2>1, <2>3 DEF TypeOK
    <3>2. Pending(s)' => Pending(s) BY <2>1 DEF Pending, WithTx, InWork, Sending
    <3>3. Served(s)' => Served(s) BY <2>1, <3>1 DEF Served
    <3> QED BY <2>1, <3>1, <3>2, <3>3, StaysInOrder
  <2> QED BY <2>2, <2>3
<1>2. CASE JoinRing
  <2> SUFFICES ASSUME NEW s \in Slots PROVE Served(s)' => InOrder(s)'
    BY DEF Ordered
  <2>1. /\ httpd.at = "join" /\ httpd'.at = "sync" /\ sent' = sent
        /\ joined' = [joined EXCEPT ![httpd.slot] = TRUE]
        /\ queue' = [queue EXCEPT ![httpd.slot] = <<>>]
        /\ since' = [since EXCEPT ![httpd.slot] = sent]
        /\ delivered' = [delivered EXCEPT ![httpd.slot] = <<>>]
        /\ UNCHANGED <<client, tx_data, work, tx>>
    BY <1>2 DEF JoinRing, Ring!Join
  <2>2. Pending(s)' => Pending(s) BY <2>1 DEF Pending, WithTx, InWork, Sending
  <2>3. CASE s = httpd.slot
    <3>1. ~Pending(s) BY <2>1, <2>3, NothingPending DEF Control, Subscribed
    <3>2. queue'[s] = <<>> /\ delivered'[s] = <<>> /\ since'[s] = sent
      BY <2>1, <2>3 DEF TypeOK
    <3>3. sent <= sent
      <4>1. sent \in Nat BY DEF TypeOK
      <4> QED BY <4>1, SMT
    <3> QED BY <2>1, <2>2, <3>1, <3>2, <3>3 DEF InOrder, Rising, Above, UpTo, Before
  <2>4. CASE s # httpd.slot
    <3>1. /\ queue'[s] = queue[s] /\ joined'[s] = joined[s]
          /\ delivered'[s] = delivered[s] /\ since'[s] = since[s]
      BY <2>1, <2>4 DEF TypeOK
    <3>2. Served(s)' => Served(s) BY <2>1, <3>1 DEF Served
    <3> QED BY <2>1, <2>2, <3>1, <3>2, StaysInOrder
  <2> QED BY <2>3, <2>4
<1>3. CASE ws_sync_usb_capture_state
  <2> SUFFICES ASSUME NEW s \in Slots PROVE Served(s)' => InOrder(s)'
    BY DEF Ordered
  <2>1. /\ httpd.at = "sync" /\ httpd' = httpd.next /\ Resumes(httpd.next)
        /\ UNCHANGED <<sent, joined, queue, client, tx_data, work, tx, since, delivered>>
    BY <1>3 DEF ws_sync_usb_capture_state, TypeOK, stream, seen
  <2>2. Pending(s)' => Pending(s) BY <2>1 DEF Pending, WithTx, InWork, Sending, Resumes
  <2>3. Served(s)' => Served(s) BY <2>1 DEF Served
  <2> QED BY <2>1, <2>2, <2>3, StaysInOrder
<1> QED BY <1>1, <1>2, <1>3

\* A slot given up serves nobody, the others go on.
LEMMA OrderedDeactivate ==
    ASSUME TypeOK, Ordered, NEW fd, NEW place, Deactivate(fd, place), Resumes(place),
           UNCHANGED <<sent, queue, joined, work, tx, tx_data, since, delivered>>
    PROVE  Ordered'
<1> SUFFICES ASSUME NEW s \in Slots PROVE Served(s)' => InOrder(s)'
  BY DEF Ordered
<1>1. client'[s].generation = client[s].generation BY GivenUp DEF FrameKept
<1>2. client'[s].active => client[s].active BY GivenUp
<1>3. httpd'.at # "send" BY GivenUp DEF Resumes
<1>4. Served(s)' => Served(s) BY <1>2 DEF Served
<1>5. Pending(s)' => Pending(s) BY <1>1, <1>3 DEF Pending, WithTx, InWork, Sending
<1> QED BY <1>4, <1>5, StaysInOrder

LEMMA OrderedSessionSteps ==
    ASSUME TypeOK, Control, Ordered, NEW fd \in Fds,
           \/ ws_on_connect(fd) \/ http_session_close(fd) \/ ws_handler_fails(fd)
           \/ PeerGone(fd) \/ CloseSocket \/ StartPrune \/ ws_prune_stale_clients
    PROVE  Ordered'
<1>0. Resumes(Idle) /\ Resumes([at |-> "close", fd |-> fd]) /\ Resumes([at |-> "prune"])
  BY DEF Resumes, Idle
<1>1. UNCHANGED <<sent, queue, joined, work, tx, tx_data, since, delivered>>
  BY DEF ws_on_connect, http_session_close, ws_handler_fails, PeerGone, CloseSocket,
         StartPrune, ws_prune_stale_clients, stream, seen
<1>2. ASSUME client' = client, httpd' = httpd \/ httpd'.at # "send" PROVE Ordered'
  <2> SUFFICES ASSUME NEW s \in Slots PROVE Served(s)' => InOrder(s)'
    BY DEF Ordered
  <2>1. Pending(s)' => Pending(s) BY <1>1, <1>2 DEF Pending, WithTx, InWork, Sending
  <2>2. Served(s)' => Served(s) BY <1>1, <1>2 DEF Served
  <2> QED BY <1>1, <2>1, <2>2, StaysInOrder
<1>3. CASE ws_on_connect(fd)
  <2>1. ASSUME NEW t \in Slots, ~client[t].active, httpd.at = "idle",
               \A u \in Slots \ {t} : client'[u] = client[u], httpd'.at = "join"
        PROVE  Ordered'
    <3> SUFFICES ASSUME NEW s \in Slots PROVE Served(s)' => InOrder(s)'
      BY DEF Ordered
    <3>1. CASE s = t
      <4>1. ~joined[s] BY <2>1, <3>1 DEF Control, Subscribed, TypeOK
      <4> QED BY <1>1, <4>1 DEF Served
    <3>2. CASE s # t
      <4>1. client'[s] = client[s] BY <2>1, <3>2
      <4>2. Pending(s)' => Pending(s) BY <1>1, <2>1, <4>1 DEF Pending, WithTx, InWork, Sending
      <4>3. Served(s)' => Served(s) BY <1>1, <4>1 DEF Served
      <4> QED BY <1>1, <4>2, <4>3, StaysInOrder
    <3> QED BY <3>1, <3>2
  <2>2. ASSUME NEW t \in Slots, ~client[t].active,
               client' = [client EXCEPT ![t] =
                  [@ EXCEPT !.fd = fd, !.active = TRUE, !.generation = NextGeneration(client[t]),
                            !.scheduled_fd = NoFd, !.scheduled_generation = 0, !.tx_len = 0]],
               httpd' = [at |-> "join", slot |-> t, next |-> Idle]
        PROVE  Ordered'
    <3>1. httpd.at = "idle" BY <1>3 DEF ws_on_connect
    <3>2. \A u \in Slots \ {t} : client'[u] = client[u] BY <2>2 DEF TypeOK
    <3> QED BY <2>1, <2>2, <3>1, <3>2
  <2> QED BY <1>2, <1>3, <2>2 DEF ws_on_connect, FreeSlots
<1>4. CASE http_session_close(fd)
  BY <1>0, <1>1, <1>4, OrderedDeactivate DEF http_session_close
<1>5. CASE ws_handler_fails(fd)
  BY <1>0, <1>1, <1>5, OrderedDeactivate DEF ws_handler_fails
<1>6. CASE PeerGone(fd) BY <1>2, <1>6 DEF PeerGone
<1>7. CASE CloseSocket BY <1>2, <1>7 DEF CloseSocket, Idle
<1>8. CASE StartPrune BY <1>2, <1>8 DEF StartPrune
<1>9. CASE ws_prune_stale_clients
  <2>1. Resumes(httpd) BY <1>9 DEF ws_prune_stale_clients, TypeOK
  <2>2. \/ \E s \in Slots : Deactivate(client[s].fd, httpd)
        \/ httpd' = Idle /\ client' = client
    BY <1>9 DEF ws_prune_stale_clients
  <2>3. ASSUME NEW s \in Slots, Deactivate(client[s].fd, httpd) PROVE Ordered'
    BY <1>1, <2>1, <2>3, OrderedDeactivate
  <2>4. Idle.at # "send" BY DEF Idle
  <2> QED BY <1>2, <2>2, <2>3, <2>4
<1> QED BY <1>3, <1>4, <1>5, <1>6, <1>7, <1>8, <1>9

\* Bytes sent come after all that were delivered, and before all that wait.
LEMMA OrderedSend ==
    ASSUME TypeOK, Control, Ordered, SendFrame
    PROVE  Ordered'
<1> DEFINE place == [at |-> "finish", slot |-> httpd.slot]
<1>1. /\ httpd.at = "send" /\ httpd.slot \in Slots /\ httpd.len \in Nat
      /\ UNCHANGED <<sent, queue, joined, work, tx, tx_data, since>>
  BY DEF SendFrame, stream, TypeOK
<1>2. PICK s \in Slots : s = httpd.slot BY <1>1
<1>3. Sending(s) BY <1>1, <1>2 DEF Sending
<1>4. CASE /\ delivered' = [delivered EXCEPT ![s] = @ \o SubSeq(tx_data[s], 1, httpd.len)]
           /\ httpd' = place /\ client' = client
  <2> SUFFICES ASSUME NEW t \in Slots PROVE Served(t)' => InOrder(t)'
    BY DEF Ordered
  <2>1. Served(t)' => Served(t) BY <1>1, <1>4 DEF Served
  <2>2. Pending(t)' => Pending(t) BY <1>1, <1>4 DEF Pending, WithTx, InWork, Sending
  <2>3. CASE t # s
    <3>1. delivered'[t] = delivered[t] BY <1>4, <2>3 DEF TypeOK
    <3> QED BY <1>1, <2>1, <2>2, <3>1, StaysInOrder
  <2>4. CASE t = s /\ Served(s)
    <3> DEFINE part == SubSeq(tx_data[s], 1, httpd.len)
    <3>1. delivered'[s] = delivered[s] \o part BY <1>4 DEF TypeOK
    <3>2. ~Pending(s)'
      <4>1. client[s].in_flight BY <1>3 DEF Control, Frames
      <4>2. ~InWork(s) /\ ~WithTx(s) BY <1>3 DEF Control, Frames
      <4>3. ~(tx.at = "claim" /\ tx.slot = s) BY <4>1 DEF Control, Popping
      <4> QED BY <1>1, <1>4, <4>2, <4>3 DEF Pending, WithTx, InWork, Sending
    <3>3. InOrder(s) /\ FrameInOrder(s) BY <1>3, <2>4 DEF Ordered, InOrder, Pending
    <3>4. /\ delivered[s] \in Seq(Nat) /\ tx_data[s] \in Seq(Nat) /\ queue[s] \in Seq(Nat)
          /\ since[s] \in Nat /\ sent \in Nat
      BY DEF TypeOK
    <3>5. httpd.len \in 0..Len(tx_data[s])
      <4>1. httpd.len <= Len(tx_data[s]) BY <1>3 DEF Control, Lengths
      <4>2. Len(tx_data[s]) \in Nat BY <3>4, LenProperties
      <4> QED BY <1>1, <4>1, <4>2, SMT
    <3>6. /\ part \in Seq(Nat) /\ Rising(part) /\ Above(part, since[s])
          /\ Before(part, queue[s]) /\ Before(delivered[s], part)
      BY <3>3, <3>4, <3>5, Part, 1 \in Nat, 1 >= 1 DEF FrameInOrder
    <3>7. UpTo(part, sent)
      BY <3>3, <3>4, <3>5, Part, 1 \in Nat, 1 >= 1 DEF FrameInOrder
    <3> HIDE DEF part
    <3>8. /\ Rising(delivered[s] \o part) /\ Above(delivered[s] \o part, since[s])
          /\ Before(delivered[s] \o part, queue[s])
      BY <3>3, <3>4, <3>6, Together DEF InOrder
    <3>9. UpTo(delivered[s] \o part, sent)
      BY <3>3, <3>4, <3>6, <3>7, Together DEF InOrder
    <3>10. /\ since'[s] = since[s] /\ sent' = sent /\ queue'[s] = queue[s] BY <1>1
    <3>11. /\ Rising(delivered[s])' /\ Above(delivered[s], since[s])'
           /\ UpTo(delivered[s], sent)' /\ Before(delivered[s], queue[s])'
      BY <3>1, <3>8, <3>9, <3>10 DEF Rising, Above, UpTo, Before
    <3>12. /\ (since[s] <= sent)' /\ Rising(queue[s])' /\ Above(queue[s], since[s])'
           /\ UpTo(queue[s], sent)'
      BY <3>3, <3>10 DEF InOrder, Rising, Above, UpTo
    <3> QED BY <2>4, <3>2, <3>11, <3>12 DEF InOrder
  <2> QED BY <2>1, <2>3, <2>4
<1>5. ASSUME delivered' = delivered, Deactivate(httpd.fd, place) PROVE Ordered'
  <2>1. Resumes(place) BY <1>1 DEF Resumes
  <2> QED BY <1>1, <1>5, <2>1, OrderedDeactivate
<1>6. CASE delivered' = delivered /\ client' = client /\ httpd' = place
  <2> SUFFICES ASSUME NEW t \in Slots PROVE Served(t)' => InOrder(t)'
    BY DEF Ordered
  <2>1. Served(t)' => Served(t) BY <1>1, <1>6 DEF Served
  <2>2. Pending(t)' => Pending(t) BY <1>1, <1>6 DEF Pending, WithTx, InWork, Sending
  <2> QED BY <1>1, <1>6, <2>1, <2>2, StaysInOrder
<1> QED BY <1>2, <1>4, <1>5, <1>6 DEF SendFrame

LEMMA OrderedWork ==
    ASSUME TypeOK, Control, Ordered, StartSend \/ ws_lru_touch_work \/ FinishSend
    PROVE  Ordered'
<1> SUFFICES ASSUME NEW s \in Slots PROVE Served(s)' => InOrder(s)'
  BY DEF Ordered
<1>1. UNCHANGED <<sent, queue, joined, tx, tx_data, since, delivered>>
  BY DEF StartSend, ws_lru_touch_work, FinishSend, stream, seen
<1>2. ASSUME work # <<>>, work' = Tail(work) PROVE InWork(s)' => InWork(s)
  <2>1. /\ InWork(s)' <=> \E i \in 2..Len(work) : work[i] = s
        /\ Len(work) \in Nat
    BY <1>2, Taken
  <2>2. \A i \in 2..Len(work) : i \in 1..Len(work) BY <2>1, SMT
  <2> QED BY <2>1, <2>2 DEF InWork
<1>3. CASE StartSend
  <2>1. /\ work # <<>> /\ work' = Tail(work) /\ client' = client
        /\ httpd'.slot = Head(work)
    BY <1>3 DEF StartSend
  <2>2. httpd'.slot = s => InWork(s)
    <3>1. work \in Seq(Slots \cup {Touch}) BY DEF TypeOK
    <3>2. Head(work) = work[1] /\ 1 \in 1..Len(work)
      <4>1. Len(work) \in Nat /\ Len(work) # 0 BY <2>1, <3>1, LenProperties, EmptySeq
      <4>2. 1 \in 1..Len(work) BY <4>1, SMT
      <4> QED BY <2>1, <3>1, <4>2, HeadTailProperties
    <3> QED BY <2>1, <3>2 DEF InWork
  <2>3. Pending(s)' => Pending(s)
    BY <1>1, <1>2, <2>1, <2>2 DEF Pending, WithTx, Sending
  <2>4. Served(s)' => Served(s) BY <1>1, <2>1 DEF Served
  <2> QED BY <1>1, <2>3, <2>4, StaysInOrder
<1>4. CASE ws_lru_touch_work
  <2>1. work # <<>> /\ work' = Tail(work) /\ client' = client /\ httpd' = httpd
    BY <1>4 DEF ws_lru_touch_work
  <2>2. Pending(s)' => Pending(s) BY <1>1, <1>2, <2>1 DEF Pending, WithTx, Sending
  <2>3. Served(s)' => Served(s) BY <1>1, <2>1 DEF Served
  <2> QED BY <1>1, <2>2, <2>3, StaysInOrder
<1>5. CASE FinishSend
  <2>1. /\ work' = work /\ httpd'.at = "idle"
        /\ client' = [client EXCEPT ![httpd.slot] = Unscheduled(@)]
    BY <1>5 DEF FinishSend, Idle
  <2>2. client'[s].active = client[s].active /\ client'[s].generation = client[s].generation
    BY <2>1 DEF TypeOK, ClientType, Unscheduled
  <2>3. Pending(s)' => Pending(s) BY <1>1, <2>1, <2>2 DEF Pending, WithTx, InWork, Sending
  <2>4. Served(s)' => Served(s) BY <1>1, <2>2 DEF Served
  <2> QED BY <1>1, <2>3, <2>4, StaysInOrder
<1> QED BY <1>3, <1>4, <1>5

\* What was popped comes before what still waits.
LEMMA OrderedPop ==
    ASSUME TypeOK, Control, Ordered, PopClient
    PROVE  Ordered'
<1>1. tx.slot \in Slots BY DEF PopClient, TypeOK
<1>2. PICK s \in Slots : s = tx.slot BY <1>1
<1>3. PICK len : len = IF Len(queue[s]) < MaxPop THEN Len(queue[s]) ELSE MaxPop OBVIOUS
<1>4. tx.at = "pop" /\ UNCHANGED <<client, work, httpd, since, delivered>>
  BY DEF PopClient, seen
<1> SUFFICES ASSUME NEW t \in Slots PROVE Served(t)' => InOrder(t)'
  BY DEF Ordered
<1>5. CASE tx' = NextSlot(s) /\ UNCHANGED <<stream, tx_data>>
  <2>1. tx'.at \in {"scan", "lru"} BY <1>5, NextSlotTyped
  <2>2. Pending(t)' => Pending(t) BY <1>4, <2>1 DEF Pending, WithTx, InWork, Sending
  <2>3. Served(t)' => Served(t) BY <1>4, <1>5 DEF Served, stream
  <2> QED BY <1>4, <1>5, <2>2, <2>3, StaysInOrder DEF stream
<1>6. CASE /\ Ring!Receive(s, len)
           /\ tx_data' = [tx_data EXCEPT ![s] = SubSeq(queue[s], 1, len)]
           /\ tx' = [at |-> "claim", slot |-> s, fd |-> tx.fd,
                     generation |-> tx.generation, len |-> len]
  <2> DEFINE front == SubSeq(queue[s], 1, len)
             rest == SubSeq(queue[s], len + 1, Len(queue[s]))
  <2>1. sent' = sent /\ joined' = joined /\ queue' = [queue EXCEPT ![s] = rest]
    BY <1>6 DEF Ring!Receive
  <2>2. Served(t)' => Served(t) BY <1>4, <2>1 DEF Served
  <2>3. CASE t # s
    <3>1. queue'[t] = queue[t] /\ tx_data'[t] = tx_data[t] BY <1>6, <2>1, <2>3 DEF TypeOK
    <3>2. Pending(t)' => Pending(t)
      BY <1>4, <1>6, <2>3 DEF Pending, WithTx, InWork, Sending
    <3> QED BY <1>4, <2>1, <2>2, <3>1, <3>2, StaysInOrder
  <2>4. CASE t = s /\ Served(s)
    <3>1. /\ queue[s] \in Seq(Nat) /\ delivered[s] \in Seq(Nat)
          /\ since[s] \in Nat /\ sent \in Nat
      BY DEF TypeOK
    <3>2. Len(queue[s]) \in Nat /\ len \in 0..Len(queue[s]) BY <1>3, <3>1, Popped, LenProperties
    <3>3. len + 1 \in Nat /\ len + 1 >= 1 /\ Len(queue[s]) \in 0..Len(queue[s])
      BY <3>2, SMT
    <3>4. InOrder(s) BY <2>4 DEF Ordered
    <3>5. /\ front \in Seq(Nat) /\ Rising(front) /\ Above(front, since[s])
          /\ Before(delivered[s], front)
      BY <3>1, <3>2, <3>4, Part, 1 \in Nat, 1 >= 1 DEF InOrder
    <3>6. UpTo(front, sent) BY <3>1, <3>2, <3>4, Part, 1 \in Nat, 1 >= 1 DEF InOrder
    <3>7. /\ rest \in Seq(Nat) /\ Rising(rest) /\ Above(rest, since[s])
          /\ Before(delivered[s], rest)
      BY <3>1, <3>3, <3>4, Part DEF InOrder
    <3>8. UpTo(rest, sent) BY <3>1, <3>3, <3>4, Part DEF InOrder
    <3>9. Before(front, rest) BY <3>1, <3>2, <3>4, FrontBeforeRest DEF InOrder
    <3>10. /\ queue'[s] = rest /\ tx_data'[s] = front BY <1>6, <2>1 DEF TypeOK
    <3> HIDE DEF front, rest
    <3>11. FrameInOrder(s)'
      BY <1>4, <2>1, <3>5, <3>6, <3>9, <3>10
         DEF FrameInOrder, Rising, Above, UpTo, Before
    <3>12. /\ Rising(queue[s])' /\ Above(queue[s], since[s])' /\ UpTo(queue[s], sent)'
           /\ Before(delivered[s], queue[s])'
      BY <1>4, <2>1, <3>7, <3>8, <3>10 DEF Rising, Above, UpTo, Before
    <3>13. /\ (since[s] <= sent)' /\ Rising(delivered[s])' /\ Above(delivered[s], since[s])'
           /\ UpTo(delivered[s], sent)'
      BY <1>4, <2>1, <3>4 DEF InOrder, Rising, Above, UpTo
    <3> QED BY <2>4, <3>11, <3>12, <3>13 DEF InOrder
  <2> QED BY <2>2, <2>3, <2>4
<1> QED BY <1>2, <1>3, <1>5, <1>6 DEF PopClient

LEMMA OrderedTx ==
    ASSUME TypeOK, Control, Ordered, TxStep
    PROVE  Ordered'
<1>1. ASSUME ~PopClient PROVE Ordered'
  <2> SUFFICES ASSUME NEW s \in Slots PROVE Served(s)' => InOrder(s)'
    BY DEF Ordered
  <2>1. UNCHANGED <<sent, queue, joined, httpd, tx_data, since, delivered>>
    BY <1>1 DEF TxStep, Scan, Claim, QueueWork, LruTouch, QueueTouch, stream, seen
  <2>2. CASE Scan
    <3>1. client' = client /\ work' = work BY <2>2 DEF Scan
    <3>2. tx'.at \in {"scan", "pop", "lru"}
      <4>1. tx.slot \in Slots BY <2>2 DEF Scan, TypeOK
      <4> QED BY <2>2, <4>1, NextSlotTyped DEF Scan
    <3>3. Pending(s)' => Pending(s) BY <2>1, <3>1, <3>2 DEF Pending, WithTx, InWork, Sending
    <3>4. Served(s)' => Served(s) BY <2>1, <3>1 DEF Served
    <3> QED BY <2>1, <3>3, <3>4, StaysInOrder
  <2>3. CASE Claim
    <3>1. tx.at = "claim" /\ tx.slot \in Slots /\ work' = work BY <2>3 DEF Claim, TypeOK
    <3>2. client'[s].active = client[s].active /\ client'[s].generation = client[s].generation
      <4>1. CASE client' = client BY <4>1
      <4>2. CASE client' = [client EXCEPT ![tx.slot] =
                   [@ EXCEPT !.in_flight = TRUE, !.scheduled_fd = tx.fd,
                             !.scheduled_generation = tx.generation, !.tx_len = tx.len]]
        <5>1. CASE s = tx.slot BY <4>2, <5>1 DEF TypeOK, ClientType
        <5>2. CASE s # tx.slot BY <4>2, <5>2 DEF TypeOK
        <5> QED BY <5>1, <5>2
      <4> QED BY <2>3, <4>1, <4>2 DEF Claim
    <3>3. \/ tx'.at \in {"scan", "lru"}
          \/ /\ tx' = [at |-> "queue", slot |-> tx.slot]
             /\ client[tx.slot].generation = tx.generation
      BY <2>3, <3>1, NextSlotTyped DEF Claim, QueuedOwner
    <3>4. Pending(s)' => Pending(s)
      BY <2>1, <3>1, <3>3 DEF Pending, WithTx, InWork, Sending
    <3>5. Served(s)' => Served(s) BY <2>1, <3>2 DEF Served
    <3> QED BY <2>1, <3>4, <3>5, StaysInOrder
  <2>4. CASE QueueWork
    <3>1. tx.at = "queue" /\ tx.slot \in Slots /\ tx' = NextSlot(tx.slot)
      BY <2>4 DEF QueueWork, TypeOK
    <3>2. client'[s].active = client[s].active /\ client'[s].generation = client[s].generation
      <4>1. CASE client' = client BY <4>1
      <4>2. CASE client' = [client EXCEPT ![tx.slot] = Unscheduled(@)]
        <5>1. CASE s = tx.slot BY <4>2, <5>1 DEF TypeOK, ClientType, Unscheduled
        <5>2. CASE s # tx.slot BY <4>2, <5>2 DEF TypeOK
        <5> QED BY <5>1, <5>2
      <4> QED BY <2>4, <4>1, <4>2 DEF QueueWork, DropFrame
    <3>3. tx'.at \in {"scan", "lru"} BY <3>1, NextSlotTyped
    <3>4. InWork(s)' => InWork(s) \/ WithTx(s)
      <4>1. CASE work' = work BY <4>1 DEF InWork
      <4>2. CASE work' = Append(work, tx.slot) BY <3>1, <4>2, Appended DEF WithTx
      <4> QED BY <2>4, <4>1, <4>2 DEF QueueWork
    <3>5. Pending(s)' => Pending(s) BY <2>1, <3>3, <3>4 DEF Pending, WithTx, Sending
    <3>6. Served(s)' => Served(s) BY <2>1, <3>2 DEF Served
    <3> QED BY <2>1, <3>5, <3>6, StaysInOrder
  <2>5. CASE LruTouch \/ QueueTouch
    <3>1. client' = client /\ tx'.at \in {"scan", "touch"}
          /\ (work' = work \/ work' = Append(work, Touch))
      BY <2>5 DEF LruTouch, QueueTouch
    <3>2. InWork(s)' => InWork(s)
      <4>1. CASE work' = work BY <4>1 DEF InWork
      <4>2. CASE work' = Append(work, Touch) BY <4>2, Appended, WsAssumption
      <4> QED BY <3>1, <4>1, <4>2
    <3>3. Pending(s)' => Pending(s) BY <2>1, <3>1, <3>2 DEF Pending, WithTx, Sending
    <3>4. Served(s)' => Served(s) BY <2>1, <3>1 DEF Served
    <3> QED BY <2>1, <3>3, <3>4, StaysInOrder
  <2> QED BY <1>1, <2>2, <2>3, <2>4, <2>5 DEF TxStep
<1> QED BY <1>1, OrderedPop

\* New bytes come after all the others; what a full ring drops is its oldest.
LEMMA OrderedReceive ==
    ASSUME TypeOK, Ordered, NEW len \in 1..MaxChunk, UsbReceive(len)
    PROVE  Ordered'
<1>1. /\ Ring!Send(len) /\ joined' = joined /\ sent' = sent + len
      /\ UNCHANGED <<client, tx_data, work, httpd, tx, since, delivered>>
  BY DEF UsbReceive, Ring!Send, seen
<1> SUFFICES ASSUME NEW s \in Slots, Served(s)' PROVE InOrder(s)'
  BY DEF Ordered
<1>2. Served(s) BY <1>1 DEF Served
<1>3. InOrder(s) BY <1>2 DEF Ordered
<1>4. Pending(s)' => Pending(s) BY <1>1 DEF Pending, WithTx, InWork, Sending
<1>5. PICK n \in Nat : n = sent BY DEF TypeOK
<1>6. PICK new : new = [i \in 1..len |-> n + i] OBVIOUS
<1>7. PICK more : more = queue[s] \o new OBVIOUS
<1>8. /\ len \in Nat /\ more \in Seq(Nat)
      /\ joined[s] => \E l \in Nat : l >= 1 /\ queue'[s] = SubSeq(more, l, Len(more))
  BY <1>1, <1>5, <1>6, <1>7, Grown
<1>9. PICK l \in Nat : l >= 1 /\ queue'[s] = SubSeq(more, l, Len(more))
  BY <1>2, <1>8 DEF Served
<1>10. /\ queue[s] \in Seq(Nat) /\ delivered[s] \in Seq(Nat) /\ tx_data[s] \in Seq(Nat)
       /\ since[s] \in Nat /\ since[s] <= n /\ n + len \in Nat
  BY <1>3, <1>5, <1>8 DEF TypeOK, InOrder
<1>11. \A a \in Seq(Nat) : /\ new \in Seq(Nat) /\ Rising(new) /\ Above(new, since[s])
                           /\ UpTo(new, n + len)
                           /\ UpTo(a, n) => Before(a, new) /\ UpTo(a, n + len)
  BY <1>6, <1>8, <1>10, Arriving
<1>12. /\ Before(queue[s], new) /\ Before(delivered[s], new)
       /\ UpTo(queue[s], n + len) /\ UpTo(delivered[s], n + len)
  BY <1>3, <1>5, <1>10, <1>11 DEF InOrder
<1>13. /\ Rising(more) /\ Above(more, since[s]) /\ Before(delivered[s], more)
  BY <1>3, <1>7, <1>10, <1>11, <1>12, Together DEF InOrder
<1>14. UpTo(more, n + len) BY <1>7, <1>10, <1>11, <1>12, Together
<1>15. PICK r \in 0..Len(more) : queue'[s] = SubSeq(more, l, r)
  <2>1. Len(more) \in Nat BY <1>8, LenProperties
  <2>2. Len(more) \in 0..Len(more) BY <2>1, SMT
  <2> QED BY <1>9, <2>2
<1>16. /\ Rising(queue'[s]) /\ Above(queue'[s], since[s]) /\ Before(delivered[s], queue'[s])
  BY <1>8, <1>9, <1>10, <1>13, <1>15, Part
<1>17. UpTo(queue'[s], n + len) BY <1>8, <1>9, <1>10, <1>14, <1>15, Part
<1>18. sent' = n + len BY <1>1, <1>5
<1>19. Pending(s)' => FrameInOrder(s)'
  <2> SUFFICES ASSUME Pending(s) PROVE FrameInOrder(s)'
    BY <1>4
  <2>1. FrameInOrder(s) BY <1>3 DEF InOrder
  <2>2. Before(tx_data[s], new) /\ UpTo(tx_data[s], n + len)
    BY <1>5, <1>10, <1>11, <2>1 DEF FrameInOrder
  <2>3. Before(tx_data[s], more) BY <1>7, <1>10, <1>11, <2>1, <2>2, Together DEF FrameInOrder
  <2>4. Before(tx_data[s], queue'[s])
    <3>1. \A c \in Seq(Nat) : Before(c, more) => Before(c, SubSeq(more, l, r))
      BY <1>8, <1>9, <1>10, <1>15, Part
    <3> QED BY <1>10, <1>15, <2>3, <3>1
  <2>5. Rising(tx_data[s])' /\ Above(tx_data[s], since[s])' /\ Before(delivered[s], tx_data[s])'
    BY <1>1, <2>1 DEF FrameInOrder, Rising, Above, Before
  <2>6. UpTo(tx_data[s], sent)' /\ Before(tx_data[s], queue[s])'
    BY <1>1, <1>18, <2>2, <2>4 DEF UpTo, Before
  <2> QED BY <2>5, <2>6 DEF FrameInOrder
<1>20. (since[s] <= sent)'
  <2>1. since'[s] = since[s] BY <1>1
  <2> QED BY <1>8, <1>10, <1>18, <2>1, SMT
<1>21. Rising(delivered[s])' /\ Above(delivered[s], since[s])' /\ UpTo(delivered[s], sent)'
  BY <1>1, <1>3, <1>12, <1>18 DEF InOrder, Rising, Above, UpTo
<1>22. /\ Rising(queue[s])' /\ Above(queue[s], since[s])' /\ UpTo(queue[s], sent)'
       /\ Before(delivered[s], queue[s])'
  BY <1>1, <1>16, <1>17, <1>18 DEF Rising, Above, UpTo, Before
<1> QED BY <1>19, <1>20, <1>21, <1>22 DEF InOrder

LEMMA OrderedReset ==
    ASSUME Ordered, UsbReset
    PROVE  Ordered'
<1>1. /\ sent' = sent /\ queue' = [s \in Slots |-> <<>>] /\ joined' = joined
      /\ UNCHANGED <<client, tx_data, work, httpd, tx, since, delivered>>
  BY DEF UsbReset, Ring!Discard
<1> SUFFICES ASSUME NEW s \in Slots, Served(s)' PROVE InOrder(s)'
  BY DEF Ordered
<1>2. InOrder(s) BY <1>1 DEF Ordered, Served
<1>3. Pending(s)' => Pending(s) BY <1>1 DEF Pending, WithTx, InWork, Sending
<1>4. queue'[s] = <<>> BY <1>1
<1>5. FrameInOrder(s) => FrameInOrder(s)'
  BY <1>1, <1>4 DEF FrameInOrder, Rising, Above, UpTo, Before
<1> QED BY <1>1, <1>2, <1>3, <1>4, <1>5 DEF InOrder, Rising, Above, UpTo, Before

-----------------------------------------------------------------------------
(* The invariant.                                                           *)

LEMMA InitInvariant == Init => IInv
<1> SUFFICES ASSUME Init PROVE IInv
  OBVIOUS
<1>1. TypeOK BY InitTyped
<1>2. /\ httpd.at = "idle" /\ tx.at = "scan" /\ work = <<>> /\ capture = FALSE
      /\ joined = [s \in Slots |-> FALSE] /\ client = [s \in Slots |-> FreeClient]
  BY DEF Init, Idle, Ring!Init
<1>3. \A s \in Slots : /\ client[s].active = FALSE /\ ~client[s].in_flight
                       /\ joined[s] = FALSE
  BY <1>2 DEF FreeClient
<1>4. \A s \in Slots : ~WithTx(s) /\ ~InWork(s) /\ ~Sending(s) /\ ~Ending(s)
  BY <1>2 DEF WithTx, InWork, Sending, Ending
<1>5. Frames BY <1>2, <1>4 DEF Frames
<1>6. Popping BY <1>2 DEF Popping
<1>7. Subscribed BY <1>2, <1>3 DEF Subscribed
<1>8. Captured BY <1>2, <1>3 DEF Captured
<1>9. Lengths BY <1>2, <1>4 DEF Lengths
<1>10. Ordered BY <1>3 DEF Ordered, Served
<1> QED BY <1>1, <1>5, <1>6, <1>7, <1>8, <1>9, <1>10 DEF IInv

\* Nothing that a step changes.
LEMMA Stutter ==
    ASSUME IInv, UNCHANGED vars
    PROVE  IInv'
<1>1. /\ UNCHANGED <<sent, queue, joined, client, tx_data, capture, work, httpd, tx>>
      /\ UNCHANGED <<since, delivered>>
  BY DEF vars, stream, seen
<1>2. TypeOK' BY <1>1 DEF IInv, TypeOK, Resumes
<1>3. Control' BY <1>1, Beside DEF IInv, Control
<1>4. Ordered'
  <2> SUFFICES ASSUME NEW s \in Slots PROVE Served(s)' => InOrder(s)'
    BY DEF Ordered
  <2>1. Pending(s)' => Pending(s) BY <1>1 DEF Pending, WithTx, InWork, Sending
  <2>2. Served(s)' => Served(s) BY <1>1 DEF Served
  <2> QED BY <1>1, <2>1, <2>2, StaysInOrder DEF IInv
<1> QED BY <1>2, <1>3, <1>4 DEF IInv, Control

LEMMA StepInvariant ==
    ASSUME IInv, Next
    PROVE  IInv'
<1>0. TypeOK /\ Control /\ Ordered BY DEF IInv, Control
<1>1. CASE LeaveRing \/ JoinRing \/ ws_sync_usb_capture_state
  <2>1. TypeOK' BY <1>0, <1>1, TypedSharedSteps
  <2>2. Control' BY <1>0, <1>1, SharedSteps
  <2>3. Ordered' BY <1>0, <1>1, OrderedSharedSteps
  <2> QED BY <2>1, <2>2, <2>3 DEF IInv, Control
<1>2. ASSUME NEW fd \in Fds,
             \/ ws_on_connect(fd) \/ http_session_close(fd) \/ ws_handler_fails(fd)
             \/ PeerGone(fd) \/ CloseSocket \/ StartPrune \/ ws_prune_stale_clients
      PROVE  IInv'
  <2>1. TypeOK' BY <1>0, <1>2, TypedSessionSteps
  <2>2. Control' BY <1>0, <1>2, SessionSteps
  <2>3. Ordered' BY <1>0, <1>2, OrderedSessionSteps
  <2> QED BY <2>1, <2>2, <2>3 DEF IInv, Control
<1>3. CASE SendFrame
  <2>1. TypeOK' BY <1>0, <1>3, TypedWork DEF Control
  <2>2. Control' BY <1>0, <1>3, SendFrameKeeps
  <2>3. Ordered' BY <1>0, <1>3, OrderedSend
  <2> QED BY <2>1, <2>2, <2>3 DEF IInv, Control
<1>4. CASE StartSend \/ ws_lru_touch_work \/ FinishSend
  <2>1. TypeOK' BY <1>0, <1>4, TypedWork DEF Control
  <2>2. Control' BY <1>0, <1>4, StartSendKeeps, TouchKeeps, FinishSendKeeps
  <2>3. Ordered' BY <1>0, <1>4, OrderedWork
  <2> QED BY <2>1, <2>2, <2>3 DEF IInv, Control
<1>5. CASE TxStep
  <2>1. TypeOK' BY <1>0, <1>5, TypedTx
  <2>2. Control' BY <1>0, <1>5, TxKeeps, QueueKeeps DEF TxStep
  <2>3. Ordered' BY <1>0, <1>5, OrderedTx
  <2> QED BY <2>1, <2>2, <2>3 DEF IInv, Control
<1>6. CASE UsbReset
  <2>1. TypeOK' BY <1>0, <1>6, TypedUsb
  <2>2. UNCHANGED <<client, joined, capture, httpd, tx, tx_data, work>>
    BY <1>6 DEF UsbReset, Ring!Discard
  <2>3. Control' BY <1>0, <2>2, Beside
  <2>4. Ordered' BY <1>0, <1>6, OrderedReset
  <2> QED BY <2>1, <2>3, <2>4 DEF IInv, Control
<1>7. ASSUME NEW len \in 1..MaxChunk, UsbReceive(len) PROVE IInv'
  <2>1. TypeOK' BY <1>0, <1>7, TypedUsb
  <2>2. UNCHANGED <<client, joined, capture, httpd, tx, tx_data, work>>
    BY <1>7 DEF UsbReceive, Ring!Send
  <2>3. Control' BY <1>0, <2>2, Beside
  <2>4. Ordered' BY <1>0, <1>7, OrderedReceive
  <2> QED BY <2>1, <2>3, <2>4 DEF IInv, Control
<1>8. CASE CloseSocket \/ StartPrune \/ ws_prune_stale_clients
  <2>1. PICK fd \in Fds : TRUE BY WsAssumption
  <2> QED BY <1>2, <1>8, <2>1
<1> QED BY <1>1, <1>2, <1>3, <1>4, <1>5, <1>6, <1>7, <1>8 DEF Next, HttpdWork, HttpdCall

LEMMA Inductive == Spec => []IInv
<1>1. Init => IInv BY InitInvariant
<1>2. IInv /\ [Next]_vars => IInv' BY StepInvariant, Stutter
<1> QED BY <1>1, <1>2, PTL DEF Spec

\* Slots, queues, work and the places of the two tasks stay in their types.
THEOREM TypeCorrect == Spec => []TypeOK
<1>1. IInv => TypeOK BY DEF IInv
<1> QED BY <1>1, Inductive, PTL

\* The capture flag and the ring's readers follow the clients, whichever way a session
\* ends: closed, failed in its handler, failed in a send or pruned.
THEOREM CaptureCorrect == Spec => []CaptureFollowsClients
<1>1. IInv => CaptureFollowsClients
  <2> SUFFICES ASSUME IInv, httpd = Idle
               PROVE  /\ capture = (\E s \in Slots : client[s].active)
                      /\ \A s \in Slots : joined[s] = client[s].active
    BY DEF CaptureFollowsClients
  <2>1. httpd.at = "idle" BY DEF Idle
  <2>2. capture = (\E s \in Slots : client[s].active) BY <2>1 DEF IInv, Captured
  <2>3. \A s \in Slots : joined[s] = client[s].active BY <2>1 DEF IInv, Subscribed
  <2> QED BY <2>2, <2>3
<1> QED BY <1>1, Inductive, PTL

\* No browser gets bytes twice, out of order or from before its session, in whatever
\* order sessions end, slots are used again, frames are queued and the USB side resets.
THEOREM Delivery == Spec => []DeliveredInOrder
<1>1. IInv => DeliveredInOrder
  BY DEF IInv, Ordered, InOrder, DeliveredInOrder, Rising, Above
<1> QED BY <1>1, Inductive, PTL

-----------------------------------------------------------------------------
(* The frame buffer.                                                        *)

\* No step writes the buffer or the length of a slot that is and stays in flight.
LEMMA StaysPut ==
    ASSUME IInv, Next, NEW s \in Slots, client[s].in_flight, client'[s].in_flight
    PROVE  tx_data'[s] = tx_data[s] /\ client'[s].tx_len = client[s].tx_len
<1>0. TypeOK /\ Control BY DEF IInv, Control
<1>1. CASE PopClient
  <2>1. tx.at = "pop" /\ client' = client BY <1>1 DEF PopClient
  <2>2. s # tx.slot BY <1>0, <2>1 DEF Control, Popping
  <2>3. tx_data' = tx_data \/ \E d : tx_data' = [tx_data EXCEPT ![tx.slot] = d]
    BY <1>1 DEF PopClient
  <2> QED BY <1>0, <2>1, <2>2, <2>3 DEF TypeOK
<1>2. CASE ~PopClient
  <2>1. tx_data' = tx_data
    BY <1>2 DEF Next, HttpdWork, HttpdCall, TxStep, StartSend, ws_lru_touch_work, LeaveRing,
       JoinRing, ws_sync_usb_capture_state, CloseSocket, ws_prune_stale_clients, SendFrame,
       FinishSend, Scan, Claim, QueueWork, LruTouch, QueueTouch, StartPrune, UsbReset,
       ws_on_connect, http_session_close, ws_handler_fails, PeerGone, UsbReceive
  <2>2. ASSUME NEW fd, NEW place, Deactivate(fd, place)
        PROVE  client'[s].tx_len = client[s].tx_len
    BY <1>0, <2>2, GivenUp DEF FrameKept
  <2>3. \/ client' = client
        \/ \E fd, place : Deactivate(fd, place)
        \/ \E fd \in Fds : ws_on_connect(fd)
        \/ FinishSend \/ Claim \/ QueueWork
    BY <1>2 DEF Next, HttpdWork, HttpdCall, TxStep, StartSend, ws_lru_touch_work, LeaveRing,
       JoinRing, ws_sync_usb_capture_state, CloseSocket, ws_prune_stale_clients, SendFrame,
       Scan, LruTouch, QueueTouch, StartPrune, UsbReset,
       http_session_close, ws_handler_fails, PeerGone, UsbReceive
  <2>4. ASSUME NEW fd \in Fds, ws_on_connect(fd) PROVE client'[s] = client[s]
    <3>1. \/ client' = client
          \/ \E t \in FreeSlots : \E c : client' = [client EXCEPT ![t] = c]
      BY <2>4 DEF ws_on_connect
    <3>2. s \notin FreeSlots BY DEF FreeSlots
    <3> QED BY <1>0, <3>1, <3>2 DEF TypeOK
  <2>5. CASE FinishSend
    <3>1. client' = [client EXCEPT ![httpd.slot] = Unscheduled(@)] BY <2>5 DEF FinishSend
    <3>2. s # httpd.slot BY <1>0, <3>1 DEF TypeOK, ClientType, Unscheduled
    <3>3. client'[s] = client[s] BY <1>0, <3>1, <3>2 DEF TypeOK
    <3> QED BY <2>1, <3>3
  <2>6. CASE Claim
    <3>1. tx.at = "claim" BY <2>6 DEF Claim
    <3>2. s # tx.slot BY <1>0, <3>1 DEF Control, Popping
    <3>3. client' = client \/ \E c : client' = [client EXCEPT ![tx.slot] = c]
      BY <2>6 DEF Claim
    <3>4. client'[s] = client[s] BY <1>0, <3>2, <3>3 DEF TypeOK
    <3> QED BY <2>1, <3>4
  <2>7. CASE QueueWork
    <3>1. client' = client \/ client' = [client EXCEPT ![tx.slot] = Unscheduled(@)]
      BY <2>7 DEF QueueWork, DropFrame
    <3>2. CASE client' = client BY <2>1, <3>2
    <3>3. CASE client' = [client EXCEPT ![tx.slot] = Unscheduled(@)]
      <4>1. s # tx.slot BY <1>0, <3>3 DEF TypeOK, ClientType, Unscheduled
      <4>2. client'[s] = client[s] BY <1>0, <3>3, <4>1 DEF TypeOK
      <4> QED BY <2>1, <4>2
    <3> QED BY <3>1, <3>2, <3>3
  <2> QED BY <2>1, <2>2, <2>3, <2>4, <2>5, <2>6, <2>7
<1> QED BY <1>1, <1>2

\* The bytes of a scheduled frame do not change under ws_send_work, although the buffer
\* is written and read outside the mux.
THEOREM BufferStable == Spec => FrameStaysPut
<1>1. IInv /\ [Next]_vars =>
        [\A s \in Slots : client[s].in_flight /\ client'[s].in_flight =>
             tx_data'[s] = tx_data[s] /\ client'[s].tx_len = client[s].tx_len]_vars
  BY StaysPut
<1> QED BY <1>1, Inductive, PTL DEF Spec, FrameStaysPut

-----------------------------------------------------------------------------
(* Every byte is accounted for.                                             *)

\* The histories that count bytes are numbers.
Counters ==
    /\ lost \in [Slots -> Nat] /\ failed \in [Slots -> Nat]
    /\ unclaimed \in [Slots -> Nat] /\ cleared \in [Slots -> Nat]

\* A socket has one slot at most, and is not closed before the slot is given up: so a
\* session that was found dead stays so as long as it has a slot.
Sockets ==
    /\ session \in [Fds -> {"none", "live", "dead", "closing"}]
    /\ \A s \in Slots : client[s].active =>
          client[s].fd \in Fds /\ session[client[s].fd] # "none"
    /\ \A s, t \in Slots :
          client[s].active /\ client[t].active /\ client[s].fd = client[t].fd => s = t
    /\ httpd.at = "close" => ~Held(httpd.fd)
    /\ httpd.at \in {"join", "leave", "sync"} /\ httpd.next.at = "close" => ~Held(httpd.next.fd)

\* A frame in flight is the slot's present session's, if there is one; what ws_tx_task and
\* ws_send_work keep of a session outside the mux is that of the slot, or of an earlier one.
Owners ==
    /\ \A s \in Slots : client[s].active /\ client[s].in_flight =>
          client[s].scheduled_fd = client[s].fd
          /\ client[s].scheduled_generation = client[s].generation
    /\ tx.at \in {"pop", "claim"} /\ client[tx.slot].active
         /\ tx.generation = client[tx.slot].generation => tx.fd = client[tx.slot].fd
    /\ httpd.at = "send" /\ client[httpd.slot].active =>
          httpd.should_send /\ httpd.fd = client[httpd.slot].fd
    /\ httpd.at \in {"join", "leave", "sync"} /\ httpd.next.at = "finish" =>
          ~client[httpd.next.slot].active

\* Whatever waits or lies in a buffer, of an old session even, was sent by the device.
Past == \A s \in Slots : UpTo(queue[s], sent) /\ UpTo(tx_data[s], sent)

\* ws_tx_task has the slot for a session that is over.
Stale(s) == tx.at \in {"pop", "claim"} /\ tx.slot = s /\ tx.generation # client[s].generation

\* That happens once in a session: the next look at the slot finds the present one.
Once == \A s \in Slots : Served(s) /\ unclaimed[s] # 0 => ~Stale(s)

AccountIInv ==
    Counters /\ Sockets /\ Owners /\ Past /\ Once /\ BytesAccounted

-----------------------------------------------------------------------------
(* What the two ends of a frame change in the slots.                        *)

LEMMA FrameEnds ==
    ASSUME TypeOK, NEW k, client' = [client EXCEPT ![k] = Unscheduled(@)]
    PROVE  /\ \A s \in Slots :
                 /\ client'[s].active = client[s].active /\ client'[s].fd = client[s].fd
                 /\ client'[s].generation = client[s].generation
           /\ \A s \in Slots \ {k} : client'[s] = client[s]
           /\ k \in Slots => ~client'[k].in_flight
<1>1. \A s \in Slots \ {k} : client'[s] = client[s] BY DEF TypeOK
<1>2. ASSUME k \in Slots
      PROVE  /\ client'[k].active = client[k].active /\ client'[k].fd = client[k].fd
             /\ client'[k].generation = client[k].generation /\ ~client'[k].in_flight
  <2>1. client'[k] = Unscheduled(client[k]) BY <1>2 DEF TypeOK
  <2> QED BY <1>2, <2>1 DEF TypeOK, ClientType, Unscheduled
<1> QED BY <1>1, <1>2

LEMMA FrameBegins ==
    ASSUME TypeOK, NEW k, NEW fd, NEW g, NEW len,
           client' = [client EXCEPT ![k] =
              [@ EXCEPT !.in_flight = TRUE, !.scheduled_fd = fd,
                        !.scheduled_generation = g, !.tx_len = len]]
    PROVE  /\ \A s \in Slots :
                 /\ client'[s].active = client[s].active /\ client'[s].fd = client[s].fd
                 /\ client'[s].generation = client[s].generation
           /\ \A s \in Slots \ {k} : client'[s] = client[s]
<1>1. \A s \in Slots \ {k} : client'[s] = client[s] BY DEF TypeOK
<1>2. ASSUME k \in Slots
      PROVE  /\ client'[k].active = client[k].active /\ client'[k].fd = client[k].fd
             /\ client'[k].generation = client[k].generation
  <2>1. client'[k] = [client[k] EXCEPT !.in_flight = TRUE, !.scheduled_fd = fd,
                                      !.scheduled_generation = g, !.tx_len = len]
    BY <1>2 DEF TypeOK
  <2> QED BY <1>2, <2>1 DEF TypeOK, ClientType
<1> QED BY <1>1, <1>2

-----------------------------------------------------------------------------
(* Sockets and slots.                                                       *)

\* A slot given up leaves its socket without one.
LEMMA SocketsDeactivate ==
    ASSUME TypeOK, Sockets, NEW fd, NEW place, Deactivate(fd, place), Resumes(place),
           place.at = "close" => place.fd = fd,
           session' = session \/ session' = [session EXCEPT ![fd] = "closing"]
    PROVE  Sockets'
<1>1. session' \in [Fds -> {"none", "live", "dead", "closing"}] BY DEF Sockets
<1>2. \A f \in Fds : session[f] # "none" => session'[f] # "none" BY DEF Sockets
<1>3. CASE client' = client /\ httpd' = place
  <2>1. CASE Held(fd)
    <3>1. FALSE
      <4>1. PICK s \in Slots : Holds(s, fd) BY <2>1 DEF Held
      <4>2. \/ \E t \in Slots : client[t].active /\ client' = [client EXCEPT ![t] =
                  [@ EXCEPT !.active = FALSE, !.fd = NoFd]]
            \/ ~Held(fd)
        BY DEF Deactivate, Holds, TypeOK, ClientType
      <4>3. PICK t \in Slots : client[t].active /\ client' = [client EXCEPT ![t] =
                  [@ EXCEPT !.active = FALSE, !.fd = NoFd]]
        BY <2>1, <4>2
      <4>4. client'[t].active = FALSE BY <4>3 DEF TypeOK, ClientType
      <4> QED BY <1>3, <4>3, <4>4
    <3> QED BY <3>1
  <2>2. CASE ~Held(fd)
    <3>1. ~Held(fd)' BY <1>3, <2>2 DEF Held, Holds
    <3>2. httpd'.at = "close" => httpd'.fd = fd BY <1>3
    <3>3. httpd'.at \notin {"join", "leave", "sync"} BY <1>3 DEF Resumes
    <3>4. httpd'.at = "close" => ~Held(httpd.fd)' BY <3>1, <3>2 DEF Held, Holds
    <3> QED BY <1>1, <1>2, <1>3, <3>3, <3>4 DEF Sockets
  <2> QED BY <2>1, <2>2
<1>4. ASSUME NEW s \in Slots, client[s].active, client[s].fd = fd,
             client' = [client EXCEPT ![s] = [@ EXCEPT !.active = FALSE, !.fd = NoFd]],
             httpd' = [at |-> "leave", slot |-> s, next |-> place]
      PROVE  Sockets'
  <2>1. ~client'[s].active /\ \A t \in Slots \ {s} : client'[t] = client[t]
    BY <1>4 DEF TypeOK, ClientType
  <2>2. ~Held(fd)' BY <1>4, <2>1 DEF Held, Holds, Sockets
  <2>3. httpd'.at = "leave" /\ httpd'.next = place BY <1>4
  <2>4. httpd'.next.at = "close" => ~Held(httpd.next.fd)' BY <2>2, <2>3 DEF Held, Holds
  <2>5. \A t \in Slots : client'[t].active => t # s BY <2>1
  <2> QED BY <1>1, <1>2, <2>1, <2>3, <2>4, <2>5 DEF Sockets
<1> QED BY <1>3, <1>4, GivesUp

\* What no step but these two touches: the slots' sockets.
LEMMA SocketsSame ==
    ASSUME Sockets, session' = session,
           \A s \in Slots : client'[s].active = client[s].active /\ client'[s].fd = client[s].fd,
           httpd'.at = "close" => ~Held(httpd'.fd),
           httpd'.at \in {"join", "leave", "sync"} /\ httpd'.next.at = "close"
             => ~Held(httpd'.next.fd)
    PROVE  Sockets'
<1>1. \A f : Held(f)' = Held(f) BY DEF Held, Holds
<1>2. (httpd.at = "close" => ~Held(httpd.fd))' BY DEF Held, Holds
<1>3. (httpd.at \in {"join", "leave", "sync"} /\ httpd.next.at = "close"
          => ~Held(httpd.next.fd))'
  BY DEF Held, Holds
<1> QED BY <1>2, <1>3 DEF Sockets

LEMMA SocketsKept ==
    ASSUME TypeOK, Sockets, Next
    PROVE  Sockets'
<1>0. \A fd \in Fds : Resumes(Idle) /\ Resumes([at |-> "close", fd |-> fd])
  BY DEF Resumes, Idle
<1>1. ASSUME NEW fd \in Fds, ws_on_connect(fd) PROVE Sockets'
  <2>1. httpd.at = "idle" /\ session[fd] = "none" BY <1>1 DEF ws_on_connect
  <2>2. ASSUME NEW s \in Slots, ~client[s].active,
               client' = [client EXCEPT ![s] =
                  [@ EXCEPT !.fd = fd, !.active = TRUE, !.generation = NextGeneration(client[s]),
                            !.scheduled_fd = NoFd, !.scheduled_generation = 0, !.tx_len = 0]],
               httpd' = [at |-> "join", slot |-> s, next |-> Idle],
               session' = [session EXCEPT ![fd] = "live"]
        PROVE  Sockets'
    <3>1. client'[s].active /\ client'[s].fd = fd /\ \A t \in Slots \ {s} : client'[t] = client[t]
      BY <2>2 DEF TypeOK, ClientType
    <3>2. \A t \in Slots : client[t].active => client[t].fd # fd BY <2>1 DEF Sockets
    <3>3. httpd'.at = "join" /\ httpd'.next.at = "idle" BY <2>2 DEF Idle
    <3>4. /\ session' \in [Fds -> {"none", "live", "dead", "closing"}]
          /\ \A f \in Fds : session[f] # "none" => session'[f] # "none"
          /\ session'[fd] # "none"
      BY <2>2 DEF Sockets
    <3> QED BY <3>1, <3>2, <3>3, <3>4 DEF Sockets
  <2>3. CASE session' = [session EXCEPT ![fd] = "closing"] /\ UNCHANGED <<client, httpd>>
    <3>1. /\ session' \in [Fds -> {"none", "live", "dead", "closing"}]
          /\ \A f \in Fds : session[f] # "none" => session'[f] # "none"
      BY <2>3 DEF Sockets
    <3>2. httpd'.at \notin {"close", "join", "leave", "sync"} BY <2>1, <2>3
    <3> QED BY <2>3, <3>1, <3>2 DEF Sockets
  <2> QED BY <1>1, <2>2, <2>3 DEF ws_on_connect, FreeSlots
<1>2. ASSUME NEW fd \in Fds, http_session_close(fd) PROVE Sockets'
  BY <1>0, <1>2, SocketsDeactivate DEF http_session_close
<1>3. ASSUME NEW fd \in Fds, ws_handler_fails(fd) PROVE Sockets'
  <2>1. Deactivate(fd, Idle) /\ session' = [session EXCEPT ![fd] = "closing"]
    BY <1>3 DEF ws_handler_fails
  <2>2. Idle.at # "close" BY DEF Idle
  <2> QED BY <1>0, <2>1, <2>2, SocketsDeactivate
<1>4. CASE ws_prune_stale_clients
  <2>1. httpd.at = "prune" /\ Resumes(httpd) /\ session' = session
    BY <1>4 DEF ws_prune_stale_clients, TypeOK
  <2>2. CASE \E s \in Slots : Deactivate(client[s].fd, httpd)
    BY <2>1, <2>2, SocketsDeactivate
  <2>3. CASE httpd' = Idle /\ client' = client
    BY <2>1, <2>3, SocketsSame DEF Idle
  <2> QED BY <1>4, <2>2, <2>3 DEF ws_prune_stale_clients
<1>5. CASE SendFrame
  <2> DEFINE place == [at |-> "finish", slot |-> httpd.slot]
  <2>1. Resumes(place) /\ place.at = "finish" BY <1>5 DEF SendFrame, Resumes, TypeOK
  <2>2. CASE Deactivate(httpd.fd, place) /\ session' = [session EXCEPT ![httpd.fd] = "closing"]
    BY <2>1, <2>2, SocketsDeactivate
  <2>3. CASE httpd' = place /\ UNCHANGED <<client, session>>
    BY <2>3, SocketsSame
  <2> QED BY <1>5, <2>2, <2>3 DEF SendFrame
<1>6. CASE CloseSocket
  <2>1. /\ httpd.at = "close" /\ session' = [session EXCEPT ![httpd.fd] = "none"]
        /\ client' = client /\ httpd'.at = "idle"
    BY <1>6 DEF CloseSocket, Idle
  <2>2. \A s \in Slots : client[s].active => client[s].fd # httpd.fd
    BY <2>1 DEF Sockets, Held, Holds
  <2>3. /\ session' \in [Fds -> {"none", "live", "dead", "closing"}]
        /\ \A f \in Fds : f # httpd.fd => session'[f] = session[f]
    BY <2>1 DEF Sockets
  <2> QED BY <2>1, <2>2, <2>3 DEF Sockets
<1>7. ASSUME NEW fd \in Fds, PeerGone(fd) PROVE Sockets'
  <2>1. /\ session' = [session EXCEPT ![fd] = "dead"] /\ UNCHANGED <<client, httpd>>
    BY <1>7 DEF PeerGone
  <2>2. /\ session' \in [Fds -> {"none", "live", "dead", "closing"}]
        /\ \A f \in Fds : session[f] # "none" => session'[f] # "none"
    BY <2>1 DEF Sockets
  <2>3. \A f : Held(f)' = Held(f) BY <2>1 DEF Held, Holds
  <2>4. /\ (httpd.at = "close" => ~Held(httpd.fd))'
        /\ (httpd.at \in {"join", "leave", "sync"} /\ httpd.next.at = "close"
              => ~Held(httpd.next.fd))'
    BY <2>1 DEF Sockets, Held, Holds
  <2> QED BY <2>1, <2>2, <2>4 DEF Sockets
<1>8. CASE LeaveRing \/ JoinRing
  <2>1. /\ UNCHANGED <<client, session>> /\ httpd.at \in {"join", "leave"}
        /\ httpd' = [at |-> "sync", next |-> httpd.next]
    BY <1>8 DEF LeaveRing, JoinRing
  <2>2. httpd'.at = "sync" /\ httpd'.next = httpd.next BY <2>1
  <2>3. httpd'.next.at = "close" => ~Held(httpd'.next.fd) BY <2>1, <2>2 DEF Sockets
  <2> QED BY <2>1, <2>2, <2>3, SocketsSame
<1>9. CASE ws_sync_usb_capture_state
  <2>1. /\ UNCHANGED <<client, session>> /\ httpd.at = "sync" /\ httpd' = httpd.next
    BY <1>9 DEF ws_sync_usb_capture_state
  <2>2. Resumes(httpd') BY <2>1 DEF TypeOK
  <2>3. httpd'.at = "close" => ~Held(httpd'.fd) BY <2>1 DEF Sockets
  <2> QED BY <2>1, <2>2, <2>3, SocketsSame DEF Resumes
<1>10. CASE FinishSend \/ StartSend \/ StartPrune \/ ws_lru_touch_work
  <2>1. session' = session /\ httpd'.at \in {"idle", "send", "prune"}
    BY <1>10 DEF FinishSend, StartSend, StartPrune, ws_lru_touch_work, Idle
  <2>2. client' = client \/ client' = [client EXCEPT ![httpd.slot] = Unscheduled(@)]
    BY <1>10 DEF FinishSend, StartSend, StartPrune, ws_lru_touch_work
  <2>3. \A s \in Slots : client'[s].active = client[s].active /\ client'[s].fd = client[s].fd
    <3>1. CASE client' = client BY <3>1
    <3>2. CASE client' = [client EXCEPT ![httpd.slot] = Unscheduled(@)] BY <3>2, FrameEnds
    <3> QED BY <2>2, <3>1, <3>2
  <2> QED BY <2>1, <2>3, SocketsSame
<1>11. CASE TxStep \/ UsbReset \/ \E len \in 1..MaxChunk : UsbReceive(len)
  <2>1. session' = session /\ httpd' = httpd
    BY <1>11 DEF TxStep, Scan, PopClient, Claim, QueueWork, LruTouch, QueueTouch,
                 UsbReset, UsbReceive
  <2>2. \/ client' = client \/ client' = [client EXCEPT ![tx.slot] = Unscheduled(@)]
        \/ client' = [client EXCEPT ![tx.slot] =
              [@ EXCEPT !.in_flight = TRUE, !.scheduled_fd = tx.fd,
                        !.scheduled_generation = tx.generation, !.tx_len = tx.len]]
    BY <1>11 DEF TxStep, Scan, PopClient, Claim, QueueWork, LruTouch, QueueTouch,
                 UsbReset, UsbReceive, DropFrame
  <2>3. \A s \in Slots : client'[s].active = client[s].active /\ client'[s].fd = client[s].fd
    <3>1. CASE client' = client BY <3>1
    <3>2. CASE client' = [client EXCEPT ![tx.slot] = Unscheduled(@)] BY <3>2, FrameEnds
    <3>3. CASE client' = [client EXCEPT ![tx.slot] =
                  [@ EXCEPT !.in_flight = TRUE, !.scheduled_fd = tx.fd,
                            !.scheduled_generation = tx.generation, !.tx_len = tx.len]]
      BY <3>3, FrameBegins
    <3> QED BY <2>2, <3>1, <3>2, <3>3
  <2>4. /\ httpd'.at = "close" => ~Held(httpd'.fd)
        /\ httpd'.at \in {"join", "leave", "sync"} /\ httpd'.next.at = "close"
             => ~Held(httpd'.next.fd)
    BY <2>1 DEF Sockets
  <2> QED BY <2>1, <2>3, <2>4, SocketsSame
<1> QED BY <1>1, <1>2, <1>3, <1>4, <1>5, <1>6, <1>7, <1>8, <1>9, <1>10, <1>11
        DEF Next, HttpdWork, HttpdCall

-----------------------------------------------------------------------------
(* Whose frame it is.                                                       *)

LEMMA OwnersDeactivate ==
    ASSUME TypeOK, Sockets, Owners, NEW fd, NEW place, Deactivate(fd, place), Resumes(place),
           tx' = tx,
           place.at = "finish" /\ client[place.slot].active => client[place.slot].fd = fd
    PROVE  Owners'
<1>1. CASE client' = client /\ httpd' = place
  <2>1. httpd'.at \notin {"send", "join", "leave", "sync"} BY <1>1 DEF Resumes
  <2> QED BY <1>1, <2>1 DEF Owners
<1>2. ASSUME NEW s \in Slots, client[s].active, client[s].fd = fd,
             client' = [client EXCEPT ![s] = [@ EXCEPT !.active = FALSE, !.fd = NoFd]],
             httpd' = [at |-> "leave", slot |-> s, next |-> place]
      PROVE  Owners'
  <2>1. ~client'[s].active /\ \A t \in Slots \ {s} : client'[t] = client[t]
    BY <1>2 DEF TypeOK, ClientType
  <2>2. httpd'.at = "leave" /\ httpd'.next = place BY <1>2
  <2>3. \A t \in Slots : client'[t].active => client'[t] = client[t] BY <2>1
  <2>4. tx.at \in {"pop", "claim"} => tx.slot \in Slots BY DEF TypeOK
  <2>5. place.at = "finish" => ~client'[place.slot].active
    <3> SUFFICES ASSUME place.at = "finish", client'[place.slot].active PROVE FALSE
      OBVIOUS
    <3>1. place.slot \in Slots BY DEF Resumes
    <3>2. place.slot # s BY <2>1
    <3>3. client[place.slot].active /\ client[place.slot].fd = fd BY <2>3, <3>1
    <3> QED BY <1>2, <3>1, <3>2, <3>3 DEF Sockets
  <2> QED BY <2>2, <2>3, <2>4, <2>5 DEF Owners
<1> QED BY <1>1, <1>2, GivesUp

\* A step that changes neither a slot nor ws_tx_task.
LEMMA OwnersSame ==
    ASSUME Owners, client' = client, tx' = tx, httpd'.at # "send",
           httpd'.at \in {"join", "leave", "sync"} /\ httpd'.next.at = "finish" =>
             ~client[httpd'.next.slot].active
    PROVE  Owners'
BY DEF Owners

LEMMA OwnersSession ==
    ASSUME TypeOK, Control, Sockets, Owners, NEW fd \in Fds,
           \/ ws_on_connect(fd) \/ http_session_close(fd) \/ ws_handler_fails(fd)
           \/ PeerGone(fd) \/ CloseSocket \/ StartPrune \/ ws_prune_stale_clients
    PROVE  Owners'
<1>0. /\ Resumes(Idle) /\ Resumes([at |-> "close", fd |-> fd])
      /\ Idle.at # "finish" /\ [at |-> "close", fd |-> fd].at # "finish"
  BY DEF Resumes, Idle
<1>1. CASE ws_on_connect(fd)
  <2>1. httpd.at = "idle" /\ tx' = tx BY <1>1 DEF ws_on_connect
  <2>2. ASSUME NEW s \in Slots, ~client[s].active, ~client[s].in_flight,
               client' = [client EXCEPT ![s] =
                  [@ EXCEPT !.fd = fd, !.active = TRUE, !.generation = NextGeneration(client[s]),
                            !.scheduled_fd = NoFd, !.scheduled_generation = 0, !.tx_len = 0]],
               httpd' = [at |-> "join", slot |-> s, next |-> Idle]
        PROVE  Owners'
    <3>1. /\ ~client'[s].in_flight /\ client'[s].generation = client[s].generation + 1
          /\ \A t \in Slots \ {s} : client'[t] = client[t]
      BY <2>2 DEF TypeOK, ClientType, NextGeneration
    <3>2. httpd'.at = "join" /\ httpd'.next.at = "idle" BY <2>2 DEF Idle
    <3>3. ASSUME tx.at \in {"pop", "claim"}, tx.slot = s
          PROVE  tx.generation # client'[s].generation
      <4>1. tx.generation <= client[s].generation BY <3>3 DEF Control, Popping
      <4>2. tx.generation \in Nat /\ client[s].generation \in Nat BY <3>3 DEF TypeOK, ClientType
      <4>3. tx.generation # client[s].generation + 1 BY <4>1, <4>2, SMT
      <4> QED BY <3>1, <4>3
    <3>4. tx.at \in {"pop", "claim"} => tx.slot \in Slots BY DEF TypeOK
    <3> QED BY <2>1, <3>1, <3>2, <3>3, <3>4 DEF Owners
  <2>3. CASE UNCHANGED <<client, httpd>>
    BY <2>1, <2>3, OwnersSame
  <2> QED BY <1>1, <2>2, <2>3 DEF ws_on_connect, FreeSlots
<1>2. CASE http_session_close(fd)
  BY <1>0, <1>2, OwnersDeactivate DEF http_session_close
<1>3. CASE ws_handler_fails(fd)
  BY <1>0, <1>3, OwnersDeactivate DEF ws_handler_fails
<1>4. CASE ws_prune_stale_clients
  <2>1. httpd.at = "prune" /\ Resumes(httpd) /\ tx' = tx
    BY <1>4 DEF ws_prune_stale_clients, TypeOK
  <2>2. CASE \E s \in Slots : Deactivate(client[s].fd, httpd)
    BY <2>1, <2>2, OwnersDeactivate
  <2>3. CASE httpd' = Idle /\ client' = client
    BY <2>1, <2>3, OwnersSame DEF Idle
  <2> QED BY <1>4, <2>2, <2>3 DEF ws_prune_stale_clients
<1>5. CASE CloseSocket \/ StartPrune
  BY <1>5, OwnersSame DEF CloseSocket, StartPrune, Idle
<1>6. CASE PeerGone(fd)
  BY <1>6 DEF PeerGone, Owners
<1> QED BY <1>1, <1>2, <1>3, <1>4, <1>5, <1>6

LEMMA OwnersHttpd ==
    ASSUME TypeOK, Control, Sockets, Owners,
           \/ LeaveRing \/ JoinRing \/ ws_sync_usb_capture_state
           \/ StartSend \/ ws_lru_touch_work \/ SendFrame \/ FinishSend
    PROVE  Owners'
<1>1. CASE LeaveRing \/ JoinRing
  <2>1. /\ UNCHANGED <<client, tx>> /\ httpd.at \in {"join", "leave"}
        /\ httpd'.at = "sync" /\ httpd'.next = httpd.next
    BY <1>1 DEF LeaveRing, JoinRing
  <2>2. httpd'.next.at = "finish" => ~client[httpd'.next.slot].active BY <2>1 DEF Owners
  <2> QED BY <2>1, <2>2, OwnersSame
<1>2. CASE ws_sync_usb_capture_state
  <2>1. UNCHANGED <<client, tx>> /\ Resumes(httpd')
    BY <1>2 DEF ws_sync_usb_capture_state, TypeOK
  <2> QED BY <2>1, OwnersSame DEF Resumes
<1>3. CASE StartSend
  <2>0. Head(work) \in Slots BY <1>3, HeadTailProperties DEF StartSend, TypeOK
  <2>00. PICK s \in Slots : s = Head(work) BY <2>0
  <2>1. /\ UNCHANGED <<client, tx>> /\ work # <<>>
        /\ httpd'.at = "send" /\ httpd'.slot = s /\ httpd'.fd = client[s].scheduled_fd
        /\ httpd'.should_send = (/\ client[s].in_flight /\ client[s].active
                                 /\ client[s].fd = client[s].scheduled_fd
                                 /\ client[s].generation = client[s].scheduled_generation)
    BY <1>3, <2>00 DEF StartSend
  <2>2. InWork(s)
    <3>1. work \in Seq(Slots \cup {Touch}) BY DEF TypeOK
    <3>2. Len(work) \in Nat /\ Len(work) # 0 BY <2>1, <3>1, LenProperties, EmptySeq
    <3>3. 1 \in 1..Len(work) BY <3>2, SMT
    <3>4. work[1] = s BY <2>00, <2>1, <3>1, HeadTailProperties
    <3> QED BY <3>3, <3>4 DEF InWork
  <2>3. client[s].in_flight BY <2>2 DEF Control, Frames
  <2>4. client[s].active => httpd'.should_send /\ httpd'.fd = client[s].fd
    BY <2>1, <2>3 DEF Owners
  <2> QED BY <2>1, <2>4 DEF Owners
<1>4. CASE ws_lru_touch_work
  BY <1>4 DEF ws_lru_touch_work, Owners
<1>5. CASE SendFrame
  <2> DEFINE place == [at |-> "finish", slot |-> httpd.slot]
  <2>1. httpd.at = "send" /\ Resumes(place) /\ place.slot = httpd.slot /\ tx' = tx
        /\ place.at = "finish"
    BY <1>5 DEF SendFrame, Resumes, TypeOK
  <2>2. CASE Deactivate(httpd.fd, place)
    <3>1. client[place.slot].active => client[place.slot].fd = httpd.fd
      BY <2>1 DEF Owners
    <3> QED BY <2>1, <2>2, <3>1, OwnersDeactivate
  <2>3. CASE httpd' = place /\ client' = client
    BY <2>1, <2>3, OwnersSame
  <2> QED BY <1>5, <2>2, <2>3 DEF SendFrame
<1>6. CASE FinishSend
  <2>1. client' = [client EXCEPT ![httpd.slot] = Unscheduled(@)] /\ tx' = tx /\ httpd' = Idle
    BY <1>6 DEF FinishSend
  <2>2. \A s \in Slots :
              /\ client'[s].active = client[s].active /\ client'[s].fd = client[s].fd
              /\ client'[s].generation = client[s].generation
              /\ client'[s].in_flight => client'[s] = client[s]
    BY <2>1, FrameEnds
  <2>3. tx.at \in {"pop", "claim"} => tx.slot \in Slots BY DEF TypeOK
  <2>4. httpd'.at = "idle" BY <2>1 DEF Idle
  <2> QED BY <2>1, <2>2, <2>3, <2>4 DEF Owners
<1> QED BY <1>1, <1>2, <1>3, <1>4, <1>5, <1>6

LEMMA OwnersTx ==
    ASSUME TypeOK, Control, Owners, TxStep
    PROVE  Owners'
<1>1. httpd' = httpd
  BY DEF TxStep, Scan, PopClient, Claim, QueueWork, LruTouch, QueueTouch
<1>2. /\ httpd.at = "send" => httpd.slot \in Slots
      /\ httpd.at \in {"join", "leave", "sync"} /\ httpd.next.at = "finish" =>
           httpd.next.slot \in Slots
  BY DEF TypeOK, Resumes
<1>3. ASSUME client' = client,
             tx'.at \in {"pop", "claim"} /\ client[tx'.slot].active
               /\ tx'.generation = client[tx'.slot].generation => tx'.fd = client[tx'.slot].fd
      PROVE  Owners'
  BY <1>1, <1>3 DEF Owners
<1>4. CASE Scan
  <2>1. tx.slot \in Slots /\ client' = client BY <1>4 DEF Scan, TypeOK
  <2>2. \/ tx'.at \in {"scan", "lru"}
        \/ tx'.slot = tx.slot /\ tx'.fd = client[tx.slot].fd
    BY <1>4, <2>1, NextSlotTyped DEF Scan
  <2> QED BY <1>3, <2>1, <2>2
<1>5. CASE PopClient
  <2>1. tx.at = "pop" /\ tx.slot \in Slots /\ client' = client BY <1>5 DEF PopClient, TypeOK
  <2>2. \/ tx'.at \in {"scan", "lru"}
        \/ tx'.slot = tx.slot /\ tx'.fd = tx.fd /\ tx'.generation = tx.generation
    BY <1>5, <2>1, NextSlotTyped DEF PopClient
  <2>3. client[tx.slot].active /\ tx.generation = client[tx.slot].generation
          => tx.fd = client[tx.slot].fd
    BY <2>1 DEF Owners
  <2> QED BY <1>3, <2>1, <2>2, <2>3
<1>6. CASE LruTouch \/ QueueTouch
  <2>1. client' = client /\ tx'.at \in {"scan", "touch"} BY <1>6 DEF LruTouch, QueueTouch
  <2> QED BY <1>3, <2>1
<1>7. CASE Claim
  <2>1. tx.at = "claim" /\ tx.slot \in Slots BY <1>7 DEF Claim, TypeOK
  <2>2. CASE tx' = NextSlot(tx.slot) /\ client' = client
    <3>1. tx'.at \in {"scan", "lru"} BY <2>1, <2>2, NextSlotTyped
    <3> QED BY <1>3, <2>2, <3>1
  <2>3. CASE /\ QueuedOwner(client[tx.slot])
             /\ client' = [client EXCEPT ![tx.slot] =
                   [@ EXCEPT !.in_flight = TRUE, !.scheduled_fd = tx.fd,
                             !.scheduled_generation = tx.generation, !.tx_len = tx.len]]
             /\ tx' = [at |-> "queue", slot |-> tx.slot]
    <3>1. /\ \A s \in Slots :
                /\ client'[s].active = client[s].active /\ client'[s].fd = client[s].fd
                /\ client'[s].generation = client[s].generation
          /\ \A s \in Slots \ {tx.slot} : client'[s] = client[s]
          /\ client'[tx.slot].scheduled_fd = tx.fd
          /\ client'[tx.slot].scheduled_generation = tx.generation
      <4>1. \A s \in Slots :
                /\ client'[s].active = client[s].active /\ client'[s].fd = client[s].fd
                /\ client'[s].generation = client[s].generation
        BY <2>3, FrameBegins
      <4>2. \A s \in Slots \ {tx.slot} : client'[s] = client[s] BY <2>3 DEF TypeOK
      <4>3. /\ client'[tx.slot].scheduled_fd = tx.fd
            /\ client'[tx.slot].scheduled_generation = tx.generation
        BY <2>1, <2>3 DEF TypeOK, ClientType
      <4> QED BY <4>1, <4>2, <4>3
    <3>2. client[tx.slot].fd = tx.fd /\ client[tx.slot].generation = tx.generation
      BY <2>3 DEF QueuedOwner
    <3>3. \A s \in Slots : client'[s].active /\ client'[s].in_flight =>
             client'[s].scheduled_fd = client'[s].fd
             /\ client'[s].scheduled_generation = client'[s].generation
      BY <2>1, <3>1, <3>2 DEF Owners
    <3>4. tx'.at = "queue" BY <2>3
    <3> QED BY <1>1, <1>2, <3>1, <3>3, <3>4 DEF Owners
  <2> QED BY <1>7, <2>2, <2>3 DEF Claim
<1>8. CASE QueueWork
  <2>1. tx.at = "queue" /\ tx.slot \in Slots BY <1>8 DEF QueueWork, TypeOK
  <2>2. tx'.at \in {"scan", "lru"} BY <1>8, <2>1, NextSlotTyped DEF QueueWork
  <2>3. CASE client' = client BY <1>3, <2>2, <2>3
  <2>4. CASE client' = [client EXCEPT ![tx.slot] = Unscheduled(@)]
    <3>1. \A s \in Slots :
              /\ client'[s].active = client[s].active /\ client'[s].fd = client[s].fd
              /\ client'[s].in_flight => client'[s] = client[s]
      BY <2>4, FrameEnds
    <3> QED BY <1>1, <1>2, <2>2, <3>1 DEF Owners
  <2> QED BY <1>8, <2>3, <2>4 DEF QueueWork, DropFrame
<1> QED BY <1>4, <1>5, <1>6, <1>7, <1>8 DEF TxStep

LEMMA OwnersKept ==
    ASSUME TypeOK, Control, Sockets, Owners, Next
    PROVE  Owners'
<1>1. PICK fd \in Fds : TRUE BY WsAssumption
<1>2. CASE UsbReset \/ \E len \in 1..MaxChunk : UsbReceive(len)
  BY <1>2 DEF UsbReset, UsbReceive, Owners
<1> QED BY <1>1, <1>2, OwnersSession, OwnersHttpd, OwnersTx DEF Next, HttpdWork, HttpdCall

-----------------------------------------------------------------------------
(* How many bytes.                                                          *)

\* The bytes of a buffer that are later than a session's begin.
LEMMA Later ==
    ASSUME NEW a \in Seq(Nat), NEW n \in Nat
    PROVE  LET c == Cardinality({i \in 1..Len(a) : a[i] > n})
           IN  /\ c \in Nat /\ c <= Len(a)
               /\ Above(a, n) => c = Len(a)
               /\ UpTo(a, n) => c = 0
<1> DEFINE later == {i \in 1..Len(a) : a[i] > n}
<1>1. Len(a) \in Nat BY LenProperties
<1>2. IsFiniteSet(1..Len(a)) /\ Cardinality(1..Len(a)) = Len(a)
  <2>1. 1 \in Int /\ Len(a) \in Int BY <1>1, SMT
  <2>2. Cardinality(1..Len(a)) = IF 1 > Len(a) THEN 0 ELSE Len(a) - 1 + 1
    BY <2>1, FS_Interval
  <2>3. Cardinality(1..Len(a)) = Len(a) BY <1>1, <2>2, SMT
  <2> QED BY <2>1, <2>3, FS_Interval
<1>3. later \subseteq 1..Len(a) OBVIOUS
<1>4. /\ IsFiniteSet(later) /\ Cardinality(later) <= Len(a) BY <1>2, <1>3, FS_Subset
<1>5. Cardinality(later) \in Nat BY <1>4, FS_CardinalityType
<1>6. Above(a, n) => later = 1..Len(a) BY DEF Above
<1>7. UpTo(a, n) => later = {}
  <2> SUFFICES ASSUME UpTo(a, n), NEW i \in 1..Len(a), a[i] > n PROVE FALSE
    OBVIOUS
  <2>1. a[i] <= n /\ a[i] \in Nat BY ElementOfSeq DEF UpTo
  <2> QED BY <2>1, SMT
<1>8. UpTo(a, n) => Cardinality(later) = 0 BY <1>7, FS_EmptySet
<1> QED BY <1>2, <1>4, <1>5, <1>6, <1>8

\* A broadcast adds its bytes to what waits and to what is lost.
LEMMA LostGrows ==
    ASSUME TypeOK, Counters, NEW len \in 1..MaxChunk, Ring!Send(len), NEW s \in Slots
    PROVE  /\ lost'[s] \in Nat /\ Len(queue'[s]) \in Nat /\ len \in Nat
           /\ joined[s] => lost'[s] + Len(queue'[s]) = lost[s] + Len(queue[s]) + len
<1>1. PICK more : more = queue[s] \o [i \in 1..len |-> sent + i] OBVIOUS
<1>2. /\ len \in Nat /\ more \in Seq(Nat)
      /\ joined[s] => \E l \in Nat : l >= 1 /\ queue'[s] = SubSeq(more, l, Len(more))
      /\ ~joined[s] => queue'[s] = <<>>
  BY <1>1, Grown
<1>3. Len(more) = Len(queue[s]) + len /\ Len(queue[s]) \in Nat
  <2>1. queue[s] \in Seq(Nat) /\ sent \in Nat BY DEF TypeOK
  <2>2. PICK new : new = [i \in 1..len |-> sent + i] OBVIOUS
  <2>3. new \in Seq(Nat) BY <1>2, <2>1, <2>2, Arriving, 0 \in Nat, 0 <= sent
  <2>4. Len(new) = len
    <3>1. DOMAIN new = 1..len BY <2>2
    <3>2. DOMAIN new = 1..Len(new) /\ Len(new) \in Nat BY <2>3, LenProperties
    <3> QED BY <1>2, <3>1, <3>2, SMT
  <2>5. Len(queue[s] \o new) = Len(queue[s]) + Len(new) BY <2>1, <2>3, ConcatProperties
  <2> QED BY <1>1, <2>1, <2>2, <2>4, <2>5, LenProperties
<1>4. Len(queue'[s]) \in Nat /\ Len(queue'[s]) <= Len(more)
  <2>1. CASE joined[s]
    <3>1. PICK l \in Nat : l >= 1 /\ queue'[s] = SubSeq(more, l, Len(more)) BY <1>2, <2>1
    <3>2. PICK r \in 0..Len(more) : r = Len(more) BY <1>2, <1>3, SMT
    <3>3. Len(SubSeq(more, l, r)) = IF l <= r THEN r - l + 1 ELSE 0 BY <1>2, <3>1, <3>2, Part
    <3>4. Len(queue'[s]) = IF l <= r THEN r - l + 1 ELSE 0 BY <3>1, <3>2, <3>3
    <3>5. r \in Nat BY <1>2, <1>3, <3>2, SMT
    <3>6. (IF l <= r THEN r - l + 1 ELSE 0) \in Nat /\ (IF l <= r THEN r - l + 1 ELSE 0) <= r
      BY <3>1, <3>5, SMT
    <3> QED BY <3>2, <3>4, <3>6
  <2>2. CASE ~joined[s]
    <3>1. Len(queue'[s]) = 0 BY <1>2, <2>2
    <3> QED BY <1>2, <1>3, <3>1, SMT
  <2> QED BY <2>1, <2>2
<1>5. lost'[s] = IF joined[s] THEN lost[s] + Len(more) - Len(queue'[s]) ELSE lost[s]
  BY <1>1 DEF Ring!Send
<1>6. lost[s] \in Nat BY DEF Counters
<1>7. PICK m \in Nat, q \in Nat, l \in Nat, w \in Nat :
         m = Len(more) /\ q = Len(queue'[s]) /\ l = lost[s] /\ w = Len(queue[s])
  <2>1. Len(more) \in Nat BY <1>2, LenProperties
  <2> QED BY <1>3, <1>4, <1>6, <2>1
<1>8. /\ m = w + len /\ q <= m /\ len \in Nat
      /\ lost'[s] = IF joined[s] THEN l + m - q ELSE l
  BY <1>2, <1>3, <1>4, <1>5, <1>7
<1>9. l + m - q \in Nat /\ (l + m - q) + q = l + w + len BY <1>8, SMT
<1>10. lost'[s] \in Nat BY <1>8, <1>9
<1>11. joined[s] => lost'[s] + Len(queue'[s]) = lost[s] + Len(queue[s]) + len
  BY <1>7, <1>8, <1>9
<1> QED BY <1>2, <1>4, <1>10, <1>11

LEMMA CountersKept ==
    ASSUME TypeOK, Control, Counters, Next
    PROVE  Counters'
<1>1. CASE JoinRing
  BY <1>1 DEF JoinRing, Ring!Join, Counters
<1>2. CASE SendFrame
  <2>1. httpd.len \in Nat /\ UNCHANGED <<lost, unclaimed, cleared>>
    BY <1>2 DEF SendFrame, TypeOK, stream
  <2>2. CASE failed' = failed BY <2>1, <2>2 DEF Counters
  <2>3. CASE failed' = [failed EXCEPT ![httpd.slot] = @ + httpd.len]
    <3>1. PICK n \in Nat : n = httpd.len BY <2>1
    <3>2. \A s \in Slots : failed[s] + n \in Nat BY SMT DEF Counters
    <3>3. failed' = [failed EXCEPT ![httpd.slot] = @ + n] BY <2>3, <3>1
    <3>4. failed' \in [Slots -> Nat] BY <3>2, <3>3 DEF Counters
    <3> QED BY <2>1, <3>4 DEF Counters
  <2> QED BY <1>2, <2>2, <2>3 DEF SendFrame
<1>3. CASE QueueWork
  <2>1. tx.slot \in Slots /\ UNCHANGED <<lost, unclaimed, cleared>>
    BY <1>3 DEF QueueWork, TypeOK, stream
  <2>2. CASE failed' = failed BY <2>1, <2>2 DEF Counters
  <2>3. CASE failed' = [failed EXCEPT ![tx.slot] = @ + client[tx.slot].tx_len]
    <3>1. PICK n \in Nat : n = client[tx.slot].tx_len BY <2>1 DEF TypeOK, ClientType
    <3>2. \A s \in Slots : failed[s] + n \in Nat BY SMT DEF Counters
    <3>3. failed' = [failed EXCEPT ![tx.slot] = @ + n] BY <2>3, <3>1
    <3>4. failed' \in [Slots -> Nat] BY <3>2, <3>3 DEF Counters
    <3> QED BY <2>1, <3>4 DEF Counters
  <2> QED BY <1>3, <2>2, <2>3 DEF QueueWork, DropFrame
<1>4. CASE Claim
  <2>1. tx.slot \in Slots /\ tx.at = "claim" /\ UNCHANGED <<lost, failed, cleared>>
    BY <1>4 DEF Claim, TypeOK, stream
  <2>2. CASE unclaimed' = unclaimed BY <2>1, <2>2 DEF Counters
  <2>3. CASE unclaimed' = [unclaimed EXCEPT ![tx.slot] =
                @ + Cardinality({i \in 1..tx.len : tx_data[tx.slot][i] > since[tx.slot]})]
    <3>1. tx.len = Len(tx_data[tx.slot]) BY <2>1 DEF Control, Lengths
    <3>2. tx_data[tx.slot] \in Seq(Nat) /\ since[tx.slot] \in Nat BY <2>1 DEF TypeOK
    <3>3. Cardinality({i \in 1..tx.len : tx_data[tx.slot][i] > since[tx.slot]}) \in Nat
      BY <3>1, <3>2, Later
    <3>4. PICK n \in Nat :
             n = Cardinality({i \in 1..tx.len : tx_data[tx.slot][i] > since[tx.slot]})
      BY <3>3
    <3>5. \A s \in Slots : unclaimed[s] + n \in Nat BY SMT DEF Counters
    <3>6. unclaimed' = [unclaimed EXCEPT ![tx.slot] = @ + n] BY <2>3, <3>4
    <3>7. unclaimed' \in [Slots -> Nat] BY <3>5, <3>6 DEF Counters
    <3> QED BY <2>1, <3>7 DEF Counters
  <2> QED BY <1>4, <2>2, <2>3 DEF Claim
<1>5. CASE UsbReset
  <2>1. /\ cleared' = [s \in Slots |-> cleared[s] + Len(queue[s])]
        /\ UNCHANGED <<lost, failed, unclaimed>>
    BY <1>5 DEF UsbReset, Ring!Discard
  <2>2. \A s \in Slots : cleared[s] + Len(queue[s]) \in Nat
    <3> TAKE s \in Slots
    <3>1. cleared[s] \in Nat /\ Len(queue[s]) \in Nat BY LenProperties DEF Counters, TypeOK
    <3> QED BY <3>1, SMT
  <2> QED BY <2>1, <2>2 DEF Counters
<1>6. ASSUME NEW len \in 1..MaxChunk, UsbReceive(len) PROVE Counters'
  <2>1. Ring!Send(len) /\ UNCHANGED <<failed, unclaimed, cleared>>
    BY <1>6 DEF UsbReceive, seen
  <2>2. \A s \in Slots : lost'[s] \in Nat BY <2>1, LostGrows
  <2>3. lost' = [s \in Slots |-> lost'[s]] BY <2>1 DEF Ring!Send
  <2> QED BY <2>1, <2>2, <2>3 DEF Counters
<1>7. CASE UNCHANGED <<lost, failed, unclaimed, cleared>>
  BY <1>7 DEF Counters
<1>8. \/ JoinRing \/ SendFrame \/ QueueWork \/ Claim \/ UsbReset
      \/ \E len \in 1..MaxChunk : UsbReceive(len)
      \/ UNCHANGED <<lost, failed, unclaimed, cleared>>
  BY DEF Next, HttpdWork, HttpdCall, TxStep, StartSend, ws_lru_touch_work, LeaveRing,
       ws_sync_usb_capture_state, CloseSocket, ws_prune_stale_clients,
       FinishSend, Scan, PopClient, Ring!Receive, Ring!Leave, LruTouch, QueueTouch, StartPrune,
       ws_on_connect, http_session_close, ws_handler_fails, PeerGone, stream, seen
<1> QED BY <1>1, <1>2, <1>3, <1>4, <1>5, <1>6, <1>7, <1>8

\* Only a broadcast makes bytes, and it counts them; a pop moves some.
LEMMA PastKept ==
    ASSUME TypeOK, Past, Next
    PROVE  Past'
<1>1. ASSUME NEW len \in 1..MaxChunk, UsbReceive(len) PROVE Past'
  <2>1. Ring!Send(len) /\ sent' = sent + len /\ tx_data' = tx_data
    BY <1>1 DEF UsbReceive, Ring!Send
  <2> SUFFICES ASSUME NEW s \in Slots PROVE UpTo(queue[s], sent)' /\ UpTo(tx_data[s], sent)'
    BY DEF Past
  <2>2. PICK n \in Nat : n = sent BY DEF TypeOK
  <2>3. PICK new : new = [i \in 1..len |-> n + i] OBVIOUS
  <2>4. PICK more : more = queue[s] \o new OBVIOUS
  <2>5. /\ len \in Nat /\ more \in Seq(Nat)
        /\ joined[s] => \E l \in Nat : l >= 1 /\ queue'[s] = SubSeq(more, l, Len(more))
        /\ ~joined[s] => queue'[s] = <<>>
    BY <2>1, <2>2, <2>3, <2>4, Grown
  <2>6. /\ queue[s] \in Seq(Nat) /\ tx_data[s] \in Seq(Nat) /\ n + len \in Nat
        /\ 0 \in Nat /\ 0 <= n
    BY <2>5 DEF TypeOK
  <2>7. \A a \in Seq(Nat) : new \in Seq(Nat) /\ UpTo(new, n + len)
                            /\ (UpTo(a, n) => UpTo(a, n + len))
    BY <2>3, <2>5, <2>6, Arriving
  <2>8. UpTo(queue[s], n + len) /\ UpTo(tx_data[s], n + len) BY <2>2, <2>6, <2>7 DEF Past
  <2>9. UpTo(more, n + len) BY <2>4, <2>6, <2>7, <2>8, Together
  <2>10. UpTo(queue'[s], n + len)
    <3>1. CASE joined[s]
      <4>1. PICK l \in Nat : l >= 1 /\ queue'[s] = SubSeq(more, l, Len(more)) BY <2>5, <3>1
      <4>2. PICK r \in 0..Len(more) : r = Len(more)
        <5>1. Len(more) \in Nat BY <2>5, LenProperties
        <5> QED BY <5>1, SMT
      <4>3. queue'[s] = SubSeq(more, l, r) BY <4>1, <4>2
      <4> QED BY <2>5, <2>6, <2>9, <4>1, <4>3, Part
    <3>2. CASE ~joined[s] BY <2>5, <3>2 DEF UpTo
    <3> QED BY <3>1, <3>2
  <2>11. sent' = n + len BY <2>1, <2>2
  <2> QED BY <2>1, <2>8, <2>10, <2>11 DEF UpTo
<1>2. CASE PopClient
  <2>1. tx.slot \in Slots BY <1>2 DEF PopClient, TypeOK
  <2>2. PICK s \in Slots : s = tx.slot BY <2>1
  <2>3. PICK len : len = IF Len(queue[s]) < MaxPop THEN Len(queue[s]) ELSE MaxPop OBVIOUS
  <2>4. CASE UNCHANGED <<stream, tx_data>>
    BY <2>4 DEF stream, Past, UpTo
  <2>5. CASE /\ Ring!Receive(s, len)
             /\ tx_data' = [tx_data EXCEPT ![s] = SubSeq(queue[s], 1, len)]
    <3>1. /\ queue' = [queue EXCEPT ![s] = SubSeq(@, len + 1, Len(@))] /\ sent' = sent
      BY <2>5 DEF Ring!Receive
    <3>2. len \in 0..Len(queue[s]) BY <2>3, Popped
    <3>3. queue[s] \in Seq(Nat) /\ sent \in Nat /\ UpTo(queue[s], sent) BY DEF TypeOK, Past
    <3>4. /\ Len(queue[s]) \in 0..Len(queue[s]) /\ len + 1 \in Nat /\ len + 1 >= 1
      <4>1. Len(queue[s]) \in Nat BY <3>3, LenProperties
      <4> QED BY <3>2, <4>1, SMT
    <3>5. UpTo(SubSeq(queue[s], 1, len), sent)
      BY <3>2, <3>3, Part, 1 \in Nat, 1 >= 1
    <3>6. UpTo(SubSeq(queue[s], len + 1, Len(queue[s])), sent)
      BY <3>3, <3>4, Part
    <3>7. /\ queue'[s] = SubSeq(queue[s], len + 1, Len(queue[s]))
          /\ tx_data'[s] = SubSeq(queue[s], 1, len)
          /\ \A t \in Slots \ {s} : queue'[t] = queue[t] /\ tx_data'[t] = tx_data[t]
      BY <2>5, <3>1 DEF TypeOK
    <3>8. UpTo(queue'[s], sent) /\ UpTo(tx_data'[s], sent) BY <3>5, <3>6, <3>7
    <3>9. \A t \in Slots : UpTo(queue'[t], sent) /\ UpTo(tx_data'[t], sent)
      BY <3>7, <3>8 DEF Past
    <3> QED BY <3>1, <3>9 DEF Past, UpTo
  <2> QED BY <1>2, <2>2, <2>3, <2>4, <2>5 DEF PopClient
<1>3. CASE /\ sent' = sent /\ tx_data' = tx_data
           /\ \A s \in Slots : queue'[s] = queue[s] \/ queue'[s] = <<>>
  BY <1>3 DEF Past, UpTo
<1>4. CASE LeaveRing
  <2>1. /\ sent' = sent /\ tx_data' = tx_data /\ queue' = [queue EXCEPT ![httpd.slot] = <<>>]
    BY <1>4 DEF LeaveRing, Ring!Leave
  <2> QED BY <1>3, <2>1 DEF TypeOK
<1>5. CASE JoinRing
  <2>1. /\ sent' = sent /\ tx_data' = tx_data /\ queue' = [queue EXCEPT ![httpd.slot] = <<>>]
    BY <1>5 DEF JoinRing, Ring!Join
  <2> QED BY <1>3, <2>1 DEF TypeOK
<1>6. CASE UsbReset
  BY <1>3, <1>6 DEF UsbReset, Ring!Discard
<1>7. CASE UNCHANGED <<sent, queue, tx_data>>
  BY <1>3, <1>7
<1>8. \/ LeaveRing \/ JoinRing \/ PopClient \/ UsbReset
      \/ \E len \in 1..MaxChunk : UsbReceive(len)
      \/ UNCHANGED <<sent, queue, tx_data>>
  BY DEF Next, HttpdWork, HttpdCall, TxStep, StartSend, ws_lru_touch_work, SendFrame,
       ws_sync_usb_capture_state, CloseSocket, ws_prune_stale_clients, Claim, QueueWork,
       FinishSend, Scan, LruTouch, QueueTouch, StartPrune,
       ws_on_connect, http_session_close, ws_handler_fails, PeerGone, stream
<1> QED BY <1>1, <1>2, <1>4, <1>5, <1>6, <1>7, <1>8

-----------------------------------------------------------------------------
(* Sessions that go on.                                                     *)

\* What a step can do to the slots, as far as a session is concerned.
LEMMA SlotSteps ==
    ASSUME TypeOK, Next
    PROVE  \/ \E fd \in Fds, s \in FreeSlots :
                /\ ws_on_connect(fd) /\ httpd.at = "idle" /\ session[fd] = "none"
                /\ \A t \in Slots \ {s} : client'[t] = client[t]
           \/ \A s \in Slots : client'[s].active =>
                 /\ client[s].active /\ client'[s].fd = client[s].fd
                 /\ client'[s].generation = client[s].generation
<1>1. ASSUME NEW fd, NEW place, Deactivate(fd, place)
      PROVE  \A s \in Slots : client'[s].active => client'[s] = client[s]
  <2>1. CASE client' = client BY <2>1
  <2>2. ASSUME NEW s \in Slots,
               client' = [client EXCEPT ![s] = [@ EXCEPT !.active = FALSE, !.fd = NoFd]]
        PROVE  \A t \in Slots : client'[t].active => client'[t] = client[t]
    BY <2>2 DEF TypeOK, ClientType
  <2> QED BY <1>1, <2>1, <2>2, GivesUp
<1>2. ASSUME NEW fd \in Fds, ws_on_connect(fd)
      PROVE  \/ client' = client
             \/ \E s \in FreeSlots :
                  /\ ws_on_connect(fd) /\ httpd.at = "idle" /\ session[fd] = "none"
                  /\ \A t \in Slots \ {s} : client'[t] = client[t]
  BY <1>2 DEF ws_on_connect, TypeOK, FreeSlots
<1>3. CASE FinishSend \/ QueueWork
  <2>1. client' = client \/ \E k : client' = [client EXCEPT ![k] = Unscheduled(@)]
    BY <1>3 DEF FinishSend, QueueWork, DropFrame
  <2> QED BY <2>1, FrameEnds
<1>4. CASE Claim
  <2>1. \/ client' = client
        \/ client' = [client EXCEPT ![tx.slot] =
              [@ EXCEPT !.in_flight = TRUE, !.scheduled_fd = tx.fd,
                        !.scheduled_generation = tx.generation, !.tx_len = tx.len]]
    BY <1>4 DEF Claim
  <2>2. CASE client' = [client EXCEPT ![tx.slot] =
              [@ EXCEPT !.in_flight = TRUE, !.scheduled_fd = tx.fd,
                        !.scheduled_generation = tx.generation, !.tx_len = tx.len]]
    <3>1. \A s \in Slots :
             /\ client'[s].active = client[s].active /\ client'[s].fd = client[s].fd
             /\ client'[s].generation = client[s].generation
      BY <2>2, FrameBegins
    <3> QED BY <3>1
  <2> QED BY <2>1, <2>2
<1>5. CASE client' = client BY <1>5
<1>6. \/ client' = client \/ FinishSend \/ QueueWork \/ Claim
      \/ \E fd \in Fds : ws_on_connect(fd)
      \/ \E fd, place : Deactivate(fd, place)
  <2>1. CASE SendFrame BY <2>1 DEF SendFrame
  <2>2. CASE ws_prune_stale_clients BY <2>2 DEF ws_prune_stale_clients
  <2>3. ASSUME NEW fd \in Fds, http_session_close(fd) \/ ws_handler_fails(fd)
        PROVE  \E f, place : Deactivate(f, place)
    BY <2>3 DEF http_session_close, ws_handler_fails
  <2> QED BY <2>1, <2>2, <2>3 DEF Next, HttpdWork, HttpdCall, TxStep, StartSend,
       ws_lru_touch_work, LeaveRing, JoinRing, ws_sync_usb_capture_state, CloseSocket,
       Scan, PopClient, LruTouch, QueueTouch, StartPrune, UsbReset, UsbReceive, PeerGone
<1> QED BY <1>1, <1>2, <1>3, <1>4, <1>5, <1>6

\* A slot that is served was served before, for the same session, or joins the ring now.
LEMMA Remains ==
    ASSUME TypeOK, Control, Next, NEW s \in Slots, Served(s)', ~(JoinRing /\ s = httpd.slot)
    PROVE  /\ Served(s) /\ client'[s].fd = client[s].fd
           /\ client'[s].generation = client[s].generation
<1>1. joined[s]
  <2>1. CASE JoinRing
    <3>1. joined' = [joined EXCEPT ![httpd.slot] = TRUE] BY <2>1 DEF JoinRing, Ring!Join
    <3>2. joined'[s] = joined[s] BY <2>1, <3>1 DEF TypeOK
    <3> QED BY <3>2 DEF Served
  <2>2. CASE LeaveRing
    <3>1. joined' = [joined EXCEPT ![httpd.slot] = FALSE] BY <2>2 DEF LeaveRing, Ring!Leave
    <3>2. joined'[s] => joined[s] BY <3>1 DEF TypeOK
    <3> QED BY <3>2 DEF Served
  <2>3. CASE joined' = joined BY <2>3 DEF Served
  <2> QED BY <2>1, <2>2, <2>3 DEF Next, HttpdWork, HttpdCall, TxStep, StartSend,
       ws_lru_touch_work, ws_sync_usb_capture_state, CloseSocket, ws_prune_stale_clients,
       SendFrame, FinishSend, Scan, PopClient, Ring!Receive, Claim, QueueWork, LruTouch,
       QueueTouch, StartPrune, UsbReset, Ring!Discard, UsbReceive, Ring!Send,
       ws_on_connect, http_session_close, ws_handler_fails, PeerGone, stream
<1>2. ASSUME NEW t \in FreeSlots, httpd.at = "idle", \A u \in Slots \ {t} : client'[u] = client[u]
      PROVE  client'[s] = client[s]
  <2>1. t \in Slots /\ ~client[t].active BY DEF FreeSlots
  <2>2. ~joined[t] BY <1>2, <2>1 DEF Control, Subscribed
  <2> QED BY <1>1, <1>2, <2>2
<1> QED BY <1>1, <1>2, SlotSteps DEF Served

\* A browser that is there was there before, or joins now.
Present(s) == Served(s) /\ ws_fd_is_live(client[s].fd)

LEMMA Alive ==
    ASSUME TypeOK, Control, Sockets, Next, NEW s \in Slots, Present(s)',
           ~(JoinRing /\ s = httpd.slot)
    PROVE  Present(s)
<1>1. Served(s) /\ client'[s].fd = client[s].fd BY Remains DEF Present
<1>2. PICK f \in Fds : f = client[s].fd BY <1>1 DEF Served, Sockets
<1>3. f # NoFd /\ session'[f] = "live" BY <1>1, <1>2 DEF Present, ws_fd_is_live
<1>4. session[f] = "live"
  <2>1. ASSUME NEW fd \in Fds, ws_on_connect(fd) PROVE session'[f] = session[f] \/ f = fd
    BY <2>1 DEF ws_on_connect, Sockets
  <2>2. ASSUME NEW fd \in Fds, ws_on_connect(fd) PROVE f # fd
    BY <1>1, <1>2, <2>2 DEF ws_on_connect, Sockets, Served
  <2>3. CASE \E fd \in Fds : ws_on_connect(fd) BY <1>3, <2>1, <2>2, <2>3
  <2>4. CASE \/ session' = session
             \/ \E fd : \/ session' = [session EXCEPT ![fd] = "closing"]
                        \/ session' = [session EXCEPT ![fd] = "dead"]
                        \/ session' = [session EXCEPT ![fd] = "none"]
    BY <1>3, <2>4 DEF Sockets
  <2> QED BY <2>3, <2>4 DEF Next, HttpdWork, HttpdCall, TxStep, StartSend, LeaveRing, JoinRing,
       ws_lru_touch_work, ws_sync_usb_capture_state, CloseSocket, ws_prune_stale_clients,
       SendFrame, FinishSend, Scan, PopClient, Claim, QueueWork, LruTouch,
       QueueTouch, StartPrune, UsbReset, UsbReceive,
       http_session_close, ws_handler_fails, PeerGone
<1> QED BY <1>1, <1>2, <1>3, <1>4 DEF Present, ws_fd_is_live

LEMMA OnceKept ==
    ASSUME TypeOK, Control, Counters, Once, Next
    PROVE  Once'
<1> SUFFICES ASSUME NEW s \in Slots, Served(s)', unclaimed'[s] # 0, Stale(s)' PROVE FALSE
  BY DEF Once
<1>1. CASE JoinRing /\ s = httpd.slot
  <2>1. unclaimed' = [unclaimed EXCEPT ![s] = 0] BY <1>1 DEF JoinRing
  <2> QED BY <2>1 DEF Counters
<1>2. CASE ~(JoinRing /\ s = httpd.slot)
  <2>1. Served(s) /\ client'[s].generation = client[s].generation BY <1>2, Remains
  <2>2. tx'.at \in {"pop", "claim"} /\ tx'.slot = s /\ tx'.generation # client[s].generation
    BY <2>1 DEF Stale
  <2>3. Stale(s) /\ ~Claim
    <3>1. CASE tx' = tx /\ ~Claim BY <2>2, <3>1 DEF Stale
    <3>2. CASE Scan
      <4>1. tx.slot \in Slots BY <3>2 DEF Scan, TypeOK
      <4>2. tx'.slot = tx.slot /\ tx'.generation = client[tx.slot].generation
        BY <2>2, <3>2, <4>1, NextSlotTyped DEF Scan
      <4> QED BY <2>2, <4>2
    <3>3. CASE PopClient
      <4>1. tx.slot \in Slots /\ tx.at = "pop" BY <3>3 DEF PopClient, TypeOK
      <4>2. tx'.slot = tx.slot /\ tx'.generation = tx.generation
        BY <2>2, <3>3, <4>1, NextSlotTyped DEF PopClient
      <4>3. ~Claim BY <4>1 DEF Claim
      <4> QED BY <2>2, <4>1, <4>2, <4>3 DEF Stale
    <3>4. CASE Claim \/ QueueWork \/ LruTouch \/ QueueTouch
      <4>1. tx.at \in {"claim", "queue"} => tx.slot \in Slots BY DEF TypeOK
      <4>2. tx'.at \notin {"pop", "claim"}
        BY <3>4, <4>1, NextSlotTyped DEF Claim, QueueWork, LruTouch, QueueTouch
      <4> QED BY <2>2, <4>2
    <3>5. TxStep \/ tx' = tx
      BY DEF Next, HttpdWork, HttpdCall, StartSend, LeaveRing, JoinRing,
       ws_lru_touch_work, ws_sync_usb_capture_state, CloseSocket, ws_prune_stale_clients,
       SendFrame, FinishSend, StartPrune, UsbReset, UsbReceive,
       ws_on_connect, http_session_close, ws_handler_fails, PeerGone
    <3> QED BY <3>1, <3>2, <3>3, <3>4, <3>5 DEF TxStep
  <2>4. unclaimed'[s] = unclaimed[s]
    <3>1. CASE JoinRing
      <4>1. unclaimed' = [unclaimed EXCEPT ![httpd.slot] = 0] BY <3>1 DEF JoinRing
      <4> QED BY <1>2, <3>1, <4>1
    <3>2. CASE unclaimed' = unclaimed BY <3>2
    <3> QED BY <2>3, <3>1, <3>2 DEF Next, HttpdWork, HttpdCall, TxStep, StartSend, LeaveRing,
       ws_lru_touch_work, ws_sync_usb_capture_state, CloseSocket, ws_prune_stale_clients,
       SendFrame, FinishSend, Scan, PopClient, QueueWork, LruTouch,
       QueueTouch, StartPrune, UsbReset, UsbReceive,
       ws_on_connect, http_session_close, ws_handler_fails, PeerGone, seen
  <2> QED BY <2>1, <2>3, <2>4 DEF Once
<1> QED BY <1>1, <1>2

-----------------------------------------------------------------------------
(* The account of a session.                                                *)

\* Bytes of the slot's session in its buffer.
Unsent(s) == Cardinality({i \in 1..Len(tx_data[s]) : tx_data[s][i] > since[s]})

\* The buffer holds a frame, or a pop that may become one.
Holding(s) == \/ client[s].in_flight /\ ~(httpd.at = "finish" /\ httpd.slot = s)
              \/ tx.at = "claim" /\ tx.slot = s

Account(s) ==
    /\ sent - since[s] = Len(delivered[s]) + InFrame(s) + Len(queue[s])
                         + lost[s] + failed[s] + unclaimed[s] + cleared[s]
    /\ unclaimed[s] <= MaxPop

LEMMA FrameCount ==
    ASSUME TypeOK, NEW s \in Slots
    PROVE  /\ InFrame(s) = IF Holding(s) THEN Unsent(s) ELSE 0
           /\ Unsent(s) \in Nat /\ Unsent(s) <= Len(tx_data[s]) /\ InFrame(s) \in Nat
           /\ Above(tx_data[s], since[s]) => Unsent(s) = Len(tx_data[s])
           /\ UpTo(tx_data[s], since[s]) => Unsent(s) = 0
<1>1. tx_data[s] \in Seq(Nat) /\ since[s] \in Nat BY DEF TypeOK
<1>2. /\ Unsent(s) \in Nat /\ Unsent(s) <= Len(tx_data[s])
      /\ Above(tx_data[s], since[s]) => Unsent(s) = Len(tx_data[s])
      /\ UpTo(tx_data[s], since[s]) => Unsent(s) = 0
  BY <1>1, Later DEF Unsent
<1>3. InFrame(s) = IF Holding(s) THEN Unsent(s) ELSE 0 BY DEF InFrame, Holding, Unsent
<1> QED BY <1>2, <1>3

\* The same after a step.
LEMMA FrameCountNext ==
    ASSUME TypeOK', NEW s \in Slots
    PROVE  /\ InFrame(s)' = IF Holding(s)' THEN Unsent(s)' ELSE 0
           /\ Above(tx_data[s], since[s])' => Unsent(s)' = Len(tx_data'[s])
           /\ UpTo(tx_data[s], since[s])' => Unsent(s)' = 0
<1>1. tx_data'[s] \in Seq(Nat) /\ since'[s] \in Nat BY DEF TypeOK
<1>2. PICK a \in Seq(Nat), n \in Nat : a = tx_data'[s] /\ n = since'[s] BY <1>1
<1>3. Unsent(s)' = Cardinality({i \in 1..Len(a) : a[i] > n}) BY <1>2 DEF Unsent
<1>4. /\ Above(a, n) => Unsent(s)' = Len(a)
      /\ UpTo(a, n) => Unsent(s)' = 0
  BY <1>3, Later
<1>5. (Above(tx_data[s], since[s])' => Above(a, n)) /\ (UpTo(tx_data[s], since[s])' => UpTo(a, n))
  BY <1>2 DEF Above, UpTo
<1>6. InFrame(s)' = IF Holding(s)' THEN Unsent(s)' ELSE 0 BY DEF InFrame, Holding, Unsent
<1> QED BY <1>2, <1>4, <1>5, <1>6

LEMMA Numbers ==
    ASSUME TypeOK, Counters, NEW s \in Slots
    PROVE  /\ sent \in Nat /\ since[s] \in Nat /\ Len(delivered[s]) \in Nat /\ Len(queue[s]) \in Nat
           /\ InFrame(s) \in Nat /\ lost[s] \in Nat /\ failed[s] \in Nat
           /\ unclaimed[s] \in Nat /\ cleared[s] \in Nat
<1>1. delivered[s] \in Seq(Nat) /\ queue[s] \in Seq(Nat) BY DEF TypeOK
<1> QED BY <1>1, FrameCount, LenProperties DEF TypeOK, Counters

\* A frame that stays where it is.
LEMMA FrameSame ==
    ASSUME NEW s \in Slots, Holding(s)' = Holding(s),
           tx_data'[s] = tx_data[s], since'[s] = since[s]
    PROVE  InFrame(s)' = InFrame(s)
<1>1. Unsent(s)' = Unsent(s) BY DEF Unsent
<1>2. InFrame(s) = IF Holding(s) THEN Unsent(s) ELSE 0 BY DEF InFrame, Holding, Unsent
<1>3. InFrame(s)' = IF Holding(s)' THEN Unsent(s)' ELSE 0 BY DEF InFrame, Holding, Unsent
<1> QED BY <1>1, <1>2, <1>3

\* A step that moves none of the session's bytes.
LEMMA AccountSame ==
    ASSUME NEW s \in Slots, Account(s), Holding(s)' = Holding(s), sent' = sent,
           tx_data'[s] = tx_data[s], since'[s] = since[s], queue'[s] = queue[s],
           delivered'[s] = delivered[s], lost'[s] = lost[s], failed'[s] = failed[s],
           unclaimed'[s] = unclaimed[s], cleared'[s] = cleared[s]
    PROVE  Account(s)'
<1>1. InFrame(s)' = InFrame(s) BY FrameSame
<1> QED BY <1>1 DEF Account

\* Begin of a session: nothing has been sent since, and what is in the buffer is older.
LEMMA AccountJoin ==
    ASSUME TypeOK, TypeOK', Counters, Past, JoinRing, NEW s \in Slots, s = httpd.slot
    PROVE  Account(s)'
<1>1. /\ sent' = sent /\ tx_data' = tx_data
      /\ since'[s] = sent /\ delivered'[s] = <<>> /\ queue'[s] = <<>>
  BY DEF JoinRing, Ring!Join, TypeOK
<1>2. UpTo(tx_data[s], since[s])' BY <1>1 DEF Past, UpTo
<1>3. InFrame(s)' = 0 BY <1>2, FrameCountNext
<1>4. /\ lost'[s] = 0 /\ failed'[s] = 0 /\ unclaimed'[s] = 0 /\ cleared'[s] = 0
  BY DEF JoinRing, Ring!Join, Counters
<1>5. Len(delivered'[s]) = 0 /\ Len(queue'[s]) = 0 BY <1>1
<1>6. PICK n \in Nat, m \in Nat : n = sent /\ m = MaxPop BY WsAssumption DEF TypeOK
<1>7. n - n = 0 + 0 + 0 + 0 + 0 + 0 + 0 /\ 0 <= m BY SMT
<1>8. /\ (sent - since[s] = Len(delivered[s]) + InFrame(s) + Len(queue[s])
                              + lost[s] + failed[s] + unclaimed[s] + cleared[s])'
      /\ unclaimed'[s] <= MaxPop
  BY <1>1, <1>3, <1>4, <1>5, <1>6, <1>7
<1> QED BY <1>8 DEF Account

\* A broadcast: each byte waits or takes the place of one that is lost.
LEMMA AccountReceive ==
    ASSUME TypeOK, TypeOK', Counters, NEW len \in 1..MaxChunk, UsbReceive(len), NEW s \in Slots,
           joined[s], since[s] <= sent, Account(s)
    PROVE  Account(s)'
<1>1. /\ Ring!Send(len) /\ sent' = sent + len
      /\ UNCHANGED <<client, tx_data, httpd, tx, since, delivered, failed, unclaimed, cleared>>
  BY DEF UsbReceive, Ring!Send, seen
<1>2. /\ lost'[s] \in Nat /\ Len(queue'[s]) \in Nat /\ len \in Nat
      /\ lost'[s] + Len(queue'[s]) = lost[s] + Len(queue[s]) + len
  BY <1>1, LostGrows
<1>3. Holding(s)' = Holding(s) BY <1>1 DEF Holding
<1>4. InFrame(s)' = InFrame(s) BY <1>1, <1>3, FrameSame
<1>5. PICK n \in Nat, b \in Nat, d \in Nat, i \in Nat, q \in Nat, l \in Nat, f \in Nat,
           u \in Nat, c \in Nat :
         /\ n = sent /\ b = since[s] /\ d = Len(delivered[s]) /\ i = InFrame(s)
         /\ q = Len(queue[s]) /\ l = lost[s] /\ f = failed[s] /\ u = unclaimed[s]
         /\ c = cleared[s]
  BY Numbers
<1>6. PICK q2 \in Nat, l2 \in Nat : q2 = Len(queue'[s]) /\ l2 = lost'[s] BY <1>2
<1>7. PICK k \in Nat : k = len BY <1>2
<1>8. n - b = d + i + q + l + f + u + c /\ l2 + q2 = l + q + k /\ b <= n
  BY <1>2, <1>5, <1>6, <1>7 DEF Account
<1>9. (n + k) - b = d + i + q2 + l2 + f + u + c BY <1>8, SMT
<1> QED BY <1>1, <1>4, <1>5, <1>6, <1>7, <1>9 DEF Account

\* What a reset takes is counted.
LEMMA AccountReset ==
    ASSUME TypeOK, Counters, UsbReset, NEW s \in Slots, Account(s)
    PROVE  Account(s)'
<1>1. /\ sent' = sent /\ queue'[s] = <<>> /\ lost' = lost
      /\ cleared'[s] = cleared[s] + Len(queue[s])
      /\ UNCHANGED <<client, tx_data, httpd, tx, since, delivered, failed, unclaimed>>
  BY DEF UsbReset, Ring!Discard
<1>2. Holding(s)' = Holding(s) BY <1>1 DEF Holding
<1>3. InFrame(s)' = InFrame(s) BY <1>1, <1>2, FrameSame
<1>4. PICK n \in Nat, b \in Nat, d \in Nat, i \in Nat, q \in Nat, l \in Nat, f \in Nat,
           u \in Nat, c \in Nat :
         /\ n = sent /\ b = since[s] /\ d = Len(delivered[s]) /\ i = InFrame(s)
         /\ q = Len(queue[s]) /\ l = lost[s] /\ f = failed[s] /\ u = unclaimed[s]
         /\ c = cleared[s]
  BY Numbers
<1>5. n - b = d + i + q + l + f + u + c BY <1>4 DEF Account
<1>6. n - b = d + i + 0 + l + f + u + (c + q) BY <1>5, SMT
<1>7. Len(queue'[s]) = 0 BY <1>1
<1> QED BY <1>1, <1>3, <1>4, <1>6, <1>7 DEF Account

\* A pop moves bytes of the session from the queue to the buffer.
LEMMA AccountPop ==
    ASSUME TypeOK, TypeOK', Control, Ordered, Counters, PopClient, NEW s \in Slots, Served(s),
           Account(s)
    PROVE  Account(s)'
<1>1. /\ tx.at = "pop" /\ tx.slot \in Slots
      /\ UNCHANGED <<client, httpd, since, delivered, failed, unclaimed, cleared>>
  BY DEF PopClient, TypeOK, seen
<1>2. PICK len : len = IF Len(queue[tx.slot]) < MaxPop THEN Len(queue[tx.slot]) ELSE MaxPop
  OBVIOUS
<1>3. CASE tx' = NextSlot(tx.slot) /\ UNCHANGED <<stream, tx_data>>
  <2>1. tx'.at \in {"scan", "lru"} BY <1>1, <1>3, NextSlotTyped
  <2>2. Holding(s)' = Holding(s) BY <1>1, <2>1 DEF Holding
  <2> QED BY <1>1, <1>3, <2>2, AccountSame DEF stream
<1>4. CASE /\ Ring!Receive(tx.slot, len)
           /\ tx_data' = [tx_data EXCEPT ![tx.slot] = SubSeq(queue[tx.slot], 1, len)]
           /\ tx' = [at |-> "claim", slot |-> tx.slot, fd |-> tx.fd,
                     generation |-> tx.generation, len |-> len]
  <2>1. /\ queue' = [queue EXCEPT ![tx.slot] = SubSeq(@, len + 1, Len(@))]
        /\ UNCHANGED <<sent, lost>> /\ tx'.at = "claim" /\ tx'.slot = tx.slot
    BY <1>4 DEF Ring!Receive
  <2>2. CASE s # tx.slot
    <3>1. queue'[s] = queue[s] /\ tx_data'[s] = tx_data[s] BY <1>1, <1>4, <2>1, <2>2 DEF TypeOK
    <3>2. Holding(s)' = Holding(s) BY <1>1, <2>1, <2>2 DEF Holding
    <3> QED BY <1>1, <2>1, <3>1, <3>2, AccountSame
  <2>3. CASE s = tx.slot
    <3>1. /\ queue'[s] = SubSeq(queue[s], len + 1, Len(queue[s]))
          /\ tx_data'[s] = SubSeq(queue[s], 1, len)
      BY <1>4, <2>1, <2>3 DEF TypeOK
    <3>2. len \in 0..Len(queue[s]) /\ Len(SubSeq(queue[s], 1, len)) = len
      BY <1>2, <2>3, Popped
    <3>3. queue[s] \in Seq(Nat) /\ since[s] \in Nat /\ Above(queue[s], since[s])
      BY DEF TypeOK, Ordered, InOrder
    <3>4. PICK q \in Nat : q = Len(queue[s]) BY <3>3, LenProperties
    <3>5. len \in Nat /\ len <= q BY <3>2, <3>4, SMT
    <3>6. Len(queue'[s]) = q - len
      <4> PICK l \in Nat : l = len + 1 /\ l >= 1 BY <3>5, SMT
      <4>0. q \in 0..q BY SMT
      <4> PICK r \in 0..Len(queue[s]) : r = q BY <3>4, <4>0
      <4>1. l = len + 1 /\ l >= 1 /\ r = q OBVIOUS
      <4>2. Len(SubSeq(queue[s], l, r)) = IF l <= r THEN r - l + 1 ELSE 0
        BY <3>3, <4>1, Part
      <4>3. (IF l <= r THEN r - l + 1 ELSE 0) = q - len BY <3>4, <3>5, <4>1, SMT
      <4> QED BY <3>1, <3>4, <4>1, <4>2, <4>3
    <3>7. Above(tx_data[s], since[s])'
      <4>1. Above(SubSeq(queue[s], 1, len), since[s])
        BY <3>2, <3>3, Part, 1 \in Nat, 1 >= 1
      <4> QED BY <1>1, <3>1, <4>1 DEF Above
    <3>8. InFrame(s) = 0
      <4>1. ~client[s].in_flight BY <1>1, <2>3 DEF Control, Popping
      <4> QED BY <1>1, <4>1, FrameCount DEF Holding
    <3>9. InFrame(s)' = len
      <4>1. Holding(s)' BY <2>1, <2>3 DEF Holding
      <4> QED BY <3>1, <3>2, <3>7, <4>1, FrameCountNext
    <3>10. PICK n \in Nat, b \in Nat, d \in Nat, l \in Nat, f \in Nat, u \in Nat, c \in Nat :
             /\ n = sent /\ b = since[s] /\ d = Len(delivered[s]) /\ l = lost[s]
             /\ f = failed[s] /\ u = unclaimed[s] /\ c = cleared[s]
      BY Numbers
    <3>11. n - b = d + 0 + q + l + f + u + c BY <3>4, <3>8, <3>10 DEF Account
    <3>12. PICK k \in Nat : k = len /\ k <= q BY <3>5
    <3>13. n - b = d + k + (q - k) + l + f + u + c BY <3>11, <3>12, SMT
    <3> QED BY <1>1, <2>1, <3>6, <3>9, <3>10, <3>12, <3>13 DEF Account
  <2> QED BY <2>2, <2>3
<1> QED BY <1>2, <1>3, <1>4 DEF PopClient

\* A claim keeps the bytes where they are; a pop that is thrown away is the one such loss
\* of the session, and has its counter.
LEMMA AccountClaim ==
    ASSUME TypeOK, Control, Owners, Once, Counters, Claim, NEW s \in Slots, Served(s), Account(s)
    PROVE  Account(s)'
<1>1. /\ tx.at = "claim" /\ tx.slot \in Slots /\ tx.len = Len(tx_data[tx.slot]) /\ tx.len <= MaxPop
      /\ ~client[tx.slot].in_flight
      /\ UNCHANGED <<sent, queue, lost, tx_data, httpd, since, delivered, failed, cleared>>
  BY DEF Claim, TypeOK, stream, Control, Lengths, Popping
<1>2. CASE /\ client' = [client EXCEPT ![tx.slot] =
                 [@ EXCEPT !.in_flight = TRUE, !.scheduled_fd = tx.fd,
                           !.scheduled_generation = tx.generation, !.tx_len = tx.len]]
           /\ tx' = [at |-> "queue", slot |-> tx.slot] /\ unclaimed' = unclaimed
  <2>1. tx'.at = "queue" BY <1>2
  <2>2. Holding(s)' = Holding(s)
    <3>1. CASE s = tx.slot
      <4>1. client'[s].in_flight BY <1>1, <1>2, <3>1 DEF TypeOK, ClientType
      <4>2. ~(httpd.at = "finish" /\ httpd.slot = s)
        BY <1>1, <3>1 DEF Control, Frames, Ending
      <4> QED BY <1>1, <3>1, <4>1, <4>2 DEF Holding
    <3>2. CASE s # tx.slot
      <4>1. client'[s] = client[s] BY <1>2, <3>2 DEF TypeOK
      <4> QED BY <1>1, <2>1, <3>2, <4>1 DEF Holding
    <3> QED BY <3>1, <3>2
  <2> QED BY <1>1, <1>2, <2>2, AccountSame
<1>3. CASE /\ ~QueuedOwner(client[tx.slot]) /\ client' = client /\ tx' = NextSlot(tx.slot)
           /\ unclaimed' = [unclaimed EXCEPT ![tx.slot] =
                @ + Cardinality({i \in 1..tx.len : tx_data[tx.slot][i] > since[tx.slot]})]
  <2>1. tx'.at \in {"scan", "lru"} BY <1>1, <1>3, NextSlotTyped
  <2>2. CASE s # tx.slot
    <3>1. Holding(s)' = Holding(s) BY <1>1, <1>3, <2>1, <2>2 DEF Holding
    <3>2. unclaimed'[s] = unclaimed[s] BY <1>3, <2>2 DEF Counters
    <3> QED BY <1>1, <1>3, <3>1, <3>2, AccountSame
  <2>3. CASE s = tx.slot
    <3>1. unclaimed'[s] = unclaimed[s] + Unsent(s)
      BY <1>1, <1>3, <2>3 DEF Counters, Unsent
    <3>2. InFrame(s) = Unsent(s) /\ Unsent(s) \in Nat /\ Unsent(s) <= Len(tx_data[s])
      BY <1>1, <2>3, FrameCount DEF Holding
    <3>3. InFrame(s)' = 0
      <4>1. ~Holding(s)' BY <1>1, <1>3, <2>1, <2>3 DEF Holding
      <4> QED BY <4>1 DEF InFrame, Holding
    <3>4. unclaimed[s] = 0
      <4>1. tx.generation # client[s].generation \/ tx.fd # client[s].fd
        BY <1>1, <1>3, <2>3 DEF QueuedOwner, Served
      <4>2. tx.generation # client[s].generation
        BY <1>1, <2>3, <4>1 DEF Owners, Served
      <4>3. Stale(s) BY <1>1, <2>3, <4>2 DEF Stale
      <4> QED BY <4>3 DEF Once
    <3>5. PICK n \in Nat, b \in Nat, d \in Nat, q \in Nat, l \in Nat, f \in Nat, c \in Nat, x \in Nat :
             /\ n = sent /\ b = since[s] /\ d = Len(delivered[s]) /\ q = Len(queue[s])
             /\ l = lost[s] /\ f = failed[s] /\ c = cleared[s] /\ x = Unsent(s)
      BY <3>2, Numbers
    <3>6. n - b = d + x + q + l + f + 0 + c BY <3>2, <3>4, <3>5 DEF Account
    <3>7. n - b = d + 0 + q + l + f + (0 + x) + c BY <3>6, SMT
    <3>8. 0 + x <= MaxPop
      <4>1. PICK m \in Nat, p \in Nat : m = Len(tx_data[s]) /\ p = MaxPop
        BY WsAssumption, LenProperties DEF TypeOK
      <4>2. x <= m /\ m <= p BY <1>1, <2>3, <3>2, <3>5, <4>1
      <4>3. 0 + x <= p BY <3>5, <4>2, SMT
      <4> QED BY <4>1, <4>3
    <3> QED BY <1>1, <3>1, <3>3, <3>4, <3>5, <3>7, <3>8 DEF Account
  <2> QED BY <2>2, <2>3
<1> QED BY <1>2, <1>3 DEF Claim

\* A frame that cannot be queued is counted by its length, which is that of the buffer.
LEMMA AccountQueue ==
    ASSUME TypeOK, Control, Ordered, Counters, QueueWork, NEW s \in Slots, Served(s), Account(s)
    PROVE  Account(s)'
<1>1. /\ tx.at = "queue" /\ tx.slot \in Slots
      /\ UNCHANGED <<sent, queue, lost, tx_data, httpd, since, delivered, unclaimed, cleared>>
  BY DEF QueueWork, TypeOK, stream
<1>2. tx'.at \in {"scan", "lru"} BY <1>1, NextSlotTyped DEF QueueWork
<1>3. CASE UNCHANGED <<client, failed>>
  <2>1. Holding(s)' = Holding(s) BY <1>1, <1>2, <1>3 DEF Holding
  <2> QED BY <1>1, <1>3, <2>1, AccountSame
<1>4. CASE /\ client' = [client EXCEPT ![tx.slot] = Unscheduled(@)]
           /\ failed' = [failed EXCEPT ![tx.slot] = @ + client[tx.slot].tx_len]
  <2>1. CASE s # tx.slot
    <3>1. client'[s] = client[s] /\ failed'[s] = failed[s]
      BY <1>4, <2>1 DEF TypeOK, Counters
    <3>2. Holding(s)' = Holding(s) BY <1>1, <1>2, <3>1 DEF Holding
    <3> QED BY <1>1, <3>1, <3>2, AccountSame
  <2>2. CASE s = tx.slot
    <3>1. WithTx(s) BY <1>1, <2>2 DEF WithTx
    <3>2. client[s].in_flight /\ ~Ending(s) /\ client[s].tx_len = Len(tx_data[s])
      BY <3>1 DEF Control, Frames, Lengths
    <3>3. Above(tx_data[s], since[s]) BY <3>1 DEF Ordered, InOrder, Pending, FrameInOrder
    <3>4. InFrame(s) = Len(tx_data[s])
      BY <3>2, <3>3, FrameCount DEF Holding, Ending
    <3>5. InFrame(s)' = 0
      <4>1. ~client'[s].in_flight BY <1>4, <2>2, FrameEnds
      <4> QED BY <1>2, <4>1 DEF InFrame
    <3>6. failed'[s] = failed[s] + Len(tx_data[s]) BY <1>4, <2>2, <3>2 DEF Counters
    <3>7. PICK n \in Nat, b \in Nat, d \in Nat, q \in Nat, l \in Nat, f \in Nat, u \in Nat,
               c \in Nat, x \in Nat :
             /\ n = sent /\ b = since[s] /\ d = Len(delivered[s]) /\ q = Len(queue[s])
             /\ l = lost[s] /\ f = failed[s] /\ u = unclaimed[s] /\ c = cleared[s]
             /\ x = Len(tx_data[s])
      BY <3>4, Numbers
    <3>8. n - b = d + x + q + l + f + u + c BY <3>4, <3>7 DEF Account
    <3>9. n - b = d + 0 + q + l + (f + x) + u + c BY <3>8, SMT
    <3> QED BY <1>1, <3>5, <3>6, <3>7, <3>9 DEF Account
  <2> QED BY <2>1, <2>2
<1> QED BY <1>3, <1>4 DEF QueueWork, DropFrame

\* A frame sent is delivered whole.  One that is not sent, or fails, had no live socket any
\* more, or has none afterwards.
LEMMA AccountSend ==
    ASSUME TypeOK, Control, Ordered, Counters, Sockets, Owners, SendFrame, NEW s \in Slots,
           Present(s), Present(s)', Account(s)
    PROVE  Account(s)'
<1>1. /\ httpd.at = "send" /\ httpd.slot \in Slots
      /\ UNCHANGED <<sent, queue, lost, tx, tx_data, since, unclaimed, cleared>>
  BY DEF SendFrame, TypeOK, stream
<1> DEFINE place == [at |-> "finish", slot |-> httpd.slot]
<1>2. PICK t \in Slots : t = httpd.slot BY <1>1
<1>3. Sending(t) /\ client[t].in_flight /\ ~(tx.at = "claim" /\ tx.slot = t)
  BY <1>1, <1>2 DEF Sending, Control, Frames, Popping
<1>4. CASE /\ delivered' = [delivered EXCEPT ![t] = @ \o SubSeq(tx_data[t], 1, httpd.len)]
           /\ httpd' = place /\ UNCHANGED <<client, failed>>
  <2>1. httpd'.at = "finish" /\ httpd'.slot = t BY <1>2, <1>4
  <2>2. CASE s # t
    <3>1. delivered'[s] = delivered[s] BY <1>4, <2>2 DEF TypeOK
    <3>2. Holding(s)' = Holding(s) BY <1>1, <1>4, <2>1, <2>2 DEF Holding
    <3> QED BY <1>1, <1>4, <3>1, <3>2, AccountSame
  <2>3. CASE s = t
    <3>1. httpd.len = Len(tx_data[s]) BY <1>3, <2>3 DEF Control, Lengths
    <3>2. tx_data[s] \in Seq(Nat) /\ delivered[s] \in Seq(Nat) BY DEF TypeOK
    <3>3. SubSeq(tx_data[s], 1, Len(tx_data[s])) = tx_data[s] BY <3>2, SMT
    <3>4. delivered'[s] = delivered[s] \o tx_data[s] BY <1>4, <2>3, <3>1, <3>3 DEF TypeOK
    <3>5. Len(delivered'[s]) = Len(delivered[s]) + Len(tx_data[s])
      BY <3>2, <3>4, ConcatProperties
    <3>6. Above(tx_data[s], since[s])
      BY <1>3, <2>3 DEF Ordered, InOrder, Pending, FrameInOrder, Present
    <3>7. InFrame(s) = Len(tx_data[s])
      BY <1>1, <1>3, <2>3, <3>6, FrameCount DEF Holding
    <3>8. InFrame(s)' = 0 BY <1>1, <1>3, <2>1, <2>3 DEF InFrame
    <3>9. PICK n \in Nat, b \in Nat, d \in Nat, q \in Nat, l \in Nat, f \in Nat, u \in Nat,
               c \in Nat, x \in Nat :
             /\ n = sent /\ b = since[s] /\ d = Len(delivered[s]) /\ q = Len(queue[s])
             /\ l = lost[s] /\ f = failed[s] /\ u = unclaimed[s] /\ c = cleared[s]
             /\ x = Len(tx_data[s])
      BY <3>7, Numbers
    <3>10. n - b = d + x + q + l + f + u + c BY <3>7, <3>9 DEF Account
    <3>11. n - b = (d + x) + 0 + q + l + f + u + c BY <3>10, SMT
    <3> QED BY <1>1, <1>4, <3>5, <3>8, <3>9, <3>11 DEF Account
  <2> QED BY <2>2, <2>3
<1>5. CASE /\ failed' = [failed EXCEPT ![t] = @ + httpd.len] /\ delivered' = delivered
           /\ Deactivate(httpd.fd, place)
           /\ session' = [session EXCEPT ![httpd.fd] = "closing"]
  <2>1. \/ client' = client /\ httpd' = place
        \/ httpd'.at = "leave"
    <3>1. CASE client' = client /\ httpd' = place BY <3>1
    <3>2. CASE \E u \in Slots : httpd' = [at |-> "leave", slot |-> u, next |-> place]
      <4>1. PICK u \in Slots : httpd' = [at |-> "leave", slot |-> u, next |-> place] BY <3>2
      <4> HIDE DEF place
      <4> QED BY <4>1
    <3>3. Deactivate(httpd.fd, place) BY <1>5
    <3> QED BY <3>1, <3>2, <3>3, GivenUp
  <2>2. client'[s].fd = client[s].fd /\ client'[s].in_flight = client[s].in_flight
    <3>1. client'[s].in_flight = client[s].in_flight BY <1>5, GivenUp DEF FrameKept
    <3>2. client'[s].fd = client[s].fd
      <4>1. CASE client' = client BY <4>1
      <4>2. ASSUME NEW u \in Slots,
                   client' = [client EXCEPT ![u] = [@ EXCEPT !.active = FALSE, !.fd = NoFd]]
            PROVE  client'[s].active => client'[s].fd = client[s].fd
        BY <4>2 DEF TypeOK, ClientType
      <4> QED BY <1>5, <4>1, <4>2, GivesUp DEF Present, Served
    <3> QED BY <3>1, <3>2
  <2>3. s # t
    <3> SUFFICES ASSUME s = t PROVE FALSE
      OBVIOUS
    <3>1. client[s].fd = httpd.fd BY <1>1, <1>2 DEF Owners, Present, Served
    <3>2. client[s].fd \in Fds BY DEF Sockets, Present, Served
    <3>3. session'[client'[s].fd] = "closing" BY <1>5, <2>2, <3>1, <3>2 DEF Sockets
    <3> QED BY <3>3 DEF Present, ws_fd_is_live
  <2>4. failed'[s] = failed[s] BY <1>5, <2>3 DEF Counters
  <2>5. Holding(s)' = Holding(s) BY <1>1, <1>2, <2>1, <2>2, <2>3 DEF Holding
  <2> QED BY <1>1, <1>5, <2>4, <2>5, AccountSame
<1>6. CASE /\ ~(httpd.should_send /\ ws_fd_is_live(httpd.fd))
           /\ httpd' = place /\ UNCHANGED <<client, session, delivered, failed>>
  <2>1. s # t BY <1>1, <1>2, <1>6 DEF Owners, Present, Served
  <2>2. httpd'.at = "finish" /\ httpd'.slot = t BY <1>2, <1>6
  <2>3. Holding(s)' = Holding(s) BY <1>1, <1>6, <2>1, <2>2 DEF Holding
  <2> QED BY <1>1, <1>6, <2>3, AccountSame
<1> QED BY <1>2, <1>4, <1>5, <1>6 DEF SendFrame

\* A step of the httpd task or of the surroundings that leaves frame and bytes alone.
LEMMA AccountStill ==
    ASSUME NEW s \in Slots, Account(s), client'[s].in_flight = client[s].in_flight,
           (httpd'.at = "finish" /\ httpd'.slot = s) <=> (httpd.at = "finish" /\ httpd.slot = s),
           (tx'.at = "claim" /\ tx'.slot = s) <=> (tx.at = "claim" /\ tx.slot = s),
           UNCHANGED <<stream, tx_data, seen>>
    PROVE  Account(s)'
<1>1. Holding(s)' = Holding(s) BY DEF Holding
<1> QED BY <1>1, AccountSame DEF stream, seen

\* The httpd task begins or ends a session, or closes a socket.
LEMMA AccountSession ==
    ASSUME TypeOK, Owners, NEW s \in Slots, Served(s), Served(s)', Account(s),
           ~(JoinRing /\ s = httpd.slot),
           \/ LeaveRing \/ JoinRing \/ ws_sync_usb_capture_state \/ CloseSocket
           \/ ws_prune_stale_clients \/ StartPrune
           \/ \E fd \in Fds : ws_on_connect(fd) \/ http_session_close(fd) \/ ws_handler_fails(fd)
    PROVE  Account(s)'
<1>1. ASSUME NEW fd, NEW place, Deactivate(fd, place), httpd.at \in {"idle", "prune"},
             place.at \in {"idle", "prune", "close"}, tx' = tx, UNCHANGED <<stream, tx_data, seen>>
      PROVE  Account(s)'
  <2>1. client'[s].in_flight = client[s].in_flight BY <1>1, GivenUp DEF FrameKept
  <2>2. CASE httpd' = place BY <1>1, <2>1, <2>2, AccountStill
  <2>3. ASSUME NEW u \in Slots, httpd' = [at |-> "leave", slot |-> u, next |-> place]
        PROVE  Account(s)'
    <3>1. httpd'.at = "leave" BY <2>3
    <3> QED BY <1>1, <2>1, <3>1, AccountStill
  <2> QED BY <1>1, <2>2, <2>3, GivenUp
<1>2. CASE LeaveRing
  <2>1. /\ httpd.at = "leave" /\ httpd.slot \in Slots /\ httpd'.at = "sync"
        /\ joined' = [joined EXCEPT ![httpd.slot] = FALSE]
        /\ queue' = [queue EXCEPT ![httpd.slot] = <<>>]
        /\ UNCHANGED <<sent, lost, client, tx_data, tx, seen>>
    BY <1>2 DEF LeaveRing, Ring!Leave, TypeOK
  <2>2. s # httpd.slot BY <2>1 DEF Served, TypeOK
  <2>3. queue'[s] = queue[s] BY <2>1, <2>2 DEF TypeOK
  <2>4. Holding(s)' = Holding(s) BY <2>1 DEF Holding
  <2> QED BY <2>1, <2>3, <2>4, AccountSame DEF seen
<1>3. CASE JoinRing
  <2>1. /\ httpd.at = "join" /\ httpd'.at = "sync"
        /\ UNCHANGED <<sent, client, tx_data, tx>>
        /\ queue'[s] = queue[s] /\ lost'[s] = lost[s]
        /\ since'[s] = since[s] /\ delivered'[s] = delivered[s] /\ failed'[s] = failed[s]
        /\ unclaimed'[s] = unclaimed[s] /\ cleared'[s] = cleared[s]
    BY <1>3 DEF JoinRing, Ring!Join, TypeOK
  <2>2. Holding(s)' = Holding(s) BY <2>1 DEF Holding
  <2> QED BY <2>1, <2>2, AccountSame
<1>4. CASE ws_sync_usb_capture_state
  <2>1. httpd.at = "sync" /\ httpd' = httpd.next /\ UNCHANGED <<stream, client, tx_data, tx, seen>>
    BY <1>4 DEF ws_sync_usb_capture_state
  <2>2. httpd.next.at = "finish" => httpd.next.slot # s BY <2>1 DEF Owners, Served
  <2> QED BY <2>1, <2>2, AccountStill
<1>5. CASE CloseSocket
  <2>1. httpd.at = "close" /\ httpd'.at = "idle" /\ UNCHANGED <<stream, client, tx_data, tx, seen>>
    BY <1>5 DEF CloseSocket, Idle
  <2> QED BY <2>1, AccountStill
<1>6. CASE StartPrune
  <2>1. httpd.at = "idle" /\ httpd'.at = "prune" /\ UNCHANGED <<stream, client, tx_data, tx, seen>>
    BY <1>6 DEF StartPrune
  <2> QED BY <2>1, AccountStill
<1>7. CASE ws_prune_stale_clients
  <2>1. httpd.at = "prune" /\ UNCHANGED <<stream, tx_data, tx, seen>>
    BY <1>7 DEF ws_prune_stale_clients
  <2>2. CASE httpd' = Idle /\ client' = client
    <3>1. httpd'.at = "idle" BY <2>2 DEF Idle
    <3> QED BY <2>1, <2>2, <3>1, AccountStill
  <2>3. CASE \E fd : Deactivate(fd, httpd) BY <1>1, <2>1, <2>3
  <2> QED BY <1>7, <2>2, <2>3 DEF ws_prune_stale_clients
<1>8. ASSUME NEW fd \in Fds, ws_on_connect(fd) PROVE Account(s)'
  <2>1. httpd.at = "idle" /\ UNCHANGED <<stream, tx_data, tx, seen>> BY <1>8 DEF ws_on_connect
  <2>2. CASE UNCHANGED <<client, httpd>> BY <2>1, <2>2, AccountStill
  <2>3. ASSUME NEW u \in Slots, httpd' = [at |-> "join", slot |-> u, next |-> Idle],
               client' = [client EXCEPT ![u] =
                [@ EXCEPT !.fd = fd, !.active = TRUE, !.generation = NextGeneration(client[u]),
                          !.scheduled_fd = NoFd, !.scheduled_generation = 0, !.tx_len = 0]]
        PROVE  Account(s)'
    <3>1. httpd'.at = "join" BY <2>3
    <3>2. client'[s].in_flight = client[s].in_flight BY <2>3 DEF TypeOK, ClientType
    <3> QED BY <2>1, <3>1, <3>2, AccountStill
  <2> QED BY <1>8, <2>2, <2>3 DEF ws_on_connect, FreeSlots
<1>9. ASSUME NEW fd \in Fds, http_session_close(fd) PROVE Account(s)'
  <2>1. PICK place : place = [at |-> "close", fd |-> fd] OBVIOUS
  <2>2. /\ Deactivate(fd, place) /\ httpd.at = "idle" /\ UNCHANGED <<stream, tx_data, tx, seen>>
    BY <1>9, <2>1 DEF http_session_close
  <2>3. place.at = "close" BY <2>1
  <2> QED BY <1>1, <2>2, <2>3
<1>10. ASSUME NEW fd \in Fds, ws_handler_fails(fd) PROVE Account(s)'
  <2>1. /\ Deactivate(fd, Idle) /\ httpd.at = "idle" /\ UNCHANGED <<stream, tx_data, tx, seen>>
    BY <1>10 DEF ws_handler_fails
  <2>2. Idle.at = "idle" BY DEF Idle
  <2> QED BY <1>1, <2>1, <2>2
<1> QED BY <1>2, <1>3, <1>4, <1>5, <1>6, <1>7, <1>8, <1>9, <1>10

\* Frames are scheduled, begun and ended, and the sessions' ages refreshed.
LEMMA AccountWork ==
    ASSUME TypeOK, Control, NEW s \in Slots, Account(s),
           \/ StartSend \/ FinishSend \/ ws_lru_touch_work \/ Scan \/ LruTouch \/ QueueTouch
           \/ \E fd \in Fds : PeerGone(fd)
    PROVE  Account(s)'
<1>1. CASE StartSend
  <2>1. httpd.at = "idle" /\ httpd'.at = "send" /\ UNCHANGED <<stream, client, tx_data, tx, seen>>
    BY <1>1 DEF StartSend
  <2> QED BY <2>1, AccountStill
<1>2. CASE FinishSend
  <2>1. /\ httpd.at = "finish" /\ httpd'.at = "idle" /\ UNCHANGED <<stream, tx_data, tx, seen>>
        /\ client' = [client EXCEPT ![httpd.slot] = Unscheduled(@)]
    BY <1>2 DEF FinishSend, Idle
  <2>2. CASE s # httpd.slot
    <3>1. client'[s] = client[s] BY <2>1, <2>2 DEF TypeOK
    <3> QED BY <2>1, <2>2, <3>1, AccountStill
  <2>3. CASE s = httpd.slot
    <3>1. client[s].in_flight BY <2>1, <2>3 DEF Control, Frames, Ending
    <3>2. ~(tx.at = "claim" /\ tx.slot = s) BY <3>1 DEF Control, Popping
    <3>3. ~client'[s].in_flight BY <2>1, <2>3, FrameEnds
    <3>4. Holding(s)' = Holding(s) BY <2>1, <2>3, <3>2, <3>3 DEF Holding
    <3> QED BY <2>1, <3>4, AccountSame DEF stream, seen
  <2> QED BY <2>2, <2>3
<1>3. CASE \/ ws_lru_touch_work \/ \E fd \in Fds : PeerGone(fd)
  <2>1. UNCHANGED <<stream, client, tx_data, httpd, tx, seen>>
    BY <1>3 DEF ws_lru_touch_work, PeerGone
  <2> QED BY <2>1, AccountStill
<1>4. CASE Scan \/ LruTouch \/ QueueTouch
  <2>1. tx.at # "claim" /\ UNCHANGED <<stream, client, tx_data, httpd, seen>>
    BY <1>4 DEF Scan, LruTouch, QueueTouch
  <2>2. tx'.at # "claim"
    <3>1. CASE Scan
      <4>1. tx.slot \in Slots BY <3>1 DEF Scan, TypeOK
      <4> QED BY <3>1, <4>1, NextSlotTyped DEF Scan
    <3>2. CASE LruTouch \/ QueueTouch BY <3>2 DEF LruTouch, QueueTouch
    <3> QED BY <1>4, <3>1, <3>2
  <2> QED BY <2>1, <2>2, AccountStill
<1> QED BY <1>1, <1>2, <1>3, <1>4

LEMMA AccountKept ==
    ASSUME TypeOK, TypeOK', Control, Ordered, Counters, Sockets, Owners, Past, Once,
           BytesAccounted, Next
    PROVE  BytesAccounted'
<1> SUFFICES ASSUME NEW s \in Slots, Present(s)' PROVE Account(s)'
  BY DEF BytesAccounted, Present, Account
<1>1. CASE JoinRing /\ s = httpd.slot BY <1>1, AccountJoin
<1>2. CASE ~(JoinRing /\ s = httpd.slot)
  <2>1. Present(s) BY <1>2, Alive
  <2>2. Account(s) BY <2>1 DEF BytesAccounted, Present, Account
  <2>3. Served(s) /\ Served(s)' BY <2>1 DEF Present
  <2>4. ASSUME NEW len \in 1..MaxChunk, UsbReceive(len) PROVE Account(s)'
    BY <2>2, <2>3, <2>4, AccountReceive DEF Ordered, InOrder, Served
  <2>5. CASE UsbReset BY <2>2, <2>5, AccountReset
  <2>6. CASE PopClient BY <2>2, <2>3, <2>6, AccountPop
  <2>7. CASE Claim BY <2>2, <2>3, <2>7, AccountClaim
  <2>8. CASE QueueWork BY <2>2, <2>3, <2>8, AccountQueue
  <2>9. CASE SendFrame BY <2>1, <2>2, <2>9, AccountSend
  <2>10. CASE \/ StartSend \/ FinishSend \/ ws_lru_touch_work \/ Scan \/ LruTouch \/ QueueTouch
              \/ \E fd \in Fds : PeerGone(fd)
    BY <2>2, <2>10, AccountWork
  <2>11. CASE \/ LeaveRing \/ JoinRing \/ ws_sync_usb_capture_state \/ CloseSocket
              \/ ws_prune_stale_clients \/ StartPrune
              \/ \E fd \in Fds : ws_on_connect(fd) \/ http_session_close(fd) \/ ws_handler_fails(fd)
    BY <1>2, <2>2, <2>3, <2>11, AccountSession
  <2> QED BY <2>4, <2>5, <2>6, <2>7, <2>8, <2>9, <2>10, <2>11
       DEF Next, HttpdWork, HttpdCall, TxStep
<1> QED BY <1>1, <1>2

LEMMA AccountInit ==
    ASSUME Init
    PROVE  AccountIInv
<1>1. Counters BY DEF Init, Ring!Init, Counters
<1>2. \A s \in Slots : ~client[s].active BY DEF Init, FreeClient
<1>3. httpd.at = "idle" /\ tx.at = "scan" BY DEF Init, Idle
<1>4. Sockets BY <1>2, <1>3 DEF Sockets, Init
<1>5. Owners BY <1>2, <1>3 DEF Owners
<1>6. Past BY DEF Init, Ring!Init, Past, UpTo
<1>7. Once BY <1>3 DEF Once, Stale
<1>8. BytesAccounted BY <1>2 DEF BytesAccounted, Served
<1> QED BY <1>1, <1>4, <1>5, <1>6, <1>7, <1>8 DEF AccountIInv

LEMMA AccountInductive == Spec => []AccountIInv
<1>1. Init => AccountIInv BY AccountInit
<1>2. IInv /\ IInv' /\ AccountIInv /\ [Next]_vars => AccountIInv'
  <2> SUFFICES ASSUME IInv, IInv', AccountIInv, [Next]_vars PROVE AccountIInv'
    OBVIOUS
  <2>1. TypeOK /\ TypeOK' /\ Control /\ Ordered BY DEF IInv, Control
  <2>2. CASE Next
    <3>1. Counters' BY <2>1, <2>2, CountersKept DEF AccountIInv
    <3>2. Sockets' BY <2>1, <2>2, SocketsKept DEF AccountIInv
    <3>3. Owners' BY <2>1, <2>2, OwnersKept DEF AccountIInv
    <3>4. Past' BY <2>1, <2>2, PastKept DEF AccountIInv
    <3>5. Once' BY <2>1, <2>2, OnceKept DEF AccountIInv
    <3>6. BytesAccounted' BY <2>1, <2>2, AccountKept DEF AccountIInv
    <3> QED BY <3>1, <3>2, <3>3, <3>4, <3>5, <3>6 DEF AccountIInv
  <2>3. CASE UNCHANGED vars
    <3>1. Counters' BY <2>3 DEF AccountIInv, Counters, vars, stream, seen
    <3>2. Sockets' BY <2>3 DEF AccountIInv, Sockets, vars, Held, Holds
    <3>3. Owners' BY <2>3 DEF AccountIInv, Owners, vars
    <3>4. Past' BY <2>3 DEF AccountIInv, Past, UpTo, vars, stream
    <3>5. Once' BY <2>3 DEF AccountIInv, Once, Stale, Served, vars, stream, seen
    <3>6. BytesAccounted'
      <4> SUFFICES ASSUME NEW s \in Slots, Present(s)' PROVE Account(s)'
        BY DEF BytesAccounted, Present, Account
      <4>1. Present(s) BY <2>3 DEF Present, Served, ws_fd_is_live, vars, stream
      <4>2. Account(s) BY <4>1 DEF AccountIInv, BytesAccounted, Present, Account
      <4> QED BY <2>3, <4>2, AccountStill DEF vars
    <3> QED BY <3>1, <3>2, <3>3, <3>4, <3>5, <3>6 DEF AccountIInv
  <2> QED BY <2>2, <2>3
<1> QED BY <1>1, <1>2, Inductive, PTL DEF Spec

\* For a browser that is there, every byte broadcast since it joined was sent to it, waits,
\* lies in its frame or is in a drop counter; what ws_tx_task throws away uncounted when a
\* slot changes hands between pop and claim is one buffer of the new session at most.
THEOREM NothingUncounted == Spec => []BytesAccounted
<1>1. AccountIInv => BytesAccounted BY DEF AccountIInv
<1> QED BY <1>1, AccountInductive, PTL
=============================================================================
