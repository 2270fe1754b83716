--------------------------- MODULE DeviceInfo_proof ---------------------------
(***************************************************************************)
(* What the bridge knows of its device, for any number of devices, requests  *)
(* and tasks that ask.                                                      *)
(***************************************************************************)
EXTENDS DeviceInfo, SequenceTheorems, TLAPS

DeviceEvents == [event : {"new", "gone"}, dev : Nat]
Answers == {"none", "invalid", "not_found", "ok", "timeout"}
Tasks == {"events", "pending", "refresh", "scan", "open", "store", "answer", "give"}
SinceRecords == [begun : BOOLEAN, written : BOOLEAN, own : BOOLEAN]
RequestRecords == [at : {"idle", "lock", "ask", "wait", "read", "done"}, answer : Answers]

TypeOK ==
    /\ here \in Nat /\ came \in Nat /\ cdc \in Nat
    /\ cdc_queue \in Seq(DeviceEvents) /\ info_queue \in Seq(Nat)
    /\ info \in [at : Tasks, dev : Nat, result : Answers, scanning : BOOLEAN]
    /\ s_device_info \in [valid : BOOLEAN, dev : Nat]
    /\ s_info_pending_addr \in Nat /\ s_info_refresh_requested \in BOOLEAN
    /\ s_info_refresh_result \in Answers /\ s_info_request_done \in BOOLEAN
    /\ s_info_request_mutex \in Requesters \cup {NoOne}
    /\ request \in [Requesters -> RequestRecords]
    /\ requests \in Nat /\ since \in SinceRecords /\ failed \in BOOLEAN

-----------------------------------------------------------------------------
(* Every variable keeps its type.                                           *)

LEMMA LastOfAppend ==
    ASSUME NEW S, NEW s \in Seq(S), NEW e \in S
    PROVE  /\ Append(s, e) \in Seq(S) /\ Append(s, e) # <<>>
           /\ Append(s, e)[Len(Append(s, e))] = e
<1>1. /\ Append(s, e) \in Seq(S) /\ Append(s, e) # <<>> /\ Len(Append(s, e)) = Len(s) + 1
      /\ Append(s, e)[Len(s) + 1] = e
  BY AppendProperties
<1> QED BY <1>1

LEMMA LastElement ==
    ASSUME NEW S, NEW s \in Seq(S), s # <<>>
    PROVE  /\ s[Len(s)] \in S /\ Head(s) \in S /\ Tail(s) \in Seq(S)
           /\ Tail(s) # <<>> => Tail(s)[Len(Tail(s))] = s[Len(s)]
           /\ Tail(s) = <<>> => Head(s) = s[Len(s)]
<1>1. Len(s) \in Nat \ {0} BY EmptySeq
<1>2. /\ Head(s) \in S /\ Tail(s) \in Seq(S) /\ Head(s) = s[1] /\ Len(Tail(s)) = Len(s) - 1
      /\ \A i \in 1 .. Len(Tail(s)) : Tail(s)[i] = s[i + 1]
  BY <1>1, HeadTailProperties
<1>3. s[Len(s)] \in S BY <1>1, ElementOfSeq
<1>4. ASSUME Tail(s) # <<>> PROVE Tail(s)[Len(Tail(s))] = s[Len(s)]
  <2>1. Len(Tail(s)) \in Nat \ {0} BY <1>2, <1>4, EmptySeq
  <2>2. Len(Tail(s)) \in 1..Len(Tail(s)) /\ Len(Tail(s)) + 1 = Len(s) BY <1>1, <1>2, <2>1, SMT
  <2> QED BY <1>2, <2>2
<1>5. ASSUME Tail(s) = <<>> PROVE Head(s) = s[Len(s)]
  <2>1. Len(s) - 1 = 0 BY <1>2, <1>5, EmptySeq
  <2>2. Len(s) = 1 BY <1>1, <2>1, SMT
  <2> QED BY <1>2, <2>2
<1> QED BY <1>2, <1>3, <1>4, <1>5

LEMMA PortTypes ==
    ASSUME TypeOK, Plug \/ Unplug \/ NewDevice \/ StoreNewDevice \/ DeviceGone
    PROVE  TypeOK'
<1> USE DEF port, shared
<1>1. CASE Plug
  <2>1. came + 1 \in Nat BY DEF TypeOK
  <2>2. [event |-> "new", dev |-> came + 1] \in DeviceEvents BY <2>1 DEF DeviceEvents
  <2>3. cdc_queue' \in Seq(DeviceEvents) /\ info_queue' \in Seq(Nat)
    BY <1>1, <2>1, <2>2, AppendProperties DEF Plug, TypeOK
  <2> QED BY <1>1, <2>1, <2>3 DEF Plug, TypeOK
<1>2. CASE Unplug
  <2>1. [event |-> "gone", dev |-> here] \in DeviceEvents BY DEF TypeOK, DeviceEvents
  <2>2. cdc_queue' \in Seq(DeviceEvents)
    <3>1. Append(cdc_queue, [event |-> "gone", dev |-> here]) \in Seq(DeviceEvents)
      BY <2>1, AppendProperties DEF TypeOK
    <3> QED BY <1>2, <3>1 DEF Unplug, TypeOK
  <2>3. here' \in Nat BY <1>2 DEF Unplug, NoDevice
  <2> QED BY <1>2, <2>2, <2>3 DEF Unplug, TypeOK
<1>3. CASE NewDevice \/ DeviceGone
  <2>1. cdc_queue \in Seq(DeviceEvents) /\ cdc_queue # <<>>
    BY <1>3 DEF NewDevice, DeviceGone, TypeOK
  <2>2. Head(cdc_queue).dev \in Nat /\ Tail(cdc_queue) \in Seq(DeviceEvents)
    <3>1. Head(cdc_queue) \in DeviceEvents /\ Tail(cdc_queue) \in Seq(DeviceEvents)
      BY <2>1, LastElement
    <3> QED BY <3>1 DEF DeviceEvents
  <2> QED BY <1>3, <2>2 DEF NewDevice, DeviceGone, TypeOK
<1>4. CASE StoreNewDevice
  BY <1>4 DEF StoreNewDevice, TypeOK, NoDevice
<1> QED BY <1>1, <1>2, <1>3, <1>4

LEMMA InfoTypes ==
    ASSUME TypeOK, Info
    PROVE  TypeOK'
<1> USE DEF port, shared, NoDevice
<1>1. CASE HandleEvents
  <2>1. s_info_pending_addr' \in Nat
    <3>1. info_queue # <<>> => info_queue[Len(info_queue)] \in Nat BY LastElement DEF TypeOK
    <3> QED BY <1>1, <3>1 DEF HandleEvents, TypeOK
  <2>2. info_queue' \in Seq(Nat)
    <3>1. <<>> \in Seq(Nat) OBVIOUS
    <3> QED BY <1>1, <3>1 DEF HandleEvents
  <2>3. info' \in [at : Tasks, dev : Nat, result : Answers, scanning : BOOLEAN]
    BY <1>1 DEF HandleEvents, TypeOK, Tasks
  <2> QED BY <1>1, <2>1, <2>2, <2>3 DEF HandleEvents, TypeOK
\* The other steps change where the task is, and few variables with it.
<1>2. ASSUME info' \in [at : Tasks, dev : Nat, result : Answers, scanning : BOOLEAN],
             s_device_info' \in [valid : BOOLEAN, dev : Nat], s_info_pending_addr' \in Nat,
             s_info_refresh_requested' \in BOOLEAN, s_info_refresh_result' \in Answers,
             s_info_request_done' \in BOOLEAN, since' \in SinceRecords, failed' \in BOOLEAN,
             UNCHANGED <<port, cdc, s_info_request_mutex, request, requests>>
      PROVE  TypeOK'
  BY <1>2 DEF TypeOK
<1>3. /\ info \in [at : Tasks, dev : Nat, result : Answers, scanning : BOOLEAN]
      /\ s_device_info \in [valid : BOOLEAN, dev : Nat] /\ s_info_pending_addr \in Nat
      /\ s_info_refresh_requested \in BOOLEAN /\ s_info_refresh_result \in Answers
      /\ s_info_request_done \in BOOLEAN /\ since \in SinceRecords /\ failed \in BOOLEAN
      /\ here \in Nat
  BY DEF TypeOK
<1>4. CASE Pending
  <2>1. info' \in [at : Tasks, dev : Nat, result : Answers, scanning : BOOLEAN]
    BY <1>3, <1>4 DEF Pending, Tasks
  <2> QED BY <1>2, <1>3, <1>4, <2>1 DEF Pending
<1>5. CASE Refresh
  <2>1. info' \in [at : Tasks, dev : Nat, result : Answers, scanning : BOOLEAN]
    <3>1. PICK a \in Tasks : a = IF s_info_refresh_requested THEN "scan" ELSE "events"
      BY DEF Tasks
    <3>2. info' = [info EXCEPT !.at = a] BY <1>5, <3>1 DEF Refresh
    <3> QED BY <1>3, <3>2
  <2>2. since' \in SinceRecords BY <1>3, <1>5 DEF Refresh, SinceRecords
  <2> QED BY <1>2, <1>3, <1>5, <2>1, <2>2 DEF Refresh
<1>6. CASE Scan
  <2>1. info' \in [at : Tasks, dev : Nat, result : Answers, scanning : BOOLEAN]
    BY <1>3, <1>6 DEF Scan, Tasks, Answers
  <2> QED BY <1>2, <1>3, <1>6, <2>1 DEF Scan
<1>7. CASE Capture
  <2>1. PICK a \in Tasks : a = IF info.scanning THEN "answer" ELSE "refresh" BY DEF Tasks
  <2>2. \/ info' = [info EXCEPT !.at = "store"]
        \/ info' = [info EXCEPT !.at = a, !.result = "not_found", !.dev = 0]
    BY <1>7, <2>1 DEF Capture
  <2>3. info' \in [at : Tasks, dev : Nat, result : Answers, scanning : BOOLEAN]
    <3>1. "store" \in Tasks /\ "not_found" \in Answers /\ 0 \in Nat BY DEF Tasks, Answers
    <3>2. [info EXCEPT !.at = "store"]
             \in [at : Tasks, dev : Nat, result : Answers, scanning : BOOLEAN]
      BY <1>3, <3>1
    <3>3. [info EXCEPT !.at = a, !.result = "not_found", !.dev = 0]
             \in [at : Tasks, dev : Nat, result : Answers, scanning : BOOLEAN]
      BY <1>3, <2>1, <3>1
    <3> QED BY <2>2, <3>2, <3>3
  <2>4. failed' \in BOOLEAN BY <1>3, <1>7 DEF Capture
  <2> QED BY <1>2, <1>3, <1>7, <2>3, <2>4 DEF Capture
<1>8. CASE StoreCaptured
  <2>1. PICK a \in Tasks : a = IF info.scanning THEN "answer" ELSE "refresh" BY DEF Tasks
  <2>2. info' = [info EXCEPT !.at = a, !.result = "ok", !.dev = 0]
    BY <1>8, <2>1 DEF StoreCaptured
  <2>3. info' \in [at : Tasks, dev : Nat, result : Answers, scanning : BOOLEAN]
    BY <1>3, <2>2 DEF Answers
  <2>4. s_device_info' \in [valid : BOOLEAN, dev : Nat] BY <1>3, <1>8 DEF StoreCaptured
  <2> QED BY <1>2, <1>3, <1>8, <2>3, <2>4 DEF StoreCaptured
<1>9. CASE WriteResult
  <2>1. info' \in [at : Tasks, dev : Nat, result : Answers, scanning : BOOLEAN]
    BY <1>3, <1>9 DEF WriteResult, Tasks, Answers
  <2>2. s_info_refresh_result' \in Answers /\ since' \in SinceRecords
    BY <1>3, <1>9 DEF WriteResult, SinceRecords
  <2> QED BY <1>2, <1>3, <1>9, <2>1, <2>2 DEF WriteResult
<1>10. CASE Give
  <2>1. info' \in [at : Tasks, dev : Nat, result : Answers, scanning : BOOLEAN]
    BY <1>3, <1>10 DEF Give, Tasks
  <2> QED BY <1>2, <1>3, <1>10, <2>1 DEF Give
<1> QED BY <1>1, <1>4, <1>5, <1>6, <1>7, <1>8, <1>9, <1>10 DEF Info

LEMMA RequestTypes ==
    ASSUME TypeOK, NEW r \in Requesters, Request(r) \/ Requester(r)
    PROVE  TypeOK'
<1> USE DEF port, shared
<1>0. /\ request \in [Requesters -> RequestRecords] /\ request[r] \in RequestRecords
      /\ s_info_refresh_result \in Answers
  BY DEF TypeOK
<1>1. PICK q \in RequestRecords : request' = [request EXCEPT ![r] = q]
  <2>1. \A a \in {"idle", "lock", "ask", "wait", "read", "done"} :
           [request[r] EXCEPT !.at = a] \in RequestRecords
    BY <1>0 DEF RequestRecords
  <2>2. CASE Request(r)
    <3>1. [at |-> "lock", answer |-> "none"] \in RequestRecords BY DEF RequestRecords, Answers
    <3> QED BY <2>2, <3>1 DEF Request
  <2>3. CASE Lock(r)
    <3>1. [at |-> "idle", answer |-> "timeout"] \in RequestRecords BY DEF RequestRecords, Answers
    <3>2. \/ request' = [request EXCEPT ![r] = [request[r] EXCEPT !.at = "ask"]]
          \/ request' = [request EXCEPT ![r] = [at |-> "idle", answer |-> "timeout"]]
      BY <1>0, <2>3 DEF Lock
    <3> QED BY <2>1, <3>1, <3>2
  <2>4. CASE Ask(r)
    <3>1. request' = [request EXCEPT ![r] = [request[r] EXCEPT !.at = "wait"]]
      BY <1>0, <2>4 DEF Ask
    <3> QED BY <2>1, <3>1
  <2>5. CASE Wait(r)
    <3>1. [at |-> "idle", answer |-> "timeout"] \in RequestRecords BY DEF RequestRecords, Answers
    <3>2. \/ request' = [request EXCEPT ![r] = [request[r] EXCEPT !.at = "read"]]
          \/ request' = [request EXCEPT ![r] = [at |-> "idle", answer |-> "timeout"]]
      BY <1>0, <2>5 DEF Wait
    <3> QED BY <2>1, <3>1, <3>2
  <2>6. CASE Read(r)
    <3>1. [at |-> "done", answer |-> s_info_refresh_result] \in RequestRecords
      BY <1>0 DEF RequestRecords
    <3> QED BY <2>6, <3>1 DEF Read
  <2>7. CASE Release(r)
    <3>1. request' = [request EXCEPT ![r] = [request[r] EXCEPT !.at = "idle"]]
      BY <1>0, <2>7 DEF Release
    <3> QED BY <2>1, <3>1
  <2> QED BY <2>2, <2>3, <2>4, <2>5, <2>6, <2>7 DEF Requester
<1>2. request' \in [Requesters -> RequestRecords] BY <1>0, <1>1
<1>3. UNCHANGED <<port, cdc, info, s_device_info, s_info_pending_addr, failed>>
  BY DEF Request, Requester, Lock, Ask, Wait, Read, Release
<1>4. /\ requests' \in Nat /\ s_info_request_mutex' \in Requesters \cup {NoOne}
      /\ s_info_refresh_requested' \in BOOLEAN /\ s_info_refresh_result' \in Answers
      /\ s_info_request_done' \in BOOLEAN /\ since' \in SinceRecords
  <2>1. CASE Request(r) BY <2>1 DEF Request, TypeOK
  <2>2. CASE Lock(r) BY <2>2 DEF Lock, TypeOK
  <2>3. CASE Ask(r) BY <2>3 DEF Ask, TypeOK, Answers, NothingSince, SinceRecords
  <2>4. CASE Wait(r) BY <2>4 DEF Wait, TypeOK
  <2>5. CASE Read(r) BY <2>5 DEF Read, TypeOK
  <2>6. CASE Release(r) BY <2>6 DEF Release, TypeOK
  <2> QED BY <2>1, <2>2, <2>3, <2>4, <2>5, <2>6 DEF Requester
<1> QED BY <1>2, <1>3, <1>4 DEF TypeOK

LEMMA TypeStep == TypeOK /\ [Next]_vars => TypeOK'
<1>1. TypeOK /\ UNCHANGED vars => TypeOK' BY DEF vars, port, shared, TypeOK
<1> QED BY <1>1, PortTypes, InfoTypes, RequestTypes DEF Next

LEMMA InitType == Init => TypeOK
<1>1. <<>> \in Seq(DeviceEvents) /\ <<>> \in Seq(Nat) OBVIOUS
<1>2. [at |-> "idle", answer |-> "none"] \in RequestRecords BY DEF RequestRecords, Answers
<1>3. ASSUME Init PROVE request \in [Requesters -> RequestRecords]
  BY <1>2, <1>3 DEF Init
<1>4. ASSUME Init PROVE info \in [at : Tasks, dev : Nat, result : Answers, scanning : BOOLEAN]
  BY <1>4 DEF Init, Tasks, Answers, NoDevice
<1>5. ASSUME Init
      PROVE  /\ s_device_info \in [valid : BOOLEAN, dev : Nat] /\ s_info_refresh_result \in Answers
             /\ here \in Nat /\ came \in Nat /\ cdc \in Nat /\ s_info_pending_addr \in Nat
             /\ s_info_refresh_requested \in BOOLEAN /\ s_info_request_done \in BOOLEAN
             /\ requests \in Nat /\ since \in SinceRecords /\ failed \in BOOLEAN
             /\ s_info_request_mutex \in Requesters \cup {NoOne}
  BY <1>5 DEF Init, Answers, NoDevice, NothingSince, SinceRecords
<1>6. ASSUME Init PROVE cdc_queue \in Seq(DeviceEvents) /\ info_queue \in Seq(Nat)
  BY <1>1, <1>6 DEF Init
<1> QED BY <1>3, <1>4, <1>5, <1>6 DEF TypeOK

\* Whatever the two clients of the host and the tasks that ask do, every variable keeps its type.
THEOREM TypeCorrect == Spec => []TypeOK
BY InitType, TypeStep, PTL DEF Spec

-----------------------------------------------------------------------------
(* What a request is answered.                                              *)

\* Who is between taking the mutex and giving it back holds it, and "ok" stands in
\* s_info_refresh_result only if it was written since the holder asked.
HoldersHold ==
    \A r \in Requesters :
        request[r].at \in {"ask", "wait", "read", "done"} => s_info_request_mutex = r
OkMeansWritten == s_info_refresh_result = "ok" => since.written
FreshIInv == TypeOK /\ HoldersHold /\ OkMeansWritten /\ OkIsNotLeftOver

\* What does not touch the requests, and forgets no scan, leaves all of it.
LEMMA FreshKept ==
    ASSUME FreshIInv, TypeOK', OkMeansWritten', since.written => since'.written,
           UNCHANGED <<request, s_info_request_mutex>>
    PROVE  FreshIInv'
BY DEF FreshIInv, HoldersHold, OkIsNotLeftOver, Told

LEMMA FreshInfo ==
    ASSUME FreshIInv, TypeOK',
           Plug \/ Unplug \/ NewDevice \/ StoreNewDevice \/ DeviceGone \/ Info
    PROVE  FreshIInv'
<1>0. since \in SinceRecords BY DEF FreshIInv, TypeOK
<1>1. CASE WriteResult
  <2>1. since'.written = (since.written \/ info.result = "ok")
    BY <1>0, <1>1 DEF WriteResult, SinceRecords
  <2>2. s_info_refresh_result' = info.result /\ UNCHANGED <<request, s_info_request_mutex>>
    BY <1>1 DEF WriteResult
  <2>3. OkMeansWritten' /\ (since.written => since'.written)
    BY <2>1, <2>2 DEF OkMeansWritten
  <2> QED BY <2>2, <2>3, FreshKept
<1>2. CASE Plug \/ Unplug \/ NewDevice \/ StoreNewDevice \/ DeviceGone
  <2>1. UNCHANGED <<request, s_info_request_mutex, since, s_info_refresh_result>>
    BY <1>2 DEF Plug, Unplug, NewDevice, StoreNewDevice, DeviceGone, shared
  <2> QED BY <2>1, FreshKept DEF FreshIInv, OkMeansWritten
<1>3. CASE HandleEvents \/ Pending \/ Scan
  <2>1. UNCHANGED <<request, s_info_request_mutex, since, s_info_refresh_result>>
    BY <1>3 DEF HandleEvents, Pending, Scan, shared
  <2> QED BY <2>1, FreshKept DEF FreshIInv, OkMeansWritten
<1>4. CASE Capture \/ StoreCaptured \/ Give
  <2>1. UNCHANGED <<request, s_info_request_mutex, since, s_info_refresh_result>>
    BY <1>4 DEF Capture, StoreCaptured, Give, shared
  <2> QED BY <2>1, FreshKept DEF FreshIInv, OkMeansWritten
<1>5. CASE Refresh
  <2>1. /\ UNCHANGED <<request, s_info_request_mutex, s_info_refresh_result>>
        /\ since'.written = since.written
    BY <1>0, <1>5 DEF Refresh, SinceRecords
  <2> QED BY <2>1, FreshKept DEF FreshIInv, OkMeansWritten
<1> QED BY <1>1, <1>2, <1>3, <1>4, <1>5 DEF Info

LEMMA FreshRequest ==
    ASSUME FreshIInv, TypeOK', NEW r \in Requesters, Request(r) \/ Requester(r)
    PROVE  FreshIInv'
<1> USE DEF shared
<1>0. /\ \A q \in Requesters :
            request[q].at \in {"ask", "wait", "read", "done"} => s_info_request_mutex = q
      /\ \A q \in Requesters : request[q].at = "done" /\ request[q].answer = "ok" => since.written
      /\ s_info_refresh_result = "ok" => since.written
      /\ NoOne \notin Requesters /\ request \in [Requesters -> RequestRecords]
      /\ request[r] \in RequestRecords
  BY InfoAssumption DEF FreshIInv, HoldersHold, OkIsNotLeftOver, Told, OkMeansWritten, TypeOK
\* A step of r changes r's record only.
<1>1. ASSUME NEW p, request' = [request EXCEPT ![r] = p],
             p.at \in {"ask", "wait", "read", "done"} => s_info_request_mutex' = r,
             s_info_request_mutex' = s_info_request_mutex
             \/ \A q \in Requesters \ {r} : s_info_request_mutex # q,
             p.at = "done" /\ p.answer = "ok" => since'.written,
             since.written => since'.written \/ \A q \in Requesters \ {r} : request[q].at # "done",
             OkMeansWritten'
      PROVE  FreshIInv'
  <2>1. request'[r] = p /\ \A q \in Requesters \ {r} : request'[q] = request[q]
    BY <1>0, <1>1
  <2>2. HoldersHold'
    <3> SUFFICES ASSUME NEW q \in Requesters,
                        request'[q].at \in {"ask", "wait", "read", "done"}
                 PROVE  s_info_request_mutex' = q
      BY DEF HoldersHold
    <3>1. CASE q = r BY <1>1, <2>1, <3>1
    <3>2. CASE q # r BY <1>0, <1>1, <2>1, <3>2
    <3> QED BY <3>1, <3>2
  <2>3. OkIsNotLeftOver'
    <3> SUFFICES ASSUME NEW q \in Requesters, request'[q].at = "done", request'[q].answer = "ok"
                 PROVE  since'.written
      BY DEF OkIsNotLeftOver, Told
    <3>1. CASE q = r BY <1>1, <2>1, <3>1
    <3>2. CASE q # r BY <1>0, <1>1, <2>1, <3>2
    <3> QED BY <3>1, <3>2
  <2> QED BY <1>1, <2>2, <2>3 DEF FreshIInv
<1>2. CASE Request(r)
  <2>1. /\ request' = [request EXCEPT ![r] = [at |-> "lock", answer |-> "none"]]
        /\ UNCHANGED <<s_info_request_mutex, since, s_info_refresh_result>>
    BY <1>2 DEF Request
  <2> QED BY <1>0, <1>1, <2>1 DEF OkMeansWritten
<1>3. CASE Lock(r)
  <2>0. UNCHANGED <<since, s_info_refresh_result>> BY <1>3 DEF Lock
  <2>1. CASE s_info_request_mutex = NoOne
    <3>1. s_info_request_mutex' = r /\ request' = [request EXCEPT ![r] = [request[r] EXCEPT !.at = "ask"]]
      BY <1>0, <1>3, <2>1 DEF Lock
    <3>2. [request[r] EXCEPT !.at = "ask"].at = "ask" BY <1>0 DEF RequestRecords
    <3> QED BY <1>0, <1>1, <2>0, <2>1, <3>1, <3>2 DEF OkMeansWritten
  <2>2. CASE s_info_request_mutex # NoOne
    <3>1. /\ request' = [request EXCEPT ![r] = [at |-> "idle", answer |-> "timeout"]]
          /\ UNCHANGED s_info_request_mutex
      BY <1>3, <2>2 DEF Lock
    <3> QED BY <1>0, <1>1, <2>0, <3>1 DEF OkMeansWritten
  <2> QED BY <2>1, <2>2
<1>4. CASE Ask(r)
  <2>1. /\ request' = [request EXCEPT ![r] = [request[r] EXCEPT !.at = "wait"]]
        /\ UNCHANGED s_info_request_mutex /\ s_info_refresh_result' = "invalid"
        /\ request[r].at = "ask"
    BY <1>0, <1>4 DEF Ask
  <2>2. [request[r] EXCEPT !.at = "wait"].at = "wait" BY <1>0 DEF RequestRecords
  <2>3. s_info_request_mutex = r BY <1>0, <2>1
  <2>4. \A q \in Requesters \ {r} : request[q].at # "done" BY <1>0, <2>3
  <2>5. OkMeansWritten' BY <2>1 DEF OkMeansWritten
  <2> QED BY <1>1, <2>1, <2>2, <2>3, <2>4, <2>5
<1>5. CASE Wait(r)
  <2>0. /\ request[r].at = "wait" /\ s_info_request_mutex = r
        /\ UNCHANGED <<since, s_info_refresh_result>>
    BY <1>0, <1>5 DEF Wait
  <2>1. CASE s_info_request_done
    <3>1. /\ request' = [request EXCEPT ![r] = [request[r] EXCEPT !.at = "read"]]
          /\ UNCHANGED s_info_request_mutex
      BY <1>0, <1>5, <2>1 DEF Wait
    <3>2. [request[r] EXCEPT !.at = "read"].at = "read" BY <1>0 DEF RequestRecords
    <3> QED BY <1>0, <1>1, <2>0, <3>1, <3>2 DEF OkMeansWritten
  <2>2. CASE ~s_info_request_done
    <3>1. /\ request' = [request EXCEPT ![r] = [at |-> "idle", answer |-> "timeout"]]
          /\ s_info_request_mutex' = NoOne
      BY <1>5, <2>2 DEF Wait
    <3> QED BY <1>0, <1>1, <2>0, <3>1 DEF OkMeansWritten
  <2> QED BY <2>1, <2>2
<1>6. CASE Read(r)
  <2>1. /\ request' = [request EXCEPT ![r] = [at |-> "done", answer |-> s_info_refresh_result]]
        /\ UNCHANGED <<s_info_request_mutex, since, s_info_refresh_result>>
        /\ request[r].at = "read"
    BY <1>6 DEF Read
  <2>2. s_info_request_mutex = r BY <1>0, <2>1
  <2> QED BY <1>0, <1>1, <2>1, <2>2 DEF OkMeansWritten
<1>7. CASE Release(r)
  <2>1. /\ request' = [request EXCEPT ![r] = [request[r] EXCEPT !.at = "idle"]]
        /\ s_info_request_mutex' = NoOne /\ UNCHANGED <<since, s_info_refresh_result>>
        /\ request[r].at = "done"
    BY <1>0, <1>7 DEF Release
  <2>2. [request[r] EXCEPT !.at = "idle"].at = "idle" BY <1>0 DEF RequestRecords
  <2>3. s_info_request_mutex = r BY <1>0, <2>1
  <2> QED BY <1>0, <1>1, <2>1, <2>2, <2>3 DEF OkMeansWritten
<1> QED BY <1>2, <1>3, <1>4, <1>5, <1>6, <1>7 DEF Requester

LEMMA FreshStep == FreshIInv /\ [Next]_vars => FreshIInv'
<1>0. FreshIInv /\ [Next]_vars => TypeOK' BY TypeStep DEF FreshIInv
<1>1. FreshIInv /\ UNCHANGED vars /\ TypeOK' => FreshIInv'
  <2>1. UNCHANGED vars /\ FreshIInv => OkMeansWritten' BY DEF vars, shared, FreshIInv, OkMeansWritten
  <2> QED BY <2>1, FreshKept DEF vars
<1> QED BY <1>0, <1>1, FreshInfo, FreshRequest DEF Next

\* A request is told "ok" only if usb_info_task, after that request asked, has written that a
\* scan found a device: what an earlier request left in s_info_refresh_result, or its give, is
\* never taken for an answer, whoever asks and in which order.  That the scan also began after
\* the request asked is not true of the code (OkIsFresh).
THEOREM NoLeftOverAnswer == Spec => []OkIsNotLeftOver
<1>1. Init => FreshIInv
  BY InitType DEF Init, FreshIInv, HoldersHold, OkMeansWritten, OkIsNotLeftOver, Told
<1>2. FreshIInv => OkIsNotLeftOver BY DEF FreshIInv
<1> QED BY <1>1, <1>2, FreshStep, PTL DEF Spec

-----------------------------------------------------------------------------
(* The information catches up with the port.                                *)

LastOf(s) == s[Len(s)]

\* usb_info_task has an address in hand only between reading its events and looking at it.
AddressTaken == info.at # "pending" => s_info_pending_addr = NoDevice

\* What is on its way to the CDC driver's task ends with the device that is here, which it
\* stores last.
CdcTold ==
    here # NoDevice =>
        /\ cdc_queue # <<>> => LastOf(cdc_queue) = [event |-> "new", dev |-> here]
        /\ cdc_queue = <<>> /\ cdc # NoDevice => cdc = here

\* As long as usb_info_task works on a device that has gone, the one here waits for it.
InfoTold ==
    here # NoDevice =>
        /\ info_queue # <<>> => LastOf(info_queue) = here
        /\ info.at = "pending" /\ s_info_pending_addr \notin {NoDevice, here} => info_queue # <<>>
        /\ info.at \in {"open", "store"} /\ info.dev # here => info_queue # <<>>

\* It has still to look at the device that is here.
InfoOwes ==
    \/ info_queue # <<>>
    \/ s_info_pending_addr = here
    \/ info.at \in {"open", "store"} /\ info.dev = here

KnownOrOwed ==
    here # NoDevice /\ ~failed /\ cdc_queue = <<>> /\ cdc = NoDevice =>
        s_device_info = [valid |-> TRUE, dev |-> here] \/ InfoOwes

CatchesIInv == TypeOK /\ AddressTaken /\ CdcTold /\ InfoTold /\ KnownOrOwed

LEMMA CatchesPort ==
    ASSUME CatchesIInv, Plug \/ Unplug
    PROVE  AddressTaken' /\ CdcTold' /\ InfoTold' /\ KnownOrOwed'
<1>0. cdc_queue \in Seq(DeviceEvents) /\ info_queue \in Seq(Nat) /\ came \in Nat
  BY DEF CatchesIInv, TypeOK
<1>1. CASE Plug
  <2>1. [event |-> "new", dev |-> came + 1] \in DeviceEvents /\ came + 1 \in Nat
    BY <1>0 DEF DeviceEvents
  <2>2. /\ here' = came + 1
        /\ cdc_queue' = Append(cdc_queue, [event |-> "new", dev |-> came + 1])
        /\ info_queue' = Append(info_queue, came + 1)
        /\ UNCHANGED <<info, s_info_pending_addr>>
    BY <1>1 DEF Plug, shared
  <2>3. /\ cdc_queue' # <<>> /\ LastOf(cdc_queue)' = [event |-> "new", dev |-> here']
        /\ info_queue' # <<>> /\ LastOf(info_queue)' = here'
    BY <1>0, <2>1, <2>2, LastOfAppend DEF LastOf
  <2> QED BY <2>2, <2>3 DEF CatchesIInv, AddressTaken, CdcTold, InfoTold, KnownOrOwed
<1>2. CASE Unplug
  <2>1. here' = NoDevice /\ UNCHANGED <<info, s_info_pending_addr>> BY <1>2 DEF Unplug, shared
  <2> QED BY <2>1 DEF CatchesIInv, AddressTaken, CdcTold, InfoTold, KnownOrOwed
<1> QED BY <1>1, <1>2

LEMMA CatchesCdc ==
    ASSUME CatchesIInv, NewDevice \/ StoreNewDevice \/ DeviceGone
    PROVE  AddressTaken' /\ CdcTold' /\ InfoTold' /\ KnownOrOwed'
<1>0. cdc_queue \in Seq(DeviceEvents) /\ here \in Nat BY DEF CatchesIInv, TypeOK
<1>1. AddressTaken' /\ InfoTold' /\ UNCHANGED <<here, info, info_queue, s_info_pending_addr, failed>>
  BY DEF NewDevice, StoreNewDevice, DeviceGone, port, shared, CatchesIInv, AddressTaken, InfoTold,
         LastOf
\* What is left of the queue ends like it; when nothing is left, its one event was the last.
<1>2. ASSUME NewDevice \/ DeviceGone, here # NoDevice
      PROVE  /\ cdc_queue' # <<>> => LastOf(cdc_queue)' = [event |-> "new", dev |-> here]
             /\ cdc_queue' = <<>> => Head(cdc_queue) = [event |-> "new", dev |-> here]
  <2>1. cdc_queue # <<>> /\ cdc_queue' = Tail(cdc_queue) BY <1>2 DEF NewDevice, DeviceGone
  <2>2. LastOf(cdc_queue) = [event |-> "new", dev |-> here]
    BY <1>2, <2>1 DEF CatchesIInv, CdcTold
  <2>3. /\ Tail(cdc_queue) # <<>> => Tail(cdc_queue)[Len(Tail(cdc_queue))] = cdc_queue[Len(cdc_queue)]
        /\ Tail(cdc_queue) = <<>> => Head(cdc_queue) = cdc_queue[Len(cdc_queue)]
    BY <1>0, <2>1, LastElement
  <2> QED BY <2>1, <2>2, <2>3 DEF LastOf
<1>3. CASE NewDevice
  <2>1. cdc' = Head(cdc_queue).dev BY <1>3 DEF NewDevice
  <2>2. ASSUME here # NoDevice, cdc_queue' = <<>> PROVE cdc' = here BY <1>2, <1>3, <2>1, <2>2
  <2>3. CdcTold' BY <1>1, <1>2, <1>3, <2>2 DEF CdcTold
  <2>4. KnownOrOwed' BY <1>1, <2>2 DEF KnownOrOwed
  <2> QED BY <1>1, <2>3, <2>4
<1>4. CASE DeviceGone
  <2>1. Head(cdc_queue).event = "gone" BY <1>4 DEF DeviceGone
  <2>2. ASSUME here # NoDevice PROVE cdc_queue' # <<>> BY <1>2, <1>4, <2>1, <2>2
  <2>3. CdcTold' /\ KnownOrOwed' BY <1>1, <1>2, <1>4, <2>2 DEF CdcTold, KnownOrOwed
  <2> QED BY <1>1, <2>3
<1>5. CASE StoreNewDevice
  <2>1. /\ cdc # NoDevice /\ cdc' = NoDevice /\ UNCHANGED cdc_queue
        /\ s_device_info' = [valid |-> TRUE, dev |-> cdc]
    BY <1>5 DEF StoreNewDevice, port
  <2>2. CdcTold' BY <1>1, <2>1 DEF CatchesIInv, CdcTold, LastOf
  <2>3. KnownOrOwed' BY <1>1, <2>1 DEF CatchesIInv, CdcTold, KnownOrOwed
  <2> QED BY <1>1, <2>2, <2>3
<1> QED BY <1>3, <1>4, <1>5

LEMMA CatchesInfo ==
    ASSUME CatchesIInv, Info
    PROVE  AddressTaken' /\ CdcTold' /\ InfoTold' /\ KnownOrOwed'
<1>0. /\ info_queue \in Seq(Nat) /\ here \in Nat /\ s_info_pending_addr \in Nat
      /\ info \in [at : Tasks, dev : Nat, result : Answers, scanning : BOOLEAN]
  BY DEF CatchesIInv, TypeOK
<1>1. CdcTold' /\ UNCHANGED <<here, cdc, cdc_queue>>
  BY DEF Info, HandleEvents, Pending, Refresh, Scan, Capture, StoreCaptured, WriteResult, Give,
         port, CatchesIInv, CdcTold, LastOf
<1>2. CASE HandleEvents
  <2>1. /\ info.at = "events" /\ info' = [info EXCEPT !.at = "pending"] /\ info_queue' = <<>>
        /\ s_info_pending_addr' = IF info_queue = <<>> THEN s_info_pending_addr
                                  ELSE LastOf(info_queue)
        /\ UNCHANGED <<s_device_info, failed>>
    BY <1>2 DEF HandleEvents, LastOf
  <2>2. info'.at = "pending" BY <1>0, <2>1
  <2>3. s_info_pending_addr = NoDevice BY <2>1 DEF CatchesIInv, AddressTaken
  <2>4. here # NoDevice => s_info_pending_addr' \in {NoDevice, here}
    BY <2>1, <2>3 DEF CatchesIInv, InfoTold
  <2>5. here # NoDevice /\ info_queue # <<>> => s_info_pending_addr' = here
    BY <2>1 DEF CatchesIInv, InfoTold
  <2>6. AddressTaken' BY <2>2 DEF AddressTaken
  <2>7. InfoTold' BY <1>1, <2>1, <2>2, <2>4 DEF InfoTold
  <2>8. here # NoDevice /\ InfoOwes => InfoOwes'
    BY <1>1, <2>1, <2>3, <2>5 DEF InfoOwes
  <2>9. KnownOrOwed' BY <1>1, <2>1, <2>8 DEF CatchesIInv, KnownOrOwed
  <2> QED BY <1>1, <2>6, <2>7, <2>9
<1>3. CASE Pending
  <2>1. /\ info.at = "pending" /\ s_info_pending_addr' = NoDevice
        /\ UNCHANGED <<info_queue, s_device_info, failed>>
    BY <1>3 DEF Pending, port
  <2>2. AddressTaken' BY <2>1 DEF AddressTaken
  <2>3. CASE s_info_pending_addr = NoDevice
    <3>1. info' = [info EXCEPT !.at = "refresh"] BY <1>3, <2>3 DEF Pending
    <3>2. info'.at = "refresh" BY <1>0, <3>1
    <3>3. InfoTold' BY <1>1, <2>1, <3>2 DEF CatchesIInv, InfoTold, LastOf
    <3>4. here # NoDevice /\ InfoOwes => InfoOwes' BY <1>1, <2>1, <2>3 DEF InfoOwes
    <3> QED BY <1>1, <2>1, <2>2, <3>3, <3>4 DEF CatchesIInv, KnownOrOwed
  <2>4. CASE s_info_pending_addr # NoDevice
    <3>1. info' = [info EXCEPT !.at = "open", !.dev = s_info_pending_addr, !.scanning = FALSE]
      BY <1>3, <2>4 DEF Pending
    <3>2. info'.at = "open" /\ info'.dev = s_info_pending_addr BY <1>0, <3>1
    <3>3. InfoTold' BY <1>1, <2>1, <2>4, <3>2 DEF CatchesIInv, InfoTold, LastOf
    <3>4. here # NoDevice /\ InfoOwes => InfoOwes' BY <1>1, <2>1, <3>2 DEF InfoOwes
    <3> QED BY <1>1, <2>1, <2>2, <3>3, <3>4 DEF CatchesIInv, KnownOrOwed
  <2> QED BY <2>3, <2>4
\* The steps that neither begin nor end the work on an address.
<1>4. CASE Refresh \/ WriteResult \/ Give
  <2>1. /\ info.at \in {"refresh", "answer", "give"}
        /\ UNCHANGED <<info_queue, s_device_info, s_info_pending_addr, failed>>
    BY <1>4 DEF Refresh, WriteResult, Give, port
  <2>2. info'.at \in {"scan", "events", "give"}
    <3>1. CASE Refresh
      <4>1. PICK a \in {"scan", "events"} : a = IF s_info_refresh_requested THEN "scan" ELSE "events"
        OBVIOUS
      <4>2. info' = [info EXCEPT !.at = a] BY <3>1, <4>1 DEF Refresh
      <4> QED BY <1>0, <4>2
    <3>2. CASE WriteResult BY <1>0, <3>2 DEF WriteResult
    <3>3. CASE Give BY <1>0, <3>3 DEF Give
    <3> QED BY <1>4, <3>1, <3>2, <3>3
  <2>3. AddressTaken' BY <2>1, <2>2 DEF CatchesIInv, AddressTaken
  <2>4. InfoTold' BY <1>1, <2>1, <2>2 DEF CatchesIInv, InfoTold, LastOf
  <2>5. InfoOwes => InfoOwes' BY <1>1, <2>1 DEF InfoOwes
  <2> QED BY <1>1, <2>1, <2>3, <2>4, <2>5 DEF CatchesIInv, KnownOrOwed
<1>5. CASE Scan
  <2>1. /\ info.at = "scan" /\ UNCHANGED <<info_queue, s_device_info, s_info_pending_addr, failed>>
    BY <1>5 DEF Scan, port, shared
  <2>2. info'.at = "answer" \/ (info'.at = "open" /\ info'.dev = here)
    <3>1. CASE here = NoDevice
      <4>1. info' = [info EXCEPT !.at = "answer", !.result = "not_found"] BY <1>5, <3>1 DEF Scan
      <4>2. info'.at = "answer" BY <1>0, <4>1
      <4> QED BY <4>2
    <3>2. CASE here # NoDevice
      <4>1. info' = [info EXCEPT !.at = "open", !.dev = here, !.scanning = TRUE]
        BY <1>5, <3>2 DEF Scan
      <4> QED BY <1>0, <4>1
    <3> QED BY <3>1, <3>2
  <2>3. AddressTaken' BY <2>1, <2>2 DEF CatchesIInv, AddressTaken
  <2>4. InfoTold' BY <1>1, <2>1, <2>2 DEF CatchesIInv, InfoTold, LastOf
  <2>5. InfoOwes => InfoOwes' BY <1>1, <2>1 DEF InfoOwes
  <2> QED BY <1>1, <2>1, <2>3, <2>4, <2>5 DEF CatchesIInv, KnownOrOwed
<1>6. CASE Capture
  <2>1. info.at = "open" /\ UNCHANGED <<info_queue, s_device_info, s_info_pending_addr>>
    BY <1>6 DEF Capture, port, shared
  <2>2. CASE info' = [info EXCEPT !.at = "store"] /\ UNCHANGED failed
    <3>1. info'.at = "store" /\ info'.dev = info.dev BY <1>0, <2>2
    <3>2. AddressTaken' BY <2>1, <3>1 DEF CatchesIInv, AddressTaken
    <3>3. InfoTold' BY <1>1, <2>1, <3>1 DEF CatchesIInv, InfoTold, LastOf
    <3>4. InfoOwes => InfoOwes' BY <1>1, <2>1, <3>1 DEF InfoOwes
    <3> QED BY <1>1, <2>1, <2>2, <3>2, <3>3, <3>4 DEF CatchesIInv, KnownOrOwed
  <2>3. CASE /\ info' = [info EXCEPT !.at = IF info.scanning THEN "answer" ELSE "refresh",
                                     !.result = "not_found", !.dev = NoDevice]
             /\ failed' = (failed \/ here = info.dev)
    <3>1. info'.at \in {"answer", "refresh"}
      <4>1. PICK a \in {"answer", "refresh"} : a = IF info.scanning THEN "answer" ELSE "refresh"
        OBVIOUS
      <4>2. info' = [info EXCEPT !.at = a, !.result = "not_found", !.dev = NoDevice]
        BY <2>3, <4>1
      <4> QED BY <1>0, <4>2
    <3>2. AddressTaken' BY <2>1, <3>1 DEF CatchesIInv, AddressTaken
    <3>3. InfoTold' BY <1>1, <2>1, <3>1 DEF CatchesIInv, InfoTold, LastOf
    \* It was another device, and then the one here is waited for; or failed says so.
    <3>4. here # NoDevice /\ ~failed' => ~failed /\ info_queue # <<>>
      BY <2>1, <2>3 DEF CatchesIInv, InfoTold
    <3>5. info_queue # <<>> => InfoOwes' BY <2>1 DEF InfoOwes
    <3> QED BY <1>1, <3>2, <3>3, <3>4, <3>5 DEF KnownOrOwed
  <2> QED BY <1>6, <2>2, <2>3 DEF Capture
<1>7. CASE StoreCaptured
  <2>1. /\ info.at = "store" /\ UNCHANGED <<info_queue, s_info_pending_addr, failed>>
        /\ s_device_info' = [valid |-> TRUE, dev |-> info.dev]
    BY <1>7 DEF StoreCaptured, port, shared
  <2>2. info'.at \in {"answer", "refresh"}
    <3>1. PICK a \in {"answer", "refresh"} : a = IF info.scanning THEN "answer" ELSE "refresh"
      OBVIOUS
    <3>2. info' = [info EXCEPT !.at = a, !.result = "ok", !.dev = NoDevice]
      BY <1>7, <3>1 DEF StoreCaptured
    <3> QED BY <1>0, <3>2
  <2>3. AddressTaken' BY <2>1, <2>2 DEF CatchesIInv, AddressTaken
  <2>4. InfoTold' BY <1>1, <2>1, <2>2 DEF CatchesIInv, InfoTold, LastOf
  <2>5. here # NoDevice /\ info.dev # here => info_queue # <<>>
    BY <2>1 DEF CatchesIInv, InfoTold
  <2>6. info_queue # <<>> => InfoOwes' BY <2>1 DEF InfoOwes
  <2> QED BY <1>1, <2>1, <2>3, <2>4, <2>5, <2>6 DEF KnownOrOwed
<1> QED BY <1>2, <1>3, <1>4, <1>5, <1>6, <1>7 DEF Info

LEMMA CatchesStep == CatchesIInv /\ [Next]_vars => CatchesIInv'
<1>0. CatchesIInv /\ [Next]_vars => TypeOK' BY TypeStep DEF CatchesIInv
\* The requests, and stuttering, touch neither the port nor what is known of it.
<1>1. ASSUME CatchesIInv,
             UNCHANGED <<here, cdc_queue, info_queue, cdc, info, s_device_info,
                         s_info_pending_addr, failed>>
      PROVE  AddressTaken' /\ CdcTold' /\ InfoTold' /\ KnownOrOwed'
  BY <1>1 DEF CatchesIInv, AddressTaken, CdcTold, InfoTold, KnownOrOwed, InfoOwes, LastOf
<1>2. ASSUME \/ UNCHANGED vars
             \/ \E r \in Requesters : Request(r) \/ Requester(r)
      PROVE  UNCHANGED <<here, cdc_queue, info_queue, cdc, info, s_device_info,
                         s_info_pending_addr, failed>>
  BY <1>2 DEF vars, port, shared, Request, Requester, Lock, Ask, Wait, Read, Release
<1>3. CatchesIInv /\ [Next]_vars => AddressTaken' /\ CdcTold' /\ InfoTold' /\ KnownOrOwed'
  BY <1>1, <1>2, CatchesPort, CatchesCdc, CatchesInfo DEF Next
<1> QED BY <1>0, <1>3 DEF CatchesIInv

\* Once both clients of the host have heard of everything and stored what they had in hand,
\* the information is that of the device on the port, unless reading that device failed: of
\* two writers the late one never leaves the record of a device that has gone.
THEOREM InformationCatchesUp == Spec => []InfoCatchesUp
<1>1. Init => CatchesIInv
  BY InitType DEF Init, CatchesIInv, AddressTaken, CdcTold, InfoTold, KnownOrOwed, NoDevice
<1>2. CatchesIInv => InfoCatchesUp
  BY DEF CatchesIInv, InfoCatchesUp, Settled, AddressTaken, KnownOrOwed, InfoOwes
<1> QED BY <1>1, <1>2, CatchesStep, PTL DEF Spec

=============================================================================
