---------------------------- MODULE UsbCdc_proof ----------------------------
(***************************************************************************)
(* The safety properties of UsbCdc for every set of users, every choice of   *)
(* their operations and every number of devices plugged in.                 *)
(***************************************************************************)
EXTENDS UsbCdc, TLAPS

\* Where the connect task has a handle open, has handed it to the others, and keeps the mutex.
HasOpen == {"present", "lock", "setup", "serial", "connected", "clear", "wait",
            "lock_close", "close"}
Shared == {"serial", "connected", "clear", "wait", "lock_close", "close"}
Locked == {"setup", "serial", "connected", "close", "down"}
\* Where it has not heard yet that the device is gone.
Unaware == HasOpen \ {"lock_close", "close"}

UserLocked == {"locked", "call", "store", "delay", "call1200", "unlock"}
Calling == {"call", "store", "delay", "call1200"}

\* The word of a departure, on its way from the driver's queue to the token.
Queued(queue) == \E i \in 1..Len(queue) : queue[i].type = "gone"
Once(queue) == \A i, j \in 1..Len(queue) :
                  queue[i].type = "gone" /\ queue[j].type = "gone" => i = j
Telling == driver.at \in {"invalidate", "give"}

Event == [type : {"new", "gone"}, kind : {"cdc", "bootsel", "other"}, id : Nat]
Attached == [kind : {"none", "cdc", "bootsel", "other"}, id : Nat]
DriverRecord == [at : {"idle", "pause", "unpause", "invalidate", "give"}, id : Nat]
ConnectRecord == [at : ConnectPlaces, dev : Nat]
UserRecord == [at : UserPlaces, op : Ops \cup {"none", "failed"}, dev : Nat]

Types ==
    /\ plug \in Nat
    /\ attached \in Attached /\ attached.id <= plug
    /\ attached = Nothing \/ (attached.kind # "none" /\ attached.id # 0)
    /\ events \in Seq(Event)
    /\ driver \in DriverRecord
    /\ connect \in ConnectRecord /\ connect.dev <= plug
    /\ connect.dev = 0 <=> connect.at \in {"check", "open"}
    /\ user \in [Users -> UserRecord]

Handles ==
    /\ opened = IF connect.at \in HasOpen THEN {connect.dev} ELSE {}
    /\ s_cdc_dev = IF connect.at \in Shared THEN connect.dev ELSE 0
    /\ s_connected => connect.at \in {"clear", "wait", "lock_close", "close", "down"}
    /\ released <=> connect.at \in {"check", "open", "present", "lock", "setup"}

Mutex ==
    /\ mutex = Connect <=> connect.at \in Locked
    /\ \A u \in Users : mutex = u <=> user[u].at \in UserLocked

Calls ==
    /\ \A u \in Users : user[u].at \in {"lock", "locked", "call"} => user[u].op \in Ops
    /\ \A u \in Users : user[u].at \in Calling => user[u].dev = s_cdc_dev /\ s_cdc_dev # 0

\* There is one word of a departure at most, and it is about the device that is open.
OneToken ==
    /\ device_gone \/ Telling \/ Queued(events) =>
          connect.at \in Unaware /\ connect.dev # attached.id
    /\ connect.at \in {"lock_close", "close"} => connect.dev # attached.id
    /\ ~(device_gone /\ Telling)
    /\ ~(device_gone /\ Queued(events))
    /\ ~(Telling /\ Queued(events))
    /\ Once(events)

IInv == Types /\ Handles /\ Mutex /\ Calls /\ OneToken

LEMMA InitInv == Init => IInv
<1> SUFFICES ASSUME Init
             PROVE  IInv
  OBVIOUS
<1>1. Types
  <2>1. events \in Seq(Event)
    BY DEF Init
  <2>2. attached \in Attached /\ driver \in DriverRecord /\ connect \in ConnectRecord
    BY DEF Init, Nothing, Attached, DriverRecord, ConnectRecord, ConnectPlaces
  <2>3. user \in [Users -> UserRecord]
    BY DEF Init, AtRest, UserRecord, UserPlaces
  <2> QED
    BY <2>1, <2>2, <2>3 DEF Init, Types, Nothing
<1>2. Handles /\ Mutex /\ Calls
  BY UsbAssumption DEF UsbAssumption, Init, AtRest, Handles, Mutex, Calls, HasOpen, Shared, Locked,
     UserLocked, Calling
<1>3. OneToken
  <2>1. ~Queued(events) /\ Once(events)
    BY DEF Init, Queued, Once
  <2> QED
    BY <2>1 DEF Init, OneToken, Telling
<1> QED
  BY <1>1, <1>2, <1>3 DEF IInv

-----------------------------------------------------------------------------
(* The driver's queue.                                                      *)

\* An event that is added is the last one.
LEMMA Appended ==
    ASSUME NEW queue \in Seq(Event), NEW e \in Event
    PROVE  /\ Append(queue, e) \in Seq(Event)
           /\ e.type = "new" /\ Queued(Append(queue, e)) => Queued(queue)
           /\ e.type = "new" /\ Once(queue) => Once(Append(queue, e))
           /\ ~Queued(queue) => Once(Append(queue, e))
<1>1. /\ Append(queue, e) \in Seq(Event)
      /\ \A i \in 1..Len(Append(queue, e)) :
            \/ i \in 1..Len(queue) /\ Append(queue, e)[i] = queue[i]
            \/ i = Len(queue) + 1 /\ Append(queue, e)[i] = e
  OBVIOUS
<1> QED
  BY <1>1 DEF Queued, Once, Event

\* An event that is taken is the first one.
LEMMA Taken ==
    ASSUME NEW queue \in Seq(Event), queue # <<>>
    PROVE  /\ Head(queue) \in Event /\ Tail(queue) \in Seq(Event)
           /\ Queued(Tail(queue)) => Queued(queue)
           /\ Once(queue) => Once(Tail(queue))
           /\ Head(queue).type = "gone" => Queued(queue)
           /\ Head(queue).type = "gone" /\ Once(queue) => ~Queued(Tail(queue))
<1>1. /\ Head(queue) \in Event /\ Tail(queue) \in Seq(Event)
      /\ Head(queue) = queue[1] /\ Len(Tail(queue)) = Len(queue) - 1 /\ Len(queue) \in Nat \ {0}
      /\ \A i \in 1..Len(Tail(queue)) : Tail(queue)[i] = queue[i + 1]
  OBVIOUS
<1>2. \A i \in 1..Len(Tail(queue)) : i + 1 \in 1..Len(queue) /\ i + 1 # 1
  BY <1>1
<1>3. 1 \in 1..Len(queue)
  BY <1>1
<1>4. Queued(Tail(queue)) => Queued(queue)
  BY <1>1, <1>2 DEF Queued
<1>5. Once(queue) => Once(Tail(queue))
  <2> SUFFICES ASSUME Once(queue),
                      NEW i \in 1..Len(Tail(queue)), NEW j \in 1..Len(Tail(queue)),
                      Tail(queue)[i].type = "gone", Tail(queue)[j].type = "gone"
               PROVE  i = j
    BY DEF Once
  <2>1. i + 1 = j + 1
    BY <1>1, <1>2 DEF Once
  <2> QED
    BY <2>1
<1>6. Head(queue).type = "gone" => Queued(queue)
  BY <1>1, <1>3 DEF Queued
<1>7. Head(queue).type = "gone" /\ Once(queue) => ~Queued(Tail(queue))
  BY <1>1, <1>2, <1>3 DEF Queued, Once
<1> QED
  BY <1>1, <1>4, <1>5, <1>6, <1>7

-----------------------------------------------------------------------------
(* Every step keeps the invariant.                                          *)

\* The steps of the bus.
LEMMA BusStep ==
    ASSUME IInv, Unplug \/ \E kind \in {"cdc", "bootsel", "other"} : PlugIn(kind)
    PROVE  IInv'
<1>1. CASE Unplug
  <2>1. Handles' /\ Mutex' /\ Calls'
    BY <1>1 DEF IInv, Unplug, Handles, Mutex, Calls, shared
  <2>2. attached' = Nothing /\ attached' \in Attached /\ attached'.id = 0
    BY <1>1 DEF Unplug, Nothing, Attached
  <2>3. CASE attached.id \in opened
    <3> DEFINE e == [type |-> "gone", kind |-> attached.kind, id |-> attached.id]
    <3>1. e \in Event /\ events' = Append(events, e)
      BY <1>1, <2>3 DEF IInv, Types, Unplug, Event, Attached, Nothing
    <3>2. connect.at \in HasOpen /\ connect.dev = attached.id
      BY <2>3 DEF IInv, Handles
    <3>3. connect.at \in Unaware /\ ~device_gone /\ ~Telling /\ ~Queued(events)
      BY <3>2 DEF IInv, OneToken, Unaware
    <3>4. events' \in Seq(Event) /\ Once(events')
      BY <3>1, <3>3, Appended DEF IInv, Types
    <3>5. connect.dev # 0
      BY <3>3 DEF IInv, Types, Unaware, HasOpen
    <3>6. Types'
      BY <1>1, <2>2, <3>4 DEF IInv, Types, Unplug
    <3>7. ~device_gone' /\ ~Telling' /\ connect' = connect
      BY <1>1, <3>3 DEF Unplug, shared, Telling
    <3>8. connect'.dev # attached'.id /\ connect'.at \in Unaware
      BY <2>2, <3>3, <3>5, <3>7
    <3>9. OneToken'
      BY <3>4, <3>7, <3>8 DEF OneToken
    <3> QED
      BY <2>1, <3>6, <3>9 DEF IInv
  <2>4. CASE attached.id \notin opened
    <3>1. events' = events /\ connect' = connect /\ device_gone' = device_gone /\ driver' = driver
      BY <1>1, <2>4 DEF Unplug, shared
    <3>2. Types'
      BY <1>1, <2>2, <3>1 DEF IInv, Types, Unplug
    <3>3. connect.dev # 0 \/ connect.at \in {"check", "open"}
      BY DEF IInv, Types
    <3>4. OneToken'
      BY <2>2, <3>1, <3>3 DEF IInv, OneToken, Telling, Unaware, HasOpen
    <3> QED
      BY <2>1, <3>2, <3>4 DEF IInv
  <2> QED
    BY <2>3, <2>4
<1>2. ASSUME NEW kind \in {"cdc", "bootsel", "other"}, PlugIn(kind)
      PROVE  IInv'
  <2> DEFINE e == [type |-> "new", kind |-> kind, id |-> plug + 1]
  <2>1. Handles' /\ Mutex' /\ Calls'
    BY <1>2 DEF IInv, PlugIn, Handles, Mutex, Calls, shared
  <2>2. plug \in Nat /\ plug + 1 \in Nat /\ plug + 1 # 0
    BY DEF IInv, Types
  <2>3. e \in Event /\ e.type = "new" /\ events' = Append(events, e)
    BY <1>2, <2>2 DEF PlugIn, Event
  <2>4. /\ attached' \in Attached /\ attached'.id = plug + 1
        /\ attached'.kind # "none" /\ attached'.id # 0
    BY <1>2, <2>2 DEF PlugIn, Attached
  <2> HIDE DEF e
  <2>5. /\ events' \in Seq(Event) /\ Once(events')
        /\ Queued(events') => Queued(events)
    BY <2>3, Appended DEF IInv, Types, OneToken
  <2>6. connect' = connect /\ device_gone' = device_gone /\ driver' = driver /\ plug' = plug + 1
        /\ user' = user
    BY <1>2 DEF PlugIn, shared
  <2>7. connect.dev \in Nat /\ connect.dev <= plug
    BY DEF IInv, Types, ConnectRecord
  <2>8. connect.dev <= plug' /\ connect.dev # attached'.id /\ attached'.id <= plug'
    BY <2>2, <2>4, <2>6, <2>7
  <2>9. Types'
    BY <2>2, <2>4, <2>5, <2>6, <2>8 DEF IInv, Types
  <2>10. OneToken'
    BY <2>5, <2>6, <2>8 DEF IInv, OneToken, Telling
  <2> QED
    BY <2>1, <2>9, <2>10 DEF IInv
<1> QED
  BY <1>1, <1>2

\* The callbacks of the driver.
LEMMA CallbackStep ==
    ASSUME IInv, DriverStep
    PROVE  IInv'
<1>1. CASE NewDevice
  <2>1. driver' \in DriverRecord /\ ~Telling /\ ~Telling'
    <3>1. Head(events).id \in Nat
      BY <1>1, Taken DEF IInv, Types, NewDevice, Event
    <3> QED
      BY <1>1, <3>1 DEF NewDevice, DriverRecord, Telling
  <2>2. /\ events' \in Seq(Event) /\ Once(events')
        /\ Queued(events') => Queued(events)
    BY <1>1, Taken DEF IInv, Types, OneToken, NewDevice
  <2>3. Types'
    BY <1>1, <2>1, <2>2 DEF IInv, Types, NewDevice
  <2>4. Handles' /\ Mutex' /\ Calls'
    BY <1>1 DEF IInv, Handles, Mutex, Calls, NewDevice
  <2>5. OneToken'
    BY <1>1, <2>1, <2>2 DEF IInv, OneToken, NewDevice
  <2> QED
    BY <2>3, <2>4, <2>5 DEF IInv
<1>2. CASE NewDeviceSetsPause
  <2>1. driver' \in DriverRecord /\ ~Telling'
    BY <1>2 DEF IInv, Types, NewDeviceSetsPause, DriverRecord, Telling
  <2>2. Types'
    BY <1>2, <2>1 DEF IInv, Types, NewDeviceSetsPause, usb
  <2>3. Handles' /\ Mutex' /\ Calls'
    BY <1>2 DEF IInv, Handles, Mutex, Calls, NewDeviceSetsPause, usb, shared
  <2>4. OneToken'
    BY <1>2, <2>1 DEF IInv, OneToken, NewDeviceSetsPause, usb, shared
  <2> QED
    BY <2>2, <2>3, <2>4 DEF IInv
<1>3. CASE Disconnected
  <2>1. driver' \in DriverRecord /\ ~Telling
    <3>1. Head(events).id \in Nat
      BY <1>3, Taken DEF IInv, Types, Disconnected, Event
    <3> QED
      BY <1>3, <3>1 DEF Disconnected, DriverRecord, Telling
  <2>2. /\ events' \in Seq(Event) /\ Once(events')
        /\ Queued(events) /\ ~Queued(events')
    BY <1>3, Taken DEF IInv, Types, OneToken, Disconnected
  <2>3. Types'
    BY <1>3, <2>1, <2>2 DEF IInv, Types, Disconnected
  <2>4. Handles' /\ Mutex' /\ Calls'
    BY <1>3 DEF IInv, Handles, Mutex, Calls, Disconnected
  <2>5. OneToken'
    BY <1>3, <2>2 DEF IInv, OneToken, Disconnected
  <2> QED
    BY <2>3, <2>4, <2>5 DEF IInv
<1>4. CASE DisconnectInvalidates
  <2>1. driver' \in DriverRecord /\ Telling
    BY <1>4 DEF IInv, Types, DisconnectInvalidates, DriverRecord, Telling
  <2>2. Types'
    BY <1>4, <2>1 DEF IInv, Types, DisconnectInvalidates, usb
  <2>3. Handles' /\ Mutex' /\ Calls'
    BY <1>4 DEF IInv, Handles, Mutex, Calls, DisconnectInvalidates, usb
  <2>4. OneToken'
    BY <1>4, <2>1 DEF IInv, OneToken, DisconnectInvalidates, usb
  <2> QED
    BY <2>2, <2>3, <2>4 DEF IInv
<1>5. CASE DisconnectGives
  <2>1. driver' \in DriverRecord /\ Telling /\ ~Telling'
    BY <1>5 DEF IInv, Types, DisconnectGives, DriverRecord, Telling
  <2>2. Types'
    BY <1>5, <2>1 DEF IInv, Types, DisconnectGives, usb
  <2>3. Handles' /\ Mutex' /\ Calls'
    BY <1>5 DEF IInv, Handles, Mutex, Calls, DisconnectGives, usb
  <2>4. OneToken'
    BY <1>5, <2>1 DEF IInv, OneToken, DisconnectGives, usb
  <2> QED
    BY <2>2, <2>3, <2>4 DEF IInv
<1> QED
  BY <1>1, <1>2, <1>3, <1>4, <1>5 DEF DriverStep

\* The steps of usb_connect_task: where it goes and with which handle.
LEMMA ConnectMoves ==
    ASSUME connect \in ConnectRecord, NEW place \in ConnectPlaces,
           connect' = [connect EXCEPT !.at = place]
    PROVE  connect' \in ConnectRecord /\ connect'.at = place /\ connect'.dev = connect.dev
BY DEF ConnectRecord

LEMMA ConnectTaskStep ==
    ASSUME IInv, ConnectStep
    PROVE  IInv'
<1> USE DEF shared, flags, usb
<1>0. connect \in ConnectRecord
  BY DEF IInv, Types
<1>1. ASSUME NEW place \in ConnectPlaces, connect' = [connect EXCEPT !.at = place],
             place \in {"check", "open"} <=> connect.at \in {"check", "open"},
             UNCHANGED <<plug, attached, events, driver, user>>
      PROVE  Types'
  BY <1>0, <1>1, ConnectMoves DEF IInv, Types
<1>2. CASE CheckPause \/ OpenFails
  <2>1. \E place \in {"check", "open"} : /\ connect.at \in {"check", "open"}
                                         /\ connect' = [connect EXCEPT !.at = place]
    BY <1>2 DEF CheckPause, OpenFails
  <2>2. connect'.at \in {"check", "open"} /\ connect.at \in {"check", "open"}
    BY <1>0, <2>1, ConnectMoves DEF ConnectPlaces
  <2>3. Types'
    BY <1>1, <1>2, <2>1 DEF CheckPause, OpenFails, ConnectPlaces
  <2>4. Handles' /\ Mutex' /\ Calls'
    BY <1>2, <2>2 DEF CheckPause, OpenFails, IInv, Handles, Mutex, Calls, HasOpen, Shared, Locked
  <2>5. OneToken'
    BY <1>2, <2>2 DEF CheckPause, OpenFails, IInv, OneToken, Telling, Unaware, HasOpen
  <2> QED
    BY <2>3, <2>4, <2>5 DEF IInv
<1>3. CASE OpenSucceeds
  <2>1. attached.id \in Nat /\ attached.id # 0 /\ attached.id <= plug
    BY <1>3 DEF OpenSucceeds, IInv, Types, Nothing, Attached
  <2>2. connect' \in ConnectRecord /\ connect'.at = "present" /\ connect'.dev = attached.id
    BY <1>3, <2>1 DEF OpenSucceeds, ConnectRecord, ConnectPlaces
  <2>3. Types'
    BY <1>3, <2>1, <2>2 DEF OpenSucceeds, IInv, Types
  <2>4. Handles' /\ Mutex'
    BY <1>3, <2>2 DEF OpenSucceeds, IInv, Handles, Mutex, HasOpen, Shared, Locked
  <2>5. Calls'
    BY <1>3 DEF OpenSucceeds, IInv, Calls
  <2>6. OneToken'
    BY <1>3, <2>2 DEF OpenSucceeds, IInv, OneToken, Telling, Unaware, HasOpen
  <2> QED
    BY <2>3, <2>4, <2>5, <2>6 DEF IInv
<1>4. CASE Opened \/ ClearOpenknx
  <2>1. \/ connect.at = "present" /\ connect' = [connect EXCEPT !.at = "lock"]
        \/ connect.at = "clear" /\ connect' = [connect EXCEPT !.at = "wait"]
    BY <1>4 DEF Opened, ClearOpenknx
  <2>2. /\ connect'.dev = connect.dev
        /\ \/ connect.at = "present" /\ connect'.at = "lock"
           \/ connect.at = "clear" /\ connect'.at = "wait"
    BY <1>0, <2>1, ConnectMoves DEF ConnectPlaces
  <2>3. Types'
    BY <1>1, <1>4, <2>1 DEF Opened, ClearOpenknx, ConnectPlaces
  <2>4. Handles' /\ Mutex' /\ Calls'
    BY <1>4, <2>2 DEF Opened, ClearOpenknx, IInv, Handles, Mutex, Calls, HasOpen, Shared, Locked
  <2>5. OneToken'
    BY <1>4, <2>2 DEF Opened, ClearOpenknx, IInv, OneToken, Telling, Unaware, HasOpen
  <2> QED
    BY <2>3, <2>4, <2>5 DEF IInv
<1>5. CASE ConnectLocks
  <2>1. \/ connect.at = "lock" /\ connect' = [connect EXCEPT !.at = "setup"]
        \/ connect.at = "lock_close" /\ connect' = [connect EXCEPT !.at = "close"]
    BY <1>5 DEF ConnectLocks
  <2>2. /\ connect'.dev = connect.dev
        /\ \/ connect.at = "lock" /\ connect'.at = "setup"
           \/ connect.at = "lock_close" /\ connect'.at = "close"
    BY <1>0, <2>1, ConnectMoves DEF ConnectPlaces
  <2>3. Types'
    BY <1>1, <1>5, <2>1 DEF ConnectLocks, ConnectPlaces
  <2>4. Handles' /\ Calls'
    BY <1>5, <2>2 DEF ConnectLocks, IInv, Handles, Calls, HasOpen, Shared
  <2>5. Mutex'
    BY <1>5, <2>2, UsbAssumption DEF ConnectLocks, UsbAssumption, IInv, Mutex, Locked
  <2>6. OneToken'
    BY <1>5, <2>2 DEF ConnectLocks, IInv, OneToken, Telling, Unaware, HasOpen
  <2> QED
    BY <2>3, <2>4, <2>5, <2>6 DEF IInv
<1>6. CASE SetUp \/ Close
  <2>1. \/ connect.at = "setup" /\ connect' = [connect EXCEPT !.at = "serial"]
        \/ connect.at = "close" /\ connect' = [connect EXCEPT !.at = "down"]
    BY <1>6 DEF SetUp, Close
  <2>2. /\ connect'.dev = connect.dev
        /\ \/ connect.at = "setup" /\ connect'.at = "serial"
           \/ connect.at = "close" /\ connect'.at = "down"
    BY <1>0, <2>1, ConnectMoves DEF ConnectPlaces
  <2>3. Types'
    BY <1>1, <1>6, <2>1 DEF SetUp, Close, ConnectPlaces
  <2>4. Handles' /\ Mutex'
    BY <1>6, <2>2 DEF SetUp, Close, IInv, Handles, Mutex, HasOpen, Shared, Locked
  <2>5. \A u \in Users : user[u].at \notin UserLocked
    BY <2>2, UsbAssumption DEF UsbAssumption, IInv, Mutex, Locked
  <2>6. Calls'
    BY <1>6, <2>5 DEF SetUp, Close, IInv, Calls, Calling, UserLocked
  <2>7. OneToken'
    BY <1>6, <2>2 DEF SetUp, Close, IInv, OneToken, Telling, Unaware, HasOpen
  <2> QED
    BY <2>3, <2>4, <2>6, <2>7 DEF IInv
<1>7. CASE SetUpSerial
  <2>1. connect.at = "serial" /\ connect' = [connect EXCEPT !.at = "connected"]
    BY <1>7 DEF SetUpSerial
  <2>2. connect'.dev = connect.dev /\ connect'.at = "connected"
    BY <1>0, <2>1, ConnectMoves DEF ConnectPlaces
  <2>3. Types'
    BY <1>1, <1>7, <2>1 DEF SetUpSerial, ConnectPlaces
  <2>4. Handles' /\ Mutex' /\ Calls'
    BY <1>7, <2>2 DEF SetUpSerial, IInv, Handles, Mutex, Calls, HasOpen, Shared, Locked
  <2>5. OneToken'
    BY <1>7, <2>2 DEF SetUpSerial, IInv, OneToken, Telling, Unaware, HasOpen
  <2> QED
    BY <2>3, <2>4, <2>5 DEF IInv
<1>8. CASE Connected \/ Down
  <2>1. \/ connect.at = "connected" /\ connect' = [connect EXCEPT !.at = "clear"]
        \/ connect.at = "down" /\ connect' = [connect EXCEPT !.at = "release"]
    BY <1>8 DEF Connected, Down
  <2>2. /\ connect'.dev = connect.dev
        /\ \/ connect.at = "connected" /\ connect'.at = "clear"
           \/ connect.at = "down" /\ connect'.at = "release"
    BY <1>0, <2>1, ConnectMoves DEF ConnectPlaces
  <2>3. Types'
    BY <1>1, <1>8, <2>1 DEF Connected, Down, ConnectPlaces
  <2>4. Handles'
    <3>1. CASE Connected
      BY <2>2, <3>1 DEF Connected, IInv, Handles, HasOpen, Shared
    <3>2. CASE Down
      BY <2>2, <3>2 DEF Down, IInv, Handles, HasOpen, Shared
    <3> QED
      BY <1>8, <3>1, <3>2
  <2>5. Calls'
    BY <1>8 DEF Connected, Down, IInv, Calls
  <2>6. Mutex'
    BY <1>8, <2>2, UsbAssumption DEF Connected, Down, UsbAssumption, IInv, Mutex, Locked
  <2>7. OneToken'
    BY <1>8, <2>2 DEF Connected, Down, IInv, OneToken, Telling, Unaware, HasOpen
  <2> QED
    BY <2>3, <2>4, <2>5, <2>6, <2>7 DEF IInv
<1>9. CASE TakeGone
  <2>1. connect.at = "wait" /\ connect' = [connect EXCEPT !.at = "lock_close"]
    BY <1>9 DEF TakeGone
  <2>2. connect'.dev = connect.dev /\ connect'.at = "lock_close"
    BY <1>0, <2>1, ConnectMoves DEF ConnectPlaces
  <2>3. Types'
    BY <1>1, <1>9, <2>1 DEF TakeGone, ConnectPlaces
  <2>4. Handles' /\ Mutex' /\ Calls'
    BY <1>9, <2>2 DEF TakeGone, IInv, Handles, Mutex, Calls, HasOpen, Shared, Locked
  <2>5. OneToken'
    BY <1>9, <2>2 DEF TakeGone, IInv, OneToken, Telling, Unaware, HasOpen
  <2> QED
    BY <2>3, <2>4, <2>5 DEF IInv
<1>10. CASE Release
  <2>1. connect' \in ConnectRecord /\ connect'.at = "check" /\ connect'.dev = 0
    BY <1>10 DEF Release, ConnectRecord, ConnectPlaces
  <2>2. Types'
    BY <1>10, <2>1 DEF Release, IInv, Types
  <2>3. Handles' /\ Mutex' /\ Calls'
    BY <1>10, <2>1 DEF Release, IInv, Handles, Mutex, Calls, HasOpen, Shared, Locked
  <2>4. OneToken'
    BY <1>10, <2>1 DEF Release, IInv, OneToken, Telling, Unaware, HasOpen
  <2> QED
    BY <2>2, <2>3, <2>4 DEF IInv
<1> QED
  BY <1>2, <1>3, <1>4, <1>5, <1>6, <1>7, <1>8, <1>9, <1>10 DEF ConnectStep

\* A user that moves on keeps the rest of its record, and the other users theirs.
LEMMA Moves ==
    ASSUME user \in [Users -> UserRecord], NEW u \in Users, NEW place \in UserPlaces,
           Goto(u, place)
    PROVE  /\ user' \in [Users -> UserRecord]
           /\ user'[u].at = place /\ user'[u].op = user[u].op /\ user'[u].dev = user[u].dev
           /\ \A w \in Users \ {u} : user'[w] = user[w]
<1>1. user[u] \in UserRecord
  OBVIOUS
<1>2. [user[u] EXCEPT !.at = place] \in UserRecord
  BY <1>1 DEF UserRecord
<1>3. user' = [user EXCEPT ![u] = [user[u] EXCEPT !.at = place]]
  BY DEF Goto
<1>4. [user[u] EXCEPT !.at = place].at = place
      /\ [user[u] EXCEPT !.at = place].op = user[u].op
      /\ [user[u] EXCEPT !.at = place].dev = user[u].dev
  BY <1>1 DEF UserRecord
<1> QED
  BY <1>2, <1>3, <1>4

\* So it is when it begins or is done.
LEMMA Becomes ==
    ASSUME user \in [Users -> UserRecord], NEW u \in Users, NEW r \in UserRecord,
           user' = [user EXCEPT ![u] = r]
    PROVE  /\ user' \in [Users -> UserRecord] /\ user'[u] = r
           /\ \A w \in Users \ {u} : user'[w] = user[w]
OBVIOUS

LEMMA AtRestTyped == AtRest \in UserRecord /\ AtRest.at = "idle"
BY DEF AtRest, UserRecord, UserPlaces, Ops

\* The steps of the users.
LEMMA UsersStep ==
    ASSUME IInv, NEW u \in Users, UserStep(u) \/ \E op \in Ops : Begin(u, op)
    PROVE  IInv'
<1> USE UsbAssumption DEF UsbAssumption, IInv, Types, Handles, Mutex, Calls, OneToken, shared,
        flags, usb, Queued, Telling
<1>0. user[u] \in UserRecord
  OBVIOUS
<1>1. ASSUME NEW op \in Ops, Begin(u, op)
      PROVE  IInv'
  <2> DEFINE r == [at |-> "lock", op |-> op, dev |-> 0]
  <2>1. r \in UserRecord /\ r.at = "lock" /\ r.op = op /\ user' = [user EXCEPT ![u] = r]
    BY <1>1 DEF Begin, UserRecord, UserPlaces
  <2>2. user' \in [Users -> UserRecord] /\ user'[u].at = "lock" /\ user'[u].op = op
        /\ \A w \in Users \ {u} : user'[w] = user[w]
    BY <2>1, Becomes
  <2> QED
    BY <1>1, <2>2 DEF Begin, UserLocked, Calling
<1>2. CASE Lock(u)
  <2>1. CASE mutex = NoOne /\ mutex' = u /\ Goto(u, "locked")
    <3>1. user' \in [Users -> UserRecord] /\ user'[u].at = "locked"
          /\ user'[u].op = user[u].op
          /\ \A w \in Users \ {u} : user'[w] = user[w]
      BY <2>1, Moves DEF UserPlaces
    <3> QED
      BY <1>2, <2>1, <3>1 DEF Lock, UserLocked, Calling
  <2>2. CASE UNCHANGED mutex /\ user' = [user EXCEPT ![u] = AtRest]
    <3>1. user' \in [Users -> UserRecord] /\ user'[u].at = "idle"
          /\ \A w \in Users \ {u} : user'[w] = user[w]
      BY <2>2, AtRestTyped, Becomes
    <3> QED
      BY <1>2, <2>2, <3>1 DEF Lock, UserLocked, Calling
  <2> QED
    BY <1>2, <2>1, <2>2 DEF Lock
<1>3. CASE LookAgain(u)
  <2> DEFINE r == [user[u] EXCEPT !.at = IF Usable THEN "call" ELSE "unlock",
                           !.dev = IF Usable THEN s_cdc_dev ELSE 0]
  <2>1. s_cdc_dev \in Nat
    BY DEF ConnectRecord
  <2>2. /\ r \in UserRecord /\ r.op = user[u].op
        /\ IF Usable THEN r.at = "call" /\ r.dev = s_cdc_dev ELSE r.at = "unlock" /\ r.dev = 0
    BY <1>0, <2>1 DEF UserRecord, UserPlaces
  <2>3. user' = [user EXCEPT ![u] = r]
    BY <1>3 DEF LookAgain
  <2> HIDE DEF r
  <2>4. user' \in [Users -> UserRecord] /\ user'[u] = r
        /\ \A w \in Users \ {u} : user'[w] = user[w]
    BY <2>2, <2>3, Becomes
  <2> QED
    BY <1>3, <2>2, <2>4 DEF LookAgain, Usable, UserLocked, Calling
<1>4. CASE Call(u)
  <2> DEFINE r == [user[u] EXCEPT !.at = "unlock", !.op = "failed"]
  <2>1. r \in UserRecord /\ r.at = "unlock"
    BY <1>0 DEF UserRecord, UserPlaces
  <2>2. (\E place \in {"store", "unlock"} : Goto(u, place)) \/ user' = [user EXCEPT ![u] = r]
    <3>1. user[u].op \in Ops
      BY <1>4 DEF Call
    <3> QED
      BY <1>4, <3>1 DEF Call, Ops
  <2> HIDE DEF r
  <2>3. /\ user' \in [Users -> UserRecord]
        /\ \A w \in Users \ {u} : user'[w] = user[w]
        /\ user'[u].at = "unlock" \/ (user'[u].at = "store" /\ user'[u].dev = user[u].dev)
    BY <2>1, <2>2, Moves, Becomes DEF UserPlaces
  <2> QED
    BY <1>4, <2>3 DEF Call, UserLocked, Calling
<1>5. CASE Store(u) \/ AfterDelay(u) \/ Call1200(u)
  <2>1. \E place \in {"delay", "unlock", "call1200"} : Goto(u, place)
    BY <1>5 DEF Store, AfterDelay, Call1200
  <2>2. /\ user' \in [Users -> UserRecord]
        /\ \A w \in Users \ {u} : user'[w] = user[w]
        /\ user'[u].at \in {"delay", "unlock", "call1200"} /\ user'[u].dev = user[u].dev
    BY <2>1, Moves DEF UserPlaces
  <2> QED
    BY <1>5, <2>2 DEF Store, AfterDelay, Call1200, UserLocked, Calling
<1>6. CASE Unlock(u)
  <2>1. \/ \E place \in {"late_store", "answer"} : Goto(u, place)
        \/ user' = [user EXCEPT ![u] = AtRest]
    BY <1>6 DEF Unlock, Goto
  <2>2. /\ user' \in [Users -> UserRecord]
        /\ \A w \in Users \ {u} : user'[w] = user[w]
        /\ user'[u].at \in {"late_store", "answer", "idle"}
    BY <2>1, AtRestTyped, Moves, Becomes DEF UserPlaces
  <2> QED
    BY <1>6, <2>2 DEF Unlock, UserLocked, Calling
<1>7. CASE LateStore(u) \/ Answer(u) \/ Keep(u)
  <2>1. Goto(u, "keep") \/ user' = [user EXCEPT ![u] = AtRest]
    BY <1>7 DEF LateStore, Answer, Keep
  <2>2. /\ user' \in [Users -> UserRecord]
        /\ \A w \in Users \ {u} : user'[w] = user[w]
        /\ user'[u].at \in {"keep", "idle"}
    BY <2>1, AtRestTyped, Moves, Becomes DEF UserPlaces
  <2> QED
    BY <1>7, <2>2 DEF LateStore, Answer, Keep, UserLocked, Calling
<1> QED
  BY <1>1, <1>2, <1>3, <1>4, <1>5, <1>6, <1>7 DEF UserStep

\* What the properties rest on holds in every state.
THEOREM Invariant == Spec => []IInv
<1>1. IInv /\ [Next]_vars => IInv'
  <2> SUFFICES ASSUME IInv, [Next]_vars
               PROVE  IInv'
    OBVIOUS
  <2>1. ASSUME NEW paused \in BOOLEAN, SetPaused(paused) \/ SetHold(paused)
        PROVE  IInv'
    BY <2>1 DEF SetPaused, SetHold, IInv, Types, Handles, Mutex, Calls, OneToken, shared, usb,
       Queued, Telling
  <2>2. CASE UNCHANGED vars
    BY <2>2 DEF vars, IInv, Types, Handles, Mutex, Calls, OneToken, shared, usb, Queued, Telling
  <2> QED
    BY <2>1, <2>2, BusStep, CallbackStep, ConnectTaskStep, UsersStep DEF Next
<1> QED
  BY <1>1, InitInv, PTL DEF Spec

\* A handle in use is open and stays so, however many tasks use it: the connect task closes it
\* under the mutex the user holds, and the user has looked after taking it.
THEOREM HandlesInUse == Spec => []NoUseAfterClose
<1>1. IInv => NoUseAfterClose
  BY DEF IInv, Types, Handles, Mutex, Calls, NoUseAfterClose, HasOpen, Shared, UserLocked, Calling
<1> QED
  BY <1>1, Invariant, PTL

\* The token that ends a connection is about its device: there is at most one on its way, put
\* there by the departure of the device that is open, and the task does not close before it.
THEOREM FreshToken == Spec => []GoneTokenIsFresh
<1>1. IInv => GoneTokenIsFresh
  BY DEF IInv, Handles, OneToken, GoneTokenIsFresh, HasOpen, Unaware, Telling
<1> QED
  BY <1>1, Invariant, PTL

\* While CDC_STATE_RELEASED is set nobody uses a handle, and one that is open has not been handed
\* over by usb_connect_task yet; while it is clear there is one, or it was given up just now.  The bit
\* is cleared before the handle is shared and set after it was taken back under the mutex.
THEOREM ReleasedIsUnused == Spec => []ReleasedMeansUnused
<1>1. IInv => ReleasedMeansUnused
  BY DEF IInv, Types, Handles, Calls, ReleasedMeansUnused, HasOpen, Shared, Calling, ConnectRecord,
     ConnectPlaces
<1> QED
  BY <1>1, Invariant, PTL

\* No handle is leaked or shared after its close, and "connected" is true of an open one.
THEOREM ConnectedIsOpen == Spec => []ConnectedMeansOpen
<1>1. IInv => ConnectedMeansOpen
  BY UsbAssumption DEF UsbAssumption, IInv, Types, Handles, Mutex, ConnectedMeansOpen, HasOpen,
     Shared, Locked, ConnectPlaces, ConnectRecord
<1> QED
  BY <1>1, Invariant, PTL
=============================================================================
