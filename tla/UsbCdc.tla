------------------------------- MODULE UsbCdc -------------------------------
(***************************************************************************)
(* The life of the CDC connection in main/usb_cdc_bridge.c: usb_connect_task *)
(* opens and closes the device, the CDC driver's task reports new and        *)
(* vanished devices through callbacks, and the other tasks talk to the      *)
(* device under s_cdc_mutex.  The callbacks do not take the mutex, so they  *)
(* run between any two steps of everybody else.                             *)
(*                                                                         *)
(* A device is told from another by how often something was plugged in      *)
(* before it; 0 is the NULL handle.                                         *)
(***************************************************************************)
EXTENDS Naturals, Sequences, FiniteSets

CONSTANTS Users,    \* tasks that use the open device: TCP, HTTP, usb_tx, firmware
          UserOps,  \* per user: the operations it calls
          NoOne,    \* the mutex is free
          Connect,  \* usb_connect_task as a holder of the mutex
          MaxPlugs  \* bound: devices plugged in

Ops == {"line_coding", "control_lines", "send_direct", "touch", "restore", "query"}

ASSUME UsbAssumption ==
    /\ UserOps \in [Users -> SUBSET Ops]
    /\ NoOne \notin Users \cup {Connect}
    /\ Connect \notin Users
    /\ MaxPlugs \in Nat

VARIABLES plug,      \* devices plugged in so far
          attached,  \* what is attached: [kind, id], id 0 when nothing is
          opened,    \* handles the driver has open
          events,    \* the driver's queue of device events
          driver,    \* where the driver's task is in a callback
          connect,   \* where usb_connect_task is, and the handle it opened
          user,      \* where each user is, its operation and handle
          mutex      \* who holds s_cdc_mutex

VARIABLES s_cdc_dev, s_connected, s_normal_cdc_present,
          s_reconnect_paused, s_reconnect_hold,
          device_gone,   \* the semaphore s_device_gone
          released,      \* the bit CDC_STATE_RELEASED
          serial_valid,  \* s_serial_state.valid
          openknx        \* whose information s_openknx_info holds, 0 for none

usb == <<plug, attached, opened, events>>
flags == <<s_reconnect_paused, s_reconnect_hold>>
shared == <<s_cdc_dev, s_connected, s_normal_cdc_present, device_gone, released,
            serial_valid, openknx>>
vars == <<usb, driver, connect, user, mutex, flags, shared>>

Nothing == [kind |-> "none", id |-> 0]
AtRest == [at |-> "idle", op |-> "none", dev |-> 0]

Init ==
    /\ plug = 0 /\ attached = Nothing /\ opened = {} /\ events = <<>>
    /\ driver = [at |-> "idle", id |-> 0]
    /\ connect = [at |-> "check", dev |-> 0]
    /\ user = [u \in Users |-> AtRest]
    /\ mutex = NoOne
    /\ s_cdc_dev = 0 /\ s_connected = FALSE /\ s_normal_cdc_present = FALSE
    /\ s_reconnect_paused = FALSE /\ s_reconnect_hold = FALSE
    /\ device_gone = FALSE /\ released = TRUE
    /\ serial_valid = FALSE /\ openknx = 0

-----------------------------------------------------------------------------
(* The bus.  A device that leaves is reported to those who have it open.    *)

PlugIn(kind) ==
    /\ attached = Nothing /\ plug < MaxPlugs
    /\ plug' = plug + 1
    /\ attached' = [kind |-> kind, id |-> plug + 1]
    /\ events' = Append(events, [type |-> "new", kind |-> kind, id |-> plug + 1])
    /\ UNCHANGED <<opened, driver, connect, user, mutex, flags, shared>>

Unplug ==
    /\ attached # Nothing
    /\ attached' = Nothing
    /\ events' = IF attached.id \in opened
                 THEN Append(events, [type |-> "gone", kind |-> attached.kind, id |-> attached.id])
                 ELSE events
    /\ UNCHANGED <<plug, opened, driver, connect, user, mutex, flags, shared>>

-----------------------------------------------------------------------------
(* Callbacks on the driver's task.                                          *)

\* on_new_usb_device up to its decision about the pause.
NewDevice ==
    /\ driver.at = "idle" /\ events # <<>> /\ Head(events).type = "new"
    /\ LET e == Head(events)
           unpause == e.kind = "cdc" /\ s_reconnect_paused /\ ~s_reconnect_hold
       IN /\ s_normal_cdc_present' = (e.kind = "cdc" \/ (e.kind = "other" /\ s_normal_cdc_present))
          /\ driver' = [at |-> IF unpause THEN "unpause"
                               ELSE IF e.kind = "bootsel" THEN "pause" ELSE "idle",
                        id |-> e.id]
    /\ events' = Tail(events)
    /\ UNCHANGED <<plug, attached, opened, connect, user, mutex, flags, s_cdc_dev, s_connected,
                   device_gone, released, serial_valid, openknx>>

\* usb_cdc_bridge_set_reconnect_paused from on_new_usb_device.
NewDeviceSetsPause ==
    /\ driver.at \in {"pause", "unpause"}
    /\ s_reconnect_paused' = (driver.at = "pause")
    /\ driver' = [driver EXCEPT !.at = "idle"]
    /\ UNCHANGED <<usb, connect, user, mutex, s_reconnect_hold, shared>>

\* on_cdc_event, CDC_ACM_HOST_DEVICE_DISCONNECTED, in the order of its assignments.
Disconnected ==
    /\ driver.at = "idle" /\ events # <<>> /\ Head(events).type = "gone"
    /\ s_connected' = FALSE
    /\ events' = Tail(events)
    /\ driver' = [at |-> "invalidate", id |-> Head(events).id]
    /\ UNCHANGED <<plug, attached, opened, connect, user, mutex, flags, s_cdc_dev,
                   s_normal_cdc_present, device_gone, released, serial_valid, openknx>>

DisconnectInvalidates ==
    /\ driver.at = "invalidate"
    /\ s_normal_cdc_present' = FALSE
    /\ serial_valid' = FALSE
    /\ openknx' = 0
    /\ driver' = [driver EXCEPT !.at = "give"]
    /\ UNCHANGED <<usb, connect, user, mutex, flags, s_cdc_dev, s_connected, device_gone, released>>

\* What would go wrong (each of these stands for a plausible mistake and replaces the
\* definition after it when a property is tried on it): nobody is told.
DisconnectTellsNobody ==
    /\ driver.at = "give"
    /\ driver' = [driver EXCEPT !.at = "idle"]
    /\ UNCHANGED <<usb, connect, user, mutex, flags, shared>>

DisconnectGives ==
    /\ driver.at = "give"
    /\ device_gone' = TRUE
    /\ driver' = [driver EXCEPT !.at = "idle"]
    /\ UNCHANGED <<usb, connect, user, mutex, flags, s_cdc_dev, s_connected,
                   s_normal_cdc_present, released, serial_valid, openknx>>

-----------------------------------------------------------------------------
(* usb_connect_task.                                                        *)

Reconnecting == ~s_reconnect_paused /\ ~s_reconnect_hold

CheckPause ==
    /\ connect.at = "check" /\ Reconnecting
    /\ connect' = [connect EXCEPT !.at = "open"]
    /\ UNCHANGED <<usb, driver, user, mutex, flags, shared>>

\* open_target_cdc, which may wait up to a second per product id: it opens what is then
\* attached, whatever the pause has become meanwhile.
OpenSucceeds ==
    /\ connect.at = "open" /\ attached.kind = "cdc"
    /\ opened' = opened \cup {attached.id}
    /\ connect' = [at |-> "present", dev |-> attached.id]
    /\ UNCHANGED <<plug, attached, events, driver, user, mutex, flags, shared>>

OpenFails ==
    /\ connect.at = "open"
    /\ connect' = [connect EXCEPT !.at = "check"]
    /\ UNCHANGED <<usb, driver, user, mutex, flags, shared>>

Opened ==
    /\ connect.at = "present"
    /\ s_normal_cdc_present' = TRUE
    /\ connect' = [connect EXCEPT !.at = "lock"]
    /\ UNCHANGED <<usb, driver, user, mutex, flags, s_cdc_dev, s_connected, device_gone, released,
                   serial_valid, openknx>>

\* xSemaphoreTake(s_cdc_mutex, portMAX_DELAY), before setting up and before closing.
ConnectLocks ==
    /\ connect.at \in {"lock", "lock_close"} /\ mutex = NoOne
    /\ mutex' = Connect
    /\ connect' = [connect EXCEPT !.at = IF @ = "lock" THEN "setup" ELSE "close"]
    /\ UNCHANGED <<usb, driver, user, flags, shared>>

\* Mistake: the state is still announced as released.
SetUpReleased ==
    /\ connect.at = "setup"
    /\ s_cdc_dev' = connect.dev
    /\ connect' = [connect EXCEPT !.at = "serial"]
    /\ UNCHANGED <<usb, driver, user, mutex, flags, s_connected, s_normal_cdc_present, device_gone,
                   released, serial_valid, openknx>>

\* The rings are emptied here too; line coding and control lines may be refused.
SetUp ==
    /\ connect.at = "setup"
    /\ released' = FALSE
    /\ s_cdc_dev' = connect.dev
    /\ connect' = [connect EXCEPT !.at = "serial"]
    /\ UNCHANGED <<usb, driver, user, mutex, flags, s_connected, s_normal_cdc_present, device_gone,
                   serial_valid, openknx>>

SetUpSerial ==
    /\ connect.at = "serial"
    /\ serial_valid' = TRUE
    /\ connect' = [connect EXCEPT !.at = "connected"]
    /\ UNCHANGED <<usb, driver, user, mutex, flags, s_cdc_dev, s_connected, s_normal_cdc_present,
                   device_gone, released, openknx>>

Connected ==
    /\ connect.at = "connected"
    /\ s_connected' = TRUE
    /\ mutex' = NoOne
    /\ connect' = [connect EXCEPT !.at = "clear"]
    /\ UNCHANGED <<usb, driver, user, flags, s_cdc_dev, s_normal_cdc_present, device_gone, released,
                   serial_valid, openknx>>

\* usb_cdc_bridge_clear_openknx_info; then the metadata is refreshed.
ClearOpenknx ==
    /\ connect.at = "clear"
    /\ openknx' = 0
    /\ connect' = [connect EXCEPT !.at = "wait"]
    /\ UNCHANGED <<usb, driver, user, mutex, flags, s_cdc_dev, s_connected, s_normal_cdc_present,
                   device_gone, released, serial_valid>>

\* Mistake: the token is looked at and left.
PeekGone ==
    /\ connect.at = "wait" /\ device_gone
    /\ connect' = [connect EXCEPT !.at = "lock_close"]
    /\ UNCHANGED <<usb, driver, user, mutex, flags, shared>>

TakeGone ==
    /\ connect.at = "wait" /\ device_gone
    /\ device_gone' = FALSE
    /\ connect' = [connect EXCEPT !.at = "lock_close"]
    /\ UNCHANGED <<usb, driver, user, mutex, flags, s_cdc_dev, s_connected, s_normal_cdc_present,
                   released, serial_valid, openknx>>

Close ==
    /\ connect.at = "close"
    /\ opened' = opened \ {s_cdc_dev}
    /\ s_cdc_dev' = 0
    /\ connect' = [connect EXCEPT !.at = "down"]
    /\ UNCHANGED <<plug, attached, events, driver, user, mutex, flags, s_connected,
                   s_normal_cdc_present, device_gone, released, serial_valid, openknx>>

\* Mistake: the callback has cleared s_connected, it is thought.
DownStillConnected ==
    /\ connect.at = "down"
    /\ serial_valid' = FALSE
    /\ mutex' = NoOne
    /\ connect' = [connect EXCEPT !.at = "release"]
    /\ UNCHANGED <<usb, driver, user, flags, s_cdc_dev, s_connected, s_normal_cdc_present,
                   device_gone, released, openknx>>

\* The rings are emptied again.
Down ==
    /\ connect.at = "down"
    /\ s_connected' = FALSE
    /\ serial_valid' = FALSE
    /\ mutex' = NoOne
    /\ connect' = [connect EXCEPT !.at = "release"]
    /\ UNCHANGED <<usb, driver, user, flags, s_cdc_dev, s_normal_cdc_present, device_gone, released,
                   openknx>>

Release ==
    /\ connect.at = "release"
    /\ released' = TRUE
    /\ connect' = [at |-> "check", dev |-> 0]
    /\ UNCHANGED <<usb, driver, user, mutex, flags, s_cdc_dev, s_connected, s_normal_cdc_present,
                   device_gone, serial_valid, openknx>>

ConnectStep ==
    \/ CheckPause \/ OpenSucceeds \/ OpenFails \/ Opened \/ ConnectLocks \/ SetUp \/ SetUpSerial
    \/ Connected \/ ClearOpenknx \/ TakeGone \/ Close \/ Down \/ Release

-----------------------------------------------------------------------------
(* The users: set_line_coding, set_control_lines, send_direct (and usb_tx_task *)
(* around a transfer), openknx_1200_touch, restore_normal_state and            *)
(* query_openknx_info share one shape: look, lock, look again, call, unlock.   *)

Usable == s_connected /\ s_cdc_dev # 0

Goto(u, at) == user' = [user EXCEPT ![u].at = at]

Begin(u, op) ==
    /\ user[u].at = "idle" /\ op \in UserOps[u] /\ Usable
    /\ user' = [user EXCEPT ![u] = [at |-> "lock", op |-> op, dev |-> 0]]
    /\ UNCHANGED <<usb, driver, connect, mutex, flags, shared>>

Lock(u) ==
    /\ user[u].at = "lock"
    /\ \/ mutex = NoOne /\ mutex' = u /\ Goto(u, "locked")
       \/ UNCHANGED mutex /\ user' = [user EXCEPT ![u] = AtRest]   \* time-out
    /\ UNCHANGED <<usb, driver, connect, flags, shared>>

\* Mistake: what was seen before the wait is believed.
LookOnce(u) ==
    /\ user[u].at = "locked"
    /\ user' = [user EXCEPT ![u].at = "call", ![u].dev = s_cdc_dev]
    /\ UNCHANGED <<usb, driver, connect, mutex, flags, shared>>

\* The state may have changed while the task waited for the mutex.
LookAgain(u) ==
    /\ user[u].at = "locked"
    /\ user' = [user EXCEPT ![u].at = IF Usable THEN "call" ELSE "unlock",
                            ![u].dev = IF Usable THEN s_cdc_dev ELSE 0]
    /\ UNCHANGED <<usb, driver, connect, mutex, flags, shared>>

\* Mistake: who fails returns without giving the mutex back.
CallFailsLocked(u) ==
    /\ user[u].at = "call"
    /\ \/ Goto(u, IF user[u].op \in {"line_coding", "control_lines", "touch"} THEN "store"
                   ELSE "unlock")
       \/ user' = [user EXCEPT ![u] = AtRest]
    /\ UNCHANGED <<usb, driver, connect, mutex, flags, shared>>

\* The driver's call on the handle, which may fail.
Call(u) ==
    /\ user[u].at = "call"
    /\ \/ Goto(u, CASE user[u].op \in {"line_coding", "control_lines", "touch"} -> "store"
                    [] user[u].op \in {"send_direct", "restore", "query"} -> "unlock")
       \/ user' = [user EXCEPT ![u].at = "unlock", ![u].op = "failed"]
    /\ UNCHANGED <<usb, driver, connect, mutex, flags, shared>>

\* What the call set is remembered, with the mutex held.
Store(u) ==
    /\ user[u].at = "store"
    /\ serial_valid' = TRUE
    /\ Goto(u, IF user[u].op = "touch" THEN "delay" ELSE "unlock")
    /\ UNCHANGED <<usb, driver, connect, mutex, flags, s_cdc_dev, s_connected,
                   s_normal_cdc_present, device_gone, released, openknx>>

\* After the touch's second with the mutex held: is the device still there?
AfterDelay(u) ==
    /\ user[u].at = "delay"
    /\ Goto(u, IF s_connected /\ s_cdc_dev = user[u].dev THEN "call1200" ELSE "unlock")
    /\ UNCHANGED <<usb, driver, connect, mutex, flags, shared>>

Call1200(u) ==
    /\ user[u].at = "call1200"
    /\ Goto(u, "unlock")
    /\ UNCHANGED <<usb, driver, connect, mutex, flags, shared>>

Unlock(u) ==
    /\ user[u].at = "unlock"
    /\ mutex' = NoOne
    /\ user' = [user EXCEPT ![u] =
          CASE @.op = "restore" /\ @.dev # 0 -> [@ EXCEPT !.at = "late_store"]
            [] @.op = "query" /\ @.dev # 0 -> [@ EXCEPT !.at = "answer"]
            [] OTHER -> AtRest]
    /\ UNCHANGED <<usb, driver, connect, flags, shared>>

\* restore_normal_state remembers the line state after it gave the mutex back.
LateStore(u) ==
    /\ user[u].at = "late_store"
    /\ serial_valid' = TRUE
    /\ user' = [user EXCEPT ![u] = AtRest]
    /\ UNCHANGED <<usb, driver, connect, mutex, flags, s_cdc_dev, s_connected,
                   s_normal_cdc_present, device_gone, released, openknx>>

\* query_openknx_info has its answer, or none, and checks the connection once more ...
Answer(u) ==
    /\ user[u].at = "answer"
    /\ \/ Usable /\ Goto(u, "keep")
       \/ user' = [user EXCEPT ![u] = AtRest]
    /\ UNCHANGED <<usb, driver, connect, mutex, flags, shared>>

\* ... and stores it.
Keep(u) ==
    /\ user[u].at = "keep"
    /\ openknx' = user[u].dev
    /\ user' = [user EXCEPT ![u] = AtRest]
    /\ UNCHANGED <<usb, driver, connect, mutex, flags, s_cdc_dev, s_connected,
                   s_normal_cdc_present, device_gone, released, serial_valid>>

UserStep(u) ==
    \/ Lock(u) \/ LookAgain(u) \/ Call(u) \/ Store(u) \/ AfterDelay(u) \/ Call1200(u)
    \/ Unlock(u) \/ LateStore(u) \/ Answer(u) \/ Keep(u)

\* set_reconnect_paused and set_reconnect_hold, as the firmware update calls them.
SetPaused(paused) ==
    /\ s_reconnect_paused' = paused
    /\ UNCHANGED <<usb, driver, connect, user, mutex, s_reconnect_hold, shared>>

SetHold(hold) ==
    /\ s_reconnect_hold' = hold
    /\ UNCHANGED <<usb, driver, connect, user, mutex, s_reconnect_paused, shared>>

DriverStep == \/ NewDevice \/ NewDeviceSetsPause
              \/ Disconnected \/ DisconnectInvalidates \/ DisconnectGives

Next ==
    \/ \E kind \in {"cdc", "bootsel", "other"} : PlugIn(kind)
    \/ Unplug \/ DriverStep \/ ConnectStep
    \/ \E u \in Users : UserStep(u) \/ \E op \in Ops : Begin(u, op)
    \/ \E b \in BOOLEAN : SetPaused(b) \/ SetHold(b)

\* FreeRTOS runs every task that is ready; usb_connect_task waits for the mutex with
\* portMAX_DELAY and gets it when it keeps becoming free; an attached device is not
\* refused for ever.
Fairness ==
    /\ WF_vars(DriverStep)
    /\ WF_vars(ConnectStep) /\ SF_vars(ConnectLocks) /\ SF_vars(OpenSucceeds)
    /\ \A u \in Users : WF_vars(UserStep(u))

Spec == Init /\ [][Next]_vars /\ Fairness

-----------------------------------------------------------------------------
Ids == 0..MaxPlugs
ConnectPlaces == {"check", "open", "present", "lock", "setup", "serial", "connected", "clear",
                  "wait", "lock_close", "close", "down", "release"}
UserPlaces == {"idle", "lock", "locked", "call", "store", "delay", "call1200", "unlock",
               "late_store", "answer", "keep"}

\* Handles, positions and flags keep their types; the connect task has a handle exactly
\* from the open on to the release.
TypeOK ==
    /\ plug \in Ids
    /\ attached \in [kind : {"none", "cdc", "bootsel", "other"}, id : Ids]
    /\ opened \subseteq Ids
    /\ events \in Seq([type : {"new", "gone"}, kind : {"cdc", "bootsel", "other"}, id : Ids])
    /\ driver \in [at : {"idle", "pause", "unpause", "invalidate", "give"}, id : Ids]
    /\ connect \in [at : ConnectPlaces, dev : Ids]
    /\ connect.dev = 0 <=> connect.at \in {"check", "open"}
    /\ user \in [Users -> [at : UserPlaces, op : Ops \cup {"none", "failed"}, dev : Ids]]
    /\ mutex \in Users \cup {Connect, NoOne}
    /\ s_cdc_dev \in Ids /\ openknx \in Ids
    /\ {s_connected, s_normal_cdc_present, s_reconnect_paused, s_reconnect_hold,
        device_gone, released, serial_valid} \subseteq BOOLEAN

\* A user about to call, or in the second between two calls, works on a handle the
\* driver still has open, although the device may be gone: it is closed under the same
\* mutex only.
NoUseAfterClose ==
    \A u \in Users : user[u].at \in {"call", "store", "delay", "call1200"} =>
        user[u].dev \in opened /\ user[u].dev = s_cdc_dev /\ mutex = u

\* The device-gone token belongs to the device the connect task has open and is not used
\* up: no token of an earlier device ever ends the next connection.
GoneTokenIsFresh ==
    device_gone \/ driver.at = "give" =>
        /\ connect.at \in {"present", "lock", "setup", "serial", "connected", "clear", "wait"}
        /\ connect.dev \in opened /\ connect.dev # attached.id
        /\ ~(device_gone /\ driver.at = "give")

\* What CDC_STATE_RELEASED says: while it is set no handle is shared or in use, and one is
\* open only if usb_connect_task has opened it and not set it up yet (the worker of
\* firmware_update.c, which waits for the bit, then goes on beside an open handle); while it
\* is clear there is an open handle, or usb_connect_task is just giving one up.
ReleasedMeansUnused ==
    /\ released => /\ s_cdc_dev = 0 /\ ~s_connected
                   /\ \A u \in Users : user[u].at \notin {"call", "store", "delay", "call1200"}
                   /\ opened # {} => connect.at \in {"present", "lock", "setup"}
    /\ ~released => opened # {} \/ connect.at \in {"down", "release"}

\* While the mutex is free, "connected" comes with an open handle, and no handle is left
\* open or forgotten by the connect task.
ConnectedMeansOpen ==
    /\ mutex = NoOne /\ s_connected => s_cdc_dev # 0
    /\ opened = IF connect.at \in {"check", "open", "down", "release"} THEN {} ELSE {connect.dev}
    /\ s_cdc_dev # 0 => opened = {s_cdc_dev}

\* A device that vanished while open is closed and reported as released, whatever the
\* other tasks are doing with it; the mutex is never kept from the connect task.
GoneIsReleased ==
    \A id \in 1..MaxPlugs : (id \in opened /\ attached.id # id) ~> (id \notin opened /\ released)

\* A normal device that stays attached with reconnection enabled ends up connected.
Reconnects ==
    <>[](attached.kind = "cdc" /\ Reconnecting) => <>[](s_connected /\ s_cdc_dev = attached.id)
=============================================================================
