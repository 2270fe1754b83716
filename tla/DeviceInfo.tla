------------------------------ MODULE DeviceInfo ------------------------------
(***************************************************************************)
(* What the bridge knows of the device on its USB port, s_device_info of    *)
(* main/usb_cdc_bridge.c.  Two clients of the USB host write it: the CDC     *)
(* driver's, which hears of new devices and of the end of the open one, and  *)
(* usb_info_task, which hears of new devices too and looks the port through  *)
(* when it is asked to.  The connect task and the web server ask it, one at  *)
(* a time and not for ever: an answer may come when nobody waits any more.   *)
(***************************************************************************)
EXTENDS Naturals, Sequences

CONSTANTS Requesters,  \* the connect task and the web server
          NoOne,       \* nobody holds s_info_request_mutex
          Kinds,       \* bound: per device that comes, in their order, "cdc" or "bootsel"
          MaxRequests  \* bound: requests in all

ASSUME InfoAssumption ==
    NoOne \notin Requesters /\ Kinds \in Seq({"cdc", "bootsel"}) /\ MaxRequests \in Nat

Devices == 1..Len(Kinds)

\* Addresses: every device gets its own; 0 is none.
NoDevice == 0

VARIABLES here,       \* the device on the port, or NoDevice
          came,       \* how many came
          cdc_queue,  \* events for the CDC driver's client, oldest first
          info_queue, \* addresses of new devices usb_info_task has not heard of
          cdc,        \* the CDC driver's task: a device it is about to store, or NoDevice
          info        \* where usb_info_task is: see Init
VARIABLES s_device_info,             \* valid, and whose
          s_info_pending_addr, s_info_refresh_requested, s_info_refresh_result,
          s_info_request_mutex,      \* its holder, or NoOne
          s_info_request_done,       \* binary semaphore
          request                    \* per requester: where it is and what it was answered

\* For the properties only.
VARIABLES requests,   \* how many were made
          since,      \* since the mutex's holder asked: has usb_info_task begun a scan,
                      \* written the result of one that found a device, and of one it had
                      \* begun since then
          failed      \* usb_info_task could not read the device that is here

port == <<here, came, cdc_queue, info_queue>>
shared == <<s_info_pending_addr, s_info_refresh_requested, s_info_refresh_result,
            s_info_request_done>>
vars == <<port, cdc, info, s_device_info, shared, s_info_request_mutex, request, requests,
          since, failed>>

NothingSince == [begun |-> FALSE, written |-> FALSE, own |-> FALSE]

Init ==
    /\ here = NoDevice /\ came = 0
    /\ cdc_queue = <<>> /\ info_queue = <<>>
    /\ cdc = NoDevice
    /\ info = [at |-> "events", dev |-> NoDevice, result |-> "none", scanning |-> FALSE]
    /\ s_device_info = [valid |-> FALSE, dev |-> NoDevice]
    /\ s_info_pending_addr = NoDevice
    /\ s_info_refresh_requested = FALSE
    /\ s_info_refresh_result = "invalid"
    /\ s_info_request_mutex = NoOne
    /\ s_info_request_done = FALSE
    /\ request = [r \in Requesters |-> [at |-> "idle", answer |-> "none"]]
    /\ requests = 0 /\ since = NothingSince /\ failed = FALSE

-----------------------------------------------------------------------------
(* The port, and the CDC driver's client.                                   *)

\* The host tells both of its clients of a new device.
Plug ==
    /\ here = NoDevice /\ came < Len(Kinds)
    /\ here' = came + 1 /\ came' = came + 1
    /\ cdc_queue' = Append(cdc_queue, [event |-> "new", dev |-> came + 1])
    /\ info_queue' = Append(info_queue, came + 1)
    /\ failed' = FALSE
    /\ UNCHANGED <<cdc, info, s_device_info, shared, s_info_request_mutex, request, requests,
                   since>>

\* The CDC driver is told that a device left if it had it open; a boot drive, and a CDC
\* device nobody had opened yet, just go.
Unplug ==
    /\ here # NoDevice
    /\ here' = NoDevice
    /\ \/ Kinds[here] = "cdc" /\ cdc_queue' = Append(cdc_queue, [event |-> "gone", dev |-> here])
       \/ UNCHANGED cdc_queue
    /\ UNCHANGED <<came, info_queue, cdc, info, s_device_info, shared, s_info_request_mutex,
                   request, requests, since, failed>>

\* on_new_usb_device has the descriptor, which the host keeps for a device it knows; the
\* rest of the record is read, and all of it stored, later.
NewDevice ==
    /\ cdc = NoDevice /\ cdc_queue # <<>> /\ Head(cdc_queue).event = "new"
    /\ cdc' = Head(cdc_queue).dev
    /\ cdc_queue' = Tail(cdc_queue)
    /\ UNCHANGED <<here, came, info_queue, info, s_device_info, shared, s_info_request_mutex,
                   request, requests, since, failed>>

StoreNewDevice ==
    /\ cdc # NoDevice
    /\ s_device_info' = [valid |-> TRUE, dev |-> cdc]
    /\ cdc' = NoDevice
    /\ UNCHANGED <<port, info, shared, s_info_request_mutex, request, requests, since, failed>>

\* on_cdc_event forgets the device.
DeviceGone ==
    /\ cdc = NoDevice /\ cdc_queue # <<>> /\ Head(cdc_queue).event = "gone"
    /\ s_device_info' = [s_device_info EXCEPT !.valid = FALSE]
    /\ cdc_queue' = Tail(cdc_queue)
    /\ UNCHANGED <<here, came, info_queue, cdc, info, shared, s_info_request_mutex, request,
                   requests, since, failed>>

-----------------------------------------------------------------------------
(* usb_info_task.                                                           *)

\* Mistake: of the addresses the first one is kept.
HandleEventsFirst ==
    /\ info.at = "events"
    /\ info' = [info EXCEPT !.at = "pending"]
    /\ s_info_pending_addr' = IF info_queue = <<>> THEN s_info_pending_addr ELSE Head(info_queue)
    /\ info_queue' = <<>>
    /\ UNCHANGED <<here, came, cdc_queue, cdc, s_device_info, s_info_refresh_requested,
                   s_info_refresh_result, s_info_request_done, s_info_request_mutex, request,
                   requests, since, failed>>

\* The events that wait are handled; of the addresses the last one is kept.
HandleEvents ==
    /\ info.at = "events"
    /\ info' = [info EXCEPT !.at = "pending"]
    /\ s_info_pending_addr' = IF info_queue = <<>> THEN s_info_pending_addr
                              ELSE info_queue[Len(info_queue)]
    /\ info_queue' = <<>>
    /\ UNCHANGED <<here, came, cdc_queue, cdc, s_device_info, s_info_refresh_requested,
                   s_info_refresh_result, s_info_request_done, s_info_request_mutex, request,
                   requests, since, failed>>

Pending ==
    /\ info.at = "pending"
    /\ s_info_pending_addr' = NoDevice
    /\ info' = IF s_info_pending_addr = NoDevice THEN [info EXCEPT !.at = "refresh"]
               ELSE [info EXCEPT !.at = "open", !.dev = s_info_pending_addr, !.scanning = FALSE]
    /\ UNCHANGED <<port, cdc, s_device_info, s_info_refresh_requested, s_info_refresh_result,
                   s_info_request_done, s_info_request_mutex, request, requests, since,
                   failed>>

\* A request is taken before it is worked on.
Refresh ==
    /\ info.at = "refresh"
    /\ s_info_refresh_requested' = FALSE
    /\ info' = [info EXCEPT !.at = IF s_info_refresh_requested THEN "scan" ELSE "events"]
    /\ since' = [since EXCEPT !.begun = @ \/ s_info_refresh_requested]
    /\ UNCHANGED <<port, cdc, s_device_info, s_info_pending_addr, s_info_refresh_result,
                   s_info_request_done, s_info_request_mutex, request, requests, failed>>

\* info_scan_connected_devices: the addresses on the port.
Scan ==
    /\ info.at = "scan"
    /\ info' = IF here = NoDevice
               THEN [info EXCEPT !.at = "answer", !.result = "not_found"]
               ELSE [info EXCEPT !.at = "open", !.dev = here, !.scanning = TRUE]
    /\ UNCHANGED <<port, cdc, s_device_info, shared, s_info_request_mutex, request, requests,
                   since, failed>>

\* info_capture_address; the device may have left, and reading it may fail.
Capture ==
    /\ info.at = "open"
    /\ \/ /\ here = info.dev
          /\ info' = [info EXCEPT !.at = "store"]
          /\ UNCHANGED failed
       \/ /\ info' = [info EXCEPT !.at = IF info.scanning THEN "answer" ELSE "refresh",
                                  !.result = "not_found", !.dev = NoDevice]
          /\ failed' = (failed \/ here = info.dev)
    /\ UNCHANGED <<port, cdc, s_device_info, shared, s_info_request_mutex, request, requests,
                   since>>

StoreCaptured ==
    /\ info.at = "store"
    /\ s_device_info' = [valid |-> TRUE, dev |-> info.dev]
    /\ info' = [info EXCEPT !.at = IF info.scanning THEN "answer" ELSE "refresh",
                            !.result = "ok", !.dev = NoDevice]
    /\ UNCHANGED <<port, cdc, shared, s_info_request_mutex, request, requests, since, failed>>

\* The result is written first, then the one who waits is woken.
WriteResult ==
    /\ info.at = "answer"
    /\ s_info_refresh_result' = info.result
    /\ info' = [info EXCEPT !.at = "give", !.result = "none", !.scanning = FALSE]
    /\ since' = [since EXCEPT !.written = @ \/ info.result = "ok",
                              !.own = @ \/ (info.result = "ok" /\ since.begun)]
    /\ UNCHANGED <<port, cdc, s_device_info, s_info_pending_addr, s_info_refresh_requested,
                   s_info_request_done, s_info_request_mutex, request, requests, failed>>

Give ==
    /\ info.at = "give"
    /\ s_info_request_done' = TRUE
    /\ info' = [info EXCEPT !.at = "events"]
    /\ UNCHANGED <<port, cdc, s_device_info, s_info_pending_addr, s_info_refresh_requested,
                   s_info_refresh_result, s_info_request_mutex, request, requests, since,
                   failed>>

Info ==
    \/ HandleEvents \/ Pending \/ Refresh \/ Scan \/ Capture \/ StoreCaptured
    \/ WriteResult \/ Give

-----------------------------------------------------------------------------
(* usb_cdc_bridge_refresh_device_info.                                      *)

\* Somebody asks; the web server, which refuses while a firmware operation is busy, may.
Request(r) ==
    /\ request[r].at = "idle" /\ requests < MaxRequests
    /\ requests' = requests + 1
    /\ request' = [request EXCEPT ![r] = [at |-> "lock", answer |-> "none"]]
    /\ UNCHANGED <<port, cdc, info, s_device_info, shared, s_info_request_mutex, since,
                   failed>>

\* With the mutex in hand, an answer left over from an earlier request is thrown away.
Lock(r) ==
    /\ request[r].at = "lock"
    /\ \/ /\ s_info_request_mutex = NoOne
          /\ s_info_request_mutex' = r
          /\ s_info_request_done' = FALSE
          /\ request' = [request EXCEPT ![r].at = "ask"]
       \/ /\ s_info_request_mutex # NoOne
          /\ request' = [request EXCEPT ![r] = [at |-> "idle", answer |-> "timeout"]]
          /\ UNCHANGED <<s_info_request_mutex, s_info_request_done>>
    /\ UNCHANGED <<port, cdc, info, s_device_info, s_info_pending_addr,
                   s_info_refresh_requested, s_info_refresh_result, requests, since, failed>>

\* Mistake: the result of the last request is left where it is.
AskKeepingResult(r) ==
    /\ request[r].at = "ask"
    /\ s_info_refresh_requested' = TRUE
    /\ request' = [request EXCEPT ![r].at = "wait"]
    /\ since' = NothingSince
    /\ UNCHANGED <<port, cdc, info, s_device_info, s_info_pending_addr, s_info_refresh_result,
                   s_info_request_done, s_info_request_mutex, requests, failed>>

Ask(r) ==
    /\ request[r].at = "ask"
    /\ s_info_refresh_result' = "invalid"
    /\ s_info_refresh_requested' = TRUE
    /\ request' = [request EXCEPT ![r].at = "wait"]
    /\ since' = NothingSince
    /\ UNCHANGED <<port, cdc, info, s_device_info, s_info_pending_addr, s_info_request_done,
                   s_info_request_mutex, requests, failed>>

\* Woken, or out of time: then the request is taken back, if it has not been started.
Wait(r) ==
    /\ request[r].at = "wait"
    /\ \/ /\ s_info_request_done
          /\ s_info_request_done' = FALSE
          /\ request' = [request EXCEPT ![r].at = "read"]
          /\ UNCHANGED <<s_info_refresh_requested, s_info_request_mutex>>
       \/ /\ ~s_info_request_done
          /\ s_info_refresh_requested' = FALSE
          /\ s_info_request_mutex' = NoOne
          /\ request' = [request EXCEPT ![r] = [at |-> "idle", answer |-> "timeout"]]
          /\ UNCHANGED s_info_request_done
    /\ UNCHANGED <<port, cdc, info, s_device_info, s_info_pending_addr, s_info_refresh_result,
                   requests, since, failed>>

Read(r) ==
    /\ request[r].at = "read"
    /\ request' = [request EXCEPT ![r] = [at |-> "done", answer |-> s_info_refresh_result]]
    /\ UNCHANGED <<port, cdc, info, s_device_info, shared, s_info_request_mutex, requests,
                   since, failed>>

Release(r) ==
    /\ request[r].at = "done"
    /\ s_info_request_mutex' = NoOne
    /\ request' = [request EXCEPT ![r].at = "idle"]
    /\ UNCHANGED <<port, cdc, info, s_device_info, shared, requests, since, failed>>

Requester(r) == Lock(r) \/ Ask(r) \/ Wait(r) \/ Read(r) \/ Release(r)

Next ==
    \/ Plug \/ Unplug \/ NewDevice \/ StoreNewDevice \/ DeviceGone
    \/ Info
    \/ \E r \in Requesters : Request(r) \/ Requester(r)

Spec == Init /\ [][Next]_vars

-----------------------------------------------------------------------------
(* Properties.                                                              *)

Told(r, answer) == request[r].at = "done" /\ request[r].answer = answer

\* A request is told "ok" only if usb_info_task, since it asked, has written that a scan
\* found a device: never because of what an earlier request left in s_info_refresh_result.
\* The scan itself may be one an earlier request had waited for in vain; see OkIsFresh.
OkIsNotLeftOver == \A r \in Requesters : Told(r, "ok") => since.written

\* What the web server then says, that the USB device has been updated: the port was looked
\* through after the request was made.  The code does not keep it: a scan that an earlier request
\* began and did not wait for answers the next one.
OkIsFresh == \A r \in Requesters : Told(r, "ok") => since.own

\* Both clients have heard of everything, and nobody has a record in hand.
Settled ==
    /\ cdc_queue = <<>> /\ cdc = NoDevice
    /\ info_queue = <<>> /\ info.at = "refresh"

\* Then the information is that of the device on the port, whatever came, went and was
\* stored late before; unless that device could not be read.
InfoCatchesUp ==
    Settled /\ here # NoDevice /\ ~failed => s_device_info = [valid |-> TRUE, dev |-> here]
=============================================================================
