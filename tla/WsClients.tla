------------------------------ MODULE WsClients ------------------------------
(***************************************************************************)
(* The browser terminals of main/http_bridge.c: the table of client slots   *)
(* shared by the httpd task, which opens and closes sessions and sends the  *)
(* frames, and ws_tx_task, which pops USB bytes for each client into the    *)
(* slot's tx_data and queues ws_send_work on the httpd task.                *)
(*                                                                         *)
(* The fan-out ring is used through the queues it implements (LossyStream,  *)
(* see FanoutRing).  A critical section on s_ws_clients_mux, an operation of *)
(* the ring and a call of the HTTP server are one step each; between two of  *)
(* them the other task may run.                                             *)
(***************************************************************************)
EXTENDS Naturals, Sequences, FiniteSets

CONSTANTS Slots,           \* 0..BRIDGE_WS_MAX_CLIENTS-1
          Fds,             \* sockets of the HTTP server
          NoFd,            \* -1
          Touch,           \* in the work queue: ws_lru_touch_work; a slot is its ws_send_work
          Capacity, MaxChunk, MaxPop, MaxBytes,  \* of the ring, see LossyStream
          MaxGenerations   \* bound: activations of one slot

ASSUME WsAssumption ==
    /\ Slots \subseteq Nat /\ 0 \in Slots /\ IsFiniteSet(Slots)
    /\ Fds # {} /\ Touch \notin Slots
    /\ MaxPop \in Nat /\ MaxChunk \in Nat /\ Capacity \in Nat

VARIABLES sent, queue, joined, received, lost    \* the ring's queues
VARIABLES client,   \* ws_client_t per slot, tx_data apart
          tx_data,  \* per slot: the bytes of the frame buffer
          capture,  \* usb_cdc_bridge: s_ws_client_connected
          touch_pending,  \* s_ws_lru_touch_pending
          work,     \* work queued on the httpd task
          session,  \* per socket: "none", "live", "dead" (peer gone) or "closing"
          httpd,    \* where the httpd task is
          tx        \* where ws_tx_task is

\* For the properties only.
VARIABLES since,      \* per slot: sent when the session joined the ring
          delivered,  \* per slot: bytes sent to the browser in this session
          failed,     \* per slot: bytes of frames that failed, counted as dropped
          unclaimed,  \* per slot: pops of this session dropped by the owner check
          cleared     \* per slot: bytes a USB reconnect took from it

stream == <<sent, queue, joined, received, lost>>
seen == <<since, delivered, failed, unclaimed, cleared>>
vars == <<stream, client, tx_data, capture, touch_pending, work, session, httpd, tx, seen>>

Ring == INSTANCE LossyStream WITH Clients <- Slots

Idle == [at |-> "idle"]

FreeClient ==
    [fd |-> NoFd, active |-> FALSE, in_flight |-> FALSE, generation |-> 0,
     scheduled_fd |-> NoFd, scheduled_generation |-> 0, tx_len |-> 0]

Init ==
    /\ Ring!Init
    /\ client = [s \in Slots |-> FreeClient]
    /\ tx_data = [s \in Slots |-> <<>>]
    /\ capture = FALSE
    /\ touch_pending = FALSE
    /\ work = <<>>
    /\ session = [f \in Fds |-> "none"]
    /\ httpd = Idle
    /\ tx = [at |-> "scan", slot |-> 0]
    /\ since = [s \in Slots |-> 0]
    /\ delivered = [s \in Slots |-> <<>>]
    /\ failed = [s \in Slots |-> 0]
    /\ unclaimed = [s \in Slots |-> 0]
    /\ cleared = [s \in Slots |-> 0]

\* What would go wrong (each stands for a plausible mistake and replaces the definition
\* after it when a property is tried on it): a slot counts until its last frame is done.
CountInFlight == Cardinality({s \in Slots : client[s].active \/ client[s].in_flight})

ws_client_count == Cardinality({s \in Slots : client[s].active})

ws_fd_is_live(fd) == fd # NoFd /\ session[fd] = "live"

\* The slot that holds a socket.
Holds(s, fd) == client[s].active /\ client[s].fd = fd
Held(fd) == \E s \in Slots : Holds(s, fd)

-----------------------------------------------------------------------------
(* The httpd task: one handler, close callback or work item at a time.      *)
(* httpd.next is what a call of activate or deactivate returns to.          *)

\* ws_client_deactivate_fd: the slot is marked free under the mux, then the ring and
\* the capture flag follow.  A socket without a slot changes nothing.
Deactivate(fd, next) ==
    \/ \E s \in Slots :
        /\ Holds(s, fd)
        /\ client' = [client EXCEPT ![s].active = FALSE, ![s].fd = NoFd]
        /\ httpd' = [at |-> "leave", slot |-> s, next |-> next]
    \/ /\ ~Held(fd)
       /\ httpd' = next
       /\ UNCHANGED client

\* bridge_usb_to_ws_client_deactivate(slot).
LeaveRing ==
    /\ httpd.at = "leave"
    /\ Ring!Leave(httpd.slot)
    /\ httpd' = [at |-> "sync", next |-> httpd.next]
    /\ UNCHANGED <<client, tx_data, capture, touch_pending, work, session, tx, seen>>

\* bridge_usb_to_ws_client_activate(slot).
JoinRing ==
    /\ httpd.at = "join"
    /\ Ring!Join(httpd.slot)
    /\ httpd' = [at |-> "sync", next |-> httpd.next]
    /\ since' = [since EXCEPT ![httpd.slot] = sent]
    /\ delivered' = [delivered EXCEPT ![httpd.slot] = <<>>]
    /\ failed' = [failed EXCEPT ![httpd.slot] = 0]
    /\ unclaimed' = [unclaimed EXCEPT ![httpd.slot] = 0]
    /\ cleared' = [cleared EXCEPT ![httpd.slot] = 0]
    /\ UNCHANGED <<client, tx_data, capture, touch_pending, work, session, tx>>

\* ws_sync_usb_capture_state: no other task changes who is active, so counting and
\* setting the flag are one step.
ws_sync_usb_capture_state ==
    /\ httpd.at = "sync"
    /\ capture' = (ws_client_count > 0)
    /\ httpd' = httpd.next
    /\ UNCHANGED <<stream, client, tx_data, touch_pending, work, session, tx, seen>>

\* A slot must not be reused while a frame of its last session is under way.  Mistake:
\* it may.
FreeSlotsInFlight == {s \in Slots : ~client[s].active}

FreeSlots == {s \in Slots : ~client[s].active /\ ~client[s].in_flight}

\* Mistake: a session is not told from the one before it.
SameGeneration(c) == c.generation

NextGeneration(c) == c.generation + 1

\* ws_on_connect after a WebSocket handshake: ws_client_activate's critical section,
\* or the limit is reached and the session is to be closed.
ws_on_connect(fd) ==
    /\ httpd.at = "idle" /\ session[fd] = "none"
    /\ \/ \E s \in FreeSlots :
          /\ \A t \in FreeSlots : s <= t
          /\ client[s].generation < MaxGenerations
          /\ client' = [client EXCEPT ![s] =
                [@ EXCEPT !.fd = fd, !.active = TRUE, !.generation = NextGeneration(client[s]),
                          !.scheduled_fd = NoFd, !.scheduled_generation = 0, !.tx_len = 0]]
          /\ httpd' = [at |-> "join", slot |-> s, next |-> Idle]
          /\ session' = [session EXCEPT ![fd] = "live"]
       \/ /\ FreeSlots = {}
          /\ session' = [session EXCEPT ![fd] = "closing"]
          /\ UNCHANGED <<client, httpd>>
    /\ UNCHANGED <<stream, tx_data, capture, touch_pending, work, tx, seen>>

\* http_session_close, called by the server for a peer that left, a session that is to
\* be closed, or the least recently used one.  The socket is closed after the slot is
\* given up, so that its number cannot be reused before.
http_session_close(fd) ==
    /\ httpd.at = "idle" /\ session[fd] # "none"
    /\ Deactivate(fd, [at |-> "close", fd |-> fd])
    /\ UNCHANGED <<stream, tx_data, capture, touch_pending, work, session, tx, seen>>

CloseSocket ==
    /\ httpd.at = "close"
    /\ session' = [session EXCEPT ![httpd.fd] = "none"]
    /\ httpd' = Idle
    /\ UNCHANGED <<stream, client, tx_data, capture, touch_pending, work, tx, seen>>

\* ws_handler when a frame cannot be received; the server closes the session after it.
\* (What it does with a frame is the rings' and the USB bridge's matter.)
ws_handler_fails(fd) ==
    /\ httpd.at = "idle" /\ session[fd] \in {"live", "dead"}
    /\ Deactivate(fd, Idle)
    /\ session' = [session EXCEPT ![fd] = "closing"]
    /\ UNCHANGED <<stream, tx_data, capture, touch_pending, work, tx, seen>>

\* ws_prune_stale_clients, called by the status page.
StartPrune ==
    /\ httpd.at = "idle"
    /\ httpd' = [at |-> "prune"]
    /\ UNCHANGED <<stream, client, tx_data, capture, touch_pending, work, session, tx, seen>>

ws_prune_stale_clients ==
    /\ httpd.at = "prune"
    /\ LET stale == {s \in Slots : client[s].active /\ ~ws_fd_is_live(client[s].fd)}
       IN \/ \E s \in stale : Deactivate(client[s].fd, httpd)
          \/ stale = {} /\ httpd' = Idle /\ UNCHANGED client
    /\ UNCHANGED <<stream, tx_data, capture, touch_pending, work, session, tx, seen>>

\* ws_send_work, first critical section: is the frame still its client's?
StartSend ==
    /\ httpd.at = "idle" /\ work # <<>> /\ Head(work) # Touch
    /\ LET s == Head(work)
           c == client[s]
       IN httpd' = [at |-> "send", slot |-> s, fd |-> c.scheduled_fd, len |-> c.tx_len,
                    should_send |-> /\ c.in_flight /\ c.active
                                    /\ c.fd = c.scheduled_fd
                                    /\ c.generation = c.scheduled_generation]
    /\ work' = Tail(work)
    /\ UNCHANGED <<stream, client, tx_data, capture, touch_pending, session, tx, seen>>

\* httpd_ws_send_frame_async; a failed send is counted, gives the slot up and has the
\* session closed.
SendFrame ==
    /\ httpd.at = "send"
    /\ LET s == httpd.slot
           finish == [at |-> "finish", slot |-> s]
           sendable == httpd.should_send /\ ws_fd_is_live(httpd.fd)
       IN \/ /\ sendable
             /\ delivered' = [delivered EXCEPT ![s] = @ \o SubSeq(tx_data[s], 1, httpd.len)]
             /\ httpd' = finish
             /\ UNCHANGED <<client, session, failed>>
          \/ /\ sendable
             /\ failed' = [failed EXCEPT ![s] = @ + httpd.len]
             /\ Deactivate(httpd.fd, finish)
             /\ session' = [session EXCEPT ![httpd.fd] = "closing"]
             /\ UNCHANGED delivered
          \/ /\ ~sendable
             /\ httpd' = finish
             /\ UNCHANGED <<client, session, delivered, failed>>
    /\ UNCHANGED <<stream, tx_data, capture, touch_pending, work, tx, since, unclaimed, cleared>>

\* Nothing is scheduled for the slot any more.  Mistake: the flag is forgotten.
UnscheduledButInFlight(c) == [c EXCEPT !.tx_len = 0, !.scheduled_fd = NoFd]

Unscheduled(c) ==
    [c EXCEPT !.in_flight = FALSE, !.tx_len = 0,
              !.scheduled_fd = NoFd, !.scheduled_generation = 0]

\* ws_send_work, last critical section.
FinishSend ==
    /\ httpd.at = "finish"
    /\ client' = [client EXCEPT ![httpd.slot] = Unscheduled(@)]
    /\ httpd' = Idle
    /\ UNCHANGED <<stream, tx_data, capture, touch_pending, work, session, tx, seen>>

\* ws_lru_touch_work: the sessions' ages are the server's, the pending flag is ours.
ws_lru_touch_work ==
    /\ httpd.at = "idle" /\ work # <<>> /\ Head(work) = Touch
    /\ work' = Tail(work)
    /\ touch_pending' = FALSE
    /\ UNCHANGED <<stream, client, tx_data, capture, session, httpd, tx, seen>>

-----------------------------------------------------------------------------
(* ws_tx_task: over the slots in turn, then the LRU refresh when it is due. *)

NextSlot(s) == IF s + 1 \in Slots THEN [at |-> "scan", slot |-> s + 1] ELSE [at |-> "lru"]

Scan ==
    /\ tx.at = "scan"
    /\ LET s == tx.slot
           c == client[s]
       IN tx' = IF c.active /\ ~c.in_flight
                THEN [at |-> "pop", slot |-> s, fd |-> c.fd, generation |-> c.generation]
                ELSE NextSlot(s)
    /\ UNCHANGED <<stream, client, tx_data, capture, touch_pending, work, session, httpd, seen>>

\* bridge_usb_to_ws_pop_client into the slot's own buffer, outside the mux.
PopClient ==
    /\ tx.at = "pop"
    /\ LET s == tx.slot
           len == IF Len(queue[s]) < MaxPop THEN Len(queue[s]) ELSE MaxPop
       IN \/ /\ joined[s] /\ len > 0
             /\ Ring!Receive(s, len)
             /\ tx_data' = [tx_data EXCEPT ![s] = SubSeq(queue[s], 1, len)]
             /\ tx' = [at |-> "claim", slot |-> s, fd |-> tx.fd,
                       generation |-> tx.generation, len |-> len]
          \/ /\ ~joined[s] \/ len = 0
             /\ tx' = NextSlot(s)
             /\ UNCHANGED <<stream, tx_data>>
    /\ UNCHANGED <<client, capture, touch_pending, work, session, httpd, seen>>

\* Does the slot still belong to the session it was popped for?
QueuedOwner(c) ==
    c.active /\ ~c.in_flight /\ c.fd = tx.fd /\ c.generation = tx.generation

Claim ==
    /\ tx.at = "claim"
    /\ LET s == tx.slot
       IN \/ /\ QueuedOwner(client[s])
             /\ client' = [client EXCEPT ![s] =
                   [@ EXCEPT !.in_flight = TRUE, !.scheduled_fd = tx.fd,
                             !.scheduled_generation = tx.generation, !.tx_len = tx.len]]
             /\ tx' = [at |-> "queue", slot |-> s]
             /\ UNCHANGED unclaimed
          \/ /\ ~QueuedOwner(client[s])
             /\ tx' = NextSlot(s)
             /\ unclaimed' = [unclaimed EXCEPT ![s] =
                   @ + Cardinality({i \in 1..tx.len : tx_data[s][i] > since[s]})]
             /\ UNCHANGED client
    /\ UNCHANGED <<stream, tx_data, capture, touch_pending, work, session, httpd,
                   since, delivered, failed, cleared>>

\* The frame is given up and counted as dropped.  Mistake: its length is reset first.
DropFrameUncounted(s) ==
    /\ client' = [client EXCEPT ![s] = Unscheduled(@)]
    /\ failed' = [failed EXCEPT ![s] = @ + client'[s].tx_len]

DropFrame(s) ==
    /\ client' = [client EXCEPT ![s] = Unscheduled(@)]
    /\ failed' = [failed EXCEPT ![s] = @ + client[s].tx_len]

\* httpd_queue_work, which may fail.
QueueWork ==
    /\ tx.at = "queue"
    /\ LET s == tx.slot
       IN \/ work' = Append(work, s) /\ UNCHANGED <<client, failed>>
          \/ DropFrame(s) /\ UNCHANGED work
    /\ tx' = NextSlot(tx.slot)
    /\ UNCHANGED <<stream, tx_data, capture, touch_pending, session, httpd,
                   since, delivered, unclaimed, cleared>>

\* Every WS_LRU_TOUCH_MS one refresh is queued while any client is active.
LruTouch ==
    /\ tx.at = "lru"
    /\ \/ /\ ~touch_pending /\ ws_client_count > 0
          /\ touch_pending' = TRUE
          /\ tx' = [at |-> "touch"]
       \/ tx' = [at |-> "scan", slot |-> 0] /\ UNCHANGED touch_pending
    /\ UNCHANGED <<stream, client, tx_data, capture, work, session, httpd, seen>>

QueueTouch ==
    /\ tx.at = "touch"
    /\ \/ work' = Append(work, Touch) /\ UNCHANGED touch_pending
       \/ touch_pending' = FALSE /\ UNCHANGED work
    /\ tx' = [at |-> "scan", slot |-> 0]
    /\ UNCHANGED <<stream, client, tx_data, capture, session, httpd, seen>>

-----------------------------------------------------------------------------
(* The surroundings: the USB device, the USB connect task and the browsers. *)

\* on_cdc_rx broadcasts while a terminal is connected.
UsbReceive(len) ==
    /\ capture
    /\ Ring!Send(len)
    /\ UNCHANGED <<client, tx_data, capture, touch_pending, work, session, httpd, tx, seen>>

\* bridge_usb_to_ws_reset on a USB connection or disconnection.
UsbReset ==
    /\ Ring!Discard
    /\ cleared' = [s \in Slots |-> cleared[s] + Len(queue[s])]
    /\ UNCHANGED <<client, tx_data, capture, touch_pending, work, session, httpd, tx,
                   since, delivered, failed, unclaimed>>

PeerGone(fd) ==
    /\ session[fd] = "live"
    /\ session' = [session EXCEPT ![fd] = "dead"]
    /\ UNCHANGED <<stream, client, tx_data, capture, touch_pending, work, httpd, tx, seen>>

HttpdWork == StartSend \/ ws_lru_touch_work

HttpdCall == \/ LeaveRing \/ JoinRing \/ ws_sync_usb_capture_state
             \/ CloseSocket \/ ws_prune_stale_clients \/ SendFrame \/ FinishSend

TxStep == Scan \/ PopClient \/ Claim \/ QueueWork \/ LruTouch \/ QueueTouch

Next ==
    \/ HttpdWork \/ HttpdCall \/ TxStep \/ StartPrune \/ UsbReset
    \/ \E fd \in Fds : \/ ws_on_connect(fd) \/ http_session_close(fd)
                       \/ ws_handler_fails(fd) \/ PeerGone(fd)
    \/ \E len \in 1..MaxChunk : UsbReceive(len)

\* FreeRTOS runs both tasks, and the server looks at its control socket, where queued
\* work arrives, in every turn of its loop.
Fairness == WF_vars(HttpdCall) /\ WF_vars(TxStep) /\ SF_vars(HttpdWork)

Spec == Init /\ [][Next]_vars /\ Fairness

-----------------------------------------------------------------------------
ClientType ==
    [fd : Fds \cup {NoFd}, active : BOOLEAN, in_flight : BOOLEAN, generation : Nat,
     scheduled_fd : Fds \cup {NoFd}, scheduled_generation : Nat, tx_len : Nat]

\* Where the httpd task goes on after a call of activate or deactivate.
Resumes(place) ==
    /\ place.at \in {"idle", "close", "prune", "finish"}
    /\ place.at = "close" => place.fd \in Fds
    /\ place.at = "finish" => place.slot \in Slots

\* Slots, queues, work and the two tasks' places stay in their types.
TypeOK ==
    /\ client \in [Slots -> ClientType]
    /\ tx_data \in [Slots -> Seq(Nat)]
    /\ sent \in Nat /\ queue \in [Slots -> Seq(Nat)] /\ joined \in [Slots -> BOOLEAN]
    /\ since \in [Slots -> Nat] /\ delivered \in [Slots -> Seq(Nat)]
    /\ work \in Seq(Slots \cup {Touch})
    /\ httpd.at \in {"idle", "join", "leave", "sync", "close", "prune", "send", "finish"}
    /\ httpd.at \in {"idle", "close", "prune", "finish"} => Resumes(httpd)
    /\ httpd.at \in {"join", "leave", "send"} => httpd.slot \in Slots
    /\ httpd.at \in {"join", "leave", "sync"} => Resumes(httpd.next)
    /\ httpd.at = "send" => httpd.fd \in Fds \cup {NoFd} /\ httpd.len \in Nat
    /\ tx.at \in {"scan", "pop", "claim", "queue", "lru", "touch"}
    /\ tx.at \in {"scan", "pop", "claim", "queue"} => tx.slot \in Slots
    /\ tx.at \in {"pop", "claim"} => tx.fd \in Fds \cup {NoFd} /\ tx.generation \in Nat
    /\ tx.at = "claim" => tx.len \in Nat

\* From the moment a frame is scheduled until ws_send_work is done with it, nobody writes
\* its buffer or its length, although both are used outside the mux.
FrameStaysPut ==
    [][\A s \in Slots : client[s].in_flight /\ client'[s].in_flight =>
            tx_data'[s] = tx_data[s] /\ client'[s].tx_len = client[s].tx_len]_vars

\* The slot's session reads from the ring: joined by its activation, not left over.
Served(s) == client[s].active /\ joined[s]

\* A browser gets the device's bytes in order, each once, and never bytes from before
\* its session, even when the slot, or slot and socket number, of a session that ended
\* between a pop and its frame are its own.
DeliveredInOrder ==
    \A s \in Slots : Served(s) =>
        /\ \A i \in 1..Len(delivered[s]) : delivered[s][i] > since[s]
        /\ \A i, j \in 1..Len(delivered[s]) : i < j => delivered[s][i] < delivered[s][j]

\* Bytes of the session that are in the slot's frame buffer and not sent yet.
InFrame(s) ==
    IF \/ client[s].in_flight /\ ~(httpd.at = "finish" /\ httpd.slot = s)
       \/ tx.at = "claim" /\ tx.slot = s
    THEN Cardinality({i \in 1..Len(tx_data[s]) : tx_data[s][i] > since[s]})
    ELSE 0

\* For a browser that is still there, every byte broadcast since it joined was sent to
\* it, waits, or is in one of the drop counters, with one exception: a pop ws_tx_task
\* threw away because the slot changed hands under it, at most one buffer.
BytesAccounted ==
    \A s \in Slots :
        Served(s) /\ ws_fd_is_live(client[s].fd) =>
           /\ sent - since[s] = Len(delivered[s]) + InFrame(s) + Len(queue[s])
                                + lost[s] + failed[s] + unclaimed[s] + cleared[s]
           /\ unclaimed[s] <= MaxPop

\* Between handlers the USB side captures for the browsers exactly while there is one,
\* and the ring has a reader exactly for each.
CaptureFollowsClients ==
    httpd = Idle => /\ capture = (\E s \in Slots : client[s].active)
                    /\ \A s \in Slots : joined[s] = client[s].active

\* What waits for a browser is fetched, or the browser goes: no frame stays scheduled for
\* ever, as a slot with one is passed over.
StreamDrains == \A s \in Slots : (client[s].active /\ queue[s] # <<>>) ~>
                                    (queue[s] = <<>> \/ ~client[s].active)
=============================================================================
