------------------------------ MODULE TcpBridge ------------------------------
(***************************************************************************)
(* The way of the bytes between the USB device and a TCP client:            *)
(* tcp_server_task of main/tcp_bridge.c, which serves one client at a time, *)
(* raw or RFC2217; usb_tx_task and on_cdc_rx of main/usb_cdc_bridge.c, at    *)
(* the other end of the two byte rings; the connect task of that file, which *)
(* empties the rings when a device comes or goes; and the browser terminals, *)
(* which send into the same ring as the client.                              *)
(*                                                                         *)
(* One step is one operation of a ring, one look at a flag of another task,  *)
(* or one call of the socket or the USB driver.  Bytes for the device have   *)
(* the values Telnet gives them; bytes from it are numbered 1, 2, ...        *)
(***************************************************************************)
EXTENDS ByteRing, TelnetStream, Functions

CONSTANTS ProbeSize,    \* bytes looked at to tell the protocol (16)
          MaxPop,       \* bytes taken for the client at once (1024)
          MaxTransfer,  \* CONFIG_BRIDGE_USB_TRANSFER_SIZE
          Worlds        \* bound: what the others may do, see World
CONSTANTS Texts, Requests, Lines  \* bounds: what the escaping and the answers are tried on

\* What happens around the bridge: per session the byte strings its client may send, the
\* frames the browser terminals send, how many devices come, one after the other, and how
\* many bytes they send in all.
World ==
    [scripts : Seq(SUBSET Seq(Nat)), frames : Seq(Seq(Nat)), devices : Nat, usb : Nat]

ASSUME TcpAssumption ==
    /\ Worlds \subseteq World
    /\ ProbeSize \in Nat /\ ProbeSize >= 3  \* enough to tell the protocol
    /\ MaxPop \in Nat \ {0} /\ MaxTransfer \in Nat \ {0}

ASSUME TrialAssumption ==
    /\ Texts \subseteq Seq(Nat) /\ Lines \subseteq LineStates
    /\ \A frame \in Requests : IsRequest(frame)

VARIABLE world  \* the one of Worlds this is; it never changes
VARIABLES usb_to_net, net_to_usb  \* the byte rings
VARIABLES s_connected,  \* usb_cdc_bridge: a device is ready
          tcp_client,   \* usb_cdc_bridge: s_tcp_client_connected
          cdc_mutex,    \* s_cdc_mutex: who holds it, or "free"
          device,       \* the connect task and the device: see Init
          rx,           \* the chunk on_cdc_rx is about to push
          usb_tx        \* where usb_tx_task is, and the bytes it holds
VARIABLES server,       \* where tcp_server_task is: see Init
          client,       \* the client and what it has yet to send
          client_mode,  \* tcp_bridge: s_client_mode
          client_connected,  \* tcp_bridge: s_client_connected
          web           \* the frame ws_handler is about to push, and how many came

\* For the properties only.
VARIABLES received, \* what this session's client sent, as far as it arrived
          handed,   \* what push_to_usb was given in this session
          handled,  \* the Telnet commands handled in this session
          ours,     \* device bytes that may reach this session's client
          fresh,    \* bytes that may reach the device that is there
          owed,     \* bytes offered to the USB device, less those counted as sent or as
                    \* dropped and those a reset took
          owed_client, \* the same for the TCP client of this session
          uncounted    \* of those: popped for it and lost with its connection

rings == <<usb_to_net, net_to_usb>>
usb == <<s_connected, cdc_mutex, device>>
tcp == <<server, client, client_mode, tcp_client, client_connected>>
history == <<received, handed, handled>>
vars == <<world, rings, usb, rx, usb_tx, tcp, web, history, ours, fresh, owed, owed_client,
          uncounted>>

NoCommand == [kind |-> "none", frame |-> <<>>]

\* The task between two operations: connected, probe, parser as in the code; parts are
\* the pieces of the bytes received still to be dealt with, input what is left of the
\* piece in the parser, serial_rx the bytes for USB, request the command in hand, out
\* the bytes for the client (usb_rx), next
\* where the task goes after the last piece.
IdleServer ==
    [at |-> "listen", connected |-> FALSE, probe |-> <<>>, parser |-> NewParser,
     parts |-> <<>>, input |-> <<>>, serial_rx |-> <<>>, request |-> NoCommand, out |-> <<>>,
     next |-> "pop"]

Init ==
    /\ world \in Worlds
    /\ usb_to_net = EmptyRing /\ net_to_usb = EmptyRing
    /\ s_connected = FALSE /\ tcp_client = FALSE /\ client_connected = FALSE
    /\ cdc_mutex = "free"
    /\ device = [at |-> "away", gone |-> FALSE, came |-> 0, sent |-> 0]
    /\ rx = <<>>
    /\ usb_tx = [at |-> "pop", buf |-> <<>>]
    /\ server = IdleServer
    /\ client = [state |-> "none", unsent |-> <<>>, sessions |-> 0]
    /\ client_mode = "none"
    /\ web = [chunk |-> <<>>, came |-> 0]
    /\ received = <<>> /\ handed = <<>> /\ handled = <<>>
    /\ ours = {} /\ fresh = {}
    /\ owed = 0 /\ owed_client = 0 /\ uncounted = 0

-----------------------------------------------------------------------------
(* The server between two clients.                                          *)

\* socket, bind and listen; when one fails, again after a second.
Listen ==
    /\ server.at = "listen"
    /\ server' = [server EXCEPT !.at = "accept"]
    /\ UNCHANGED <<rings, usb, rx, usb_tx, client, client_mode, tcp_client, client_connected,
                   web, history, ours, fresh, owed, owed_client, uncounted>>

AcceptFails ==
    /\ server.at = "accept"
    /\ server' = [server EXCEPT !.at = "listen"]
    /\ UNCHANGED <<rings, usb, rx, usb_tx, client, client_mode, tcp_client, client_connected,
                   web, history, ours, fresh, owed, owed_client, uncounted>>

\* Mistake: what the last session left in the ring is kept.
AcceptKeeping(script) ==
    /\ server.at = "accept" /\ client.sessions < Len(world.scripts)
    /\ client' = [state |-> "open", unsent |-> script, sessions |-> client.sessions + 1]
    /\ server' = [IdleServer EXCEPT !.at = "announce", !.connected = TRUE]
    /\ received' = <<>> /\ handed' = <<>> /\ handled' = <<>>
    /\ owed_client' = owed_client - uncounted /\ uncounted' = 0
    /\ ours' = Range(rx)
    /\ UNCHANGED <<rings, usb, rx, usb_tx, client_mode, tcp_client, client_connected, web,
                   fresh, owed>>

\* A client comes; nothing of an earlier session may wait for it, whose account is closed.
Accept(script) ==
    /\ server.at = "accept" /\ client.sessions < Len(world.scripts)
    /\ client' = [state |-> "open", unsent |-> script, sessions |-> client.sessions + 1]
    /\ server' = [IdleServer EXCEPT !.at = "announce", !.connected = TRUE]
    /\ usb_to_net' = ring_reset(usb_to_net)
    /\ owed_client' = owed_client - usb_to_net.count - uncounted /\ uncounted' = 0
    /\ received' = <<>> /\ handed' = <<>> /\ handled' = <<>>
    /\ ours' = Range(rx)
    /\ UNCHANGED <<net_to_usb, usb, rx, usb_tx, client_mode, tcp_client, client_connected, web,
                   fresh, owed>>

\* usb_cdc_bridge_set_tcp_client_state(true): from now on on_cdc_rx fills the ring.
Announce ==
    /\ server.at = "announce"
    /\ server' = [server EXCEPT !.at = "select"]
    /\ client_connected' = TRUE /\ client_mode' = "auto" /\ tcp_client' = TRUE
    /\ UNCHANGED <<rings, usb, rx, usb_tx, client, web, history, ours, fresh, owed,
                   owed_client, uncounted>>

-----------------------------------------------------------------------------
(* The bytes of the client.                                                 *)

\* On to the next piece of what was received.
Proceed(s, parts, mode) ==
    IF parts = <<>>
    THEN [s EXCEPT !.at = s.next, !.parts = <<>>, !.serial_rx = <<>>]
    ELSE IF mode = "rfc2217"
    THEN [s EXCEPT !.at = "parse", !.parts = Tail(parts), !.input = Head(parts), !.serial_rx = <<>>]
    ELSE [s EXCEPT !.at = "offer", !.parts = Tail(parts), !.serial_rx = Head(parts)]

\* Part of what the client sent arrives; while its protocol is unknown the first
\* ProbeSize bytes are kept back.
Receive(n) ==
    LET data == SubSeq(client.unsent, 1, n)
        copy == Smaller(n, ProbeSize - Len(server.probe))
        probe == server.probe \o SubSeq(data, 1, copy)
        found == detect_client_mode(probe)
        told == found # "auto" \/ Len(probe) = ProbeSize
        mode == IF found = "auto" THEN "raw" ELSE found
        rest == IF copy < n THEN <<SubSeq(data, copy + 1, n)>> ELSE <<>>
    IN  /\ server.at = "select" /\ n \in 1..Len(client.unsent)
        /\ client' = [client EXCEPT !.unsent = SubSeq(@, n + 1, Len(@))]
        /\ received' = received \o data
        /\ \/ /\ client_mode # "auto"
              /\ server' = Proceed(server, <<data>>, client_mode)
              /\ UNCHANGED client_mode
           \/ /\ client_mode = "auto" /\ ~told
              /\ server' = [server EXCEPT !.at = "pop", !.probe = probe]
              /\ UNCHANGED client_mode
           \/ /\ client_mode = "auto" /\ told
              /\ server' = Proceed([server EXCEPT !.probe = <<>>], <<probe>> \o rest, mode)
              /\ client_mode' = mode
        /\ UNCHANGED <<rings, usb, rx, usb_tx, tcp_client, client_connected, web, handed,
                       handled, ours, fresh, owed, owed_client, uncounted>>

\* Mistake: an empty read is taken for a time-out.
ReceiveEndOverlooked ==
    /\ server.at = "select" /\ client.state = "closed" /\ client.unsent = <<>>
    /\ server' = [server EXCEPT !.at = "pop"]
    /\ UNCHANGED <<rings, usb, rx, usb_tx, client, client_mode, tcp_client, client_connected,
                   web, history, ours, fresh, owed, owed_client, uncounted>>

\* recv finds the connection closed or broken.
ReceiveEnd ==
    /\ server.at = "select" /\ client.state = "closed" /\ client.unsent = <<>>
    /\ server' = [server EXCEPT !.at = "pop", !.connected = FALSE]
    /\ UNCHANGED <<rings, usb, rx, usb_tx, client, client_mode, tcp_client, client_connected,
                   web, history, ours, fresh, owed, owed_client, uncounted>>

\* Nothing to read for 20 ms.
SelectTimeout ==
    /\ server.at = "select" /\ client.state = "open"
    /\ server' = [server EXCEPT !.at = "pop"]
    /\ UNCHANGED <<rings, usb, rx, usb_tx, client, client_mode, tcp_client, client_connected,
                   web, history, ours, fresh, owed, owed_client, uncounted>>

SelectFails ==
    /\ server.at = "select"
    /\ server' = [server EXCEPT !.at = "leave"]
    /\ UNCHANGED <<rings, usb, rx, usb_tx, client, client_mode, tcp_client, client_connected,
                   web, history, ours, fresh, owed, owed_client, uncounted>>

\* rfc2217_process_input, one byte; a command is dealt with before the next byte.
ParseByte ==
    LET byte == Head(server.input)
        commands == Commands(server.parser, byte)
    IN  /\ server.at = "parse" /\ server.input # <<>>
        /\ server' = [server EXCEPT
                         !.at = IF commands = <<>> THEN "parse" ELSE "command",
                         !.input = Tail(@),
                         !.parser = Step(@, byte),
                         !.serial_rx = @ \o Serial(server.parser, byte),
                         !.request = IF commands = <<>> THEN NoCommand ELSE Head(commands)]
        /\ handled' = handled \o commands
        /\ UNCHANGED <<rings, usb, rx, usb_tx, client, client_mode, tcp_client,
                       client_connected, web, received, handed, ours, fresh, owed, owed_client,
                       uncounted>>

ParseEnd ==
    /\ server.at = "parse" /\ server.input = <<>>
    /\ server' = [server EXCEPT !.at = "offer"]
    /\ UNCHANGED <<rings, usb, rx, usb_tx, client, client_mode, tcp_client, client_connected,
                   web, history, ours, fresh, owed, owed_client, uncounted>>

\* What a failed send leaves: the bytes parsed so far, and the rest, are not passed on.
Failed ==
    [server EXCEPT !.at = "pop", !.connected = FALSE, !.parts = <<>>, !.input = <<>>,
                   !.serial_rx = <<>>, !.request = NoCommand]

Served == [server EXCEPT !.at = "parse", !.request = NoCommand]

\* DO, DONT, WILL or WONT is answered.
Negotiate ==
    /\ server.at = "command" /\ server.request.kind = "option"
    /\ server' \in {Served, Failed}
    /\ UNCHANGED <<rings, usb, rx, usb_tx, client, client_mode, tcp_client, client_connected,
                   web, history, ours, fresh, owed, owed_client, uncounted>>

Setting == AsksLine(server.request.frame) \/ AsksControl(server.request.frame)

\* handle_rfc2217_subneg: what needs the device goes there first, what has no answer
\* is skipped.
Handle ==
    LET frame == server.request.frame
        answered == AnswerValues(frame, current_serial_state([valid |-> FALSE])) # {}
    IN  /\ server.at = "command" /\ server.request.kind = "subneg"
        /\ server' = IF Setting THEN [server EXCEPT !.at = "apply"]
                     ELSE IF answered THEN [server EXCEPT !.at = "answer"]
                     ELSE Served
        /\ UNCHANGED <<rings, usb, rx, usb_tx, client, client_mode, tcp_client,
                       client_connected, web, history, ours, fresh, owed, owed_client,
                       uncounted>>

\* usb_cdc_bridge_set_line_coding and ..._set_control_lines need the device and its mutex;
\* without them, or after a second, the request has failed and the answer says so.
Apply ==
    /\ server.at = "apply"
    /\ \/ /\ s_connected /\ cdc_mutex = "free"
          /\ cdc_mutex' = "server"
          /\ server' = [server EXCEPT !.at = "applying"]
       \/ /\ ~s_connected \/ cdc_mutex # "free"
          /\ server' = [server EXCEPT !.at = "answer"]
          /\ UNCHANGED cdc_mutex
    /\ UNCHANGED <<rings, s_connected, device, rx, usb_tx, client, client_mode, tcp_client,
                   client_connected, web, history, ours, fresh, owed, owed_client, uncounted>>

Applied ==
    /\ server.at = "applying"
    /\ cdc_mutex' = "free"
    /\ server' = [server EXCEPT !.at = "answer"]
    /\ UNCHANGED <<rings, s_connected, device, rx, usb_tx, client, client_mode, tcp_client,
                   client_connected, web, history, ours, fresh, owed, owed_client, uncounted>>

\* PURGE_DATA empties the rings before it is answered.
Answer ==
    LET frame == server.request.frame
    IN  /\ server.at = "answer"
        /\ server' \in {Served, Failed}
        /\ IF PurgesRx(frame)
           THEN usb_to_net' = ring_reset(usb_to_net) /\ owed_client' = owed_client - usb_to_net.count
           ELSE UNCHANGED <<usb_to_net, owed_client>>
        /\ IF PurgesTx(frame)
           THEN net_to_usb' = ring_reset(net_to_usb) /\ owed' = owed - net_to_usb.count
           ELSE UNCHANGED <<net_to_usb, owed>>
        /\ UNCHANGED <<usb, rx, usb_tx, client, client_mode, tcp_client, client_connected, web,
                       history, ours, fresh, uncounted>>

\* push_to_usb: without a device the bytes are dropped, and counted.
Offer ==
    LET chunk == server.serial_rx
    IN  /\ server.at = "offer"
        /\ handed' = handed \o chunk
        /\ IF chunk # <<>> /\ s_connected
           THEN /\ server' = [server EXCEPT !.at = "push"]
                /\ owed' = owed + Len(chunk)
                /\ fresh' = fresh \cup Range(chunk)
           ELSE /\ server' = Proceed(server, server.parts, client_mode)
                /\ UNCHANGED <<owed, fresh>>
        /\ UNCHANGED <<rings, usb, rx, usb_tx, client, client_mode, tcp_client,
                       client_connected, web, received, handled, ours, owed_client, uncounted>>

\* Mistake: what the ring did not take is not counted.
PushUncounted ==
    /\ server.at = "push"
    /\ net_to_usb' = ring_push(net_to_usb, server.serial_rx)
    /\ server' = Proceed(server, server.parts, client_mode)
    /\ UNCHANGED <<usb_to_net, usb, rx, usb_tx, client, client_mode, tcp_client,
                   client_connected, web, history, ours, fresh, owed, owed_client, uncounted>>

Push ==
    LET chunk == server.serial_rx
    IN  /\ server.at = "push"
        /\ net_to_usb' = ring_push(net_to_usb, chunk)
        /\ owed' = owed - (Len(chunk) - Accepted(net_to_usb, chunk))
        /\ server' = Proceed(server, server.parts, client_mode)
        /\ UNCHANGED <<usb_to_net, usb, rx, usb_tx, client, client_mode, tcp_client,
                       client_connected, web, history, ours, fresh, owed_client, uncounted>>

-----------------------------------------------------------------------------
(* The bytes for the client, and its end.                                   *)

AfterPop == IF server.connected THEN "select" ELSE "leave"

\* The ring is read before the loop looks whether the client is still there: what is
\* read for one that left is lost, and not counted.
PopForClient ==
    LET out == Popped(usb_to_net, MaxPop)
    IN  /\ server.at = "pop"
        /\ usb_to_net' = ring_pop_now(usb_to_net, MaxPop)
        /\ IF out # <<>> /\ server.connected
           THEN /\ server' = [server EXCEPT !.at = "send", !.out = out]
                /\ UNCHANGED uncounted
           ELSE /\ server' = [server EXCEPT !.at = AfterPop]
                /\ uncounted' = uncounted + Len(out)
        /\ UNCHANGED <<net_to_usb, usb, rx, usb_tx, client, client_mode, tcp_client,
                       client_connected, web, history, ours, fresh, owed, owed_client>>

\* send_all or send_rfc2217_data; a client that takes nothing for a second is given up, and
\* of these bytes none is counted, as sent or as dropped.
Send ==
    /\ server.at = "send"
    /\ \/ /\ server' = [server EXCEPT !.at = "select", !.out = <<>>]
          /\ owed_client' = owed_client - Len(server.out)
          /\ UNCHANGED uncounted
       \/ /\ server' = [server EXCEPT !.at = "leave", !.out = <<>>, !.connected = FALSE]
          /\ uncounted' = uncounted + Len(server.out)
          /\ UNCHANGED owed_client
    /\ UNCHANGED <<rings, usb, rx, usb_tx, client, client_mode, tcp_client, client_connected,
                   web, history, ours, fresh, owed>>

\* Bytes kept back for the protocol are passed on after all.
Leave ==
    LET kept == IF client_mode = "auto" /\ server.probe # <<>> THEN <<server.probe>> ELSE <<>>
    IN  /\ server.at = "leave"
        /\ server' = Proceed([server EXCEPT !.next = "close"], kept, client_mode)
        /\ UNCHANGED <<rings, usb, rx, usb_tx, client, client_mode, tcp_client,
                       client_connected, web, history, ours, fresh, owed, owed_client,
                       uncounted>>

\* close_client
CloseClient ==
    /\ server.at = "close"
    /\ server' = [IdleServer EXCEPT !.at = "accept"]
    /\ client' = [client EXCEPT !.state = "none", !.unsent = <<>>]
    /\ client_connected' = FALSE /\ client_mode' = "none" /\ tcp_client' = FALSE
    /\ usb_to_net' = ring_reset(usb_to_net)
    /\ owed_client' = owed_client - usb_to_net.count
    /\ UNCHANGED <<net_to_usb, usb, rx, usb_tx, web, history, ours, fresh, owed, uncounted>>

\* The client ends the connection, or it breaks: what had not arrived never will.
ClientEnds ==
    /\ client.state = "open"
    /\ client' = [client EXCEPT !.state = "closed", !.unsent = <<>>]
    /\ UNCHANGED <<rings, usb, rx, usb_tx, server, client_mode, tcp_client, client_connected,
                   web, history, ours, fresh, owed, owed_client, uncounted>>

Server ==
    \/ Listen \/ AcceptFails \/ Announce
    \/ \E n \in 1..Len(client.unsent) : Receive(n)
    \/ ReceiveEnd \/ SelectTimeout \/ SelectFails
    \/ ParseByte \/ ParseEnd \/ Negotiate \/ Handle \/ Apply \/ Applied \/ Answer
    \/ Offer \/ Push \/ PopForClient \/ Send \/ Leave \/ CloseClient

NextClient ==
    \E s \in 1..Len(world.scripts) : s = client.sessions + 1 /\ \E script \in world.scripts[s] : Accept(script)

-----------------------------------------------------------------------------
(* usb_tx_task.                                                             *)

UsbPop ==
    /\ usb_tx.at = "pop" /\ net_to_usb.count > 0
    /\ usb_tx' = [at |-> "check", buf |-> Popped(net_to_usb, MaxTransfer)]
    /\ net_to_usb' = ring_pop_now(net_to_usb, MaxTransfer)
    /\ UNCHANGED <<usb_to_net, usb, rx, tcp, web, history, ours, fresh, owed, owed_client,
                   uncounted>>

\* The bytes in hand are counted, as sent or as dropped.
Counted ==
    /\ usb_tx' = [at |-> "pop", buf |-> <<>>]
    /\ owed' = owed - Len(usb_tx.buf)

UsbCheck ==
    /\ usb_tx.at = "check"
    /\ \/ s_connected /\ usb_tx' = [usb_tx EXCEPT !.at = "lock"] /\ UNCHANGED owed
       \/ ~s_connected /\ Counted
    /\ UNCHANGED <<rings, usb, rx, tcp, web, history, ours, fresh, owed_client, uncounted>>

\* The mutex, or after a second nothing.
UsbLock ==
    /\ usb_tx.at = "lock"
    /\ \/ /\ cdc_mutex = "free" /\ cdc_mutex' = "tx"
          /\ usb_tx' = [usb_tx EXCEPT !.at = "send"]
          /\ UNCHANGED owed
       \/ cdc_mutex # "free" /\ Counted /\ UNCHANGED cdc_mutex
    /\ UNCHANGED <<rings, s_connected, device, rx, tcp, web, history, ours, fresh, owed_client,
                   uncounted>>

\* The transfer succeeds, fails, or is not tried because the device has gone.
UsbSend ==
    /\ usb_tx.at = "send"
    /\ Counted
    /\ cdc_mutex' = "free"
    /\ UNCHANGED <<rings, s_connected, device, rx, tcp, web, history, ours, fresh, owed_client,
                   uncounted>>

UsbTx == UsbPop \/ UsbCheck \/ UsbLock \/ UsbSend

-----------------------------------------------------------------------------
(* The USB device: the connect task, and the callbacks of the driver.       *)

\* A device is plugged in and opened; from now on its bytes arrive.
Open ==
    /\ device.at = "away" /\ device.came < world.devices
    /\ device' = [device EXCEPT !.at = "opened", !.gone = FALSE, !.came = @ + 1]
    /\ UNCHANGED <<rings, s_connected, cdc_mutex, rx, usb_tx, tcp, web, history, ours, fresh,
                   owed, owed_client, uncounted>>

\* The chunks another task has already decided to push.
UnderWay == (IF server.at = "push" THEN Range(server.serial_rx) ELSE {}) \cup Range(web.chunk)

\* Mistake: the ring towards USB is only emptied when a device goes.
SetUpKeeping ==
    /\ device.at = "opened" /\ cdc_mutex = "free"
    /\ cdc_mutex' = "connect"
    /\ device' = [device EXCEPT !.at = "setting"]
    /\ usb_to_net' = ring_reset(usb_to_net) /\ owed_client' = owed_client - usb_to_net.count
    /\ fresh' = Range(usb_tx.buf) \cup UnderWay
    /\ UNCHANGED <<net_to_usb, s_connected, rx, usb_tx, tcp, web, history, ours, owed,
                   uncounted>>

\* Under the mutex both rings are emptied, then the line is set up.
SetUp ==
    /\ device.at = "opened" /\ cdc_mutex = "free"
    /\ cdc_mutex' = "connect"
    /\ device' = [device EXCEPT !.at = "setting"]
    /\ net_to_usb' = ring_reset(net_to_usb) /\ owed' = owed - net_to_usb.count
    /\ usb_to_net' = ring_reset(usb_to_net) /\ owed_client' = owed_client - usb_to_net.count
    /\ fresh' = Range(usb_tx.buf) \cup UnderWay
    /\ UNCHANGED <<s_connected, rx, usb_tx, tcp, web, history, ours, uncounted>>

Connected ==
    /\ device.at = "setting"
    /\ s_connected' = TRUE
    /\ cdc_mutex' = "free"
    /\ device' = [device EXCEPT !.at = "up"]
    /\ UNCHANGED <<rings, rx, usb_tx, tcp, web, history, ours, fresh, owed, owed_client,
                   uncounted>>

\* on_cdc_event: the device is gone, at any time after it was opened.
Disconnected ==
    /\ device.at # "away" /\ ~device.gone
    /\ device' = [device EXCEPT !.gone = TRUE]
    /\ s_connected' = FALSE
    /\ UNCHANGED <<rings, cdc_mutex, rx, usb_tx, tcp, web, history, ours, fresh, owed,
                   owed_client, uncounted>>

\* The connect task closes the device and empties the rings.
CloseDevice ==
    /\ device.at = "up" /\ device.gone /\ cdc_mutex = "free"
    /\ device' = [device EXCEPT !.at = "away"]
    /\ s_connected' = FALSE
    /\ net_to_usb' = ring_reset(net_to_usb) /\ owed' = owed - net_to_usb.count
    /\ usb_to_net' = ring_reset(usb_to_net) /\ owed_client' = owed_client - usb_to_net.count
    /\ UNCHANGED <<cdc_mutex, rx, usb_tx, tcp, web, history, ours, fresh, uncounted>>

\* on_cdc_rx looks whether there is a TCP client ...
DeviceSends(n) ==
    LET chunk == [i \in 1..n |-> device.sent + i]
    IN  /\ device.at # "away" /\ ~device.gone /\ rx = <<>>
        /\ device.sent + n <= world.usb
        /\ device' = [device EXCEPT !.sent = @ + n]
        /\ IF tcp_client
           THEN rx' = chunk /\ ours' = ours \cup Range(chunk) /\ owed_client' = owed_client + n
           ELSE UNCHANGED <<rx, ours, owed_client>>
        /\ UNCHANGED <<rings, s_connected, cdc_mutex, usb_tx, tcp, web, history, fresh, owed,
                       uncounted>>

\* ... and then pushes; what the ring does not take is counted.
RxPush ==
    /\ rx # <<>>
    /\ usb_to_net' = ring_push(usb_to_net, rx)
    /\ owed_client' = owed_client - (Len(rx) - Accepted(usb_to_net, rx))
    /\ rx' = <<>>
    /\ UNCHANGED <<net_to_usb, usb, usb_tx, tcp, web, history, ours, fresh, owed, uncounted>>

Device ==
    \/ Open \/ SetUp \/ Connected \/ Disconnected \/ CloseDevice
    \/ \E n \in 1..world.usb : DeviceSends(n)
    \/ RxPush

-----------------------------------------------------------------------------
(* A browser terminal's frame, ws_handler of http_bridge.c.                 *)

WebFrame ==
    /\ web.chunk = <<>> /\ web.came < Len(world.frames)
    /\ LET frame == world.frames[web.came + 1]
       IN  IF s_connected
           THEN /\ web' = [chunk |-> frame, came |-> web.came + 1]
                /\ owed' = owed + Len(frame)
                /\ fresh' = fresh \cup Range(frame)
           ELSE web' = [web EXCEPT !.came = @ + 1] /\ UNCHANGED <<owed, fresh>>
    /\ UNCHANGED <<rings, usb, rx, usb_tx, tcp, history, ours, owed_client, uncounted>>

WebPush ==
    /\ web.chunk # <<>>
    /\ net_to_usb' = ring_push(net_to_usb, web.chunk)
    /\ owed' = owed - (Len(web.chunk) - Accepted(net_to_usb, web.chunk))
    /\ web' = [web EXCEPT !.chunk = <<>>]
    /\ UNCHANGED <<usb_to_net, usb, rx, usb_tx, tcp, history, ours, fresh, owed_client,
                   uncounted>>

Next ==
    /\ Server \/ NextClient \/ ClientEnds \/ UsbTx \/ Device \/ WebFrame \/ WebPush
    /\ UNCHANGED world

\* The tasks run, and a call of the socket or the driver returns.
Spec ==
    /\ Init /\ [][Next]_vars
    /\ WF_vars(Server /\ UNCHANGED world) /\ WF_vars(UsbTx /\ UNCHANGED world)

-----------------------------------------------------------------------------
(* Properties.                                                              *)

\* Every byte offered to the USB device or to the TCP client waits, is in the hands of
\* one of the tasks, was counted as sent or as dropped, or was taken by a reset.  The one
\* exception: what the server had popped when the client's connection ended is in no
\* counter; that happens once in a session, so it is one buffer at most, and never while
\* the client is served.
BytesAccounted ==
    /\ owed = net_to_usb.count + Len(usb_tx.buf) + Len(web.chunk)
                + (IF server.at = "push" THEN Len(server.serial_rx) ELSE 0)
    /\ owed_client = usb_to_net.count + Len(rx) + Len(server.out) + uncounted
    /\ uncounted <= MaxPop /\ (server.connected => uncounted = 0)

\* What waits for the device, or is about to be sent to it, was offered while this device
\* was there; the only older bytes are a transfer usb_tx_task held, and chunks already on
\* their way into the ring, when the device was set up.
NewDeviceNewBytes ==
    Range(Contents(net_to_usb)) \cup Range(usb_tx.buf) \cup UnderWay \subseteq fresh

\* What waits for the client came after it; the only older bytes are a chunk on_cdc_rx was
\* pushing when it was accepted.
OwnSession == Range(Contents(usb_to_net)) \cup Range(server.out) \cup Range(rx) \subseteq ours

\* A client that went away is noticed: its place becomes free for another one.
ClosedIsNoticed == client.state = "closed" ~> ~tcp_client /\ client.state = "none"

\* Both rings are queues, whoever works on them: what bridge_buffers.h promises.
ToUsb == INSTANCE BoundedFifo WITH queue <- Contents(net_to_usb)
ToClient == INSTANCE BoundedFifo WITH queue <- Contents(usb_to_net)
RingsAreFifos == ToUsb!Spec /\ ToClient!Spec

\* However a client's bytes are split on the way, the protocol, the bytes for USB and the
\* commands are the ones its whole stream says; kept back bytes are not lost at the end.
SplitNeverMatters ==
    /\ server.at = "select" =>
          \/ client_mode = "auto" /\ Undecided(received) /\ handed = <<>> /\ handled = <<>>
          \/ /\ client_mode = "rfc2217" /\ SpeaksRfc2217(received)
             /\ handed = DataIn(received) /\ handled = CommandsIn(received)
          \/ /\ client_mode = "raw" /\ ~SpeaksRfc2217(received) /\ ~Undecided(received)
             /\ handed = received /\ handled = <<>>
    /\ server.at = "close" /\ client_mode # "rfc2217" => handed = received

\* The rest is about operators: TLC evaluates it where nothing has happened yet.
AtStart == server.at = "listen" /\ device.came = 0 /\ client.sessions = 0

\* Data and answers, sent as the bridge escapes them, come out of a parser like its own as
\* they went in, whatever their bytes.
RoundTrip ==
    AtStart => \A text \in Texts :
        /\ Parsed(Escape(text)) = [NothingParsed EXCEPT !.serial = text]
        /\ Parsed(SubnegFrame(SIGNATURE, text)).commands =
              <<[kind  |-> "subneg",
                 frame |-> FirstOf(<<COM_PORT_OPTION, SIGNATURE>> \o text, SubnegMax)]>>

\* A request that sets something and succeeds is answered with the value it asked for;
\* one that is refused, with the value that is in force, which is again one to ask for.
AnswersAreRequests ==
    AtStart => \A frame \in Requests, remembered \in Lines :
        LET state == current_serial_state(remembered)
            sets == AsksLine(frame) \/ AsksControl(frame)
            after == IF sets THEN Requested(frame, state) ELSE state
        IN  \A value \in AnswerValues(frame, after) :
               /\ sets => value = Value(frame)
               /\ frame[2] # SET_CONTROL =>
                      LET again == <<COM_PORT_OPTION, frame[2]>> \o value
                      IN  AsksLine(again) /\ Requested(again, after) = after
=============================================================================
