# Verification of the RPI USB WiFi Bridge

TLA+ models of the firmware in `src/main` (an ESP32-S3 that bridges an RP2040/RP2350 board on
USB to Wi-Fi), checked with TLC, and proofs of the core invariants checked with TLAPS.

Every definition is translated from the C source; `PROJECT.json` ("map") names the lines each
one stands for. Names follow the source where TLA+ allows it: `s_cdc_dev`, `ws_on_connect`,
`cleanup_msc_locked`.

## The system

All components run as FreeRTOS tasks and driver callbacks in one address space. They share
state under spinlocks (`portENTER_CRITICAL`), mutexes, binary semaphores and event groups, and
also, often, as plain `volatile` flags.

| Component | State | Operations | Interacts with |
|---|---|---|---|
| `bridge_buffers` | two byte rings (USB→TCP, TCP/web→USB), one fan-out ring (USB→browsers) with a cursor per client | push, pop, reset; broadcast, activate, deactivate, pop_client, reset | everybody who moves bytes |
| `usb_cdc_bridge` | handle `s_cdc_dev`, `s_connected`, pause and hold of the reconnect, `s_device_gone`, `CDC_STATE_RELEASED`, serial state, OpenKNX and device information | `usb_connect_task` (open, set up, wait for the departure, close), `usb_tx_task`, driver callbacks, line coding, control lines, direct send, 1200 baud touch, restore, OpenKNX query | rings, TCP, HTTP, firmware update |
| `http_bridge` | slots of browser terminals with a frame buffer each, LRU refresh flag | WebSocket connect/close/receive, `ws_tx_task`, `ws_send_work`, status page, settings | fan-out ring, USB capture flag, firmware update, Wi-Fi |
| `firmware_update` | operation gate, MSC queue, event group, I/O mutex, drive handles, `s_msc_ready`, staged image, status | reboot to bootloader, start the application, flash nuke, upload and flash, retry, ESP32 OTA; MSC callback and worker | the CDC bridge's pause, the USB host |
| `tcp_bridge` | one client, its mode, parser state, probe | accept, detect raw/RFC2217, telnet parser, subnegotiations, escaping | byte rings, serial state |
| `wifi_bridge` | connected bit, provisioning, disconnect count | Wi-Fi and IP events, provisioning AP, scan, credentials | captive portal |
| `captive_portal` | DNS task, its socket and running flag | start, stop, answer | Wi-Fi |
| `bridge_stats` | nine counters under a mux | add, reset, get | all |
| `rp_mcu`, `app_main`, web page | constants; start-up; none on the device | – | – |

What is hard here:

* **Two tasks on one slot.** `ws_tx_task` pops USB bytes into a slot's buffer outside the lock
  and hands the slot to the httpd task, while sessions end and new ones take slot and socket
  number.
* **Callbacks without the mutex.** The CDC driver reports a departure between any two steps of
  the connect task and of those who hold `s_cdc_mutex`; one of these sleeps a second with it.
* **A reconnect pause with many owners.** The new-device callback, the MSC callback, the MSC
  worker and three firmware operations set and clear it, with a hold that forbids some of it.
* **Events that overtake.** The worker announces a drive or its departure with bits that tasks
  clear and wait for; its queue is finite and loses what does not fit.
* **Many exits.** Handlers and tasks of an operation each have to give the gate back once.
* **Two tasks in one function.** `start_provisioning_ap` runs on the event task and on the HTTP
  task, without a lock, while the first works off the events the second causes; the DNS task
  outlives its stop by up to half a second.
* **Overruns.** A browser that is too slow loses the oldest bytes, and it is to be told.

What makes each component correct, in short: a browser gets the device's bytes in order, from
its own session, and what it misses is counted; a USB handle is never used after it was closed
and a vanished device is always released; at most one operation works on the RP MCU, on the
drive it prepared, with the image that was verified, and it ends if the RP MCU answers or leaves; no reconnect stays
paused without a reason; a TCP client's bytes arrive as sent, commands apart, whatever the
split into segments; provisioning starts when the network is lost and ends when it is back.
`PROJECT.json` ("hazards") lists where each of these can go wrong.

## Modules

| Module | Models |
|---|---|
| `LossyStream` | abstract: a queue per subscriber that keeps the newest bytes and counts the rest |
| `FanoutRing` | the fan-out ring of `bridge_buffers.c`, which implements `LossyStream` |
| `WsClients` | browser terminals of `http_bridge.c`, over an instance of `LossyStream` |
| `BoundedFifo` | abstract: a bounded queue of bytes |
| `ByteRing` | the byte ring of `bridge_buffers.c`: push, pop and reset as functions on a ring |
| `Telnet`, `Rfc2217` | parser, escaping and detection; the COM-PORT commands and their answers (`tcp_bridge.c`) |
| `TelnetStream` | the parser over a whole stream, and what the rules of Telnet find in it: the reference |
| `TcpBridge` | the way of the bytes between the USB device and a TCP client: `tcp_server_task`, two byte rings, `usb_tx_task`, `on_cdc_rx`, connect task, browser frames |
| `UsbCdc` | the life of the CDC connection in `usb_cdc_bridge.c` |
| `DeviceInfo` | who is on the port: `usb_info_task`, the CDC driver's callbacks and those who ask |
| `Uf2` | the checks of an uploaded file, block by block, and the families of `rp_mcu.c` |
| `Picoboot` | `picoboot_reboot_application` and its transfers at the USB host |
| `FirmwareUpdate` | operations, MSC callback and worker of `firmware_update.c`; uses `Uf2` and `Picoboot` |
| `CaptivePortal` | the DNS responder of `captive_portal.c` for any owner |
| `WifiBridge` | station, set-up access point and its requests in `wifi_bridge.c` and `http_bridge.c`; the owner of a `CaptivePortal` |
| `…_proof` | theorems about `FanoutRing`, `WsClients`, `TelnetStream` (with `Telnet`, `Rfc2217`), `TcpBridge` (with `ByteRing`), `UsbCdc`, `DeviceInfo`, `FirmwareUpdate` (with `Uf2`), `WifiBridge` (with `CaptivePortal`) |
| `MC…` | small instances for TLC, and what they compare with |

In each module the definitions introduced by a comment "Mistake: …" are not part of the
model: they are plausible errors in the code, one for each property, kept so that it can be
tried that the property notices them (`PROJECT.json`, "mutants").

### FanoutRing

Each operation runs in one critical section, so each is one action. A byte is its number in
the device's stream, so a stale or skipped byte is visible. `sent`, `received`, `lost`,
`since` and `cleared` only record history. Sequence numbers are naturals: the code's 64-bit
counters do not overflow in the life of a device. `LossyStream` is implemented with the queue
of a client defined as the slots from its cursor to the writer.

### WsClients

State: `client` is `s_ws_clients`, `tx_data` the frame buffers, `work` the httpd task's
control-socket queue, `httpd` and `tx` where the two tasks are. The steps are the critical
sections, ring operations and server calls of the code; between two of them the other task may
run. `httpd.next` says where the shared code of activation and deactivation returns to. The
ring is `LossyStream`, which `FanoutRing` implements: the composition the two modules make.
`session` stands for the server's socket table: a socket number is reused only after
`http_session_close`, as the server does. `UsbReceive` and `UsbReset` are the USB side.

### ByteRing, Telnet, Rfc2217, TelnetStream and TcpBridge

A ring is a record with storage, `head`, `tail` and `count`; an operation, one critical section in
the code, is a function from ring to ring. `TcpBridge` has one ring in each direction and the
tasks that use them. One step is one ring operation, one look at another task's flag, or one call of
the socket or the driver. `server` says where `tcp_server_task` is and holds its local variables
(probe, parser, what is left of the bytes received); `parts` are the pieces that the probe's and
the segment's bytes are handled in. A command is dealt with before the next byte is parsed, as
in the code. `usb_tx` holds the transfer between the pop and the end of the driver's call,
`rx` the chunk between `on_cdc_rx`'s look at the client's flag and its push. The connect task and
`usb_tx_task` share `s_cdc_mutex` with the line settings. `world` is what the surroundings may do;
it is chosen at the start. `Telnet!Step`, `Serial` and `Commands` are one byte in the parser: what it
becomes, what goes to USB, and which command is complete. The numbers of the protocol are the real ones;
data bytes are a few values that mean nothing to it. `owed`, `owed_client`, `uncounted`, `ours`, `fresh`, `received`, `handed` and
`handled` record history. `TelnetStream!Parsed` is the parser over a text; `DataIn` and `CommandsIn` read the same text command by
command, without a parser, and are what the parser is compared with. `Texts`, `Requests` and `Lines` are what the properties of operators are tried
on. What the line settings do on the device, the serial state kept for them, the replies to negotiations, and the frames' text, are left out.

### UsbCdc

`connect`, `driver` and `user` are the places of `usb_connect_task`, the driver's callbacks and
the tasks that use the device; a handle is the number of the plug-in it belongs to. The callbacks' assignments
are single steps, since they run without the mutex. The users' six operations share
one shape (look, lock with a time-out, look again, call, store, unlock), so they share actions
and differ in `op`; `usb_tx_task` and `send_direct` are the same as far as the handle goes.
`restore` stores after unlocking and `query` after a second look, as the code does. `SetPaused`
and `SetHold` may happen at any moment. What the rings emptied in `SetUp` and `Down` hold is the
matter of `TcpBridge` and `FanoutRing`.

### DeviceInfo

Two clients of the USB host write one record, `s_device_info`, each with its own queue of events.
`usb_info_task` keeps one pending address, handles requests, and gives a binary semaphore; those
who ask, one at a time by a mutex, wait for a bounded time. So an answer can come when the one who asked
has gone and the next one waits: the steps of `Wait`, `WriteResult` and `Give` interleave freely. `since` and `failed` record
history: what `usb_info_task` has begun and written since the one who waits asked.

### FirmwareUpdate, Uf2 and Picoboot

`httpd` is the request being handled (the HTTP task runs one at a time), `task` the operation's
task, `worker` and `msc_cb` the MSC side, `stage` and `staged` the staging partition and its
record. Every place an operation can be preempted with an effect on the others is a place in
`task`. A wait with a time-out is modelled by its two outcomes and may end at any time; what a
device or the network decides (the touch works or not, a sector write fails) is a choice. `PlugIn`,
`Unplug` and `Restart` may come at any moment. An uploaded file is a sequence of blocks, given to `Uf2`'s
checks one by one. `picoboot` is the state of the one call of
`picoboot_reboot_application` that can run (its caller has the I/O mutex): what it has open at the host, and the
transfer, which stays the host's after a time-out. A transfer the attached bootloader does not answer stays where it is, and
its caller with it: `Stuck`.

Merged, because the code does nothing in between that another task could tell: the two
variables of the hold; `s_msc_address` with `s_msc_ready`; status and gate of a handler that
refuses; the test of the hold and the clearing of the pause after it. Reduced: the CDC bridge to
connected or not and its reaction to a new device; all devices of a third kind; the text of
OpenKNX tags and the SHA-256 of an ESP32 image to their outcome.

### CaptivePortal and WifiBridge

`dns` says where each responder task is; a stop only takes down the flag that the tasks poll,
so a start soon after it leaves two of them, which write the same flag and socket. `call` is
where the owner is in a start or a stop. A task ends by itself when the socket cannot be
created or bound.

`WifiBridge` is the owner and implements `CaptivePortal!Safety`: the event task works off `events`, the HTTP task `task["http"]`
handles a request at a time, and both run the steps of `start_provisioning_ap`. The driver is
external and reduced to what the code uses of it: a try to connect ends with an address or a
loss, a change of the mode posts `AP_START` or `AP_STOP`, an access point can be configured only
in a mode that has one; events are delivered in the order they happen. Any call may fail, up to
`MaxFaults` times, which the two modules share (`CaptivePortal!Elsewhere` is a call of the owner that fails). `Restart` is the bridge's own restart, after credentials were saved or the user
asked for it; the credentials in flash survive it. A name in a DNS query, SSIDs, passwords and
addresses are not told apart. The connected bit and the address, which the event task writes one
after the other, are one variable.

## Runs

| Run | Instance | Question |
|---|---|---|
| `fanout_ring` | 2 clients, capacity 3, transfers ≤ 4, pops ≤ 2, 5 bytes | ring invariants and implementation of `LossyStream` |
| `ws_clients` | 1 slot, 2 sockets, 2 activations, capacity 2, 3 bytes | ownership and accounting of frames, capture flag, liveness |
| `tcp_bridge` | rings of 2 bytes, commands cut at 4, probe of 3, transfers of 1; four worlds | accounting, sessions, devices, parser, commands, rings |
| `usb_cdc` | 1 user with touch, restore, query and line coding; 2 plug-ins of 3 kinds | handles, tokens and flags, release and reconnection |
| `device_info` | 2 who ask, 3 requests, a CDC device and then a boot drive | late answers, the record in the end |
| `device_info_late_violation` | the same | **violation**: see the findings |
| `firmware_update` | 2 task slots, 2 plug-ins, 1 family, 2 blocks, queue of 1 | all invariants of the operations |
| `firmware_update_live` | 1 task slot, 1 plug-in, 2 families, queue of 2 | operations end, departures are noticed, unless a transfer is never answered |
| `firmware_update_nuke` | 2 task slots, 1 plug-in, queue of 2 | **violation**: see the findings |
| `wifi_bridge` | 3 responder tasks, 1 failing call, 2 losses before the access point, 2 requests | status, access point, responder, recovery |
| `wifi_portal_violation` | only set-up requests, nothing fails | **violation**: see the findings |
| `wifi_race_violation` | the same | **violation**: see the findings |

Why the bounds are enough to be interesting. *Ring*: transfers longer than the ring and a
wrap with one reader behind and one ahead all fit into five bytes and three slots. *Terminals*: what matters
is a slot that passes from one session to the next while a frame of the first is under way,
so one slot, two activations, and both the same and another socket number; a second browser finds
the table full. What more slots would add is in the proofs, which are about any number. *TCP*: a ring of two bytes is full, wraps and takes a chunk in part;
a probe of three bytes ends inside a command, and commands longer than four bytes are cut. The four worlds are
the parser (five scripts, split in every way: settings, purge, escapes, options, a raw client that begins with
255), two clients and three bytes for them, a purge while bytes wait, and two devices with
bytes for them from the client and from a browser at once. *USB*: two plug-ins give an old and a new device with
tokens of the old one in flight; more users only wait for the mutex, and the proofs are about any
number. *Information*: three requests are one in vain, one that could take its answer, and another one's;
two devices are one whose record may be stored late. *Firmware*: two task slots so that a second operation could
run if the gate let it; a queue of one overflows as soon as a departure and a connection come
together (an application after it would take a third plug-in, which only the proof covers); two blocks
are a first and a last one; two plug-ins are the drive and the application that follows it, or the other way round. `QueueLength` is 2 where no event may be
lost (one connection and one departure). One family suffices for the invariants: a mismatch
of families is also reached through a drive that left (`Unknown`).
*Wi-Fi*: two losses instead of eight before the access point, since only reaching the threshold matters; two
requests are a set-up and a second one that meets its end, or a set-up and saved credentials;
three responder tasks are an old one that was stopped, its successor, and the one after that.
Clients and task slots are interchangeable, so runs without liveness use their
symmetry where the state space asks for it.

Deadlock is checked except where the system comes to rest: in the runs of `WifiBridge`, where the bridge with an
open access point and no more requests to come does wait for ever, and in `tcp_bridge` and the two runs of `DeviceInfo`, whose
worlds end (no client, no device, no request is left).

What the properties say (each is commented in its module):

* ring: `UnreadIntact`, `EveryByteAccounted`, `StreamInOrder`, `ImplementsLossyStream`;
* terminals: `FrameStaysPut`, `DeliveredInOrder`, `BytesAccounted` with its one exception, a pop
  thrown away when the slot changed hands, at most one buffer; `CaptureFollowsClients`, `StreamDrains`;
* TCP: `BytesAccounted` (what was offered waits, is held, was counted, or was taken by a reset; the one exception
  is what the server had popped when the client's connection ended, one buffer at most, which no counter shows),
  `NewDeviceNewBytes` and `OwnSession` (nothing of the device or client before, but for a chunk already in a task's hands),
  `SplitNeverMatters` (against a reference that reads the whole stream at once), `RoundTrip` (escaped data and answers
  come out of the parser as they went in), `AnswersAreRequests`, `RingsAreFifos`, `ClosedIsNoticed`;
* USB: `NoUseAfterClose`, `GoneTokenIsFresh`, `ReleasedMeansUnused` (what `CDC_STATE_RELEASED` does say: nobody uses a handle), `ConnectedMeansOpen`,
  `GoneIsReleased`, `Reconnects`;
* information: `OkIsNotLeftOver` (a result was written since the request was made), `InfoCatchesUp`; `OkIsFresh`, that its scan also began since, fails;
* firmware: `OneOperation`, `StagedStable`, `DriveStays`, `WaiterNotMissed`, `StatusTruthful`, `PauseHasReason`,
  `NothingLeft` (an ended PICOBOOT call has nothing of its stack at the host), `OperationsEnd` and `DepartureNoticed`, both but for `Stuck`: a bootloader that stays attached and never answers;
* Wi-Fi: `StatusTruthful`, and, as long as nobody asked for a set-up on the
  web page, `NeverStranded`, `PortalOnItsOwn`, `Reachable`; with such a request `PortalWithAp` and `SetupHasAp` fail;
* responder, inside `WifiBridge`: `RunningMeansServed`, `StoppedStops`.

`AcceptedIsFlashable`, an assumption of `MCFirmwareUpdate` that TLC evaluates, compares the upload's checks with
what a file must be, over all files of one and two sample blocks: for each check there is a block that fails it. The theorem of that name has it for every file. Neither code nor reference asks for each
block to be there: they count blocks, so a file that repeats one is taken for whole.

`PauseHasReason` has a limit that comes from the code: while a flash nuke holds the reconnect, who would
release the pause does not, and the nuke releases it only on some of its ways out. An
application that appeared during the hold may then find the reconnect paused until a
device is plugged in anew. The property speaks of applications announced outside a hold; the nuke's way out has no property.

`ReleasedMeansUnused` has one too. `usb_connect_task` clears `CDC_STATE_RELEASED` only when it has `s_cdc_mutex`, after
the open (`usb_cdc_bridge.c` 1130–1153). If the device leaves and comes back as a boot drive in between, the bit says
released while the old handle is open, and the MSC worker, which waits for the bit (`firmware_update.c` 350), goes on. The property
allows an open handle in this window and nowhere else; it is short, the wait for the mutex, and the worker waits no
longer than three seconds anyway.

### Findings

`src/FLASH_NUKE.md` (16) says that after the nuke the bridge waits for the RP BOOTSEL drive to
be enumerated again. `flash_nuke_task` waits at most ten seconds for the departure, does not
look at how that ended, and then calls `wait_for_msc`, which returns at once when
`s_msc_ready` is still set. If the drive never left, the nuke is reported as completed
(`firmware_update.c` 1423–1432). Run `firmware_update_nuke` shows it.

`src/README.md` (136) says that the set-up page should open automatically once one is connected to the
access point. When a set-up is started from the web page, `s_provisioning` is set two driver
calls after the mode (`wifi_bridge.c` 82–92). If the event task handles `AP_START` in between, and it has the
higher priority, it finds no set-up and starts neither the DNS responder nor offers the DHCP
options, and nothing does later. Run `wifi_portal_violation`.

A new address ends a set-up in two steps (`wifi_bridge.c` 142–143). A set-up request between them
succeeds, the web page reports "AP … aktiv" (`web/index.html` 780), and the event task closes
the access point. `s_provisioning` then stays true without one: every further request succeeds without
effect, and a lost station is not reconnected any more. The bridge has to be restarted. Run
`wifi_race_violation`. It takes a second request within microseconds while a set-up ends, so it is rare.

The web server reports "OK: USB-Gerät aktualisiert" (`http_bridge.c` 445–455) when `usb_cdc_bridge_refresh_device_info` returns
`ESP_OK`. A request that gave up does not stop its scan. The next one, which empties the semaphore and asks while that scan
goes on, is given its result (`usb_cdc_bridge.c` 308–309 after 326–333): a scan that began before it asked, perhaps of a device that has gone since. Run
`device_info_late_violation`. It takes a scan longer than the time-out of 1.2 or 1.5 s. The scan the request asked for follows, so the
record itself catches up (`InfoCatchesUp`).

## Fairness

Safety properties need none. For liveness:

* `WsClients`: weak fairness of the httpd task's current call and of `ws_tx_task` (FreeRTOS
  runs every ready task, both block only for bounded times), strong fairness of taking queued
  work: the server looks at its control socket in every turn of its loop, but may be in a
  handler at any given moment.
* `TcpBridge`: weak fairness of `tcp_server_task` and of `usb_tx_task`, whose calls all return: `select`
  after 20 ms, a send after its time-out. Clients and devices need not do anything.
* `UsbCdc`: weak fairness of the callbacks, the connect task and each user; strong fairness of
  the connect task's lock (it waits with `portMAX_DELAY`, and users of equal or lower priority release it in
  between) and of the open (an attached device is not refused for ever). Users need not begin
  anything.
* `FirmwareUpdate`: weak fairness of the new-device callback, the MSC callback, the worker, the handlers and the tasks, and
  of a restart that has been scheduled; strong fairness of the worker's wait for the I/O mutex, which is without time-out;
  weak fairness of the end of a transfer at the USB host when its device has left. One that stays attached need not answer, and
  `picoboot_submit_and_wait` has no bound on its wait, so the two liveness properties name this case.
  Devices need not do anything.
* `WifiBridge`: weak fairness of the event task, the HTTP task's current request, each responder task, whose
  reception times out after 500 ms, a restart that was started, and of the driver ending a try to connect one way or the other. A
  network need not be there.
* `DeviceInfo`: none; it is checked for safety only.

## Proofs

Everything below is proved for every value of the constants that the named assumption of the module
admits; TLC evaluates the assumptions in the runs.

**FanoutRing** (`FanoutAssumption`: a capacity of at least one byte): `TypeCorrect`, `CursorsInWindow`,
`UnreadBytesIntact` (`UnreadIntact`), `NoSilentLoss` (`EveryByteAccounted`), `InOrder` (`StreamInOrder`), from
`Inductive`. `IInv` is the conjunction of the five invariants and `ReceivedBehindCursor`: what a client
received lies before its cursor. Without that conjunct `StreamInOrder` is not inductive, since nothing
would relate the next byte popped to the last one received. The
argument for the broadcast: a cursor that was moved to the oldest kept position is less than
one ring length behind the writer, two positions less than a length apart share a slot only if
they are equal (`SlotUnique`), so each unread slot holds either the byte just written there
(`WrittenSlots`) or the one it held before (`KeptPositions`). `DroppedBounds` gives the
accounting.

`ImplementsQueues` proves the refinement, `Spec => ImplementsLossyStream`. By `UnreadIntact` and `TypeOK` the slots between a
client's cursor and the writer hold the latest `k` bytes of the stream, where `k` is their distance (`QueuesAreLatest`), so the
abstract queue is `Latest(k, sent)`. A broadcast, which only moves cursors that fell too far behind, is then the abstract queue's append and
cut at the old end (`BroadcastSends`, from `LatestGrow` and `NewestOfLatest`), a pop its front (`PopReceives`, from `LatestRest`).

**WsClients** (`WsAssumption`): `TypeCorrect`, `CaptureCorrect` (`CaptureFollowsClients`), `Delivery` (`DeliveredInOrder`),
`BufferStable` (`FrameStaysPut`) and `NothingUncounted` (`BytesAccounted`), for any number of slots, sockets and activations and any sizes. With `ImplementsQueues` they speak of
the terminals over the ring itself. `Inductive` has six parts besides the types. `Frames`: the frame of a slot is with `ws_tx_task`, in the work queue, being sent
or being ended, in one of these at most, and `in_flight` is set then. `Popping`: `ws_tx_task` only works on a slot without a
frame, for its present session or an earlier one. `Subscribed`, `Captured`: slot, subscription and capture flag differ only where the httpd task is
between changing them. `Lengths`: the lengths kept outside the mux are that of the buffer. `Ordered`: what a session was sent comes before what is pending
for it in the buffer, and that before what waits in its queue (`InOrder`). A pop for an earlier session is not `Pending`: it carries an
older generation, so the owner check throws it away; this is where `Popping` is needed, and what `FreeSlots` keeping a slot in flight from a new
session is for.

The account of a session's bytes (`AccountIInv`) needs four more parts. `Sockets`: an active slot has a socket of its own, open until the slot is given up, so a
session whose peer was found gone does not come back to life with its slot. `Owners`: what the tasks keep of a slot outside the mux (scheduled socket and
generation, the pop's) is the present session's, or its generation tells. `Past`: whatever lies in a buffer was sent by the device, so that at the start of a
session nothing in it counts. `Once`: a pop thrown away with bytes of the present session in it can only be one that `ws_tx_task` began before the session, and after it
no other; this is the bound of one buffer on what no counter of the code shows. `Account` is then kept by each step: a broadcast adds to the queue what it does
not lose (`LostGrows`), a pop moves bytes to the frame, and a send, a failure, a reset or an owner check moves them to the history that counts them.

**TelnetStream** (`TelnetAssumption`: any buffer size; `LineAssumption`: the default rate is in the range `Kconfig.projbuild` allows): what the recursive functions over a text
compute, for every text, by induction. `NumberInduction` gets it from sets of numbers (a set without a least number that is missing has all of them, which is
the well-foundedness of `<`), and `SequenceInduction` from that. `ParserFinds`: the parser, which sees one byte at a time, finds exactly
`DataIn` and `CommandsIn`. The argument goes item by item: at the start of each item of the stream the parser is at rest (`state = "data"`), and over one byte, pair, option,
command or subnegotiation it adds what the item is worth (`ItemStep`). Inside a subnegotiation (`InsideAt`) its buffer is what a second parser
finds in the bytes since `SB`, cut at `SubnegMax`, and it is in `"sb_iac"` after an odd run of 255s; so it ends where the reference says (`FrameEnd`).
`DataComeBack` and `ValueComesBack`: what `Escape` and `SubnegFrame` make of any text comes out of the parser as it went in. `AnswerAsks`: the value
answered is one to ask for, and asking for it changes nothing; `BaudBack` has this for rates of 32 bits in four bytes.

**TcpBridge** (`TcpAssumption`, `RingAssumption`, `TrialAssumption`): the byte ring first. `PushAppends`, `PopTakesFront` and `ResetEmpties` say what the operations do to
`Contents`, for every capacity, every ring whose head is `count` slots ahead of its tail (`Aligned`), and every length. They rest on
`SlotDistance`, `ModOfSum` and `SlotFromHead`: which of the written bytes a slot holds. Then the tasks around the two rings, for any clients, devices, frames and
sizes: `TypeCorrect` (both rings stay rings; probe, subnegotiation and transfers stay within their buffers), `NoByteUnaccounted` (`BytesAccounted`), `NothingForOldDevice`
(`NewDeviceNewBytes`), `NothingOfOldSession` (`OwnSession`), and the refinement `RingsImplementFifos` (`RingsAreFifos`). The types are
inductive; so are the accounts (`Sums`) with them and `InHand`, by which a task that is about to pop holds nothing a pop would write over, and `Uncounted`: bytes in no
counter are one pop's, and the server that lost them goes to its close without another; what waits
for a device or a client is then what the theorems about push, pop and reset leave in `Contents`.

`StreamUnderstood` (`SplitNeverMatters`) holds for every script of clients, every way the network cuts it and every probe of at least three bytes (`TcpAssumption`; the code's has
16: with less than three a stream could not be told apart before the probe is full). The property speaks of the moments the server is at `select`;
its invariant `InOrder` of all the others, by mode. Undecided (`Held`), the probe is all that came, and nothing was given away. Raw (`Passed`), what came is what was given away, what lies in
`serial_rx` and the piece that has its turn. RFC 2217 (`Understood`), there is a part `c` of the stream that the parser is through with: its state and the commands dealt with are `Parsed(c)`'s, the data given
away and the ones still in `serial_rx` are `Parsed(c)`'s data, and the rest of the stream is the input left and the pieces to come. A byte parsed makes `c` one byte longer (`ParseInOrder`), detection
starts with the empty `c`, and that it is never revised is `TellsForGood`. At `select` no input is left, so `c` is the whole stream, and `ParserFinds` says the rest.
`SentComesBack` (`RoundTrip`) and `AnswersFit` (`AnswersAreRequests`) follow from the lemmas of `TelnetStream`; they hold for all texts, frames and line states, not only those of the runs.

**UsbCdc** (`UsbAssumption`): `HandlesInUse` (`NoUseAfterClose`), `FreshToken` (`GoneTokenIsFresh`), `ReleasedIsUnused`
(`ReleasedMeansUnused`) and `ConnectedIsOpen` (`ConnectedMeansOpen`), for every set of users and every number of plug-ins. `Invariant`
is inductive through `Handles` (where the connect task is tells whether a handle is open and shared), `Mutex` (who
is at a place that needs `s_cdc_mutex` holds it), `Calls` (a call in progress is on the shared handle) and
`OneToken` (a departure of the open device is in exactly one place: the driver's queue, the callback, the semaphore, or the task's hands).

**DeviceInfo** (`InfoAssumption`): `TypeCorrect`; `NoLeftOverAnswer` (`OkIsNotLeftOver`) through `HoldersHold` (who asks holds the mutex, so there is one) and `OkMeansWritten`
(a success stands in `s_info_refresh_result` only if it was written since the present request was made); `InformationCatchesUp` (`InfoCatchesUp`) through `CdcTold` and `InfoTold`, which relate the two
queues of events to the device that is here, and `KnownOrOwed`: once the driver's side is done, the record names that device or `usb_info_task` has still to look at it. For any
sequence of devices, any number of requests and of those who ask.

**FirmwareUpdate** (`FirmwareAssumption`): `TypeCorrect`, `OneOperationAtATime` (`OneOperation`), `SameDrive` (`DriveStays`), `NoWaiterMissed` (`WaiterNotMissed`),
`BusyTruthful` (`StatusTruthful`), `NothingAtTheHost` (`NothingLeft`) and `ImageStable` (`StagedStable`), for any number of task slots, families, blocks, plug-ins and
any length of the queue. `Inductive` has the parts `Gate` (a
task or a handler in an operation has the gate, and there is one), `Io` (who is at the drive has the I/O
mutex, and the drive is the one it prepared), `Sleepers`, `Roles`, `Outcome` (what the status says at each place), `Staging` and
`AtHost` (PICOBOOT only runs with the mutex, and what it has at the host is its own). `ImageStable` rests on
`AcceptedIsFlashable`, a theorem about `Uf2` for every file of any blocks: what the upload loop accepts, block after block, is exactly what may be written, the number of blocks included but not that each is there once. By induction over the blocks
(`LoopSays`), as long as none was refused the record names the one target and the one version that any block so far names; `FittingIsTaken` is the other direction.
`PauseEnds` (`PauseHasReason`) adds `News` (devices are announced in the order they came, and none counts as announced under a hold), `ReadyAnnounced` (the bit a task
waits for is set only while the drive is ready) and `PauseOwed`: while the reconnect is paused under an application that was announced, the ready drive's
departure, a message on its way to the worker, the worker, or an operation between the pause and the end of its search still owes the release.

**CaptivePortal** (`PortalAssumption`; in `WifiBridge_proof`): `ResponderTyped`, `ResponderServes` (`RunningMeansServed`) and `SocketNamed`
(`NoStaleSocket`) for every owner that only starts, stops and restarts it (`Safety`), every number of tasks and of failing calls. Given the
types, both invariants are inductive as they stand: a task leaves its loop only when it has seen
the flag down, gives up only by taking it down, and ends only by emptying `s_dns_socket`.

**WifiBridge** (`WifiAssumption`): `UsesResponder` proves the refinement, that the bridge's steps are `CaptivePortal` steps or leave it alone; so
`Served` carries over (`DnsAssumption`). `StatusIsTruthful` (`StatusTruthful`), `CanBeReached` (`NeverStranded`) and, with at least one responder task,
`PortalIsThere` (`PortalOnItsOwn`) hold for every number of losses, failing calls and requests. The inductive
invariant is `Station` (what is still in the event queue tells how the station stands relative to what the event task believes), `Mode` (an access point has
been posted for, configured, or is being closed), `Own` (without a set-up request only the event task opens an access point);
`Opening` adds where the opening of the responder stands.

Only model-checked is all liveness (`StreamDrains`, `GoneIsReleased`, `Reconnects`, `OperationsEnd`, `DepartureNoticed`, `ClosedIsNoticed`, `Reachable`, `StoppedStops`): liveness under fairness is out of the
prover's reach. The runs of a violation check what the code does not keep. Every invariant and action property of the passing runs is a theorem, and so are both refinements to queues. The runs
compare parser, escaping, answers and block checks with their references on bounded inputs as well.

## Not modelled

* Counters (`bridge_stats`): nine additions under one mux; what they promise, that losses are counted, is part of the
  accounting properties of `FanoutRing`, `WsClients` and `TcpBridge`.
* Start-up (`app_main`): the components' start functions in order; the models begin after it.
* The web page (`web/index.html`, and `web_ui.h`, which is generated from it and is half of the source's lines): runs in the browser.
* Pages and JSON, form parsing and URL decoding, log and diagnostic history, the tables of USB ids and names of `rp_mcu`.
* The scan for Wi-Fi networks, which changes no state; the parsing of DNS queries.
* The bridge's replies to negotiations and the heads of its answers in `tcp_bridge`: sent, or failing like any send, with no effect on its state.
* The text of OpenKNX tags and answers, SHA-256, the SCSI commands below a sector's write: external, or pure functions of bytes.

Five hazards have no property (`PROJECT.json`), since nothing is promised there: the serial state stored late, two ways to change the
line at once, a drive exchanged between the comparison of families and its preparation, operations cut off by the restart after an ESP32
update, and the pause a flash nuke leaves over an application that came back under its hold.

## What is left

1. The composition of the terminals with the ring itself, `WsClients` over `FanoutRing` instead of `LossyStream`, as one specification; so far the two theorems
   are about each side of the interface.
2. The OpenKNX query as a dialogue over the rings, with the late answer of an earlier one.
3. The five hazards without a property: the code would have to promise something first.
