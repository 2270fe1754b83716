--------------------------- MODULE FirmwareUpdate ---------------------------
(***************************************************************************)
(* main/firmware_update.c: the operations that put firmware on the RP MCU,  *)
(* run by a task each under s_operation_gate; the MSC driver's callback and *)
(* msc_worker_task, which mount and unmount the BOOTSEL drive under          *)
(* s_io_mutex; and the reconnect pause they share with the CDC bridge.      *)
(*                                                                         *)
(* The CDC bridge is reduced to what this component sees of it: whether it   *)
(* is connected, and its reaction to a new device (UsbCdc has its steps).   *)
(* A wait with a time-out may end at any time.  What is uploaded is a file  *)
(* of UF2 blocks (Uf2), and the reboot without a flash is Picoboot's.       *)
(***************************************************************************)
EXTENDS Uf2

CONSTANTS Tasks,         \* task slots of the scheduler
          Families,      \* RP2040, RP2350
          Unknown,       \* RP_MCU_FAMILY_UNKNOWN
          Worker, Free,  \* holders of s_io_mutex besides the tasks
          Files,         \* UF2 files that are uploaded, all of Blocks blocks
          Blocks,
          QueueLength,   \* of s_msc_queue: 6
          MaxPlugs       \* bound: devices attached

ASSUME FirmwareAssumption ==
    /\ Unknown \notin Families
    /\ Worker \notin Tasks /\ Free \notin Tasks \cup {Worker}
    /\ Files \subseteq Seq(BlockRecords)
    /\ \A file \in Files : Accepted(file) => Target(file) \in Families /\ Len(file) = Blocks
    /\ Blocks \in Nat \ {0} /\ QueueLength \in Nat \ {0} /\ MaxPlugs \in Nat

VARIABLES
    plug,      \* devices attached so far; the last one's id
    attached,  \* [kind, id, family]: an application ("cdc"), a bootloader ("boot") or none
    cdc_new, msc_new,  \* what the two drivers have not handled yet
    cdc,       \* the CDC connection: "down", "opening" or "up", and to which device
    s_reconnect_paused,
    hold       \* s_hold_cdc_pause and s_reconnect_hold, set together

VARIABLES
    msc_cb,        \* where the MSC driver's task is in msc_event_cb
    s_msc_queue, worker,
    s_msc_ready,   \* with it s_msc_address
    s_bootsel_family, s_msc_device, s_vfs_handle,
    s_events,      \* the bits set of FW_EVENT_MSC_READY and FW_EVENT_MSC_GONE
    s_io_mutex,
    picoboot       \* picoboot_reboot_application and what the USB host holds for it

VARIABLES
    s_operation_gate,  \* the binary semaphore: TRUE when it can be taken
    httpd,       \* the request the HTTP task is handling
    task,        \* per slot: the operation's task, at "none" when there is none
    stage,       \* the staging partition's contents: <<file>> once it was read back, or <<>>
    staged,      \* s_staged_firmware: [valid, family]
    busy,        \* s_status.busy
    restarting   \* esp32_restart_task waits

\* For the properties only: the last application that was announced while the reconnect
\* was not held, 0 when it was held since.
VARIABLE greeted

bus == <<plug, attached, cdc_new, msc_new, greeted>>
pause == <<s_reconnect_paused, hold>>
drive == <<s_msc_ready, s_bootsel_family, s_msc_device, s_vfs_handle, s_events>>
driver == <<msc_cb, s_msc_queue, picoboot>>
web == <<httpd, stage, staged, restarting>>
vars == <<bus, cdc, pause, drive, driver, worker, s_io_mutex, s_operation_gate, web, task, busy>>

Reboots == INSTANCE Picoboot

None == [kind |-> "none", id |-> 0, family |-> Unknown]
Quiet == [at |-> "idle", type |-> "none", id |-> 0]
NoTask == [at |-> "none", op |-> "none", block |-> 0, dev |-> 0, asleep |-> FALSE, back |-> FALSE]

\* firmware_update_start, and what of the bridge and the drivers is in RAM.
Boot ==
    [cdc |-> [at |-> "down", id |-> 0], paused |-> FALSE, cb |-> Quiet, queue |-> <<>>,
     worker |-> Quiet, httpd |-> [at |-> "idle", op |-> "none"],
     task |-> [t \in Tasks |-> NoTask], staged |-> [valid |-> FALSE, family |-> Unknown]]

Init ==
    /\ plug = 0 /\ attached = None /\ cdc_new = <<>> /\ msc_new = <<>>
    /\ cdc = Boot.cdc
    /\ s_reconnect_paused = FALSE /\ hold = FALSE
    /\ msc_cb = Boot.cb /\ s_msc_queue = Boot.queue /\ worker = Boot.worker
    /\ s_msc_ready = FALSE /\ s_bootsel_family = Unknown
    /\ s_msc_device = 0 /\ s_vfs_handle = FALSE /\ s_events = {}
    /\ s_io_mutex = Free /\ picoboot = Reboots!Idle /\ s_operation_gate = TRUE
    /\ httpd = Boot.httpd /\ task = Boot.task
    /\ stage = <<>> /\ staged = Boot.staged
    /\ busy = FALSE /\ restarting = FALSE
    /\ greeted = 0

-----------------------------------------------------------------------------
(* The bus: an RP MCU leaves and comes back as application or bootloader.   *)

Connect(d) == [type |-> "connected", id |-> d.id]

PlugIn(kind, family) ==
    /\ attached = None /\ plug < MaxPlugs
    /\ plug' = plug + 1
    /\ attached' = [kind |-> kind, id |-> plug + 1, family |-> family]
    /\ cdc_new' = Append(cdc_new, attached')
    /\ msc_new' = IF kind = "boot" THEN Append(msc_new, Connect(attached')) ELSE msc_new
    /\ UNCHANGED <<greeted, cdc, pause, drive, driver, worker, s_io_mutex, s_operation_gate,
                   web, task, busy>>

\* The MSC driver reports the departure of a drive that is installed.
Unplug ==
    /\ attached # None
    /\ attached' = None
    /\ msc_new' = IF attached.id = s_msc_device
                  THEN Append(msc_new, [type |-> "disconnected", id |-> attached.id])
                  ELSE msc_new
    /\ UNCHANGED <<plug, cdc_new, greeted, cdc, pause, drive, driver, worker, s_io_mutex,
                   s_operation_gate, web, task, busy>>

\* Any reset of the ESP32: what is in RAM is gone, the devices are found again.
Restart ==
    /\ cdc_new' = IF attached = None THEN <<>> ELSE <<attached>>
    /\ msc_new' = IF attached.kind = "boot" THEN <<Connect(attached)>> ELSE <<>>
    /\ greeted' = 0
    /\ cdc' = Boot.cdc
    /\ s_reconnect_paused' = FALSE /\ hold' = FALSE
    /\ msc_cb' = Boot.cb /\ s_msc_queue' = Boot.queue /\ worker' = Boot.worker
    /\ s_msc_ready' = FALSE /\ s_bootsel_family' = Unknown
    /\ s_msc_device' = 0 /\ s_vfs_handle' = FALSE /\ s_events' = {}
    /\ s_io_mutex' = Free /\ picoboot' = Reboots!Idle /\ s_operation_gate' = TRUE
    /\ httpd' = Boot.httpd /\ task' = Boot.task
    /\ staged' = Boot.staged /\ busy' = FALSE /\ restarting' = FALSE
    /\ UNCHANGED <<plug, attached, stage>>

-----------------------------------------------------------------------------
(* The CDC bridge, as far as it is seen here.                               *)

\* on_new_usb_device.
OnNewDevice ==
    /\ cdc_new # <<>>
    /\ LET d == Head(cdc_new)
       IN /\ s_reconnect_paused' =
                (d.kind = "boot" \/ (s_reconnect_paused /\ (d.kind # "cdc" \/ hold)))
          /\ greeted' = IF d.kind = "cdc" /\ ~hold THEN d.id ELSE greeted
    /\ cdc_new' = Tail(cdc_new)
    /\ UNCHANGED <<plug, attached, msc_new, cdc, hold, drive, driver, worker, s_io_mutex,
                   s_operation_gate, web, task, busy>>

\* usb_connect_task looks at the pause, opens the device some time later, and notices
\* that it left.
CdcStep ==
    /\ \/ /\ cdc.at = "down" /\ ~s_reconnect_paused /\ ~hold
          /\ cdc' = [cdc EXCEPT !.at = "opening"]
       \/ /\ cdc.at = "opening" /\ attached.kind = "cdc"
          /\ cdc' = [at |-> "up", id |-> attached.id]
       \/ /\ cdc.at = "opening"
          /\ cdc' = Boot.cdc
       \/ /\ cdc.at = "up" /\ cdc.id # attached.id
          /\ cdc' = Boot.cdc
    /\ UNCHANGED <<bus, pause, drive, driver, worker, s_io_mutex, s_operation_gate, web, task, busy>>

-----------------------------------------------------------------------------
(* The MSC driver's callback and msc_worker_task.                           *)

\* msc_event_cb up to the queue: a drive that appears pauses the reconnect.
msc_event_cb ==
    /\ msc_cb.at = "idle" /\ msc_new # <<>>
    /\ LET e == Head(msc_new)
       IN /\ s_reconnect_paused' = (s_reconnect_paused \/ e.type = "connected")
          /\ msc_cb' = [at |-> "send", type |-> e.type, id |-> e.id]
    /\ msc_new' = Tail(msc_new)
    /\ UNCHANGED <<plug, attached, cdc_new, greeted, cdc, hold, drive, s_msc_queue, picoboot, worker,
                   s_io_mutex, s_operation_gate, web, task, busy>>

\* What would go wrong (each of these stands for a plausible mistake and replaces the
\* definition after it when a property is tried on it): the pause stays.
KeepPause == UNCHANGED s_reconnect_paused

\* release_cdc_pause_after_msc_failure; the end of a disconnection does the same.
ReleasePause == s_reconnect_paused' = (s_reconnect_paused /\ hold)

\* xQueueSend without waiting: when the queue is full the event is lost.
SendToWorker ==
    /\ msc_cb.at = "send"
    /\ \/ /\ Len(s_msc_queue) < QueueLength
          /\ s_msc_queue' = Append(s_msc_queue, [type |-> msc_cb.type, id |-> msc_cb.id])
          /\ UNCHANGED s_reconnect_paused
       \/ /\ Len(s_msc_queue) = QueueLength
          /\ ReleasePause
          /\ UNCHANGED s_msc_queue
    /\ msc_cb' = Quiet
    /\ UNCHANGED <<bus, cdc, hold, drive, picoboot, worker, s_io_mutex, s_operation_gate, web, task,
                   busy>>

WorkerAt(at) == worker' = [worker EXCEPT !.at = at]

\* A connection waits for the CDC handle to be released, at most three seconds, and goes
\* on in any case; a disconnection of another drive is ignored.
TakeMessage ==
    /\ worker.at = "idle" /\ s_msc_queue # <<>>
    /\ LET m == Head(s_msc_queue)
       IN worker' = IF m.type = "connected" THEN [at |-> "lock", type |-> m.type, id |-> m.id]
                    ELSE IF m.id = s_msc_device THEN [at |-> "gone", type |-> m.type, id |-> m.id]
                    ELSE Quiet
    /\ s_msc_queue' = Tail(s_msc_queue)
    /\ UNCHANGED <<bus, cdc, pause, drive, msc_cb, picoboot, s_io_mutex, s_operation_gate, web, task,
                   busy>>

WorkerLocks ==
    /\ worker.at = "lock"
    /\ \/ s_io_mutex = Free /\ s_io_mutex' = Worker /\ WorkerAt("cleanup")
       \/ UNCHANGED s_io_mutex /\ WorkerAt("release_pause")   \* time-out
    /\ UNCHANGED <<bus, cdc, pause, drive, driver, s_operation_gate, web, task, busy>>

cleanup_msc_locked ==
    /\ s_msc_ready' = FALSE
    /\ s_bootsel_family' = Unknown
    /\ s_events' = s_events \ {"READY"}
    /\ s_vfs_handle' = FALSE
    /\ s_msc_device' = 0

\* Mistake: after a disconnection the mutex is not taken.
CleanUpUnlocked ==
    /\ \/ worker.at = "cleanup" /\ WorkerAt("install")
       \/ worker.at = "lock_gone" /\ WorkerAt("release_pause")
    /\ cleanup_msc_locked
    /\ UNCHANGED <<bus, cdc, pause, driver, s_io_mutex, s_operation_gate, web, task, busy>>

\* Before mounting the new drive, and after a disconnection with the mutex taken for it.
CleanUp ==
    /\ \/ worker.at = "cleanup" /\ WorkerAt("install")
       \/ worker.at = "lock_gone" /\ s_io_mutex = Free /\ WorkerAt("release_pause")
    /\ cleanup_msc_locked
    /\ UNCHANGED <<bus, cdc, pause, driver, s_io_mutex, s_operation_gate, web, task, busy>>

\* Installing, identifying and mounting the drive may each fail, and do when it left.
Install ==
    /\ worker.at = "install"
    /\ \/ /\ attached.id = worker.id
          /\ s_msc_device' = worker.id
          /\ WorkerAt("mount")
          /\ UNCHANGED s_io_mutex
       \/ /\ s_io_mutex' = Free
          /\ WorkerAt("release_pause")
          /\ UNCHANGED s_msc_device
    /\ UNCHANGED <<bus, cdc, pause, s_msc_ready, s_bootsel_family, s_vfs_handle, s_events, driver,
                   s_operation_gate, web, task, busy>>

MountFails ==
    /\ s_msc_device' = 0
    /\ s_io_mutex' = Free
    /\ WorkerAt("release_pause")
    /\ UNCHANGED <<s_vfs_handle, s_bootsel_family, s_msc_ready>>

Mount ==
    /\ worker.at = "mount"
    /\ \/ /\ attached.id = worker.id
          /\ s_vfs_handle' = TRUE
          /\ s_bootsel_family' = attached.family
          /\ s_msc_ready' = TRUE
          /\ WorkerAt("mounted")
          /\ UNCHANGED <<s_msc_device, s_io_mutex>>
       \/ MountFails
    /\ UNCHANGED <<bus, cdc, pause, s_events, driver, s_operation_gate, web, task, busy>>

AnnounceMounted ==
    /\ worker.at = "mounted"
    /\ s_events' = (s_events \ {"GONE"}) \cup {"READY"}
    /\ s_io_mutex' = Free
    /\ worker' = Quiet
    /\ UNCHANGED <<bus, cdc, pause, s_msc_ready, s_bootsel_family, s_msc_device, s_vfs_handle,
                   driver, s_operation_gate, web, task, busy>>

\* A disconnection is announced before the mutex is asked for, so that who holds it
\* gives up: s_msc_ready first and the bits right after it, which is one step here.
AnnounceGone ==
    /\ worker.at = "gone"
    /\ s_msc_ready' = FALSE
    /\ s_bootsel_family' = Unknown
    /\ s_events' = (s_events \ {"READY"}) \cup {"GONE"}
    /\ WorkerAt("lock_gone")
    /\ UNCHANGED <<bus, cdc, pause, s_msc_device, s_vfs_handle, driver, s_io_mutex,
                   s_operation_gate, web, task, busy>>

WorkerReleasesPause ==
    /\ worker.at = "release_pause"
    /\ ReleasePause
    /\ worker' = Quiet
    /\ UNCHANGED <<bus, cdc, hold, drive, driver, s_io_mutex, s_operation_gate, web, task, busy>>

MscStep == msc_event_cb \/ SendToWorker
WorkerStep ==
    \/ TakeMessage \/ WorkerLocks \/ CleanUp \/ Install \/ Mount
    \/ AnnounceMounted \/ AnnounceGone \/ WorkerReleasesPause

-----------------------------------------------------------------------------
(* The operations' tasks.                                                   *)

Goto(t, at) == task' = [task EXCEPT ![t].at = at]

OthersAsTheyWere == UNCHANGED <<bus, cdc, driver, worker, web>>

\* What follows when the bootloader is there.
Entered(op) == CASE op = "boot" -> "done" [] op = "flash" -> "family" [] op = "nuke" -> "hold"

\* enter_bootloader_and_wait: the drive is there, or else an application to be stopped.
enter_bootloader(t) ==
    /\ \/ /\ task[t].at = "enter"
          /\ Goto(t, IF s_msc_ready THEN Entered(task[t].op) ELSE "enter_cdc")
       \/ /\ task[t].at = "enter_cdc"
          /\ Goto(t, IF cdc.at = "up" THEN "pause" ELSE "done")
    /\ UNCHANGED <<pause, drive, s_io_mutex, s_operation_gate, busy>> /\ OthersAsTheyWere

PauseReconnect(t) ==
    /\ task[t].at = "pause"
    /\ s_reconnect_paused' = TRUE
    /\ Goto(t, "clear")
    /\ UNCHANGED <<hold, drive, s_io_mutex, s_operation_gate, busy>> /\ OthersAsTheyWere

\* Then comes the 1200 baud touch: whether the RP MCU follows is the bus's matter.
ClearEvents(t) ==
    /\ task[t].at = "clear"
    /\ s_events' = {}
    /\ Goto(t, "wait_touch")
    /\ UNCHANGED <<pause, s_msc_ready, s_bootsel_family, s_msc_device, s_vfs_handle,
                   s_io_mutex, s_operation_gate, busy>> /\ OthersAsTheyWere

Waits == {"wait_touch", "wait_boot", "wait_nuke"}

\* Where wait_for_msc returns to.
Arrived(w) ==
    IF w.at = "wait_nuke" THEN [w EXCEPT !.at = "unhold", !.asleep = FALSE, !.back = TRUE]
    ELSE [w EXCEPT !.at = Entered(w.op), !.asleep = FALSE]

Missed(w) ==
    [w EXCEPT !.asleep = FALSE,
              !.at = CASE w.at = "wait_touch" -> "fallback"
                       [] w.at = "wait_boot" -> "give_up"
                       [] w.at = "wait_nuke" -> "unhold"]

\* Mistake: only the bit is looked at.
wait_for_msc_bit(t) ==
    /\ task[t].at \in Waits /\ ~task[t].asleep
    /\ task' = [task EXCEPT ![t].asleep = TRUE]
    /\ UNCHANGED <<pause, drive, s_io_mutex, s_operation_gate, busy>> /\ OthersAsTheyWere

wait_for_msc(t) ==
    /\ task[t].at \in Waits /\ ~task[t].asleep
    /\ task' = [task EXCEPT ![t] = IF s_msc_ready THEN Arrived(@) ELSE [@ EXCEPT !.asleep = TRUE]]
    /\ UNCHANGED <<pause, drive, s_io_mutex, s_operation_gate, busy>> /\ OthersAsTheyWere

\* The bit is set, or the time is over.
wait_for_msc_returns(t) ==
    /\ task[t].at \in Waits /\ task[t].asleep
    /\ task' = [task EXCEPT ![t] =
                   IF "READY" \in s_events \/ s_msc_ready THEN Arrived(@) ELSE Missed(@)]
    /\ UNCHANGED <<pause, drive, s_io_mutex, s_operation_gate, busy>> /\ OthersAsTheyWere

\* Still connected: the console command, which may not be sent.  Otherwise wait on.
Fallback(t) ==
    /\ task[t].at = "fallback"
    /\ \/ Goto(t, "wait_boot")
       \/ cdc.at = "up" /\ Goto(t, "give_up")
    /\ UNCHANGED <<pause, drive, s_io_mutex, s_operation_gate, busy>> /\ OthersAsTheyWere

\* The operation failed and the CDC bridge may reconnect; a nuke that failed has shown
\* its outcome before.
Unpause(t) ==
    /\ task[t].at \in {"give_up", "last_unpause"}
    /\ s_reconnect_paused' = FALSE
    /\ Goto(t, IF task[t].at = "give_up" THEN "done" ELSE "give")
    /\ UNCHANGED <<hold, drive, s_io_mutex, s_operation_gate, busy>> /\ OthersAsTheyWere

\* staged_flash_task: is the image for this chip?
CheckFamily(t) ==
    /\ task[t].at = "family"
    /\ Goto(t, IF s_bootsel_family # Unknown /\ s_bootsel_family = staged.family
               THEN "clear_gone" ELSE "done")
    /\ UNCHANGED <<pause, drive, s_io_mutex, s_operation_gate, busy>> /\ OthersAsTheyWere

\* flash_nuke_task: set_cdc_pause_hold, taken back on each of its ways out.
Hold(t) ==
    /\ task[t].at = "hold"
    /\ hold' = TRUE
    /\ greeted' = 0
    /\ Goto(t, "clear_gone")
    /\ UNCHANGED <<plug, attached, cdc_new, msc_new, cdc, s_reconnect_paused, drive, driver, worker,
                   s_io_mutex, s_operation_gate, web, busy>>

Unhold(t) ==
    /\ task[t].at \in {"unhold", "unhold_busy", "unhold_failed"}
    /\ hold' = FALSE
    /\ Goto(t, CASE task[t].at = "unhold_busy" -> "give"
                 [] task[t].at = "unhold_failed" -> "check_ready"
                 [] task[t].at = "unhold" -> IF task[t].back THEN "done" ELSE "not_back")
    /\ UNCHANGED <<s_reconnect_paused, drive, s_io_mutex, s_operation_gate, busy>>
    /\ OthersAsTheyWere

CheckReady(t) ==
    /\ task[t].at = "check_ready"
    /\ Goto(t, IF s_msc_ready THEN "give" ELSE "last_unpause")
    /\ UNCHANGED <<pause, drive, s_io_mutex, s_operation_gate, busy>> /\ OthersAsTheyWere

ClearGone(t) ==
    /\ task[t].at = "clear_gone"
    /\ s_events' = s_events \ {"GONE"}
    /\ Goto(t, "lock")
    /\ UNCHANGED <<pause, s_msc_ready, s_bootsel_family, s_msc_device, s_vfs_handle,
                   s_io_mutex, s_operation_gate, busy>> /\ OthersAsTheyWere

\* A drive that stays in use.
Busy(op) == IF op = "nuke" THEN "busy_nuke" ELSE "done"

LockIo(t) ==
    /\ task[t].at = "lock"
    /\ \/ /\ s_io_mutex = Free
          /\ s_io_mutex' = t
          /\ Goto(t, IF task[t].op = "start" THEN "reboot" ELSE "prepare")
       \/ /\ Goto(t, Busy(task[t].op))   \* time-out
          /\ UNCHANGED s_io_mutex
    /\ UNCHANGED <<pause, drive, s_operation_gate, busy>> /\ OthersAsTheyWere

\* prepare_raw_msc_io, for a staged image after it was found valid.  dev is for the
\* properties only.
prepare_raw_msc_io(t) ==
    /\ task[t].at = "prepare"
    /\ \/ /\ (task[t].op = "flash" => staged.valid) /\ s_msc_ready /\ s_msc_device # 0
          /\ s_vfs_handle' = FALSE
          /\ task' = [task EXCEPT ![t].at = "write", ![t].block = 1, ![t].dev = s_msc_device]
       \/ /\ Goto(t, "unlock_failed")   \* one of these is wrong, or the unmounting fails
          /\ UNCHANGED s_vfs_handle
    /\ UNCHANGED <<pause, s_msc_ready, s_bootsel_family, s_msc_device, s_events, s_io_mutex,
                   s_operation_gate, busy>> /\ OthersAsTheyWere

\* The write loop after a block.
NextBlock(w) ==
    IF w.block < Blocks THEN [w EXCEPT !.block = @ + 1] ELSE [w EXCEPT !.at = "unlock"]

\* raw_msc_write_uf2_block: up to three attempts, of which the last counts.  The RP MCU
\* may leave with the last block before it acknowledged it.
raw_msc_write_uf2_block(t) ==
    /\ task[t].at = "write"
    /\ \/ /\ s_msc_ready /\ s_msc_device # 0 /\ attached.id = s_msc_device
          /\ task' = [task EXCEPT ![t] = NextBlock(@)]
       \/ /\ s_msc_ready /\ s_msc_device # 0 /\ task[t].block = Blocks
          /\ Goto(t, "last_block")
       \/ Goto(t, "unlock_failed")
    /\ UNCHANGED <<pause, drive, s_io_mutex, s_operation_gate, busy>> /\ OthersAsTheyWere

LastBlockTaken(t) ==
    /\ task[t].at = "last_block"
    /\ Goto(t, IF "GONE" \in s_events \/ ~s_msc_ready THEN "unlock" ELSE "unlock_failed")
    /\ UNCHANGED <<pause, drive, s_io_mutex, s_operation_gate, busy>> /\ OthersAsTheyWere

\* start_firmware_task: picoboot_reboot_application is not even tried without a drive; the
\* command is accepted or not.
Reboot(t) ==
    /\ task[t].at = "reboot"
    /\ \/ s_msc_ready /\ Reboots!Enter /\ UNCHANGED task
       \/ Reboots!Step(attached) /\ UNCHANGED task
       \/ Reboots!Return /\ Goto(t, IF picoboot.accepted THEN "unlock" ELSE "unlock_failed")
       \/ ~s_msc_ready /\ picoboot.at = "none" /\ Goto(t, "unlock_failed") /\ UNCHANGED picoboot
    /\ UNCHANGED <<bus, cdc, pause, drive, msc_cb, s_msc_queue, worker, s_io_mutex,
                   s_operation_gate, web, busy>>

\* The USB host ends a transfer.
TransferCompletes ==
    /\ Reboots!Completes(attached)
    /\ UNCHANGED <<bus, cdc, pause, drive, msc_cb, s_msc_queue, worker, s_io_mutex,
                   s_operation_gate, web, task, busy>>

\* Mistake: who fails keeps the mutex.
UnlockWhenDone(t) ==
    /\ task[t].at \in {"unlock", "unlock_failed"}
    /\ s_io_mutex' = IF task[t].at = "unlock" THEN Free ELSE s_io_mutex
    /\ Goto(t, IF task[t].at = "unlock" THEN "wait_gone"
               ELSE IF task[t].op = "nuke" THEN "failed_nuke" ELSE "done")
    /\ UNCHANGED <<pause, drive, s_operation_gate, busy>> /\ OthersAsTheyWere

UnlockIo(t) ==
    /\ task[t].at \in {"unlock", "unlock_failed"}
    /\ s_io_mutex' = Free
    /\ Goto(t, IF task[t].at = "unlock" THEN "wait_gone"
               ELSE IF task[t].op = "nuke" THEN "failed_nuke" ELSE "done")
    /\ UNCHANGED <<pause, drive, s_operation_gate, busy>> /\ OthersAsTheyWere

\* Waiting for the drive to leave, and then for the application, decides on the message
\* only, however it ends; after a nuke the drive has to come back.
WaitGone(t) ==
    /\ task[t].at = "wait_gone"
    /\ Goto(t, IF task[t].op = "nuke" THEN "clear_ready" ELSE "done")
    /\ UNCHANGED <<pause, drive, s_io_mutex, s_operation_gate, busy>> /\ OthersAsTheyWere

ClearReady(t) ==
    /\ task[t].at = "clear_ready"
    /\ s_events' = s_events \ {"READY"}
    /\ Goto(t, "wait_nuke")
    /\ UNCHANGED <<pause, s_msc_ready, s_bootsel_family, s_msc_device, s_vfs_handle,
                   s_io_mutex, s_operation_gate, busy>> /\ OthersAsTheyWere

\* What follows the outcome.
AfterDone(at) ==
    CASE at = "done" -> "give"
      [] at = "busy_nuke" -> "unhold_busy"
      [] at = "failed_nuke" -> "unhold_failed"
      [] at = "not_back" -> "last_unpause"

\* Mistake: the flag is left.
DoneButBusy(t) ==
    /\ task[t].at \in {"done", "busy_nuke", "failed_nuke", "not_back"}
    /\ Goto(t, AfterDone(task[t].at))
    /\ UNCHANGED <<pause, drive, s_io_mutex, s_operation_gate, busy>> /\ OthersAsTheyWere

\* The outcome is shown, then the gate is given and the task ends; where a nuke failed,
\* what it holds is released in between.
Done(t) ==
    /\ task[t].at \in {"done", "busy_nuke", "failed_nuke", "not_back"}
    /\ busy' = FALSE
    /\ Goto(t, AfterDone(task[t].at))
    /\ UNCHANGED <<pause, drive, s_io_mutex, s_operation_gate>> /\ OthersAsTheyWere

Give(t) ==
    /\ task[t].at = "give"
    /\ s_operation_gate' = TRUE
    /\ task' = [task EXCEPT ![t] = NoTask]
    /\ UNCHANGED <<pause, drive, s_io_mutex, busy>> /\ OthersAsTheyWere

TaskStep(t) ==
    \/ enter_bootloader(t) \/ PauseReconnect(t) \/ ClearEvents(t)
    \/ wait_for_msc(t) \/ wait_for_msc_returns(t) \/ Fallback(t) \/ Unpause(t)
    \/ CheckFamily(t) \/ Hold(t) \/ Unhold(t) \/ CheckReady(t) \/ ClearGone(t) \/ LockIo(t)
    \/ prepare_raw_msc_io(t) \/ raw_msc_write_uf2_block(t) \/ LastBlockTaken(t) \/ Reboot(t)
    \/ UnlockIo(t) \/ WaitGone(t) \/ ClearReady(t) \/ Done(t) \/ Give(t)

-----------------------------------------------------------------------------
(* The HTTP handlers; the HTTP task runs one at a time.                     *)

Requests == {"boot", "start", "nuke", "retry", "upload", "esp32"}
HandlersOnly == UNCHANGED <<bus, cdc, pause, drive, driver, worker, s_io_mutex>>
Answered == httpd' = Boot.httpd

\* Mistake: an upload leaves the last image valid while it replaces it.
RequestUnforgotten(op) ==
    /\ httpd.at = "idle" /\ s_operation_gate
    /\ s_operation_gate' = FALSE
    /\ httpd' = [at |-> "decide", op |-> op]
    /\ UNCHANGED <<stage, staged, restarting, task, busy>> /\ HandlersOnly

\* A request that finds the gate taken is answered with 409 and changes nothing.  An
\* upload forgets the staged image before anything else.
Request(op) ==
    /\ httpd.at = "idle" /\ s_operation_gate
    /\ s_operation_gate' = FALSE
    /\ httpd' = [at |-> "decide", op |-> op]
    /\ staged' = IF op = "upload" THEN Boot.staged ELSE staged
    /\ UNCHANGED <<stage, restarting, task, busy>> /\ HandlersOnly

\* Mistake: a refusal keeps the gate.
RefuseAndKeep ==
    /\ busy' = FALSE
    /\ Answered
    /\ UNCHANGED s_operation_gate

Refuse ==
    /\ busy' = FALSE
    /\ s_operation_gate' = TRUE
    /\ Answered

\* xTaskCreate; the gate goes over to the task.
StartTask(op, at) ==
    /\ \E t \in Tasks :
          /\ task[t].at = "none"
          /\ task' = [task EXCEPT ![t] = [NoTask EXCEPT !.at = at, !.op = op]]
    /\ busy' = TRUE
    /\ Answered
    /\ UNCHANGED s_operation_gate

Possible(op) ==
    CASE op = "boot" -> ~s_msc_ready /\ cdc.at = "up"
      [] op = "start" -> s_msc_ready
      [] op = "nuke" -> s_msc_ready \/ cdc.at = "up"
      [] op = "retry" -> staged.valid /\ (s_msc_ready \/ cdc.at = "up")

Decide ==
    /\ httpd.at = "decide" /\ httpd.op \in {"boot", "start", "nuke", "retry"}
    /\ \/ /\ Possible(httpd.op)
          /\ StartTask(IF httpd.op = "retry" THEN "flash" ELSE httpd.op,
                       IF httpd.op = "start" THEN "clear_gone" ELSE "enter")
       \/ Refuse /\ UNCHANGED task   \* not possible, or no memory for the task
    /\ UNCHANGED <<stage, staged, restarting>> /\ HandlersOnly

\* firmware_update_http_handler: the partition is erased, then written block by block.
Stage ==
    /\ httpd.at = "decide" /\ httpd.op = "upload"
    /\ busy' = TRUE
    /\ httpd' = [httpd EXCEPT !.at = "erase"]
    /\ UNCHANGED <<stage, staged, restarting, task, s_operation_gate>> /\ HandlersOnly

Erase ==
    /\ httpd.at = "erase"
    /\ stage' = <<>>
    /\ httpd' = [httpd EXCEPT !.at = "receive"]
    /\ UNCHANGED <<staged, restarting, task, s_operation_gate, busy>> /\ HandlersOnly

\* All blocks are accepted, and read back with the hash they were received with.
Verified ==
    /\ httpd.at = "receive"
    /\ \E file \in Files : /\ Accepted(file)
                           /\ stage' = <<file>>
                           /\ staged' = [valid |-> TRUE, family |-> Target(file)]
    /\ httpd' = [httpd EXCEPT !.at = "start"]
    /\ UNCHANGED <<restarting, task, s_operation_gate, busy>> /\ HandlersOnly

StartFlash ==
    /\ httpd.at = "start"
    /\ StartTask("flash", "enter")
    /\ UNCHANGED <<stage, staged, restarting>> /\ HandlersOnly

\* Whatever is wrong with an upload, or the task that cannot be created.
UploadFails ==
    /\ httpd.op = "upload"
    /\ Refuse
    /\ staged' = [staged EXCEPT !.valid = FALSE]
    /\ UNCHANGED <<stage, restarting, task>> /\ HandlersOnly

\* firmware_update_esp32_http_handler: after a success the gate is given, "busy" stays,
\* and a task restarts the bridge 1.2 s later.
UpdateEsp32 ==
    /\ httpd.at = "decide" /\ httpd.op = "esp32"
    /\ busy' = TRUE
    /\ httpd' = [httpd EXCEPT !.at = "ota"]
    /\ UNCHANGED <<stage, staged, restarting, task, s_operation_gate>> /\ HandlersOnly

FinishEsp32 ==
    /\ httpd.at = "ota" \/ (httpd.at = "decide" /\ httpd.op = "esp32")
    /\ \/ Refuse /\ UNCHANGED restarting
       \/ /\ httpd.at = "ota"
          /\ restarting' = TRUE
          /\ s_operation_gate' = TRUE
          /\ Answered
          /\ UNCHANGED busy
    /\ UNCHANGED <<stage, staged, task>> /\ HandlersOnly

HandlerStep ==
    Decide \/ Stage \/ Erase \/ Verified \/ StartFlash \/ UploadFails \/ UpdateEsp32 \/ FinishEsp32

Next ==
    \/ \E kind \in {"cdc", "boot"}, f \in Families : PlugIn(kind, f)
    \/ Unplug \/ Restart \/ TransferCompletes
    \/ OnNewDevice \/ CdcStep \/ MscStep \/ WorkerStep
    \/ \E t \in Tasks : TaskStep(t)
    \/ \E op \in Requests : Request(op)
    \/ HandlerStep

\* FreeRTOS runs what is ready; msc_worker_task waits for the mutex without a time-out.  The
\* USB host ends the transfers of a device that left.  One that is still attached need not
\* answer: nothing in the code bounds that wait.
Fairness ==
    /\ WF_vars(OnNewDevice) /\ WF_vars(CdcStep) /\ WF_vars(MscStep)
    /\ WF_vars(WorkerStep) /\ SF_vars(CleanUp)
    /\ \A t \in Tasks : WF_vars(TaskStep(t))
    /\ WF_vars(HandlerStep)
    /\ WF_vars(TransferCompletes /\ attached.id # picoboot.device)
    /\ WF_vars(restarting /\ Restart)

Spec == Init /\ [][Next]_vars /\ Fairness

-----------------------------------------------------------------------------
Ids == 0..MaxPlugs
TaskPlaces ==
    Waits \cup {"none", "enter", "enter_cdc", "pause", "clear", "fallback", "give_up", "family",
                "hold", "clear_gone", "lock", "prepare", "write", "last_block", "reboot",
                "unlock", "unlock_failed", "wait_gone", "clear_ready", "unhold", "busy_nuke",
                "unhold_busy", "failed_nuke", "unhold_failed", "check_ready", "not_back",
                "last_unpause", "done", "give"}
WorkerPlaces == {"idle", "lock", "cleanup", "install", "mount", "mounted", "gone", "lock_gone",
                 "release_pause"}

Device == [kind : {"none", "cdc", "boot"}, id : Ids, family : Families \cup {Unknown}]
Message == [type : {"connected", "disconnected"}, id : Ids]
Progress(places) == [at : places, type : {"none", "connected", "disconnected"}, id : Ids]
TaskRecord ==
    [at : TaskPlaces, op : {"none", "boot", "start", "nuke", "flash"}, block : 0..Blocks,
     dev : Ids, asleep : BOOLEAN, back : BOOLEAN]

BusTypes ==
    /\ plug \in Ids /\ greeted \in Ids
    /\ attached \in Device /\ cdc_new \in Seq(Device) /\ msc_new \in Seq(Message)
    /\ cdc \in [at : {"down", "opening", "up"}, id : Ids]
    /\ s_reconnect_paused \in BOOLEAN /\ hold \in BOOLEAN

DriveTypes ==
    /\ msc_cb \in Progress({"idle", "send"}) /\ worker \in Progress(WorkerPlaces)
    /\ msc_cb.at = "send" => msc_cb.type # "none"
    /\ s_msc_queue \in Seq(Message) /\ Len(s_msc_queue) <= QueueLength
    /\ s_msc_ready \in BOOLEAN /\ s_vfs_handle \in BOOLEAN
    /\ s_bootsel_family \in Families \cup {Unknown} /\ s_msc_device \in Ids
    /\ s_events \subseteq {"READY", "GONE"}
    /\ s_io_mutex \in Tasks \cup {Worker, Free}

OperationTypes ==
    /\ s_operation_gate \in BOOLEAN /\ busy \in BOOLEAN /\ restarting \in BOOLEAN
    /\ httpd \in [at : {"idle", "decide", "erase", "receive", "start", "ota"},
                  op : Requests \cup {"none"}]
    /\ task \in [Tasks -> TaskRecord]
    /\ stage = <<>> \/ \E file \in Files : stage = <<file>>
    /\ staged \in [valid : BOOLEAN, family : Families \cup {Unknown}]

\* Handles, positions and flags keep their types; the worker's queue keeps its length.
TypeOK == BusTypes /\ DriveTypes /\ OperationTypes

Running == {t \in Tasks : task[t].at # "none"}

\* At most one operation is under way, in its handler or in its task, and the gate is
\* taken exactly then: no way out of a handler or a task keeps it or gives it twice.
OneOperation ==
    LET underway == Cardinality(Running) + (IF httpd.at = "idle" THEN 0 ELSE 1)
    IN  underway = IF s_operation_gate THEN 0 ELSE 1

\* While a staged image is on its way to the RP MCU the copy in the partition is the
\* verified one, all of it fit for that family: a new upload never changes it under the
\* task that writes it, and a file with fewer blocks than they say, or with two targets, is
\* never taken for an image, not after a restart either.
StagedStable ==
    /\ staged.valid => \E file \in Files : stage = <<file>> /\ Flashable(file, staged.family)
    /\ \A t \in Running : task[t].op = "flash" => staged.valid

\* Sectors are written to the drive the operation prepared: it is neither uninstalled
\* nor replaced nor mounted again by the worker until the task gives the mutex back,
\* although a departure is announced without the mutex.
DriveStays ==
    \A t \in Tasks : task[t].at \in {"write", "last_block"} =>
        s_io_mutex = t /\ s_msc_device = task[t].dev /\ ~s_vfs_handle

\* No task sleeps for a drive that is there: the bit it waits for is set or about to be,
\* although tasks clear the bit while the worker sets it.
WaiterNotMissed ==
    \A t \in Tasks : task[t].asleep /\ s_msc_ready =>
        "READY" \in s_events \/ worker.at = "mounted"

\* A reboot by PICOBOOT that has returned leaves nothing at the USB host, whichever of its
\* steps failed or timed out: no transfer that could still write to memory the function
\* gave back, no interface, no device and no client, so that the drive can be opened again
\* and none of them is used up.
NothingLeft == picoboot.at = "none" => picoboot = Reboots!Idle

\* The browser is told "busy" from an operation's start to its outcome, and is not left
\* with it when nothing runs and no restart is coming.
StatusTruthful ==
    /\ \A t \in Running :
          task[t].at \notin {"unhold_busy", "unhold_failed", "check_ready", "last_unpause", "give"}
             => busy
    /\ busy => ~s_operation_gate \/ restarting

\* An application announced while nothing held the reconnect does not find it paused for
\* ever: once no operation, event or drive is left, the pause is over, unless a nuke held
\* the reconnect in between (what failed meanwhile does not release the pause, and not
\* every way out of the nuke does).
PauseHasReason ==
    /\ s_reconnect_paused /\ attached.kind = "cdc" /\ greeted = attached.id
    => \/ ~s_operation_gate \/ s_msc_ready
       \/ msc_new # <<>> \/ msc_cb # Quiet \/ s_msc_queue # <<>> \/ worker # Quiet

\* The bootloader that is attached has not answered a PICOBOOT transfer;
\* picoboot_submit_and_wait waits for it as long as it takes.
Stuck == picoboot.transfer = "submitted" /\ attached.id = picoboot.device

\* Every operation gives the gate back, whatever the RP MCU does, but for one thing: a
\* bootloader that stays attached and leaves a transfer without an answer for ever.
OperationsEnd == []<>s_operation_gate \/ <>[]Stuck

\* A drive that left is uninstalled, for which the worker needs the I/O mutex from whoever
\* is working on the drive; the same bootloader can keep it from that, and nothing else.
DepartureNoticed ==
    \/ (s_msc_device # 0 /\ attached.id # s_msc_device) ~> s_msc_device = 0
    \/ <>[]Stuck

\* FLASH_NUKE.md: the bridge waits for BOOTSEL to be enumerated anew.  So the drive a
\* successful nuke finds is not the one it wrote to.
NukeReenumerates ==
    \A t \in Running : task[t].op = "nuke" /\ task[t].at = "unhold" /\ task[t].back =>
        s_msc_device # task[t].dev
=============================================================================
