------------------------ MODULE FirmwareUpdate_proof ------------------------
(***************************************************************************)
(* The safety properties of FirmwareUpdate for every number of task slots,   *)
(* whatever files are uploaded and however often devices are plugged in.    *)
(***************************************************************************)
EXTENDS FirmwareUpdate, FiniteSetTheorems, SequenceTheorems, WellFoundedInduction, TLAPS

\* The gate has one holder: the handler, or the task it started.
Gate ==
    /\ httpd.at = "idle" <=> httpd.op = "none"
    /\ httpd.at # "idle" => ~s_operation_gate
    /\ \A t \in Tasks : task[t].at # "none" =>
          ~s_operation_gate /\ httpd.at = "idle" /\ \A u \in Tasks \ {t} : task[u].at = "none"
    /\ ~s_operation_gate => httpd.at # "idle" \/ \E t \in Tasks : task[t].at # "none"

\* Who has s_io_mutex, and what its holders rely on.
HasIo == {"prepare", "write", "last_block", "reboot", "unlock", "unlock_failed"}

Io ==
    /\ \A t \in Tasks : s_io_mutex = t <=> task[t].at \in HasIo
    /\ s_io_mutex = Worker <=> worker.at \in {"cleanup", "install", "mount", "mounted"}
    /\ \A t \in Tasks : task[t].at \in {"write", "last_block"} =>
          s_msc_device = task[t].dev /\ ~s_vfs_handle

Sleepers ==
    /\ \A t \in Tasks : task[t].asleep => task[t].at \in Waits
    /\ WaiterNotMissed

\* Only the operations that need the bootloader enter it.
Entering == {"enter", "enter_cdc", "pause", "clear", "wait_touch", "fallback", "wait_boot"}

Roles == \A t \in Tasks : task[t].at \in Entering => task[t].op \in {"boot", "flash", "nuke"}

\* After its outcome an operation is not busy any more.
Over == {"unhold_busy", "unhold_failed", "check_ready", "last_unpause", "give"}

Outcome ==
    /\ \A t \in Tasks : task[t].at \in Over => ~busy
    /\ \A t \in Tasks : task[t].at \notin Over \cup {"none"} => busy
    /\ busy => ~s_operation_gate \/ restarting

\* The record is valid only while the partition holds an accepted file, and a task that
\* writes it is started with a valid record.
Staging ==
    /\ staged.valid => \E file \in Files :
          Accepted(file) /\ stage = <<file>> /\ staged.family = Target(file)
    /\ \A t \in Tasks : task[t].at # "none" /\ task[t].op = "flash" => staged.valid
    /\ httpd.op = "upload" /\ httpd.at # "start" => ~staged.valid
    /\ httpd.at \in {"erase", "receive", "start"} => httpd.op = "upload"
    /\ httpd.at = "start" => staged.valid

\* How far the reboot has got says what it has of the host.
PicobootRecord ==
    [at : {"none", "open", "claim", "out", "back"} \cup Reboots!Transfers, client : BOOLEAN,
     device : Ids, claimed : BOOLEAN, transfer : {"none", "submitted", "completed", "failed"},
     accepted : BOOLEAN]

AtHost ==
    /\ picoboot \in PicobootRecord
    /\ picoboot.at \notin Reboots!Transfers => picoboot.transfer = "none"
    /\ picoboot.at \in {"none", "back"} =>
          ~picoboot.client /\ picoboot.device = 0 /\ ~picoboot.claimed
    /\ picoboot.at = "none" => ~picoboot.accepted

IInv == TypeOK /\ Gate /\ Io /\ Sleepers /\ Roles /\ Outcome /\ Staging /\ AtHost

\* What is in RAM after a start, and the types of the values that mean "nothing".
LEMMA BootValues ==
  /\ Boot.cdc = [at |-> "down", id |-> 0] /\ ~Boot.paused
  /\ Boot.cb = Quiet /\ Boot.worker = Quiet /\ Boot.queue = <<>>
  /\ Boot.httpd = [at |-> "idle", op |-> "none"]
  /\ Boot.task = [t \in Tasks |-> NoTask]
  /\ Boot.staged = [valid |-> FALSE, family |-> Unknown]
BY DEF Boot

LEMMA EmptyTypes ==
  /\ 0 \in Ids
  /\ None \in Device /\ NoTask \in TaskRecord
  /\ Quiet \in Progress({"idle", "send"}) /\ Quiet \in Progress(WorkerPlaces)
  /\ <<>> \in Seq(Device) /\ <<>> \in Seq(Message) /\ Len(<<>>) = 0
<1>1. 0 \in Ids
  BY FirmwareAssumption DEF FirmwareAssumption, Ids
<1>2. None \in Device /\ NoTask \in TaskRecord
      /\ Quiet \in Progress({"idle", "send"}) /\ Quiet \in Progress(WorkerPlaces)
  BY <1>1, FirmwareAssumption DEF None, Device, NoTask, TaskRecord, TaskPlaces, Quiet, Progress,
     WorkerPlaces, FirmwareAssumption
<1> QED
  BY <1>1, <1>2

LEMMA InitInv == Init => IInv
<1> SUFFICES ASSUME Init
             PROVE  IInv
  OBVIOUS
<1>1. BusTypes
  <2>1. attached \in Device /\ cdc_new \in Seq(Device) /\ msc_new \in Seq(Message)
    BY EmptyTypes DEF Init
  <2>2. cdc \in [at : {"down", "opening", "up"}, id : Ids]
    BY BootValues, EmptyTypes DEF Init
  <2> QED
    BY EmptyTypes, <2>1, <2>2 DEF Init, BusTypes
<1>2. DriveTypes
  <2>1. /\ msc_cb \in Progress({"idle", "send"}) /\ worker \in Progress(WorkerPlaces)
        /\ msc_cb.at = "idle"
    BY BootValues, EmptyTypes DEF Init, Quiet
  <2>2. s_msc_queue \in Seq(Message) /\ Len(s_msc_queue) <= QueueLength
    BY BootValues, EmptyTypes, FirmwareAssumption DEF Init, FirmwareAssumption
  <2> QED
    BY EmptyTypes, <2>1, <2>2 DEF Init, DriveTypes
<1>3. OperationTypes
  <2>1. task \in [Tasks -> TaskRecord]
    BY BootValues, EmptyTypes DEF Init
  <2>2. /\ httpd \in [at : {"idle", "decide", "erase", "receive", "start", "ota"},
                     op : Requests \cup {"none"}]
        /\ staged \in [valid : BOOLEAN, family : Families \cup {Unknown}]
    BY BootValues DEF Init
  <2> QED
    BY <2>1, <2>2 DEF Init, OperationTypes
<1>4. Gate /\ Staging /\ Roles
  BY DEF Init, Gate, Staging, Roles, Entering, Boot, NoTask
<1>5. Io /\ Sleepers /\ Outcome
  BY FirmwareAssumption DEF Init, Io, Sleepers, Outcome, Boot, NoTask, Quiet, FirmwareAssumption,
     HasIo, Over, WaiterNotMissed
<1>6. AtHost
  BY FirmwareAssumption DEF Init, AtHost, PicobootRecord, Reboots!Idle, Reboots!Transfers, Ids, FirmwareAssumption
<1> QED
  BY <1>1, <1>2, <1>3, <1>4, <1>5, <1>6 DEF IInv, TypeOK

-----------------------------------------------------------------------------
(* The checks of an uploaded file, which are a recursion over its blocks.    *)

\* Every set of numbers that is not empty has a least one.
LEMMA LeastNumber ==
    ASSUME NEW T \in SUBSET Nat, T # {}
    PROVE  \E m \in T : \A k \in T : m <= k
<1>1. PICK m \in T : \A k \in T : ~(<<k, m>> \in OpToRel(<, Nat))
  BY NatLessThanWellFounded, WFMin
<1>2. \A k \in T : m <= k
  <2> TAKE k \in T
  <2>1. m \in Nat /\ k \in Nat OBVIOUS
  <2>2. ~(k < m) BY <1>1, <2>1 DEF OpToRel
  <2> QED BY <2>1, <2>2, SMT
<1> QED BY <1>2

\* Induction, for sets of numbers.
LEMMA NumberInduction ==
    ASSUME NEW T \in SUBSET Nat, 0 \in T, \A n \in T : n + 1 \in T
    PROVE  T = Nat
<1> SUFFICES ASSUME NEW x \in Nat, x \notin T PROVE FALSE OBVIOUS
<1>1. PICK m \in Nat \ T : \A k \in Nat \ T : m <= k BY LeastNumber
<1>2. m # 0 /\ m - 1 \in Nat /\ m - 1 < m BY SMT
<1>3. m - 1 \in T BY <1>1, <1>2, SMT
<1>4. (m - 1) + 1 \in T BY <1>2, <1>3
<1> QED BY <1>4, SMT

\* f is the upload loop over the first n blocks.
Loop(f, file, n) ==
    f = [m \in 0..n |-> IF m = 0 THEN Fresh ELSE Block(f[m - 1], file[m], Len(file))]

LEMMA LoopExists ==
    ASSUME NEW file, NEW n \in Nat
    PROVE  \E f : Loop(f, file, n)
<1> DEFINE T == {k \in Nat : \E f : Loop(f, file, k)}
<1>1. 0 \in T
  <2> DEFINE f == [m \in 0..0 |-> Fresh]
  <2>1. f = [m \in 0..0 |-> IF m = 0 THEN Fresh ELSE Block(f[m - 1], file[m], Len(file))]
    OBVIOUS
  <2> HIDE DEF f
  <2>2. Loop(f, file, 0) BY <2>1 DEF Loop
  <2> QED BY <2>2
<1>2. ASSUME NEW k \in T PROVE k + 1 \in T
  <2>1. k \in Nat /\ \E f : Loop(f, file, k) OBVIOUS
  <2>2. PICK f : Loop(f, file, k) BY <2>1
  <2>3. /\ DOMAIN f = 0..k
        /\ \A m \in 0..k : f[m] = IF m = 0 THEN Fresh ELSE Block(f[m - 1], file[m], Len(file))
    BY <2>2 DEF Loop
  <2> DEFINE g == [m \in 0..k + 1 |-> IF m <= k THEN f[m] ELSE Block(f[k], file[k + 1], Len(file))]
             NewValue(m) == IF m = 0 THEN Fresh ELSE Block(g[m - 1], file[m], Len(file))
  <2>4. ASSUME NEW m \in 0..k + 1 PROVE g[m] = NewValue(m)
    <3>1. CASE m = 0
      <4>1. m \in 0..k /\ m <= k BY <2>1, <3>1, SMT
      <4> QED BY <4>1, <2>3, <3>1
    <3>2. CASE m # 0 /\ m <= k
      <4>1. m \in 0..k /\ m - 1 \in 0..k + 1 /\ m - 1 <= k BY <2>1, <3>2, SMT
      <4>2. g[m] = f[m] /\ g[m - 1] = f[m - 1] BY <4>1, <3>2
      <4> HIDE DEF g
      <4> QED BY <4>1, <4>2, <2>3, <3>2
    <3>3. CASE ~(m <= k)
      <4>1. m = k + 1 /\ m - 1 = k /\ k \in 0..k + 1 /\ k <= k /\ m # 0 BY <2>1, <3>3, SMT
      <4>2. g[m] = Block(f[k], file[k + 1], Len(file)) /\ g[k] = f[k] BY <4>1, <3>3
      <4> HIDE DEF g
      <4> QED BY <4>1, <4>2
    <3> QED BY <3>1, <3>2, <3>3
  <2>5. g = [m \in 0..k + 1 |-> g[m]] OBVIOUS
  <2> HIDE DEF g
  <2>6. Loop(g, file, k + 1) BY <2>4, <2>5 DEF Loop
  <2> QED BY <2>1, <2>6
<1> HIDE DEF T
<1>3. n \in T BY <1>1, <1>2, NumberInduction DEF T
<1> QED BY <1>3 DEF T

LEMMA ReceivedIsLoop ==
    ASSUME NEW file, Len(file) \in Nat
    PROVE  \E f : Loop(f, file, Len(file)) /\ Received(file) = f[Len(file)]
<1> DEFINE g == CHOOSE f : Loop(f, file, Len(file))
<1>1. Loop(g, file, Len(file)) BY LoopExists
<1>2. Received(file) = g[Len(file)] BY DEF Received, Loop
<1> QED BY <1>1, <1>2

\* The record, and when a block more is refused.
IsStaged(s) ==
    s.refused \in BOOLEAN
    /\ s = [refused |-> s.refused, family_id |-> s.family_id, tag |-> s.tag]

Refuses(s, b, total) ==
    s.refused \/ ~uf2_validate_block(b, total) \/ ~SameTarget(s, b) \/ ~SameTag(s, b)

LEMMA BlockIs ==
    ASSUME NEW s, NEW b, NEW total, IsStaged(s)
    PROVE  LET after == Block(s, b, total)
           IN  /\ IsStaged(after)
               /\ after.refused <=> Refuses(s, b, total)
               /\ ~Refuses(s, b, total) =>
                     /\ after.family_id = IF rp_mcu_uf2_family_is_bootable(b.family) THEN b.family
                                          ELSE s.family_id
                     /\ after.tag = IF uf2_extract_openknx_tag(b) # NoTag
                                    THEN uf2_extract_openknx_tag(b) ELSE s.tag
<1> DEFINE after == Block(s, b, total)
<1>1. CASE Refuses(s, b, total)
  <2>1. after = [s EXCEPT !.refused = TRUE] BY <1>1 DEF Refuses, Block
  <2>2. after = [refused |-> TRUE, family_id |-> s.family_id, tag |-> s.tag]
    BY <2>1 DEF IsStaged
  <2> HIDE DEF after
  <2>3. IsStaged(after) /\ after.refused BY <2>2 DEF IsStaged
  <2> QED BY <1>1, <2>3 DEF after
<1>2. CASE ~Refuses(s, b, total)
  <2>1. after = [refused |-> s.refused,
                 family_id |-> IF rp_mcu_uf2_family_is_bootable(b.family) THEN b.family
                               ELSE s.family_id,
                 tag |-> IF uf2_extract_openknx_tag(b) # NoTag
                         THEN uf2_extract_openknx_tag(b) ELSE s.tag]
    BY <1>2 DEF Refuses, Block, IsStaged
  <2>2. s.refused = FALSE BY <1>2 DEF Refuses, IsStaged
  <2> HIDE DEF after
  <2>3. IsStaged(after) /\ ~after.refused BY <2>1, <2>2 DEF IsStaged
  <2>4. /\ after.family_id = IF rp_mcu_uf2_family_is_bootable(b.family) THEN b.family
                            ELSE s.family_id
        /\ after.tag = IF uf2_extract_openknx_tag(b) # NoTag
                      THEN uf2_extract_openknx_tag(b) ELSE s.tag
    BY <2>1
  <2> QED BY <1>2, <2>3, <2>4 DEF after
<1> QED BY <1>1, <1>2

LEMMA UnknownIsNot == ~rp_mcu_uf2_family_is_bootable(NoFamily)
BY DEF rp_mcu_uf2_family_is_bootable, rp_mcu_family_from_uf2, NoFamily

\* What the record says of the first n blocks, as long as none was refused: each is valid,
\* and the target and the tag are the ones of all blocks that name any.
Says(s, file, n) ==
    /\ \A i \in 1..n : uf2_validate_block(file[i], Len(file))
    /\ \A i \in 1..n :
          rp_mcu_uf2_family_is_bootable(file[i].family) => file[i].family = s.family_id
    /\ \A i \in 1..n :
          uf2_extract_openknx_tag(file[i]) # NoTag => uf2_extract_openknx_tag(file[i]) = s.tag
    /\ s.family_id # NoFamily =>
          \E i \in 1..n :
              file[i].family = s.family_id /\ rp_mcu_uf2_family_is_bootable(file[i].family)
    /\ s.tag # NoTag => \E i \in 1..n : uf2_extract_openknx_tag(file[i]) = s.tag

LEMMA SaysStep ==
    ASSUME NEW file, NEW n \in Nat, NEW s, IsStaged(s), Says(s, file, n),
           ~Refuses(s, file[n + 1], Len(file))
    PROVE  Says(Block(s, file[n + 1], Len(file)), file, n + 1)
<1>1. PICK b : b = file[n + 1] OBVIOUS
<1>2. PICK after : after = Block(s, b, Len(file)) OBVIOUS
<1>3. /\ after.family_id = IF rp_mcu_uf2_family_is_bootable(b.family) THEN b.family
                           ELSE s.family_id
      /\ after.tag = IF uf2_extract_openknx_tag(b) # NoTag
                     THEN uf2_extract_openknx_tag(b) ELSE s.tag
  BY <1>1, <1>2, BlockIs
<1>4. uf2_validate_block(b, Len(file)) /\ SameTarget(s, b) /\ SameTag(s, b)
  BY <1>1 DEF Refuses
<1>5. \A i \in 1 .. n + 1 : i \in 1..n \/ i = n + 1 BY SMT
<1>6. 1..n \subseteq 1 .. n + 1 /\ n + 1 \in 1 .. n + 1 BY SMT
<1>7. \A i \in 1 .. n + 1 : uf2_validate_block(file[i], Len(file))
  BY <1>1, <1>4, <1>5 DEF Says
<1>8. ASSUME NEW i \in 1 .. n + 1, rp_mcu_uf2_family_is_bootable(file[i].family)
      PROVE  file[i].family = after.family_id
  <2>1. CASE i = n + 1 BY <1>1, <1>3, <1>8, <2>1
  <2>2. CASE i \in 1..n
    <3>1. file[i].family = s.family_id BY <1>8, <2>2 DEF Says
    <3>2. s.family_id # NoFamily BY <1>8, <3>1, UnknownIsNot
    <3>3. rp_mcu_uf2_family_is_bootable(b.family) => s.family_id = b.family
      BY <1>4, <3>2 DEF SameTarget
    <3> QED BY <1>3, <3>1, <3>3
  <2> QED BY <1>5, <2>1, <2>2
<1>9. ASSUME NEW i \in 1 .. n + 1, uf2_extract_openknx_tag(file[i]) # NoTag
      PROVE  uf2_extract_openknx_tag(file[i]) = after.tag
  <2>1. CASE i = n + 1 BY <1>1, <1>3, <1>9, <2>1
  <2>2. CASE i \in 1..n
    <3>1. uf2_extract_openknx_tag(file[i]) = s.tag BY <1>9, <2>2 DEF Says
    <3>2. uf2_extract_openknx_tag(b) # NoTag => s.tag = uf2_extract_openknx_tag(b)
      BY <1>4, <1>9, <3>1 DEF SameTag
    <3> QED BY <1>3, <3>1, <3>2
  <2> QED BY <1>5, <2>1, <2>2
<1>10. ASSUME after.family_id # NoFamily
       PROVE  \E i \in 1 .. n + 1 :
                 file[i].family = after.family_id /\ rp_mcu_uf2_family_is_bootable(file[i].family)
  <2>1. CASE rp_mcu_uf2_family_is_bootable(b.family) BY <1>1, <1>3, <1>6, <2>1
  <2>2. CASE ~rp_mcu_uf2_family_is_bootable(b.family) BY <1>3, <1>6, <1>10, <2>2 DEF Says
  <2> QED BY <2>1, <2>2
<1>11. ASSUME after.tag # NoTag
       PROVE  \E i \in 1 .. n + 1 : uf2_extract_openknx_tag(file[i]) = after.tag
  <2>1. CASE uf2_extract_openknx_tag(b) # NoTag BY <1>1, <1>3, <1>6, <2>1
  <2>2. CASE ~(uf2_extract_openknx_tag(b) # NoTag) BY <1>3, <1>6, <1>11, <2>2 DEF Says
  <2> QED BY <2>1, <2>2
<1>12. Says(after, file, n + 1) BY <1>7, <1>8, <1>9, <1>10, <1>11 DEF Says
<1> QED BY <1>1, <1>2, <1>12

LEMMA LoopSays ==
    ASSUME NEW file, NEW k \in Nat, NEW f, Loop(f, file, k)
    PROVE  \A n \in 0..k : IsStaged(f[n]) /\ (~f[n].refused => Says(f[n], file, n))
<1>1. \A m \in 0..k : f[m] = IF m = 0 THEN Fresh ELSE Block(f[m - 1], file[m], Len(file))
  BY DEF Loop
<1> DEFINE T == {n \in Nat :
                    n <= k => IsStaged(f[n]) /\ (~f[n].refused => Says(f[n], file, n))}
<1>2. 0 \in T
  <2>1. f[0] = Fresh
    <3>1. 0 \in 0..k BY SMT
    <3> QED BY <1>1, <3>1
  <2>2. IsStaged(Fresh) BY DEF IsStaged, Fresh
  <2>3. Says(Fresh, file, 0)
    <3>1. \A i \in 1..0 : FALSE BY SMT
    <3>2. Fresh.family_id = NoFamily /\ Fresh.tag = NoTag BY DEF Fresh
    <3> QED BY <3>1, <3>2 DEF Says
  <2> QED BY <2>1, <2>2, <2>3
<1>3. ASSUME NEW n \in T PROVE n + 1 \in T
  <2> SUFFICES ASSUME n + 1 <= k
               PROVE  /\ IsStaged(f[n + 1])
                      /\ ~f[n + 1].refused => Says(f[n + 1], file, n + 1)
    OBVIOUS
  <2>1. n \in Nat /\ n <= k /\ n + 1 \in 0..k /\ n + 1 # 0 /\ n + 1 - 1 = n BY SMT
  <2>2. IsStaged(f[n]) /\ (~f[n].refused => Says(f[n], file, n)) BY <2>1
  <2>3. f[n + 1] = Block(f[n], file[n + 1], Len(file)) BY <1>1, <2>1
  <2>4. IsStaged(f[n + 1]) /\ (f[n + 1].refused <=> Refuses(f[n], file[n + 1], Len(file)))
    BY <2>2, <2>3, BlockIs
  <2>5. ASSUME ~f[n + 1].refused PROVE Says(f[n + 1], file, n + 1)
    <3>1. ~Refuses(f[n], file[n + 1], Len(file)) BY <2>4, <2>5
    <3>2. Says(f[n], file, n) BY <2>2, <3>1 DEF Refuses
    <3> QED BY <2>1, <2>2, <2>3, <3>1, <3>2, SaysStep
  <2> QED BY <2>4, <2>5
<1> HIDE DEF T
<1>4. T = Nat BY <1>2, <1>3, NumberInduction DEF T
<1> QED
  <2> TAKE n \in 0..k
  <2>1. n \in Nat /\ n <= k BY SMT
  <2> QED BY <1>4, <2>1 DEF T

\* Flashable, block by block.
Fits(file, family, id) ==
    /\ \A i \in 1..Len(file) : uf2_validate_block(file[i], Len(file))
    /\ \A i \in 1..Len(file) : rp_mcu_uf2_family_is_bootable(file[i].family) => file[i].family = id
    /\ \E i \in 1..Len(file) : file[i].family = id
    /\ rp_mcu_uf2_family_is_bootable(id) /\ rp_mcu_family_from_uf2(id) = family
    /\ \A i, j \in 1..Len(file) :
          uf2_extract_openknx_tag(file[i]) # NoTag /\ uf2_extract_openknx_tag(file[j]) # NoTag
          => uf2_extract_openknx_tag(file[i]) = uf2_extract_openknx_tag(file[j])

LEMMA AuxiliaryIsNot ==
    \A id : rp_mcu_uf2_family_is_auxiliary(id) => ~rp_mcu_uf2_family_is_bootable(id)
BY DEF rp_mcu_uf2_family_is_auxiliary, rp_mcu_uf2_family_is_bootable, rp_mcu_family_from_uf2,
   NoFamily

LEMMA FlashableFits ==
    ASSUME NEW file \in Seq(BlockRecords), NEW family
    PROVE  Flashable(file, family) <=> \E id : Fits(file, family, id)
<1> DEFINE blocks == {file[i] : i \in DOMAIN file}
           cores == {b.family : b \in blocks} \ {"ABSOLUTE", "DATA", "RP2350_ARM_NS"}
           versions == {uf2_extract_openknx_tag(b) : b \in blocks} \ {NoTag}
<1>1. DOMAIN file = 1..Len(file) OBVIOUS
<1>2. \A id : id \in {"ABSOLUTE", "DATA", "RP2350_ARM_NS"} <=> rp_mcu_uf2_family_is_auxiliary(id)
  BY DEF rp_mcu_uf2_family_is_auxiliary
<1>3. \A id : id \in cores <=> /\ \E i \in 1..Len(file) : file[i].family = id
                               /\ ~rp_mcu_uf2_family_is_auxiliary(id)
  BY <1>1, <1>2
<1>4. \A v : v \in versions <=> /\ \E i \in 1..Len(file) : uf2_extract_openknx_tag(file[i]) = v
                                /\ v # NoTag
  BY <1>1
<1>5. Flashable(file, family) <=>
          /\ \E id \in cores : cores = {id} /\ rp_mcu_family_from_uf2(id) = family
          /\ family # NoFamily
          /\ \A v, w \in versions : v = w
          /\ \A i \in 1..Len(file) : /\ file[i].magic /\ file[i].payload = 256
                                     /\ file[i].block_no < file[i].num_blocks
                                     /\ file[i].num_blocks <= Len(file)
  <2>1. Flashable(file, family) <=>
          /\ \E id \in cores : cores = {id} /\ rp_mcu_family_from_uf2(id) = family
          /\ family # NoFamily
          /\ \A v, w \in versions : v = w
          /\ \A b \in blocks : b.magic /\ b.payload = 256 /\ b.block_no < b.num_blocks
          /\ \A b \in blocks : b.num_blocks <= Len(file)
    BY DEF Flashable
  <2>2. \A b : b \in blocks <=> \E i \in 1..Len(file) : b = file[i] BY <1>1
  <2> HIDE DEF blocks, cores, versions
  <2> QED BY <2>1, <2>2
<1>6. \A i \in 1..Len(file) :
          file[i].num_blocks \in Nat /\ file[i].block_no \in Nat /\ Len(file) \in Nat
  <2> TAKE i \in 1..Len(file)
  <2>1. file[i] \in BlockRecords BY ElementOfSeq
  <2> QED BY <2>1, LenProperties DEF BlockRecords
<1> HIDE DEF blocks, cores, versions
<1>7. ASSUME Flashable(file, family) PROVE \E id : Fits(file, family, id)
  <2>1. PICK id \in cores : cores = {id} /\ rp_mcu_family_from_uf2(id) = family BY <1>5, <1>7
  <2>2. rp_mcu_uf2_family_is_bootable(id)
    BY <1>5, <1>7, <2>1 DEF rp_mcu_uf2_family_is_bootable
  <2>3. \A i \in 1..Len(file) : file[i].family = id \/ rp_mcu_uf2_family_is_auxiliary(file[i].family)
    BY <1>3, <2>1
  <2>4. \A i \in 1..Len(file) : rp_mcu_uf2_family_is_bootable(file[i].family) => file[i].family = id
    BY <2>3, AuxiliaryIsNot
  <2>5. ASSUME NEW i \in 1..Len(file) PROVE uf2_validate_block(file[i], Len(file))
    <3>1. rp_mcu_uf2_family_is_supported(file[i].family)
      BY <2>2, <2>3 DEF rp_mcu_uf2_family_is_supported
    <3>2. 0 < file[i].num_blocks BY <1>5, <1>6, <1>7, SMT
    <3> QED BY <1>5, <1>7, <3>1, <3>2 DEF uf2_validate_block
  <2>6. \E i \in 1..Len(file) : file[i].family = id BY <1>3, <2>1
  <2>7. ASSUME NEW i \in 1..Len(file), NEW j \in 1..Len(file),
               uf2_extract_openknx_tag(file[i]) # NoTag, uf2_extract_openknx_tag(file[j]) # NoTag
        PROVE  uf2_extract_openknx_tag(file[i]) = uf2_extract_openknx_tag(file[j])
    <3>1. uf2_extract_openknx_tag(file[i]) \in versions BY <1>4, <2>7
    <3>2. uf2_extract_openknx_tag(file[j]) \in versions BY <1>4, <2>7
    <3> QED BY <1>5, <1>7, <3>1, <3>2
  <2> QED BY <2>1, <2>2, <2>4, <2>5, <2>6, <2>7 DEF Fits
<1>8. ASSUME NEW id, Fits(file, family, id) PROVE Flashable(file, family)
  <2>1. ~rp_mcu_uf2_family_is_auxiliary(id) BY <1>8, AuxiliaryIsNot DEF Fits
  <2>2. id \in cores BY <1>3, <1>8, <2>1 DEF Fits
  <2>3. ASSUME NEW c \in cores PROVE c = id
    <3>1. PICK i \in 1..Len(file) : file[i].family = c BY <1>3
    <3>2. ~rp_mcu_uf2_family_is_auxiliary(c) BY <1>3
    <3>3. uf2_validate_block(file[i], Len(file)) BY <1>8 DEF Fits
    <3>4. rp_mcu_uf2_family_is_bootable(c)
      BY <3>1, <3>2, <3>3 DEF uf2_validate_block, rp_mcu_uf2_family_is_supported
    <3> QED BY <1>8, <3>1, <3>4 DEF Fits
  <2>4. cores = {id} /\ rp_mcu_family_from_uf2(id) = family BY <1>8, <2>2, <2>3 DEF Fits
  <2>5. family # NoFamily BY <1>8 DEF Fits, rp_mcu_uf2_family_is_bootable
  <2>6. \A v, w \in versions : v = w BY <1>4, <1>8 DEF Fits
  <2>7. \A i \in 1..Len(file) : /\ file[i].magic /\ file[i].payload = 256
                                /\ file[i].block_no < file[i].num_blocks
                                /\ file[i].num_blocks <= Len(file)
    BY <1>8 DEF Fits, uf2_validate_block
  <2> QED BY <1>5, <2>2, <2>4, <2>5, <2>6, <2>7
<1> QED BY <1>7, <1>8

\* The loop takes every block of a file that is flashable.
LEMMA FittingIsTaken ==
    ASSUME NEW file \in Seq(BlockRecords), NEW family, NEW id, Fits(file, family, id)
    PROVE  ~Received(file).refused
<1>1. Len(file) \in Nat OBVIOUS
<1>2. PICK f : Loop(f, file, Len(file)) /\ Received(file) = f[Len(file)] BY <1>1, ReceivedIsLoop
<1>3. \A m \in 0..Len(file) : f[m] = IF m = 0 THEN Fresh ELSE Block(f[m - 1], file[m], Len(file))
  BY <1>2 DEF Loop
<1>4. \A n \in 0..Len(file) : IsStaged(f[n]) /\ (~f[n].refused => Says(f[n], file, n))
  BY <1>1, <1>2, LoopSays
<1> DEFINE T == {n \in Nat : n <= Len(file) => ~f[n].refused}
<1>5. 0 \in T
  <2>1. f[0] = Fresh
    <3>1. 0 \in 0..Len(file) BY <1>1, SMT
    <3> QED BY <1>3, <3>1
  <2> QED BY <2>1 DEF Fresh
<1>6. ASSUME NEW n \in T PROVE n + 1 \in T
  <2> SUFFICES ASSUME n + 1 <= Len(file) PROVE ~f[n + 1].refused
    OBVIOUS
  <2>1. /\ n \in Nat /\ n <= Len(file) /\ n + 1 \in 0..Len(file) /\ n + 1 # 0 /\ n + 1 - 1 = n
        /\ n \in 0..Len(file) /\ n + 1 \in 1..Len(file) /\ 1..n \subseteq 1..Len(file)
    BY <1>1, SMT
  <2>2. PICK s : s = f[n] OBVIOUS
  <2>3. IsStaged(s) /\ ~s.refused /\ Says(s, file, n) BY <1>4, <2>1, <2>2
  <2>4. PICK b : b = file[n + 1] OBVIOUS
  <2>5. f[n + 1] = Block(s, b, Len(file)) BY <1>3, <2>1, <2>2, <2>4
  <2>6. uf2_validate_block(b, Len(file)) BY <2>1, <2>4 DEF Fits
  <2>7. SameTarget(s, b)
    <3>1. rp_mcu_uf2_family_is_bootable(b.family) => b.family = id BY <2>1, <2>4 DEF Fits
    <3>2. s.family_id # NoFamily => s.family_id = id BY <2>1, <2>3 DEF Fits, Says
    <3> QED BY <3>1, <3>2 DEF SameTarget
  <2>8. SameTag(s, b)
    <3>1. ASSUME s.tag # NoTag, uf2_extract_openknx_tag(b) # NoTag
          PROVE  s.tag = uf2_extract_openknx_tag(b)
      <4>1. PICK i \in 1..n : uf2_extract_openknx_tag(file[i]) = s.tag BY <2>3, <3>1 DEF Says
      <4> QED BY <2>1, <2>4, <3>1, <4>1 DEF Fits
    <3> QED BY <3>1 DEF SameTag
  <2>9. ~Refuses(s, b, Len(file)) BY <2>3, <2>6, <2>7, <2>8 DEF Refuses
  <2> QED BY <2>3, <2>5, <2>9, BlockIs
<1> HIDE DEF T
<1>7. T = Nat BY <1>5, <1>6, NumberInduction DEF T
<1>8. Len(file) \in T /\ Len(file) <= Len(file) BY <1>1, <1>7, SMT
<1> QED BY <1>2, <1>8 DEF T

\* What the upload loop accepts, block by block as they arrive, is what may be written, for
\* every file of any blocks; and its target is the family the file is for
\* (firmware_update_http_handler and uf2_validate_block).  Both count blocks: one that comes
\* twice stands for one that is missing.
THEOREM AcceptedIsFlashable ==
    \A file \in Seq(BlockRecords) : \A family :
        Accepted(file) /\ family = Target(file) <=> Flashable(file, family)
<1> SUFFICES ASSUME NEW file \in Seq(BlockRecords), NEW family
             PROVE  Accepted(file) /\ family = Target(file) <=> Flashable(file, family)
  OBVIOUS
<1>1. Len(file) \in Nat /\ Len(file) \in 0..Len(file) BY SMT
<1>2. PICK s : s = Received(file) OBVIOUS
<1>3. IsStaged(s) /\ (~s.refused => Says(s, file, Len(file)))
  <2>1. PICK f : Loop(f, file, Len(file)) /\ Received(file) = f[Len(file)] BY <1>1, ReceivedIsLoop
  <2> QED BY <1>1, <1>2, <2>1, LoopSays
<1>4. ASSUME Accepted(file), family = Target(file) PROVE Flashable(file, family)
  <2>1. ~s.refused /\ s.family_id # NoFamily /\ family = rp_mcu_family_from_uf2(s.family_id)
    BY <1>2, <1>4 DEF Accepted, Target
  <2>2. Says(s, file, Len(file)) BY <1>3, <2>1
  <2>3. Fits(file, family, s.family_id) BY <2>1, <2>2 DEF Fits, Says
  <2> QED BY <2>3, FlashableFits
<1>5. ASSUME Flashable(file, family) PROVE Accepted(file) /\ family = Target(file)
  <2>1. PICK id : Fits(file, family, id) BY <1>5, FlashableFits
  <2>2. ~s.refused BY <1>2, <2>1, FittingIsTaken
  <2>3. PICK i \in 1..Len(file) : file[i].family = id BY <2>1 DEF Fits
  <2>4. s.family_id = id /\ id # NoFamily
    BY <1>3, <2>1, <2>2, <2>3, UnknownIsNot DEF Fits, Says
  <2>5. Len(file) > 0 BY <1>1, <2>3, SMT
  <2>6. rp_mcu_family_from_uf2(id) = family BY <2>1 DEF Fits
  <2> QED BY <1>2, <2>2, <2>4, <2>5, <2>6 DEF Accepted, Target
<1> QED BY <1>4, <1>5

-----------------------------------------------------------------------------
(* What leaves the variables of a part alone keeps it.                      *)

LEMMA OperationsKept ==
  ASSUME IInv, UNCHANGED <<s_operation_gate, httpd, task, stage, staged, busy, restarting>>
  PROVE  OperationTypes' /\ Gate' /\ Roles' /\ Outcome' /\ Staging'
BY DEF IInv, TypeOK, OperationTypes, Gate, Roles, Outcome, Staging

LEMMA DriveKept ==
  ASSUME IInv, UNCHANGED <<msc_cb, s_msc_queue, worker, drive, s_io_mutex, task>>
  PROVE  DriveTypes' /\ Io' /\ Sleepers'
BY DEF IInv, TypeOK, DriveTypes, Io, Sleepers, WaiterNotMissed, drive

LEMMA HostKept ==
  ASSUME IInv, UNCHANGED picoboot
  PROVE  AtHost'
BY DEF IInv, AtHost

LEMMA BusKept ==
  ASSUME IInv, UNCHANGED <<bus, cdc, pause>>
  PROVE  BusTypes'
BY DEF IInv, TypeOK, BusTypes, bus, pause

LEMMA SequenceTypes ==
  ASSUME NEW S, NEW q \in Seq(S)
  PROVE  /\ q # <<>> => Head(q) \in S /\ Tail(q) \in Seq(S) /\ Len(Tail(q)) = Len(q) - 1
         /\ \A e \in S : Append(q, e) \in Seq(S) /\ Len(Append(q, e)) = Len(q) + 1
OBVIOUS

-----------------------------------------------------------------------------
(* The bus and the CDC bridge.                                              *)

LEMMA PlugInStep ==
  ASSUME IInv, NEW kind \in {"cdc", "boot"}, NEW f \in Families, PlugIn(kind, f)
  PROVE  IInv'
<1>1. plug' \in Ids /\ attached' \in Device
  BY FirmwareAssumption DEF PlugIn, IInv, TypeOK, BusTypes, Device, Ids, FirmwareAssumption
<1>2. Connect(attached') \in Message
  BY <1>1 DEF Connect, Device, Message
<1>3. cdc_new' \in Seq(Device) /\ msc_new' \in Seq(Message)
  <2>1. cdc_new \in Seq(Device) /\ msc_new \in Seq(Message)
    BY DEF IInv, TypeOK, BusTypes
  <2> QED
    BY <1>1, <1>2, <2>1, SequenceTypes DEF PlugIn
<1>4. BusTypes'
  BY <1>1, <1>3 DEF PlugIn, IInv, TypeOK, BusTypes, pause
<1> QED
  BY <1>4, OperationsKept, DriveKept, HostKept DEF PlugIn, IInv, TypeOK, driver, web

LEMMA UnplugStep ==
  ASSUME IInv, Unplug
  PROVE  IInv'
<1>1. None \in Device
  BY FirmwareAssumption DEF None, Device, Ids, FirmwareAssumption
<1>2. [type |-> "disconnected", id |-> attached.id] \in Message
  BY DEF IInv, TypeOK, BusTypes, Device, Message
<1>3. msc_new' \in Seq(Message)
  <2>1. msc_new \in Seq(Message)
    BY DEF IInv, TypeOK, BusTypes
  <2> QED
    BY <1>2, <2>1, SequenceTypes DEF Unplug
<1>4. BusTypes'
  BY <1>1, <1>3 DEF Unplug, IInv, TypeOK, BusTypes, pause
<1> QED
  BY <1>4, OperationsKept, DriveKept, HostKept DEF Unplug, IInv, TypeOK, driver, web

LEMMA BridgeStep ==
  ASSUME IInv, OnNewDevice \/ CdcStep
  PROVE  IInv'
<1>1. CASE OnNewDevice
  <2>1. Head(cdc_new) \in Device /\ cdc_new' \in Seq(Device)
    <3>1. cdc_new \in Seq(Device) /\ cdc_new # <<>>
      BY <1>1 DEF IInv, TypeOK, BusTypes, OnNewDevice
    <3> QED
      BY <1>1, <3>1, SequenceTypes DEF OnNewDevice
  <2>2. greeted' \in Ids /\ s_reconnect_paused' \in BOOLEAN
    BY <1>1, <2>1 DEF OnNewDevice, IInv, TypeOK, BusTypes, Device
  <2>3. BusTypes'
    BY <1>1, <2>1, <2>2 DEF OnNewDevice, IInv, TypeOK, BusTypes
  <2> QED
    BY <1>1, <2>3, OperationsKept, DriveKept, HostKept DEF OnNewDevice, IInv, TypeOK, driver, web
<1>2. CASE CdcStep
  <2>1. cdc' \in [at : {"down", "opening", "up"}, id : Ids]
    <3>1. Boot.cdc = [at |-> "down", id |-> 0] /\ 0 \in Ids
      BY FirmwareAssumption DEF Boot, Ids, FirmwareAssumption
    <3> QED
      BY <1>2, <3>1 DEF CdcStep, IInv, TypeOK, BusTypes, Device
  <2>2. BusTypes'
    BY <1>2, <2>1 DEF CdcStep, IInv, TypeOK, BusTypes, bus, pause
  <2> QED
    BY <1>2, <2>2, OperationsKept, DriveKept, HostKept DEF CdcStep, IInv, TypeOK, driver, web
<1> QED
  BY <1>1, <1>2

-----------------------------------------------------------------------------
(* The reboot by PICOBOOT.                                                  *)

LEMMA AfterTransfer ==
  ASSUME NEW p \in PicobootRecord, p.at \in Reboots!Transfers, NEW ok \in BOOLEAN
  PROVE  /\ Reboots!After(p, ok) \in PicobootRecord
         /\ Reboots!After(p, ok).at \in {"command", "ack", "out"}
         /\ Reboots!After(p, ok).transfer = "none"
BY DEF PicobootRecord, Reboots!Transfers, Reboots!After

LEMMA PicobootStep ==
  ASSUME IInv,
         Reboots!Enter \/ Reboots!Step(attached) \/ Reboots!Return \/ Reboots!Completes(attached)
  PROVE  AtHost'
<1> USE DEF AtHost, Reboots!Transfers
<1>1. AtHost /\ attached.id \in Ids /\ 0 \in Ids
  BY FirmwareAssumption DEF IInv, TypeOK, BusTypes, Device, FirmwareAssumption, Ids
<1>2. CASE Reboots!Enter
  BY <1>1, <1>2 DEF Reboots!Enter, Reboots!Idle, PicobootRecord
<1>3. CASE Reboots!Open(attached)
  BY <1>1, <1>3 DEF Reboots!Open, PicobootRecord
<1>4. CASE Reboots!Claim(attached)
  BY <1>1, <1>4 DEF Reboots!Claim, PicobootRecord
<1>5. CASE Reboots!Submit(attached)
  <2>1. CASE picoboot' = Reboots!After(picoboot, FALSE)
    BY <1>1, <1>5, <2>1, AfterTransfer DEF Reboots!Submit
  <2>2. CASE picoboot' = [picoboot EXCEPT !.transfer = "submitted"]
    BY <1>1, <1>5, <2>2 DEF Reboots!Submit, PicobootRecord
  <2> QED
    BY <1>5, <2>1, <2>2 DEF Reboots!Submit
<1>6. CASE Reboots!Wait
  BY <1>1, <1>6, AfterTransfer DEF Reboots!Wait
<1>7. CASE Reboots!Out
  BY <1>1, <1>7 DEF Reboots!Out, PicobootRecord
<1>8. CASE Reboots!Return
  BY <1>1, <1>8 DEF Reboots!Return, PicobootRecord
<1>9. CASE Reboots!Completes(attached)
  BY <1>1, <1>9 DEF Reboots!Completes, PicobootRecord
<1> QED
  BY <1>2, <1>3, <1>4, <1>5, <1>6, <1>7, <1>8, <1>9 DEF Reboots!Step

LEMMA TransferStep ==
  ASSUME IInv, TransferCompletes
  PROVE  IInv'
BY PicobootStep, OperationsKept, DriveKept, BusKept DEF TransferCompletes, IInv, TypeOK, web

-----------------------------------------------------------------------------
(* The MSC driver and the worker.                                           *)

LEMMA MscSteps ==
  ASSUME IInv, MscStep
  PROVE  IInv'
<1>1. CASE msc_event_cb
  <2>1. Head(msc_new) \in Message /\ msc_new' \in Seq(Message)
    <3>1. msc_new \in Seq(Message) /\ msc_new # <<>>
      BY <1>1 DEF IInv, TypeOK, BusTypes, msc_event_cb
    <3> QED
      BY <1>1, <3>1, SequenceTypes DEF msc_event_cb
  <2>2. BusTypes'
    BY <1>1, <2>1 DEF msc_event_cb, IInv, TypeOK, BusTypes
  <2>3. msc_cb' \in Progress({"idle", "send"}) /\ msc_cb'.type # "none"
    BY <1>1, <2>1 DEF msc_event_cb, Message, Progress
  <2>4. DriveTypes' /\ Io' /\ Sleepers'
    BY <1>1, <2>3 DEF msc_event_cb, IInv, TypeOK, DriveTypes, Io, Sleepers, WaiterNotMissed, drive
  <2> QED
    BY <1>1, <2>2, <2>4, OperationsKept, HostKept DEF msc_event_cb, IInv, TypeOK, web
<1>2. CASE SendToWorker
  <2>1. BusTypes'
    BY <1>2 DEF SendToWorker, ReleasePause, IInv, TypeOK, BusTypes, bus
  <2>2. s_msc_queue' \in Seq(Message) /\ Len(s_msc_queue') <= QueueLength
    <3>1. [type |-> msc_cb.type, id |-> msc_cb.id] \in Message
      BY <1>2 DEF SendToWorker, IInv, TypeOK, DriveTypes, Progress, Message
    <3>2. s_msc_queue \in Seq(Message) /\ Len(s_msc_queue) <= QueueLength
      BY DEF IInv, TypeOK, DriveTypes
    <3>3. \A e \in Message : /\ Append(s_msc_queue, e) \in Seq(Message)
                            /\ Len(Append(s_msc_queue, e)) = Len(s_msc_queue) + 1
      BY <3>2, SequenceTypes
    <3>4. Len(s_msc_queue) \in Nat
      BY <3>2
    <3> QED
      BY <1>2, <3>1, <3>2, <3>3, <3>4, FirmwareAssumption DEF SendToWorker, FirmwareAssumption
  <2>3. DriveTypes' /\ Io' /\ Sleepers'
    BY <1>2, <2>2, EmptyTypes DEF SendToWorker, Quiet, IInv, TypeOK, DriveTypes, Io, Sleepers,
       WaiterNotMissed, drive
  <2> QED
    BY <1>2, <2>1, <2>3, OperationsKept, HostKept DEF SendToWorker, IInv, TypeOK, web
<1> QED
  BY <1>1, <1>2 DEF MscStep

\* Where the worker may go, and what it keeps on the way.
LEMMA WorkerMoves ==
  ASSUME IInv, NEW at \in WorkerPlaces, WorkerAt(at)
  PROVE  /\ worker' \in Progress(WorkerPlaces)
         /\ worker'.at = at /\ worker'.id = worker.id /\ worker.id \in Ids
BY DEF WorkerAt, IInv, TypeOK, DriveTypes, Progress

LEMMA TakeMessageStep ==
  ASSUME IInv, TakeMessage
  PROVE  IInv'
<1>1. s_msc_queue \in Seq(Message) /\ s_msc_queue # <<>> /\ Len(s_msc_queue) <= QueueLength
  BY DEF IInv, TypeOK, DriveTypes, TakeMessage
<1>2. Head(s_msc_queue) \in Message /\ s_msc_queue' \in Seq(Message)
      /\ Len(s_msc_queue') <= QueueLength
  BY <1>1, SequenceTypes, FirmwareAssumption DEF TakeMessage, FirmwareAssumption
<1>3. worker' \in Progress(WorkerPlaces) /\ worker'.at \in {"idle", "lock", "gone"}
  BY <1>2, EmptyTypes DEF TakeMessage, Progress, WorkerPlaces, Message, Quiet
<1>4. DriveTypes' /\ Io' /\ Sleepers'
  BY <1>2, <1>3 DEF TakeMessage, IInv, TypeOK, DriveTypes, Io, Sleepers, WaiterNotMissed, drive
<1> QED
  BY <1>4, BusKept, OperationsKept, HostKept DEF TakeMessage, IInv, TypeOK, web, bus, pause

LEMMA WorkerLocksStep ==
  ASSUME IInv, WorkerLocks
  PROVE  IInv'
<1>1. /\ worker' \in Progress(WorkerPlaces)
      /\ \/ worker'.at = "cleanup" /\ s_io_mutex = Free /\ s_io_mutex' = Worker
         \/ worker'.at = "release_pause" /\ s_io_mutex' = s_io_mutex
  BY WorkerMoves DEF WorkerLocks, WorkerPlaces
<1>2. DriveTypes' /\ Io' /\ Sleepers'
  BY <1>1, FirmwareAssumption DEF FirmwareAssumption, WorkerLocks, IInv, TypeOK, DriveTypes, Io,
     Sleepers, WaiterNotMissed, drive, driver
<1> QED
  BY <1>2, BusKept, OperationsKept, HostKept DEF WorkerLocks, IInv, TypeOK, web, bus, pause, driver

LEMMA CleanUpStep ==
  ASSUME IInv, CleanUp
  PROVE  IInv'
<1>1. /\ worker' \in Progress(WorkerPlaces)
      /\ \/ worker.at = "cleanup" /\ worker'.at = "install"
         \/ worker.at = "lock_gone" /\ worker'.at = "release_pause" /\ s_io_mutex = Free
  BY WorkerMoves DEF CleanUp, WorkerPlaces
<1>2. s_io_mutex \notin Tasks
  BY <1>1, FirmwareAssumption DEF FirmwareAssumption, IInv, Io
<1>3. DriveTypes' /\ Io' /\ Sleepers'
  BY <1>1, <1>2, EmptyTypes, FirmwareAssumption DEF FirmwareAssumption, CleanUp, cleanup_msc_locked,
     IInv, TypeOK, DriveTypes, Io, Sleepers, WaiterNotMissed, driver, HasIo
<1> QED
  BY <1>3, BusKept, OperationsKept, HostKept DEF CleanUp, IInv, TypeOK, web, bus, pause, driver

LEMMA InstallStep ==
  ASSUME IInv, Install
  PROVE  IInv'
<1>1. /\ worker' \in Progress(WorkerPlaces) /\ s_msc_device' \in Ids
      /\ s_io_mutex = Worker /\ worker.at = "install"
      /\ \/ worker'.at = "mount" /\ s_io_mutex' = s_io_mutex
         \/ worker'.at = "release_pause" /\ s_io_mutex' = Free
  BY WorkerMoves DEF Install, WorkerPlaces, IInv, TypeOK, DriveTypes, Io
<1>2. DriveTypes' /\ Io' /\ Sleepers'
  BY <1>1, FirmwareAssumption DEF FirmwareAssumption, Install, IInv, TypeOK, DriveTypes, Io,
     Sleepers, WaiterNotMissed, driver, HasIo
<1> QED
  BY <1>2, BusKept, OperationsKept, HostKept DEF Install, IInv, TypeOK, web, bus, pause, driver

LEMMA MountStep ==
  ASSUME IInv, Mount
  PROVE  IInv'
<1>1. /\ worker' \in Progress(WorkerPlaces) /\ s_msc_device' \in Ids
      /\ s_io_mutex = Worker /\ worker.at = "mount"
      /\ \/ worker'.at = "mounted" /\ s_io_mutex' = s_io_mutex
         \/ /\ worker'.at = "release_pause" /\ s_io_mutex' = Free
            /\ s_msc_ready' = s_msc_ready
  BY WorkerMoves, EmptyTypes DEF Mount, MountFails, WorkerPlaces, IInv, TypeOK, DriveTypes, Io
<1>2. /\ s_vfs_handle' \in BOOLEAN /\ s_msc_ready' \in BOOLEAN
      /\ s_bootsel_family' \in Families \cup {Unknown}
  BY DEF Mount, MountFails, IInv, TypeOK, BusTypes, DriveTypes, Device
<1>3. DriveTypes' /\ Io' /\ Sleepers'
  BY <1>1, <1>2, FirmwareAssumption DEF FirmwareAssumption, Mount, IInv, TypeOK, DriveTypes, Io,
     Sleepers, WaiterNotMissed, driver, HasIo
<1> QED
  BY <1>3, BusKept, OperationsKept, HostKept DEF Mount, IInv, TypeOK, web, bus, pause, driver

LEMMA AnnounceStep ==
  ASSUME IInv, AnnounceMounted \/ AnnounceGone
  PROVE  IInv'
<1>1. CASE AnnounceMounted
  <2>1. DriveTypes' /\ Io' /\ Sleepers'
    BY <1>1, EmptyTypes, FirmwareAssumption DEF FirmwareAssumption, AnnounceMounted, IInv, TypeOK,
       DriveTypes, Io, Sleepers, WaiterNotMissed, driver, HasIo, Quiet
  <2> QED
    BY <1>1, <2>1, BusKept, OperationsKept, HostKept
    DEF AnnounceMounted, IInv, TypeOK, web, bus, pause, driver
<1>2. CASE AnnounceGone
  <2>1. worker' \in Progress(WorkerPlaces) /\ worker'.at = "lock_gone"
    BY <1>2, WorkerMoves DEF AnnounceGone, WorkerPlaces
  <2>2. DriveTypes' /\ Io' /\ Sleepers'
    BY <1>2, <2>1 DEF AnnounceGone, IInv, TypeOK, DriveTypes, Io, Sleepers, WaiterNotMissed, driver
  <2> QED
    BY <1>2, <2>2, BusKept, OperationsKept, HostKept
    DEF AnnounceGone, IInv, TypeOK, web, bus, pause, driver
<1> QED
  BY <1>1, <1>2

LEMMA WorkerReleasesPauseStep ==
  ASSUME IInv, WorkerReleasesPause
  PROVE  IInv'
<1>1. BusTypes'
  BY DEF WorkerReleasesPause, ReleasePause, IInv, TypeOK, BusTypes, bus
<1>2. DriveTypes' /\ Io' /\ Sleepers'
  BY EmptyTypes DEF WorkerReleasesPause, Quiet, IInv, TypeOK, DriveTypes, Io, Sleepers,
     WaiterNotMissed, drive, driver
<1> QED
  BY <1>1, <1>2, OperationsKept, HostKept DEF WorkerReleasesPause, IInv, TypeOK, web, driver

LEMMA WorkerSteps ==
  ASSUME IInv, WorkerStep
  PROVE  IInv'
BY TakeMessageStep, WorkerLocksStep, CleanUpStep, InstallStep, MountStep, AnnounceStep,
   WorkerReleasesPauseStep DEF WorkerStep

-----------------------------------------------------------------------------
(* A restart.                                                               *)

LEMMA RestartStep ==
  ASSUME IInv, Restart
  PROVE  IInv'
<1>1. BusTypes'
  <2>1. attached \in Device
    BY DEF IInv, TypeOK, BusTypes
  <2>2. cdc_new' \in Seq(Device)
    BY <2>1, EmptyTypes DEF Restart
  <2>3. msc_new' \in Seq(Message)
    <3>1. Connect(attached) \in Message
      BY <2>1 DEF Connect, Device, Message
    <3> QED
      BY <3>1, EmptyTypes DEF Restart
  <2>4. cdc' \in [at : {"down", "opening", "up"}, id : Ids]
    BY BootValues, EmptyTypes DEF Restart
  <2> QED
    BY <2>2, <2>3, <2>4, EmptyTypes DEF Restart, IInv, TypeOK, BusTypes
<1>2. DriveTypes'
  <2>1. /\ msc_cb' \in Progress({"idle", "send"}) /\ worker' \in Progress(WorkerPlaces)
        /\ msc_cb'.at = "idle"
    BY BootValues, EmptyTypes DEF Restart, Quiet
  <2>2. s_msc_queue' \in Seq(Message) /\ Len(s_msc_queue') <= QueueLength
    BY BootValues, EmptyTypes, FirmwareAssumption DEF Restart, FirmwareAssumption
  <2> QED
    BY EmptyTypes, <2>1, <2>2 DEF Restart, DriveTypes
<1>3. OperationTypes'
  <2>1. task' \in [Tasks -> TaskRecord]
    BY BootValues, EmptyTypes DEF Restart
  <2>2. /\ httpd' \in [at : {"idle", "decide", "erase", "receive", "start", "ota"},
                      op : Requests \cup {"none"}]
        /\ staged' \in [valid : BOOLEAN, family : Families \cup {Unknown}]
    BY BootValues DEF Restart
  <2> QED
    BY <2>1, <2>2 DEF Restart, IInv, TypeOK, OperationTypes
<1>4. \A t \in Tasks : task'[t].at = "none" /\ ~task'[t].asleep
  BY BootValues DEF Restart, NoTask
<1>5. httpd'.at = "idle" /\ httpd'.op = "none" /\ ~staged'.valid /\ worker'.at = "idle"
  BY BootValues DEF Restart, Quiet
<1>6. Gate' /\ Roles' /\ Staging' /\ Outcome'
  BY <1>4, <1>5 DEF Restart, Gate, Roles, Entering, Staging, Outcome, Over
<1>7. Io' /\ Sleepers'
  BY <1>4, <1>5, FirmwareAssumption DEF Restart, Io, Sleepers, WaiterNotMissed, HasIo,
     FirmwareAssumption
<1>8. AtHost'
  BY EmptyTypes DEF Restart, AtHost, PicobootRecord, Reboots!Idle, Reboots!Transfers
<1> QED
  BY <1>1, <1>2, <1>3, <1>6, <1>7, <1>8 DEF IInv, TypeOK

-----------------------------------------------------------------------------
(* The operations' tasks.                                                   *)

\* One task goes on, and is not asleep after it.
Goes(t) ==
    /\ task' \in [Tasks -> TaskRecord]
    /\ task[t].at # "none" /\ task'[t].at # "none"
    /\ task'[t].op = task[t].op /\ ~task'[t].asleep
    /\ task'[t].at \in Entering => task[t].at \in Entering
    /\ \A u \in Tasks \ {t} : task'[u] = task[u]

LEMMA GoesTo ==
  ASSUME IInv, NEW t \in Tasks, NEW at \in TaskPlaces \ {"none"}, Goto(t, at),
         task[t].at # "none", ~task[t].asleep, at \in Entering => task[t].at \in Entering
  PROVE  Goes(t) /\ task'[t].at = at /\ task'[t].dev = task[t].dev
BY DEF Goto, Goes, IInv, TypeOK, OperationTypes, TaskRecord

\* It is the only one, the gate is taken, and no handler runs.
LEMMA Alone ==
  ASSUME IInv, NEW t \in Tasks, task[t].at # "none"
  PROVE  /\ ~s_operation_gate /\ httpd.at = "idle" /\ httpd.op = "none"
         /\ \A u \in Tasks \ {t} : task[u].at = "none" /\ ~task[u].asleep
         /\ task[t].at \notin Waits => ~task[t].asleep
BY DEF IInv, Gate, Sleepers, Waits

LEMMA GateKept ==
  ASSUME IInv, NEW t \in Tasks, Goes(t),
         UNCHANGED <<s_operation_gate, httpd, stage, staged, restarting>>, busy' \in BOOLEAN
  PROVE  OperationTypes' /\ Gate' /\ Roles' /\ Staging' /\ Sleepers'
<1>1. OperationTypes'
  BY DEF IInv, TypeOK, OperationTypes, Goes
<1>2. Gate' /\ Roles' /\ Staging'
  BY Alone DEF IInv, Gate, Roles, Staging, Goes
<1>3. Sleepers'
  BY Alone DEF Sleepers, WaiterNotMissed, Goes
<1> QED
  BY <1>1, <1>2, <1>3

LEMMA OutcomeKept ==
  ASSUME IInv, NEW t \in Tasks, Goes(t), UNCHANGED <<s_operation_gate, busy, restarting>>,
         task'[t].at \in Over <=> task[t].at \in Over
  PROVE  Outcome'
BY DEF IInv, Outcome, Goes

LEMMA IoKept ==
  ASSUME IInv, NEW t \in Tasks, Goes(t), task[t].at \notin HasIo, task'[t].at \notin HasIo,
         UNCHANGED <<s_io_mutex, worker, s_msc_device, s_vfs_handle>>
  PROVE  Io'
BY DEF IInv, Io, Goes, HasIo

LEMMA DriveTypesKept ==
  ASSUME IInv, UNCHANGED <<msc_cb, s_msc_queue, worker, drive, s_io_mutex>>
  PROVE  DriveTypes'
BY DEF IInv, TypeOK, DriveTypes, drive

\* Nothing but the task's place has changed.
LEMMA PlaceOnly ==
  ASSUME IInv, NEW t \in Tasks, Goes(t), task[t].at \notin HasIo, task'[t].at \notin HasIo,
         task'[t].at \in Over <=> task[t].at \in Over,
         UNCHANGED <<pause, drive, s_io_mutex, s_operation_gate, busy>>, OthersAsTheyWere
  PROVE  IInv'
<1>1. busy' \in BOOLEAN
  BY DEF IInv, TypeOK, OperationTypes
<1> QED
  BY <1>1, GateKept, OutcomeKept, IoKept, DriveTypesKept, BusKept, HostKept
  DEF OthersAsTheyWere, IInv, TypeOK, web, driver, drive, bus, pause

LEMMA Bootloader ==
  ASSUME IInv, NEW t \in Tasks, enter_bootloader(t) \/ Fallback(t)
  PROVE  IInv'
<1>1. task[t].op \in {"boot", "flash", "nuke"} /\ ~task[t].asleep
  BY Alone DEF IInv, Roles, Entering, enter_bootloader, Fallback, Waits
<1>2. Entered(task[t].op) \in {"done", "family", "hold"}
  BY <1>1 DEF Entered
<1>3. \E at \in {"done", "family", "hold", "enter_cdc", "pause", "wait_boot", "give_up"} : Goto(t, at)
  BY <1>2 DEF enter_bootloader, Fallback
<1>4. PICK at \in {"done", "family", "hold", "enter_cdc", "pause", "wait_boot", "give_up"} :
        Goto(t, at)
  BY <1>3
<1>5. at \in TaskPlaces \ {"none"} /\ task[t].at \in {"enter", "enter_cdc", "fallback"}
  BY DEF TaskPlaces, Waits, enter_bootloader, Fallback
<1>6. Goes(t) /\ task'[t].at = at
  BY <1>1, <1>4, <1>5, GoesTo DEF Entering
<1> QED
  BY <1>5, <1>6, PlaceOnly DEF HasIo, Over, enter_bootloader, Fallback

LEMMA PauseSteps ==
  ASSUME IInv, NEW t \in Tasks, PauseReconnect(t) \/ Unpause(t)
  PROVE  IInv'
<1>1. \/ task[t].at = "pause" /\ Goto(t, "clear")
      \/ task[t].at = "give_up" /\ Goto(t, "done")
      \/ task[t].at = "last_unpause" /\ Goto(t, "give")
  BY DEF PauseReconnect, Unpause
<1>2. ~task[t].asleep /\ {"clear", "done", "give"} \subseteq TaskPlaces \ {"none"}
  BY <1>1, Alone DEF Waits, TaskPlaces
<1>3. Goes(t) /\ (task'[t].at \in Over <=> task[t].at \in Over)
  BY <1>1, <1>2, GoesTo DEF Entering, Over
<1>4. task[t].at \notin HasIo /\ task'[t].at \notin HasIo
  BY <1>1, <1>2, GoesTo DEF Entering, HasIo
<1>5. BusTypes' /\ busy' \in BOOLEAN
  BY DEF PauseReconnect, Unpause, OthersAsTheyWere, IInv, TypeOK, BusTypes, OperationTypes, bus
<1> QED
  BY <1>3, <1>4, <1>5, GateKept, OutcomeKept, IoKept, DriveTypesKept, HostKept
  DEF PauseReconnect, Unpause, OthersAsTheyWere, IInv, TypeOK, web, driver, drive

LEMMA EventSteps ==
  ASSUME IInv, NEW t \in Tasks, ClearEvents(t) \/ ClearGone(t) \/ ClearReady(t)
  PROVE  IInv'
<1>1. \/ task[t].at = "clear" /\ Goto(t, "wait_touch")
      \/ task[t].at = "clear_gone" /\ Goto(t, "lock")
      \/ task[t].at = "clear_ready" /\ Goto(t, "wait_nuke")
  BY DEF ClearEvents, ClearGone, ClearReady
<1>2. ~task[t].asleep /\ {"wait_touch", "lock", "wait_nuke"} \subseteq TaskPlaces \ {"none"}
  BY <1>1, Alone DEF Waits, TaskPlaces
<1>3. Goes(t) /\ (task'[t].at \in Over <=> task[t].at \in Over)
  BY <1>1, <1>2, GoesTo DEF Entering, Over
<1>4. task[t].at \notin HasIo /\ task'[t].at \notin HasIo
  BY <1>1, <1>2, GoesTo DEF Entering, HasIo
<1>5. DriveTypes' /\ busy' \in BOOLEAN
  BY DEF ClearEvents, ClearGone, ClearReady, OthersAsTheyWere, IInv, TypeOK, DriveTypes,
     OperationTypes, driver
<1> QED
  BY <1>3, <1>4, <1>5, GateKept, OutcomeKept, IoKept, BusKept, HostKept
  DEF ClearEvents, ClearGone, ClearReady, OthersAsTheyWere, IInv, TypeOK, web, driver, bus, pause

LEMMA WaitSteps ==
  ASSUME IInv, NEW t \in Tasks, wait_for_msc(t) \/ wait_for_msc_returns(t)
  PROVE  IInv'
<1>1. /\ task[t].at \in Waits /\ task[t] \in TaskRecord
      /\ task[t].at # "wait_nuke" => task[t].op \in {"boot", "flash", "nuke"}
  BY DEF wait_for_msc, wait_for_msc_returns, IInv, TypeOK, OperationTypes, Roles, Entering, Waits
<1>2. CASE task' = [task EXCEPT ![t].asleep = TRUE] /\ ~s_msc_ready
  <2>1. /\ task' \in [Tasks -> TaskRecord] /\ task'[t].at = task[t].at
        /\ task'[t].op = task[t].op /\ \A u \in Tasks \ {t} : task'[u] = task[u]
    BY <1>2 DEF IInv, TypeOK, OperationTypes, TaskRecord
  <2>2. UNCHANGED <<pause, drive, s_io_mutex, s_operation_gate, busy>> /\ OthersAsTheyWere
    BY DEF wait_for_msc, wait_for_msc_returns
  <2>3. OperationTypes' /\ Gate' /\ Roles' /\ Staging' /\ Outcome'
    BY <2>1, <2>2 DEF OthersAsTheyWere, IInv, TypeOK, OperationTypes, Gate, Roles, Staging, Outcome,
       web
  <2>4. Io' /\ Sleepers'
    BY <1>1, <1>2, <2>1, <2>2 DEF OthersAsTheyWere, IInv, Io, Sleepers, WaiterNotMissed, drive
  <2> QED
    BY <2>2, <2>3, <2>4, DriveTypesKept, BusKept, HostKept
    DEF OthersAsTheyWere, IInv, TypeOK, driver, bus, pause
<1>3. CASE task' = [task EXCEPT ![t] = Arrived(@)]
  <2>1. /\ Arrived(task[t]) \in TaskRecord /\ ~Arrived(task[t]).asleep
        /\ Arrived(task[t]).op = task[t].op
        /\ Arrived(task[t]).at \in {"unhold", "done", "family", "hold"}
    BY <1>1 DEF Arrived, Entered, TaskRecord, TaskPlaces, Waits
  <2>2. Goes(t) /\ task'[t].at \in {"unhold", "done", "family", "hold"}
    BY <1>1, <1>3, <2>1 DEF Goes, IInv, TypeOK, OperationTypes, Entering, Waits
  <2> QED
    BY <1>1, <2>2, PlaceOnly DEF HasIo, Over, Waits, wait_for_msc, wait_for_msc_returns
<1>4. CASE task' = [task EXCEPT ![t] = Missed(@)]
  <2>1. /\ Missed(task[t]) \in TaskRecord /\ ~Missed(task[t]).asleep
        /\ Missed(task[t]).op = task[t].op
        /\ Missed(task[t]).at \in {"unhold", "fallback", "give_up"}
        /\ Missed(task[t]).at = "fallback" => task[t].at = "wait_touch"
    BY <1>1 DEF Missed, TaskRecord, TaskPlaces, Waits
  <2>2. Goes(t) /\ task'[t].at \in {"unhold", "fallback", "give_up"}
    BY <1>1, <1>4, <2>1 DEF Goes, IInv, TypeOK, OperationTypes, Entering, Waits
  <2> QED
    BY <1>1, <2>2, PlaceOnly DEF HasIo, Over, Waits, wait_for_msc, wait_for_msc_returns
<1> QED
  BY <1>2, <1>3, <1>4 DEF wait_for_msc, wait_for_msc_returns

LEMMA Checks ==
  ASSUME IInv, NEW t \in Tasks, CheckFamily(t) \/ CheckReady(t) \/ WaitGone(t)
  PROVE  IInv'
<1>1. CASE CheckFamily(t) \/ WaitGone(t)
  <2>1. PICK at \in {"clear_gone", "clear_ready", "done"} : Goto(t, at)
    BY <1>1 DEF CheckFamily, WaitGone
  <2>2. /\ task[t].at \in {"family", "wait_gone"} /\ ~task[t].asleep
        /\ at \in TaskPlaces \ {"none"}
    BY <1>1, Alone DEF CheckFamily, WaitGone, Waits, TaskPlaces
  <2>3. Goes(t) /\ task'[t].at = at
    BY <2>1, <2>2, GoesTo DEF Entering
  <2> QED
    BY <1>1, <2>2, <2>3, PlaceOnly DEF CheckFamily, WaitGone, HasIo, Over
<1>2. CASE CheckReady(t)
  <2>1. PICK at \in {"give", "last_unpause"} : Goto(t, at)
    BY <1>2 DEF CheckReady
  <2>2. task[t].at = "check_ready" /\ ~task[t].asleep /\ at \in TaskPlaces \ {"none"}
    BY <1>2, Alone DEF CheckReady, Waits, TaskPlaces
  <2>3. Goes(t) /\ task'[t].at = at
    BY <2>1, <2>2, GoesTo DEF Entering
  <2> QED
    BY <1>2, <2>2, <2>3, PlaceOnly DEF CheckReady, HasIo, Over
<1> QED
  BY <1>1, <1>2

LEMMA Holds ==
  ASSUME IInv, NEW t \in Tasks, Hold(t) \/ Unhold(t)
  PROVE  IInv'
<1>1. PICK at \in {"clear_gone", "give", "check_ready", "done", "not_back"} :
        /\ Goto(t, at)
        /\ \/ task[t].at \in {"hold", "unhold"} /\ at \in {"clear_gone", "done", "not_back"}
           \/ task[t].at \in {"unhold_busy", "unhold_failed"} /\ at \in {"give", "check_ready"}
  BY DEF Hold, Unhold
<1>2. ~task[t].asleep /\ at \in TaskPlaces \ {"none"}
  BY <1>1, Alone DEF Waits, TaskPlaces
<1>3. Goes(t) /\ task'[t].at = at
  BY <1>1, <1>2, GoesTo DEF Entering
<1>4. (task'[t].at \in Over <=> task[t].at \in Over) /\ task[t].at \notin HasIo
      /\ task'[t].at \notin HasIo
  BY <1>1, <1>3 DEF Over, HasIo
<1>5. BusTypes' /\ busy' \in BOOLEAN
  BY EmptyTypes DEF Hold, Unhold, OthersAsTheyWere, IInv, TypeOK, BusTypes, OperationTypes, bus
<1> QED
  BY <1>3, <1>4, <1>5, GateKept, OutcomeKept, IoKept, DriveTypesKept, HostKept
  DEF Hold, Unhold, OthersAsTheyWere, IInv, TypeOK, web, driver, drive

LEMMA LockIoStep ==
  ASSUME IInv, NEW t \in Tasks, LockIo(t)
  PROVE  IInv'
<1>1. PICK at \in {"reboot", "prepare", "busy_nuke", "done"} :
        /\ Goto(t, at)
        /\ \/ s_io_mutex = Free /\ s_io_mutex' = t /\ at \in {"reboot", "prepare"}
           \/ s_io_mutex' = s_io_mutex /\ at \in {"busy_nuke", "done"}
  BY DEF LockIo, Busy
<1>2. task[t].at = "lock" /\ ~task[t].asleep /\ at \in TaskPlaces \ {"none"}
  BY Alone DEF LockIo, Waits, TaskPlaces
<1>3. Goes(t) /\ task'[t].at = at
  BY <1>1, <1>2, GoesTo DEF Entering
<1>4. Outcome'
  BY <1>2, <1>3, OutcomeKept DEF Over, LockIo, OthersAsTheyWere, web
<1>5. /\ worker' = worker /\ s_msc_device' = s_msc_device /\ s_vfs_handle' = s_vfs_handle
      /\ busy' \in BOOLEAN
  BY DEF LockIo, OthersAsTheyWere, drive, IInv, TypeOK, OperationTypes
<1>6. Io'
  BY <1>1, <1>2, <1>3, <1>5, Alone, FirmwareAssumption
  DEF FirmwareAssumption, IInv, Io, HasIo, Goes
<1>7. DriveTypes'
  BY <1>1 DEF LockIo, OthersAsTheyWere, IInv, TypeOK, DriveTypes, drive, driver
<1> QED
  BY <1>3, <1>4, <1>5, <1>6, <1>7, GateKept, BusKept, HostKept
  DEF LockIo, OthersAsTheyWere, IInv, TypeOK, web, driver, bus, pause

LEMMA PrepareStep ==
  ASSUME IInv, NEW t \in Tasks, prepare_raw_msc_io(t)
  PROVE  IInv'
<1>1. task[t].at = "prepare" /\ ~task[t].asleep /\ s_io_mutex = t
  BY Alone DEF prepare_raw_msc_io, Waits, IInv, Io, HasIo
<1>2. /\ Goes(t) /\ task'[t].at \in {"write", "unlock_failed"}
      /\ task'[t].at = "write" => task'[t].dev = s_msc_device /\ ~s_vfs_handle'
      /\ s_vfs_handle' \in BOOLEAN
  <2>1. CASE Goto(t, "unlock_failed") /\ UNCHANGED s_vfs_handle
    BY <1>1, <2>1, GoesTo DEF Entering, TaskPlaces, IInv, TypeOK, DriveTypes
  <2>2. CASE /\ s_vfs_handle' = FALSE
             /\ task' = [task EXCEPT ![t].at = "write", ![t].block = 1, ![t].dev = s_msc_device]
    <3>1. 1 \in 0..Blocks /\ s_msc_device \in Ids /\ "write" \in TaskPlaces
      BY FirmwareAssumption DEF FirmwareAssumption, IInv, TypeOK, DriveTypes, TaskPlaces
    <3>2. task[t] \in TaskRecord /\ task \in [Tasks -> TaskRecord]
      BY DEF IInv, TypeOK, OperationTypes
    <3>3. PICK w \in TaskRecord : /\ w.at = "write" /\ w.dev = s_msc_device
                                 /\ w.op = task[t].op /\ w.asleep = task[t].asleep
                                 /\ task' = [task EXCEPT ![t] = w]
      <4> DEFINE w == [task[t] EXCEPT !.at = "write", !.block = 1, !.dev = s_msc_device]
      <4>1. w \in TaskRecord
        BY <3>1, <3>2 DEF TaskRecord
      <4>2. w.at = "write" /\ w.dev = s_msc_device /\ w.op = task[t].op /\ w.asleep = task[t].asleep
        BY <3>2 DEF TaskRecord
      <4>3. task' = [task EXCEPT ![t] = w]
        BY <2>2, <3>2 DEF TaskRecord
      <4> HIDE DEF w
      <4> QED
        BY <4>1, <4>2, <4>3
    <3>4. task'[t] = w /\ task' \in [Tasks -> TaskRecord] /\ \A u \in Tasks \ {t} : task'[u] = task[u]
      BY <3>2, <3>3
    <3> QED
      BY <1>1, <2>2, <3>3, <3>4 DEF Goes, Entering
  <2> QED
    BY <2>1, <2>2 DEF prepare_raw_msc_io
<1>3. Outcome'
  BY <1>1, <1>2, OutcomeKept DEF Over, prepare_raw_msc_io, OthersAsTheyWere, web
<1>4. /\ worker' = worker /\ s_msc_device' = s_msc_device /\ s_io_mutex' = s_io_mutex
      /\ busy' \in BOOLEAN
  BY DEF prepare_raw_msc_io, OthersAsTheyWere, IInv, TypeOK, OperationTypes
<1>5. Io'
  BY <1>1, <1>2, <1>4, Alone, FirmwareAssumption DEF FirmwareAssumption, IInv, Io, HasIo, Goes
<1>6. DriveTypes'
  BY <1>2 DEF prepare_raw_msc_io, OthersAsTheyWere, IInv, TypeOK, DriveTypes, driver
<1> QED
  BY <1>2, <1>3, <1>4, <1>5, <1>6, GateKept, BusKept, HostKept
  DEF prepare_raw_msc_io, OthersAsTheyWere, IInv, TypeOK, web, driver, bus, pause

\* The task keeps the mutex, its drive and what it has written so far.
LEMMA HolderMoves ==
  ASSUME IInv, NEW t \in Tasks, Goes(t), {task[t].at, task'[t].at} \subseteq HasIo,
         task'[t].at \in {"write", "last_block"} =>
            task[t].at \in {"write", "last_block"} /\ task'[t].dev = task[t].dev,
         UNCHANGED <<bus, cdc, pause, drive, msc_cb, s_msc_queue, worker, s_io_mutex,
                     s_operation_gate, web, busy>>
  PROVE  /\ BusTypes' /\ DriveTypes' /\ OperationTypes'
         /\ Gate' /\ Io' /\ Sleepers' /\ Roles' /\ Outcome' /\ Staging'
<1>1. task[t].at \notin Over /\ task'[t].at \notin Over /\ busy' \in BOOLEAN
  BY DEF HasIo, Over, IInv, TypeOK, OperationTypes
<1>2. Io'
  <2>1. \A u \in Tasks : s_io_mutex' = u <=> task'[u].at \in HasIo
    BY DEF IInv, Io, Goes
  <2>2. s_io_mutex' = Worker <=> worker'.at \in {"cleanup", "install", "mount", "mounted"}
    BY DEF IInv, Io
  <2>3. \A u \in Tasks : task'[u].at \in {"write", "last_block"} =>
            s_msc_device' = task'[u].dev /\ ~s_vfs_handle'
    BY DEF IInv, Io, Goes, drive
  <2> QED
    BY <2>1, <2>2, <2>3 DEF Io
<1> QED
  BY <1>1, <1>2, GateKept, OutcomeKept, DriveTypesKept, BusKept DEF web

LEMMA NextBlockKeeps ==
  ASSUME NEW w \in TaskRecord, w.at = "write"
  PROVE  /\ NextBlock(w) \in TaskRecord
         /\ NextBlock(w).at \in {"write", "unlock"}
         /\ NextBlock(w).op = w.op /\ NextBlock(w).dev = w.dev /\ NextBlock(w).asleep = w.asleep
<1>1. CASE w.block < Blocks
  <2>1. w.block + 1 \in 0..Blocks
    BY <1>1, FirmwareAssumption DEF TaskRecord, FirmwareAssumption
  <2>2. NextBlock(w) = [w EXCEPT !.block = w.block + 1]
    BY <1>1 DEF NextBlock
  <2> QED
    BY <2>1, <2>2 DEF TaskRecord
<1>2. CASE ~(w.block < Blocks)
  BY <1>2 DEF NextBlock, TaskRecord, TaskPlaces
<1> QED
  BY <1>1, <1>2

LEMMA WriteSteps ==
  ASSUME IInv, NEW t \in Tasks, raw_msc_write_uf2_block(t) \/ LastBlockTaken(t)
  PROVE  IInv'
<1>1. /\ task[t].at \in {"write", "last_block"} /\ ~task[t].asleep
      /\ task[t] \in TaskRecord /\ task \in [Tasks -> TaskRecord]
  BY Alone DEF raw_msc_write_uf2_block, LastBlockTaken, Waits, IInv, TypeOK, OperationTypes
<1>2. /\ Goes(t) /\ task'[t].at \in {"write", "last_block", "unlock", "unlock_failed"}
      /\ task'[t].dev = task[t].dev
  <2>1. CASE \E at \in {"last_block", "unlock", "unlock_failed"} : Goto(t, at)
    BY <1>1, <2>1, GoesTo DEF Entering, TaskPlaces
  <2>2. CASE task[t].at = "write" /\ task' = [task EXCEPT ![t] = NextBlock(@)]
    <3>1. task'[t] = NextBlock(task[t]) /\ \A u \in Tasks \ {t} : task'[u] = task[u]
      BY <1>1, <2>2
    <3>2. task' \in [Tasks -> TaskRecord]
      BY <1>1, <2>2, NextBlockKeeps
    <3> QED
      BY <1>1, <2>2, <3>1, <3>2, NextBlockKeeps DEF Goes, Entering
  <2> QED
    BY <2>1, <2>2 DEF raw_msc_write_uf2_block, LastBlockTaken
<1>3. UNCHANGED <<bus, cdc, pause, drive, msc_cb, s_msc_queue, worker, s_io_mutex,
                  s_operation_gate, web, busy, picoboot>>
  BY DEF raw_msc_write_uf2_block, LastBlockTaken, OthersAsTheyWere, driver
<1>4. {task[t].at, task'[t].at} \subseteq HasIo
  BY <1>1, <1>2 DEF HasIo
<1> QED
  BY <1>1, <1>2, <1>3, <1>4, HolderMoves, HostKept DEF IInv, TypeOK

LEMMA RebootStep ==
  ASSUME IInv, NEW t \in Tasks, Reboot(t)
  PROVE  IInv'
<1>1. task[t].at = "reboot" /\ ~task[t].asleep
  BY Alone DEF Reboot, Waits
<1>2. AtHost'
  BY PicobootStep, HostKept DEF Reboot
<1>3. CASE task' = task
  <2>1. UNCHANGED <<bus, cdc, pause, drive, msc_cb, s_msc_queue, worker, s_io_mutex,
                    s_operation_gate, httpd, stage, staged, restarting, task, busy>>
    BY <1>3 DEF Reboot, web
  <2> QED
    BY <1>2, <2>1, OperationsKept, DriveKept, BusKept DEF IInv, TypeOK
<1>4. CASE \E at \in {"unlock", "unlock_failed"} : Goto(t, at)
  <2>1. Goes(t) /\ task'[t].at \in {"unlock", "unlock_failed"}
    BY <1>1, <1>4, GoesTo DEF Entering, TaskPlaces
  <2>2. {task[t].at, task'[t].at} \subseteq HasIo
    BY <1>1, <2>1 DEF HasIo
  <2> QED
    BY <1>2, <2>1, <2>2, HolderMoves DEF Reboot, IInv, TypeOK
<1> QED
  BY <1>3, <1>4 DEF Reboot

LEMMA UnlockStep ==
  ASSUME IInv, NEW t \in Tasks, UnlockIo(t)
  PROVE  IInv'
<1>1. task[t].at \in {"unlock", "unlock_failed"} /\ ~task[t].asleep /\ s_io_mutex = t
  BY Alone DEF UnlockIo, Waits, IInv, Io, HasIo
<1>2. PICK at \in {"wait_gone", "failed_nuke", "done"} : Goto(t, at)
  BY DEF UnlockIo
<1>3. Goes(t) /\ task'[t].at = at
  BY <1>1, <1>2, GoesTo DEF Entering, TaskPlaces
<1>4. Outcome' /\ busy' \in BOOLEAN
  BY <1>1, <1>3, OutcomeKept DEF Over, UnlockIo, OthersAsTheyWere, web, IInv, TypeOK, OperationTypes
<1>5. Io'
  <2>1. worker' = worker /\ s_io_mutex' = Free /\ at \notin HasIo
    BY DEF UnlockIo, OthersAsTheyWere, HasIo
  <2>2. \A u \in Tasks : task'[u].at \notin HasIo
    BY <1>1, <1>3, <2>1 DEF IInv, Io, Goes
  <2>3. worker.at \notin {"cleanup", "install", "mount", "mounted"}
    BY <1>1, FirmwareAssumption DEF IInv, Io, FirmwareAssumption
  <2> QED
    BY <2>1, <2>2, <2>3, FirmwareAssumption DEF FirmwareAssumption, Io, HasIo
<1>6. DriveTypes'
  BY DEF UnlockIo, OthersAsTheyWere, IInv, TypeOK, DriveTypes, drive, driver
<1> QED
  BY <1>3, <1>4, <1>5, <1>6, GateKept, BusKept, HostKept
  DEF UnlockIo, OthersAsTheyWere, IInv, TypeOK, web, driver, bus, pause

LEMMA DoneStep ==
  ASSUME IInv, NEW t \in Tasks, Done(t)
  PROVE  IInv'
<1>1. task[t].at \in {"done", "busy_nuke", "failed_nuke", "not_back"} /\ ~task[t].asleep
  BY Alone DEF Done, Waits
<1>2. AfterDone(task[t].at) \in {"give", "unhold_busy", "unhold_failed", "last_unpause"}
  BY <1>1 DEF AfterDone
<1>3. Goes(t) /\ task'[t].at \in {"give", "unhold_busy", "unhold_failed", "last_unpause"}
  BY <1>1, <1>2, GoesTo DEF Done, Entering, TaskPlaces
<1>4. Outcome'
  BY <1>1, <1>3, Alone DEF Done, Outcome, Over, Goes
<1>5. Io'
  BY <1>1, <1>3, IoKept DEF HasIo, Done, OthersAsTheyWere, drive
<1> QED
  BY <1>3, <1>4, <1>5, GateKept, DriveTypesKept, BusKept, HostKept
  DEF Done, OthersAsTheyWere, IInv, TypeOK, web, driver, drive, bus, pause

LEMMA GiveStep ==
  ASSUME IInv, NEW t \in Tasks, Give(t)
  PROVE  IInv'
<1>1. /\ task[t].at = "give" /\ ~busy /\ busy' = busy
      /\ UNCHANGED <<httpd, stage, staged, restarting>>
  BY DEF Give, IInv, Outcome, Over, OthersAsTheyWere, web
<1>2. /\ task' \in [Tasks -> TaskRecord] /\ task'[t] = NoTask
      /\ \A u \in Tasks \ {t} : task'[u] = task[u]
  BY EmptyTypes DEF Give, IInv, TypeOK, OperationTypes
<1>3. \A u \in Tasks : task'[u].at = "none" /\ ~task'[u].asleep
  BY <1>1, <1>2, Alone DEF NoTask
<1>4. OperationTypes'
  BY <1>1, <1>2 DEF Give, IInv, TypeOK, OperationTypes
<1>5. Gate' /\ Roles' /\ Outcome' /\ Staging' /\ Sleepers'
  BY <1>1, <1>3, Alone
  DEF Give, IInv, Gate, Roles, Entering, Outcome, Over, Staging, Sleepers, WaiterNotMissed
<1>6. Io'
  BY <1>1, <1>2, <1>3 DEF Give, OthersAsTheyWere, IInv, Io, HasIo, drive
<1> QED
  BY <1>4, <1>5, <1>6, DriveTypesKept, BusKept, HostKept
  DEF Give, OthersAsTheyWere, IInv, TypeOK, driver, drive, bus, pause

LEMMA TaskSteps ==
  ASSUME IInv, NEW t \in Tasks, TaskStep(t)
  PROVE  IInv'
BY Bootloader, PauseSteps, EventSteps, WaitSteps, Checks, Holds, LockIoStep, PrepareStep,
   WriteSteps, RebootStep, UnlockStep, DoneStep, GiveStep
DEF TaskStep

-----------------------------------------------------------------------------
(* The HTTP handlers.                                                       *)

\* A handler changes nothing of the bus, the drive and the host.
LEMMA HandlersLeave ==
  ASSUME IInv, HandlersOnly, OperationTypes', Gate', Io', Sleepers', Roles', Outcome', Staging'
  PROVE  IInv'
BY DriveTypesKept, BusKept, HostKept DEF HandlersOnly, IInv, TypeOK, driver

LEMMA NoTaskMoves ==
  ASSUME IInv, HandlersOnly, task' = task
  PROVE  Io' /\ Sleepers' /\ Roles'
BY DEF HandlersOnly, IInv, Io, Sleepers, Roles, WaiterNotMissed, drive

\* While a handler runs, no task does and the gate is taken.
LEMMA HandlerAlone ==
  ASSUME IInv, httpd.at # "idle"
  PROVE  ~s_operation_gate /\ \A u \in Tasks : task[u].at = "none" /\ ~task[u].asleep
BY DEF IInv, Gate, Sleepers, Waits

LEMMA RequestStep ==
  ASSUME IInv, NEW op \in Requests, Request(op)
  PROVE  IInv'
<1>1. /\ httpd.at = "idle" /\ \A u \in Tasks : task[u].at = "none"
      /\ httpd'.at = "decide" /\ httpd'.op = op /\ op # "none"
  BY DEF Request, IInv, Gate, Requests
<1>2. /\ staged' \in [valid : BOOLEAN, family : Families \cup {Unknown}]
      /\ op = "upload" => ~staged'.valid
      /\ staged' = staged \/ ~staged'.valid
  BY BootValues DEF Request, IInv, TypeOK, OperationTypes
<1>3. OperationTypes'
  BY <1>2 DEF Request, IInv, TypeOK, OperationTypes
<1>4. Gate' /\ Outcome'
  BY <1>1 DEF Request, IInv, Gate, Outcome
<1>5. Staging'
  BY <1>1, <1>2 DEF Request, IInv, Staging
<1> QED
  BY <1>3, <1>4, <1>5, HandlersLeave, NoTaskMoves DEF Request

LEMMA AnsweredIdle ==
  ASSUME Answered
  PROVE  /\ httpd'.at = "idle" /\ httpd'.op = "none"
         /\ httpd' \in [at : {"idle", "decide", "erase", "receive", "start", "ota"},
                      op : Requests \cup {"none"}]
<1>1. httpd' = [at |-> "idle", op |-> "none"]
  BY BootValues DEF Answered
<1> QED
  BY <1>1

\* An answer that gives the gate back leaves no operation.
LEMMA Refused ==
  ASSUME IInv, httpd.at # "idle", Refuse, task' = task, stage' = stage, restarting' = restarting,
         staged' = staged \/ ~staged'.valid,
         staged' \in [valid : BOOLEAN, family : Families \cup {Unknown}], HandlersOnly
  PROVE  IInv'
<1>1. httpd'.at = "idle" /\ httpd'.op = "none" /\ s_operation_gate' /\ ~busy'
  BY AnsweredIdle DEF Refuse
<1>2. \A u \in Tasks : task[u].at = "none"
  BY HandlerAlone
<1>3. OperationTypes'
  BY AnsweredIdle DEF Refuse, IInv, TypeOK, OperationTypes
<1>4. Gate' /\ Outcome'
  BY <1>1, <1>2 DEF Gate, Outcome
<1>5. Staging'
  BY <1>1, <1>2 DEF IInv, Staging
<1> QED
  BY <1>3, <1>4, <1>5, HandlersLeave, NoTaskMoves

\* The task takes the operation over.
LEMMA Started ==
  ASSUME IInv, NEW op \in {"boot", "start", "nuke", "flash"}, NEW at \in {"enter", "clear_gone"},
         httpd.at # "idle", StartTask(op, at), HandlersOnly,
         at = "enter" => op # "start", op = "flash" => staged.valid,
         UNCHANGED <<stage, staged, restarting>>
  PROVE  IInv'
<1>1. PICK t \in Tasks :
        task[t].at = "none" /\ task' = [task EXCEPT ![t] = [NoTask EXCEPT !.at = at, !.op = op]]
  BY DEF StartTask
<1> DEFINE w == [NoTask EXCEPT !.at = at, !.op = op]
<1>2. /\ w \in TaskRecord /\ w.at = at /\ w.op = op /\ ~w.asleep
  BY EmptyTypes DEF NoTask, TaskRecord, TaskPlaces
<1>3. task' = [task EXCEPT ![t] = w] /\ task \in [Tasks -> TaskRecord]
  BY <1>1 DEF IInv, TypeOK, OperationTypes
<1> HIDE DEF w
<1>4. /\ task' \in [Tasks -> TaskRecord] /\ task'[t] = w
      /\ \A u \in Tasks \ {t} : task'[u] = task[u]
  BY <1>2, <1>3
<1>5. \A u \in Tasks \ {t} : task'[u].at = "none" /\ ~task'[u].asleep
  BY <1>4, HandlerAlone
<1>6. /\ httpd'.at = "idle" /\ httpd'.op = "none" /\ ~s_operation_gate'
      /\ s_operation_gate' = s_operation_gate /\ busy'
  BY BootValues, HandlerAlone DEF StartTask, Answered
<1>7. OperationTypes'
  BY <1>4, <1>6, BootValues DEF StartTask, Answered, IInv, TypeOK, OperationTypes
<1>8. Gate' /\ Roles'
  BY <1>2, <1>4, <1>5, <1>6 DEF Gate, Roles, Entering
<1>9. Outcome'
  BY <1>2, <1>4, <1>5, <1>6 DEF Outcome, Over
<1>10. Staging'
  BY <1>2, <1>4, <1>5, <1>6 DEF IInv, Staging
<1>11. Io' /\ Sleepers'
  BY <1>1, <1>2, <1>4, <1>5, HandlerAlone
  DEF HandlersOnly, IInv, Io, Sleepers, WaiterNotMissed, HasIo, drive
<1> QED
  BY <1>7, <1>8, <1>9, <1>10, <1>11, HandlersLeave

LEMMA DecideStep ==
  ASSUME IInv, Decide
  PROVE  IInv'
<1>1. httpd.at # "idle" /\ httpd.op \in {"boot", "start", "nuke", "retry"}
  BY DEF Decide
<1>2. CASE Refuse /\ task' = task
  BY <1>1, <1>2, Refused DEF Decide, IInv, TypeOK, OperationTypes
<1>3. CASE /\ Possible(httpd.op)
           /\ StartTask(IF httpd.op = "retry" THEN "flash" ELSE httpd.op,
                        IF httpd.op = "start" THEN "clear_gone" ELSE "enter")
  <2>1. httpd.op = "retry" => staged.valid
    BY <1>3 DEF Possible
  <2> DEFINE op == IF httpd.op = "retry" THEN "flash" ELSE httpd.op
             at == IF httpd.op = "start" THEN "clear_gone" ELSE "enter"
  <2>2. /\ op \in {"boot", "start", "nuke", "flash"} /\ at \in {"enter", "clear_gone"}
        /\ at = "enter" => op # "start"
        /\ op = "flash" => staged.valid
    BY <1>1, <2>1
  <2>3. StartTask(op, at)
    BY <1>3
  <2> HIDE DEF op, at
  <2> QED
    BY <1>1, <2>2, <2>3, Started DEF Decide
<1> QED
  BY <1>2, <1>3 DEF Decide

\* The handler of an upload or of an ESP32 image goes on.
LEMMA HandlerMoves ==
  ASSUME IInv, HandlersOnly, httpd.at # "idle", httpd'.at # "idle", httpd' # httpd,
         httpd' = [httpd EXCEPT !.at = httpd'.at],
         httpd'.at \in {"erase", "receive", "start", "ota"},
         UNCHANGED <<restarting, task, s_operation_gate>>,
         busy' = TRUE \/ busy' = busy, OperationTypes', Staging'
  PROVE  IInv'
<1>1. Gate'
  BY DEF IInv, Gate, TypeOK, OperationTypes
<1>2. ~s_operation_gate' /\ \A u \in Tasks : task'[u].at = "none"
  BY HandlerAlone
<1>3. Outcome'
  BY <1>2 DEF Outcome, Over
<1> QED
  BY <1>1, <1>3, HandlersLeave, NoTaskMoves

LEMMA UploadSteps ==
  ASSUME IInv, Stage \/ Erase \/ Verified
  PROVE  IInv'
<1>1. /\ httpd.op = "upload" /\ httpd.at \in {"decide", "erase", "receive"} /\ ~staged.valid
      /\ httpd \in [at : {"idle", "decide", "erase", "receive", "start", "ota"},
                    op : Requests \cup {"none"}]
  BY DEF Stage, Erase, Verified, IInv, Staging, TypeOK, OperationTypes
<1>2. PICK at \in {"erase", "receive", "start"} :
        /\ httpd' = [httpd EXCEPT !.at = at] /\ at # httpd.at
        /\ at = "start" <=> httpd.at = "receive"
  BY DEF Stage, Erase, Verified
<1>3. httpd'.at = at /\ httpd'.op = "upload"
      /\ httpd' \in [at : {"idle", "decide", "erase", "receive", "start", "ota"},
                     op : Requests \cup {"none"}]
  BY <1>1, <1>2
<1>4. \A u \in Tasks : task[u].at = "none"
  BY <1>1, HandlerAlone
<1>5. CASE Stage \/ Erase
  <2>1. staged' = staged /\ at # "start" /\ task' = task
    BY <1>2, <1>5 DEF Stage, Erase
  <2>2. OperationTypes'
    BY <1>3, <1>5, <2>1 DEF Stage, Erase, IInv, TypeOK, OperationTypes
  <2>3. Staging'
    BY <1>1, <1>3, <1>4, <2>1 DEF Staging
  <2> QED
    BY <1>1, <1>2, <1>3, <1>5, <2>2, <2>3, HandlerMoves DEF Stage, Erase
<1>6. CASE Verified
  <2>1. PICK file \in Files : /\ Accepted(file) /\ stage' = <<file>>
                              /\ staged' = [valid |-> TRUE, family |-> Target(file)]
    BY <1>6 DEF Verified
  <2>2. Target(file) \in Families /\ at = "start" /\ task' = task
    BY <1>2, <1>6, <2>1, FirmwareAssumption DEF FirmwareAssumption, Verified
  <2>3. staged' \in [valid : BOOLEAN, family : Families \cup {Unknown}] /\ staged'.valid
    BY <2>1, <2>2
  <2>4. OperationTypes'
    BY <1>3, <1>6, <2>1, <2>3 DEF Verified, IInv, TypeOK, OperationTypes
  <2>5. Staging'
    BY <1>3, <1>4, <2>1, <2>2, <2>3 DEF Staging
  <2> QED
    BY <1>1, <1>2, <1>3, <1>6, <2>2, <2>4, <2>5, HandlerMoves DEF Verified
<1> QED
  BY <1>5, <1>6

LEMMA UploadEnds ==
  ASSUME IInv, StartFlash \/ UploadFails
  PROVE  IInv'
<1>1. CASE StartFlash
  <2>1. httpd.at = "start" /\ staged.valid
    BY <1>1 DEF StartFlash, IInv, Staging
  <2> QED
    BY <1>1, <2>1, Started DEF StartFlash
<1>2. CASE UploadFails
  <2>1. httpd.at # "idle"
    BY <1>2 DEF UploadFails, IInv, Gate
  <2>2. /\ staged' \in [valid : BOOLEAN, family : Families \cup {Unknown}]
        /\ ~staged'.valid
    BY <1>2 DEF UploadFails, IInv, TypeOK, OperationTypes
  <2> QED
    BY <1>2, <2>1, <2>2, Refused DEF UploadFails
<1> QED
  BY <1>1, <1>2

LEMMA Esp32Steps ==
  ASSUME IInv, UpdateEsp32 \/ FinishEsp32
  PROVE  IInv'
<1>1. /\ httpd.at \in {"decide", "ota"}
      /\ httpd \in [at : {"idle", "decide", "erase", "receive", "start", "ota"},
                    op : Requests \cup {"none"}]
      /\ \A u \in Tasks : task[u].at = "none"
  BY HandlerAlone DEF UpdateEsp32, FinishEsp32, IInv, TypeOK, OperationTypes
<1>2. CASE UpdateEsp32
  <2>1. /\ httpd'.at = "ota" /\ httpd'.op = "esp32" /\ httpd.op = "esp32"
        /\ httpd' = [httpd EXCEPT !.at = httpd'.at] /\ httpd' # httpd
    BY <1>1, <1>2 DEF UpdateEsp32
  <2>2. OperationTypes'
    BY <1>1, <1>2 DEF UpdateEsp32, IInv, TypeOK, OperationTypes
  <2>3. Staging'
    BY <1>2, <2>1 DEF UpdateEsp32, IInv, Staging
  <2> QED
    BY <1>1, <1>2, <2>1, <2>2, <2>3, HandlerMoves DEF UpdateEsp32
<1>3. CASE FinishEsp32 /\ Refuse /\ UNCHANGED restarting
  BY <1>1, <1>3, Refused DEF FinishEsp32, IInv, TypeOK, OperationTypes
<1>4. CASE /\ FinishEsp32
           /\ restarting' = TRUE /\ s_operation_gate' = TRUE /\ Answered /\ UNCHANGED busy
  <2>1. httpd'.at = "idle" /\ httpd'.op = "none"
    BY <1>4, AnsweredIdle
  <2>2. OperationTypes'
    BY <1>4, AnsweredIdle DEF FinishEsp32, IInv, TypeOK, OperationTypes
  <2>3. s_operation_gate' /\ restarting' /\ \A u \in Tasks : task'[u].at = "none"
    BY <1>1, <1>4 DEF FinishEsp32
  <2>4. Gate' /\ Outcome'
    BY <2>1, <2>3 DEF Gate, Outcome, Over
  <2>5. Staging'
    BY <1>1, <1>4, <2>1 DEF FinishEsp32, IInv, Staging
  <2> QED
    BY <1>4, <2>2, <2>4, <2>5, HandlersLeave, NoTaskMoves DEF FinishEsp32
<1> QED
  BY <1>2, <1>3, <1>4 DEF FinishEsp32

LEMMA HandlerSteps ==
  ASSUME IInv, HandlerStep
  PROVE  IInv'
BY DecideStep, UploadSteps, UploadEnds, Esp32Steps DEF HandlerStep

-----------------------------------------------------------------------------
(* The theorems.                                                            *)

LEMMA Inductive == Spec => []IInv
<1>1. ASSUME IInv, [Next]_vars
      PROVE  IInv'
  <2>1. CASE UNCHANGED vars
    <3>1. /\ UNCHANGED <<bus, cdc, pause>> /\ UNCHANGED picoboot
          /\ UNCHANGED <<s_operation_gate, httpd, task, stage, staged, busy, restarting>>
          /\ UNCHANGED <<msc_cb, s_msc_queue, worker, drive, s_io_mutex, task>>
      BY <2>1 DEF vars, driver, web
    <3>2. OperationTypes' /\ Gate' /\ Roles' /\ Outcome' /\ Staging'
      BY <1>1, <3>1, OperationsKept
    <3>3. DriveTypes' /\ Io' /\ Sleepers'
      BY <1>1, <3>1, DriveKept
    <3>4. AtHost' /\ BusTypes'
      BY <1>1, <3>1, HostKept, BusKept
    <3> QED
      BY <3>2, <3>3, <3>4 DEF IInv, TypeOK
  <2>2. CASE Next
    BY <1>1, <2>2, PlugInStep, UnplugStep, RestartStep, TransferStep, BridgeStep, MscSteps,
       WorkerSteps, TaskSteps, RequestStep, HandlerSteps
    DEF Next
  <2> QED
    BY <1>1, <2>1, <2>2
<1> QED
  BY InitInv, <1>1, PTL DEF Spec

\* Every variable keeps its type, and the worker's queue its length (main/firmware_update.c,
\* main/usb_cdc_bridge.c).
THEOREM TypeCorrect == Spec => []TypeOK
BY Inductive, PTL DEF IInv

\* s_operation_gate is taken exactly while one operation is under way, in its handler or in
\* its task: whatever way an operation takes out of firmware_update.c, it gives the gate
\* back, and once.
THEOREM OneOperationAtATime == Spec => []OneOperation
<1>1. ASSUME IInv
      PROVE  OneOperation
  <2>1. CASE httpd.at # "idle"
    <3>1. Running = {} /\ ~s_operation_gate
      BY <1>1, <2>1, HandlerAlone DEF Running
    <3> QED
      BY <2>1, <3>1, FS_EmptySet DEF OneOperation
  <2>2. CASE httpd.at = "idle" /\ s_operation_gate
    <3>1. Running = {}
      BY <1>1, <2>2 DEF Running, IInv, Gate
    <3> QED
      BY <2>2, <3>1, FS_EmptySet DEF OneOperation
  <2>3. CASE httpd.at = "idle" /\ ~s_operation_gate
    <3>1. PICK t \in Tasks : task[t].at # "none"
      BY <1>1, <2>3 DEF IInv, Gate
    <3>2. Running = {t}
      BY <1>1, <3>1, Alone DEF Running
    <3>3. Cardinality(Running) = 1
      BY <3>2, FS_Singleton
    <3> QED
      BY <2>3, <3>3 DEF OneOperation
  <2> QED
    BY <2>1, <2>2, <2>3
<1> QED
  BY <1>1, Inductive, PTL

\* Sectors go to the drive that prepare_raw_msc_io unmounted, as long as the task has
\* s_io_mutex, although msc_worker_task announces a departure without it.
THEOREM SameDrive == Spec => []DriveStays
<1>1. ASSUME IInv
      PROVE  DriveStays
  BY <1>1 DEF IInv, Io, HasIo, DriveStays
<1> QED
  BY <1>1, Inductive, PTL

\* wait_for_msc does not sleep through the drive it waits for.
THEOREM NoWaiterMissed == Spec => []WaiterNotMissed
BY Inductive, PTL DEF IInv, Sleepers

\* s_status.busy is shown from an operation's start to its outcome, and never without an
\* operation or a restart that is coming.
THEOREM BusyTruthful == Spec => []StatusTruthful
<1>1. ASSUME IInv
      PROVE  StatusTruthful
  BY <1>1 DEF IInv, Outcome, Over, StatusTruthful, Running
<1> QED
  BY <1>1, Inductive, PTL

\* When picoboot_reboot_application has returned, the USB host has nothing of it any more.
THEOREM NothingAtTheHost == Spec => []NothingLeft
<1>1. ASSUME IInv
      PROVE  NothingLeft
  <2> SUFFICES ASSUME picoboot.at = "none"
               PROVE  picoboot = Reboots!Idle
    BY DEF NothingLeft
  <2>1. /\ picoboot \in PicobootRecord
        /\ picoboot.client = FALSE /\ picoboot.device = 0 /\ picoboot.claimed = FALSE
        /\ picoboot.transfer = "none" /\ picoboot.accepted = FALSE
    BY <1>1 DEF IInv, AtHost, PicobootRecord, Reboots!Transfers
  <2> QED
    BY <2>1 DEF PicobootRecord, Reboots!Idle
<1> QED
  BY <1>1, Inductive, PTL

\* The record of the staged image is valid only while the partition holds an accepted file
\* as it was received, all of it fit for one family, also after a restart and while
\* the image is on its way to the RP MCU.
THEOREM ImageStable == Spec => []StagedStable
<1>1. \A file \in Files : Accepted(file) => Flashable(file, Target(file))
  BY AcceptedIsFlashable, FirmwareAssumption
<1>2. ASSUME IInv
      PROVE  StagedStable
  BY <1>1, <1>2 DEF IInv, Staging, StagedStable, Running
<1> QED
  BY <1>2, Inductive, PTL

-----------------------------------------------------------------------------
(* The pause of the reconnect.                                              *)

\* Devices are announced in the order they came, the one attached last; and nothing counts
\* as announced while a nuke holds the reconnect.
News ==
    /\ attached = None \/ (attached.id = plug /\ plug > 0)
    /\ \A i \in 1..Len(cdc_new) : greeted < cdc_new[i].id /\ cdc_new[i].id <= plug
    /\ \A i, j \in 1..Len(cdc_new) : i < j => cdc_new[i].id < cdc_new[j].id
    /\ greeted <= plug
    /\ hold => greeted = 0

\* The bit a task waits for is set after the drive is mounted and cleared before it is not.
ReadyAnnounced ==
    /\ worker.at = "mounted" => s_msc_ready
    /\ "READY" \in s_events => s_msc_ready

\* Between pausing the reconnect and the outcome of the touch an operation may find no drive.
AfterPause == {"clear", "wait_touch", "fallback", "wait_boot", "give_up"}

\* Somebody has still to end the pause: the operation that began it, the worker, which a
\* drive's appearance is on its way to, or the departure of the drive that is ready.
Owed ==
    \/ s_msc_ready
    \/ worker.at # "idle"
    \/ msc_cb.at = "send" /\ msc_cb.type = "connected"
    \/ \E i \in 1..Len(s_msc_queue) : s_msc_queue[i].type = "connected"
    \/ \E t \in Tasks : task[t].at \in AfterPause

PauseOwed == s_reconnect_paused /\ attached.kind = "cdc" /\ greeted = attached.id => Owed

PauseIInv == IInv /\ News /\ ReadyAnnounced /\ PauseOwed

LEMMA NewsTypes ==
  ASSUME IInv
  PROVE  /\ plug \in Nat /\ greeted \in Nat /\ cdc_new \in Seq(Device) /\ attached \in Device
         /\ attached.id \in Nat /\ \A d \in Device : d.id \in Nat
         /\ None.kind = "none" /\ None.id = 0
BY FirmwareAssumption DEF IInv, TypeOK, BusTypes, Ids, Device, None, FirmwareAssumption

\* The application attached was announced, so nothing holds the reconnect.
LEMMA GreetedNotHeld ==
  ASSUME PauseIInv, attached.kind = "cdc", greeted = attached.id
  PROVE  ~hold /\ greeted > 0
BY NewsTypes DEF PauseIInv, News

LEMMA NewsKept ==
  ASSUME PauseIInv, UNCHANGED <<plug, attached, cdc_new, greeted, hold>>
  PROVE  News'
BY DEF PauseIInv, News

LEMMA ReadyKept ==
  ASSUME PauseIInv, UNCHANGED <<worker, s_msc_ready>>, s_events' \subseteq s_events
  PROVE  ReadyAnnounced'
BY DEF PauseIInv, ReadyAnnounced

LEMMA OwedKept ==
  ASSUME PauseIInv, UNCHANGED <<attached, greeted>>, s_reconnect_paused' => s_reconnect_paused,
         Owed => Owed'
  PROVE  PauseOwed'
BY DEF PauseIInv, PauseOwed

LEMMA QueueOfMessages ==
  ASSUME NEW S, NEW q \in Seq(S), q # <<>>
  PROVE  /\ Head(q) = q[1] /\ Tail(q) \in Seq(S) /\ Len(Tail(q)) = Len(q) - 1 /\ Len(q) \in Nat
         /\ Len(q) > 0 /\ \A i \in 1..Len(Tail(q)) : Tail(q)[i] = q[i + 1]
OBVIOUS

LEMMA QueueGrows ==
  ASSUME NEW S, NEW q \in Seq(S), NEW e \in S
  PROVE  /\ Append(q, e) \in Seq(S) /\ Len(Append(q, e)) = Len(q) + 1 /\ Len(q) \in Nat
         /\ \A i \in 1..Len(q) : Append(q, e)[i] = q[i]
         /\ Append(q, e)[Len(q) + 1] = e
OBVIOUS

LEMMA PausePlugIn ==
  ASSUME PauseIInv, NEW kind \in {"cdc", "boot"}, NEW f \in Families, PlugIn(kind, f)
  PROVE  News' /\ ReadyAnnounced' /\ PauseOwed'
<1>1. IInv /\ News BY DEF PauseIInv
<1>2. /\ plug' = plug + 1 /\ attached' = [kind |-> kind, id |-> plug + 1, family |-> f]
      /\ cdc_new' = Append(cdc_new, attached')
      /\ UNCHANGED <<greeted, hold, worker, s_msc_ready, s_events>>
  BY DEF PlugIn, pause, drive
<1>3. attached' \in Device
  BY <1>1, PlugInStep DEF IInv, TypeOK, BusTypes
<1>4. attached'.id = plug + 1 /\ plug \in Nat /\ greeted \in Nat /\ greeted <= plug
  BY <1>1, <1>2, NewsTypes DEF News
<1>5. ReadyAnnounced' BY <1>2, ReadyKept
<1>6. PauseOwed' BY <1>2, <1>4, SMT DEF PauseOwed
<1>7. News'
  <2>1. cdc_new \in Seq(Device) /\ \A i \in 1..Len(cdc_new) : cdc_new[i].id \in Nat
    BY <1>1, NewsTypes
  <2>2. /\ Len(cdc_new') = Len(cdc_new) + 1 /\ Len(cdc_new) \in Nat
        /\ \A i \in 1..Len(cdc_new) : cdc_new'[i] = cdc_new[i]
        /\ cdc_new'[Len(cdc_new) + 1] = attached'
    BY <1>2, <1>3, <2>1, QueueGrows
  <2>3. \A i \in 1..Len(cdc_new') : i \in 1..Len(cdc_new) \/ i = Len(cdc_new) + 1
    BY <2>2
  <2>4. \A i \in 1..Len(cdc_new) : greeted < cdc_new[i].id /\ cdc_new[i].id <= plug
    BY <1>1 DEF News
  <2>5. \A i \in 1..Len(cdc_new') : greeted' < cdc_new'[i].id /\ cdc_new'[i].id <= plug'
    <3> TAKE i \in 1..Len(cdc_new')
    <3>1. CASE i \in 1..Len(cdc_new) BY <1>2, <1>4, <2>1, <2>2, <2>4, <3>1
    <3>2. CASE i = Len(cdc_new) + 1 BY <1>2, <1>4, <2>2, <3>2
    <3> QED BY <2>3, <3>1, <3>2
  <2>6. \A i, j \in 1..Len(cdc_new') : i < j => cdc_new'[i].id < cdc_new'[j].id
    <3> SUFFICES ASSUME NEW i \in 1..Len(cdc_new'), NEW j \in 1..Len(cdc_new'), i < j
                 PROVE  cdc_new'[i].id < cdc_new'[j].id
      OBVIOUS
    <3>1. i \in 1..Len(cdc_new) BY <2>2
    <3>2. CASE j \in 1..Len(cdc_new) BY <1>1, <2>2, <3>1, <3>2 DEF News
    <3>3. CASE j = Len(cdc_new) + 1
      <4>1. cdc_new[i].id <= plug /\ cdc_new[i].id \in Nat BY <2>1, <2>4, <3>1
      <4> QED BY <1>4, <2>2, <3>1, <3>3, <4>1
    <3> QED BY <2>3, <3>2, <3>3
  <2>7. (attached.id = plug /\ plug > 0)' /\ greeted' <= plug' BY <1>2, <1>4
  <2>8. (hold => greeted = 0)' BY <1>1, <1>2 DEF News
  <2> QED BY <2>5, <2>6, <2>7, <2>8 DEF News
<1> QED BY <1>5, <1>6, <1>7

LEMMA PauseUnplug ==
  ASSUME PauseIInv, Unplug
  PROVE  News' /\ ReadyAnnounced' /\ PauseOwed'
<1>1. attached' = None /\ UNCHANGED <<plug, cdc_new, greeted, hold, worker, s_msc_ready, s_events>>
  BY DEF Unplug, pause, drive
<1>2. PauseOwed' BY <1>1, NewsTypes DEF PauseOwed, PauseIInv
<1> QED BY <1>1, <1>2, ReadyKept DEF News, PauseIInv

LEMMA PauseRestart ==
  ASSUME PauseIInv, Restart
  PROVE  News' /\ ReadyAnnounced' /\ PauseOwed'
<1>1. IInv /\ News BY DEF PauseIInv
<1>2. /\ cdc_new' = IF attached = None THEN <<>> ELSE <<attached>>
      /\ greeted' = 0 /\ s_reconnect_paused' = FALSE /\ s_events' = {} /\ worker' = Quiet
      /\ UNCHANGED <<plug, attached>>
  BY BootValues DEF Restart
<1>3. ReadyAnnounced' BY <1>2 DEF ReadyAnnounced, Quiet
<1>4. PauseOwed' BY <1>2 DEF PauseOwed
<1>5. News'
  <2>1. CASE attached = None
    <3>1. Len(cdc_new') = 0 BY <1>2, <2>1
    <3> QED BY <1>1, <1>2, <2>1, <3>1, NewsTypes DEF News
  <2>2. CASE attached # None
    <3>1. Len(cdc_new') = 1 /\ cdc_new'[1] = attached BY <1>2, <2>2
    <3>2. attached.id = plug /\ plug > 0 BY <1>1, <2>2 DEF News
    <3> QED BY <1>1, <1>2, <3>1, <3>2, NewsTypes DEF News
  <2> QED BY <2>1, <2>2
<1> QED BY <1>3, <1>4, <1>5

LEMMA PauseOnNewDevice ==
  ASSUME PauseIInv, OnNewDevice
  PROVE  News' /\ ReadyAnnounced' /\ PauseOwed'
<1>1. IInv /\ News BY DEF PauseIInv
<1>2. PICK d : d = Head(cdc_new) OBVIOUS
<1>3. /\ cdc_new # <<>> /\ cdc_new' = Tail(cdc_new)
      /\ s_reconnect_paused' =
            (d.kind = "boot" \/ (s_reconnect_paused /\ (d.kind # "cdc" \/ hold)))
      /\ greeted' = IF d.kind = "cdc" /\ ~hold THEN d.id ELSE greeted
      /\ UNCHANGED <<plug, attached, hold, worker, s_msc_ready, s_events>>
  BY <1>2 DEF OnNewDevice, drive
<1>4. /\ d = cdc_new[1] /\ Len(cdc_new') = Len(cdc_new) - 1 /\ Len(cdc_new) \in Nat
      /\ Len(cdc_new) > 0 /\ \A i \in 1..Len(cdc_new') : cdc_new'[i] = cdc_new[i + 1]
      /\ cdc_new' \in Seq(Device)
  BY <1>1, <1>2, <1>3, NewsTypes, QueueOfMessages
<1>5. /\ d.id \in Nat /\ greeted \in Nat /\ plug \in Nat /\ greeted < d.id /\ d.id <= plug
      /\ \A i \in 1..Len(cdc_new) : cdc_new[i].id \in Nat
  <2>1. 1 \in 1..Len(cdc_new) BY <1>4
  <2> QED BY <1>1, <1>4, <2>1, NewsTypes DEF News
<1>6. ReadyAnnounced' BY <1>3, ReadyKept
<1>7. \A i \in 1..Len(cdc_new') : /\ i + 1 \in 1..Len(cdc_new) /\ d.id < cdc_new'[i].id
                                  /\ greeted < cdc_new'[i].id /\ cdc_new'[i].id <= plug
  <2> TAKE i \in 1..Len(cdc_new')
  <2>1. 1 \in 1..Len(cdc_new) /\ i + 1 \in 1..Len(cdc_new) /\ 1 < i + 1 BY <1>4
  <2> QED BY <1>1, <1>4, <2>1 DEF News
<1>8. News'
  <2>1. greeted' \in {greeted, d.id} BY <1>3
  <2>2. \A i \in 1..Len(cdc_new') : greeted' < cdc_new'[i].id /\ cdc_new'[i].id <= plug'
    BY <1>3, <1>7, <2>1
  <2>3. \A i, j \in 1..Len(cdc_new') : i < j => cdc_new'[i].id < cdc_new'[j].id
    <3> TAKE i, j \in 1..Len(cdc_new')
    <3>1. i + 1 \in 1..Len(cdc_new) /\ j + 1 \in 1..Len(cdc_new) /\ (i < j => i + 1 < j + 1)
      BY <1>4, <1>7
    <3> QED BY <1>1, <1>4, <3>1 DEF News
  <2>4. greeted' <= plug' BY <1>1, <1>3, <1>5, <2>1 DEF News
  <2>5. (hold => greeted = 0)' BY <1>1, <1>3 DEF News
  <2>6. (attached = None \/ (attached.id = plug /\ plug > 0))'
    BY <1>1, <1>3 DEF News, None
  <2> QED BY <2>2, <2>3, <2>4, <2>5, <2>6 DEF News
\* Only the last device to be announced is attached, and being announced ends the pause.
<1>9. PauseOwed'
  <2> SUFFICES ASSUME s_reconnect_paused', attached.kind = "cdc", greeted' = attached.id
               PROVE  FALSE
    BY <1>3 DEF PauseOwed
  <2>1. attached.id = plug BY <1>1, NewsTypes DEF News
  <2>2. greeted' = d.id
    <3>1. greeted' = greeted \/ greeted' = d.id BY <1>3
    <3>2. greeted # plug BY <1>5
    <3> QED BY <2>1, <3>1, <3>2
  <2>3. d.kind = "cdc" /\ ~hold BY <1>3, <1>5, <2>1, <2>2
  <2> QED BY <1>3, <2>3
<1> QED BY <1>6, <1>8, <1>9

LEMMA PauseMsc ==
  ASSUME PauseIInv, MscStep
  PROVE  News' /\ ReadyAnnounced' /\ PauseOwed'
<1>1. UNCHANGED <<plug, attached, cdc_new, greeted, hold, worker, s_msc_ready, s_events, task>>
  BY DEF MscStep, msc_event_cb, SendToWorker, bus, drive
<1>2. News' /\ ReadyAnnounced' BY <1>1, NewsKept, ReadyKept
<1>3. CASE msc_event_cb
  <2>1. PICK e : e = Head(msc_new) OBVIOUS
  <2>2. /\ msc_cb.at = "idle" /\ msc_cb' = [at |-> "send", type |-> e.type, id |-> e.id]
        /\ s_reconnect_paused' = (s_reconnect_paused \/ e.type = "connected")
        /\ UNCHANGED s_msc_queue
    BY <1>3, <2>1 DEF msc_event_cb
  <2>3. e.type = "connected" => Owed' BY <2>2 DEF Owed
  <2>4. Owed => Owed' BY <1>1, <2>2 DEF Owed
  <2>5. CASE e.type = "connected" BY <1>2, <2>3, <2>5 DEF PauseOwed
  <2>6. CASE e.type # "connected" BY <1>1, <1>2, <2>2, <2>4, <2>6, OwedKept
  <2> QED BY <1>2, <2>5, <2>6
<1>4. CASE SendToWorker
  <2>1. CASE ReleasePause
    <3>1. ASSUME attached.kind = "cdc", greeted = attached.id PROVE ~s_reconnect_paused'
      BY <2>1, <3>1, GreetedNotHeld DEF ReleasePause
    <3> QED BY <1>1, <1>2, <3>1 DEF PauseOwed
  <2>2. CASE /\ s_msc_queue' = Append(s_msc_queue, [type |-> msc_cb.type, id |-> msc_cb.id])
             /\ UNCHANGED s_reconnect_paused
    <3>1. [type |-> msc_cb.type, id |-> msc_cb.id] \in Message /\ s_msc_queue \in Seq(Message)
      BY <1>4 DEF SendToWorker, PauseIInv, IInv, TypeOK, DriveTypes, Progress, Message
    <3>2. /\ Len(s_msc_queue') = Len(s_msc_queue) + 1 /\ Len(s_msc_queue) \in Nat
          /\ \A i \in 1..Len(s_msc_queue) : s_msc_queue'[i] = s_msc_queue[i]
          /\ s_msc_queue'[Len(s_msc_queue) + 1] = [type |-> msc_cb.type, id |-> msc_cb.id]
      BY <2>2, <3>1, QueueGrows
    <3>3. Len(s_msc_queue) + 1 \in 1..Len(s_msc_queue')
          /\ 1..Len(s_msc_queue) \subseteq 1..Len(s_msc_queue')
      BY <3>2
    <3>4. ASSUME NEW i \in 1..Len(s_msc_queue), s_msc_queue[i].type = "connected" PROVE Owed'
      BY <3>2, <3>3, <3>4 DEF Owed
    <3>5. ASSUME msc_cb.type = "connected" PROVE Owed'
      <4>1. s_msc_queue'[Len(s_msc_queue) + 1].type = "connected" BY <3>2, <3>5
      <4> QED BY <3>3, <4>1 DEF Owed
    <3>6. Owed => Owed' BY <1>1, <3>4, <3>5 DEF Owed
    <3> QED BY <1>1, <1>2, <2>2, <3>6, OwedKept
  <2> QED BY <1>4, <2>1, <2>2 DEF SendToWorker
<1> QED BY <1>3, <1>4 DEF MscStep

LEMMA PauseWorker ==
  ASSUME PauseIInv, WorkerStep
  PROVE  News' /\ ReadyAnnounced' /\ PauseOwed'
<1>0. IInv /\ ReadyAnnounced BY DEF PauseIInv
<1>1. UNCHANGED <<plug, attached, cdc_new, greeted, hold, msc_cb, task>>
  BY DEF WorkerStep, TakeMessage, WorkerLocks, CleanUp, Install, Mount, AnnounceMounted,
         AnnounceGone, WorkerReleasesPause, bus, driver, pause
<1>2. News' BY <1>1, NewsKept
<1>3. CASE TakeMessage
  <2>1. PICK m : m = Head(s_msc_queue) OBVIOUS
  <2>2. /\ worker.at = "idle" /\ s_msc_queue # <<>> /\ s_msc_queue' = Tail(s_msc_queue)
        /\ worker' = IF m.type = "connected" THEN [at |-> "lock", type |-> m.type, id |-> m.id]
                     ELSE IF m.id = s_msc_device THEN [at |-> "gone", type |-> m.type, id |-> m.id]
                     ELSE Quiet
        /\ UNCHANGED <<s_reconnect_paused, s_msc_ready, s_events>>
    BY <1>3, <2>1 DEF TakeMessage, pause, drive
  <2>3. /\ m = s_msc_queue[1] /\ Len(s_msc_queue) \in Nat /\ Len(s_msc_queue) > 0
        /\ Len(s_msc_queue') = Len(s_msc_queue) - 1
        /\ \A i \in 1..Len(s_msc_queue') : s_msc_queue'[i] = s_msc_queue[i + 1]
    BY <1>0, <2>1, <2>2, QueueOfMessages DEF IInv, TypeOK, DriveTypes
  <2>4. worker'.at \in {"lock", "gone", "idle"} /\ (m.type = "connected" => worker'.at = "lock")
    BY <2>2 DEF Quiet
  <2>5. ReadyAnnounced' BY <1>0, <2>2, <2>4 DEF ReadyAnnounced
  <2>6. ASSUME NEW i \in 1..Len(s_msc_queue), s_msc_queue[i].type = "connected" PROVE Owed'
    <3>1. CASE i = 1 BY <2>3, <2>4, <2>6, <3>1 DEF Owed
    <3>2. CASE i # 1
      <4>1. i - 1 \in 1..Len(s_msc_queue') /\ (i - 1) + 1 = i BY <2>3, <3>2
      <4>2. s_msc_queue'[i - 1] = s_msc_queue[i] BY <2>3, <4>1
      <4> QED BY <2>6, <4>1, <4>2 DEF Owed
    <3> QED BY <3>1, <3>2
  <2>7. Owed => Owed' BY <1>1, <2>2, <2>6 DEF Owed
  <2> QED BY <1>1, <1>2, <2>2, <2>5, <2>7, OwedKept
\* On its way the worker is not idle, and the pause is its matter.
<1>4. ASSUME worker'.at \notin {"idle", "mounted"}, ("READY" \in s_events => s_msc_ready)'
      PROVE  News' /\ ReadyAnnounced' /\ PauseOwed'
  BY <1>2, <1>4 DEF ReadyAnnounced, PauseOwed, Owed
<1>5. CASE WorkerLocks
  <2>1. worker'.at \in {"cleanup", "release_pause"} /\ UNCHANGED <<s_msc_ready, s_events>>
    BY <1>0, <1>5, WorkerMoves DEF WorkerLocks, WorkerPlaces, drive
  <2> QED BY <1>0, <1>4, <2>1 DEF ReadyAnnounced
<1>6. CASE CleanUp
  <2>1. worker'.at \in {"install", "release_pause"} /\ s_events' = s_events \ {"READY"}
    BY <1>0, <1>6, WorkerMoves DEF CleanUp, cleanup_msc_locked, WorkerPlaces
  <2> QED BY <1>4, <2>1
<1>7. CASE Install
  <2>1. worker'.at \in {"mount", "release_pause"} /\ UNCHANGED <<s_msc_ready, s_events>>
    BY <1>0, <1>7, WorkerMoves DEF Install, WorkerPlaces
  <2> QED BY <1>0, <1>4, <2>1 DEF ReadyAnnounced
<1>8. CASE Mount
  <2>1. CASE MountFails
    <3>1. worker'.at = "release_pause" /\ UNCHANGED <<s_msc_ready, s_events>>
      BY <1>0, <1>8, <2>1, WorkerMoves DEF Mount, MountFails, WorkerPlaces
    <3> QED BY <1>0, <1>4, <3>1 DEF ReadyAnnounced
  <2>2. CASE ~MountFails
    <3>1. s_msc_ready' = TRUE BY <1>8, <2>2 DEF Mount
    <3> QED BY <1>2, <3>1 DEF ReadyAnnounced, PauseOwed, Owed
  <2> QED BY <2>1, <2>2
<1>9. CASE AnnounceMounted
  <2>1. s_msc_ready /\ UNCHANGED s_msc_ready BY <1>0, <1>9 DEF AnnounceMounted, ReadyAnnounced
  <2> QED BY <1>2, <2>1 DEF ReadyAnnounced, PauseOwed, Owed
<1>10. CASE AnnounceGone
  <2>1. worker'.at = "lock_gone" /\ "READY" \notin s_events'
    BY <1>0, <1>10, WorkerMoves DEF AnnounceGone, WorkerPlaces
  <2> QED BY <1>4, <2>1
<1>11. CASE WorkerReleasesPause
  <2>1. worker' = Quiet /\ UNCHANGED <<s_msc_ready, s_events>>
    BY <1>11 DEF WorkerReleasesPause, drive
  <2>2. ReadyAnnounced' BY <1>0, <2>1 DEF ReadyAnnounced, Quiet
  <2>3. ASSUME attached.kind = "cdc", greeted = attached.id PROVE ~s_reconnect_paused'
    BY <1>11, <2>3, GreetedNotHeld DEF WorkerReleasesPause, ReleasePause
  <2> QED BY <1>1, <1>2, <2>2, <2>3 DEF PauseOwed
<1> QED BY <1>3, <1>5, <1>6, <1>7, <1>8, <1>9, <1>10, <1>11 DEF WorkerStep

\* A task's step that leaves the bus and the drive alone.
LEMMA OwedByTask ==
  ASSUME PauseIInv, NEW t \in Tasks, \A u \in Tasks \ {t} : task'[u] = task[u],
         task[t].at \in AfterPause => task'[t].at \in AfterPause \/ s_msc_ready,
         UNCHANGED <<s_msc_ready, worker, msc_cb, s_msc_queue>>
  PROVE  Owed => Owed'
<1>1. ASSUME NEW u \in Tasks, task[u].at \in AfterPause PROVE Owed'
  <2>1. CASE u = t BY <1>1, <2>1 DEF Owed
  <2>2. CASE u # t BY <1>1, <2>2 DEF Owed
  <2> QED BY <2>1, <2>2
<1> QED BY <1>1 DEF Owed

LEMMA PauseQuietTask ==
  ASSUME PauseIInv, NEW t \in Tasks, NEW w, task' = [task EXCEPT ![t] = w],
         task[t].at \in AfterPause => w.at \in AfterPause \/ s_msc_ready,
         UNCHANGED <<plug, attached, cdc_new, greeted, hold, s_msc_ready, worker, msc_cb, s_msc_queue>>,
         s_reconnect_paused' => s_reconnect_paused, s_events' \subseteq s_events
  PROVE  News' /\ ReadyAnnounced' /\ PauseOwed'
<1>1. task'[t] = w /\ \A u \in Tasks \ {t} : task'[u] = task[u]
  BY DEF PauseIInv, IInv, TypeOK, OperationTypes
<1>2. Owed => Owed' BY <1>1, OwedByTask
<1> QED BY <1>2, NewsKept, ReadyKept, OwedKept

LEMMA GotoRecord ==
  ASSUME IInv, NEW t \in Tasks, NEW at \in TaskPlaces, Goto(t, at)
  PROVE  /\ task' = [task EXCEPT ![t] = [task[t] EXCEPT !.at = at]]
         /\ [task[t] EXCEPT !.at = at].at = at
BY DEF Goto, IInv, TypeOK, OperationTypes, TaskRecord

LEMMA PauseTasks ==
  ASSUME PauseIInv, NEW t \in Tasks, TaskStep(t)
  PROVE  News' /\ ReadyAnnounced' /\ PauseOwed'
<1>0. IInv /\ ReadyAnnounced /\ task \in [Tasks -> TaskRecord]
  BY DEF PauseIInv, IInv, TypeOK, OperationTypes
\* The operation pauses the reconnect, ...
<1>1. CASE PauseReconnect(t)
  <2>1. Goto(t, "clear") /\ UNCHANGED <<plug, attached, cdc_new, greeted, hold, drive, worker>>
    BY <1>1 DEF PauseReconnect, OthersAsTheyWere, bus
  <2>2. task'[t].at = "clear" BY <1>0, <2>1 DEF Goto, TaskRecord
  <2>3. Owed' BY <2>2 DEF Owed, AfterPause
  <2> QED BY <2>1, <2>3, NewsKept, ReadyKept DEF PauseOwed, drive
\* ... looks for the drive, ...
<1>2. CASE ClearEvents(t)
  <2>1. /\ Goto(t, "wait_touch") /\ s_events' = {}
        /\ UNCHANGED <<plug, attached, cdc_new, greeted, hold, s_reconnect_paused, s_msc_ready,
                       worker, msc_cb, s_msc_queue>>
    BY <1>2 DEF ClearEvents, OthersAsTheyWere, bus, driver, pause
  <2>2. "wait_touch" \in TaskPlaces BY DEF TaskPlaces, Waits
  <2>3. PICK w : task' = [task EXCEPT ![t] = w] /\ w.at = "wait_touch"
    BY <1>0, <2>1, <2>2, GotoRecord
  <2>4. w.at \in AfterPause BY <2>3 DEF AfterPause
  <2> QED BY <2>1, <2>3, <2>4, PauseQuietTask
<1>3. CASE wait_for_msc(t) \/ wait_for_msc_returns(t)
  <2>1. UNCHANGED <<plug, attached, cdc_new, greeted, hold, s_reconnect_paused, s_msc_ready, s_events,
                    worker, msc_cb, s_msc_queue>>
    BY <1>3 DEF wait_for_msc, wait_for_msc_returns, OthersAsTheyWere, bus, driver, pause, drive
  <2>2. PICK w : /\ task' = [task EXCEPT ![t] = w]
                 /\ \/ w = [task[t] EXCEPT !.asleep = TRUE]
                    \/ w = Arrived(task[t]) /\ s_msc_ready
                    \/ w = Missed(task[t])
    BY <1>0, <1>3 DEF wait_for_msc, wait_for_msc_returns, ReadyAnnounced
  <2>3. task[t].at \in AfterPause => w.at \in AfterPause \/ s_msc_ready
    <3>1. CASE w = [task[t] EXCEPT !.asleep = TRUE] BY <1>0, <3>1 DEF TaskRecord
    <3>2. CASE w = Missed(task[t])
      <4>1. task[t].at \in Waits BY <1>3 DEF wait_for_msc, wait_for_msc_returns
      <4>2. task[t].at \in AfterPause => w.at \in {"fallback", "give_up"}
        BY <1>0, <3>2, <4>1 DEF Missed, Waits, AfterPause, TaskRecord
      <4> QED BY <4>2 DEF AfterPause
    <3> QED BY <2>2, <3>1, <3>2
  <2> QED BY <2>1, <2>2, <2>3, PauseQuietTask
<1>4. CASE Fallback(t)
  <2>1. PICK at \in {"wait_boot", "give_up"} : Goto(t, at) BY <1>4 DEF Fallback
  <2>2. at \in TaskPlaces /\ at \in AfterPause BY DEF TaskPlaces, Waits, AfterPause
  <2>3. UNCHANGED <<plug, attached, cdc_new, greeted, hold, s_reconnect_paused, s_msc_ready, s_events,
                    worker, msc_cb, s_msc_queue>>
    BY <1>4 DEF Fallback, OthersAsTheyWere, bus, driver, pause, drive
  <2>4. PICK w : task' = [task EXCEPT ![t] = w] /\ w.at = at
    <3>1. /\ task' = [task EXCEPT ![t] = [task[t] EXCEPT !.at = at]]
          /\ [task[t] EXCEPT !.at = at].at = at
      BY <1>0, <2>1, <2>2, GotoRecord
    <3> QED BY <3>1
  <2>5. w.at \in AfterPause BY <2>2, <2>4
  <2> QED BY <2>3, <2>4, <2>5, PauseQuietTask
\* ... and ends the pause when there is none.
<1>5. CASE Unpause(t)
  <2>1. /\ s_reconnect_paused' = FALSE
        /\ UNCHANGED <<plug, attached, cdc_new, greeted, hold, worker, s_msc_ready, s_events>>
    BY <1>5 DEF Unpause, OthersAsTheyWere, bus, drive
  <2> QED BY <2>1, NewsKept, ReadyKept DEF PauseOwed
\* What a nuke holds, nobody greets.
<1>6. CASE Hold(t)
  <2>1. /\ greeted' = 0 /\ hold' = TRUE
        /\ UNCHANGED <<plug, attached, cdc_new, s_reconnect_paused, s_msc_ready, s_events, worker>>
    BY <1>6 DEF Hold, drive
  <2>2. News'
    <3>1. \A i \in 1..Len(cdc_new) : 0 < cdc_new[i].id /\ cdc_new[i].id <= plug
      <4> TAKE i \in 1..Len(cdc_new)
      <4>1. cdc_new[i].id \in Nat /\ greeted \in Nat BY <1>0, NewsTypes
      <4>2. greeted < cdc_new[i].id /\ cdc_new[i].id <= plug BY DEF PauseIInv, News
      <4> QED BY <4>1, <4>2
    <3>2. 0 <= plug BY <1>0, NewsTypes
    <3> QED BY <2>1, <3>1, <3>2 DEF PauseIInv, News, None
  <2>3. ReadyAnnounced' BY <2>1, ReadyKept
  <2>4. attached.kind = "cdc" => attached.id > 0 BY <1>0, NewsTypes DEF PauseIInv, News
  <2>5. attached.id \in Nat BY <1>0, NewsTypes
  <2>6. ~(attached.kind = "cdc" /\ 0 = attached.id) BY <2>4, <2>5
  <2>7. PauseOwed' BY <2>1, <2>6 DEF PauseOwed
  <2> QED BY <2>2, <2>3, <2>7
<1>7. CASE Unhold(t)
  <2>1. /\ hold' = FALSE /\ task[t].at \notin AfterPause
        /\ UNCHANGED <<plug, attached, cdc_new, greeted, s_reconnect_paused, s_msc_ready, s_events,
                       worker, msc_cb, s_msc_queue>>
    BY <1>7 DEF Unhold, OthersAsTheyWere, bus, driver, drive, AfterPause
  <2>2. \A u \in Tasks \ {t} : task'[u] = task[u] BY <1>0, <1>7 DEF Unhold, Goto
  <2>3. PauseOwed' BY <2>1, <2>2, OwedByTask, OwedKept
  <2>4. News' BY <2>1 DEF PauseIInv, News, None
  <2> QED BY <2>1, <2>3, <2>4, ReadyKept
\* The rest of an operation is not about the pause.
<1>8. ASSUME task[t].at \notin AfterPause, \E w : task' = [task EXCEPT ![t] = w],
             UNCHANGED <<bus, pause, s_msc_ready, worker, msc_cb, s_msc_queue>>,
             s_events' \subseteq s_events
      PROVE  News' /\ ReadyAnnounced' /\ PauseOwed'
  BY <1>8, PauseQuietTask DEF bus, pause
<1>9. \A at : Goto(t, at) => \E w : task' = [task EXCEPT ![t] = w]
  BY <1>0 DEF Goto
<1>10. CASE enter_bootloader(t) \/ CheckFamily(t) \/ CheckReady(t) \/ WaitGone(t)
  BY <1>8, <1>9, <1>10 DEF enter_bootloader, CheckFamily, CheckReady, WaitGone, OthersAsTheyWere,
     drive, driver, AfterPause
<1>11. CASE ClearGone(t) \/ ClearReady(t)
  BY <1>8, <1>9, <1>11 DEF ClearGone, ClearReady, OthersAsTheyWere, driver, AfterPause
<1>12. CASE LockIo(t) \/ LastBlockTaken(t) \/ UnlockIo(t) \/ Done(t)
  BY <1>8, <1>9, <1>12 DEF LockIo, LastBlockTaken, UnlockIo, Done, OthersAsTheyWere, drive, driver,
     AfterPause
<1>13. CASE prepare_raw_msc_io(t)
  <2>1. \E w : task' = [task EXCEPT ![t] = w] BY <1>0, <1>9, <1>13 DEF prepare_raw_msc_io
  <2> QED BY <1>8, <1>13, <2>1 DEF prepare_raw_msc_io, OthersAsTheyWere, driver, AfterPause
<1>14. CASE raw_msc_write_uf2_block(t)
  <2>1. \E w : task' = [task EXCEPT ![t] = w] BY <1>0, <1>9, <1>14 DEF raw_msc_write_uf2_block
  <2> QED BY <1>8, <1>14, <2>1 DEF raw_msc_write_uf2_block, OthersAsTheyWere, drive, driver,
     AfterPause
<1>15. CASE Reboot(t)
  <2>1. \E w : task' = [task EXCEPT ![t] = w]
    <3>1. UNCHANGED task => task' = [task EXCEPT ![t] = task[t]] BY <1>0
    <3> QED BY <1>9, <1>15, <3>1 DEF Reboot
  <2> QED BY <1>8, <1>15, <2>1 DEF Reboot, drive, AfterPause
<1>16. CASE Give(t)
  BY <1>8, <1>16 DEF Give, OthersAsTheyWere, drive, driver, AfterPause
<1> QED BY <1>1, <1>2, <1>3, <1>4, <1>5, <1>6, <1>7, <1>10, <1>11, <1>12, <1>13, <1>14, <1>15, <1>16
     DEF TaskStep

\* The handlers, CDC, transfers: none of them touches what the pause depends on.  A task is
\* started in a slot that had none.
LEMMA PauseHandlers ==
  ASSUME PauseIInv,
         \/ UNCHANGED vars \/ CdcStep \/ TransferCompletes \/ HandlerStep
         \/ \E op \in Requests : Request(op)
  PROVE  News' /\ ReadyAnnounced' /\ PauseOwed'
<1>0. task \in [Tasks -> TaskRecord] BY DEF PauseIInv, IInv, TypeOK, OperationTypes
<1>1. UNCHANGED <<bus, pause, drive, worker, msc_cb, s_msc_queue>>
  <2>1. ASSUME HandlersOnly PROVE UNCHANGED <<bus, pause, drive, worker, msc_cb, s_msc_queue>>
    BY <2>1 DEF HandlersOnly, driver
  <2>2. HandlerStep => HandlersOnly
    BY DEF HandlerStep, Decide, Stage, Erase, Verified, StartFlash, UploadFails, UpdateEsp32,
       FinishEsp32
  <2>3. ASSUME NEW op, Request(op) PROVE HandlersOnly BY <2>3 DEF Request
  <2> QED BY <2>1, <2>2, <2>3 DEF vars, driver, CdcStep, TransferCompletes
<1>2. \A t \in Tasks : task[t].at \in AfterPause => task'[t] = task[t]
  <2>1. ASSUME NEW op, NEW at, StartTask(op, at), NEW t \in Tasks, task[t].at \in AfterPause
        PROVE  task'[t] = task[t]
    <3>1. PICK u \in Tasks : task[u].at = "none" /\ \E w : task' = [task EXCEPT ![u] = w]
      BY <2>1 DEF StartTask
    <3>2. u # t BY <2>1, <3>1 DEF AfterPause
    <3> QED BY <1>0, <3>1, <3>2
  <2>2. CASE Decide BY <2>1, <2>2 DEF Decide
  <2>3. CASE StartFlash BY <2>1, <2>3 DEF StartFlash
  <2>4. CASE ~Decide /\ ~StartFlash
    BY <2>4 DEF vars, CdcStep, TransferCompletes, HandlerStep, Request, Stage, Erase, Verified,
       UploadFails, UpdateEsp32, FinishEsp32
  <2> QED BY <2>2, <2>3, <2>4
<1>3. Owed => Owed' BY <1>1, <1>2 DEF Owed, drive
<1> QED BY <1>1, <1>3, NewsKept, ReadyKept, OwedKept DEF bus, pause, drive

\* An application that is announced while nothing holds the reconnect does not find it
\* paused for ever: whoever paused it, the MSC driver's callback, on_new_usb_device or an
\* operation, on every way out (s_msc_queue full, the mutex not got in time, a drive that
\* cannot be installed or mounted, one that leaves) somebody has still to end the pause.
THEOREM PauseEnds == Spec => []PauseHasReason
<1>1. Init => News /\ ReadyAnnounced /\ PauseOwed
  <2>1. 0 \in Nat /\ Len(<<>>) = 0 OBVIOUS
  <2> QED BY <2>1 DEF Init, News, ReadyAnnounced, PauseOwed, Boot, Quiet
<1>2. ASSUME PauseIInv, [Next]_vars PROVE News' /\ ReadyAnnounced' /\ PauseOwed'
  BY <1>2, PausePlugIn, PauseUnplug, PauseRestart, PauseOnNewDevice, PauseMsc, PauseWorker,
     PauseTasks, PauseHandlers DEF Next
<1>3. ASSUME PauseIInv PROVE PauseHasReason
  <2> SUFFICES ASSUME s_reconnect_paused, attached.kind = "cdc", greeted = attached.id
               PROVE  \/ ~s_operation_gate \/ s_msc_ready
                      \/ msc_new # <<>> \/ msc_cb # Quiet \/ s_msc_queue # <<>> \/ worker # Quiet
    BY DEF PauseHasReason
  <2>1. Owed BY <1>3 DEF PauseIInv, PauseOwed
  <2>2. CASE worker.at # "idle" \/ msc_cb.at = "send" BY <2>2 DEF Quiet
  <2>3. CASE \E i \in 1..Len(s_msc_queue) : s_msc_queue[i].type = "connected"
    <3>1. Len(<<>>) = 0 OBVIOUS
    <3> QED BY <2>3, <3>1
  <2>4. CASE \E t \in Tasks : task[t].at \in AfterPause
    BY <1>3, <2>4, Alone DEF PauseIInv, AfterPause
  <2> QED BY <2>1, <2>2, <2>3, <2>4 DEF Owed
<1>4. Spec => [](News /\ ReadyAnnounced /\ PauseOwed)
  <2>1. IInv /\ (News /\ ReadyAnnounced /\ PauseOwed) /\ [Next]_vars
           => (News /\ ReadyAnnounced /\ PauseOwed)'
    BY <1>2 DEF PauseIInv
  <2> QED BY <1>1, <2>1, Inductive, PTL DEF Spec
<1>5. IInv /\ (News /\ ReadyAnnounced /\ PauseOwed) => PauseHasReason
  BY <1>3 DEF PauseIInv
<1> QED BY <1>4, <1>5, Inductive, PTL

=============================================================================
