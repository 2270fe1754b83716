-------------------------- MODULE WifiBridge_proof --------------------------
(***************************************************************************)
(* First the DNS responder by itself, whoever its owner is.  Then WifiBridge  *)
(* uses it only in ways CaptivePortal describes, so what is proved of it     *)
(* holds in the bridge; and the safety properties of the bridge, for every   *)
(* retry threshold, set of requests and number of failing calls.             *)
(***************************************************************************)
EXTENDS WifiBridge, TLAPS

\* The event is the i-th in the queue.
At(i, e) == i \in 1..Len(events) /\ events[i] = e

Queued(e) == \E i \in Nat : At(i, e)

\* Events and places of the event task that lead to the next try to connect.
Lost(i) == At(i, "STA_START") \/ At(i, "STA_DISCONNECTED")
Retry == {"connect", "start", "mode", "config", "flag"}

\* One try to connect at a time is owed to the station, and what the bridge believes of the
\* link is what the queue will make it believe.
Station ==
    /\ \A i \in Nat : Lost(i) => link = "idle" /\ task[Events] \notin Retry
    /\ \A i, j \in Nat : Lost(i) /\ Lost(j) => i = j
    /\ task[Events] \in Retry => link = "idle"
    /\ \A i \in Nat : At(i, "GOT_IP") =>
          link = "up" \/ \E j \in Nat : i < j /\ At(j, "STA_DISCONNECTED")
    /\ connected /\ link # "up" => Queued("STA_DISCONNECTED")
    /\ ~connected /\ link = "up" => Queued("GOT_IP")

\* The access point is on for the set-up only, when no call failed.
Mode ==
    faults = 0 /\ wifi_mode = "apsta" =>
        \/ s_provisioning \/ task[Events] \in {"leave", "config", "flag"}
        \/ task[Http] \in {"config", "flag"}

\* Without a set-up from the web page the event task alone opens the access point, and
\* nobody closes it.
Own ==
    ~setup_asked =>
        /\ task[Http] \notin {"start", "mode", "config", "flag"}
        /\ task[Events] # "leave"
        /\ task[Events] \in {"config", "flag"} => wifi_mode = "apsta"
        /\ s_provisioning => /\ wifi_mode = "apsta" /\ link = "idle"
                             /\ task[Events] \notin Retry
                             /\ ~Queued("GOT_IP") /\ ~Queued("STA_DISCONNECTED")
        /\ link = "idle" =>
              s_provisioning \/ task[Events] \in Retry \/ \E i \in Nat : Lost(i)

\* The responder was not used since the start.
Unused == call = "none" /\ ~s_dns_running /\ \A t \in Portal!Tasks : dns[t] = "none"

\* How the portal comes up with an access point of the bridge's own.
Opening ==
    ~setup_asked =>
        /\ ~Queued("AP_STOP") /\ call # "stop"
        /\ wifi_mode = "sta" => ~Queued("AP_START") /\ task[Events] \notin {"start_dns", "dns"}
        /\ \A i, j \in Nat : At(i, "AP_START") /\ At(j, "AP_START") => i = j
        /\ Queued("AP_START") => task[Events] \notin {"start_dns", "dns"}
        /\ wifi_mode = "sta" \/ Queued("AP_START") \/ task[Events] = "start_dns" => Unused
        /\ call = "start" => task[Events] = "dns" /\ \A t \in Portal!Tasks : dns[t] = "none"
        /\ faults = 0 => \A t \in Portal!Tasks : dns[t] # "unbound"
        /\ faults = 0 /\ wifi_mode = "apsta" =>
              \/ Queued("AP_START")
              \/ dhcp /\ task[Events] = "start_dns"
              \/ dhcp /\ s_dns_running

IInv == TypeOK /\ Station /\ Mode /\ Own

-----------------------------------------------------------------------------
(* The responder by itself, whoever its owner is: for every number of tasks  *)
(* and of failing calls.                                                   *)

\* A call that fails stays within the bound.
LEMMA FaultBounded ==
    ASSUME faults \in 0..MaxFaults, Portal!Fault
    PROVE  faults' \in 0..MaxFaults
BY DnsAssumption DEF Portal!PortalAssumption, Portal!Fault

\* Every variable keeps its type.
THEOREM ResponderTyped == Portal!Safety => []Portal!TypeOK
<1>1. Portal!Init => Portal!TypeOK
  <2>1. 0 \in 0..MaxFaults
    BY DnsAssumption DEF Portal!PortalAssumption
  <2> QED
    BY <2>1, Zenon DEF Portal!Init, Portal!TypeOK, Portal!Places
<1>2. Portal!TypeOK /\ [Portal!Next]_(Portal!vars) => Portal!TypeOK'
  <2> SUFFICES ASSUME Portal!TypeOK, [Portal!Next]_(Portal!vars)
               PROVE  Portal!TypeOK'
    OBVIOUS
  <2> USE DEF Portal!TypeOK, Portal!Goto, Portal!Places
  <2>1. CASE Portal!StartDns
    BY <2>1 DEF Portal!StartDns
  <2>2. CASE Portal!CreateTask
    <3>1. ASSUME NEW t \in Portal!Tasks, Portal!Goto(t, "socket")
          PROVE  dns' \in [Portal!Tasks -> Portal!Places]
      BY <3>1
    <3> QED
      BY <2>2, <3>1, FaultBounded, Zenon DEF Portal!CreateTask, Portal!CreateFails
  <2>3. CASE Portal!StopDns
    BY <2>3 DEF Portal!StopDns
  <2>4. CASE Portal!ShutDown
    BY <2>4 DEF Portal!ShutDown
  <2>5. ASSUME NEW t \in Portal!Tasks, Portal!dns_task(t)
        PROVE  Portal!TypeOK'
    <3>1. CASE Portal!OpenSocket(t)
      <4>1. dns' \in [Portal!Tasks -> Portal!Places]
        BY <3>1 DEF Portal!OpenSocket
      <4> QED
        BY <3>1, <4>1, FaultBounded, Zenon DEF Portal!OpenSocket
    <3>2. CASE Portal!Bind(t)
      <4>1. dns' \in [Portal!Tasks -> Portal!Places]
        BY <3>2 DEF Portal!Bind
      <4> QED
        BY <3>2, <4>1, FaultBounded, Zenon DEF Portal!Bind
    <3>3. CASE Portal!GiveUp(t) \/ Portal!CheckRunning(t) \/ Portal!Receive(t) \/ Portal!Close(t)
              \/ Portal!Forget(t)
      BY <3>3 DEF Portal!GiveUp, Portal!CheckRunning, Portal!Receive, Portal!Close, Portal!Forget
    <3> QED
      BY <2>5, <3>1, <3>2, <3>3 DEF Portal!dns_task
  <2>6. CASE Portal!Reboot
    BY <2>6 DEF Portal!Reboot
  <2>7. CASE Portal!Elsewhere
    BY <2>7, FaultBounded DEF Portal!Elsewhere
  <2>8. CASE UNCHANGED Portal!vars
    BY <2>8 DEF Portal!vars
  <2> QED
    BY <2>1, <2>2, <2>3, <2>4, <2>5, <2>6, <2>7, <2>8 DEF Portal!Next
<1> QED
  BY <1>1, <1>2, PTL DEF Portal!Safety

\* s_dns_running promises a task that will serve or will clear it: a task leaves the loop only
\* when it has seen the flag down, and gives up only by taking it down.
THEOREM ResponderServes == Portal!Safety => []Portal!RunningMeansServed
<1>1. Portal!Init => Portal!RunningMeansServed
  BY DEF Portal!Init, Portal!RunningMeansServed
<1>2. Portal!TypeOK /\ Portal!RunningMeansServed /\ [Portal!Next]_(Portal!vars)
      => Portal!RunningMeansServed'
  <2> SUFFICES ASSUME Portal!TypeOK, Portal!RunningMeansServed, [Portal!Next]_(Portal!vars)
               PROVE  Portal!RunningMeansServed'
    OBVIOUS
  <2> USE DEF Portal!TypeOK, Portal!RunningMeansServed, Portal!Goto
  <2>1. CASE Portal!StartDns
    BY <2>1 DEF Portal!StartDns
  <2>2. CASE Portal!CreateTask
    BY <2>2 DEF Portal!CreateTask, Portal!CreateFails
  <2>3. CASE Portal!StopDns
    BY <2>3 DEF Portal!StopDns
  <2>4. CASE Portal!ShutDown
    BY <2>4 DEF Portal!ShutDown
  <2>5. ASSUME NEW t \in Portal!Tasks, Portal!dns_task(t)
        PROVE  Portal!RunningMeansServed'
    <3>1. CASE Portal!OpenSocket(t) \/ Portal!GiveUp(t)
      BY <3>1 DEF Portal!OpenSocket, Portal!GiveUp
    <3>2. CASE Portal!Bind(t) \/ Portal!Receive(t) \/ Portal!Close(t) \/ Portal!Forget(t)
      BY <3>2 DEF Portal!Bind, Portal!Receive, Portal!Close, Portal!Forget
    <3>3. CASE Portal!CheckRunning(t)
      BY <3>3 DEF Portal!CheckRunning, Portal!GoesOn
    <3> QED
      BY <2>5, <3>1, <3>2, <3>3 DEF Portal!dns_task
  <2>6. CASE Portal!Reboot \/ Portal!Elsewhere
    BY <2>6 DEF Portal!Reboot, Portal!Elsewhere
  <2>7. CASE UNCHANGED Portal!vars
    BY <2>7 DEF Portal!vars
  <2> QED
    BY <2>1, <2>2, <2>3, <2>4, <2>5, <2>6, <2>7 DEF Portal!Next
<1> QED
  BY <1>1, <1>2, ResponderTyped, PTL DEF Portal!Safety

\* s_dns_socket never names the socket of a task that has ended, or has none yet, whatever
\* tasks overlap: a task ends only by emptying the variable, whosever socket it names.
THEOREM SocketNamed == Portal!Safety => []Portal!NoStaleSocket
<1>1. Portal!Init => Portal!NoStaleSocket
  BY DEF Portal!Init, Portal!NoStaleSocket
<1>2. Portal!TypeOK /\ Portal!NoStaleSocket /\ [Portal!Next]_(Portal!vars) => Portal!NoStaleSocket'
  <2> SUFFICES ASSUME Portal!TypeOK, Portal!NoStaleSocket, [Portal!Next]_(Portal!vars)
               PROVE  Portal!NoStaleSocket'
    OBVIOUS
  <2> USE DEF Portal!TypeOK, Portal!NoStaleSocket, Portal!Goto
  <2>1. CASE Portal!StartDns \/ Portal!StopDns
    BY <2>1 DEF Portal!StartDns, Portal!StopDns
  <2>2. CASE Portal!CreateTask
    BY <2>2 DEF Portal!CreateTask
  <2>3. CASE Portal!ShutDown
    BY <2>3 DEF Portal!ShutDown
  <2>4. ASSUME NEW t \in Portal!Tasks, Portal!dns_task(t)
        PROVE  Portal!NoStaleSocket'
    <3>1. CASE Portal!OpenSocket(t)
      BY <3>1 DEF Portal!OpenSocket
    <3>2. CASE Portal!GiveUp(t) \/ Portal!Forget(t)
      BY <3>2 DEF Portal!GiveUp, Portal!Forget
    <3>3. CASE Portal!Bind(t) \/ Portal!CheckRunning(t) \/ Portal!Receive(t) \/ Portal!Close(t)
      BY <3>3 DEF Portal!Bind, Portal!CheckRunning, Portal!Receive, Portal!Close
    <3> QED
      BY <2>4, <3>1, <3>2, <3>3 DEF Portal!dns_task
  <2>5. CASE Portal!Reboot \/ Portal!Elsewhere
    BY <2>5 DEF Portal!Reboot, Portal!Elsewhere
  <2>6. CASE UNCHANGED Portal!vars
    BY <2>6 DEF Portal!vars
  <2> QED
    BY <2>1, <2>2, <2>3, <2>4, <2>5, <2>6 DEF Portal!Next
<1> QED
  BY <1>1, <1>2, ResponderTyped, PTL DEF Portal!Safety

-----------------------------------------------------------------------------
(* The responder inside the bridge.                                         *)

\* The bridge calls the responder as CaptivePortal's owner does, from one task at a time.
LEMMA ResponderStep == [Next]_vars => [Portal!Next]_(Portal!vars)
<1> SUFFICES ASSUME [Next]_vars
             PROVE  Portal!Next \/ UNCHANGED Portal!vars
  OBVIOUS
<1> USE DEF Portal!vars, portal
<1>1. CASE \/ Connects \/ Disconnects \/ NewAddress \/ StaStart \/ StaDisconnected \/ Reconnect
           \/ GotIp \/ Answer \/ wifi_setup_start_handler \/ wifi_save_handler
           \/ esp32_restart_handler
  BY <1>1 DEF Connects, Disconnects, NewAddress, StaStart, StaDisconnected, Reconnect, GotIp,
     Answer, wifi_setup_start_handler, wifi_save_handler, esp32_restart_handler
<1>2. CASE \/ ConfigureDhcp \/ LeaveAp \/ SaveCredentials
           \/ \E t \in {Events, Http} : start_provisioning_ap(t)
  <2>1. (Portal!Fault /\ UNCHANGED portal) \/ UNCHANGED Portal!vars
    BY <1>2 DEF ConfigureDhcp, LeaveAp, SaveCredentials, start_provisioning_ap,
       StartProvisioning, SetApMode, SetApConfig, SetFlag
  <2> QED
    BY <2>1 DEF Portal!Fault, Portal!Elsewhere, Portal!Next
<1>3. CASE StartDns
  BY <1>3 DEF StartDns, Portal!StartDns, Portal!Next
<1>4. CASE ApStop
  BY <1>4 DEF ApStop, Portal!StopDns, Portal!Next
<1>5. CASE InDns
  BY <1>5 DEF InDns, Portal!Next
<1>6. ASSUME NEW t \in Portal!Tasks, DnsTask(t)
      PROVE  Portal!Next
  BY <1>6 DEF DnsTask, Portal!Next
<1>7. CASE Restart
  BY <1>7 DEF Restart, Portal!Next
<1>8. CASE UNCHANGED vars
  BY <1>8 DEF vars
<1> QED
  BY <1>1, <1>2, <1>3, <1>4, <1>5, <1>6, <1>7, <1>8 DEF Next, EventTask, HttpTask

\* Seen from the responder alone, the bridge is one of the owners CaptivePortal allows: every
\* start, stop and restart of wifi_bridge.c is a step of it or none at all.
THEOREM UsesResponder == Spec => Portal!Safety
<1>1. Init => Portal!Init
  BY DEF Init
<1> QED
  BY <1>1, ResponderStep, PTL DEF Spec, Portal!Safety

\* s_dns_running promises a task that serves or will clear it, whatever the events of the
\* driver and the web page make of the access point.
THEOREM Served == Spec => []RunningMeansServed
<1>1. Portal!RunningMeansServed <=> RunningMeansServed
  BY DEF RunningMeansServed
<1>2. Portal!Safety => []Portal!RunningMeansServed
  BY ResponderServes
<1> QED
  BY <1>1, <1>2, UsesResponder, PTL

-----------------------------------------------------------------------------
(* The queue of the event loop.                                             *)

LEMMA Posted ==
  ASSUME Types, NEW x \in Names, events' = Append(events, x)
  PROVE  /\ events' \in Seq(Names)
         /\ \A i \in Nat : \A e : At(i, e)' <=> At(i, e) \/ (i = Len(events) + 1 /\ e = x)
         /\ \A i \in Nat : \A e : At(i, e) => i < Len(events) + 1
         /\ Len(events) \in Nat
<1>1. events \in Seq(Names)
  BY DEF Types, Names
<1>2. /\ events' \in Seq(Names) /\ Len(events') = Len(events) + 1 /\ Len(events) \in Nat
      /\ \A i \in 1..Len(events) : events'[i] = events[i]
      /\ events'[Len(events) + 1] = x
  BY <1>1
<1> QED
  BY <1>2 DEF At

LEMMA Handled ==
  ASSUME Types, NEW x, Handle(x)
  PROVE  /\ events' \in Seq(Names) /\ task[Events] = "idle"
         /\ \A i \in Nat : \A e : At(i, e)' <=> i # 0 /\ At(i + 1, e)
         /\ \A e : At(1, e) <=> e = x
         /\ \A e : ~At(0, e)
<1>1. events \in Seq(Names) /\ events # <<>> /\ events[1] = x /\ events' = Tail(events)
  BY DEF Types, Names, Handle
<1>2. /\ events' \in Seq(Names) /\ Len(events') = Len(events) - 1
      /\ Len(events) \in Nat /\ Len(events) >= 1
      /\ \A i \in 1..(Len(events) - 1) : events'[i] = events[i + 1]
  BY <1>1
<1>3. \A i \in Nat : \A e : At(i, e)' <=> i # 0 /\ At(i + 1, e)
  BY <1>2 DEF At
<1>4. (\A e : At(1, e) <=> e = x) /\ \A e : ~At(0, e)
  BY <1>1, <1>2 DEF At
<1> QED
  BY <1>2, <1>3, <1>4 DEF Handle

-----------------------------------------------------------------------------
(* The station: what the bridge owes it and believes of it.                  *)

\* A task that does not touch link or queue keeps it, unless it starts to owe a try.
LEMMA StationKept ==
  ASSUME Station, UNCHANGED <<link, events, connected>>, task'[Events] \in Retry => task[Events] \in Retry
  PROVE  Station'
BY DEF Station, Queued, At, Lost

LEMMA StationOther ==
  ASSUME Types, Station, NEW x \in {"AP_START", "AP_STOP"}, events' = Append(events, x),
         UNCHANGED <<link, connected>>, task'[Events] \in Retry => task[Events] \in Retry
  PROVE  Station'
<1>1. /\ \A i \in Nat : \A e : At(i, e)' <=> At(i, e) \/ (i = Len(events) + 1 /\ e = x)
  BY Posted DEF Names
<1>2. \A i \in Nat : /\ At(i, "GOT_IP")' <=> At(i, "GOT_IP")
                     /\ At(i, "STA_DISCONNECTED")' <=> At(i, "STA_DISCONNECTED")
                     /\ At(i, "STA_START")' <=> At(i, "STA_START")
  BY <1>1
<1> QED
  BY <1>2 DEF Station, Queued, Lost

LEMMA StationDriver ==
  ASSUME Types, Station, Connects \/ Disconnects \/ NewAddress
  PROVE  Station'
<1>1. CASE Connects
  <2>1. /\ link = "connecting" /\ link' = "up" /\ task' = task /\ connected' = connected
        /\ \A i \in Nat : \A e : At(i, e)' <=> At(i, e) \/ (i = Len(events) + 1 /\ e = "GOT_IP")
        /\ Len(events) + 1 \in Nat
    BY <1>1, Posted DEF Connects, Names, wifi
  <2>2. PICK last \in Nat : last = Len(events) + 1
    BY <2>1
  <2>3. Queued("GOT_IP")'
    BY <2>1, <2>2 DEF Queued
  <2>4. task'[Events] \notin Retry /\ \A i \in Nat : ~Lost(i) /\ ~Lost(i)'
    BY <2>1 DEF Station, Lost
  <2> QED
    BY <2>1, <2>3, <2>4 DEF Station
<1>2. CASE Disconnects
  <2>1. /\ link # "idle" /\ link' = "idle" /\ task' = task /\ connected' = connected
        /\ \A i \in Nat : \A e :
              At(i, e)' <=> At(i, e) \/ (i = Len(events) + 1 /\ e = "STA_DISCONNECTED")
        /\ \A i \in Nat : \A e : At(i, e) => i < Len(events) + 1
        /\ Len(events) + 1 \in Nat
    BY <1>2, Posted DEF Disconnects, Names, wifi
  <2>2. PICK last \in Nat : last = Len(events) + 1
    BY <2>1
  <2>3. task'[Events] \notin Retry /\ \A i \in Nat : ~Lost(i)
    BY <2>1 DEF Station
  <2>4. \A i \in Nat : Lost(i)' <=> i = last
    BY <2>1, <2>2, <2>3 DEF Lost
  <2>5. Queued("STA_DISCONNECTED")'
    BY <2>1, <2>2 DEF Queued
  <2>6. \A i \in Nat : At(i, "GOT_IP")' => i < last /\ At(last, "STA_DISCONNECTED")'
    BY <2>1, <2>2
  <2> QED
    BY <2>1, <2>3, <2>4, <2>5, <2>6 DEF Station
<1>3. CASE NewAddress
  <2>1. /\ link = "up" /\ link' = "up" /\ task' = task /\ events' = <<"GOT_IP">>
    BY <1>3 DEF NewAddress
  <2>2. \A i \in Nat : \A e : At(i, e)' <=> i = 1 /\ e = "GOT_IP"
    BY <2>1 DEF At
  <2>3. task'[Events] \notin Retry
    BY <2>1 DEF Station
  <2> QED
    BY <2>1, <2>2, <2>3 DEF Station, Queued, Lost
<1> QED
  BY <1>1, <1>2, <1>3

\* What is in the queue once its first event is handled.
LEMMA HeadGone ==
  ASSUME Types, Station, NEW x \in Names, Handle(x)
  PROVE  /\ \A i \in Nat : Lost(i)' => Lost(i + 1)
         /\ \A i, j \in Nat : Lost(i)' /\ Lost(j)' => i = j
         /\ \A i \in Nat : At(i, "GOT_IP")' =>
               link = "up" \/ \E j \in Nat : i < j /\ At(j, "STA_DISCONNECTED")'
         /\ \A e : Queued(e)' => Queued(e)
         /\ \A e : Queued(e) => e = x \/ Queued(e)'
         /\ x = "GOT_IP" /\ link # "up" => Queued("STA_DISCONNECTED")'
<1>1. /\ \A i \in Nat : \A e : At(i, e)' <=> i # 0 /\ At(i + 1, e)
      /\ \A e : At(1, e) <=> e = x
      /\ \A e : ~At(0, e)
  BY Handled
<1>2. \A i \in Nat : Lost(i)' => Lost(i + 1)
  BY <1>1 DEF Lost
<1>3. \A i, j \in Nat : Lost(i)' /\ Lost(j)' => i = j
  <2> SUFFICES ASSUME NEW i \in Nat, NEW j \in Nat, Lost(i)', Lost(j)'
               PROVE  i = j
    OBVIOUS
  <2>1. i + 1 = j + 1
    BY <1>2 DEF Station
  <2> QED
    BY <2>1
<1>4. \A j \in Nat : \A e : At(j, e) /\ j # 1 => j - 1 \in Nat /\ At(j - 1, e)'
  <2> SUFFICES ASSUME NEW j \in Nat, NEW e, At(j, e), j # 1
               PROVE  j - 1 \in Nat /\ At(j - 1, e)'
    OBVIOUS
  <2>1. PICK i \in Nat : i + 1 = j /\ i # 0
    BY <1>1
  <2>2. At(i, e)' /\ i = j - 1
    BY <1>1, <2>1
  <2> QED
    BY <2>1, <2>2
<1>5. \A i \in Nat : At(i, "GOT_IP")' =>
         link = "up" \/ \E j \in Nat : i < j /\ At(j, "STA_DISCONNECTED")'
  <2> SUFFICES ASSUME NEW i \in Nat, At(i, "GOT_IP")', link # "up"
               PROVE  \E j \in Nat : i < j /\ At(j, "STA_DISCONNECTED")'
    OBVIOUS
  <2>1. PICK j \in Nat : i + 1 < j /\ At(j, "STA_DISCONNECTED")
    BY <1>1 DEF Station
  <2>2. j - 1 \in Nat /\ At(j - 1, "STA_DISCONNECTED")' /\ i < j - 1
    BY <1>4, <2>1
  <2> QED
    BY <2>2
<1>6. \A e : Queued(e)' => Queued(e)
  BY <1>1 DEF Queued
<1>7. \A e : Queued(e) => e = x \/ Queued(e)'
  <2> SUFFICES ASSUME NEW e, NEW j \in Nat, At(j, e), e # x
               PROVE  Queued(e)'
    BY DEF Queued
  <2>1. j - 1 \in Nat /\ At(j - 1, e)'
    BY <1>1, <1>4
  <2> QED
    BY <2>1 DEF Queued
<1>8. x = "GOT_IP" /\ link # "up" => Queued("STA_DISCONNECTED")'
  <2> SUFFICES ASSUME x = "GOT_IP", link # "up"
               PROVE  Queued("STA_DISCONNECTED")'
    OBVIOUS
  <2>1. \E j \in Nat : At(j, "STA_DISCONNECTED")
    BY <1>1 DEF Station
  <2> QED
    BY <1>7, <2>1 DEF Queued
<1> QED
  BY <1>2, <1>3, <1>5, <1>6, <1>7, <1>8

LEMMA StationEvents ==
  ASSUME Types, Station, StaStart \/ StaDisconnected \/ GotIp \/ ConfigureDhcp \/ ApStop
  PROVE  Station'
<1>1. CASE StaStart \/ StaDisconnected
  <2>1. PICK x \in {"STA_START", "STA_DISCONNECTED"} :
          /\ Handle(x)
          /\ IF x = "STA_START"
             THEN link' \in {link, "connecting"} /\ task' = task /\ connected' = connected
             ELSE link' = link /\ ~connected'
    BY <1>1 DEF StaStart, StaDisconnected, Connect, NotConnected, wifi
  <2>2. At(1, x) /\ task[Events] = "idle"
    BY <2>1, Handled
  <2>3. link = "idle" /\ \A i \in Nat : Lost(i) => i = 1
    BY <2>1, <2>2 DEF Station, Lost
  <2>4. \A i \in Nat : ~Lost(i)'
    <3> SUFFICES ASSUME NEW i \in Nat, Lost(i)'
                 PROVE  FALSE
      OBVIOUS
    <3>1. i + 1 = 1 /\ i # 0
      BY <2>1, <2>3, HeadGone, Handled DEF Names, Lost
    <3> QED
      BY <3>1
  <2>5. \A i \in Nat : ~At(i, "STA_DISCONNECTED")'
    BY <2>4 DEF Lost
  <2>6. \A i \in Nat : ~At(i, "GOT_IP")'
    BY <2>1, <2>3, <2>5, HeadGone DEF Names
  <2>7. link' # "up" /\ (task'[Events] \in Retry => link' = "idle")
    BY <2>1, <2>2, <2>3 DEF Retry
  <2>8. connected' => FALSE
    <3>1. CASE x = "STA_START"
      <4>1. Queued("STA_DISCONNECTED") => Queued("STA_DISCONNECTED")'
        BY <2>1, <3>1, HeadGone DEF Names
      <4> QED
        BY <2>1, <2>3, <2>5, <3>1, <4>1 DEF Station, Queued
    <3> QED
      BY <2>1, <3>1
  <2> QED
    BY <2>4, <2>6, <2>7, <2>8 DEF Station
<1>2. CASE GotIp
  <2>1. Handle("GOT_IP") /\ link' = link /\ connected' = TRUE
    BY <1>2 DEF GotIp
  <2>2. task'[Events] \notin Retry
    <3>1. task[Events] = "idle"
      BY <2>1, Handled
    <3> QED
      BY <1>2, <3>1 DEF GotIp, EndSetup, Goto, Types, Places, Retry, Events, Http
  <2>3. \A i \in Nat : Lost(i)' => link = "idle"
    BY <2>1, HeadGone DEF Names, Station
  <2> QED
    BY <2>1, <2>2, <2>3, HeadGone DEF Names, Station
<1>3. CASE ConfigureDhcp \/ ApStop
  <2>1. PICK x \in {"AP_START", "AP_STOP"} : Handle(x) /\ link' = link /\ connected' = connected
    BY <1>3 DEF ConfigureDhcp, ApStop, wifi
  <2>2. task'[Events] \notin Retry
    <3>1. task[Events] = "idle"
      BY <2>1, Handled
    <3> QED
      BY <1>3, <3>1 DEF ConfigureDhcp, ApStop, Goto, Types, Places, Retry, Events, Http
  <2>3. \A i \in Nat : Lost(i)' => link = "idle"
    BY <2>1, HeadGone DEF Names, Station
  <2> QED
    BY <2>1, <2>2, <2>3, HeadGone DEF Names, Station
<1> QED
  BY <1>1, <1>2, <1>3

\* start_provisioning_ap posts at most what the driver says of the access point.
LEMMA ProvisioningPosts ==
  ASSUME Types, NEW t \in {Events, Http}, start_provisioning_ap(t)
  PROVE  /\ \/ events' = events
            \/ events' = Append(events, "AP_START")
         /\ link' = link /\ connected' = connected
         /\ \A u \in {Events, Http} \ {t} : task'[u] = task[u]
         /\ task[t] \in {"start", "mode", "config", "flag"}
         /\ task'[t] \in {"mode", "config", "flag", "idle", "answer", "failed", "connect"}
BY DEF start_provisioning_ap, StartProvisioning, SetApMode, SetApConfig, SetFlag, SetMode, Goto, OK,
   Failed, Types, wifi, driver, Events, Http

LEMMA StationStep ==
  ASSUME Types, Station, [Next]_vars
  PROVE  Station'
<1>1. CASE Connects \/ Disconnects \/ NewAddress
  BY <1>1, StationDriver
<1>2. CASE StaStart \/ StaDisconnected \/ GotIp \/ ConfigureDhcp \/ ApStop
  BY <1>2, StationEvents
<1>3. CASE Reconnect
  <2>1. /\ task[Events] = "connect" /\ link = "idle" /\ link' = "connecting"
        /\ events' = events /\ connected' = connected
    BY <1>3 DEF Reconnect, Connect, wifi, Station, Retry
  <2>2. task'[Events] = "idle"
    BY <1>3 DEF Reconnect, Goto, Types
  <2>3. \A i \in Nat : ~Lost(i) /\ ~At(i, "STA_DISCONNECTED") /\ ~At(i, "GOT_IP")
    BY <2>1 DEF Station, Retry, Lost
  <2> QED
    BY <2>1, <2>2, <2>3 DEF Station, Queued, Lost, At, Retry
<1>4. ASSUME NEW t \in {Events, Http}, start_provisioning_ap(t)
      PROVE  Station'
  <2>1. task'[Events] \in Retry => task[Events] \in Retry
    BY <1>4, ProvisioningPosts DEF Retry
  <2> QED
    BY <1>4, <2>1, ProvisioningPosts, StationKept, StationOther
<1>5. CASE LeaveAp
  <2>1. events' = events \/ \E x \in {"AP_START", "AP_STOP"} : events' = Append(events, x)
    BY <1>5 DEF LeaveAp, SetMode
  <2>2. link' = link /\ connected' = connected /\ task'[Events] \notin Retry
    BY <1>5 DEF LeaveAp, wifi, Goto, Types, Places, Retry
  <2> QED
    BY <2>1, <2>2, StationKept, StationOther
<1>6. CASE StartDns \/ InDns \/ \E t \in Portal!Tasks : DnsTask(t)
  <2>1. UNCHANGED <<link, events, connected>> /\ (task'[Events] \in Retry => task[Events] \in Retry)
    BY <1>6 DEF StartDns, InDns, DnsTask, driver, wifi, Goto, Types, Places, Retry
  <2> QED
    BY <2>1, StationKept
<1>7. CASE \/ SaveCredentials \/ Answer \/ wifi_setup_start_handler \/ wifi_save_handler
           \/ esp32_restart_handler
  <2>1. UNCHANGED <<link, events, connected>> /\ task'[Events] = task[Events]
    BY <1>7 DEF SaveCredentials, Answer, wifi_setup_start_handler, wifi_save_handler,
       esp32_restart_handler, driver, wifi, Goto, Types, Events, Http
  <2> QED
    BY <2>1, StationKept
<1>8. CASE Restart
  <2>1. /\ link' = "idle" /\ connected' = FALSE /\ task'[Events] = "idle"
        /\ events' = <<"STA_START">> \/ events' = <<"STA_START", "AP_START">>
    BY <1>8 DEF Restart, Booted, Events, Http
  <2>2. \A i \in Nat : /\ (Lost(i)' <=> i = 1) /\ ~At(i, "GOT_IP")'
    BY <2>1 DEF Lost, At
  <2> QED
    BY <2>1, <2>2 DEF Station, Retry
<1>9. CASE UNCHANGED vars
  BY <1>9, StationKept DEF vars, driver, wifi
<1> QED
  BY <1>1, <1>2, <1>3, <1>4, <1>5, <1>6, <1>7, <1>8, <1>9 DEF Next, EventTask, HttpTask

-----------------------------------------------------------------------------
(* Types.                                                                   *)

LEMMA ModeTypes ==
  ASSUME Types, NEW mode \in {"sta", "apsta"}, SetMode(mode)
  PROVE  wifi_mode' = mode /\ events' \in Seq(Names)
<1>1. events \in Seq(Names)
  BY DEF Types, Names
<1>2. events' \in {events, Append(events, "AP_START"), Append(events, "AP_STOP")}
  BY DEF SetMode
<1>3. \A x \in Names : Append(events, x) \in Seq(Names)
  BY <1>1
<1> QED
  BY <1>1, <1>2, <1>3 DEF SetMode, Names

LEMMA TypesStep ==
  ASSUME Types, [Next]_vars
  PROVE  Types'
<1> USE DEF driver, wifi, system, Goto, Places
<1>0. events \in Seq(Names)
  BY DEF Types, Names
<1>1. CASE Connects \/ Disconnects
  <2>1. events' \in Seq(Names)
    BY <1>1, Posted DEF Connects, Disconnects, Names
  <2> QED
    BY <1>1, <2>1 DEF Connects, Disconnects, Types, Names
<1>2. CASE NewAddress
  <2>1. events' \in Seq(Names)
    BY <1>2 DEF NewAddress, Names
  <2> QED
    BY <1>2, <2>1 DEF NewAddress, Types, Names
<1>3. CASE StaStart \/ StaDisconnected \/ GotIp \/ ConfigureDhcp \/ ApStop
  <2>1. events' \in Seq(Names)
    BY <1>3, Handled DEF StaStart, StaDisconnected, GotIp, ConfigureDhcp, ApStop
  <2>2. task' \in [{Events, Http} -> Places]
    BY <1>3 DEF StaStart, StaDisconnected, GotIp, ConfigureDhcp, ApStop, EndSetup, Types
  <2>3. /\ s_provisioning' \in BOOLEAN /\ connected' \in BOOLEAN /\ dhcp' \in BOOLEAN
        /\ UNCHANGED <<nvs, restart, setup_asked, requests>>
    BY <1>3 DEF StaStart, StaDisconnected, GotIp, ConfigureDhcp, ApStop, NotConnected, Types
  <2>4. s_disconnect_count' \in Nat
    BY <1>3 DEF StaStart, StaDisconnected, GotIp, ConfigureDhcp, ApStop, Types
  <2>5. link' \in {"idle", "connecting", "up"} /\ wifi_mode' = wifi_mode
    BY <1>3 DEF StaStart, StaDisconnected, GotIp, ConfigureDhcp, ApStop, Connect, Types
  <2> QED
    BY <2>1, <2>2, <2>3, <2>4, <2>5 DEF Types
<1>4. CASE Reconnect \/ StartDns \/ InDns \/ \E t \in Portal!Tasks : DnsTask(t)
  BY <1>4 DEF Reconnect, StartDns, InDns, DnsTask, Connect, Types
<1>5. CASE LeaveAp
  <2>1. wifi_mode' \in {"sta", "apsta"} /\ events' \in Seq(Names)
    BY <1>0, <1>5, ModeTypes DEF LeaveAp, Types
  <2> QED
    BY <1>5, <2>1 DEF LeaveAp, Types, Names
<1>6. ASSUME NEW t \in {Events, Http}, start_provisioning_ap(t)
      PROVE  Types'
  <2>1. wifi_mode' \in {"sta", "apsta"} /\ events' \in Seq(Names)
    BY <1>0, <1>6, ModeTypes DEF start_provisioning_ap, StartProvisioning, SetApMode, SetApConfig,
       SetFlag, Types
  <2>2. task' \in [{Events, Http} -> Places]
    BY <1>6 DEF start_provisioning_ap, StartProvisioning, SetApMode, SetApConfig, SetFlag, OK, Failed,
       Types
  <2>3. s_provisioning' \in BOOLEAN /\ UNCHANGED <<link, connected, dhcp, s_disconnect_count, system>>
    BY <1>6 DEF start_provisioning_ap, StartProvisioning, SetApMode, SetApConfig, SetFlag, Types
  <2> QED
    BY <2>1, <2>2, <2>3 DEF Types
<1>7. CASE \/ SaveCredentials \/ Answer \/ wifi_setup_start_handler \/ wifi_save_handler
           \/ esp32_restart_handler
  <2>1. task' \in [{Events, Http} -> Places]
    BY <1>7 DEF SaveCredentials, Answer, wifi_setup_start_handler, wifi_save_handler,
       esp32_restart_handler, Types
  <2>2. requests' \in 0..MaxRequests
    BY <1>7, WifiAssumption DEF WifiAssumption, SaveCredentials, Answer, wifi_setup_start_handler,
       wifi_save_handler, esp32_restart_handler, Request, Types
  <2>3. nvs' \in BOOLEAN /\ restart' \in BOOLEAN /\ setup_asked' \in BOOLEAN
    BY <1>7 DEF SaveCredentials, Answer, wifi_setup_start_handler, wifi_save_handler,
       esp32_restart_handler, Request, Types
  <2>4. UNCHANGED <<driver, wifi>>
    BY <1>7 DEF SaveCredentials, Answer, wifi_setup_start_handler, wifi_save_handler,
       esp32_restart_handler
  <2> QED
    BY <2>1, <2>2, <2>3, <2>4 DEF Types
<1>8. CASE Restart
  <2>1. events' \in Seq(Names)
    <3>1. <<"STA_START">> \in Seq(Names) /\ <<"STA_START", "AP_START">> \in Seq(Names)
      BY DEF Names
    <3> QED
      BY <1>8, <3>1 DEF Restart, Booted
  <2>2. s_provisioning' \in BOOLEAN /\ nvs' \in BOOLEAN /\ wifi_mode' \in {"sta", "apsta"}
    BY <1>8 DEF Restart, Booted, Types
  <2>3. task' \in [{Events, Http} -> Places]
    BY <1>8 DEF Restart, Booted
  <2>4. /\ link' = "idle" /\ s_disconnect_count' = 0 /\ requests' = requests
        /\ connected' \in BOOLEAN /\ dhcp' \in BOOLEAN /\ restart' \in BOOLEAN
        /\ setup_asked' \in BOOLEAN
    BY <1>8 DEF Restart, Booted
  <2> QED
    BY <2>1, <2>2, <2>3, <2>4 DEF Types
<1>9. CASE UNCHANGED vars
  BY <1>9 DEF vars, Types
<1> QED
  BY <1>1, <1>2, <1>3, <1>4, <1>5, <1>6, <1>7, <1>8, <1>9 DEF Next, EventTask, HttpTask

-----------------------------------------------------------------------------
(* The access point.                                                        *)

LEMMA FaultsGrow ==
  ASSUME Portal!TypeOK, [Next]_vars
  PROVE  faults' = 0 => faults = 0
<1>1. faults \in Nat /\ (Portal!Fault => faults' # 0)
  BY DEF Portal!TypeOK, Portal!Fault
<1> QED
  BY <1>1 DEF Next, vars, portal, Connects, Disconnects, NewAddress, EventTask, HttpTask, StaStart, ConfigureDhcp,
     StartDns, ApStop, InDns, StaDisconnected, Reconnect, GotIp, LeaveAp, start_provisioning_ap,
     StartProvisioning, SetApMode, SetApConfig, SetFlag, SaveCredentials, Answer,
     wifi_setup_start_handler, wifi_save_handler, esp32_restart_handler, Restart, DnsTask,
     Portal!StartDns, Portal!StopDns, Portal!CreateTask, Portal!ShutDown, Portal!Reboot,
     Portal!dns_task, Portal!OpenSocket, Portal!Bind, Portal!GiveUp, Portal!CheckRunning,
     Portal!Receive, Portal!Close, Portal!Forget

LEMMA ModeStep ==
  ASSUME Types, Portal!TypeOK, Mode, [Next]_vars
  PROVE  Mode'
<1> SUFFICES ASSUME faults' = 0, wifi_mode' = "apsta"
             PROVE  \/ s_provisioning' \/ task'[Events] \in {"leave", "config", "flag"}
                    \/ task'[Http] \in {"config", "flag"}
  BY DEF Mode
<1> USE DEF driver, wifi, Goto, Types, Events, Http
<1>1. faults = 0 /\ ~Portal!Fault
  BY FaultsGrow DEF Portal!TypeOK, Portal!Fault
<1>2. CASE \/ Connects \/ Disconnects \/ NewAddress \/ StaStart \/ StaDisconnected \/ Reconnect
           \/ ConfigureDhcp \/ ApStop \/ StartDns \/ InDns \/ \E t \in Portal!Tasks : DnsTask(t)
           \/ UNCHANGED vars
  <2>1. /\ wifi_mode' = wifi_mode /\ s_provisioning' = s_provisioning
        /\ task'[Http] = task[Http]
        /\ task[Events] \in {"leave", "config", "flag"} => task'[Events] = task[Events]
    BY <1>2 DEF Connects, Disconnects, NewAddress, StaStart, StaDisconnected, Reconnect, ConfigureDhcp,
       ApStop, StartDns, InDns, DnsTask, Handle, vars
  <2> QED
    BY <1>1, <2>1 DEF Mode
<1>3. CASE GotIp
  <2>1. wifi_mode' = wifi_mode /\ task[Events] = "idle" /\ task'[Http] = task[Http]
    BY <1>3 DEF GotIp, EndSetup, Handle
  <2>2. s_provisioning => task'[Events] = "leave"
    BY <1>3 DEF GotIp, EndSetup
  <2> QED
    BY <1>1, <2>1, <2>2 DEF Mode
<1>4. CASE LeaveAp
  BY <1>1, <1>4 DEF LeaveAp, SetMode
<1>5. ASSUME NEW t \in {Events, Http}, start_provisioning_ap(t)
      PROVE  s_provisioning' \/ \E u \in {Events, Http} : task'[u] \in {"config", "flag"}
                             \/ task'[Events] = "leave"
  <2>1. CASE StartProvisioning(t)
    BY <1>1, <2>1 DEF StartProvisioning, OK, Mode
  <2>2. CASE SetApMode(t)
    BY <1>1, <2>2 DEF SetApMode
  <2>3. CASE SetApConfig(t)
    BY <1>1, <2>3 DEF SetApConfig
  <2>4. CASE SetFlag(t)
    BY <2>4 DEF SetFlag
  <2> QED
    BY <1>5, <2>1, <2>2, <2>3, <2>4 DEF start_provisioning_ap
<1>6. CASE \/ SaveCredentials \/ Answer \/ wifi_setup_start_handler \/ wifi_save_handler
           \/ esp32_restart_handler
  <2>1. /\ wifi_mode' = wifi_mode /\ s_provisioning' = s_provisioning
        /\ task'[Events] = task[Events]
        /\ task[Http] \notin {"config", "flag"}
    BY <1>6 DEF SaveCredentials, Answer, wifi_setup_start_handler, wifi_save_handler,
       esp32_restart_handler, Request
  <2> QED
    BY <1>1, <2>1 DEF Mode
<1>7. CASE Restart
  BY <1>7 DEF Restart, Booted
<1> QED
  BY <1>2, <1>3, <1>4, <1>5, <1>6, <1>7 DEF Next, EventTask, HttpTask

-----------------------------------------------------------------------------
(* Without a set-up from the web page.                                      *)

\* What the bridge does on its own: no task of the web page is in the set-up.
LEMMA OwnProvisioning ==
  ASSUME Types, Own, Station, NEW t \in {Events, Http}, start_provisioning_ap(t), ~setup_asked'
  PROVE  Own'
<1> USE DEF driver, wifi, system, Goto, Types, Events, Http
<1>1. ~setup_asked /\ t = Events /\ task'[Http] = task[Http] /\ link' = link
  <2>1. ~setup_asked
    BY DEF start_provisioning_ap, StartProvisioning, SetApMode, SetApConfig, SetFlag
  <2>2. t = Events
    BY <2>1, ProvisioningPosts DEF Own
  <2> QED
    BY <2>1, <2>2, ProvisioningPosts
<1>2. task[Events] \in Retry /\ link = "idle" /\ ~s_provisioning
  BY <1>1 DEF Own, Station, start_provisioning_ap, StartProvisioning, SetApMode, SetApConfig, SetFlag,
     Retry
<1>3. \A i \in Nat : ~Lost(i) /\ ~At(i, "GOT_IP") /\ ~At(i, "STA_DISCONNECTED")
  BY <1>2 DEF Station, Lost
<1>4. /\ \/ task'[Events] \in Retry /\ s_provisioning' = s_provisioning
         \/ s_provisioning' /\ task'[Events] = "idle" /\ wifi_mode' = wifi_mode /\ wifi_mode = "apsta"
            /\ events' = events
      /\ task'[Events] \in {"config", "flag"} => wifi_mode' = "apsta"
      /\ task'[Events] # "leave"
  BY <1>1, <1>2 DEF Own, start_provisioning_ap, StartProvisioning, SetApMode, SetApConfig, SetFlag, OK,
     Failed, Retry, SetMode
<1>5. s_provisioning' => ~Queued("GOT_IP")' /\ ~Queued("STA_DISCONNECTED")'
  BY <1>2, <1>3, <1>4 DEF Queued, At
<1> QED
  BY <1>1, <1>2, <1>4, <1>5 DEF Own, Retry

LEMMA OwnStep ==
  ASSUME Types, Station, Own, [Next]_vars
  PROVE  Own'
<1> SUFFICES ASSUME ~setup_asked'
             PROVE  Own'
  BY DEF Own
<1> USE DEF driver, wifi, system, Goto, Events, Http
<1>1. CASE Connects \/ Disconnects \/ NewAddress
  <2>1. PICK x \in Names : events' = Append(events, x) \/ (NewAddress /\ events' = <<x>>)
    BY <1>1 DEF Connects, Disconnects, NewAddress, Names
  <2>2. /\ link # "idle" /\ ~setup_asked /\ ~s_provisioning
        /\ UNCHANGED <<wifi_mode, s_provisioning, task>>
        /\ link' = "idle" => Disconnects
    BY <1>1 DEF Connects, Disconnects, NewAddress, Own
  <2>3. Disconnects => \E i \in Nat : Lost(i)'
    <3> SUFFICES ASSUME Disconnects
                 PROVE  \E i \in Nat : Lost(i)'
      OBVIOUS
    <3>1. PICK last \in Nat : last = Len(events) + 1
      BY DEF Types
    <3>2. At(last, "STA_DISCONNECTED")'
      BY <3>1, Posted DEF Disconnects, Names
    <3> QED
      BY <3>2 DEF Lost
  <2> QED
    BY <2>2, <2>3 DEF Own
<1>2. CASE StaStart \/ StaDisconnected \/ GotIp \/ ConfigureDhcp \/ ApStop
  <2>1. PICK x \in Names : /\ Handle(x)
                           /\ x = "STA_START" => StaStart
                           /\ x = "STA_DISCONNECTED" => StaDisconnected
                           /\ x = "GOT_IP" => GotIp
                           /\ x \in {"AP_START", "AP_STOP"} => ConfigureDhcp \/ ApStop
    BY <1>2 DEF StaStart, StaDisconnected, GotIp, ConfigureDhcp, ApStop, Names, Handle
  <2>2. ~setup_asked /\ task[Events] = "idle" /\ task'[Http] = task[Http] /\ wifi_mode' = wifi_mode
    BY <1>2, <2>1, Handled DEF StaStart, StaDisconnected, GotIp, ConfigureDhcp, ApStop, EndSetup, Types
  <2>3. At(1, x)
    BY <2>1, Handled
  <2>4. s_provisioning => x \notin {"GOT_IP", "STA_DISCONNECTED"}
    BY <2>2, <2>3 DEF Own, Queued
  <2>5. CASE x = "STA_START"
    BY <2>1, <2>2, <2>5, HeadGone DEF StaStart, Connect, Own, Retry, Types
  <2>6. CASE x = "STA_DISCONNECTED"
    <3>1. task'[Events] \in Retry /\ ~s_provisioning' /\ task'[Events] \notin {"config", "flag", "leave"}
      BY <2>1, <2>4, <2>6 DEF StaDisconnected, Retry, Types
    <3> QED
      BY <2>2, <3>1 DEF Own
  <2>7. CASE x = "GOT_IP"
    <3>1. ~s_provisioning' /\ task'[Events] = "idle" /\ link' = link
      BY <2>1, <2>2, <2>4, <2>7 DEF GotIp, EndSetup, Types
    <3>2. link = "idle" => \E i \in Nat : Lost(i)'
      <4>1. link = "idle" => Queued("STA_DISCONNECTED")'
        BY <2>1, <2>7, HeadGone
      <4> QED
        BY <4>1 DEF Queued, Lost
    <3> QED
      BY <2>2, <3>1, <3>2 DEF Own
  <2>8. CASE x \in {"AP_START", "AP_STOP"}
    <3>1. /\ s_provisioning' = s_provisioning /\ link' = link
          /\ task'[Events] \in {"idle", "start_dns", "dns"}
      BY <2>1, <2>2, <2>8 DEF ConfigureDhcp, ApStop, Types
    <3>2. (\E i \in Nat : Lost(i)) => \E i \in Nat : Lost(i)'
      <4>1. \A e : e # x /\ Queued(e) => Queued(e)'
        BY <2>1, HeadGone
      <4> QED
        BY <2>8, <4>1 DEF Queued, Lost
    <3>3. \A e : Queued(e)' => Queued(e)
      BY <2>1, HeadGone
    <3> QED
      BY <2>2, <3>1, <3>2, <3>3 DEF Own, Retry
  <2> QED
    BY <2>5, <2>6, <2>7, <2>8 DEF Names
<1>3. CASE Reconnect
  <2>1. /\ task[Events] = "connect" /\ link' = "connecting" /\ task'[Events] = "idle"
        /\ task'[Http] = task[Http] /\ s_provisioning' = s_provisioning /\ ~setup_asked
    BY <1>3 DEF Reconnect, Connect, Types
  <2> QED
    BY <2>1 DEF Own, Retry
<1>4. ASSUME NEW t \in {Events, Http}, start_provisioning_ap(t)
      PROVE  Own'
  BY <1>4, OwnProvisioning
<1>5. CASE StartDns \/ InDns \/ \E t \in Portal!Tasks : DnsTask(t)
  <2>1. /\ UNCHANGED <<link, events, wifi_mode, s_provisioning, setup_asked>>
        /\ task'[Http] = task[Http]
        /\ \/ task' = task
           \/ task[Events] \in {"start_dns", "dns"} /\ task'[Events] \in {"dns", "idle"}
    BY <1>5 DEF StartDns, InDns, DnsTask, Types
  <2> QED
    BY <2>1 DEF Own, Queued, At, Lost, Retry
<1>6. CASE LeaveAp
  BY <1>6 DEF LeaveAp, Own
<1>7. CASE \/ SaveCredentials \/ Answer \/ wifi_setup_start_handler \/ wifi_save_handler
           \/ esp32_restart_handler
  <2>1. /\ UNCHANGED <<link, events, wifi_mode, s_provisioning>> /\ ~setup_asked
        /\ task'[Events] = task[Events] /\ task'[Http] \notin {"start", "mode", "config", "flag"}
    BY <1>7 DEF SaveCredentials, Answer, wifi_setup_start_handler, wifi_save_handler,
       esp32_restart_handler, Request, Types
  <2> QED
    BY <2>1 DEF Own, Queued, At, Lost
<1>8. CASE Restart
  <2>1. /\ link' = "idle" /\ task'[Events] = "idle" /\ task'[Http] = "idle"
        /\ s_provisioning' => wifi_mode' = "apsta"
        /\ events' = <<"STA_START">> \/ events' = <<"STA_START", "AP_START">>
    BY <1>8 DEF Restart, Booted
  <2>2. /\ \A i \in Nat : ~At(i, "GOT_IP")' /\ ~At(i, "STA_DISCONNECTED")'
        /\ Lost(1)'
    BY <2>1 DEF At, Lost
  <2> QED
    BY <2>1, <2>2 DEF Own, Queued, Retry
<1>9. CASE UNCHANGED vars
  BY <1>9 DEF vars, Own, Queued, At, Lost
<1> QED
  BY <1>1, <1>2, <1>3, <1>4, <1>5, <1>6, <1>7, <1>8, <1>9 DEF Next, EventTask, HttpTask

-----------------------------------------------------------------------------
(* The portal that comes with the bridge's own access point.                *)

Once(e) == \A i, j \in Nat : At(i, e) /\ At(j, e) => i = j

\* Nothing of the portal and of what is queued for it changes.
LEMMA OpeningKept ==
  ASSUME Opening, ~setup_asked, faults' = 0 => faults = 0, Once("AP_START")',
         Queued("AP_START")' <=> Queued("AP_START"), Queued("AP_STOP")' => Queued("AP_STOP"),
         UNCHANGED <<wifi_mode, dhcp, call, s_dns_running, dns>>,
         task'[Events] = task[Events] \/ {task[Events], task'[Events]} \cap {"start_dns", "dns"} = {}
  PROVE  Opening'
BY DEF Opening, Once, Unused

LEMMA QueueKept ==
  ASSUME Opening, ~setup_asked, events' = events
  PROVE  /\ Once("AP_START")' /\ (Queued("AP_START")' <=> Queued("AP_START"))
         /\ Queued("AP_STOP")' => Queued("AP_STOP")
BY DEF Opening, Once, Queued, At

\* The i-th event of the queue becomes the one before.
LEMMA OnceHandled ==
  ASSUME Types, Opening, ~setup_asked, NEW x \in Names, Handle(x)
  PROVE  /\ Once("AP_START")'
         /\ x = "AP_START" => ~Queued("AP_START")'
<1>1. /\ \A i \in Nat : \A e : At(i, e)' <=> i # 0 /\ At(i + 1, e)
      /\ \A e : At(1, e) <=> e = x
  BY Handled
<1>2. \A i, j \in Nat : At(i, "AP_START") /\ At(j, "AP_START") => i = j
  BY DEF Opening
<1>3. Once("AP_START")'
  <2> SUFFICES ASSUME NEW i \in Nat, NEW j \in Nat, At(i, "AP_START")', At(j, "AP_START")'
               PROVE  i = j
    BY DEF Once
  <2>1. i + 1 = j + 1
    BY <1>1, <1>2
  <2> QED
    BY <2>1
<1>4. x = "AP_START" => ~Queued("AP_START")'
  <2> SUFFICES ASSUME x = "AP_START", NEW i \in Nat, At(i, "AP_START")'
               PROVE  FALSE
    BY DEF Queued
  <2>1. i + 1 = 1 /\ i # 0
    BY <1>1, <1>2
  <2> QED
    BY <2>1
<1> QED
  BY <1>3, <1>4

LEMMA OpeningDriver ==
  ASSUME Types, Station, Opening, ~setup_asked,
         Connects \/ Disconnects \/ NewAddress \/ StaStart \/ StaDisconnected \/ GotIp
  PROVE  Opening'
<1> USE DEF driver, wifi, system, portal, Goto, Events, Http
<1>1. UNCHANGED <<wifi_mode, dhcp, call, s_dns_running, dns, faults>>
  BY DEF Connects, Disconnects, NewAddress, StaStart, StaDisconnected, GotIp
<1>2. CASE Connects \/ Disconnects
  <2>1. PICK x \in {"GOT_IP", "STA_DISCONNECTED"} : events' = Append(events, x) /\ task' = task
    BY <1>2 DEF Connects, Disconnects
  <2>2. \A i \in Nat : \A e : At(i, e)' <=> At(i, e) \/ (i = Len(events) + 1 /\ e = x)
    BY <2>1, Posted DEF Names
  <2>3. \A i \in Nat : \A e \in {"AP_START", "AP_STOP"} : At(i, e)' <=> At(i, e)
    BY <2>2
  <2> QED
    BY <1>1, <2>1, <2>3, OpeningKept DEF Opening, Once, Queued
<1>3. CASE NewAddress
  <2>1. events = <<>> /\ events' = <<"GOT_IP">> /\ task' = task
    BY <1>3 DEF NewAddress
  <2>2. \A i \in Nat : \A e \in {"AP_START", "AP_STOP"} : ~At(i, e)' /\ ~At(i, e)
    BY <2>1 DEF At
  <2> QED
    BY <1>1, <2>1, <2>2, OpeningKept DEF Once, Queued
<1>4. CASE StaStart \/ StaDisconnected \/ GotIp
  <2>1. PICK x \in {"STA_START", "STA_DISCONNECTED", "GOT_IP"} : Handle(x)
    BY <1>4 DEF StaStart, StaDisconnected, GotIp
  <2>2. /\ Queued("AP_START")' <=> Queued("AP_START")
        /\ Queued("AP_STOP")' => Queued("AP_STOP")
        /\ Once("AP_START")'
    BY <2>1, HeadGone, OnceHandled DEF Names
  <2>3. task[Events] = "idle" /\ task'[Events] \notin {"start_dns", "dns"}
    BY <1>4, <2>1, Handled DEF StaStart, StaDisconnected, GotIp, EndSetup, Types
  <2> QED
    BY <1>1, <2>2, <2>3, OpeningKept
<1> QED
  BY <1>2, <1>3, <1>4

LEMMA OpeningProvisioning ==
  ASSUME Types, Portal!TypeOK, Own, Opening, ~setup_asked, faults' = 0 => faults = 0,
         start_provisioning_ap(Events)
  PROVE  Opening'
<1> USE DEF driver, wifi, system, portal, Goto, Events, Http
<1>1. /\ UNCHANGED <<dhcp, call, s_dns_running, dns>>
      /\ {task[Events], task'[Events]} \cap {"start_dns", "dns"} = {}
  BY DEF start_provisioning_ap, StartProvisioning, SetApMode, SetApConfig, SetFlag, OK, Failed, Types
<1>2. CASE wifi_mode' = wifi_mode /\ events' = events
  BY <1>1, <1>2, QueueKept, OpeningKept
<1>3. CASE ~(wifi_mode' = wifi_mode /\ events' = events)
  <2>1. SetApMode(Events) /\ SetMode("apsta") /\ wifi_mode = "sta"
    <3>1. SetApMode(Events) \/ (wifi_mode' = wifi_mode /\ events' = events)
      BY Zenon DEF start_provisioning_ap, StartProvisioning, SetApConfig, SetFlag
    <3>2. SetMode("apsta")
      BY <1>3, <3>1, Zenon DEF SetApMode
    <3>3. wifi_mode # "apsta"
      BY <1>3, <3>2 DEF SetMode
    <3> QED
      BY <1>3, <3>1, <3>2, <3>3 DEF Types
  <2>2. events' = Append(events, "AP_START") /\ wifi_mode' = "apsta"
    BY <2>1 DEF SetMode
  <2>3. /\ \A i \in Nat : \A e : At(i, e)' <=> At(i, e) \/ (i = Len(events) + 1 /\ e = "AP_START")
        /\ Len(events) \in Nat
    BY <2>2, Posted DEF Names
  <2>4. PICK last \in Nat : last = Len(events) + 1
    BY <2>3
  <2>5. ~Queued("AP_START") /\ ~Queued("AP_STOP") /\ Unused
    BY <2>1 DEF Opening
  <2>6. \A i \in Nat : (At(i, "AP_START")' <=> i = last) /\ ~At(i, "AP_STOP")'
    BY <2>3, <2>4, <2>5 DEF Queued
  <2>7. Queued("AP_START")' /\ ~Queued("AP_STOP")' /\ Unused'
    BY <1>1, <2>5, <2>6 DEF Queued, Unused
  <2> QED
    BY <1>1, <2>2, <2>6, <2>7 DEF Opening, Unused
<1> QED
  BY <1>2, <1>3

LEMMA OpeningPortal ==
  ASSUME MaxTasks > 0, Types, Portal!TypeOK, Station, Mode, Own, Opening, ~setup_asked,
         faults' = 0 => faults = 0,
         ConfigureDhcp \/ StartDns \/ InDns \/ \E t \in Portal!Tasks : DnsTask(t)
  PROVE  Opening'
<1> USE DEF driver, wifi, system, portal, Goto, Events, Http
<1>1. CASE ConfigureDhcp
  <2>1. /\ Handle("AP_START") /\ task[Events] = "idle"
        /\ UNCHANGED <<wifi_mode, s_provisioning, call, s_dns_running, dns>>
    BY <1>1, Handled DEF ConfigureDhcp
  <2>2. Queued("AP_START")
    <3>1. At(1, "AP_START")
      BY <2>1, Handled
    <3> QED
      BY <3>1 DEF Queued
  <2>3. Unused /\ wifi_mode = "apsta"
    BY <2>2 DEF Opening, Types
  <2>4. /\ Once("AP_START")' /\ ~Queued("AP_START")' /\ ~Queued("AP_STOP")'
    BY <2>1, HeadGone, OnceHandled DEF Names, Opening
  <2>5. faults' = 0 => dhcp' /\ task'[Events] = "start_dns"
    <3> SUFFICES ASSUME faults' = 0
                 PROVE  dhcp' /\ task'[Events] = "start_dns"
      OBVIOUS
    <3>1. s_provisioning
      BY <2>1, <2>3 DEF Mode, Own
    <3>2. ~Portal!Fault
      BY DEF Portal!Fault, Portal!TypeOK
    <3> QED
      BY <1>1, <3>1, <3>2 DEF ConfigureDhcp, InSetup, Types
  <2>6. task'[Events] \in {"idle", "start_dns"}
    BY <1>1, <2>1 DEF ConfigureDhcp, Types
  <2> QED
    BY <2>1, <2>3, <2>4, <2>5, <2>6 DEF Opening, Unused, Once
<1>2. CASE StartDns
  <2>1. /\ task[Events] = "start_dns" /\ task'[Events] = "dns" /\ s_dns_running'
        /\ UNCHANGED <<events, wifi_mode, dhcp, dns, faults>>
    BY <1>2 DEF StartDns, Portal!StartDns, Types
  <2>2. Unused /\ ~Queued("AP_START") /\ wifi_mode = "apsta"
    BY <2>1 DEF Opening, Types
  <2>3. call' = "start"
    BY <1>2, <2>2 DEF StartDns, Portal!StartDns, Unused
  <2>4. Once("AP_START")' /\ ~Queued("AP_START")' /\ ~Queued("AP_STOP")'
    BY <2>1, <2>2, QueueKept DEF Opening
  <2> QED
    BY <2>1, <2>2, <2>3, <2>4 DEF Opening, Once, Unused
<1>3. CASE InDns
  <2>1. /\ task[Events] = "dns" /\ task'[Events] \in {"dns", "idle"} /\ call # "stop"
        /\ UNCHANGED <<events, wifi_mode, dhcp>> /\ wifi_mode = "apsta" /\ ~Queued("AP_START")
    BY <1>3 DEF InDns, Types, Opening
  <2>2. Once("AP_START")' /\ ~Queued("AP_START")' /\ ~Queued("AP_STOP")'
    BY <2>1, QueueKept DEF Opening
  <2>3. call' = "none"
    BY <1>3, <2>1 DEF InDns, Portal!CreateTask, Portal!ShutDown
  <2>4. /\ faults' = 0 => s_dns_running' = s_dns_running
        /\ faults' = 0 => \A t \in Portal!Tasks : dns'[t] # "unbound"
    <3> SUFFICES ASSUME faults' = 0
                 PROVE  /\ s_dns_running' = s_dns_running
                        /\ \A t \in Portal!Tasks : dns'[t] # "unbound"
      OBVIOUS
    <3>1. ~Portal!Fault /\ \A t \in Portal!Tasks : dns[t] # "unbound"
      BY DEF Portal!Fault, Portal!TypeOK, Opening
    <3>2. CASE Portal!CreateTask
      <4>1. 1 \in Portal!Tasks /\ dns[1] = "none"
        <5>1. 1 \in Portal!Tasks
          BY DnsAssumption DEF Portal!PortalAssumption, Portal!Tasks
        <5> QED
          BY <3>2, <5>1 DEF Portal!CreateTask, Opening
      <4> QED
        BY <3>1, <3>2, <4>1 DEF Portal!CreateTask, Portal!Goto, Portal!TypeOK
    <3>3. CASE call = "none" /\ UNCHANGED portal
      BY <3>1, <3>3
    <3> QED
      BY <1>3, <2>1, <3>2, <3>3 DEF InDns, Portal!ShutDown
  <2> QED
    BY <2>1, <2>2, <2>3, <2>4 DEF Opening, Once, Unused
<1>4. ASSUME NEW t \in Portal!Tasks, DnsTask(t)
      PROVE  Opening'
  <2>1. /\ UNCHANGED <<events, wifi_mode, dhcp, task, call>> /\ dns[t] # "none"
    BY <1>4 DEF DnsTask, Portal!dns_task, Portal!OpenSocket, Portal!Bind, Portal!GiveUp,
       Portal!CheckRunning, Portal!Receive, Portal!Close, Portal!Forget
  <2>2. Once("AP_START")' /\ (Queued("AP_START")' <=> Queued("AP_START"))
        /\ (Queued("AP_STOP")' => Queued("AP_STOP"))
    BY <2>1, QueueKept
  <2>3. /\ wifi_mode # "sta" /\ ~Queued("AP_START") /\ task[Events] # "start_dns" /\ call # "start"
    BY <2>1 DEF Opening, Unused
  <2>4. faults' = 0 => /\ s_dns_running' = s_dns_running
                       /\ \A u \in Portal!Tasks : dns'[u] # "unbound"
    <3> SUFFICES ASSUME faults' = 0
                 PROVE  /\ s_dns_running' = s_dns_running
                        /\ \A u \in Portal!Tasks : dns'[u] # "unbound"
      OBVIOUS
    <3>1. ~Portal!Fault /\ \A u \in Portal!Tasks : dns[u] # "unbound"
      BY DEF Portal!Fault, Portal!TypeOK, Opening
    <3> QED
      BY <1>4, <3>1 DEF DnsTask, Portal!dns_task, Portal!OpenSocket, Portal!Bind, Portal!GiveUp,
         Portal!CheckRunning, Portal!Receive, Portal!Close, Portal!Forget, Portal!Goto,
         Portal!TypeOK
  <2> QED
    BY <2>1, <2>2, <2>3, <2>4 DEF Opening, Once
<1> QED
  BY <1>1, <1>2, <1>3, <1>4

LEMMA OpeningStep ==
  ASSUME MaxTasks > 0, IInv, Opening, [Next]_vars
  PROVE  Opening'
<1> SUFFICES ASSUME ~setup_asked'
             PROVE  Opening'
  BY DEF Opening
<1> USE DEF driver, wifi, system, portal, Goto, Events, Http
<1>0. Types /\ Portal!TypeOK /\ Station /\ Mode /\ Own /\ (faults' = 0 => faults = 0)
  BY FaultsGrow DEF IInv, TypeOK
<1>1. CASE Restart
  <2>1. /\ task'[Events] = "idle" /\ call' = "none" /\ Unused' /\ faults' = faults
        /\ \/ wifi_mode' = "sta" /\ events' = <<"STA_START">>
           \/ wifi_mode' = "apsta" /\ events' = <<"STA_START", "AP_START">>
    BY <1>1 DEF Restart, Booted, Portal!Reboot, Unused
  <2>2. \A i \in Nat : /\ At(i, "AP_START")' <=> i = 2 /\ wifi_mode' = "apsta"
                       /\ ~At(i, "AP_STOP")'
    BY <2>1 DEF At
  <2> QED
    BY <2>1, <2>2 DEF Opening, Queued, Unused
<1>2. CASE ~Restart
  <2>0. ~setup_asked
    BY <1>2 DEF Next, vars, Connects, Disconnects, NewAddress, EventTask, HttpTask, StaStart,
       ConfigureDhcp, StartDns, ApStop, InDns, StaDisconnected, Reconnect, GotIp, LeaveAp,
       start_provisioning_ap, StartProvisioning, SetApMode, SetApConfig, SetFlag, SaveCredentials,
       Answer, wifi_setup_start_handler, wifi_save_handler, esp32_restart_handler, Request, DnsTask
  <2>1. CASE Connects \/ Disconnects \/ NewAddress \/ StaStart \/ StaDisconnected \/ GotIp
    BY <1>0, <2>0, <2>1, OpeningDriver
  <2>2. CASE ConfigureDhcp \/ StartDns \/ InDns \/ \E t \in Portal!Tasks : DnsTask(t)
    BY <1>0, <2>0, <2>2, OpeningPortal
  <2>3. ASSUME NEW t \in {Events, Http}, start_provisioning_ap(t)
        PROVE  Opening'
    <3>1. t = Events
      BY <1>0, <2>0, <2>3, ProvisioningPosts DEF Own
    <3> QED
      BY <1>0, <2>0, <2>3, <3>1, OpeningProvisioning
  <2>4. CASE ApStop
    <3>1. At(1, "AP_STOP")
      BY <1>0, <2>4, Handled DEF ApStop, Names
    <3> QED
      BY <2>0, <3>1 DEF Opening, Queued
  <2>5. CASE LeaveAp
    BY <1>0, <2>0, <2>5 DEF LeaveAp, Own
  <2>6. CASE \/ Reconnect \/ SaveCredentials \/ Answer \/ wifi_setup_start_handler
             \/ wifi_save_handler \/ esp32_restart_handler \/ UNCHANGED vars
    <3>1. /\ UNCHANGED <<events, wifi_mode, dhcp, call, s_dns_running, dns>>
          /\ \/ task'[Events] = task[Events]
             \/ task[Events] = "connect" /\ task'[Events] = "idle"
      BY <1>0, <2>6 DEF Reconnect, SaveCredentials, Answer, wifi_setup_start_handler,
         wifi_save_handler, esp32_restart_handler, vars, Types
    <3>2. \/ task'[Events] = task[Events]
          \/ {task[Events], task'[Events]} \cap {"start_dns", "dns"} = {}
      BY <3>1
    <3> QED
      BY <1>0, <2>0, <3>1, <3>2, QueueKept, OpeningKept
  <2> QED
    BY <1>2, <2>1, <2>2, <2>3, <2>4, <2>5, <2>6 DEF Next, EventTask, HttpTask
<1> QED
  BY <1>1, <1>2

-----------------------------------------------------------------------------
(* The theorems.                                                            *)

LEMMA FirstEvents ==
  ASSUME Init
  PROVE  /\ \A i \in Nat : \A e : At(i, e) <=> \/ i = 1 /\ e = "STA_START"
                                               \/ i = 2 /\ e = "AP_START" /\ wifi_mode = "apsta"
         /\ events \in Seq(Names)
<1>1. \/ wifi_mode = "sta" /\ events = <<"STA_START">>
      \/ wifi_mode = "apsta" /\ events = <<"STA_START", "AP_START">>
  BY DEF Init
<1>2. CASE wifi_mode = "sta"
  <2>1. events = <<"STA_START">>
    BY <1>1, <1>2
  <2>2. events \in Seq(Names)
    BY <2>1 DEF Names
  <2>3. \A i \in Nat : \A e : At(i, e) <=> i = 1 /\ e = "STA_START"
    BY <2>1 DEF At
  <2> QED
    BY <1>2, <2>2, <2>3
<1>3. CASE wifi_mode = "apsta"
  <2>1. events = <<"STA_START", "AP_START">>
    BY <1>1, <1>3
  <2>2. events \in Seq(Names)
    BY <2>1 DEF Names
  <2>3. Len(events) = 2 /\ events[1] = "STA_START" /\ events[2] = "AP_START"
    BY <2>1
  <2>4. \A i \in Nat : \A e : At(i, e) <=> \/ i = 1 /\ e = "STA_START"
                                           \/ i = 2 /\ e = "AP_START"
    BY <2>3 DEF At
  <2> QED
    BY <1>3, <2>2, <2>4
<1> QED
  BY <1>1, <1>2, <1>3

LEMMA InitInv == Init => Types /\ Station /\ Mode /\ Own /\ Opening
<1> SUFFICES ASSUME Init
             PROVE  Types /\ Station /\ Mode /\ Own /\ Opening
  OBVIOUS
<1>1. /\ nvs \in BOOLEAN /\ (nvs => wifi_mode = "sta") /\ (~nvs => wifi_mode = "apsta")
      /\ (s_provisioning <=> ~nvs) /\ s_provisioning \in BOOLEAN
      /\ link = "idle" /\ ~connected /\ connected \in BOOLEAN /\ s_disconnect_count = 0
      /\ dhcp \in BOOLEAN /\ restart \in BOOLEAN /\ setup_asked \in BOOLEAN /\ requests = 0
      /\ task = [t \in {Events, Http} |-> "idle"]
  BY DEF Init
<1>2. Unused /\ faults = 0
  BY DEF Init, Portal!Init, Unused
<1>3. Types
  BY <1>1, FirstEvents, WifiAssumption DEF Types, WifiAssumption, Places
<1>4. task[Events] = "idle" /\ task[Http] = "idle"
  BY <1>1
<1>5. \A i \in Nat : /\ (Lost(i) <=> i = 1) /\ ~At(i, "GOT_IP") /\ ~At(i, "STA_DISCONNECTED")
                     /\ ~At(i, "AP_STOP") /\ (At(i, "AP_START") <=> i = 2 /\ wifi_mode = "apsta")
  BY FirstEvents DEF Lost
<1>6. Station
  BY <1>1, <1>4, <1>5 DEF Station, Retry
<1>7. Mode
  BY <1>1 DEF Mode
<1>8. Own
  BY <1>1, <1>4, <1>5 DEF Own, Retry, Queued
<1>9. Opening
  BY <1>1, <1>2, <1>4, <1>5 DEF Opening, Queued, Unused
<1> QED
  BY <1>3, <1>6, <1>7, <1>8, <1>9

LEMMA ResponderStaysTyped == Spec => []Portal!TypeOK
<1>1. Portal!Safety => []Portal!TypeOK
  BY ResponderTyped
<1> QED
  BY <1>1, UsesResponder, PTL


LEMMA Inductive == Spec => []IInv
<1> DEFINE Rest == Types /\ Station /\ Mode /\ Own
<1>1. Init => Rest
  BY InitInv
<1>2. Portal!TypeOK /\ Rest /\ [Next]_vars => Rest'
  BY StationStep, TypesStep, ModeStep, OwnStep DEF IInv, TypeOK
<1>3. Portal!TypeOK /\ Rest => IInv
  BY DEF IInv, TypeOK
<1> QED
  <2> HIDE DEF Rest
  <2> QED
    BY <1>1, <1>2, <1>3, ResponderStaysTyped, PTL DEF Spec

\* The variables keep their types; an event is posted only as one of the five the handler
\* of wifi_bridge.c knows.
THEOREM TypeCorrect == Spec => []TypeOK
<1>1. IInv => TypeOK
  BY DEF IInv
<1> QED
  BY <1>1, Inductive, PTL

\* Once the events are handled, what wifi_bridge_get_status tells is so: "connected" is the
\* state of the station, and an open access point is a set-up, unless a call failed.
THEOREM StatusIsTruthful == Spec => []StatusTruthful
<1>1. IInv => StatusTruthful
  <2> SUFFICES ASSUME IInv, AtRest
               PROVE  /\ connected <=> link = "up"
                      /\ faults = 0 /\ wifi_mode = "apsta" => s_provisioning
    BY DEF StatusTruthful
  <2>1. \A e : ~Queued(e)
    BY DEF AtRest, Queued, At
  <2>2. task[Events] = "idle" /\ task[Http] = "idle"
    BY DEF AtRest
  <2> QED
    BY <2>1, <2>2 DEF IInv, Station, Mode
<1> QED
  BY <1>1, Inductive, PTL

\* Whichever call of the driver fails, a bridge at rest is in the network, on its way to it, or
\* open as an access point, as long as nobody asked for a set-up from the web page.
THEOREM CanBeReached == Spec => []NeverStranded
<1>1. IInv => NeverStranded
  <2> SUFFICES ASSUME IInv, AtRest, ~setup_asked, link = "idle"
               PROVE  s_provisioning /\ wifi_mode = "apsta"
    BY DEF NeverStranded
  <2>1. \A i \in Nat : ~Lost(i)
    BY DEF AtRest, Lost, At
  <2>2. task[Events] = "idle"
    BY DEF AtRest
  <2> QED
    BY <2>1, <2>2 DEF IInv, Own, Retry
<1> QED
  BY <1>1, Inductive, PTL

\* The set-up page opens with every access point the bridge opens on its own: when it is at
\* rest, the DNS responder runs and the DHCP options are set, if no call failed.
THEOREM PortalIsThere ==
  ASSUME MaxTasks > 0
  PROVE  Spec => []PortalOnItsOwn
<1>1. Init => Opening
  BY InitInv
<1>2. IInv /\ Opening /\ [Next]_vars => Opening'
  BY OpeningStep
<1>3. Opening => PortalOnItsOwn
  <2> SUFFICES ASSUME Opening, ~setup_asked, AtRest, faults = 0, wifi_mode = "apsta"
               PROVE  s_dns_running /\ dhcp
    BY DEF PortalOnItsOwn, PortalWithAp
  <2>1. ~Queued("AP_START") /\ task[Events] = "idle"
    BY DEF AtRest, Queued, At
  <2> QED
    BY <2>1 DEF Opening
<1> QED
  BY <1>1, <1>2, <1>3, Inductive, PTL DEF Spec
=============================================================================
