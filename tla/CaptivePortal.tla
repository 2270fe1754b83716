--------------------------- MODULE CaptivePortal ---------------------------
(***************************************************************************)
(* The DNS responder of main/captive_portal.c.  Its owner starts and stops  *)
(* it through the flag s_dns_running; the task polls the flag between two    *)
(* receptions of at most 500 ms.  A stop does not wait for the task, so a    *)
(* start soon after it finds the old task alive, sees nothing of it, and     *)
(* creates another one.                                                     *)
(*                                                                         *)
(* A task stands for its socket as well; 0 is s_dns_socket = -1.  The task   *)
(* handle s_dns_task is written and never read, and left out.               *)
(***************************************************************************)
EXTENDS Naturals

CONSTANTS MaxTasks,  \* responder tasks the heap has room for
          MaxFaults  \* bound: calls of the operating system that fail

\* What is assumed of the constants where the module is used.
PortalAssumption == MaxTasks \in Nat /\ MaxFaults \in Nat

VARIABLES s_dns_running,
          s_dns_socket,
          dns,    \* per task: where it is
          call,   \* where the owner is in captive_portal_start_dns or _stop_dns
          faults  \* calls that failed since the start

vars == <<s_dns_running, s_dns_socket, dns, call, faults>>

Tasks == 1..MaxTasks
Places == {"none", "socket", "bind", "unbound", "check", "receive", "close", "forget"}

Init ==
    /\ s_dns_running = FALSE /\ s_dns_socket = 0
    /\ dns = [t \in Tasks |-> "none"]
    /\ call = "none" /\ faults = 0

Fault == faults < MaxFaults /\ faults' = faults + 1

Goto(t, place) == dns' = [dns EXCEPT ![t] = place]

-----------------------------------------------------------------------------
(* The owner, which makes one call at a time.                               *)

\* captive_portal_start_dns up to the flag.
StartDns ==
    /\ call = "none"
    /\ s_dns_running' = TRUE
    /\ call' = IF s_dns_running THEN "none" ELSE "start"
    /\ UNCHANGED <<s_dns_socket, dns, faults>>

\* Mistake: the flag stays set without a task.
CreateFailsUnnoticed == UNCHANGED s_dns_running

CreateFails == s_dns_running' = FALSE

\* Its xTaskCreate.
CreateTask ==
    /\ call = "start"
    /\ call' = "none"
    /\ \/ \E t \in Tasks : dns[t] = "none" /\ Goto(t, "socket")
          /\ UNCHANGED <<s_dns_running, faults>>
       \/ /\ CreateFails
          /\ \/ Fault
             \/ (\A t \in Tasks : dns[t] # "none") /\ UNCHANGED faults
          /\ UNCHANGED dns
    /\ UNCHANGED s_dns_socket

\* captive_portal_stop_dns up to the flag.
StopDns ==
    /\ call = "none"
    /\ s_dns_running' = FALSE
    /\ call' = IF s_dns_running THEN "stop" ELSE "none"
    /\ UNCHANGED <<s_dns_socket, dns, faults>>

\* Its shutdown of the socket it finds: it may wake the reception or do nothing.
ShutDown ==
    /\ call = "stop"
    /\ call' = "none"
    /\ dns' \in {dns, [t \in Tasks |->
                         IF t = s_dns_socket /\ dns[t] = "receive" THEN "check" ELSE dns[t]]}
    /\ UNCHANGED <<s_dns_running, s_dns_socket, faults>>

-----------------------------------------------------------------------------
(* dns_task.                                                                *)

OpenSocket(t) ==
    /\ dns[t] = "socket"
    /\ \/ s_dns_socket' = t /\ Goto(t, "bind") /\ UNCHANGED <<s_dns_running, faults>>
       \/ /\ Fault
          /\ s_dns_running' = FALSE /\ Goto(t, "none") /\ UNCHANGED s_dns_socket
    /\ UNCHANGED call

\* bind; when it fails the socket is closed at once.
Bind(t) ==
    /\ dns[t] = "bind"
    /\ \/ Goto(t, "check") /\ UNCHANGED faults
       \/ Fault /\ Goto(t, "unbound")
    /\ UNCHANGED <<s_dns_running, s_dns_socket, call>>

GiveUp(t) ==
    /\ dns[t] = "unbound"
    /\ s_dns_socket' = 0 /\ s_dns_running' = FALSE
    /\ Goto(t, "none")
    /\ UNCHANGED <<call, faults>>

\* Mistake: the end of the loop is left to the shutdown of the socket.
GoesOnForShutdown == TRUE

GoesOn == s_dns_running

\* The head of the loop.
CheckRunning(t) ==
    /\ dns[t] = "check"
    /\ Goto(t, IF GoesOn THEN "receive" ELSE "close")
    /\ UNCHANGED <<s_dns_running, s_dns_socket, call, faults>>

\* recvfrom returns with a query, which is answered or dropped, an error or a time-out.
Receive(t) ==
    /\ dns[t] = "receive"
    /\ Goto(t, "check")
    /\ UNCHANGED <<s_dns_running, s_dns_socket, call, faults>>

Close(t) ==
    /\ dns[t] = "close"
    /\ Goto(t, "forget")
    /\ UNCHANGED <<s_dns_running, s_dns_socket, call, faults>>

\* The last lines: whosever socket s_dns_socket names is forgotten.
Forget(t) ==
    /\ dns[t] = "forget"
    /\ s_dns_socket' = 0
    /\ Goto(t, "none")
    /\ UNCHANGED <<s_dns_running, call, faults>>

dns_task(t) ==
    \/ OpenSocket(t) \/ Bind(t) \/ GiveUp(t)
    \/ CheckRunning(t) \/ Receive(t) \/ Close(t) \/ Forget(t)

\* The bridge restarts.
Reboot ==
    /\ s_dns_running' = FALSE /\ s_dns_socket' = 0
    /\ dns' = [t \in Tasks |-> "none"]
    /\ call' = "none"
    /\ UNCHANGED faults

\* A call of another part of the bridge fails.
Elsewhere == Fault /\ UNCHANGED <<s_dns_running, s_dns_socket, dns, call>>

Next ==
    \/ StartDns \/ CreateTask \/ StopDns \/ ShutDown
    \/ \E t \in Tasks : dns_task(t)
    \/ Reboot \/ Elsewhere

\* What may happen, whoever the owner is.
Safety == Init /\ [][Next]_vars

\* The owner finishes its call; a task runs and its reception times out.
Fairness ==
    /\ WF_vars(CreateTask) /\ WF_vars(ShutDown)
    /\ \A t \in Tasks : WF_vars(dns_task(t))

Spec == Safety /\ Fairness

-----------------------------------------------------------------------------
TypeOK ==
    /\ s_dns_running \in BOOLEAN
    /\ s_dns_socket \in Tasks \cup {0}
    /\ dns \in [Tasks -> Places]
    /\ call \in {"none", "start", "stop"}
    /\ faults \in 0..MaxFaults

\* The flag never says that the responder runs when no task will serve: a start that found it
\* set would return ESP_OK for nothing.  A task that gives up is about to clear it.
RunningMeansServed ==
    s_dns_running => \/ call = "start"
                     \/ \E t \in Tasks : dns[t] \in {"socket", "bind", "unbound", "check",
                                                     "receive"}

\* s_dns_socket names a socket only until its own task has ended, however many tasks a quick
\* stop and start left running: a later stop never shuts down a descriptor that has long been
\* given to some other connection.
NoStaleSocket ==
    s_dns_socket # 0 => dns[s_dns_socket] \notin {"none", "socket"}

\* After a stop every task ends, the one whose socket another task made it lose as well,
\* unless the responder is started again before.
StoppedStops ==
    ~s_dns_running ~> (s_dns_running \/ \A t \in Tasks : dns[t] = "none")
=============================================================================
