----------------------------- MODULE WifiBridge -----------------------------
(***************************************************************************)
(* The station and the set-up access point of main/wifi_bridge.c with the    *)
(* handlers of main/http_bridge.c that reach it.  The driver posts events,   *)
(* the event task works them off one by one, and the HTTP task changes the   *)
(* mode beside it: both run start_provisioning_ap, without a lock.           *)
(*                                                                         *)
(* The driver is external: a try to connect ends with an address or with     *)
(* STA_DISCONNECTED, a change of the mode posts AP_START or AP_STOP, the AP   *)
(* can only be configured while the mode has one.                           *)
(***************************************************************************)
EXTENDS Naturals, Sequences

CONSTANTS MaxTasks, MaxFaults,  \* of CaptivePortal
          RetryThreshold,       \* WIFI_PROVISIONING_RETRY_THRESHOLD, 8
          Requests,             \* requests the browser makes
          MaxRequests           \* bound: how many

ASSUME WifiAssumption ==
    /\ RetryThreshold \in Nat \ {0}
    /\ Requests \subseteq {"setup", "save", "restart"}
    /\ MaxRequests \in Nat

VARIABLES s_dns_running, s_dns_socket, dns, call, faults

Portal == INSTANCE CaptivePortal

ASSUME DnsAssumption == Portal!PortalAssumption

portal == <<s_dns_running, s_dns_socket, dns, call>>

VARIABLES wifi_mode,  \* the driver's mode
          link,       \* the station: idle, connecting, up
          events,     \* the queue of the event loop
          nvs,        \* credentials are stored in flash
          dhcp,       \* the DHCP server offers the bridge as DNS server and portal
          s_provisioning, s_disconnect_count,
          connected,  \* WIFI_CONNECTED_BIT, and s_ip is the station's address
          task,       \* where the event task and the HTTP task are
          restart,    \* a task that will restart the bridge waits
          requests,   \* requests made so far
          setup_asked \* a set-up was asked for since the start

driver == <<wifi_mode, link, events>>
wifi == <<s_provisioning, s_disconnect_count, connected, dhcp>>
system == <<nvs, restart, requests, setup_asked>>
vars == <<portal, faults, driver, wifi, task, system>>

Events == "events"
Http == "http"

\* app_main has run wifi_bridge_start: with stored credentials the station starts, without
\* the access point as well.
Booted(stored) ==
    /\ wifi_mode' = IF stored THEN "sta" ELSE "apsta"
    /\ events' = IF stored THEN <<"STA_START">> ELSE <<"STA_START", "AP_START">>
    /\ s_provisioning' = ~stored
    /\ link' = "idle" /\ connected' = FALSE /\ s_disconnect_count' = 0 /\ dhcp' = FALSE
    /\ task' = [t \in {Events, Http} |-> "idle"]
    /\ restart' = FALSE /\ setup_asked' = FALSE
    /\ nvs' = stored

Init ==
    /\ Portal!Init
    /\ nvs \in BOOLEAN
    /\ wifi_mode = IF nvs THEN "sta" ELSE "apsta"
    /\ events = IF nvs THEN <<"STA_START">> ELSE <<"STA_START", "AP_START">>
    /\ s_provisioning = ~nvs
    /\ link = "idle" /\ connected = FALSE /\ s_disconnect_count = 0 /\ dhcp = FALSE
    /\ task = [t \in {Events, Http} |-> "idle"]
    /\ restart = FALSE /\ requests = 0 /\ setup_asked = FALSE

Goto(t, place) == task' = [task EXCEPT ![t] = place]

-----------------------------------------------------------------------------
(* The driver.                                                              *)

Connects ==
    /\ link = "connecting"
    /\ link' = "up"
    /\ events' = Append(events, "GOT_IP")
    /\ UNCHANGED <<portal, faults, wifi_mode, wifi, task, system>>

Disconnects ==
    /\ link # "idle"
    /\ link' = "idle"
    /\ events' = Append(events, "STA_DISCONNECTED")
    /\ UNCHANGED <<portal, faults, wifi_mode, wifi, task, system>>

\* The lease is renewed with another address.
NewAddress ==
    /\ link = "up" /\ events = <<>>
    /\ events' = <<"GOT_IP">>
    /\ UNCHANGED <<portal, faults, wifi_mode, link, wifi, task, system>>

SetMode(mode) ==
    /\ wifi_mode' = mode
    /\ events' = IF wifi_mode = mode THEN events
                 ELSE Append(events, IF mode = "apsta" THEN "AP_START" ELSE "AP_STOP")

\* esp_wifi_connect
Connect == link' = "connecting"

-----------------------------------------------------------------------------
(* start_provisioning_ap, on whichever task.                                *)

\* Mistake: the event task takes a failure for a success and does not try again.
FailedAsOK(t) == Goto(t, IF t = Http THEN "failed" ELSE "idle")

Failed(t) == Goto(t, IF t = Http THEN "failed" ELSE "connect")

OK(t) == Goto(t, IF t = Http THEN "answer" ELSE "idle")

StartProvisioning(t) ==
    /\ task[t] = "start"
    /\ IF s_provisioning THEN OK(t) ELSE Goto(t, "mode")
    /\ UNCHANGED <<portal, faults, driver, wifi, system>>

SetApMode(t) ==
    /\ task[t] = "mode"
    /\ \/ SetMode("apsta") /\ Goto(t, "config") /\ UNCHANGED faults
       \/ Portal!Fault /\ Failed(t) /\ UNCHANGED <<wifi_mode, events>>
    /\ UNCHANGED <<portal, link, wifi, system>>

SetApConfig(t) ==
    /\ task[t] = "config"
    /\ \/ wifi_mode = "apsta" /\ Goto(t, "flag") /\ UNCHANGED faults
       \/ wifi_mode # "apsta" /\ Failed(t) /\ UNCHANGED faults
       \/ Portal!Fault /\ Failed(t)
    /\ UNCHANGED <<portal, driver, wifi, system>>

SetFlag(t) ==
    /\ task[t] = "flag"
    /\ s_provisioning' = TRUE
    /\ OK(t)
    /\ UNCHANGED <<portal, faults, driver, s_disconnect_count, connected, dhcp, system>>

start_provisioning_ap(t) ==
    StartProvisioning(t) \/ SetApMode(t) \/ SetApConfig(t) \/ SetFlag(t)

-----------------------------------------------------------------------------
(* wifi_event_handler.                                                      *)

Handle(event) ==
    /\ task[Events] = "idle" /\ events # <<>> /\ Head(events) = event
    /\ events' = Tail(events)

StaStart ==
    /\ Handle("STA_START")
    /\ IF s_provisioning THEN UNCHANGED link ELSE Connect
    /\ UNCHANGED <<portal, faults, wifi_mode, wifi, task, system>>

\* Mistake: the portal is for a bridge without credentials only.
NewBridge == ~nvs

InSetup == s_provisioning

\* A failure is logged, and the responder started nevertheless.
ConfigureDhcp ==
    /\ Handle("AP_START")
    /\ \/ ~InSetup /\ UNCHANGED <<faults, dhcp, task>>
       \/ /\ InSetup /\ Goto(Events, "start_dns")
          /\ \/ dhcp' = TRUE /\ UNCHANGED faults
             \/ Portal!Fault /\ UNCHANGED dhcp
    /\ UNCHANGED <<portal, wifi_mode, link, s_provisioning, s_disconnect_count, connected,
                   system>>

StartDns ==
    /\ task[Events] = "start_dns"
    /\ Portal!StartDns
    /\ Goto(Events, "dns")
    /\ UNCHANGED <<driver, wifi, system>>

ApStop ==
    /\ Handle("AP_STOP")
    /\ Portal!StopDns
    /\ Goto(Events, "dns")
    /\ UNCHANGED <<wifi_mode, link, wifi, system>>

\* The rest of the call, and its return.
InDns ==
    /\ task[Events] = "dns"
    /\ \/ Portal!CreateTask /\ UNCHANGED task
       \/ Portal!ShutDown /\ UNCHANGED task
       \/ call = "none" /\ Goto(Events, "idle") /\ UNCHANGED <<portal, faults>>
    /\ UNCHANGED <<driver, wifi, system>>

\* Mistake: the bit survives the loss.
StillConnected == UNCHANGED connected

NotConnected == connected' = FALSE

TooMany(n) == n >= RetryThreshold

StaDisconnected ==
    /\ Handle("STA_DISCONNECTED")
    /\ NotConnected
    /\ \/ s_provisioning /\ UNCHANGED <<s_disconnect_count, task>>
       \/ /\ ~s_provisioning
          /\ s_disconnect_count' = s_disconnect_count + 1
          /\ Goto(Events, IF TooMany(s_disconnect_count') THEN "start" ELSE "connect")
    /\ UNCHANGED <<portal, faults, wifi_mode, link, s_provisioning, dhcp, system>>

Reconnect ==
    /\ task[Events] = "connect"
    /\ Connect
    /\ Goto(Events, "idle")
    /\ UNCHANGED <<portal, faults, wifi_mode, events, wifi, system>>

EndSetup == IF s_provisioning THEN Goto(Events, "leave") ELSE UNCHANGED task

GotIp ==
    /\ Handle("GOT_IP")
    /\ connected' = TRUE /\ s_disconnect_count' = 0
    /\ s_provisioning' = FALSE
    /\ EndSetup
    /\ UNCHANGED <<portal, faults, wifi_mode, link, dhcp, system>>

LeaveAp ==
    /\ task[Events] = "leave"
    /\ Goto(Events, "idle")
    /\ \/ SetMode("sta") /\ UNCHANGED faults
       \/ Portal!Fault /\ UNCHANGED <<wifi_mode, events>>
    /\ UNCHANGED <<portal, link, wifi, system>>

EventTask ==
    \/ StaStart \/ ConfigureDhcp \/ StartDns \/ ApStop \/ InDns
    \/ StaDisconnected \/ Reconnect \/ GotIp \/ LeaveAp
    \/ start_provisioning_ap(Events)

DnsTask(t) == Portal!dns_task(t) /\ UNCHANGED <<driver, wifi, task, system>>

-----------------------------------------------------------------------------
(* The HTTP task, one request at a time.                                    *)

\* A browser gets through in the network or over the access point.
Request(r) ==
    /\ r \in Requests /\ requests < MaxRequests
    /\ link = "up" \/ wifi_mode = "apsta"
    /\ requests' = requests + 1
    /\ setup_asked' = (setup_asked \/ r = "setup")
    /\ task[Http] = "idle"

\* wifi_setup_start_handler
wifi_setup_start_handler ==
    /\ Request("setup")
    /\ Goto(Http, "start")
    /\ UNCHANGED <<portal, faults, driver, wifi, nvs, restart>>

\* wifi_save_handler: refused without a set-up; the form is read before anything is stored.
wifi_save_handler ==
    /\ Request("save")
    /\ Goto(Http, IF s_provisioning THEN "save" ELSE "failed")
    /\ UNCHANGED <<portal, faults, driver, wifi, nvs, restart>>

SaveCredentials ==
    /\ task[Http] = "save"
    /\ \/ nvs' = TRUE /\ restart' = TRUE /\ Goto(Http, "answer") /\ UNCHANGED faults
       \/ Portal!Fault /\ nvs' = TRUE /\ Goto(Http, "failed") /\ UNCHANGED restart
       \/ Goto(Http, "failed") /\ UNCHANGED <<nvs, restart, faults>>
    /\ UNCHANGED <<portal, driver, wifi, requests, setup_asked>>

\* esp32_restart_handler, refused while firmware is at work.
esp32_restart_handler ==
    /\ Request("restart")
    /\ \/ restart' = TRUE /\ Goto(Http, "answer")
       \/ UNCHANGED restart /\ Goto(Http, "failed")
    /\ UNCHANGED <<portal, faults, driver, wifi, nvs>>

Answer ==
    /\ task[Http] \in {"answer", "failed"}
    /\ Goto(Http, "idle")
    /\ UNCHANGED <<portal, faults, driver, wifi, system>>

HttpTask == SaveCredentials \/ Answer \/ start_provisioning_ap(Http)

\* esp32_manual_restart_task, 800 ms later.
Restart ==
    /\ restart
    /\ Booted(nvs)
    /\ Portal!Reboot
    /\ UNCHANGED requests

Next ==
    \/ Connects \/ Disconnects \/ NewAddress
    \/ EventTask \/ HttpTask \/ Restart
    \/ wifi_setup_start_handler \/ wifi_save_handler \/ esp32_restart_handler
    \/ \E t \in Portal!Tasks : DnsTask(t)

\* A try to connect ends one way or the other; tasks run; the restart comes.
Fairness ==
    /\ WF_vars(Connects \/ (link = "connecting" /\ Disconnects))
    /\ WF_vars(EventTask) /\ WF_vars(HttpTask) /\ WF_vars(Restart)
    /\ \A t \in Portal!Tasks : WF_vars(DnsTask(t))

Spec == Init /\ [][Next]_vars /\ Fairness

-----------------------------------------------------------------------------
Names == {"STA_START", "AP_START", "AP_STOP", "STA_DISCONNECTED", "GOT_IP"}
Places == {"idle", "start", "mode", "config", "flag", "connect", "start_dns", "dns", "leave", "save",
           "answer", "failed"}

Types ==
    /\ wifi_mode \in {"sta", "apsta"} /\ link \in {"idle", "connecting", "up"}
    /\ events \in Seq(Names)
    /\ nvs \in BOOLEAN /\ dhcp \in BOOLEAN /\ s_provisioning \in BOOLEAN
    /\ connected \in BOOLEAN /\ restart \in BOOLEAN /\ setup_asked \in BOOLEAN
    /\ s_disconnect_count \in Nat /\ requests \in 0..MaxRequests
    /\ task \in [{Events, Http} -> Places]

TypeOK == Types /\ Portal!TypeOK

\* The flag of the responder promises a task, whatever the two tasks that change the mode do.
RunningMeansServed == Portal!RunningMeansServed

\* A responder that was stopped ends with every task it has left behind.
StoppedStops == Portal!StoppedStops

\* Nothing is under way in the bridge.
AtRest == events = <<>> /\ call = "none" /\ \A t \in {Events, Http} : task[t] = "idle"

\* What wifi_bridge_get_status tells is so once the events are handled, however connects,
\* losses and set-ups interleave: "connected" is the state of the station, and, unless a
\* call failed, an access point, which is open, stays only while it says so.
StatusTruthful ==
    AtRest => /\ connected <=> link = "up"
              /\ faults = 0 /\ wifi_mode = "apsta" => s_provisioning

\* Whatever fails, the bridge can be reached or tries to: in the network, on the way to it,
\* or as an access point.  A set-up asked for from the web page can end this (SetupHasAp).
NeverStranded ==
    AtRest /\ ~setup_asked => \/ link # "idle"
                              \/ s_provisioning /\ wifi_mode = "apsta"

\* However often the network is lost, the bridge is again and again in a network or has its
\* access point open.
Reachable == []<>(connected \/ (s_provisioning /\ wifi_mode = "apsta") \/ setup_asked)

\* With the access point come the DNS responder and the DHCP options that make the set-up page
\* open automatically.
PortalWithAp ==
    AtRest /\ faults = 0 /\ s_provisioning /\ wifi_mode = "apsta" => s_dns_running /\ dhcp

\* So they do with an access point that the bridge opens on its own.
PortalOnItsOwn == ~setup_asked => PortalWithAp

\* A set-up that the bridge reports as active has its access point.
SetupHasAp == AtRest /\ s_provisioning => wifi_mode = "apsta"
=============================================================================
