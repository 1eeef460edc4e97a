-------------------------------- MODULE Boot --------------------------------
(***************************************************************************)
(* The start of the device (main.c) and the two services that answer while *)
(* it is under way: the NTP callback in the lwIP thread and the health page *)
(* in the httpd task.  ESP_ERROR_CHECK reboots the device; the display, the *)
(* OLED task and mDNS may fail without consequence.                         *)
(*                                                                          *)
(* Each call of app_main is one step, or two where another task sees what   *)
(* lies between.  What the timebase says is a free choice here, and Timebase *)
(* says when it is valid: never before the main task polls it.              *)
(***************************************************************************)
EXTENDS Ethernet

CONSTANT MaxReboots  \* bound: reboots, of failed starts and of restarts

ASSUME RebootAssumption == MaxReboots \in Nat

VARIABLES
  pc,             \* where app_main is
  listening,      \* ntp_receive_callback is registered
  server_running, \* server_running of ntp_server.c
  web,            \* the web server has its handlers
  display,        \* oled_available
  valid,          \* what timebase_get_snapshot would say
  ntp,            \* the counters received_packets and transmitted_packets, as
                  \* whether they are above zero
  health,         \* the health request: its program counter, the three
                  \* verdicts and whether all were true at once
  reboots

devVars == <<pc, listening, server_running, web, display, valid, ntp, health>>
bootVars == <<devVars, ethVars, reboots>>

NoRequest == [pc |-> "idle", running |-> FALSE, valid |-> FALSE,
              ntp |-> FALSE, together |-> FALSE]

PowerOn ==
  [pc |-> "config", listening |-> FALSE, server_running |-> FALSE,
   web |-> FALSE, display |-> FALSE, valid |-> FALSE,
   ntp |-> [received |-> FALSE, transmitted |-> FALSE],
   health |-> NoRequest]

BootInit ==
  /\ EthInit
  /\ pc = PowerOn.pc
  /\ listening = PowerOn.listening
  /\ server_running = PowerOn.server_running
  /\ web = PowerOn.web
  /\ display = PowerOn.display
  /\ valid = PowerOn.valid
  /\ ntp = PowerOn.ntp
  /\ health = PowerOn.health
  /\ reboots = 0

-----------------------------------------------------------------------------
(***************************************************************************)
(* Reboots lose everything this module keeps.                              *)
(***************************************************************************)

Reboot ==
  /\ reboots < MaxReboots
  /\ reboots' = reboots + 1
  /\ pc' = PowerOn.pc
  /\ listening' = PowerOn.listening
  /\ server_running' = PowerOn.server_running
  /\ web' = PowerOn.web
  /\ display' = PowerOn.display
  /\ valid' = PowerOn.valid
  /\ ntp' = PowerOn.ntp
  /\ health' = PowerOn.health
  /\ started' = FALSE
  /\ link' = FALSE
  /\ dhcp' = FALSE
  /\ lease' = None
  /\ loop' = <<>>
  /\ ethernet' = [running |-> FALSE, link_up |-> FALSE, ipv4 |-> None]

\* The calls of app_main that ESP_ERROR_CHECK guards; NtpStart aborts inside
\* ntp_server_start.
Fatal == {"config", "uart", "pps", "ethernet", "ntp", "web"}

StartFails == pc \in Fatal /\ Reboot

\* Both event handlers abort when the driver does not tell its MAC address.
HandlerAborts ==
  /\ loop # <<>>
  /\ Head(loop).kind \in {"connected", "got_ip"}
  /\ Reboot

\* restart_timer_callback.
Restart == web /\ Reboot

-----------------------------------------------------------------------------
(***************************************************************************)
(* app_main.                                                               *)
(***************************************************************************)

\* A call that returns and leaves the state of this module alone.
Returns(at, next) ==
  /\ pc = at
  /\ pc' = next
  /\ UNCHANGED <<listening, server_running, web, display, valid, ntp, health,
                 ethVars, reboots>>

ConfigInit == Returns("config", "display")

\* oled_display_init: its result is dropped, and asked for again later.
DisplayInit ==
  /\ pc = "display"
  /\ display' \in BOOLEAN
  /\ pc' = "uart"
  /\ UNCHANGED <<listening, server_running, web, valid, ntp, health, ethVars,
                 reboots>>

UartStart == Returns("uart", "pps")

PpsStart == Returns("pps", "ethernet")

EthernetStart ==
  /\ pc = "ethernet"
  /\ Start
  /\ pc' = "mdns"
  /\ UNCHANGED <<listening, server_running, web, display, valid, ntp, health,
                 reboots>>

\* clock2_mdns_start fails at one of its calls and undoes the others, or not:
\* app_main goes on.
MdnsStart == Returns("mdns", "ntp")

\* ntp_server_init_in_tcpip.
NtpStart ==
  /\ pc = "ntp"
  /\ listening' = TRUE
  /\ pc' = "ntp_running"
  /\ UNCHANGED <<server_running, web, display, valid, ntp, health, ethVars,
                 reboots>>

\* Mutant: ntp_server_start leaves the flag to the first request.
NtpRunningLater ==
  /\ pc = "ntp_running"
  /\ server_running' = ntp.received
  /\ pc' = "web"
  /\ UNCHANGED <<listening, web, display, valid, ntp, health, ethVars, reboots>>

NtpRunning ==
  /\ pc = "ntp_running"
  /\ server_running' = TRUE
  /\ pc' = "web"
  /\ UNCHANGED <<listening, web, display, valid, ntp, health, ethVars, reboots>>

\* web_server_start.
WebStart ==
  /\ pc = "web"
  /\ web' = TRUE
  /\ pc' = "oled"
  /\ UNCHANGED <<listening, server_running, display, valid, ntp, health,
                 ethVars, reboots>>

\* Mutant: app_main waits for a display.
OledStartAwaited == display /\ Returns("oled", "loop")

\* oled_ui_start is called with a display only, and its result is dropped.
OledStart == Returns("oled", "loop")

AppMain ==
  \/ ConfigInit \/ DisplayInit \/ UartStart \/ PpsStart \/ EthernetStart
  \/ MdnsStart \/ NtpStart \/ NtpRunning \/ WebStart \/ OledStart

\* The loop polls the timebase and the receiver.
Poll ==
  /\ pc = "loop"
  /\ valid' = ~valid
  /\ UNCHANGED <<pc, listening, server_running, web, display, ntp, health,
                 ethVars, reboots>>

-----------------------------------------------------------------------------
(***************************************************************************)
(* The services.                                                           *)
(***************************************************************************)

\* ntp_receive_callback with a request that is in order.
NtpRequest ==
  /\ listening /\ link /\ lease # None
  /\ ntp' = [received |-> TRUE, transmitted |-> ntp.transmitted \/ valid]
  /\ UNCHANGED <<pc, listening, server_running, web, display, valid, health,
                 ethVars, reboots>>

Health(update) ==
  /\ health' = update
  /\ UNCHANGED <<pc, listening, server_running, web, display, valid, ntp,
                 ethVars, reboots>>

\* health_handler copies three snapshots.
HealthEthernet ==
  /\ web /\ health.pc = "idle"
  /\ Health([NoRequest EXCEPT !.pc = "timebase", !.running = ethernet.running])

HealthTimebase ==
  /\ health.pc = "timebase"
  /\ Health([health EXCEPT !.pc = "ntp", !.valid = valid,
       !.together = ethernet.running /\ valid /\ server_running])

HealthNtp ==
  /\ health.pc = "ntp"
  /\ Health([health EXCEPT !.pc = "answer", !.ntp = server_running])

Answer ==
  IF health.running /\ health.valid /\ health.ntp THEN "ok" ELSE "503"

HealthAnswer == health.pc = "answer" /\ Health(NoRequest)

Services == NtpRequest \/ HealthEthernet \/ HealthTimebase \/ HealthNtp \/ HealthAnswer

NetworkSide == Network /\ UNCHANGED <<devVars, reboots>>

EventLoop == EthernetTask /\ UNCHANGED <<devVars, reboots>>

BootNext ==
  \/ AppMain \/ Poll \/ Services \/ NetworkSide \/ EventLoop
  \/ StartFails \/ HandlerAborts \/ Restart

BootSpec == BootInit /\ [][BootNext]_bootVars

\* app_main and the event-loop task get their share of the processor.
FairBootSpec ==
  BootSpec /\ WF_bootVars(AppMain) /\ WF_bootVars(EventLoop)

-----------------------------------------------------------------------------
(***************************************************************************)
(* Properties.                                                             *)
(***************************************************************************)

Steps == Fatal \cup {"display", "mdns", "ntp_running", "oled", "loop"}

NtpType == [received: BOOLEAN, transmitted: BOOLEAN]

HealthType == [pc: {"idle", "timebase", "ntp", "answer"}, running: BOOLEAN,
               valid: BOOLEAN, ntp: BOOLEAN, together: BOOLEAN]

\* The type invariant of the boot sequence; each service implies what was started
\* before it.
BootTypeOK ==
  /\ EthTypeOK
  /\ pc \in Steps
  /\ listening \in BOOLEAN /\ server_running \in BOOLEAN
  /\ web \in BOOLEAN /\ display \in BOOLEAN /\ valid \in BOOLEAN
  /\ ntp \in NtpType
  /\ health \in HealthType
  /\ reboots \in 0 .. MaxReboots
  /\ web => server_running
  /\ server_running => listening
  /\ listening => started

\* health_handler copies its three snapshots one after the other, yet "ok" means
\* that Ethernet, timebase and NTP server were all well at one moment of the
\* request: nothing that starts is ever stopped, and the web server starts last.
\* Of the three reasons for a 503 that README.md names, only the timebase is left
\* once Ethernet was seen to run.
HealthTruthful ==
  health.pc = "answer" =>
    /\ (Answer = "ok" => health.together)
    /\ (Answer = "503" /\ health.running => ~health.valid)

\* README.md: "A display failure is not fatal".  Neither is one of mDNS: however
\* often they fail, a device that reboots finitely often ends up in its loop with
\* Ethernet shown as running.
BootCompletes == <>[](pc = "loop" /\ ethernet.running)

(***************************************************************************)
(* The inductive invariant behind the safety properties.                   *)
(***************************************************************************)

\* What is started follows from where app_main is.
OrderInv ==
  /\ started <=> pc \notin {"config", "display", "uart", "pps", "ethernet"}
  /\ listening <=> pc \in {"ntp_running", "web", "oled", "loop"}
  /\ server_running <=> pc \in {"web", "oled", "loop"}
  /\ web <=> pc \in {"oled", "loop"}
  /\ valid => pc = "loop"

\* What the services have read stays true: nothing that runs is stopped.  The
\* callback is live before server_running is set and counts requests, but sends no
\* reply: the timebase is not valid yet.
ServiceInv ==
  /\ ntp.transmitted => server_running
  /\ health.pc # "idle" => web
  /\ health.running => ethernet.running
  /\ health.pc \in {"ntp", "answer"} /\ health.running /\ health.valid
       => health.together
  /\ health.pc = "answer" => health.ntp

BootInv == EthInv /\ BootTypeOK /\ OrderInv /\ ServiceInv

=============================================================================
