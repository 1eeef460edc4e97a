----------------------------- MODULE AppConfig ------------------------------
(***************************************************************************)
(* The persistent hostname (app_config.c) and the two settings handlers of *)
(* the web server that change it and restart the device (web_server.c).    *)
(* The httpd task runs one handler at a time; the restart timer fires and  *)
(* the power fails between any two of its steps.  config_mutex is held     *)
(* from Compare to the handler's last step, and no other task writes.      *)
(*                                                                         *)
(* A hostname is what app_hostname_normalize makes of the request.  The    *)
(* requests it refuses, and those with a malformed body, change nothing    *)
(* and are left out.                                                       *)
(***************************************************************************)
CONSTANTS
  Hostnames,  \* normalized hostnames
  Default,    \* APP_CONFIG_DEFAULT_HOSTNAME
  None        \* no hostname

ASSUME HostnameAssumption == Default \in Hostnames /\ None \notin Hostnames

VARIABLES
  running,      \* the device is up, app_config_init has returned
  config,       \* config_state
  httpd,        \* the httpd task: its program counter and the name to save
  restartTimer, \* esp_timer_is_active(restart_timer)
  nvs,          \* the hostname key in flash: its committed value and a value
                \* that was set and not committed
  acknowledged  \* history: the name in the last reply to a save, None once a
                \* later save touches the flash or reports an error

configVars == <<running, config, httpd, restartTimer, nvs, acknowledged>>

NoConfig == [active |-> None, configured |-> None, restartPending |-> FALSE]
Idle == [pc |-> "idle", name |-> None]

ConfigInit ==
  /\ running = FALSE
  /\ config = NoConfig
  /\ httpd = Idle
  /\ restartTimer = FALSE
  /\ nvs = [stored |-> None, staged |-> None]
  /\ acknowledged = None

-----------------------------------------------------------------------------
(***************************************************************************)
(* app_config_init.                                                        *)
(***************************************************************************)

\* load_hostname: the default if the key is missing.
Loaded(stored) == IF stored = None THEN Default ELSE stored

BootWith(name) ==
  /\ ~running
  /\ running' = TRUE
  /\ config' = [active |-> name, configured |-> name, restartPending |-> FALSE]
  /\ UNCHANGED <<httpd, restartTimer>>

Boot ==
  /\ BootWith(Loaded(nvs.stored))
  /\ UNCHANGED <<nvs, acknowledged>>

\* initialize_nvs finds no free pages or a new version and erases the partition.
BootErased ==
  /\ BootWith(Default)
  /\ nvs' = [stored |-> None, staged |-> None]
  /\ acknowledged' = None

-----------------------------------------------------------------------------
(***************************************************************************)
(* settings_hostname_handler and app_config_save_hostname.                 *)
(***************************************************************************)

\* A request with a valid hostname: the mutex is taken.
SaveRequest ==
  /\ running /\ httpd.pc = "idle"
  /\ \E name \in Hostnames : httpd' = [pc |-> "compare", name |-> name]
  /\ UNCHANGED <<running, config, restartTimer, nvs, acknowledged>>

\* The handler answers: with the name, or with "Unable to save hostname."
Reply(name) ==
  /\ httpd' = Idle
  /\ acknowledged' = name

\* The name is the configured one: nothing is written.
CompareEqual ==
  /\ httpd.pc = "compare"
  /\ httpd.name = config.configured
  /\ Reply(httpd.name)
  /\ UNCHANGED <<running, config, restartTimer, nvs>>

CompareDifferent ==
  /\ httpd.pc = "compare"
  /\ httpd.name # config.configured
  /\ httpd' = [httpd EXCEPT !.pc = "set"]
  /\ UNCHANGED <<running, config, restartTimer, nvs, acknowledged>>

\* nvs_open and nvs_set_str.
SetName ==
  /\ httpd.pc = "set"
  /\ nvs' = [nvs EXCEPT !.staged = httpd.name]
  /\ httpd' = [httpd EXCEPT !.pc = "commit"]
  /\ acknowledged' = None
  /\ UNCHANGED <<running, config, restartTimer>>

\* nvs_commit.
Commit ==
  /\ httpd.pc = "commit"
  /\ nvs' = [stored |-> nvs.staged, staged |-> None]
  /\ httpd' = [httpd EXCEPT !.pc = "update"]
  /\ UNCHANGED <<running, config, restartTimer, acknowledged>>

\* Mutant: config_state is updated although the write failed.
WriteFailsUnnoticed ==
  /\ httpd.pc \in {"set", "commit"}
  /\ Reply(httpd.name)
  /\ config' = [config EXCEPT !.configured = httpd.name,
                              !.restartPending = httpd.name # config.active]
  /\ UNCHANGED <<running, restartTimer, nvs>>

\* nvs_open, nvs_set_str or nvs_commit fails: the value that was set stays where
\* it is, and config_state is left alone.
WriteFails ==
  /\ httpd.pc \in {"set", "commit"}
  /\ Reply(None)
  /\ UNCHANGED <<running, config, restartTimer, nvs>>

\* Mutant: a saved name always asks for a restart.
UpdateAlwaysPending ==
  /\ httpd.pc = "update"
  /\ config' = [config EXCEPT !.configured = httpd.name,
                              !.restartPending = TRUE]
  /\ Reply(httpd.name)
  /\ UNCHANGED <<running, restartTimer, nvs>>

UpdateState ==
  /\ httpd.pc = "update"
  /\ config' = [config EXCEPT !.configured = httpd.name,
                              !.restartPending = httpd.name # config.active]
  /\ Reply(httpd.name)
  /\ UNCHANGED <<running, restartTimer, nvs>>

-----------------------------------------------------------------------------
(***************************************************************************)
(* Restarts.                                                               *)
(***************************************************************************)

\* settings_restart_handler, unless it answers 409 Conflict.
RestartRequest ==
  /\ running /\ httpd.pc = "idle"
  /\ config.restartPending
  /\ ~restartTimer
  /\ restartTimer' = TRUE
  /\ UNCHANGED <<running, config, httpd, nvs, acknowledged>>

\* The RAM is lost; a value that was set and not committed is in flash or not.
Down ==
  /\ running' = FALSE
  /\ config' = NoConfig
  /\ httpd' = Idle
  /\ restartTimer' = FALSE
  /\ \E stored \in {nvs.stored} \cup ({nvs.staged} \ {None}) :
       nvs' = [stored |-> stored, staged |-> None]
  /\ UNCHANGED acknowledged

\* restart_timer_callback calls esp_restart.
TimerFires == restartTimer /\ Down

PowerLoss == running /\ Down

ConfigNext ==
  \/ Boot \/ BootErased
  \/ SaveRequest \/ CompareEqual \/ CompareDifferent
  \/ SetName \/ Commit \/ WriteFails \/ UpdateState
  \/ RestartRequest \/ TimerFires \/ PowerLoss

ConfigSpec == ConfigInit /\ [][ConfigNext]_configVars

-----------------------------------------------------------------------------
(***************************************************************************)
(* Properties.                                                             *)
(***************************************************************************)

Names == Hostnames \cup {None}
HttpdPc == {"idle", "compare", "set", "commit", "update"}

\* The type invariant; a handler runs and the timer is armed only on a device
\* that is up, and what is being saved is a valid name.
ConfigTypeOK ==
  /\ running \in BOOLEAN
  /\ config \in [active: Names, configured: Names, restartPending: BOOLEAN]
  /\ httpd \in [pc: HttpdPc, name: Names]
  /\ restartTimer \in BOOLEAN
  /\ nvs \in [stored: Names, staged: Names]
  /\ acknowledged \in Names
  /\ httpd.pc # "idle" => running /\ httpd.name # None
  /\ restartTimer => running

\* While no write has failed, the next boot loads the hostname that the status
\* page calls configured, at whatever moment the power fails, save for the step
\* between nvs_commit and the update of config_state (app_config_save_hostname).
ConfiguredIsStored ==
  running /\ nvs.staged = None /\ httpd.pc # "update"
    => config.configured = Loaded(nvs.stored)

\* A restart is pending exactly while the configured name differs from the
\* active one, across any sequence of saves, failed ones included: a restart that
\* would change nothing is refused and one that is due is never refused.
PendingExact ==
  running => (config.restartPending <=> config.active # config.configured)

\* README.md: "The configured name is saved in ESP32 NVS".  So the name in the
\* last successful reply to a save is the one the next boot makes active.  The
\* code breaks this: after a failed commit a save of the old name compares equal
\* to config_state and is acknowledged without a write.
AcknowledgedSurvives ==
  [][Boot /\ acknowledged # None => config'.active = acknowledged]_configVars

(***************************************************************************)
(* The inductive invariant behind ConfiguredIsStored.                      *)
(***************************************************************************)

\* Between SetName and Commit the value being saved is the staged one; after
\* Commit it is the stored one.
SaveInv ==
  /\ httpd.pc = "commit" => nvs.staged = httpd.name
  /\ httpd.pc = "update" => nvs.stored = httpd.name /\ nvs.staged = None

ConfigInv == ConfigTypeOK /\ SaveInv /\ ConfiguredIsStored /\ PendingExact

=============================================================================
