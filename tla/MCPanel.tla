------------------------------- MODULE MCPanel -------------------------------
(* The front panel, the settings, the request that changes them and the names *)
(* it may carry.  A behaviour walks through one of them and leaves the others *)
(* alone. *)
EXTENDS OledUi, MCAppConfig, SettingsRequest, Hostname

VARIABLE walk  \* the component that this behaviour walks through

Init ==
  /\ walk \in {"panel", "settings", "request", "hostname"}
  /\ UiInit /\ ConfigInit /\ RequestInit /\ HostnameInit
  /\ walk # "panel" => task.buttons

WalkPanel ==
  /\ walk = "panel" /\ UiNext
  /\ UNCHANGED <<walk, configVars, requestVars, input>>

WalkSettings ==
  /\ walk = "settings" /\ ConfigNext
  /\ UNCHANGED <<walk, uiVars, requestVars, input>>

WalkRequest ==
  /\ walk = "request" /\ RequestNext
  /\ UNCHANGED <<walk, uiVars, configVars, input>>

WalkHostname ==
  /\ walk = "hostname" /\ TypeCharacter
  /\ UNCHANGED <<walk, uiVars, configVars, requestVars>>

Next == WalkPanel \/ WalkSettings \/ WalkRequest \/ WalkHostname

\* The fairness of FairUiSpec.
Spec ==
  /\ Init /\ [][Next]_<<walk, uiVars, configVars, requestVars, input>>
  /\ WF_uiVars(walk = "panel" /\ TaskStep)
=============================================================================
