------------------------------ MODULE MCWiznet ------------------------------
(* The receive side of the W5500 driver, its transmit side, its multicast     *)
(* filter, and the diagnostics that listen in on its transfers.  A behaviour  *)
(* walks through one of them and leaves the others alone. *)
EXTENDS WiznetRx, WiznetTx, W5500Filter, NtpPath

VARIABLE walk  \* the component that this behaviour walks through

Init ==
  /\ walk \in {"receive", "transmit", "filter", "path"}
  /\ RxInit /\ TxInit /\ FilterInit /\ PathInit

WalkReceive ==
  /\ walk = "receive" /\ RxNext
  /\ UNCHANGED <<walk, transmitVars, filterVars, pathVars>>

WalkTransmit ==
  /\ walk = "transmit" /\ TxNext
  /\ UNCHANGED <<walk, receiverVars, filterVars, pathVars>>

WalkFilter ==
  /\ walk = "filter" /\ FilterNext
  /\ UNCHANGED <<walk, receiverVars, transmitVars, pathVars>>

WalkPath ==
  /\ walk = "path" /\ PathNext
  /\ UNCHANGED <<walk, receiverVars, transmitVars, filterVars>>

Next == WalkReceive \/ WalkTransmit \/ WalkFilter \/ WalkPath

\* The fairness of FairRxSpec.
Spec ==
  /\ Init /\ [][Next]_<<walk, receiverVars, transmitVars, filterVars, pathVars>>
  /\ WF_receiverVars(walk = "receive" /\ RxTask)
  /\ WF_receiverVars(walk = "receive" /\ TimerTask)
=============================================================================
