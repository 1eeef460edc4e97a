----------------------------- MODULE MCReceiver -----------------------------
(* What the receiver's bytes and pulses go through before they reach the      *)
(* timebase, and the arithmetic behind it.  The components share no state, so *)
(* a behaviour picks one and leaves the others where they start: TLC adds up  *)
(* the state spaces and does not multiply them. *)
EXTENDS GpsUart, NmeaLine, Calendar, NtpTime, NmeaFields, Pps, GpsStatus

\* 2000, 2100 and 2400 are centuries, 29 February 2400 ends the era of 2000.
ManyYears == 1970 .. 2110 \cup 2195 .. 2205 \cup 2396 .. 2404 \cup {9999}
EdgeSeconds == {0, 59, 60, 3599, 3600, 86399}

\* The digits 0, 1, 2, 5, 8 and 9 with signs, points and separators: a sample
\* each for signed numbers, for refused ones, for minutes and seconds that reach
\* 59, for long fractions, for 180 degrees and for whole sentences.
SampleTexts ==
  {[characters |-> {48, 49, 50, 56, 45, 46}, length |-> 5],
   [characters |-> {43, 46, 49, 88}, length |-> 4],
   [characters |-> {48, 53, 57, 46}, length |-> 7],
   [characters |-> {48, 46}, length |-> 9],
   [characters |-> {48, 49, 56}, length |-> 5],
   [characters |-> {42, 44, 48}, length |-> 6]}

VARIABLE walk  \* the component that this behaviour walks through

Init ==
  /\ walk \in {"uart", "line", "calendar", "ntp_time", "fields", "pps", "status"}
  /\ UartInit /\ LineInit /\ NtpTimeInit /\ StatusInit
  /\ PpsInit /\ (walk # "pps" => ~capture.available)
  /\ FieldInit /\ (walk # "fields" => sample = CHOOSE s \in Samples : TRUE)
  /\ CalendarInit /\ (walk # "calendar" => days = 0)

WalkUart ==
  /\ walk = "uart" /\ UartNext
  /\ UNCHANGED <<walk, lineVars, calendarVars, ntpTimeVars, fieldVars, ppsVars, statusVars>>

WalkLine ==
  /\ walk = "line" /\ ProcessByte
  /\ UNCHANGED <<walk, uartVars, calendarVars, ntpTimeVars, fieldVars, ppsVars, statusVars>>

WalkCalendar ==
  /\ walk = "calendar" /\ NextDay
  /\ UNCHANGED <<walk, uartVars, lineVars, ntpTimeVars, fieldVars, ppsVars, statusVars>>

WalkNtpTime ==
  /\ walk = "ntp_time" /\ Tick
  /\ UNCHANGED <<walk, uartVars, lineVars, calendarVars, fieldVars, ppsVars, statusVars>>

WalkFields ==
  /\ walk = "fields" /\ NextCharacter
  /\ UNCHANGED <<walk, uartVars, lineVars, calendarVars, ntpTimeVars, ppsVars, statusVars>>

WalkPps ==
  /\ walk = "pps" /\ PpsNext
  /\ UNCHANGED <<walk, uartVars, lineVars, calendarVars, ntpTimeVars, fieldVars, statusVars>>

WalkStatus ==
  /\ walk = "status" /\ StatusNext
  /\ UNCHANGED <<walk, uartVars, lineVars, calendarVars, ntpTimeVars, fieldVars, ppsVars>>

Next ==
  \/ WalkUart \/ WalkLine \/ WalkCalendar \/ WalkNtpTime \/ WalkFields \/ WalkPps \/ WalkStatus

walkVars == <<walk, uartVars, lineVars, calendarVars, ntpTimeVars, fieldVars, ppsVars,
              statusVars>>

\* The fairness of FairUartSpec.
Spec ==
  /\ Init /\ [][Next]_walkVars
  /\ WF_uartVars(walk = "uart" /\ Works)
=============================================================================
