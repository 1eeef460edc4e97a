---------------------------- MODULE ReceiverProofs ---------------------------
(* Proofs about the fix that a reader is shown, the UART, the NTP timestamp, the *)
(* assembly of lines and the PPS capture.  Limits and quotients: FieldProofs.    *)
EXTENDS GpsStatus, GpsUart, NtpTime, NmeaLine, Pps, FieldProofs

-----------------------------------------------------------------------------
(***************************************************************************)
(* Type correctness.                                                       *)
(***************************************************************************)
Lines == [id : Nat, type : Types, arrival : Nat, intact : BOOLEAN,
          legible : BOOLEAN, fix : BOOLEAN, place : BOOLEAN]
Fixes == [fix : BOOLEAN, position : BOOLEAN, sample : Nat, coordinates : Nat, last : Nat]
Pulses == [count : Nat, at : Nat]
TaskPc == {"idle", "touch", "store", "pps", "delay"}
Statistics == [count : Nat, sum : Int, minimum : Int, maximum : Int]

StatusTypeOK ==
  /\ uptime \in Nat
  /\ pulse \in Pulses
  /\ pulses \subseteq Nat
  /\ gps \in Fixes
  /\ delays \in [Types -> Statistics]
  /\ exact \in [Types -> Int]
  /\ task \in [pc : TaskPc, line : Lines, pulse : Pulses]
  /\ task.pc # "idle" => task.line.arrival < uptime
  /\ reader \in [pc : {"idle", "copied", "shown"}, gps : Fixes, told : SUBSET Lines, now : Nat]
  /\ told \subseteq Lines

LEMMA Blank ==
  /\ NoLine \in Lines /\ NoPulse \in Pulses /\ NoFix \in Fixes
  /\ NoDelays \in Statistics
  /\ NoReader \in [pc : {"idle", "copied", "shown"}, gps : Fixes,
                   told : SUBSET Lines, now : Nat]
<1>1. NoFix \in Fixes
  BY DEF NoFix, Fixes
<1> QED
  BY <1>1, StatusAssumption
     DEF NoLine, Lines, NoPulse, Pulses, NoDelays, Statistics, NoReader

\* One more sample.
LEMMA RecordedParts ==
  ASSUME NEW s \in Statistics, NEW x \in Int
  PROVE  /\ Recorded(s, x) \in Statistics
         /\ Recorded(s, x).count = s.count + 1 /\ Recorded(s, x).sum = s.sum + x
         /\ Recorded(s, x).minimum =
              IF s.count = 0 THEN x ELSE IF s.minimum <= x THEN s.minimum ELSE x
         /\ Recorded(s, x).maximum =
              IF s.count = 0 THEN x ELSE IF s.maximum <= x THEN x ELSE s.maximum
<1>1. s.count \in Nat /\ s.sum \in Int /\ s.minimum \in Int /\ s.maximum \in Int
  BY DEF Statistics
<1>2. /\ Recorded(s, x).count = s.count + 1 /\ Recorded(s, x).sum = s.sum + x
      /\ Recorded(s, x).minimum = IF s.count = 0 THEN x ELSE Min({s.minimum, x})
      /\ Recorded(s, x).maximum = IF s.count = 0 THEN x ELSE Max({s.maximum, x})
  BY DEF Recorded
<1>3. /\ Min({s.minimum, x}) = IF s.minimum <= x THEN s.minimum ELSE x
      /\ Max({s.maximum, x}) = IF s.maximum <= x THEN x ELSE s.maximum
  BY <1>1, PairLimits
<1>4. s.count + 1 \in Nat /\ s.sum + x \in Int
      /\ (IF s.count = 0 THEN x ELSE Min({s.minimum, x})) \in Int
      /\ (IF s.count = 0 THEN x ELSE Max({s.maximum, x})) \in Int
  BY <1>1, <1>3
<1>5. Recorded(s, x) \in Statistics
  BY <1>4, Zenon DEF Recorded, Statistics
<1> QED  BY <1>2, <1>3, <1>5

LEMMA ArrivalTyped ==
  ASSUME NEW u \in Nat, NEW a \in Max({1, u - Lag}) .. u - 1
  PROVE  a \in Nat /\ a < u
<1>1. Lag \in Nat /\ 1 \in Int /\ u - Lag \in Int
  BY StatusAssumption
<1>2. Max({1, u - Lag}) = IF 1 <= u - Lag THEN u - Lag ELSE 1
  BY <1>1, PairLimits
<1> QED  BY <1>1, <1>2

-----------------------------------------------------------------------------
(***************************************************************************)
(* The pulse a line is measured from.  After it was copied newer pulses    *)
(* may come, but only after the line did.                                  *)
(***************************************************************************)
PulseInv ==
  /\ pulse.count = 0 => pulses = {}
  /\ pulse.count > 0 => pulse.at \in pulses
  /\ \A p \in pulses : p <= pulse.at
  /\ pulse.at <= uptime
  /\ task.pc = "delay" /\ task.pulse.count > 0 =>
       /\ task.pulse.at \in pulses
       /\ \A p \in pulses : p <= task.pulse.at \/ p > task.line.arrival

LEMMA DelayExact ==
  ASSUME StatusTypeOK, PulseInv, task.pc = "delay", task.pulse.count > 0,
         task.line.arrival - task.pulse.at >= 0
  PROVE  ExactDelay(task.line.arrival) = task.line.arrival - task.pulse.at
<1> DEFINE a == task.line.arrival
           m == task.pulse.at
           S == {0} \cup {p \in pulses : p <= a}
<1>1. a \in Nat /\ m \in Nat /\ m <= a
  BY DEF StatusTypeOK, Lines, Pulses
<1>2. m \in pulses /\ \A p \in pulses : p <= m \/ p > a
  BY DEF PulseInv
<1>3. pulses \subseteq Nat
  BY DEF StatusTypeOK
<1> HIDE DEF a, m
<1>4. S \in SUBSET Int /\ m \in S /\ \A x \in S : x <= m
  <2>1. \A x \in S : x = 0 \/ (x \in pulses /\ x <= a)
    OBVIOUS
  <2>2. m \in S
    BY <1>1, <1>2
  <2> HIDE DEF S
  <2>3. \A x \in S : x \in Int /\ x <= m
    <3> SUFFICES ASSUME NEW x \in S PROVE x \in Int /\ x <= m
      OBVIOUS
    <3>1. CASE x = 0
      BY <1>1, <3>1
    <3>2. CASE x \in pulses /\ x <= a
      <4>1. x \in Nat /\ (x <= m \/ x > a)
        BY <1>2, <1>3, <3>2
      <4> QED  BY <1>1, <3>2, <4>1
    <3> QED  BY <2>1, <3>1, <3>2
  <2> QED  BY <2>2, <2>3
<1>5. Max(S) = m
  <2> HIDE DEF S
  <2> QED  BY <1>4, MaxIs
<1> QED  BY <1>5 DEF ExactDelay, a, m

LEMMA StatusTypeInit == StatusInit => StatusTypeOK
BY Blank DEF StatusInit, StatusTypeOK, TaskPc

\* The line that process_line takes.
LEMMA TakenLine ==
  ASSUME StatusTypeOK, TakeLine
  PROVE  \E sentence \in Lines :
           /\ sentence.arrival < uptime
           /\ task' = [task EXCEPT !.pc = IF sentence.intact THEN "touch" ELSE "pps",
                                   !.line = sentence]
           /\ told' = told \cup (IF Telling(sentence) THEN {sentence} ELSE {})
           /\ Telling(sentence) => sentence.intact
           /\ UNCHANGED <<uptime, pulse, gps, delays, reader, pulses, exact>>
<1>1. PICK type \in Types, intact, legible, fix, place \in BOOLEAN,
           arrival \in Max({1, uptime - Lag}) .. uptime - 1 :
        LET sentence == [id |-> task.line.id + 1, type |-> type, arrival |-> arrival,
                         intact |-> intact, legible |-> legible, fix |-> fix, place |-> place]
        IN  /\ (type # "GGA" \/ ~intact) => ~legible
            /\ (~legible => ~fix) /\ (~fix => ~place)
            /\ task' = [task EXCEPT !.pc = IF intact THEN "touch" ELSE "pps", !.line = sentence]
            /\ told' = told \cup (IF Telling(sentence) THEN {sentence} ELSE {})
  BY ZenonT(60) DEF TakeLine
<1> DEFINE sentence == [id |-> task.line.id + 1, type |-> type, arrival |-> arrival,
                        intact |-> intact, legible |-> legible, fix |-> fix, place |-> place]
<1>2. arrival \in Nat /\ arrival < uptime
  BY ArrivalTyped DEF StatusTypeOK
<1>3. sentence \in Lines
  BY <1>2 DEF Lines, StatusTypeOK
<1>4. sentence.intact = intact /\ sentence.arrival = arrival
  OBVIOUS
<1> QED  BY <1>1, <1>2, <1>3, <1>4 DEF TakeLine, Telling

LEMMA StatusTypeNext ==
  ASSUME StatusTypeOK, PulseInv, [StatusNext]_statusVars
  PROVE  StatusTypeOK'
<1> USE DEF StatusTypeOK
<1>1. CASE StatusTick
  <2>1. task.line.arrival \in Nat
    BY DEF Lines
  <2> QED  BY <1>1, <2>1 DEF StatusTick
<1>2. CASE Edge
  BY <1>2 DEF Edge, Pulses
<1>3. CASE TakeLine
  <2> PICK sentence \in Lines :
        /\ sentence.arrival < uptime
        /\ task' = [task EXCEPT !.pc = IF sentence.intact THEN "touch" ELSE "pps",
                                !.line = sentence]
        /\ told' = told \cup (IF Telling(sentence) THEN {sentence} ELSE {})
        /\ UNCHANGED <<uptime, pulse, gps, delays, reader, pulses, exact>>
    BY <1>3, TakenLine
  <2>1. (IF sentence.intact THEN "touch" ELSE "pps") \in TaskPc
    BY DEF TaskPc
  <2> QED  BY <2>1
<1>4. CASE Touch
  <2>1. task' \in [pc : TaskPc, line : Lines, pulse : Pulses]
        /\ task'.line = task.line /\ task.pc # "idle"
    BY <1>4 DEF Touch, Goto, TaskPc
  <2>2. gps' \in Fixes
    BY <1>4 DEF Touch, Fixes, Lines
  <2> QED  BY <1>4, <2>1, <2>2 DEF Touch
<1>5. CASE Store
  <2>1. task' \in [pc : TaskPc, line : Lines, pulse : Pulses]
        /\ task'.line = task.line /\ task.pc # "idle"
    BY <1>5 DEF Store, Goto, TaskPc
  <2>2. gps' \in Fixes
    BY <1>5 DEF Store, Stored, Fixes, Lines
  <2> QED  BY <1>5, <2>1, <2>2 DEF Store
<1>6. CASE ReadPulse
  <2>1. task' \in [pc : TaskPc, line : Lines, pulse : Pulses]
        /\ task'.line = task.line /\ task.pc # "idle"
    BY <1>6 DEF ReadPulse, TaskPc
  <2>2. told' \subseteq Lines
    BY <1>6 DEF ReadPulse
  <2> QED  BY <1>6, <2>1, <2>2 DEF ReadPulse
<1>7. CASE RecordDelay
  <2> DEFINE type == task.line.type
             delay == task.line.arrival - task.pulse.at
  <2>1. type \in Types /\ delay \in Int /\ task.line.arrival \in Nat
    BY DEF Lines, Pulses
  <2>2. task' \in [pc : TaskPc, line : Lines, pulse : Pulses] /\ task'.pc = "idle"
    <3>1. [NoLine EXCEPT !.id = task.line.id] \in Lines
      BY Blank DEF Lines
    <3> QED  BY <1>7, <3>1, Blank DEF RecordDelay, TaskPc
  <2>3. CASE UNCHANGED <<delays, exact>>
    BY <1>7, <2>2, <2>3 DEF RecordDelay
  <2>4. CASE /\ delays' = [delays EXCEPT ![type] = Recorded(@, delay)]
             /\ exact' = [exact EXCEPT ![type] = @ + ExactDelay(task.line.arrival)]
             /\ task.pulse.count > 0 /\ DelayValid(delay)
    <3>1. delays' \in [Types -> Statistics]
      <4>1. delays[type] \in Statistics
        BY <2>1
      <4>2. Recorded(delays[type], delay) \in Statistics
        BY <2>1, <4>1, RecordedParts
      <4> QED  BY <2>4, <4>2
    <3>2. exact' \in [Types -> Int]
      <4>1. ExactDelay(task.line.arrival) \in Int
        <5>1. ExactDelay(task.line.arrival) = delay
          BY <1>7, <2>1, <2>4, DelayExact DEF RecordDelay, DelayValid
        <5> QED  BY <2>1, <5>1
      <4> QED  BY <2>1, <2>4, <4>1
    <3> QED  BY <1>7, <2>2, <3>1, <3>2 DEF RecordDelay
  <2> QED  BY <1>7, <2>3, <2>4 DEF RecordDelay
<1>8. CASE CopyStatus
  BY <1>8 DEF CopyStatus
<1>9. CASE ReadClock
  BY <1>9 DEF ReadClock
<1>10. CASE ReaderDone
  BY <1>10, Blank DEF ReaderDone
<1>11. CASE UNCHANGED statusVars
  BY <1>11 DEF statusVars
<1> QED
  BY <1>1, <1>2, <1>3, <1>4, <1>5, <1>6, <1>7, <1>8, <1>9, <1>10, <1>11 DEF StatusNext

LEMMA PulseInit == StatusInit => PulseInv
BY DEF StatusInit, PulseInv, NoPulse

LEMMA PulseNext ==
  ASSUME StatusTypeOK, PulseInv, [StatusNext]_statusVars
  PROVE  PulseInv'
<1>0. /\ uptime \in Nat /\ pulses \subseteq Nat /\ pulse.count \in Nat
      /\ pulse.at \in Nat /\ task.pulse.at \in Nat /\ task.line.arrival \in Nat
  BY DEF StatusTypeOK, Lines, Pulses
<1> USE DEF PulseInv
<1>1. CASE StatusTick
  BY <1>0, <1>1 DEF StatusTick
<1>2. CASE Edge
  <2>1. /\ pulse'.count = pulse.count + 1 /\ pulse'.at = uptime
        /\ pulses' = pulses \cup {uptime} /\ uptime' = uptime /\ task' = task
    BY <1>2 DEF Edge
  <2>2. \A p \in pulses : p <= uptime
    BY <1>0
  <2>3. task.pc = "delay" => uptime > task.line.arrival
    BY <1>0 DEF StatusTypeOK
  <2> QED  BY <1>0, <2>1, <2>2, <2>3
<1>3. CASE TakeLine
  <2>1. task'.pc # "delay" /\ UNCHANGED <<uptime, pulse, pulses>>
    BY <1>3, TakenLine DEF StatusTypeOK
  <2> QED  BY <2>1
<1>4. CASE Touch \/ Store
  <2>1. task'.pc # "delay" /\ UNCHANGED <<uptime, pulse, pulses>>
    BY <1>4 DEF Touch, Store, Goto, StatusTypeOK
  <2> QED  BY <2>1
<1>5. CASE ReadPulse
  <2>1. task'.pulse = pulse /\ UNCHANGED <<uptime, pulse, pulses>>
    BY <1>5 DEF ReadPulse, StatusTypeOK
  <2> QED  BY <2>1
<1>6. CASE RecordDelay
  <2>1. task'.pc # "delay" /\ UNCHANGED <<uptime, pulse, pulses>>
    BY <1>6 DEF RecordDelay
  <2> QED  BY <2>1
<1>7. CASE CopyStatus \/ ReadClock \/ ReaderDone \/ UNCHANGED statusVars
  BY <1>7 DEF CopyStatus, ReadClock, ReaderDone, statusVars
<1> QED
  BY <1>1, <1>2, <1>3, <1>4, <1>5, <1>6, <1>7 DEF StatusNext

-----------------------------------------------------------------------------
(***************************************************************************)
(* The delays.                                                             *)
(***************************************************************************)
DelayInv ==
  \A t \in Types :
    LET d == delays[t]
    IN  /\ d.sum = exact[t]
        /\ 0 <= d.minimum /\ d.maximum <= MaxDelay
        /\ d.minimum * d.count <= d.sum /\ d.sum <= d.maximum * d.count

LEMMA TimesMonotone ==
  ASSUME NEW x \in Int, NEW y \in Int, NEW n \in Nat, x <= y
  PROVE  x * n <= y * n
<1>1. y * n - x * n = (y - x) * n
  OBVIOUS
<1>2. (y - x) * n >= 0
  <2> DEFINE d == y - x
  <2>1. d \in Nat
    OBVIOUS
  <2> HIDE DEF d
  <2>2. d * n >= 0
    BY <2>1
  <2> QED  BY <2>2 DEF d
<1>3. x * n \in Int /\ y * n \in Int
  OBVIOUS
<1> QED  BY <1>1, <1>2, <1>3

\* One more sample within the limits.
LEMMA RecordedEnclosed ==
  ASSUME NEW s \in Statistics, NEW x \in Int, 0 <= x, x <= MaxDelay,
         0 <= s.minimum, s.maximum <= MaxDelay,
         s.minimum * s.count <= s.sum, s.sum <= s.maximum * s.count
  PROVE  LET d == Recorded(s, x)
         IN  /\ 0 <= d.minimum /\ d.maximum <= MaxDelay
             /\ d.minimum * d.count <= d.sum /\ d.sum <= d.maximum * d.count
<1> DEFINE n == s.count
           l == IF n = 0 THEN x ELSE IF s.minimum <= x THEN s.minimum ELSE x
           m == IF n = 0 THEN x ELSE IF s.maximum <= x THEN x ELSE s.maximum
<1>1. n \in Nat /\ s.sum \in Int /\ s.minimum \in Int /\ s.maximum \in Int
      /\ MaxDelay \in Nat
  BY StatusAssumption DEF Statistics
<1>2. /\ Recorded(s, x).count = n + 1 /\ Recorded(s, x).sum = s.sum + x
      /\ Recorded(s, x).minimum = l /\ Recorded(s, x).maximum = m
  BY RecordedParts
<1>3. l \in Int /\ m \in Int /\ l <= x /\ x <= m /\ 0 <= l /\ m <= MaxDelay
  BY <1>1
<1>4. l * n <= s.sum /\ s.sum <= m * n
  <2>1. CASE n = 0
    <3>1. \A v \in Int : v * n = 0
      BY <2>1
    <3>2. s.minimum * n = 0 /\ s.maximum * n = 0 /\ l * n = 0 /\ m * n = 0
      BY <3>1, <1>1, <1>3, Zenon
    <3> QED  BY <3>2, <1>1
  <2>2. CASE n # 0
    <3>1. l <= s.minimum /\ s.maximum <= m
      BY <2>2, <1>1
    <3> HIDE DEF l, m
    <3>2. l * n <= s.minimum * n /\ s.maximum * n <= m * n
      BY <3>1, <1>1, <1>3, TimesMonotone
    <3>3. s.minimum * n <= s.sum /\ s.sum <= s.maximum * n
      OBVIOUS
    <3> HIDE DEF n
    <3>4. /\ l * n \in Int /\ m * n \in Int
          /\ s.minimum * n \in Int /\ s.maximum * n \in Int
      BY <1>1, <1>3
    <3> QED  BY <3>2, <3>3, <3>4, <1>1
  <2> QED  BY <2>1, <2>2
<1> HIDE DEF l, m, n
<1>5. l * (n + 1) = l * n + l /\ m * (n + 1) = m * n + m
  BY <1>1, <1>3
<1>6. l * n \in Int /\ m * n \in Int
  BY <1>1, <1>3
<1>7. l * (n + 1) <= s.sum + x /\ s.sum + x <= m * (n + 1)
  BY <1>1, <1>3, <1>4, <1>5, <1>6
<1> QED  BY <1>2, <1>3, <1>7

LEMMA DelayInit == StatusInit => DelayInv
<1> SUFFICES ASSUME StatusInit, NEW t \in Types
             PROVE  /\ delays[t] = NoDelays /\ exact[t] = 0
                    /\ MaxDelay \in Nat
  BY DEF DelayInv, NoDelays
<1> QED  BY StatusAssumption DEF StatusInit

LEMMA DelayNext ==
  ASSUME StatusTypeOK, PulseInv, DelayInv, [StatusNext]_statusVars
  PROVE  DelayInv'
<1>1. CASE UNCHANGED <<delays, exact>>
  BY <1>1 DEF DelayInv
<1>2. CASE RecordDelay /\ ~UNCHANGED <<delays, exact>>
  <2> DEFINE type == task.line.type
             delay == task.line.arrival - task.pulse.at
  <2>1. /\ delays' = [delays EXCEPT ![type] = Recorded(@, delay)]
        /\ exact' = [exact EXCEPT ![type] = @ + ExactDelay(task.line.arrival)]
        /\ task.pc = "delay" /\ task.pulse.count > 0 /\ DelayValid(delay)
    BY <1>2 DEF RecordDelay
  <2>2. type \in Types /\ delay \in Int
    BY DEF StatusTypeOK, Lines, Pulses
  <2>3. delays \in [Types -> Statistics] /\ exact \in [Types -> Int]
    BY DEF StatusTypeOK
  <2>4. ExactDelay(task.line.arrival) = delay
    BY <2>1, DelayExact DEF DelayValid
  <2> HIDE DEF type, delay
  <2> SUFFICES ASSUME NEW t \in Types
               PROVE  /\ delays'[t].sum = exact'[t]
                      /\ 0 <= delays'[t].minimum /\ delays'[t].maximum <= MaxDelay
                      /\ delays'[t].minimum * delays'[t].count <= delays'[t].sum
                      /\ delays'[t].sum <= delays'[t].maximum * delays'[t].count
    BY DEF DelayInv
  <2>5. CASE t = type
    <3> DEFINE s == delays[t]
    <3>1. /\ s \in Statistics /\ s.sum = exact[t]
          /\ 0 <= s.minimum /\ s.maximum <= MaxDelay
          /\ s.minimum * s.count <= s.sum /\ s.sum <= s.maximum * s.count
      BY <2>3 DEF DelayInv
    <3>2. delays'[t] = Recorded(s, delay) /\ exact'[t] = exact[t] + delay
      BY <2>1, <2>2, <2>3, <2>4, <2>5
    <3>3. 0 <= delay /\ delay <= MaxDelay
      BY <2>1, <2>2 DEF DelayValid
    <3> HIDE DEF s
    <3>4. /\ 0 <= Recorded(s, delay).minimum /\ Recorded(s, delay).maximum <= MaxDelay
          /\ Recorded(s, delay).minimum * Recorded(s, delay).count
               <= Recorded(s, delay).sum
          /\ Recorded(s, delay).sum
               <= Recorded(s, delay).maximum * Recorded(s, delay).count
      BY <2>2, <3>1, <3>3, RecordedEnclosed, Zenon
    <3>5. Recorded(s, delay).sum = s.sum + delay
      BY <2>2, <3>1, RecordedParts, Zenon
    <3> QED  BY <3>1, <3>2, <3>4, <3>5, Zenon
  <2>6. CASE t # type
    <3>1. delays'[t] = delays[t] /\ exact'[t] = exact[t]
      BY <2>1, <2>3, <2>6
    <3> QED  BY <3>1, Zenon DEF DelayInv
  <2> QED  BY <2>5, <2>6
<1> QED
  BY <1>1, <1>2
     DEF StatusNext, StatusTick, Edge, TakeLine, Touch, Store, ReadPulse,
         CopyStatus, ReadClock, ReaderDone, statusVars

-----------------------------------------------------------------------------
(***************************************************************************)
(* The fix.  T holds the line that g tells of.                             *)
(***************************************************************************)
Tells(g, T) ==
  g.fix => \E sentence \in T :
             /\ sentence.fix /\ g.sample = sentence.id
             /\ g.position <=> sentence.place
             /\ g.position => g.coordinates = sentence.id

TellInv ==
  /\ Tells(gps, told)
  /\ task.pc = "touch" /\ Telling(task.line) => task.line \in told
  /\ task.pc = "store" => Telling(task.line) /\ task.line \in told
  /\ task.pc = "pps" /\ Telling(task.line) => Tells(gps, {task.line})
  /\ reader.pc # "idle" => Tells(reader.gps, reader.told)

LEMMA TellInit == StatusInit => TellInv
BY DEF StatusInit, TellInv, Tells, NoFix, NoReader

LEMMA TellNext ==
  ASSUME StatusTypeOK, TellInv, [StatusNext]_statusVars
  PROVE  TellInv'
<1> USE DEF TellInv
<1>0. gps \in Fixes /\ reader.gps \in Fixes
      /\ task \in [pc : TaskPc, line : Lines, pulse : Pulses]
  BY DEF StatusTypeOK
<1>1. CASE StatusTick \/ Edge \/ UNCHANGED statusVars
  <2>1. UNCHANGED <<gps, told, task, reader>>
    BY <1>1 DEF StatusTick, Edge, statusVars
  <2> QED  BY <2>1, Zenon DEF Tells, Telling
<1>2. CASE TakeLine
  <2> PICK sentence \in Lines :
        /\ task' = [task EXCEPT !.pc = IF sentence.intact THEN "touch" ELSE "pps",
                                !.line = sentence]
        /\ told' = told \cup (IF Telling(sentence) THEN {sentence} ELSE {})
        /\ Telling(sentence) => sentence.intact
        /\ UNCHANGED <<gps, reader>>
    BY <1>2, TakenLine
  <2>1. Tells(gps', told') /\ (reader'.pc # "idle" => Tells(reader'.gps, reader'.told))
    BY DEF Tells
  <2>2. task'.line = sentence /\ task'.pc = IF sentence.intact THEN "touch" ELSE "pps"
    BY <1>0
  <2>3. Telling(sentence) => task'.pc = "touch" /\ sentence \in told'
    BY <2>2
  <2>4. task'.pc # "store" /\ (task'.pc = "pps" => ~Telling(sentence))
    BY <2>2, <2>3
  <2> QED  BY <2>1, <2>2, <2>3, <2>4
<1>3. CASE Touch
  <2>1. /\ task'.pc = IF Telling(task.line) THEN "store" ELSE "pps"
        /\ task'.line = task.line /\ task.pc = "touch"
    BY <1>0, <1>3 DEF Touch, Goto
  <2>2. /\ gps'.fix = gps.fix /\ gps'.sample = gps.sample
        /\ gps'.position = gps.position /\ gps'.coordinates = gps.coordinates
        /\ UNCHANGED <<told, reader>>
    BY <1>0, <1>3 DEF Touch, Fixes
  <2>3. Tells(gps', told')
    BY <2>2, Zenon DEF Tells
  <2>4. Telling(task'.line) <=> Telling(task.line)
    BY <2>1
  <2> QED  BY <2>1, <2>2, <2>3, <2>4
<1>4. CASE Store
  <2> DEFINE sentence == task.line
  <2>1. /\ task'.pc = "pps" /\ task'.line = sentence /\ task.pc = "store"
        /\ UNCHANGED <<told, reader>>
    BY <1>0, <1>4 DEF Store, Goto
  <2>2. /\ gps'.fix = sentence.fix /\ gps'.sample = sentence.id
        /\ gps'.position = (sentence.fix /\ sentence.place)
        /\ sentence.fix /\ sentence.place => gps'.coordinates = sentence.id
    BY <1>0, <1>4 DEF Store, Stored, Fixes
  <2>3. sentence \in told /\ Telling(sentence)
    BY <2>1
  <2>4. Tells(gps', {sentence}) /\ Tells(gps', told')
    <3> HIDE DEF sentence
    <3>1. gps'.fix => /\ sentence.fix /\ gps'.sample = sentence.id
                      /\ gps'.position <=> sentence.place
                      /\ gps'.position => gps'.coordinates = sentence.id
      BY <2>2, Zenon
    <3> QED  BY <2>1, <2>3, <3>1, Zenon DEF Tells
  <2> QED  BY <2>1, <2>4
<1>5. CASE ReadPulse
  <2>1. /\ task'.pc = "delay" /\ task.pc = "pps"
        /\ UNCHANGED <<gps, reader>>
        /\ told' = IF Telling(task.line) THEN {task.line} ELSE told
    BY <1>0, <1>5 DEF ReadPulse
  <2>2. Tells(gps', told')
    BY <2>1, Zenon DEF Tells
  <2> QED  BY <2>1, <2>2
<1>6. CASE RecordDelay
  <2>1. task'.pc = "idle" /\ UNCHANGED <<gps, told, reader>>
    BY <1>6 DEF RecordDelay
  <2> QED  BY <2>1
<1>7. CASE CopyStatus
  <2>1. /\ reader'.gps = gps /\ reader'.told = told
        /\ UNCHANGED <<gps, told, task>>
    BY <1>7 DEF CopyStatus, StatusTypeOK
  <2> QED  BY <2>1, Zenon DEF Tells, Telling
<1>8. CASE ReadClock
  <2>1. /\ reader'.gps = reader.gps /\ reader'.told = reader.told
        /\ reader.pc # "idle" /\ UNCHANGED <<gps, told, task>>
    BY <1>8 DEF ReadClock, StatusTypeOK
  <2> QED  BY <2>1, Zenon DEF Tells, Telling
<1>9. CASE ReaderDone
  <2>1. reader'.pc = "idle" /\ UNCHANGED <<gps, told, task>>
    BY <1>9 DEF ReaderDone, NoReader
  <2> QED  BY <2>1, Zenon DEF Tells, Telling
<1> QED
  BY <1>1, <1>2, <1>3, <1>4, <1>5, <1>6, <1>7, <1>8, <1>9 DEF StatusNext

-----------------------------------------------------------------------------
(***************************************************************************)
(* Theorems.                                                               *)
(***************************************************************************)
StatusInv == StatusTypeOK /\ PulseInv /\ DelayInv /\ TellInv

LEMMA StatusInvariant == StatusSpec => []StatusInv
<1>1. StatusInit => StatusInv
  BY StatusTypeInit, PulseInit, DelayInit, TellInit DEF StatusInv
<1>2. StatusInv /\ [StatusNext]_statusVars => StatusInv'
  BY StatusTypeNext, PulseNext, DelayNext, TellNext DEF StatusInv
<1> QED  BY <1>1, <1>2, PTL DEF StatusSpec

\* Whatever lines come and whenever readers look, a fix and a position are shown as
\* one line told them, never put together from two.
THEOREM FixesOfOneLine == StatusSpec => []FixOfOneLine
<1>1. StatusInv => FixOfOneLine
  BY DEF StatusInv, TellInv, Tells, FixOfOneLine, ShownFix, ShownPosition
<1> QED  BY <1>1, StatusInvariant, PTL

\* However late a line is processed and however many pulses come meanwhile, its
\* delay counts from the pulse before it.
THEOREM DelaysFromPulses == StatusSpec => []DelaysFromPulse
<1>1. StatusInv => DelaysFromPulse
  BY DEF StatusInv, DelayInv, DelaysFromPulse
<1> QED  BY <1>1, StatusInvariant, PTL


-----------------------------------------------------------------------------
(***************************************************************************)
(* The UART.                                                               *)
(***************************************************************************)
EventTypes == {"UART_DATA"} \cup Overflows \cup LineErrors
Events == [type : EventTypes, size : Nat, bytes : Seq(Int)]
MainStates ==
  [pc : {"wait", "read", "flush", "reset"}, eventAt : Int, remaining : Nat, own : Seq(Int)]

UartTypeOK ==
  /\ clock \in Nat
  /\ fifo \in Seq(Int) /\ ring \in Seq(Int)
  /\ queue \in Seq(Events)
  /\ main \in MainStates

\* Only data events announce bytes, their own.
Sized(event) ==
  event.size = Len(event.bytes) /\ (event.type # "UART_DATA" => event.size = 0)
SizesInv ==
  /\ \A i \in 1 .. Len(queue) : Sized(queue[i])
  /\ main.pc # "read" => main.remaining = 0
  /\ main.pc = "read" => Len(main.own) = main.remaining

\* After the first bytes, those of the events of q, one event after the other, end
\* within the first room bytes.
Fills(q, first, room) ==
  \E last \in [0 .. Len(q) -> 0 .. room] :
    /\ last[0] = first
    /\ \A i \in 1 .. Len(q) : last[i] = last[i - 1] + q[i].size
    /\ \A i, j \in 0 .. Len(q) : i <= j => last[i] <= last[j]

BackedInv == main.pc # "reset" => Fills(queue, main.remaining, Len(ring))

\* A byte is as many ticks old as bytes have come after it; those of the event that
\* is being read were so at its timestamp.
AgeInv ==
  /\ \A i \in 1 .. Len(ring) : ring[i] <= clock - (Len(ring) + Len(fifo) - i)
  /\ \A i \in 1 .. Len(fifo) : fifo[i] <= clock - (Len(fifo) - i)
  /\ main.pc = "read" =>
       /\ main.remaining <= Len(ring)
       /\ \A i \in 1 .. main.remaining : ring[i] <= main.eventAt - (main.remaining - i)

UartInv == UartTypeOK /\ SizesInv /\ BackedInv /\ AgeInv

LEMMA SizeFacts ==
  FifoSize \in Nat \ {0} /\ RingSize \in Nat \ {0} /\ QueueSize \in Nat \ {0}
  /\ BufferSize \in Nat \ {0}
BY SizeAssumption

-----------------------------------------------------------------------------
\* The events of a queue and the bytes that they announce.
LEMMA FillsNothing ==
  ASSUME NEW room \in Nat
  PROVE  Fills(<<>>, 0, room)
<1> DEFINE last == [i \in 0 .. 0 |-> 0]
<1>1. last \in [0 .. Len(<<>>) -> 0 .. room] /\ last[0] = 0
  OBVIOUS
<1>2. \A i, j \in 0 .. Len(<<>>) : i <= j => last[i] <= last[j]
  OBVIOUS
<1>3. Len(<<>>) = 0 /\ 1 .. Len(<<>>) = {}
  OBVIOUS
<1> HIDE DEF last
<1> QED  BY <1>1, <1>2, <1>3, Zenon DEF Fills

LEMMA FillsWithin ==
  ASSUME NEW q \in Seq(Events), NEW first \in Nat, NEW room \in Nat, Fills(q, first, room)
  PROVE  first <= room
BY DEF Fills

LEMMA FillsMore ==
  ASSUME NEW q \in Seq(Events), NEW first \in Nat, NEW room \in Nat, NEW more \in Nat,
         room <= more, Fills(q, first, room)
  PROVE  Fills(q, first, more)
<1>1. PICK last \in [0 .. Len(q) -> 0 .. room] :
        /\ last[0] = first
        /\ \A i \in 1 .. Len(q) : last[i] = last[i - 1] + q[i].size
        /\ \A i, j \in 0 .. Len(q) : i <= j => last[i] <= last[j]
  BY DEF Fills
<1>2. last \in [0 .. Len(q) -> 0 .. more]
  OBVIOUS
<1> QED  BY <1>1, <1>2 DEF Fills

LEMMA RoomLeft ==
  ASSUME NEW room \in Nat, NEW x \in 0 .. room, NEW size \in Nat, NEW more \in Nat,
         room + size <= more
  PROVE  x + size \in 0 .. more
OBVIOUS

\* An event is posted with its bytes.
LEMMA FillsAppend ==
  ASSUME NEW q \in Seq(Events), NEW first \in Nat, NEW room \in Nat, NEW more \in Nat,
         Fills(q, first, room), NEW event \in Events, room + event.size <= more
  PROVE  Fills(Append(q, event), first, more)
<1>1. PICK last \in [0 .. Len(q) -> 0 .. room] :
        /\ last[0] = first
        /\ \A i \in 1 .. Len(q) : last[i] = last[i - 1] + q[i].size
        /\ \A i, j \in 0 .. Len(q) : i <= j => last[i] <= last[j]
  BY DEF Fills
<1> DEFINE p == Append(q, event)
           n == Len(q)
           end == [i \in 0 .. n + 1 |-> IF i <= n THEN last[i] ELSE last[n] + event.size]
<1>2. /\ n \in Nat /\ Len(p) = n + 1 /\ p[n + 1] = event
      /\ \A i \in 1 .. n : p[i] = q[i]
  OBVIOUS
<1>3. event.size \in Nat /\ \A i \in 0 .. n : last[i] \in 0 .. room
  BY <1>2 DEF Events
<1> HIDE DEF p, n
<1>4. end \in [0 .. Len(p) -> 0 .. more]
  <2> SUFFICES ASSUME NEW i \in 0 .. n + 1
               PROVE  (IF i <= n THEN last[i] ELSE last[n] + event.size) \in 0 .. more
    BY <1>2, Zenon
  <2>1. CASE i <= n
    BY <1>2, <1>3, <2>1
  <2>2. CASE ~(i <= n)
    <3>1. n \in 0 .. n
      BY <1>2
    <3>2. last[n] \in 0 .. room
      BY <1>3, <3>1, Zenon
    <3>3. last[n] + event.size \in 0 .. more
      BY <1>3, <3>2, RoomLeft
    <3> QED  BY <2>2, <3>3
  <2> QED  BY <2>1, <2>2
<1>5. end[0] = first
  BY <1>1, <1>2
<1>6. \A i \in 1 .. Len(p) : end[i] = end[i - 1] + p[i].size
  <2> SUFFICES ASSUME NEW i \in 1 .. n + 1 PROVE end[i] = end[i - 1] + p[i].size
    BY <1>2
  <2>1. CASE i <= n
    <3>1. end[i] = last[i] /\ end[i - 1] = last[i - 1]
      BY <1>2, <2>1
    <3>2. last[i] = last[i - 1] + q[i].size /\ p[i] = q[i]
      BY <1>1, <1>2, <2>1 DEF n
    <3> HIDE DEF end
    <3> QED  BY <3>1, <3>2
  <2>2. CASE i = n + 1
    BY <1>2, <2>2
  <2> QED  BY <1>2, <2>1, <2>2
<1>7. \A i, j \in 0 .. Len(p) : i <= j => end[i] <= end[j]
  <2> SUFFICES ASSUME NEW i \in 0 .. n + 1, NEW j \in 0 .. n + 1, i <= j PROVE end[i] <= end[j]
    BY <1>2
  <2>1. CASE j <= n
    BY <1>1, <1>2, <2>1 DEF n
  <2>2. CASE j = n + 1 /\ i <= n
    <3>1. i \in 0 .. n /\ n \in 0 .. n
      BY <1>2, <2>2
    <3>2. last[i] <= last[n]
      BY <1>1, <2>2, <3>1 DEF n
    <3>3. last[i] \in Nat /\ last[n] \in Nat /\ event.size \in Nat
      BY <1>3, <3>1
    <3>4. last[i] <= last[n] + event.size
      BY <3>2, <3>3
    <3>5. end[i] = last[i] /\ end[j] = last[n] + event.size
      BY <1>2, <2>2
    <3> QED  BY <3>4, <3>5, Zenon
  <2>3. CASE j = n + 1 /\ i = n + 1
    BY <1>2, <1>3, <2>3
  <2> QED  BY <1>2, <2>1, <2>2, <2>3
<1> HIDE DEF end
<1> QED  BY <1>4, <1>5, <1>6, <1>7 DEF Fills, p

\* The first event is taken: its bytes are the first ones then.
LEMMA FillsTail ==
  ASSUME NEW q \in Seq(Events), q # <<>>, NEW room \in Nat, Fills(q, 0, room)
  PROVE  Fills(Tail(q), Head(q).size, room)
<1>1. PICK last \in [0 .. Len(q) -> 0 .. room] :
        /\ last[0] = 0
        /\ \A i \in 1 .. Len(q) : last[i] = last[i - 1] + q[i].size
        /\ \A i, j \in 0 .. Len(q) : i <= j => last[i] <= last[j]
  BY DEF Fills
<1> DEFINE p == Tail(q)
           n == Len(q)
           end == [i \in 0 .. n - 1 |-> last[i + 1]]
<1>2. /\ n \in Nat /\ n >= 1 /\ Len(p) = n - 1 /\ Head(q) = q[1] /\ q[1] \in Events
      /\ \A i \in 1 .. n - 1 : p[i] = q[i + 1]
  OBVIOUS
<1> HIDE DEF p
<1>3. end \in [0 .. Len(p) -> 0 .. room]
  BY <1>2
<1>4. end[0] = Head(q).size
  <2>1. q[1].size \in Nat /\ last[1] = last[0] + q[1].size /\ end[0] = last[1]
    BY <1>1, <1>2 DEF Events
  <2> QED  BY <1>1, <1>2, <2>1
<1>5. \A i \in 1 .. Len(p) : end[i] = end[i - 1] + p[i].size
  <2> SUFFICES ASSUME NEW i \in 1 .. n - 1 PROVE end[i] = end[i - 1] + p[i].size
    BY <1>2
  <2>1. end[i] = last[i + 1] /\ end[i - 1] = last[i] /\ p[i] = q[i + 1]
    BY <1>2
  <2>2. last[i + 1] = last[(i + 1) - 1] + q[i + 1].size
    BY <1>1, <1>2
  <2> QED  BY <2>1, <2>2
<1>6. \A i, j \in 0 .. Len(p) : i <= j => end[i] <= end[j]
  BY <1>1, <1>2
<1> HIDE DEF end
<1> QED  BY <1>3, <1>4, <1>5, <1>6 DEF Fills, p

\* The first bytes are read.
LEMMA FillsRead ==
  ASSUME NEW q \in Seq(Events), NEW first \in Nat, NEW room \in Nat, Fills(q, first, room),
         NEW count \in 0 .. first
  PROVE  Fills(q, first - count, room - count)
<1>1. PICK last \in [0 .. Len(q) -> 0 .. room] :
        /\ last[0] = first
        /\ \A i \in 1 .. Len(q) : last[i] = last[i - 1] + q[i].size
        /\ \A i, j \in 0 .. Len(q) : i <= j => last[i] <= last[j]
  BY DEF Fills
<1> DEFINE n == Len(q)
           end == [i \in 0 .. n |-> last[i] - count]
<1>2. n \in Nat /\ \A i \in 0 .. n : last[i] \in 0 .. room /\ last[i] >= first
  <2>1. n \in Nat /\ 0 \in 0 .. n /\ \A i \in 0 .. n : 0 <= i
    OBVIOUS
  <2> SUFFICES ASSUME NEW i \in 0 .. n PROVE last[i] \in 0 .. room /\ last[i] >= first
    BY <2>1
  <2>2. last[i] \in 0 .. room
    BY <1>1, Zenon
  <2>3. last[0] <= last[i]
    BY <1>1, <2>1, Zenon
  <2> QED  BY <1>1, <2>2, <2>3
<1> HIDE DEF n
<1>3. end \in [0 .. n -> 0 .. room - count]
  BY <1>2
<1>4. end[0] = first - count
  BY <1>1, <1>2
<1>5. \A i \in 1 .. n : end[i] = end[i - 1] + q[i].size
  <2> SUFFICES ASSUME NEW i \in 1 .. n PROVE end[i] = end[i - 1] + q[i].size
    OBVIOUS
  <2>1. q[i].size \in Nat /\ last[i] = last[i - 1] + q[i].size
    <3>1. i \in 1 .. Len(q) /\ q[i] \in Events
      BY DEF n
    <3>2. q[i].size \in Nat
      BY <3>1 DEF Events
    <3> QED  BY <1>1, <3>1, <3>2, Zenon
  <2>2. end[i] = last[i] - count /\ end[i - 1] = last[i - 1] - count
    BY <1>2
  <2>3. last[i - 1] \in Nat
    BY <1>2
  <2> QED  BY <2>1, <2>2, <2>3
<1>6. \A i, j \in 0 .. n : i <= j => end[i] <= end[j]
  BY <1>1, <1>2 DEF n
<1> HIDE DEF end
<1> QED  BY <1>3, <1>4, <1>5, <1>6 DEF Fills, n

-----------------------------------------------------------------------------
LEMMA UartStart == UartInit => UartInv
<1> SUFFICES ASSUME UartInit PROVE UartInv
  OBVIOUS
<1>1. /\ clock = 0 /\ fifo = <<>> /\ ring = <<>> /\ queue = <<>>
      /\ main.pc = "wait" /\ main.remaining = 0 /\ main \in MainStates
  BY DEF UartInit, Waiting, MainStates
<1>2. UartTypeOK
  BY <1>1 DEF UartTypeOK
<1>3. SizesInv /\ AgeInv
  BY <1>1 DEF SizesInv, AgeInv
<1>4. BackedInv
  BY <1>1, FillsNothing DEF BackedInv
<1> QED  BY <1>2, <1>3, <1>4 DEF UartInv

\* A posted event joins the queue or is dropped; its bytes are in the ring or, with
\* a fault, there are none.
LEMMA Posted ==
  ASSUME UartInv, NEW event \in Events, Sized(event),
         NEW room \in Nat, Len(ring) + event.size <= room
  PROVE  /\ Post(event) \in Seq(Events)
         /\ \A i \in 1 .. Len(Post(event)) : Sized(Post(event)[i])
         /\ main.pc # "reset" => Fills(Post(event), main.remaining, room)
<1>1. /\ queue \in Seq(Events) /\ Len(ring) \in Nat /\ main.remaining \in Nat
      /\ event.size \in Nat /\ \A i \in 1 .. Len(queue) : Sized(queue[i])
  <2>1. /\ queue \in Seq(Events) /\ ring \in Seq(Int) /\ main \in MainStates
        /\ \A i \in 1 .. Len(queue) : Sized(queue[i])
    BY Zenon DEF UartInv, UartTypeOK, SizesInv
  <2>2. main.remaining \in Nat
    BY <2>1 DEF MainStates
  <2>3. event.size \in Nat
    BY DEF Events
  <2> QED  BY <2>1, <2>2, <2>3
<1>2. CASE Post(event) = Append(queue, event)
  <2> DEFINE q == Append(queue, event)
  <2>1. /\ q \in Seq(Events) /\ Len(q) = Len(queue) + 1 /\ q[Len(queue) + 1] = event
        /\ \A i \in 1 .. Len(queue) : q[i] = queue[i]
    BY <1>1
  <2> HIDE DEF q
  <2>2. \A i \in 1 .. Len(q) : Sized(q[i])
    BY <1>1, <2>1
  <2>3. main.pc # "reset" => Fills(q, main.remaining, room)
    BY <1>1, FillsAppend DEF q, UartInv, BackedInv
  <2> QED  BY <1>2, <2>1, <2>2, <2>3 DEF q
<1>3. CASE Post(event) = queue
  <2>1. Len(ring) <= room
    BY <1>1
  <2>2. main.pc # "reset" => Fills(queue, main.remaining, room)
    BY <1>1, <2>1, FillsMore DEF UartInv, BackedInv
  <2> QED  BY <1>1, <1>3, <2>2
<1> QED  BY <1>2, <1>3 DEF Post

LEMMA FaultTyped ==
  ASSUME NEW type \in Overflows \cup LineErrors
  PROVE  Fault(type) \in Events /\ Sized(Fault(type)) /\ Fault(type).size = 0
<1>1. type # "UART_DATA"
  BY DEF Overflows, LineErrors
<1> QED  BY <1>1 DEF Fault, Events, EventTypes, Sized

LEMMA DataTyped ==
  ASSUME NEW bytes \in Seq(Int)
  PROVE  Data(bytes) \in Events /\ Sized(Data(bytes)) /\ Data(bytes).size = Len(bytes)
BY DEF Data, Events, EventTypes, Sized

LEMMA ByteTimeKeeps == UartInv /\ ByteTime => UartInv'
<1> SUFFICES ASSUME UartInv, ByteTime PROVE UartInv'
  OBVIOUS
<1> USE DEF UartInv
<1>1. /\ ring' = ring /\ queue' = queue /\ main' = main
      /\ clock \in Nat /\ clock' = clock + 1
      /\ fifo \in Seq(Int) /\ ring \in Seq(Int)
  BY DEF ByteTime, UartTypeOK
<1>2. CASE fifo' = fifo
  <2>1. AgeInv'
    <3>1. \A i \in 1 .. Len(ring) : ring[i] <= clock + 1 - (Len(ring) + Len(fifo) - i)
      <4> SUFFICES ASSUME NEW i \in 1 .. Len(ring)
                   PROVE  ring[i] <= clock + 1 - (Len(ring) + Len(fifo) - i)
        OBVIOUS
      <4>1. ring[i] <= clock - (Len(ring) + Len(fifo) - i)
        BY DEF AgeInv
      <4>2. ring[i] \in Int /\ Len(ring) \in Nat /\ Len(fifo) \in Nat
        BY <1>1
      <4> QED  BY <1>1, <4>1, <4>2
    <3>2. \A i \in 1 .. Len(fifo) : fifo[i] <= clock + 1 - (Len(fifo) - i)
      <4> SUFFICES ASSUME NEW i \in 1 .. Len(fifo)
                   PROVE  fifo[i] <= clock + 1 - (Len(fifo) - i)
        OBVIOUS
      <4>1. fifo[i] <= clock - (Len(fifo) - i)
        BY DEF AgeInv
      <4>2. fifo[i] \in Int /\ Len(fifo) \in Nat
        BY <1>1
      <4> QED  BY <1>1, <4>1, <4>2
    <3>3. main.pc = "read" =>
            /\ main.remaining <= Len(ring)
            /\ \A i \in 1 .. main.remaining : ring[i] <= main.eventAt - (main.remaining - i)
      BY Zenon DEF AgeInv
    <3> QED  BY <1>1, <1>2, <3>1, <3>2, <3>3 DEF AgeInv
  <2>2. UartTypeOK'
    BY <1>1, <1>2 DEF UartTypeOK
  <2> QED  BY <1>1, <2>1, <2>2 DEF SizesInv, BackedInv
<1>3. CASE fifo' = Append(fifo, clock + 1)
  <2> DEFINE n == Len(fifo)
  <2>1. /\ fifo' \in Seq(Int) /\ Len(fifo') = n + 1 /\ n \in Nat
        /\ fifo'[n + 1] = clock + 1
        /\ \A i \in 1 .. n : fifo'[i] = fifo[i]
    BY <1>1, <1>3
  <2>2. UartTypeOK'
    BY <1>1, <2>1 DEF UartTypeOK
  <2>3. \A i \in 1 .. Len(ring) : ring[i] <= clock' - (Len(ring) + Len(fifo') - i)
    BY <1>1, <2>1 DEF AgeInv
  <2>4. \A i \in 1 .. Len(fifo') : fifo'[i] <= clock' - (Len(fifo') - i)
    <3> SUFFICES ASSUME NEW i \in 1 .. n + 1 PROVE fifo'[i] <= clock + 1 - (n + 1 - i)
      BY <1>1, <2>1
    <3>1. CASE i <= n
      <4>1. i \in 1 .. n /\ fifo[i] \in Int
        BY <1>1, <2>1, <3>1
      <4> QED  BY <1>1, <2>1, <4>1 DEF AgeInv
    <3>2. CASE i = n + 1
      BY <1>1, <2>1, <3>2
    <3> QED  BY <2>1, <3>1, <3>2
  <2>5. AgeInv'
    BY <1>1, <2>3, <2>4, Zenon DEF AgeInv
  <2> QED  BY <1>1, <2>2, <2>5 DEF SizesInv, BackedInv
<1> QED  BY <1>2, <1>3 DEF ByteTime

LEMMA DriverDataKeeps == UartInv /\ DriverData => UartInv'
<1> SUFFICES ASSUME UartInv, DriverData PROVE UartInv'
  OBVIOUS
<1> USE DEF UartInv
<1>1. /\ ring' = ring \o fifo /\ fifo' = <<>> /\ queue' = Post(Data(fifo))
      /\ main' = main /\ clock' = clock
      /\ fifo \in Seq(Int) /\ ring \in Seq(Int) /\ clock \in Nat
  BY DEF DriverData, UartTypeOK
<1>2. /\ ring' \in Seq(Int) /\ Len(ring') = Len(ring) + Len(fifo)
      /\ \A i \in 1 .. Len(ring) : ring'[i] = ring[i]
      /\ \A i \in Len(ring) + 1 .. Len(ring') : ring'[i] = fifo[i - Len(ring)]
  BY <1>1
<1>3. /\ queue' \in Seq(Events) /\ (\A i \in 1 .. Len(queue') : Sized(queue'[i]))
      /\ (main.pc # "reset" => Fills(queue', main.remaining, Len(ring')))
  <2>1. Data(fifo) \in Events /\ Sized(Data(fifo)) /\ Data(fifo).size = Len(fifo)
    BY <1>1, DataTyped
  <2>2. Len(ring') \in Nat /\ Len(ring) + Data(fifo).size <= Len(ring')
    BY <1>1, <1>2, <2>1
  <2> QED  BY <1>1, <2>1, <2>2, Posted
<1>4. UartTypeOK'
  BY <1>1, <1>2, <1>3 DEF UartTypeOK
<1>5. SizesInv' /\ BackedInv'
  BY <1>1, <1>3 DEF SizesInv, BackedInv
<1>6. AgeInv'
  <2>1. Len(ring) \in Nat /\ Len(fifo) \in Nat /\ Len(fifo') = 0 /\ 1 .. Len(fifo') = {}
    BY <1>1
  <2>2. \A i \in 1 .. Len(ring') : ring'[i] <= clock - (Len(ring') + Len(fifo') - i)
    <3> SUFFICES ASSUME NEW i \in 1 .. Len(ring')
                 PROVE  ring'[i] <= clock - (Len(ring) + Len(fifo) - i)
      BY <1>2, <2>1
    <3>1. CASE i <= Len(ring)
      BY <1>1, <1>2, <2>1, <3>1 DEF AgeInv
    <3>2. CASE i > Len(ring)
      <4>1. ring'[i] = fifo[i - Len(ring)] /\ i - Len(ring) \in 1 .. Len(fifo)
        BY <1>1, <1>2, <2>1, <3>2
      <4>2. fifo[i - Len(ring)] <= clock - (Len(fifo) - (i - Len(ring)))
        BY <4>1 DEF AgeInv
      <4> QED  BY <1>1, <2>1, <4>1, <4>2
    <3> QED  BY <1>1, <3>1, <3>2
  <2>3. main.pc = "read" =>
          /\ main.remaining <= Len(ring')
          /\ \A i \in 1 .. main.remaining :
               ring'[i] <= main.eventAt - (main.remaining - i)
    <3> SUFFICES ASSUME main.pc = "read"
                 PROVE  /\ main.remaining <= Len(ring')
                        /\ \A i \in 1 .. main.remaining :
                             ring'[i] <= main.eventAt - (main.remaining - i)
      OBVIOUS
    <3>1. main.remaining \in Nat /\ main.remaining <= Len(ring)
      BY DEF AgeInv, UartTypeOK, MainStates
    <3>2. \A i \in 1 .. main.remaining : ring'[i] = ring[i]
      BY <1>1, <1>2, <3>1
    <3>3. main.remaining <= Len(ring')
      BY <1>1, <1>2, <3>1
    <3> QED  BY <3>2, <3>3 DEF AgeInv
  <2> QED  BY <1>1, <2>1, <2>2, <2>3, Zenon DEF AgeInv
<1> QED  BY <1>4, <1>5, <1>6

\* The FIFO is lost, or stays, and a fault is posted.
LEMMA FaultKeeps ==
  ASSUME UartInv, DriverFull \/ DriverOverflow \/ DriverError
  PROVE  UartInv'
<1> USE DEF UartInv
<1>1. /\ clock' = clock /\ ring' = ring /\ main' = main /\ (fifo' = <<>> \/ fifo' = fifo)
      /\ \E type \in Overflows \cup LineErrors : queue' = Post(Fault(type))
  BY DEF DriverFull, DriverOverflow, DriverError, Overflows
<1>2. Len(ring) \in Nat /\ fifo' \in Seq(Int)
  <2>1. <<>> \in Seq(Int) /\ fifo \in Seq(Int) /\ ring \in Seq(Int)
    BY DEF UartTypeOK
  <2>2. fifo' \in Seq(Int)
    BY <1>1, <2>1, Zenon
  <2> QED  BY <2>1, <2>2
<1>3. /\ queue' \in Seq(Events) /\ (\A i \in 1 .. Len(queue') : Sized(queue'[i]))
      /\ (main.pc # "reset" => Fills(queue', main.remaining, Len(ring)))
  <2>1. PICK type \in Overflows \cup LineErrors : queue' = Post(Fault(type))
    BY <1>1
  <2>2. Fault(type) \in Events /\ Sized(Fault(type)) /\ Fault(type).size = 0
    BY FaultTyped
  <2> QED  BY <1>2, <2>1, <2>2, Posted
<1>4. UartTypeOK'
  BY <1>1, <1>2, <1>3 DEF UartTypeOK
<1>5. SizesInv' /\ BackedInv'
  BY <1>1, <1>3 DEF SizesInv, BackedInv
<1>6. AgeInv'
  <2>1. CASE fifo' = fifo
    BY <1>1, <2>1 DEF AgeInv
  <2>2. CASE fifo' = <<>>
    <3>1. Len(fifo) \in Nat /\ Len(ring) \in Nat /\ ring \in Seq(Int) /\ clock \in Nat
      BY DEF UartTypeOK
    <3>2. Len(fifo') = 0 /\ 1 .. Len(fifo') = {}
      BY <2>2
    <3>3. \A i \in 1 .. Len(ring) : ring[i] <= clock - (Len(ring) + Len(fifo') - i)
      BY <3>1, <3>2 DEF AgeInv
    <3> QED  BY <1>1, <3>2, <3>3, Zenon DEF AgeInv
  <2> QED  BY <1>1, <2>1, <2>2
<1> QED  BY <1>4, <1>5, <1>6

LEMMA DequeueKeeps == UartInv /\ Dequeue => UartInv'
<1> SUFFICES ASSUME UartInv, Dequeue PROVE UartInv'
  OBVIOUS
<1> USE DEF UartInv
<1> DEFINE event == Head(queue)
<1>1. /\ main.pc = "wait" /\ main.remaining = 0 /\ queue # <<>> /\ queue' = Tail(queue)
      /\ clock' = clock /\ fifo' = fifo /\ ring' = ring
      /\ queue \in Seq(Events) /\ Len(ring) \in Nat /\ main \in MainStates /\ clock \in Nat
  BY DEF Dequeue, UartTypeOK, SizesInv
<1>2. /\ queue' \in Seq(Events) /\ event \in Events /\ Sized(event)
      /\ \A i \in 1 .. Len(queue') : Sized(queue'[i])
  <2>1. /\ queue' \in Seq(Events) /\ Len(queue') = Len(queue) - 1 /\ Len(queue) >= 1
        /\ event = queue[1] /\ event \in Events
        /\ \A i \in 1 .. Len(queue') : queue'[i] = queue[i + 1]
    BY <1>1
  <2>2. \A i \in 1 .. Len(queue) : Sized(queue[i])
    BY DEF SizesInv
  <2>3. 1 \in 1 .. Len(queue) /\ \A i \in 1 .. Len(queue') : i + 1 \in 1 .. Len(queue)
    BY <2>1
  <2> QED  BY <2>1, <2>2, <2>3, Zenon
<1>3. Fills(queue', event.size, Len(ring))
  <2>1. Fills(queue, 0, Len(ring))
    BY <1>1 DEF BackedInv
  <2> QED  BY <1>1, <2>1, FillsTail
<1>4. event.size \in Nat /\ event.bytes \in Seq(Int) /\ event.size <= Len(ring)
  <2>1. event.size \in Nat /\ event.bytes \in Seq(Int)
    BY <1>2 DEF Events
  <2> QED  BY <1>1, <1>2, <1>3, <2>1, FillsWithin
<1>5. main' = CASE event.type = "UART_DATA" ->
                     [pc |-> "read", eventAt |-> clock,
                      remaining |-> event.size, own |-> event.bytes]
                [] event.type \in Overflows -> [main EXCEPT !.pc = "flush"]
                [] OTHER -> main
  BY DEF Dequeue
<1> HIDE DEF event
<1>6. CASE event.type = "UART_DATA"
  <2>1. main' = [pc |-> "read", eventAt |-> clock, remaining |-> event.size,
                 own |-> event.bytes]
    BY <1>5, <1>6 DEF Overflows
  <2>2. UartTypeOK'
    BY <1>1, <1>2, <1>4, <2>1 DEF UartTypeOK, MainStates
  <2>3. SizesInv'
    BY <1>2, <1>4, <2>1 DEF SizesInv, Sized
  <2>4. BackedInv'
    BY <1>1, <1>3, <2>1 DEF BackedInv
  <2>5. AgeInv'
    <3>1. main'.pc = "read" /\ main'.remaining = event.size /\ main'.eventAt = clock
      BY <2>1
    <3>2. /\ ring \in Seq(Int) /\ Len(fifo) \in Nat
      BY DEF UartTypeOK
    <3>3. \A i \in 1 .. event.size : ring[i] <= clock - (event.size - i)
      <4> SUFFICES ASSUME NEW i \in 1 .. event.size PROVE ring[i] <= clock - (event.size - i)
        OBVIOUS
      <4>1. i \in 1 .. Len(ring)
        BY <1>1, <1>4
      <4>2. ring[i] \in Int /\ ring[i] <= clock - (Len(ring) + Len(fifo) - i)
        BY <3>2, <4>1 DEF AgeInv
      <4>3. Len(ring) \in Nat /\ event.size \in Nat /\ event.size <= Len(ring) /\ clock \in Nat
        BY <1>1, <1>4, <3>2
      <4>4. PICK l \in Nat, size \in Nat, f \in Nat, c \in Nat, r \in Int :
              /\ l = Len(ring) /\ size = event.size /\ f = Len(fifo) /\ c = clock
              /\ r = ring[i] /\ size <= l
        BY <3>2, <4>2, <4>3
      <4>5. i \in Int /\ r <= c - (l + f - i)
        BY <4>2, <4>4
      <4>6. r <= c - (size - i)
        BY <4>4, <4>5
      <4> QED  BY <4>4, <4>6, Zenon
    <3> QED  BY <1>1, <1>4, <3>1, <3>3 DEF AgeInv
  <2> QED  BY <2>2, <2>3, <2>4, <2>5
<1>7. CASE event.type # "UART_DATA"
  <2>1. event.size = 0
    BY <1>2, <1>7 DEF Sized
  <2>2. main' = [main EXCEPT !.pc = "flush"] \/ main' = main
    BY <1>5, <1>7
  <2>3. main' \in MainStates /\ main'.pc \in {"wait", "flush"} /\ main'.remaining = 0
    BY <1>1, <2>2 DEF MainStates
  <2>4. UartTypeOK'
    BY <1>1, <1>2, <2>3 DEF UartTypeOK
  <2>5. SizesInv' /\ BackedInv'
    BY <1>1, <1>2, <1>3, <2>1, <2>3 DEF SizesInv, BackedInv
  <2>6. AgeInv'
    BY <1>1, <2>3 DEF AgeInv
  <2> QED  BY <2>4, <2>5, <2>6
<1> QED  BY <1>6, <1>7

\* The bytes of one call of uart_read_bytes.
LEMMA RequestedBytes ==
  ASSUME UartTypeOK
  PROVE  /\ Requested \in 0 .. main.remaining /\ Later \in Nat
         /\ Later = main.remaining - Requested
BY SizeFacts DEF UartTypeOK, MainStates, Requested, Later

LEMMA SuffixRead ==
  ASSUME NEW s \in Seq(Int), NEW k \in 0 .. Len(s)
  PROVE  /\ SubSeq(s, k + 1, Len(s)) \in Seq(Int)
         /\ Len(SubSeq(s, k + 1, Len(s))) = Len(s) - k
OBVIOUS

LEMMA ReadKeeps == UartInv /\ Read => UartInv'
<1> SUFFICES ASSUME UartInv, Read PROVE UartInv'
  OBVIOUS
<1> USE DEF UartInv
<1> DEFINE k == Requested
<1>1. /\ main.pc = "read" /\ main \in MainStates /\ main.remaining \in Nat
      /\ k \in 0 .. main.remaining /\ k <= Len(ring) /\ k \in Nat
      /\ clock' = clock /\ fifo' = fifo /\ queue' = queue
      /\ ring' = SubSeq(ring, k + 1, Len(ring))
      /\ main.remaining <= Len(ring) /\ Len(main.own) = main.remaining
      /\ ring \in Seq(Int) /\ main.own \in Seq(Int) /\ queue \in Seq(Events)
  BY RequestedBytes DEF Read, UartTypeOK, MainStates, SizesInv, AgeInv
<1>2. main' = IF Later = 0 THEN Waiting
              ELSE [main EXCEPT !.remaining = Later,
                      !.own = SubSeq(main.own, k + 1, Len(main.own))]
  BY DEF Read
<1>3. Later \in Nat /\ Later = main.remaining - k
  BY RequestedBytes
<1> HIDE DEF k
<1>4. /\ ring' \in Seq(Int) /\ Len(ring') = Len(ring) - k
      /\ \A i \in 1 .. Len(ring) - k : ring'[i] = ring[i + k]
  BY <1>1
<1> DEFINE own == SubSeq(main.own, k + 1, Len(main.own))
<1>5. own \in Seq(Int) /\ Len(own) = Later
  BY <1>1, <1>3, SuffixRead
<1> HIDE DEF own
<1>6. /\ main' \in MainStates /\ main'.remaining = Later /\ main'.pc \in {"wait", "read"}
      /\ main'.pc = "wait" => Later = 0
      /\ main'.pc = "read" => main'.own = own /\ main'.eventAt = main.eventAt
  <2>1. CASE Later = 0
    BY <1>2, <2>1 DEF Waiting, MainStates
  <2>2. CASE Later # 0
    <3>1. main' = [main EXCEPT !.remaining = Later, !.own = own]
      BY <1>2, <2>2 DEF own
    <3> QED  BY <1>1, <1>3, <1>5, <3>1 DEF MainStates
  <2> QED  BY <2>1, <2>2
<1>7. UartTypeOK'
  BY <1>1, <1>4, <1>6 DEF UartTypeOK
<1>8. SizesInv'
  BY <1>1, <1>5, <1>6 DEF SizesInv
<1>9. BackedInv'
  <2>1. Fills(queue, main.remaining, Len(ring))
    BY <1>1 DEF BackedInv
  <2>2. Len(ring) \in Nat
    BY <1>1
  <2>3. Fills(queue, main.remaining - k, Len(ring) - k)
    BY <1>1, <2>1, <2>2, FillsRead
  <2> QED  BY <1>1, <1>3, <1>4, <1>6, <2>3 DEF BackedInv
<1>10. AgeInv'
  <2> DEFINE m == Len(ring)
  <2>1. /\ m \in Nat /\ Len(fifo) \in Nat /\ clock \in Nat /\ Len(ring') = m - k
        /\ \A i \in 1 .. m - k : i + k \in 1 .. m /\ ring[i + k] \in Int /\ ring'[i] = ring[i + k]
    BY <1>1, <1>4 DEF UartTypeOK
  <2>2. \A i \in 1 .. m - k : ring'[i] <= clock - ((m - k) + Len(fifo) - i)
    <3> SUFFICES ASSUME NEW i \in 1 .. m - k
                 PROVE  ring'[i] <= clock - ((m - k) + Len(fifo) - i)
      OBVIOUS
    <3>1. ring[i + k] <= clock - (m + Len(fifo) - (i + k))
      BY <2>1 DEF AgeInv
    <3> QED  BY <1>1, <2>1, <3>1
  <2>3. ASSUME main'.pc = "read"
        PROVE  /\ Later <= m - k
               /\ \A i \in 1 .. Later : ring'[i] <= main.eventAt - (Later - i)
    <3>1. Later <= m - k
      <4>1. PICK r \in Nat : r = main.remaining /\ r <= m
        BY <1>1
      <4> HIDE DEF m
      <4> QED  BY <1>1, <1>3, <2>1, <4>1
    <3>2. ASSUME NEW i \in 1 .. Later PROVE ring'[i] <= main.eventAt - (Later - i)
      <4> HIDE DEF m
      <4>5. /\ Later \in Nat /\ Later = main.remaining - k /\ k \in Nat
            /\ main.remaining \in Nat /\ Later <= m - k /\ m \in Nat
        BY <1>1, <1>3, <2>1, <3>1
      <4>1. i \in 1 .. m - k /\ i + k \in 1 .. main.remaining
        BY <4>5
      <4>2. ring[i + k] <= main.eventAt - (main.remaining - (i + k))
        BY <1>1, <4>1 DEF AgeInv
      <4>3. main.eventAt \in Int
        BY <1>1 DEF MainStates
      <4>4. ring'[i] = ring[i + k] /\ ring[i + k] \in Int
        BY <2>1, <4>1
      <4> QED  BY <4>5, <4>1, <4>2, <4>3, <4>4
    <3> QED  BY <3>1, <3>2
  <2> HIDE DEF m
  <2>4. main'.pc = "read" =>
          /\ main'.remaining <= Len(ring')
          /\ \A i \in 1 .. main'.remaining :
               ring'[i] <= main'.eventAt - (main'.remaining - i)
    BY <1>6, <2>1, <2>3
  <2> QED  BY <1>1, <2>1, <2>2, <2>4 DEF AgeInv
<1> QED  BY <1>7, <1>8, <1>9, <1>10

LEMMA ReadFailsKeeps == UartInv /\ ReadFails => UartInv'
<1> SUFFICES ASSUME UartInv, ReadFails PROVE UartInv'
  OBVIOUS
<1> USE DEF UartInv
<1>1. /\ main.pc = "read" /\ main' = Waiting
      /\ clock' = clock /\ fifo' = fifo /\ queue' = queue /\ ring' = ring
  BY DEF ReadFails
<1>2. main'.pc = "wait" /\ main'.remaining = 0 /\ main' \in MainStates
  BY <1>1 DEF Waiting, MainStates
<1>3. UartTypeOK' /\ SizesInv' /\ AgeInv'
  BY <1>1, <1>2 DEF UartTypeOK, SizesInv, AgeInv
<1>4. BackedInv'
  <2>1. /\ queue \in Seq(Events) /\ main.remaining \in Nat /\ Len(ring) \in Nat
        /\ main.remaining <= Len(ring)
    BY <1>1 DEF UartTypeOK, MainStates, AgeInv
  <2>2. Fills(queue, main.remaining, Len(ring))
    BY <1>1 DEF BackedInv
  <2>3. main.remaining - main.remaining = 0 /\ main.remaining \in 0 .. main.remaining
    BY <2>1
  <2>4. Fills(queue, main.remaining - main.remaining, Len(ring) - main.remaining)
    BY <2>1, <2>2, <2>3, FillsRead
  <2>5. Fills(queue, 0, Len(ring) - main.remaining)
    BY <2>3, <2>4
  <2>6. Len(ring) - main.remaining \in Nat /\ Len(ring) - main.remaining <= Len(ring)
    BY <2>1
  <2>7. Fills(queue, 0, Len(ring))
    BY <2>1, <2>5, <2>6, FillsMore
  <2> QED  BY <1>1, <1>2, <2>7 DEF BackedInv
<1> QED  BY <1>3, <1>4

LEMMA ResetKeeps ==
  ASSUME UartInv, FlushInput \/ ResetQueue
  PROVE  UartInv'
<1> USE DEF UartInv
<1>1. CASE FlushInput
  <2>1. /\ main.pc = "flush" /\ main' = [main EXCEPT !.pc = "reset"]
        /\ ring' = <<>> /\ fifo' = <<>> /\ clock' = clock /\ queue' = queue
    BY <1>1 DEF FlushInput
  <2>2. main' \in MainStates /\ main'.pc = "reset" /\ main'.remaining = main.remaining
    BY <2>1 DEF UartTypeOK, MainStates
  <2>3. UartTypeOK'
    BY <2>1, <2>2 DEF UartTypeOK
  <2>4. SizesInv' /\ BackedInv' /\ AgeInv'
    BY <2>1, <2>2 DEF SizesInv, BackedInv, AgeInv
  <2> QED  BY <2>3, <2>4
<1>2. CASE ResetQueue
  <2>1. /\ main' = Waiting /\ queue' = <<>>
        /\ ring' = ring /\ fifo' = fifo /\ clock' = clock
    BY <1>2 DEF ResetQueue
  <2>2. main' \in MainStates /\ main'.pc = "wait" /\ main'.remaining = 0
    BY <2>1 DEF Waiting, MainStates
  <2>3. UartTypeOK'
    BY <2>1, <2>2 DEF UartTypeOK
  <2>4. SizesInv' /\ AgeInv'
    BY <2>1, <2>2 DEF SizesInv, AgeInv
  <2>5. BackedInv'
    <3>1. Len(ring) \in Nat
      BY DEF UartTypeOK
    <3>2. Fills(<<>>, 0, Len(ring))
      BY <3>1, FillsNothing
    <3> QED  BY <2>1, <2>2, <3>2 DEF BackedInv
  <2> QED  BY <2>3, <2>4, <2>5
<1> QED  BY <1>1, <1>2

LEMMA UartStepKeeps == UartInv /\ [UartNext]_uartVars => UartInv'
<1> SUFFICES ASSUME UartInv, [UartNext]_uartVars PROVE UartInv'
  OBVIOUS
<1>1. CASE UNCHANGED uartVars
  BY <1>1 DEF UartInv, UartTypeOK, SizesInv, BackedInv, AgeInv, uartVars
<1>2. CASE UartNext
  BY <1>2, ByteTimeKeeps, DriverDataKeeps, FaultKeeps, DequeueKeeps, ReadKeeps,
     ReadFailsKeeps, ResetKeeps DEF UartNext, MainStep, Works
<1> QED  BY <1>1, <1>2

LEMMA UartInvariant == UartSpec => []UartInv
BY UartStart, UartStepKeeps, PTL DEF UartSpec

\* Every byte that an event announces is in the ring buffer (gps_uart_poll,
\* uart_read_bytes with portMAX_DELAY).
THEOREM EventsAlwaysBacked == UartSpec => []EventsBacked
<1>1. UartInv => EventsBacked
  <2> SUFFICES ASSUME UartInv, main.pc # "reset" PROVE
        \E last \in [0 .. Len(queue) -> 0 .. Len(ring)] :
          /\ last[0] = main.remaining
          /\ \A i \in 1 .. Len(queue) : last[i] = last[i - 1] + queue[i].size
    BY DEF EventsBacked
  <2> QED  BY DEF UartInv, BackedInv, Fills
<1> QED  BY <1>1, UartInvariant, PTL

\* The estimated arrival of a byte lies between its true arrival and the event's
\* timestamp (nmea_timing_process_uart_event_bytes).
THEOREM EstimateAlwaysBounded == UartSpec => EstimateBounded
<1>1. UartInv /\ [UartNext]_uartVars =>
        [Read => \A i \in 1 .. Requested :
                   EstimatedArrival(i) \in Chunk[i] .. main.eventAt]_uartVars
  <2> SUFFICES ASSUME UartInv, Read, NEW i \in 1 .. Requested
               PROVE  EstimatedArrival(i) \in Chunk[i] .. main.eventAt
    BY Zenon
  <2> DEFINE n == main.remaining
  <2>1. /\ main.pc = "read" /\ n \in Nat /\ n <= Len(ring) /\ main.eventAt \in Int
        /\ ring \in Seq(Int) /\ Requested \in 0 .. n /\ Requested <= Len(ring)
        /\ Later = n - Requested
    BY RequestedBytes DEF UartInv, UartTypeOK, MainStates, AgeInv, Read
  <2>2. EstimatedArrival(i) = main.eventAt - (n - i)
    BY <2>1 DEF EstimatedArrival
  <2>3. Chunk[i] = ring[i] /\ i \in 1 .. n /\ ring[i] \in Int
    BY <2>1 DEF Chunk
  <2>4. ring[i] <= main.eventAt - (n - i)
    BY <2>1, <2>3 DEF UartInv, AgeInv
  <2> HIDE DEF n
  <2> QED  BY <2>1, <2>2, <2>3, <2>4
<1> QED  BY <1>1, UartInvariant, PTL DEF UartSpec, EstimateBounded


-----------------------------------------------------------------------------
(***************************************************************************)
(* The NTP timestamp.                                                      *)
(***************************************************************************)

\* The snapshot is of an edge, and not of one to come.
SnapshotInv ==
  /\ now \in Nat /\ unix \in Nat
  /\ stamp = unix * Second /\ stamp <= now

LEMMA WidthFacts ==
  /\ Second \in Nat \ {0} /\ SecondsMod \in Nat \ {0} /\ FractionMod \in Nat \ {0}
  /\ Second <= FractionMod /\ EpochOffset \in Nat /\ SecondsMod >= 2
<1>1. /\ Second \in Nat \ {0} /\ SecondsMod \in Nat \ {0} /\ FractionMod \in Nat \ {0}
      /\ Second <= FractionMod /\ EpochOffset \in Nat
      /\ MaxAge \in Nat /\ MaxAge < (SecondsMod \div 2) * Second
  BY WidthAssumption
<1>2. CASE SecondsMod = 1
  <2>1. SecondsMod \div 2 = 0
    BY <1>2
  <2> QED  BY <1>1, <2>1
<1> QED  BY <1>1, <1>2

\* The two words when second q is r ticks old.
Words(q, r) ==
  ((q + EpochOffset) % SecondsMod) * FractionMod + (r * FractionMod) \div Second

\* The timestamp is the one of the timer, whichever edge the snapshot is of.
LEMMA TimestampOfNow ==
  ASSUME NEW time \in Nat, NEW second \in Nat, second * Second <= time
  PROVE  /\ second + (time - second * Second) \div Second = time \div Second
         /\ (time - second * Second) % Second = time % Second
<1> DEFINE q == time \div Second
           r == time % Second
<1>1. q \in Nat /\ r \in 0 .. Second - 1 /\ time = Second * q + r
  BY Quotient, WidthFacts
<1> HIDE DEF q, r
<1>2. q >= second
  <2> SUFFICES ASSUME q + 1 <= second PROVE FALSE
    BY <1>1
  <2>1. (q + 1) * Second <= second * Second
    BY <1>1, WidthFacts
  <2>2. (q + 1) * Second = Second * q + Second
    BY <1>1, WidthFacts
  <2> QED  BY <1>1, <2>1, <2>2, WidthFacts
<1>3. q - second \in Nat /\ time - second * Second = (q - second) * Second + r
  BY <1>1, <1>2, WidthFacts
<1>4. ((q - second) * Second + r) \div Second = q - second /\ ((q - second) * Second + r) % Second = r
  BY <1>1, <1>3, QuotientIs, WidthFacts
<1>5. second + (q - second) = q
  BY <1>1
<1> QED  BY <1>3, <1>4, <1>5 DEF q, r

LEMMA NtpIs == SnapshotInv => Ntp = Words(now \div Second, now % Second)
<1> SUFFICES ASSUME SnapshotInv PROVE Ntp = Words(now \div Second, now % Second)
  OBVIOUS
<1>1. /\ unix + (now - stamp) \div Second = now \div Second
      /\ (now - stamp) % Second = now % Second
  BY TimestampOfNow DEF SnapshotInv
<1>2. /\ NtpTimeFromPps.seconds = NtpSeconds(unix + (now - stamp) \div Second)
      /\ NtpTimeFromPps.fraction = NtpFraction((now - stamp) % Second)
  BY DEF NtpTimeFromPps
<1> QED  BY <1>1, <1>2, Zenon DEF Ntp, Words, NtpSeconds, NtpFraction

\* What the fraction loses is less than its unit.
LEMMA FractionBounds ==
  ASSUME NEW r \in 0 .. Second
  PROVE  LET f == (r * FractionMod) \div Second
         IN  /\ f \in Nat /\ f * Second <= r * FractionMod
             /\ r * FractionMod < f * Second + Second
<1> DEFINE x == r * FractionMod
           f == x \div Second
<1>1. x \in Nat
  BY WidthFacts
<1> HIDE DEF x
<1>2. f \in Nat /\ x % Second \in 0 .. Second - 1 /\ x = Second * f + (x % Second)
  BY <1>1, Quotient, WidthFacts
<1> HIDE DEF f
<1>3. f * Second = Second * f /\ Second * f \in Nat
  BY <1>2, WidthFacts
<1>4. f * Second <= x /\ x < f * Second + Second
  BY <1>1, <1>2, <1>3, WidthFacts
<1> QED  BY <1>2, <1>4, Zenon DEF x, f

\* A step of less than an era is what a client computes, also across its end.
LEMMA SmallStep ==
  ASSUME NEW d \in Nat, d < Era
  PROVE  d % Era = d /\ (d - Era) % Era = d
<1>1. Era \in Nat \ {0}
  BY WidthFacts DEF Era
<1> QED  BY <1>1

StepBounds(d) == d * Second > FractionMod - Second /\ d * Second < FractionMod + Second

LEMMA WithinSecond ==
  ASSUME NEW q \in Nat, NEW r \in Nat, r + 1 < Second
  PROVE  StepBounds((Words(q, r + 1) - Words(q, r)) % Era)
<1> DEFINE a == (r * FractionMod) \div Second
           b == ((r + 1) * FractionMod) \div Second
           w == ((q + EpochOffset) % SecondsMod) * FractionMod
<1>1. /\ a \in Nat /\ a * Second <= r * FractionMod /\ r * FractionMod < a * Second + Second
      /\ b \in Nat /\ b * Second <= (r + 1) * FractionMod
      /\ (r + 1) * FractionMod < b * Second + Second
  <2>1. r \in 0 .. Second /\ r + 1 \in 0 .. Second
    BY WidthFacts
  <2> QED  BY <2>1, FractionBounds
<1>2. w \in Int /\ Words(q, r + 1) = w + b /\ Words(q, r) = w + a
  <2>1. (q + EpochOffset) % SecondsMod \in Int
    BY WidthFacts
  <2> QED  BY <2>1, WidthFacts DEF Words
<1> HIDE DEF a, b, w
<1>3. (r + 1) * FractionMod = r * FractionMod + FractionMod /\ r * FractionMod \in Nat
  BY WidthFacts
<1>4. a * Second \in Nat /\ b * Second \in Nat /\ (b - a) * Second = b * Second - a * Second
  BY <1>1, WidthFacts
<1>5. StepBounds(b - a)
  BY <1>1, <1>3, <1>4, WidthFacts DEF StepBounds
<1>6. b - a \in Nat
  <2> SUFFICES ASSUME b - a <= -1 PROVE FALSE
    BY <1>1
  <2>1. (b - a) * Second <= (-1) * Second
    BY <1>1, WidthFacts
  <2> QED  BY <1>1, <1>4, <1>5, <2>1, WidthFacts DEF StepBounds
<1>7. b - a < Era
  <2>1. b < FractionMod
    <3> SUFFICES ASSUME b >= FractionMod PROVE FALSE
      BY <1>1, WidthFacts
    <3>1. b * Second >= FractionMod * Second
      BY <1>1, WidthFacts
    <3>2. (r + 1) * FractionMod < Second * FractionMod
      BY WidthFacts
    <3>3. Second * FractionMod = FractionMod * Second
      BY WidthFacts
    <3> QED  BY <1>1, <1>3, <1>4, <3>1, <3>2, <3>3, WidthFacts
  <2>2. FractionMod <= Era /\ Era \in Nat
    BY WidthFacts DEF Era
  <2> QED  BY <1>1, <2>1, <2>2, WidthFacts
<1>8. Words(q, r + 1) - Words(q, r) = b - a
  BY <1>1, <1>2
<1>9. (b - a) % Era = b - a
  BY <1>6, <1>7, SmallStep
<1> QED  BY <1>5, <1>8, <1>9

LEMMA ToNextSecond ==
  ASSUME NEW q \in Nat
  PROVE  StepBounds((Words(q + 1, 0) - Words(q, Second - 1)) % Era)
<1> DEFINE a == ((Second - 1) * FractionMod) \div Second
           s == (q + EpochOffset) % SecondsMod
           t == (q + 1 + EpochOffset) % SecondsMod
<1>1. /\ a \in Nat /\ a * Second <= (Second - 1) * FractionMod
      /\ (Second - 1) * FractionMod < a * Second + Second
  <2>1. Second - 1 \in 0 .. Second
    BY WidthFacts
  <2> QED  BY <2>1, FractionBounds
<1>2. s \in 0 .. SecondsMod - 1 /\ t = IF s = SecondsMod - 1 THEN 0 ELSE s + 1
  <2> DEFINE x == q + EpochOffset
  <2>1. /\ x \in Nat /\ s \in 0 .. SecondsMod - 1 /\ x \div SecondsMod \in Nat
        /\ x = SecondsMod * (x \div SecondsMod) + s
    <3>1. x \in Nat
      BY WidthFacts
    <3> HIDE DEF x
    <3>2. s = x % SecondsMod
      BY DEF x
    <3> HIDE DEF s
    <3> QED  BY <3>1, <3>2, Quotient, WidthFacts
  <2> DEFINE k == x \div SecondsMod
  <2>2. q + 1 + EpochOffset = x + 1
    BY WidthFacts
  <2> HIDE DEF x, s
  <2>3. CASE s = SecondsMod - 1
    <3>1. x + 1 = (k + 1) * SecondsMod + 0 /\ k + 1 \in Nat
      BY <2>1, <2>3, WidthFacts
    <3>2. 0 \in 0 .. SecondsMod - 1
      BY WidthFacts
    <3>3. ((k + 1) * SecondsMod + 0) % SecondsMod = 0
      BY <3>1, <3>2, QuotientIs, WidthFacts
    <3> QED  BY <2>1, <2>2, <2>3, <3>1, <3>3
  <2>4. CASE s # SecondsMod - 1
    <3>1. x + 1 = k * SecondsMod + (s + 1) /\ s + 1 \in 0 .. SecondsMod - 1
      BY <2>1, <2>4, WidthFacts
    <3>2. (k * SecondsMod + (s + 1)) % SecondsMod = s + 1
      BY <2>1, <3>1, QuotientIs, WidthFacts
    <3> QED  BY <2>1, <2>2, <2>4, <3>1, <3>2
  <2> QED  BY <2>3, <2>4
<1>3. Words(q, Second - 1) = s * FractionMod + a
  BY DEF Words
<1>4. Words(q + 1, 0) = t * FractionMod
  <2>1. 0 * FractionMod = 0 /\ 0 \div Second = 0
    BY WidthFacts
  <2>2. t * FractionMod + 0 = t * FractionMod
    BY <1>2, WidthFacts
  <2> QED  BY <2>1, <2>2, Zenon DEF Words
<1> HIDE DEF a, s, t
<1>5. /\ (Second - 1) * FractionMod = Second * FractionMod - FractionMod
      /\ a * Second \in Nat /\ Second * FractionMod \in Nat
      /\ (FractionMod - a) * Second = Second * FractionMod - a * Second
  BY <1>1, WidthFacts
<1>6. StepBounds(FractionMod - a)
  BY <1>1, <1>5, WidthFacts DEF StepBounds
<1>7. FractionMod - a \in Nat
  <2> SUFFICES ASSUME FractionMod - a <= -1 PROVE FALSE
    BY <1>1, WidthFacts
  <2>1. (FractionMod - a) * Second <= (-1) * Second
    BY <1>1, WidthFacts
  <2> QED  BY <1>1, <1>5, <1>6, <2>1, WidthFacts DEF StepBounds
<1>8. FractionMod - a < Era
  <2>1. 2 * FractionMod <= Era /\ Era \in Nat
    BY WidthFacts DEF Era
  <2> QED  BY <1>1, <2>1, WidthFacts
<1>9. \/ Words(q + 1, 0) - Words(q, Second - 1) = FractionMod - a
      \/ Words(q + 1, 0) - Words(q, Second - 1) = (FractionMod - a) - Era
  <2>1. CASE s = SecondsMod - 1
    <3>1. t * FractionMod = 0
      BY <1>2, <2>1, WidthFacts
    <3>2. s * FractionMod = Era - FractionMod /\ Era \in Nat
      BY <2>1, WidthFacts DEF Era
    <3> QED  BY <1>1, <1>3, <1>4, <3>1, <3>2, WidthFacts
  <2>2. CASE s # SecondsMod - 1
    <3>1. t * FractionMod = s * FractionMod + FractionMod /\ s * FractionMod \in Nat
      BY <1>2, <2>2, WidthFacts
    <3> QED  BY <1>1, <1>3, <1>4, <3>1, WidthFacts
  <2> QED  BY <2>1, <2>2
<1>10. (FractionMod - a) % Era = FractionMod - a /\ ((FractionMod - a) - Era) % Era = FractionMod - a
  BY <1>7, <1>8, SmallStep
<1> QED  BY <1>6, <1>9, <1>10, Zenon

LEMMA SnapshotInvariant == NtpTimeSpec => []SnapshotInv
<1>1. NtpTimeInit => SnapshotInv
  BY WidthFacts DEF NtpTimeInit, SnapshotInv
<1>2. SnapshotInv /\ [Tick]_ntpTimeVars => SnapshotInv'
  <2> SUFFICES ASSUME SnapshotInv, [Tick]_ntpTimeVars PROVE SnapshotInv'
    OBVIOUS
  <2>1. CASE UNCHANGED ntpTimeVars
    BY <2>1 DEF SnapshotInv, ntpTimeVars
  <2>2. CASE now' = now + 1 /\ now' % Second = 0 /\ unix' = now' \div Second /\ stamp' = now'
    <3>1. now' \in Nat
      BY <2>2 DEF SnapshotInv
    <3>2. now' \div Second \in Nat /\ now' = Second * (now' \div Second) + (now' % Second)
      BY <3>1, Quotient, WidthFacts
    <3>3. unix' \in Nat /\ now' = Second * unix'
      BY <2>2, <3>2, WidthFacts
    <3>4. Second * unix' = unix' * Second
      BY <3>3, WidthFacts
    <3> QED  BY <2>2, <3>1, <3>3, <3>4 DEF SnapshotInv
  <2>3. CASE now' = now + 1 /\ UNCHANGED <<unix, stamp>>
    <3>1. stamp \in Int
      BY WidthFacts DEF SnapshotInv
    <3> QED  BY <2>3, <3>1 DEF SnapshotInv
  <2> QED  BY <2>1, <2>2, <2>3 DEF Tick
<1> QED  BY <1>1, <1>2, PTL DEF NtpTimeSpec

\* Two timestamps one tick apart differ by one tick to within the fraction's unit,
\* whichever edges their snapshots are of (ntp_time_from_pps), for all widths.
THEOREM TimeAlwaysAdvances == NtpTimeSpec => Advances
<1>1. SnapshotInv /\ SnapshotInv' /\ [Tick]_ntpTimeVars =>
        [LET step == (Ntp' - Ntp) % Era
         IN  /\ step * Second > FractionMod - Second
             /\ step * Second < FractionMod + Second]_ntpTimeVars
  <2> SUFFICES ASSUME SnapshotInv, SnapshotInv', Tick
               PROVE  StepBounds((Ntp' - Ntp) % Era)
    BY Zenon DEF StepBounds
  <2> DEFINE q == now \div Second
             r == now % Second
  <2>1. now \in Nat /\ now' = now + 1
    BY DEF SnapshotInv, Tick
  <2>2. q \in Nat /\ r \in 0 .. Second - 1 /\ now = Second * q + r
    BY <2>1, Quotient, WidthFacts
  <2>3. Ntp = Words(q, r)
    BY NtpIs
  <2>4. Ntp' = Words((now + 1) \div Second, (now + 1) % Second)
    <3>1. (SnapshotInv => Ntp = Words(now \div Second, now % Second))'
      BY NtpIs, PTL
    <3> QED  BY <2>1, <3>1 DEF Words
  <2> HIDE DEF q, r
  <2>5. CASE r + 1 < Second
    <3>1. now + 1 = q * Second + (r + 1) /\ r + 1 \in 0 .. Second - 1
      BY <2>2, <2>5, WidthFacts
    <3>2. (q * Second + (r + 1)) \div Second = q /\ (q * Second + (r + 1)) % Second = r + 1
      BY <2>2, <3>1, QuotientIs, WidthFacts
    <3>3. Ntp' = Words(q, r + 1)
      BY <2>4, <3>1, <3>2
    <3> QED  BY <2>2, <2>3, <2>5, <3>3, WithinSecond
  <2>6. CASE r + 1 = Second
    <3>1. now + 1 = (q + 1) * Second + 0 /\ 0 \in 0 .. Second - 1 /\ q + 1 \in Nat
      BY <2>2, <2>6, WidthFacts
    <3>2. ((q + 1) * Second + 0) \div Second = q + 1 /\ ((q + 1) * Second + 0) % Second = 0
      BY <3>1, QuotientIs, WidthFacts
    <3>3. Ntp' = Words(q + 1, 0)
      BY <2>4, <3>1, <3>2
    <3>4. r = Second - 1
      BY <2>2, <2>6, WidthFacts
    <3> QED  BY <2>2, <2>3, <3>3, <3>4, ToNextSecond
  <2> QED  BY <2>2, <2>5, <2>6, WidthFacts
<1> QED  BY <1>1, SnapshotInvariant, PTL DEF NtpTimeSpec, Advances

-----------------------------------------------------------------------------
(***************************************************************************)
(* The assembly of lines.  One more byte on the wire: what is before it    *)
(* stays as it is.                                                         *)
(***************************************************************************)
ByteClasses == Terminators \cup {"start", "text", "bad", "lost"}

LineTypeOK ==
  /\ wire \in Seq(ByteClasses) /\ line \in Seq(Nat)
  /\ discarding \in BOOLEAN /\ awaiting \in BOOLEAN /\ crAt \in Nat
  /\ handed \in Seq([bytes : Seq(Nat), at : Nat])

\* What was received of a line that has not ended.
Unended == Bytes(Len(wire) + 1)

Appends(c) == c \in ByteClasses /\ wire' = Append(wire, c)

LEMMA Wire ==
  ASSUME LineTypeOK, NEW c, Appends(c)
  PROVE  /\ Len(wire) \in Nat /\ Len(wire') = Len(wire) + 1 /\ wire'[Len(wire) + 1] = c
         /\ \A i \in 1 .. Len(wire) : wire'[i] = wire[i]
         /\ Received \subseteq 1 .. Len(wire)
         /\ Received' = IF c = "lost" THEN Received ELSE Received \cup {Len(wire) + 1}
<1>0. PICK n \in Nat : n = Len(wire)
  BY DEF LineTypeOK
<1>1. wire \in Seq(ByteClasses) /\ n \in Nat
  BY <1>0 DEF LineTypeOK
<1>2. Len(wire') = n + 1 /\ wire'[n + 1] = c /\ \A i \in 1 .. n : wire'[i] = wire[i]
  BY <1>0, <1>1 DEF Appends
<1>3. DOMAIN wire = 1 .. n /\ DOMAIN wire' = 1 .. n + 1
  BY <1>0, <1>1 DEF Appends
<1>4. Received \subseteq 1 .. n
  BY <1>0, <1>3 DEF Received
<1>5. Received' = {i \in 1 .. n + 1 : wire'[i] # "lost"}
  BY <1>0, <1>3 DEF Received
<1>6. Received = {i \in 1 .. n : wire[i] # "lost"}
  BY <1>0, <1>3 DEF Received
<1>7. Received' = IF c = "lost" THEN Received ELSE Received \cup {n + 1}
  BY <1>1, <1>2, <1>5, <1>6
<1> QED  BY <1>0, <1>1, <1>2, <1>4, <1>7

\* The bytes of a line that has ended stay those, and so does what it is worth.
LEMMA OldBytes ==
  ASSUME LineTypeOK, NEW c, Appends(c), NEW k \in 1 .. Len(wire) + 1
  PROVE  Bytes(k)' = Bytes(k) /\ Proper(Bytes(k))' = Proper(Bytes(k))
<1>0. PICK n \in Nat : n = Len(wire)
  BY DEF LineTypeOK
<1>1. n \in Nat /\ (\A i \in 1 .. n : wire'[i] = wire[i]) /\ Received \subseteq 1 .. n
  BY <1>0, Wire
<1>2. Received' = Received \/ Received' = Received \cup {n + 1}
  BY <1>0, Wire
<1>k. k \in 1 .. n + 1
  BY <1>0
<1>3. \A i \in Nat : i < k => (i \in Received' <=> i \in Received)
  BY <1>1, <1>2, <1>k
<1>4. \A i \in Received : wire'[i] = wire[i]
  BY <1>1
<1>5. Received' \subseteq Nat /\ Received \subseteq Nat
  <2>1. 1 .. n \subseteq Nat /\ n + 1 \in Nat
    BY <1>0
  <2> QED  BY <2>1, <1>1, <1>2, Zenon
<1>6. ASSUME NEW j PROVE j \in Bytes(k)' <=> j \in Bytes(k)
  <2>1. j \in Bytes(k)' <=>
          /\ j \in Received' /\ j < k /\ wire'[j] \notin Terminators
          /\ \A i \in Received' : j < i /\ i < k => wire'[i] \notin Terminators \cup {"start"}
    BY DEF Bytes
  <2>2. j \in Bytes(k) <=>
          /\ j \in Received /\ j < k /\ wire[j] \notin Terminators
          /\ \A i \in Received : j < i /\ i < k => wire[i] \notin Terminators \cup {"start"}
    BY DEF Bytes
  <2>3. (\A i \in Received' : j < i /\ i < k => wire'[i] \notin Terminators \cup {"start"})
          <=> (\A i \in Received : j < i /\ i < k => wire[i] \notin Terminators \cup {"start"})
    BY <1>3, <1>4, <1>5
  <2>4. (j \in Received' /\ j < k /\ wire'[j] \notin Terminators)
          <=> (j \in Received /\ j < k /\ wire[j] \notin Terminators)
    BY <1>3, <1>4, <1>5
  <2> QED  BY <2>1, <2>2, <2>3, <2>4, Zenon
<1>7. Bytes(k)' = Bytes(k)
  BY <1>6, Zenon
<1>8. \A j \in Bytes(k) : wire'[j] = wire[j]
  BY <1>4 DEF Bytes
<1>9. Proper(Bytes(k))' = Proper(Bytes(k))
  <2>1. Proper(Bytes(k))' <=> /\ Bytes(k)' # {} /\ Cardinality(Bytes(k)') <= MaxLine
                              /\ \A j \in Bytes(k)' : wire'[j] # "bad"
    BY Zenon DEF Proper
  <2>2. Proper(Bytes(k)) <=> /\ Bytes(k) # {} /\ Cardinality(Bytes(k)) <= MaxLine
                             /\ \A j \in Bytes(k) : wire[j] # "bad"
    BY Zenon DEF Proper
  <2>3. (\A j \in Bytes(k) : wire'[j] # "bad") <=> (\A j \in Bytes(k) : wire[j] # "bad")
    BY <1>8, Zenon
  <2>4. Proper(Bytes(k))' <=> Proper(Bytes(k))
    BY <2>1, <2>2, <2>3, <1>7
  <2> QED  BY <2>4 DEF Proper
<1> QED  BY <1>7, <1>9

\* How the byte continues the line that has not ended.
LEMMA TailGrows ==
  ASSUME LineTypeOK, NEW c, Appends(c)
  PROVE  Unended' = IF c = "lost" THEN Unended
                  ELSE IF c \in Terminators THEN {}
                  ELSE IF c = "start" THEN {Len(wire) + 1}
                  ELSE Unended \cup {Len(wire) + 1}
<1>0. PICK n \in Nat : n = Len(wire)
  BY DEF LineTypeOK
<1>1. /\ n \in Nat /\ (\A i \in 1 .. n : wire'[i] = wire[i]) /\ Received \subseteq 1 .. n
      /\ Len(wire') = n + 1 /\ wire'[n + 1] = c
      /\ Received' = IF c = "lost" THEN Received ELSE Received \cup {n + 1}
  BY <1>0, Wire
<1>2. Unended = Bytes(n + 1) /\ Unended' = Bytes(n + 2)'
  BY <1>0, <1>1 DEF Unended
<1>3. Unended = {j \in Received : wire[j] \notin Terminators /\
                 \A i \in Received : j < i => wire[i] \notin Terminators \cup {"start"}}
  <2>1. \A i \in Received : i < n + 1
    BY <1>1
  <2> QED  BY <2>1, <1>2, Zenon DEF Bytes
<1>4. Unended' = {j \in Received' : wire'[j] \notin Terminators /\
                 \A i \in Received' : j < i => wire'[i] \notin Terminators \cup {"start"}}
  <2>1. \A i \in Received' : i < n + 2
    BY <1>1
  <2>2. Bytes(n + 2)' = {j \in Received' :
     /\ j < n + 2 /\ wire'[j] \notin Terminators
     /\ \A i \in Received' : j < i /\ i < n + 2 => wire'[i] \notin Terminators \cup {"start"}}
    BY DEF Bytes
  <2> QED  BY <2>1, <2>2, <1>2, Zenon
<1>5. CASE c = "lost"
  BY <1>1, <1>3, <1>4, <1>5
<1>6. CASE c # "lost"
  <2>1. Received' = Received \cup {n + 1} /\ (\A j \in Received : j < n + 1 /\ j \in Int)
    BY <1>1, <1>6
  <2>2. \A j \in Received : wire'[j] = wire[j] /\ j # n + 1
    BY <1>1
  <2>3. CASE c \in Terminators
    BY <1>1, <1>6, <1>4, <2>1, <2>3
  <2>4. CASE c = "start"
    <3>1. c \notin Terminators
      BY <2>4 DEF Terminators
    <3>2. ASSUME NEW j PROVE j \in Unended' <=> j = n + 1
      <4>1. CASE j = n + 1
        <5>1. \A i \in Received' : ~(n + 1 < i)
          BY <1>0, <2>1
        <5>2. n + 1 \in Received' /\ wire'[n + 1] \notin Terminators
          BY <1>1, <2>1, <2>4, <3>1
        <5> QED  BY <4>1, <5>1, <5>2, <1>4
      <4>2. CASE j # n + 1 /\ j \in Received
        <5>1. n + 1 \in Received' /\ j < n + 1 /\ wire'[n + 1] \in Terminators \cup {"start"}
          BY <4>2, <1>1, <2>1, <2>4
        <5> QED  BY <4>2, <5>1, <1>4
      <4>3. CASE j # n + 1 /\ j \notin Received
        BY <4>3, <1>4, <2>1
      <4> QED  BY <4>1, <4>2, <4>3
    <3>3. Unended' = {n + 1}
      BY <3>2, Zenon
    <3> QED  BY <3>1, <3>3, <2>4, <1>0, <1>6
  <2>5. CASE c \notin Terminators \cup {"start"}
    <3>1. ASSUME NEW j PROVE j \in Unended' <=> j \in Unended \cup {n + 1}
      <4>1. CASE j = n + 1
        BY <4>1, <1>1, <1>4, <2>1, <2>5
      <4>2. CASE j # n + 1 /\ j \in Received
        BY <4>2, <1>1, <1>3, <1>4, <2>1, <2>2, <2>5
      <4>3. CASE j # n + 1 /\ j \notin Received
        BY <4>3, <1>3, <1>4, <2>1
      <4> QED  BY <4>1, <4>2, <4>3
    <3>2. Unended' = Unended \cup {n + 1}
      BY <3>1, Zenon
    <3> QED  BY <3>2, <2>5, <1>0, <1>6
  <2> QED  BY <2>3, <2>4, <2>5, <1>6
<1> QED  BY <1>0, <1>5, <1>6

\* A line that is complete stays one, and arrived when it did.
LEMMA OldEnds ==
  ASSUME LineTypeOK, NEW c, Appends(c), NEW k \in LineEnds
  PROVE  k \in LineEnds' /\ \A l : IsLine(l, k)' = IsLine(l, k)
<1>0. PICK n \in Nat : n = Len(wire)
  BY DEF LineTypeOK
<1>1. /\ n \in Nat /\ (\A i \in 1 .. n : wire'[i] = wire[i]) /\ Received \subseteq 1 .. n
      /\ Len(wire') = n + 1 /\ wire'[n + 1] = c
      /\ Received' = IF c = "lost" THEN Received ELSE Received \cup {n + 1}
  BY <1>0, Wire
<1>2. k \in Received /\ wire[k] \in Terminators /\ Proper(Bytes(k)) /\ Decided(k)
  BY DEF LineEnds
<1>3. k \in 1 .. n /\ wire'[k] = wire[k] /\ k \in Received'
  BY <1>1, <1>2
<1>4. Bytes(k)' = Bytes(k) /\ Proper(Bytes(k))' = Proper(Bytes(k))
  BY <1>0, <1>1, <1>3, OldBytes
<1>5. Decided(k)'
  BY <1>1, <1>2, <1>3 DEF Decided
<1>6. k \in LineEnds'
  BY <1>2, <1>3, <1>4, <1>5 DEF LineEnds
<1>7. Arrival(k)' = Arrival(k)
  <2>1. CASE wire[k] # "CR"
    BY <2>1, <1>3 DEF Arrival
  <2>2. CASE wire[k] = "CR"
    <3>1. PICK j \in Received : k < j
      BY <1>2, <2>2 DEF Decided
    <3>2. ASSUME NEW i \in Int PROVE Follows(k, i)' <=> Follows(k, i)
      <4>1. Follows(k, i)' <=> i \in Received' /\ k < i /\ \A x \in Received' : x <= k \/ i <= x
        BY DEF Follows
      <4>2. j < n + 1 /\ j \in Received' /\ j \in Int /\ k \in Int
        BY <1>1, <3>1, <1>3
      <4>3. CASE i <= n
        BY <4>1, <4>3, <4>2, <1>1, <1>3 DEF Follows
      <4>4. CASE i > n
        BY <4>1, <4>4, <4>2, <1>1, <1>3, <3>1 DEF Follows
      <4> QED  BY <4>3, <4>4, <1>1
    <3>3. \A i : Follows(k, i)' <=> Follows(k, i)
      <4>1. \A i : Follows(k, i)' => i \in Received'
        BY DEF Follows
      <4>2. \A i : Follows(k, i) => i \in Received
        BY DEF Follows
      <4>3. Received \subseteq Int /\ Received' \subseteq Int
        BY <1>1
      <4> QED  BY <4>1, <4>2, <4>3, <3>2, Zenon
    <3>4. \A i : Follows(k, i) => i \in Received /\ i \in Received' /\ wire'[i] = wire[i]
      BY <1>1 DEF Follows
    <3>5. (\E i \in Received' : Follows(k, i)' /\ wire'[i] = "LF") <=>
            (\E i \in Received : Follows(k, i) /\ wire[i] = "LF")
      BY <3>3, <3>4
    <3>6. (CHOOSE i \in Received' : Follows(k, i)') = (CHOOSE i \in Received : Follows(k, i))
      <4>1. \A i : (i \in Received' /\ Follows(k, i)') <=> (i \in Received /\ Follows(k, i))
        BY <3>3, <3>4, Zenon
      <4> QED  BY <4>1, Zenon
    <3>7. Arrival(k)' = IF wire'[k] = "CR" /\ \E i \in Received' : Follows(k, i)' /\ wire'[i] = "LF"
                        THEN CHOOSE i \in Received' : Follows(k, i)' ELSE k
      BY DEF Arrival
    <3> QED  BY <3>5, <3>6, <3>7, <1>3, Zenon DEF Arrival
  <2> QED  BY <2>1, <2>2
<1>8. ASSUME NEW l PROVE IsLine(l, k)' = IsLine(l, k)
  BY <1>4, <1>7 DEF IsLine
<1> QED  BY <1>6, <1>8

-----------------------------------------------------------------------------
(***************************************************************************)
(* What the assembler holds.                                               *)
(***************************************************************************)

\* The ends of proper lines, the one that waits for the next byte included.
Whole == {k \in Received : wire[k] \in Terminators /\ Proper(Bytes(k))}

Places(s) == {s[i] : i \in DOMAIN s}

\* A CR was the last byte, and the line before it waits.
Waits ==
  /\ crAt \in Received /\ wire[crAt] = "CR" /\ (\A j \in Received : j <= crAt)
  /\ discarding = FALSE /\ Places(line) = Bytes(crAt) /\ Proper(Bytes(crAt))
  /\ \A n \in DOMAIN handed : handed[n].at < crAt

\* The buffer is what was received of a line.
Collects ==
  /\ Places(line) = Unended /\ Len(line) = Cardinality(Unended) /\ Len(line) <= MaxLine
  /\ \A j \in Unended : wire[j] # "bad"

StreamInv ==
  /\ Places(line) \subseteq Received /\ Ascending(line)
  /\ \A n \in DOMAIN handed : handed[n].at \in Received
  /\ awaiting = TRUE => Waits
  /\ awaiting = FALSE /\ discarding = FALSE => Collects
  /\ awaiting = FALSE /\ discarding = TRUE => Unended # {} /\ ~Proper(Unended)
  /\ awaiting = FALSE => \A k \in Whole : Decided(k)

LineInv == LineTypeOK /\ StreamInv /\ AssembledExactly

LEMMA Finite ==
  ASSUME LineTypeOK
  PROVE  /\ Received \subseteq 1 .. Len(wire) /\ Unended \subseteq Received
         /\ IsFiniteSet(Unended) /\ Cardinality(Unended) \in Nat
<1>0. PICK n \in Nat : n = Len(wire)
  BY DEF LineTypeOK
<1>1. Received \subseteq 1 .. n
  BY <1>0 DEF LineTypeOK, Received
<1>2. Unended \subseteq Received
  BY Zenon DEF Unended, Bytes
<1>3. IsFiniteSet(1 .. n)
  BY FS_Interval
<1>4. IsFiniteSet(Unended)
  BY <1>1, <1>2, <1>3, FS_Subset
<1> QED  BY <1>0, <1>1, <1>2, <1>4, FS_CardinalityType

LEMMA NewWhole ==
  ASSUME LineTypeOK, NEW c, Appends(c)
  PROVE  Whole' = IF c \in Terminators /\ Proper(Unended) THEN Whole \cup {Len(wire) + 1}
                  ELSE Whole
<1>0. PICK n \in Nat : n = Len(wire)
  BY DEF LineTypeOK
<1>1. /\ (\A i \in 1 .. n : wire'[i] = wire[i]) /\ Received \subseteq 1 .. n
      /\ wire'[n + 1] = c
      /\ Received' = IF c = "lost" THEN Received ELSE Received \cup {n + 1}
  BY <1>0, Wire
<1>2. \A k \in 1 .. n + 1 : Proper(Bytes(k))' = Proper(Bytes(k))
  BY <1>0, OldBytes
<1>3. Bytes(n + 1) = Unended
  BY <1>0 DEF Unended
<1>4. ASSUME NEW k \in 1 .. n PROVE k \in Whole' <=> k \in Whole
  <2>1. k \in Received' <=> k \in Received
    BY <1>1
  <2>2. Proper(Bytes(k))' <=> Proper(Bytes(k))
    BY <1>2
  <2>3. k \in Whole' <=> k \in Received' /\ wire'[k] \in Terminators /\ Proper(Bytes(k))'
    BY DEF Whole
  <2>4. k \in Whole <=> k \in Received /\ wire[k] \in Terminators /\ Proper(Bytes(k))
    BY DEF Whole
  <2> QED  BY <1>1, <2>1, <2>2, <2>3, <2>4
<1>5. n + 1 \in Whole' <=> c \in Terminators /\ Proper(Unended)
  <2>1. Proper(Bytes(n + 1))' <=> Proper(Unended)
    BY <1>2, <1>3
  <2>2. n + 1 \in Whole' <=> n + 1 \in Received' /\ wire'[n + 1] \in Terminators /\ Proper(Bytes(n + 1))'
    BY DEF Whole
  <2>3. n + 1 \in Received' <=> c # "lost"
    BY <1>1
  <2>4. c \in Terminators => c # "lost"
    BY DEF Terminators
  <2> QED  BY <1>1, <2>1, <2>2, <2>3, <2>4
<1>6. Whole \subseteq 1 .. n /\ Whole' \subseteq 1 .. n + 1
  <2>1. Whole \subseteq Received /\ Whole' \subseteq Received'
    BY DEF Whole
  <2> QED  BY <1>1, <2>1
<1>7. ASSUME NEW k
      PROVE  k \in Whole' <=> k \in Whole \/ (k = n + 1 /\ c \in Terminators /\ Proper(Unended))
  <2>1. CASE k \in 1 .. n
    <3>1. k # n + 1
      BY <2>1
    <3> QED  BY <2>1, <3>1, <1>4
  <2>2. CASE k = n + 1
    <3>1. k \notin Whole
      BY <2>2, <1>6
    <3> QED  BY <2>2, <3>1, <1>5
  <2>3. CASE k \notin 1 .. n + 1
    <3>1. n + 1 \in 1 .. n + 1 /\ 1 .. n \subseteq 1 .. n + 1
      OBVIOUS
    <3>2. k \notin Whole /\ k \notin Whole' /\ k # n + 1
      BY <2>3, <3>1, <1>6, Zenon
    <3> QED  BY <3>2
  <2> QED  BY <2>1, <2>2, <2>3
<1>8. Whole' = IF c \in Terminators /\ Proper(Unended) THEN Whole \cup {n + 1} ELSE Whole
  <2>1. CASE c \in Terminators /\ Proper(Unended)
    <3>1. Whole' = Whole \cup {n + 1}
      BY <2>1, <1>7, Zenon
    <3> QED  BY <2>1, <3>1
  <2>2. CASE ~(c \in Terminators /\ Proper(Unended))
    <3>1. Whole' = Whole
      BY <2>2, <1>7, Zenon
    <3> QED  BY <2>2, <3>1
  <2> QED  BY <2>1, <2>2
<1> QED  BY <1>0, <1>8

\* While a line waits for the byte after its CR, nothing of the next was received.
LEMMA NothingWaits ==
  ASSUME LineTypeOK, Waits
  PROVE  Unended = {} /\ ~Proper(Unended)
<1>0. PICK n \in Nat : n = Len(wire)
  BY DEF LineTypeOK
<1>1. Received \subseteq 1 .. n
  BY <1>0, Finite
<1>2. crAt \in 1 .. n /\ wire[crAt] \in Terminators
  BY <1>1 DEF Waits, Terminators
<1>3. ASSUME NEW j \in Unended PROVE FALSE
  <2>1. /\ j \in Received /\ wire[j] \notin Terminators
        /\ \A i \in Received : j < i /\ i < n + 1 => wire[i] \notin Terminators \cup {"start"}
    BY <1>0 DEF Unended, Bytes
  <2>2. j <= crAt /\ j # crAt
    BY <2>1, <1>2 DEF Waits
  <2>3. j < crAt /\ crAt < n + 1
    BY <1>1, <1>2, <2>1, <2>2
  <2> QED  BY <2>1, <2>3, <1>2 DEF Waits
<1> QED  BY <1>3 DEF Proper

\* Which ends are decided: the one that waited, and that of an LF.
LEMMA NewEnds ==
  ASSUME LineTypeOK, StreamInv, NEW c, Appends(c)
  PROVE  /\ awaiting = TRUE =>
              LineEnds' = IF c = "lost" THEN LineEnds ELSE LineEnds \cup {crAt}
         /\ awaiting = FALSE =>
              LineEnds' = IF c = "LF" /\ Proper(Unended) THEN LineEnds \cup {Len(wire) + 1}
                          ELSE LineEnds
         /\ \A k : awaiting = TRUE /\ c # "lost" /\ k = crAt =>
              Arrival(k)' = IF c = "LF" THEN Len(wire) + 1 ELSE k
         /\ \A k : c = "LF" /\ k = Len(wire) + 1 => Arrival(k)' = k
<1>0. PICK n \in Nat : n = Len(wire)
  BY DEF LineTypeOK
<1>1. /\ (\A i \in 1 .. n : wire'[i] = wire[i]) /\ Received \subseteq 1 .. n
      /\ wire'[n + 1] = c
      /\ Received' = IF c = "lost" THEN Received ELSE Received \cup {n + 1}
  BY <1>0, Wire
<1>2. Whole' = IF c \in Terminators /\ Proper(Unended) THEN Whole \cup {n + 1} ELSE Whole
  BY <1>0, NewWhole
<1>3. \A k : k \in LineEnds' <=> k \in Whole' /\ Decided(k)'
  BY DEF LineEnds, Whole
<1>4. \A k : k \in LineEnds <=> k \in Whole /\ Decided(k)
  BY DEF LineEnds, Whole
<1>5. Whole \subseteq 1 .. n /\ Whole \subseteq Received
  BY <1>1 DEF Whole
<1>6. ASSUME NEW k \in Whole, Decided(k) PROVE Decided(k)'
  BY <1>3, <1>4, <1>6, OldEnds
<1>7. \A i \in Received' : i \in 1 .. n + 1
  BY <1>1
<1>8. Decided(n + 1)' <=> c # "CR"
  <2>1. ~ \E i \in Received' : n + 1 < i
    BY <1>7
  <2> QED  BY <2>1, <1>1 DEF Decided
<1>9. c = "LF" => Arrival(n + 1)' = n + 1
  BY <1>1 DEF Arrival
<1>10. CASE awaiting = FALSE
  <2>1. \A k \in Whole : Decided(k) /\ Decided(k)'
    BY <1>6, <1>10 DEF StreamInv
  <2>2. ASSUME NEW k
        PROVE  k \in LineEnds' <=> k \in LineEnds \/ (k = n + 1 /\ c = "LF" /\ Proper(Unended))
    <3>1. CASE k \in Whole
      BY <3>1, <2>1, <1>2, <1>3, <1>4
    <3>2. CASE k \notin Whole /\ k = n + 1
      <4>1. c = "LF" <=> c \in Terminators /\ c # "CR"
        BY DEF Terminators
      <4>2. k \in Whole' <=> c \in Terminators /\ Proper(Unended)
        BY <3>2, <1>2
      <4>3. Decided(k)' <=> c # "CR"
        BY <3>2, <1>8
      <4> QED  BY <3>2, <4>1, <4>2, <4>3, <1>3, <1>4
    <3>3. CASE k \notin Whole /\ k # n + 1
      BY <3>3, <1>2, <1>3, <1>4
    <3> QED  BY <3>1, <3>2, <3>3
  <2>3. CASE c = "LF" /\ Proper(Unended)
    <3>1. LineEnds' = LineEnds \cup {n + 1}
      BY <2>2, <2>3, Zenon
    <3> QED  BY <3>1, <2>3, <1>0, <1>9, <1>10
  <2>4. CASE ~(c = "LF" /\ Proper(Unended))
    <3>1. LineEnds' = LineEnds
      BY <2>2, <2>4, Zenon
    <3> QED  BY <3>1, <2>4, <1>0, <1>9, <1>10
  <2> QED  BY <2>3, <2>4
<1>11. CASE awaiting = TRUE
  <2>1. PICK r \in Nat : r = crAt
    BY DEF LineTypeOK
  <2>2. Waits /\ ~Proper(Unended)
    BY <1>11, NothingWaits DEF StreamInv
  <2>3. /\ r \in Received /\ wire[r] = "CR" /\ (\A j \in Received : j <= r)
        /\ Proper(Bytes(r)) /\ r \in 1 .. n
    BY <2>1, <2>2, <1>1 DEF Waits
  <2>4. r \in Whole /\ ~Decided(r) /\ Whole' = Whole
    <3>1. r \in Whole
      BY <2>3 DEF Whole, Terminators
    <3>2. ~ \E i \in Received : r < i
      BY <2>3, <1>1
    <3> QED  BY <3>1, <3>2, <2>2, <2>3, <1>2 DEF Decided
  <2>5. ASSUME NEW k \in Whole, k # r PROVE Decided(k) /\ Decided(k)'
    <3>1. k \in Received /\ k <= r /\ k \in Int
      BY <1>1, <1>5, <2>3
    <3>2. k < r
      BY <3>1, <2>5
    <3>3. Decided(k)
      BY <3>2, <2>3 DEF Decided
    <3> QED  BY <3>3, <1>6
  <2>6. Decided(r)' <=> c # "lost"
    <3>1. wire'[r] = "CR" /\ r < n + 1
      BY <2>3, <1>1
    <3>2. (\E i \in Received' : r < i) <=> c # "lost"
      BY <2>3, <3>1, <1>1
    <3> QED  BY <3>1, <3>2 DEF Decided
  <2>7. ASSUME NEW k PROVE k \in LineEnds' <=> k \in LineEnds \/ (k = r /\ c # "lost")
    BY <1>3, <1>4, <2>4, <2>5, <2>6
  <2>8. LineEnds' = IF c = "lost" THEN LineEnds ELSE LineEnds \cup {r}
    <3>1. CASE c = "lost"
      <4>1. LineEnds' = LineEnds
        BY <2>7, <3>1, Zenon
      <4> QED  BY <4>1, <3>1
    <3>2. CASE c # "lost"
      <4>1. LineEnds' = LineEnds \cup {r}
        BY <2>7, <3>2, Zenon
      <4> QED  BY <4>1, <3>2
    <3> QED  BY <3>1, <3>2
  <2>9. ASSUME c # "lost" PROVE Arrival(r)' = IF c = "LF" THEN n + 1 ELSE r
    <3>1. wire'[r] = "CR" /\ r < n + 1 /\ Received' = Received \cup {n + 1}
      BY <2>3, <2>9, <1>1
    <3>2. ASSUME NEW i PROVE (i \in Received' /\ Follows(r, i)') <=> i = n + 1
      <4>1. Follows(r, i)' <=> i \in Received' /\ r < i /\ \A j \in Received' : j <= r \/ i <= j
        BY DEF Follows
      <4>2. CASE i = n + 1
        BY <4>1, <4>2, <3>1, <2>3
      <4>3. CASE i # n + 1
        <5>1. i \in Received' => i \in Received /\ i <= r /\ i \in Int
          BY <4>3, <3>1, <2>3, <1>1
        <5>2. i \in Received' => ~(r < i)
          BY <5>1
        <5> QED  BY <4>1, <4>3, <5>2
      <4> QED  BY <4>2, <4>3
    <3>3. (CHOOSE i \in Received' : Follows(r, i)') = n + 1
      <4>1. \A i : (i \in Received' /\ Follows(r, i)') <=> (i \in {n + 1} /\ i = n + 1)
        BY <3>2, Zenon
      <4>2. (CHOOSE i \in Received' : Follows(r, i)') = CHOOSE i \in {n + 1} : i = n + 1
        BY <4>1, Zenon
      <4>3. (CHOOSE i \in {n + 1} : i = n + 1) = n + 1
        OBVIOUS
      <4> QED  BY <4>2, <4>3, Zenon
    <3>4. (\E i \in Received' : Follows(r, i)' /\ wire'[i] = "LF") <=> c = "LF"
      BY <3>2, <1>1
    <3>5. Arrival(r)' = IF wire'[r] = "CR" /\ \E i \in Received' : Follows(r, i)' /\ wire'[i] = "LF"
                        THEN CHOOSE i \in Received' : Follows(r, i)' ELSE r
      BY DEF Arrival
    <3> QED  BY <3>1, <3>3, <3>4, <3>5
  <2>10. \A k : c # "lost" /\ k = crAt => Arrival(k)' = IF c = "LF" THEN n + 1 ELSE k
    BY <2>1, <2>9
  <2> QED  BY <1>0, <1>9, <1>11, <2>1, <2>8, <2>10
<1>12. awaiting \in BOOLEAN
  BY DEF LineTypeOK
<1> QED  BY <1>10, <1>11, <1>12

-----------------------------------------------------------------------------
(***************************************************************************)
(* What is handed on.                                                      *)
(***************************************************************************)

LEMMA OldLine ==
  ASSUME LineInv, NEW c, Appends(c), NEW n \in DOMAIN handed, handed'[n] = handed[n],
         NEW k \in LineEnds, IsLine(handed[n], k)
  PROVE  k \in LineEnds' /\ IsLine(handed[n], k)'
<1>1. PICK l : l = handed[n] /\ l = handed'[n]
  OBVIOUS
<1>2. k \in LineEnds' /\ IsLine(l, k)' = IsLine(l, k)
  BY OldEnds DEF LineInv
<1>3. IsLine(l, k)'
  BY <1>1, <1>2
<1>4. {l.bytes[i] : i \in DOMAIN l.bytes} = Bytes(k)' /\ Ascending(l.bytes) /\ l.at = Arrival(k)'
  BY <1>3 DEF IsLine, Ascending
<1> QED  BY <1>1, <1>2, <1>4 DEF IsLine, Ascending

\* Nothing is handed on, and no line ended.
LEMMA HandsNothing ==
  ASSUME LineInv, NEW c, Appends(c), handed' = handed, LineEnds' = LineEnds
  PROVE  AssembledExactly' /\ \A n \in DOMAIN handed' : handed'[n].at \in Received'
<1>1. \A n \in DOMAIN handed, k \in LineEnds : IsLine(handed[n], k) => IsLine(handed[n], k)'
  BY OldLine
<1>2. /\ \A n \in DOMAIN handed : \E k \in LineEnds : IsLine(handed[n], k)
      /\ \A k \in LineEnds : \E n \in DOMAIN handed : IsLine(handed[n], k)
      /\ \A m, n \in DOMAIN handed : m < n => handed[m].at < handed[n].at
  BY Zenon DEF LineInv, AssembledExactly
<1>3. \A n \in DOMAIN handed' : \E k \in LineEnds' : IsLine(handed[n], k)'
  BY <1>1, <1>2
<1>4. \A k \in LineEnds' : \E n \in DOMAIN handed' : IsLine(handed[n], k)'
  BY <1>1, <1>2
<1>5. Received \subseteq Received'
  BY Wire DEF LineInv
<1>6. AssembledExactly'
  BY <1>2, <1>3, <1>4 DEF AssembledExactly
<1> QED  BY <1>5, <1>6 DEF LineInv, StreamInv

\* The line that ended at k is handed on.
LEMMA HandsOne ==
  ASSUME LineInv, NEW c, Appends(c), NEW k, NEW l \in [bytes : Seq(Nat), at : Nat],
         handed' = Append(handed, l), LineEnds' = LineEnds \cup {k},
         IsLine(l, k)', l.at \in Received', \A n \in DOMAIN handed : handed[n].at < l.at
  PROVE  AssembledExactly' /\ \A n \in DOMAIN handed' : handed'[n].at \in Received'
<1>0. PICK m \in Nat : m = Len(handed)
  BY DEF LineInv, LineTypeOK
<1>1. handed \in Seq([bytes : Seq(Nat), at : Nat])
  BY DEF LineInv, LineTypeOK
<1>2. /\ DOMAIN handed = 1 .. m /\ DOMAIN handed' = 1 .. m + 1
      /\ handed'[m + 1] = l /\ \A n \in 1 .. m : handed'[n] = handed[n]
  BY <1>0, <1>1
<1>3. \A n \in 1 .. m, e \in LineEnds : IsLine(handed[n], e) => IsLine(handed[n], e)'
  BY <1>2, OldLine
<1>4. /\ \A n \in 1 .. m : \E e \in LineEnds : IsLine(handed[n], e)
      /\ \A e \in LineEnds : \E n \in 1 .. m : IsLine(handed[n], e)
      /\ \A i, n \in 1 .. m : i < n => handed[i].at < handed[n].at
  BY <1>2, Zenon DEF LineInv, AssembledExactly
<1>5. IsLine(handed[m + 1], k)'
  <2>1. {l.bytes[i] : i \in DOMAIN l.bytes} = Bytes(k)' /\ Ascending(l.bytes) /\ l.at = Arrival(k)'
    BY DEF IsLine, Ascending
  <2> QED  BY <1>2, <2>1 DEF IsLine, Ascending
<1>6. ASSUME NEW n \in 1 .. m + 1 PROVE \E e \in LineEnds' : IsLine(handed[n], e)'
  <2>1. CASE n = m + 1
    BY <2>1, <1>5
  <2>2. CASE n # m + 1
    <3>1. n \in 1 .. m
      BY <2>2
    <3> QED  BY <3>1, <1>3, <1>4
  <2> QED  BY <2>1, <2>2
<1>7. ASSUME NEW e \in LineEnds' PROVE \E n \in 1 .. m + 1 : IsLine(handed[n], e)'
  <2>1. CASE e = k
    BY <2>1, <1>5
  <2>2. CASE e # k
    <3>1. PICK n \in 1 .. m : IsLine(handed[n], e)
      BY <2>2, <1>4
    <3>2. e \in LineEnds
      BY <2>2
    <3>3. IsLine(handed[n], e)'
      BY <3>1, <3>2, <1>3
    <3>4. n \in 1 .. m + 1
      OBVIOUS
    <3> QED  BY <3>3, <3>4
  <2> QED  BY <2>1, <2>2
<1>8. \A i, n \in 1 .. m + 1 : i < n => handed'[i].at < handed'[n].at
  <2>1. ASSUME NEW i \in 1 .. m + 1, NEW n \in 1 .. m + 1, i < n
        PROVE  handed'[i].at < handed'[n].at
    <3>1. i \in 1 .. m
      BY <2>1
    <3>2. CASE n = m + 1
      BY <3>1, <3>2, <1>2
    <3>3. CASE n # m + 1
      <4>1. n \in 1 .. m
        BY <3>3
      <4> QED  BY <2>1, <3>1, <4>1, <1>2, <1>4
    <3> QED  BY <3>2, <3>3
  <2> QED  BY <2>1
<1>9. AssembledExactly'
  BY <1>2, <1>6, <1>7, <1>8 DEF AssembledExactly
<1>10. Received \subseteq Received' /\ \A n \in 1 .. m : handed[n].at \in Received
  BY <1>2, Wire DEF LineInv, StreamInv
<1>11. \A n \in 1 .. m + 1 : handed'[n].at \in Received'
  BY <1>2, <1>10
<1> QED  BY <1>2, <1>9, <1>11

\* The line that waits is handed on with the next byte, whichever it is.
LEMMA HandsWaiting ==
  ASSUME LineInv, NEW c, Appends(c), awaiting = TRUE, c # "lost",
         NEW at \in Nat, at = (IF c = "LF" THEN Len(wire) + 1 ELSE crAt),
         handed' = Append(handed, [bytes |-> line, at |-> at])
  PROVE  AssembledExactly' /\ \A n \in DOMAIN handed' : handed'[n].at \in Received'
<1>0. PICK n \in Nat, k \in Nat : n = Len(wire) /\ k = crAt
  BY DEF LineInv, LineTypeOK
<1>l. PICK l : l = [bytes |-> line, at |-> at]
  OBVIOUS
<1>1. /\ \A i \in 1 .. n : wire'[i] = wire[i]
      /\ Received \subseteq 1 .. n /\ Received' = Received \cup {n + 1}
  BY <1>0, Wire DEF LineInv
<1>2. LineTypeOK /\ StreamInv /\ Waits
  BY DEF LineInv, StreamInv
<1>3. LineEnds' = LineEnds \cup {k} /\ Arrival(k)' = IF c = "LF" THEN n + 1 ELSE k
  BY <1>0, <1>2, NewEnds
<1>4. /\ k \in Received /\ Places(line) = Bytes(k)
      /\ \A i \in DOMAIN handed : handed[i].at < k
  BY <1>0, <1>2 DEF Waits
<1>5. k \in 1 .. n
  BY <1>1, <1>4
<1>6. Bytes(k)' = Bytes(k)
  BY <1>0, <1>2, <1>5, OldBytes
<1>7. l \in [bytes : Seq(Nat), at : Nat] /\ l.bytes = line /\ l.at = at
  BY <1>l, <1>2 DEF LineTypeOK
<1>8. IsLine(l, k)'
  <2>1. {l.bytes[i] : i \in DOMAIN l.bytes} = Bytes(k)
    BY <1>4, <1>7 DEF Places
  <2>2. Ascending(l.bytes)
    BY <1>2, <1>7 DEF StreamInv
  <2>3. l.at = Arrival(k)'
    BY <1>0, <1>3, <1>7
  <2> QED  BY <1>6, <2>1, <2>2, <2>3 DEF IsLine, Ascending
<1>9. l.at \in Received' /\ k <= l.at
  BY <1>0, <1>1, <1>4, <1>5, <1>7
<1>10. ASSUME NEW i \in DOMAIN handed PROVE handed[i].at < l.at
  <2>1. handed[i].at \in 1 .. n
    BY <1>1, <1>2 DEF StreamInv
  <2>2. l.at \in Nat /\ handed[i].at < k
    BY <1>4, <1>7
  <2> QED  BY <1>9, <2>1, <2>2
<1>11. handed' = Append(handed, l)
  BY <1>l
<1> QED  BY <1>3, <1>7, <1>8, <1>9, <1>10, <1>11, HandsOne

\* Before a byte that is part of a line: EndBareCr.
LEMMA BareCr ==
  ASSUME LineInv, NEW c, Appends(c), c \notin {"LF", "lost"},
         handed' = IF awaiting THEN Append(handed, [bytes |-> line, at |-> crAt]) ELSE handed
  PROVE  AssembledExactly' /\ \A n \in DOMAIN handed' : handed'[n].at \in Received'
<1>1. CASE awaiting = TRUE
  <2>1. PICK at \in Nat : at = crAt
    BY DEF LineInv, LineTypeOK
  <2> QED  BY <1>1, <2>1, HandsWaiting
<1>2. CASE awaiting = FALSE
  <2>1. LineEnds' = LineEnds
    BY <1>2, NewEnds DEF LineInv
  <2> QED  BY <1>2, <2>1, HandsNothing
<1> QED  BY <1>1, <1>2 DEF LineInv, LineTypeOK

\* With an LF: complete_line.
LEMMA FeedHands ==
  ASSUME LineInv, Appends("LF"), CompleteLine(Position)
  PROVE  AssembledExactly' /\ \A n \in DOMAIN handed' : handed'[n].at \in Received'
<1>0. PICK n \in Nat : n = Len(wire)
  BY DEF LineInv, LineTypeOK
<1>1. LineTypeOK /\ StreamInv
  BY DEF LineInv
<1>2. handed' = IF discarding \/ line = <<>> THEN handed
                ELSE Append(handed, [bytes |-> line, at |-> n + 1])
  BY <1>0 DEF CompleteLine, Position
<1>3. CASE awaiting = TRUE
  <2>1. Waits
    BY <1>1, <1>3 DEF StreamInv
  <2>2. discarding = FALSE /\ line # <<>>
    BY <2>1, <1>1 DEF Waits, Proper, Places, LineTypeOK
  <2> QED  BY <1>0, <1>2, <1>3, <2>2, HandsWaiting
<1>4. CASE awaiting = FALSE /\ (discarding = TRUE \/ line = <<>>)
  <2>1. ~Proper(Unended)
    <3>1. CASE discarding = TRUE
      BY <1>1, <1>4, <3>1 DEF StreamInv
    <3>2. CASE discarding = FALSE
      <4>1. Places(line) = Unended /\ line = <<>>
        BY <1>1, <1>4, <3>2 DEF StreamInv, Collects
      <4>2. Unended = {}
        BY <4>1 DEF Places
      <4> QED  BY <4>2 DEF Proper
    <3> QED  BY <3>1, <3>2, <1>1 DEF LineTypeOK
  <2>2. LineEnds' = LineEnds
    BY <1>1, <1>4, <2>1, NewEnds
  <2>3. handed' = handed
    BY <1>2, <1>4
  <2> QED  BY <2>2, <2>3, HandsNothing
<1>5. CASE awaiting = FALSE /\ discarding = FALSE /\ line # <<>>
  <2>1. Collects
    BY <1>1, <1>5 DEF StreamInv
  <2>2. Unended # {}
    <3>1. 1 \in DOMAIN line
      BY <1>1, <1>5 DEF LineTypeOK
    <3> QED  BY <2>1, <3>1 DEF Collects, Places
  <2>3. Proper(Unended)
    BY <2>1, <2>2 DEF Collects, Proper
  <2>4. LineEnds' = LineEnds \cup {n + 1} /\ Arrival(n + 1)' = n + 1
    BY <1>0, <1>1, <1>5, <2>3, NewEnds
  <2>5. PICK l : l = [bytes |-> line, at |-> n + 1]
    OBVIOUS
  <2>6. l \in [bytes : Seq(Nat), at : Nat] /\ l.bytes = line /\ l.at = n + 1
    BY <1>1, <2>5 DEF LineTypeOK
  <2>7. Bytes(n + 1)' = Unended
    BY <1>0, <1>1, OldBytes DEF Unended
  <2>8. IsLine(l, n + 1)'
    <3>1. {l.bytes[i] : i \in DOMAIN l.bytes} = Unended
      BY <2>1, <2>6 DEF Places, Collects
    <3>2. Ascending(l.bytes)
      BY <1>1, <2>6 DEF StreamInv
    <3> QED  BY <2>4, <2>6, <2>7, <3>1, <3>2 DEF IsLine, Ascending
  <2>9. l.at \in Received' /\ Received \subseteq 1 .. n
    BY <1>0, <1>1, <2>6, Wire
  <2>10. ASSUME NEW i \in DOMAIN handed PROVE handed[i].at < l.at
    <3>1. handed[i].at \in 1 .. n
      BY <1>1, <2>9 DEF StreamInv
    <3> QED  BY <2>6, <3>1
  <2>11. handed' = Append(handed, l)
    BY <1>2, <1>5, <2>5
  <2> QED  BY <2>4, <2>6, <2>8, <2>9, <2>10, <2>11, HandsOne
<1> QED  BY <1>1, <1>3, <1>4, <1>5 DEF LineTypeOK

-----------------------------------------------------------------------------
(***************************************************************************)
(* The steps of process_byte.                                              *)
(***************************************************************************)

LEMMA LineTyped ==
  ASSUME LineInv, [ProcessByte]_lineVars
  PROVE  LineTypeOK'
<1>1. /\ wire \in Seq(ByteClasses) /\ line \in Seq(Nat)
      /\ discarding \in BOOLEAN /\ awaiting \in BOOLEAN /\ crAt \in Nat
      /\ handed \in Seq([bytes : Seq(Nat), at : Nat])
  BY DEF LineInv, LineTypeOK
<1>2. Position \in Nat
  BY <1>1 DEF Position
<1> HIDE DEF Position
<1>3. \A at \in Nat : Append(handed, [bytes |-> line, at |-> at]) \in Seq([bytes : Seq(Nat), at : Nat])
  BY <1>1
<1>4. \A c \in ByteClasses : Append(wire, c) \in Seq(ByteClasses)
  BY <1>1
<1>5. ASSUME NEW at \in Nat, CompleteLine(at)
      PROVE  /\ line' \in Seq(Nat) /\ discarding' \in BOOLEAN
             /\ handed' \in Seq([bytes : Seq(Nat), at : Nat])
  <2>1. <<>> \in Seq(Nat)
    OBVIOUS
  <2>2. handed' \in {handed, Append(handed, [bytes |-> line, at |-> at])}
    BY <1>5 DEF CompleteLine
  <2>3. line' = <<>> /\ discarding' = FALSE
    BY <1>5 DEF CompleteLine
  <2> QED  BY <2>1, <2>2, <2>3, <1>1, <1>3
<1>6. ASSUME EndBareCr
      PROVE  /\ handed' \in Seq([bytes : Seq(Nat), at : Nat])
             /\ awaiting' \in BOOLEAN /\ crAt' \in Nat
  BY <1>1, <1>3, <1>6 DEF EndBareCr
<1>7. Held \in Seq(Nat) /\ Append(Held, Position) \in Seq(Nat) /\ <<Position>> \in Seq(Nat)
  BY <1>1, <1>2 DEF Held
<1>8. \A c \in {"LF", "CR", "start", "text", "bad", "lost"} : Arrives(c) => wire' \in Seq(ByteClasses)
  <2>1. {"LF", "CR", "start", "text", "bad", "lost"} \subseteq ByteClasses
    BY DEF ByteClasses, Terminators
  <2> QED  BY <2>1, <1>4, Zenon DEF Arrives
<1>9. CASE LineFeed
  BY <1>1, <1>2, <1>5, <1>8, <1>9 DEF LineFeed, LineTypeOK
<1>10. CASE CarriageReturn
  BY <1>1, <1>2, <1>5, <1>8, <1>10 DEF CarriageReturn, LineTypeOK
<1>11. CASE Start
  BY <1>6, <1>7, <1>8, <1>11 DEF Start, LineTypeOK
<1>12. CASE Text
  BY <1>6, <1>7, <1>8, <1>12 DEF Text, LineTypeOK
<1>13. CASE Unprintable
  BY <1>6, <1>7, <1>8, <1>13 DEF Unprintable, LineTypeOK
<1>14. CASE Flushed
  BY <1>1, <1>8, <1>14 DEF Flushed, LineTypeOK
<1>15. CASE UNCHANGED lineVars
  BY <1>1, <1>15 DEF lineVars, LineTypeOK
<1> QED  BY <1>9, <1>10, <1>11, <1>12, <1>13, <1>14, <1>15 DEF ProcessByte

\* All of the lines that have ended are decided once a byte came after them.
LEMMA NoneWaits ==
  ASSUME LineInv, NEW c, Appends(c), c # "lost", c # "CR" \/ ~Proper(Unended)
  PROVE  \A k \in Whole' : Decided(k)'
<1>0. PICK n \in Nat : n = Len(wire)
  BY DEF LineInv, LineTypeOK
<1>1. /\ Received \subseteq 1 .. n /\ Received' = Received \cup {n + 1} /\ wire'[n + 1] = c
  BY <1>0, Wire DEF LineInv
<1>2. Whole' = IF c \in Terminators /\ Proper(Unended) THEN Whole \cup {n + 1} ELSE Whole
  BY <1>0, NewWhole DEF LineInv
<1>3. ASSUME NEW k \in Whole PROVE Decided(k)'
  <2>1. k \in 1 .. n
    BY <1>1 DEF Whole
  <2>2. n + 1 \in Received' /\ k < n + 1
    BY <1>1, <2>1
  <2> QED  BY <2>2 DEF Decided
<1>4. ASSUME c \in Terminators, Proper(Unended) PROVE Decided(n + 1)'
  BY <1>1, <1>4 DEF Decided
<1> QED  BY <1>2, <1>3, <1>4

\* The line is over.
LEMMA Emptied ==
  ASSUME LineInv, NEW c \in Terminators, Appends(c), c # "CR" \/ ~Proper(Unended),
         line' = <<>>, discarding' = FALSE, awaiting' = FALSE,
         \A n \in DOMAIN handed' : handed'[n].at \in Received'
  PROVE  StreamInv'
<1>1. c # "lost" /\ c # "start"
  BY DEF Terminators
<1>2. Unended' = {}
  BY <1>1, TailGrows DEF LineInv
<1>3. Places(line)' = {} /\ Ascending(line)'
  BY DEF Places, Ascending
<1>4. Collects'
  BY <1>2, <1>3, FS_EmptySet, LineAssumption DEF Collects
<1>5. \A k \in Whole' : Decided(k)'
  BY <1>1, NoneWaits
<1> QED  BY <1>3, <1>4, <1>5 DEF StreamInv

\* The line before a CR waits.
LEMMA WaitBegins ==
  ASSUME LineInv, Appends("CR"), awaiting = FALSE, discarding = FALSE, line # <<>>,
         awaiting' = TRUE, crAt' = Len(wire) + 1, UNCHANGED <<line, discarding, handed>>
  PROVE  StreamInv'
<1>0. PICK n \in Nat : n = Len(wire)
  BY DEF LineInv, LineTypeOK
<1>1. /\ Received \subseteq 1 .. n /\ Received' = Received \cup {n + 1} /\ wire'[n + 1] = "CR"
  BY <1>0, Wire DEF LineInv
<1>2. Collects /\ Places(line) \subseteq Received /\ Ascending(line)
      /\ (\A i \in DOMAIN handed : handed[i].at \in Received) /\ line \in Seq(Nat)
  BY DEF LineInv, StreamInv, LineTypeOK
<1>3. Unended # {}
  <2>1. 1 \in DOMAIN line
    BY <1>2
  <2> QED  BY <2>1, <1>2 DEF Collects, Places
<1>4. Proper(Unended) /\ Places(line) = Unended
  BY <1>2, <1>3 DEF Collects, Proper
<1>5. Bytes(n + 1)' = Unended /\ Proper(Bytes(n + 1))'
  BY <1>0, <1>4, OldBytes DEF Unended, LineInv
<1>6. Bytes(crAt)' = Bytes(n + 1)' /\ (Proper(Bytes(crAt))' <=> Proper(Bytes(n + 1))')
  BY <1>0 DEF Bytes, Proper
<1>7. Places(line)' = Places(line) /\ Ascending(line)'
  BY <1>2 DEF Places, Ascending
<1>8. Waits'
  <2>1. crAt' \in Received' /\ wire'[crAt'] = "CR" /\ \A j \in Received' : j <= crAt'
    BY <1>0, <1>1
  <2>2. \A i \in DOMAIN handed' : handed'[i].at < crAt'
    <3>1. \A i \in DOMAIN handed : handed[i].at \in 1 .. n
      BY <1>1, <1>2
    <3>2. \A i \in DOMAIN handed : handed[i].at < n + 1
      BY <3>1
    <3> QED  BY <1>0, <3>2
  <2> QED  BY <2>1, <2>2, <1>4, <1>5, <1>6, <1>7 DEF Waits
<1> QED  BY <1>1, <1>2, <1>7, <1>8 DEF StreamInv

\* The buffer and the flag, once a line that waited is handed on.
LEMMA HeldIs ==
  ASSUME LineInv
  PROVE  /\ Held \in Seq(Nat) /\ Places(Held) \subseteq Received /\ Ascending(Held)
         /\ ~Discards => /\ Places(Held) = Unended /\ Len(Held) = Cardinality(Unended)
                         /\ Len(Held) <= MaxLine /\ \A j \in Unended : wire[j] # "bad"
         /\ Discards => Unended # {} /\ ~Proper(Unended)
<1>1. LineTypeOK /\ StreamInv
  BY DEF LineInv
<1>2. CASE awaiting = TRUE
  <2>1. Held = <<>> /\ ~Discards
    BY <1>2 DEF Held, Discards
  <2>2. Unended = {}
    BY <1>1, <1>2, NothingWaits DEF StreamInv
  <2>3. Places(Held) = {} /\ Ascending(Held) /\ Len(Held) = 0 /\ Held \in Seq(Nat)
    BY <2>1 DEF Places, Ascending
  <2> QED  BY <2>1, <2>2, <2>3, FS_EmptySet, LineAssumption
<1>3. CASE awaiting = FALSE
  <2>1. Held = line /\ (Discards <=> discarding = TRUE)
    BY <1>1, <1>3 DEF Held, Discards, LineTypeOK
  <2> QED  BY <1>1, <1>3, <2>1 DEF StreamInv, Collects, LineTypeOK
<1> QED  BY <1>1, <1>2, <1>3 DEF LineTypeOK

\* A byte of a line: what is still to say of the buffer.
LEMMA Continued ==
  ASSUME LineInv, NEW c, Appends(c), c \in {"start", "text", "bad"}, awaiting' = FALSE,
         \A n \in DOMAIN handed' : handed'[n].at \in Received',
         Places(line)' \subseteq Received', Ascending(line)',
         discarding' = FALSE => Collects',
         discarding' = TRUE => Unended' # {} /\ ~Proper(Unended)'
  PROVE  StreamInv'
<1>1. c # "lost" /\ c # "CR"
  OBVIOUS
<1>2. \A k \in Whole' : Decided(k)'
  BY <1>1, NoneWaits
<1> QED  BY <1>2 DEF StreamInv

LEMMA Restarted ==
  ASSUME LineInv, Start, \A n \in DOMAIN handed' : handed'[n].at \in Received'
  PROVE  StreamInv'
<1>0. PICK n \in Nat : n = Len(wire)
  BY DEF LineInv, LineTypeOK
<1>1. Appends("start") /\ awaiting' = FALSE /\ line' = <<n + 1>> /\ discarding' = FALSE
  BY <1>0 DEF Start, Arrives, Appends, ByteClasses, EndBareCr, Position
<1>2. Unended' = {n + 1} /\ Received' = Received \cup {n + 1} /\ wire'[n + 1] = "start"
  BY <1>0, <1>1, TailGrows, Wire DEF LineInv, Terminators
<1>3. Places(line)' = {n + 1} /\ Ascending(line)' /\ Len(line') = 1
  BY <1>0, <1>1 DEF Places, Ascending
<1>4. Cardinality(Unended') = 1
  BY <1>2, FS_Singleton
<1>5. Collects'
  BY <1>2, <1>3, <1>4, LineAssumption DEF Collects
<1> QED  BY <1>1, <1>2, <1>3, <1>5, Continued

\* The longest line is MaxLine bytes; one more and it is none.
LEMMA Lengthened ==
  ASSUME LineInv, Text, \A n \in DOMAIN handed' : handed'[n].at \in Received'
  PROVE  StreamInv'
<1>0. PICK n \in Nat : n = Len(wire)
  BY DEF LineInv, LineTypeOK
<1>1. /\ Appends("text") /\ awaiting' = FALSE
      /\ IF ~Discards /\ Len(Held) < MaxLine
         THEN line' = Append(Held, n + 1) /\ discarding' = FALSE
         ELSE line' = Held /\ discarding' = TRUE
  BY <1>0 DEF Text, Arrives, Appends, ByteClasses, EndBareCr, Position
<1>2. Unended' = Unended \cup {n + 1}
  BY <1>0, <1>1, TailGrows DEF LineInv, Terminators
<1>3. /\ Received' = Received \cup {n + 1} /\ wire'[n + 1] = "text" /\ Received \subseteq 1 .. n
      /\ \A i \in 1 .. n : wire'[i] = wire[i]
  BY <1>0, <1>1, Wire DEF LineInv
<1>4. /\ Unended \subseteq Received /\ IsFiniteSet(Unended) /\ Cardinality(Unended) \in Nat
  BY Finite DEF LineInv
<1>5. Cardinality(Unended') = Cardinality(Unended) + 1
  <2>1. n + 1 \notin Unended
    BY <1>3, <1>4
  <2> QED  BY <2>1, <1>2, <1>4, FS_AddElement
<1>6. /\ Held \in Seq(Nat) /\ Places(Held) \subseteq Received /\ Ascending(Held)
      /\ ~Discards => /\ Places(Held) = Unended /\ Len(Held) = Cardinality(Unended)
                      /\ Len(Held) <= MaxLine /\ \A j \in Unended : wire[j] # "bad"
      /\ Discards => Unended # {} /\ ~Proper(Unended)
  BY HeldIs
<1>7. \A j \in Unended : wire'[j] = wire[j]
  BY <1>3, <1>4
<1> HIDE DEF Held
<1>8. CASE ~Discards /\ Len(Held) < MaxLine
  <2>1. line' = Append(Held, n + 1) /\ discarding' = FALSE
    BY <1>1, <1>8
  <2>2. PICK m \in Nat : m = Len(Held)
    BY <1>6
  <2>3. /\ DOMAIN line' = 1 .. m + 1 /\ line'[m + 1] = n + 1 /\ DOMAIN Held = 1 .. m
        /\ (\A i \in 1 .. m : line'[i] = Held[i]) /\ Len(line') = m + 1
    BY <1>6, <2>1, <2>2
  <2>4. Places(line)' = Places(Held) \cup {n + 1}
    BY <2>3 DEF Places
  <2>5. Ascending(line)'
    <3>1. \A i \in 1 .. m : Held[i] \in 1 .. n
      BY <2>3, <1>3, <1>6 DEF Places
    <3>2. ASSUME NEW i \in 1 .. m + 1, NEW j \in 1 .. m + 1, i < j PROVE line'[i] < line'[j]
      <4>1. i \in 1 .. m
        BY <3>2
      <4>2. CASE j = m + 1
        BY <4>1, <4>2, <3>1, <2>3
      <4>3. CASE j # m + 1
        <5>1. j \in 1 .. m
          BY <4>3
        <5> QED  BY <3>2, <4>1, <5>1, <2>3, <1>6 DEF Ascending
      <4> QED  BY <4>2, <4>3
    <3> QED  BY <2>3, <3>2 DEF Ascending
  <2>6. Collects'
    BY <1>2, <1>3, <1>5, <1>6, <1>7, <1>8, <2>2, <2>3, <2>4, LineAssumption DEF Collects
  <2>7. Places(line)' \subseteq Received'
    BY <1>3, <1>6, <2>4
  <2> QED  BY <1>1, <2>1, <2>5, <2>6, <2>7, Continued
<1>9. CASE ~(~Discards /\ Len(Held) < MaxLine)
  <2>1. line' = Held /\ discarding' = TRUE
    BY <1>1, <1>9
  <2>2. Places(line)' \subseteq Received' /\ Ascending(line)'
    BY <1>3, <1>6, <2>1 DEF Places, Ascending
  <2>3. ~Proper(Unended)'
    <3>1. CASE Discards
      <4>1. Cardinality(Unended) > MaxLine \/ \E j \in Unended : wire[j] = "bad"
        BY <3>1, <1>4, <1>6, LineAssumption DEF Proper
      <4> QED  BY <4>1, <1>2, <1>4, <1>5, <1>7, LineAssumption DEF Proper
    <3>2. CASE ~Discards
      <4>1. Cardinality(Unended) = MaxLine
        BY <3>2, <1>4, <1>6, <1>9, LineAssumption
      <4> QED  BY <4>1, <1>5, LineAssumption DEF Proper
    <3> QED  BY <3>1, <3>2
  <2>4. Unended' # {}
    BY <1>2
  <2> QED  BY <1>1, <2>1, <2>2, <2>3, <2>4, Continued
<1> QED  BY <1>8, <1>9

LEMMA Spoiled ==
  ASSUME LineInv, Unprintable, \A n \in DOMAIN handed' : handed'[n].at \in Received'
  PROVE  StreamInv'
<1>0. PICK n \in Nat : n = Len(wire)
  BY DEF LineInv, LineTypeOK
<1>1. Appends("bad") /\ awaiting' = FALSE /\ line' = Held /\ discarding' = TRUE
  BY <1>0 DEF Unprintable, Arrives, Appends, ByteClasses, EndBareCr
<1>2. Unended' = Unended \cup {n + 1}
  BY <1>0, <1>1, TailGrows DEF LineInv, Terminators
<1>3. Received' = Received \cup {n + 1} /\ wire'[n + 1] = "bad"
  BY <1>0, <1>1, Wire DEF LineInv
<1>4. Places(Held) \subseteq Received /\ Ascending(Held)
  BY HeldIs
<1> HIDE DEF Held
<1>5. Places(line)' \subseteq Received' /\ Ascending(line)'
  BY <1>1, <1>3, <1>4 DEF Places, Ascending
<1>6. Unended' # {} /\ ~Proper(Unended)'
  BY <1>2, <1>3 DEF Proper
<1> QED  BY <1>1, <1>5, <1>6, Continued

\* A byte that the assembler never sees.
LEMMA Unseen ==
  ASSUME LineInv, Flushed
  PROVE  StreamInv' /\ AssembledExactly'
<1>0. PICK n \in Nat, r \in Nat : n = Len(wire) /\ r = crAt
  BY DEF LineInv, LineTypeOK
<1>1. Appends("lost") /\ UNCHANGED <<line, discarding, awaiting, crAt, handed>>
  BY DEF Flushed, Arrives, Appends, ByteClasses
<1>2. LineTypeOK /\ StreamInv
  BY DEF LineInv
<1>3. /\ Received' = Received /\ Received \subseteq 1 .. n
      /\ \A i \in 1 .. n : wire'[i] = wire[i]
  BY <1>0, <1>1, <1>2, Wire
<1>4. Unended' = Unended /\ Unended \subseteq Received
  BY <1>1, <1>2, TailGrows, Finite
<1>5. Whole' = Whole /\ Whole \subseteq 1 .. n
  <2>1. "lost" \notin Terminators
    BY DEF Terminators
  <2>2. Whole' = Whole
    BY <1>1, <1>2, <2>1, NewWhole
  <2> QED  BY <2>2, <1>3 DEF Whole
<1>6. LineEnds' = LineEnds
  <2>1. CASE awaiting = TRUE
    BY <2>1, <1>1, <1>2, NewEnds
  <2>2. CASE awaiting = FALSE
    <3>1. LineEnds' = IF "lost" = "LF" /\ Proper(Unended) THEN LineEnds \cup {n + 1} ELSE LineEnds
      BY <2>2, <1>0, <1>1, <1>2, NewEnds, Zenon
    <3>2. "lost" # "LF"
      OBVIOUS
    <3> QED  BY <3>1, <3>2, Zenon
  <2> QED  BY <2>1, <2>2, <1>2 DEF LineTypeOK
<1>7. AssembledExactly' /\ \A i \in DOMAIN handed' : handed'[i].at \in Received'
  BY <1>1, <1>6, HandsNothing
<1>8. Places(line)' = Places(line) /\ (Ascending(line)' <=> Ascending(line))
  BY <1>1 DEF Places, Ascending
<1>9. awaiting = TRUE => Waits'
  <2> SUFFICES ASSUME awaiting = TRUE PROVE Waits'
    OBVIOUS
  <2>1. Waits
    BY <1>2 DEF StreamInv
  <2>2. r \in 1 .. n
    BY <1>0, <1>3, <2>1 DEF Waits
  <2>3. Bytes(r)' = Bytes(r) /\ Proper(Bytes(r))' = Proper(Bytes(r))
    BY <1>0, <1>1, <1>2, <2>2, OldBytes
  <2>4. Bytes(crAt)' = Bytes(r)' /\ (Proper(Bytes(crAt))' <=> Proper(Bytes(r))')
    BY <1>0, <1>1 DEF Bytes, Proper
  <2>5. /\ r \in Received /\ wire[r] = "CR" /\ (\A j \in Received : j <= r)
        /\ discarding = FALSE /\ Places(line) = Bytes(r) /\ Proper(Bytes(r))
        /\ \A i \in DOMAIN handed : handed[i].at < r
    BY <1>0, <2>1 DEF Waits
  <2>6. wire'[r] = "CR"
    BY <1>3, <2>2, <2>5
  <2> QED  BY <1>0, <1>1, <1>3, <1>8, <2>3, <2>4, <2>5, <2>6 DEF Waits
<1>10. awaiting = FALSE /\ discarding = FALSE => Collects'
  <2>1. \A j \in Unended : wire'[j] = wire[j]
    BY <1>3, <1>4
  <2> QED  BY <1>1, <1>2, <1>4, <1>8, <2>1 DEF StreamInv, Collects
<1>11. awaiting = FALSE /\ discarding = TRUE => Unended' # {} /\ ~Proper(Unended)'
  <2>1. \A j \in Unended : wire'[j] = wire[j]
    BY <1>3, <1>4
  <2>2. Proper(Unended)' <=> Proper(Unended)
    BY <1>4, <2>1 DEF Proper
  <2> QED  BY <1>2, <1>4, <2>2 DEF StreamInv
<1>12. awaiting = FALSE => \A k \in Whole' : Decided(k)'
  <2> SUFFICES ASSUME awaiting = FALSE, NEW k \in Whole PROVE Decided(k)'
    BY <1>5
  <2>1. Decided(k) /\ wire'[k] = wire[k]
    BY <1>2, <1>3, <1>5 DEF StreamInv
  <2> QED  BY <2>1, <1>3 DEF Decided
<1> QED  BY <1>1, <1>2, <1>3, <1>7, <1>8, <1>9, <1>10, <1>11, <1>12 DEF StreamInv

LEMMA LineStep == LineInv /\ [ProcessByte]_lineVars => LineInv'
<1> SUFFICES ASSUME LineInv, [ProcessByte]_lineVars PROVE LineInv'
  OBVIOUS
<1>0. PICK n \in Nat : n = Len(wire)
  BY DEF LineInv, LineTypeOK
<1>t. LineTypeOK'
  BY LineTyped
<1>1. CASE LineFeed
  <2>1. Appends("LF") /\ CompleteLine(Position) /\ awaiting' = FALSE
    BY <1>1 DEF LineFeed, Arrives, Appends, ByteClasses, Terminators
  <2>2. AssembledExactly' /\ \A i \in DOMAIN handed' : handed'[i].at \in Received'
    BY <2>1, FeedHands
  <2>3. line' = <<>> /\ discarding' = FALSE
    BY <2>1 DEF CompleteLine
  <2>4. StreamInv'
    BY <2>1, <2>2, <2>3, Emptied DEF Terminators
  <2> QED  BY <1>t, <2>2, <2>4 DEF LineInv
<1>2. CASE CarriageReturn
  <2>1. Appends("CR")
    BY <1>2 DEF CarriageReturn, Arrives, Appends, ByteClasses, Terminators
  <2>2. CASE awaiting \/ discarding \/ line = <<>>
    <3>1. CompleteLine(crAt) /\ awaiting' = FALSE /\ line' = <<>> /\ discarding' = FALSE
      BY <1>2, <2>2 DEF CarriageReturn, CompleteLine
    <3>2. ~Proper(Unended)
      <4>1. CASE awaiting = TRUE
        BY <4>1, NothingWaits DEF LineInv, StreamInv
      <4>2. CASE awaiting = FALSE /\ discarding = TRUE
        BY <4>2 DEF LineInv, StreamInv
      <4>3. CASE awaiting = FALSE /\ discarding = FALSE
        <5>1. Places(line) = Unended /\ line = <<>>
          BY <4>3, <2>2 DEF LineInv, StreamInv, Collects
        <5>2. Unended = {}
          BY <5>1 DEF Places
        <5> QED  BY <5>2 DEF Proper
      <4> QED  BY <4>1, <4>2, <4>3 DEF LineInv, LineTypeOK
    <3>3. handed' = IF awaiting THEN Append(handed, [bytes |-> line, at |-> crAt]) ELSE handed
      <4>1. CASE awaiting = TRUE
        <5>1. discarding = FALSE /\ line # <<>>
          BY <4>1 DEF LineInv, StreamInv, LineTypeOK, Waits, Proper, Places
        <5> QED  BY <4>1, <5>1, <3>1 DEF CompleteLine
      <4>2. CASE awaiting = FALSE
        BY <4>2, <2>2, <3>1 DEF CompleteLine
      <4> QED  BY <4>1, <4>2 DEF LineInv, LineTypeOK
    <3>4. AssembledExactly' /\ \A i \in DOMAIN handed' : handed'[i].at \in Received'
      BY <2>1, <3>3, BareCr
    <3>5. StreamInv'
      BY <2>1, <3>1, <3>2, <3>4, Emptied DEF Terminators
    <3> QED  BY <1>t, <3>4, <3>5 DEF LineInv
  <2>3. CASE ~(awaiting \/ discarding \/ line = <<>>)
    <3>1. /\ awaiting' = TRUE /\ crAt' = Len(wire) + 1
          /\ UNCHANGED <<line, discarding, handed>>
      BY <1>2, <2>3 DEF CarriageReturn, Position
    <3>2. awaiting = FALSE /\ discarding = FALSE /\ line # <<>>
      BY <2>3 DEF LineInv, LineTypeOK
    <3>3. StreamInv'
      BY <2>1, <3>1, <3>2, WaitBegins
    <3>4. handed' = IF awaiting THEN Append(handed, [bytes |-> line, at |-> crAt]) ELSE handed
      BY <3>1, <3>2
    <3>5. AssembledExactly'
      BY <2>1, <3>4, BareCr
    <3> QED  BY <1>t, <3>3, <3>5 DEF LineInv
  <2> QED  BY <2>2, <2>3
<1>3. CASE Start \/ Text \/ Unprintable
  <2>1. EndBareCr /\ (Appends("start") \/ Appends("text") \/ Appends("bad"))
    BY <1>3 DEF Start, Text, Unprintable, Arrives, Appends, ByteClasses
  <2>2. AssembledExactly' /\ \A i \in DOMAIN handed' : handed'[i].at \in Received'
    <3>1. handed' = IF awaiting THEN Append(handed, [bytes |-> line, at |-> crAt]) ELSE handed
      BY <2>1 DEF EndBareCr
    <3>2. PICK c : Appends(c) /\ c \notin {"LF", "lost"}
      BY <2>1
    <3> QED  BY <3>1, <3>2, BareCr
  <2>3. StreamInv'
    BY <1>3, <2>2, Restarted, Lengthened, Spoiled
  <2> QED  BY <1>t, <2>2, <2>3 DEF LineInv
<1>4. CASE Flushed
  BY <1>t, <1>4, Unseen DEF LineInv
<1>5. CASE UNCHANGED lineVars
  <2>1. /\ wire' = wire /\ line' = line /\ discarding' = discarding
        /\ awaiting' = awaiting /\ crAt' = crAt /\ handed' = handed
    BY <1>5 DEF lineVars
  <2>2. Received' = Received
    BY <2>1 DEF Received
  <2>3. \A k : Bytes(k)' = Bytes(k)
    BY <2>1, <2>2 DEF Bytes
  <2>4. \A k : (Proper(Bytes(k))' <=> Proper(Bytes(k))) /\ (Decided(k)' <=> Decided(k))
    BY <2>1, <2>2, <2>3 DEF Proper, Decided
  <2>5. \A k : Arrival(k)' = Arrival(k)
    BY <2>1, <2>2 DEF Arrival, Follows
  <2>6. LineEnds' = LineEnds
    BY <2>1, <2>2, <2>4 DEF LineEnds
  <2>7. \A i \in DOMAIN handed, k \in LineEnds : IsLine(handed[i], k)' <=> IsLine(handed[i], k)
    BY <2>1, <2>3, <2>5 DEF IsLine, Ascending
  <2>8. AssembledExactly'
    BY <2>1, <2>6, <2>7 DEF LineInv, AssembledExactly
  <2>9. StreamInv'
    <3>1. Unended' = Unended /\ (Proper(Unended)' <=> Proper(Unended))
      BY <2>1, <2>2, <2>3, <2>4 DEF Unended
    <3>2. Whole' = Whole
      BY <2>1, <2>2, <2>4 DEF Whole
    <3>3. Places(line)' = Places(line) /\ (Ascending(line)' <=> Ascending(line))
      BY <2>1 DEF Places, Ascending
    <3>4. Bytes(crAt)' = Bytes(crAt) /\ (Proper(Bytes(crAt))' <=> Proper(Bytes(crAt)))
      BY <2>1, <2>2 DEF Bytes, Proper
    <3>5. Waits' <=> Waits
      BY <2>1, <2>2, <3>3, <3>4 DEF Waits
    <3>6. Collects' <=> Collects
      BY <2>1, <3>1, <3>3 DEF Collects
    <3> QED  BY <2>1, <2>2, <2>4, <3>1, <3>2, <3>3, <3>5, <3>6 DEF LineInv, StreamInv
  <2> QED  BY <1>t, <2>8, <2>9 DEF LineInv
<1> QED  BY <1>1, <1>2, <1>3, <1>4, <1>5 DEF ProcessByte

LEMMA LineBegins == LineInit => LineInv
<1> SUFFICES ASSUME LineInit PROVE LineInv
  OBVIOUS
<1>1. /\ wire = <<>> /\ line = <<>> /\ discarding = FALSE /\ awaiting = FALSE
      /\ crAt = 0 /\ handed = <<>>
  BY DEF LineInit
<1>2. LineTypeOK
  <2>1. <<>> \in Seq(ByteClasses) /\ <<>> \in Seq(Nat) /\ <<>> \in Seq([bytes : Seq(Nat), at : Nat])
    OBVIOUS
  <2> QED  BY <1>1, <2>1, Zenon DEF LineTypeOK
<1>3. Received = {}
  BY <1>1 DEF Received
<1>4. Unended = {} /\ Whole = {} /\ LineEnds = {}
  BY <1>3 DEF Unended, Bytes, Whole, LineEnds
<1>5. Places(line) = {} /\ Ascending(line) /\ Len(line) = 0 /\ DOMAIN handed = {}
  BY <1>1 DEF Places, Ascending
<1>6. StreamInv
  BY <1>1, <1>4, <1>5, FS_EmptySet, LineAssumption DEF StreamInv, Collects
<1>7. AssembledExactly
  BY <1>4, <1>5 DEF AssembledExactly
<1> QED  BY <1>2, <1>6, <1>7 DEF LineInv

-----------------------------------------------------------------------------
(***************************************************************************)
(* What a gap costs.                                                       *)
(***************************************************************************)

\* A gap inside the line that ends at k.
Within(g, k) == \E a, b \in Bytes(k) : a < g /\ g < b

LEMMA HandedTyped ==
  ASSUME LineTypeOK, NEW n \in DOMAIN handed
  PROVE  handed[n] \in [bytes : Seq(Nat), at : Nat]
<1> DEFINE T == [bytes : Seq(Nat), at : Nat]
<1>1. handed \in Seq(T)
  BY DEF LineTypeOK
<1> HIDE DEF T
<1>2. handed[n] \in T
  BY <1>1
<1> QED  BY <1>2 DEF T

LEMMA GapWithin ==
  ASSUME LineInv, NEW n \in DOMAIN handed, Spliced(handed[n]),
         NEW k \in LineEnds, IsLine(handed[n], k)
  PROVE  \E g \in Gaps : Within(g, k)
<1>0. PICK l : l = handed[n]
  OBVIOUS
<1>1. l \in [bytes : Seq(Nat), at : Nat]
  BY <1>0, HandedTyped DEF LineInv
<1>2. PICK m \in Nat : m = Len(l.bytes) /\ DOMAIN l.bytes = 1 .. m
  BY <1>1
<1>3. PICK i \in 2 .. m : l.bytes[i] # l.bytes[i - 1] + 1
  BY <1>0, <1>2 DEF Spliced
<1>4. /\ {l.bytes[j] : j \in 1 .. m} = Bytes(k)
      /\ \A j, x \in 1 .. m : j < x => l.bytes[j] < l.bytes[x]
      /\ \A j \in 1 .. m : l.bytes[j] \in Nat
  <2>1. /\ {l.bytes[j] : j \in DOMAIN l.bytes} = Bytes(k)
        /\ \A j, x \in DOMAIN l.bytes : j < x => l.bytes[j] < l.bytes[x]
    BY <1>0, Zenon DEF IsLine, Ascending
  <2>2. PICK s \in Seq(Nat) : s = l.bytes
    BY <1>1
  <2>3. \A j \in 1 .. m : s[j] \in Nat
    BY <1>2, <2>2
  <2> QED  BY <1>2, <2>1, <2>2, <2>3
<1>5. i \in 1 .. m /\ i - 1 \in 1 .. m
  OBVIOUS
<1>6. PICK a \in Nat, b \in Nat : a = l.bytes[i - 1] /\ b = l.bytes[i]
  BY <1>1, <1>2, <1>5
<1>7. a < b /\ a \in Bytes(k) /\ b \in Bytes(k)
  BY <1>4, <1>5, <1>6
<1>8. a + 1 < b
  BY <1>3, <1>6, <1>7
<1>9. /\ a \in Received /\ b \in Received /\ b < k /\ k \in Int
      /\ \A j \in Received : a < j /\ j < k => wire[j] \notin Terminators \cup {"start"}
  BY <1>7, Finite DEF Bytes, LineEnds, LineInv
<1>10. DOMAIN wire = 1 .. Len(wire) /\ a \in 1 .. Len(wire) /\ b \in 1 .. Len(wire)
  BY <1>9, Finite DEF LineInv, LineTypeOK
<1>11. a + 1 \in DOMAIN wire
  BY <1>8, <1>10 DEF LineInv, LineTypeOK
<1>12. a + 1 \notin Received
  <2> SUFFICES ASSUME a + 1 \in Received PROVE FALSE
    OBVIOUS
  <2>1. \A j \in Received : j \in Int
    BY Finite DEF LineInv
  <2>2. a + 1 < k /\ wire[a + 1] \notin Terminators
    BY <1>8, <1>9
  <2>3. \A j \in Received : a + 1 < j /\ j < k => wire[j] \notin Terminators \cup {"start"}
    BY <1>9, <2>1
  <2>4. a + 1 \in Bytes(k)
    BY <2>2, <2>3 DEF Bytes
  <2>5. PICK x \in 1 .. m : l.bytes[x] = a + 1
    BY <1>4, <2>4
  <2>6. CASE x <= i - 1
    <3>1. l.bytes[x] <= a
      BY <1>4, <1>5, <1>6, <2>6
    <3> QED  BY <2>5, <3>1
  <2>7. CASE x >= i
    <3>1. l.bytes[x] >= b
      BY <1>4, <1>5, <1>6, <2>7
    <3> QED  BY <2>5, <3>1, <1>8
  <2> QED  BY <2>6, <2>7
<1>13. wire[a + 1] = "lost" /\ wire[a] # "lost"
  BY <1>9, <1>11, <1>12 DEF Received
<1>14. a + 1 \in Gaps
  BY <1>11, <1>13 DEF Gaps
<1> QED  BY <1>7, <1>8, <1>14 DEF Within

\* No gap lies within two lines.
LEMMA GapOfOne ==
  ASSUME LineInv, NEW j \in LineEnds, NEW k \in LineEnds, NEW g \in Gaps,
         Within(g, j), Within(g, k)
  PROVE  ~(j < k)
<1> SUFFICES ASSUME j < k PROVE FALSE
  OBVIOUS
<1>1. PICK a \in Bytes(k) : a < g
  BY DEF Within
<1>2. PICK b \in Bytes(j) : g < b
  BY DEF Within
<1>3. \A i \in Received : i \in Int
  BY Finite DEF LineInv
<1>4. g \in Int
  BY DEF Gaps, LineInv, LineTypeOK
<1>5. a \in Received /\ b \in Received /\ b < j /\ j \in Received /\ wire[j] \in Terminators
  BY <1>1, <1>2 DEF Bytes, LineEnds
<1>6. a < j
  BY <1>1, <1>2, <1>3, <1>4, <1>5
<1>7. wire[j] \notin Terminators
  BY <1>1, <1>5, <1>6 DEF Bytes
<1> QED  BY <1>5, <1>7

LEMMA GapsCost == LineInv => SplicesBounded
<1> SUFFICES ASSUME LineInv PROVE SplicesBounded
  OBVIOUS
<1> DEFINE S == {n \in DOMAIN handed : Spliced(handed[n])}
           end == [n \in DOMAIN handed |-> CHOOSE k \in LineEnds : IsLine(handed[n], k)]
           gap == [n \in S |-> CHOOSE g \in Gaps : Within(g, end[n])]
<1>1. \A n \in DOMAIN handed : end[n] \in LineEnds /\ IsLine(handed[n], end[n])
  <2> SUFFICES ASSUME NEW n \in DOMAIN handed
               PROVE  end[n] \in LineEnds /\ IsLine(handed[n], end[n])
    OBVIOUS
  <2>1. \E k \in LineEnds : IsLine(handed[n], k)
    BY DEF LineInv, AssembledExactly
  <2>2. end[n] = CHOOSE k \in LineEnds : IsLine(handed[n], k)
    OBVIOUS
  <2> QED  BY <2>1, <2>2, Zenon
<1> HIDE DEF end
<1>2. \A n \in S : gap[n] \in Gaps /\ Within(gap[n], end[n])
  <2> SUFFICES ASSUME NEW n \in S PROVE gap[n] \in Gaps /\ Within(gap[n], end[n])
    OBVIOUS
  <2>1. \E g \in Gaps : Within(g, end[n])
    BY <1>1, GapWithin
  <2>2. gap[n] = CHOOSE g \in Gaps : Within(g, end[n])
    OBVIOUS
  <2> QED  BY <2>1, <2>2, Zenon
<1>3. gap \in [S -> Gaps]
  <2>1. gap = [n \in S |-> gap[n]]
    OBVIOUS
  <2> HIDE DEF gap
  <2> QED  BY <1>2, <2>1
<1> HIDE DEF gap
<1>4. ASSUME NEW m \in S, NEW n \in S, gap[m] = gap[n], m < n PROVE FALSE
  <2>1. m \in DOMAIN handed /\ n \in DOMAIN handed
    OBVIOUS
  <2>2. handed[m].at < handed[n].at
    BY <1>4, <2>1 DEF LineInv, AssembledExactly
  <2>3. handed[m].at = Arrival(end[m]) /\ handed[n].at = Arrival(end[n])
    BY <1>1, <2>1 DEF IsLine
  <2>4. handed[m].at \in Nat /\ handed[n].at \in Nat
    BY <2>1, HandedTyped DEF LineInv
  <2>5. end[m] # end[n]
    BY <2>2, <2>3, <2>4
  <2>6. ~(end[m] < end[n]) /\ ~(end[n] < end[m])
    BY <1>1, <1>2, <1>4, <2>1, GapOfOne
  <2>7. end[m] \in Int /\ end[n] \in Int
    BY <1>1, <2>1, Finite DEF LineEnds, LineInv
  <2> QED  BY <2>5, <2>6, <2>7
<1>5. gap \in Injection(S, Gaps)
  <2>1. ASSUME NEW m \in S, NEW n \in S, gap[m] = gap[n] PROVE m = n
    <3>1. m \in Int /\ n \in Int
      BY DEF LineInv, LineTypeOK
    <3>2. ~(m < n) /\ ~(n < m)
      BY <1>4, <2>1
    <3> QED  BY <3>1, <3>2
  <2> QED  BY <1>3, <2>1 DEF Injection, IsInjective
<1>6. IsFiniteSet(Gaps)
  <2>1. Len(wire) \in Nat /\ Gaps \subseteq 1 .. Len(wire)
    BY DEF Gaps, LineInv, LineTypeOK
  <2>2. IsFiniteSet(1 .. Len(wire))
    BY <2>1, FS_Interval
  <2> QED  BY <2>1, <2>2, FS_Subset
<1>7. Cardinality(S) <= Cardinality(Gaps)
  BY <1>5, <1>6, FS_Injection
<1> QED  BY <1>7 DEF SplicesBounded

\* Whatever bytes are received or lost, and however long lines may be, the assembler
\* hands on exactly the lines of the stream, each once, whole, in order and with its
\* arrival, and a loss of bytes spoils at most one of them (process_byte).
THEOREM LinesAlwaysExact == LineSpec => []LinesExact
<1>1. LineInv => LinesExact
  BY GapsCost DEF LineInv, LinesExact
<1> QED  BY <1>1, LineBegins, LineStep, PTL DEF LineSpec

-----------------------------------------------------------------------------
(***************************************************************************)
(* The PPS capture: the unwrapped counter tells the time of the capture,   *)
(* the intervals add up and enclose their mean, the width shown is that of *)
(* one pulse, and interrupt and capture are compared for one pulse only.   *)
(***************************************************************************)

LEMMA Divided ==
  ASSUME NEW p \in Nat
  PROVE  \E k \in Nat : p = CapMod * k + (p % CapMod) /\ (p % CapMod) \in 0 .. CapMod - 1
<1>1. CapMod \in Nat /\ CapMod > 0
  BY PpsAssumption
<1>2. p \div CapMod \in Nat
  BY <1>1
<1>3. (p % CapMod) \in 0 .. CapMod - 1
  BY <1>1
<1>4. p = CapMod * (p \div CapMod) + (p % CapMod)
  BY <1>1
<1> QED  BY <1>2, <1>3, <1>4, Zenon

\* A difference of less than one turn is a remainder itself, or one turn short.
LEMMA Remainder ==
  ASSUME NEW x \in Int, -CapMod < x, x < CapMod
  PROVE  x % CapMod = IF x < 0 THEN x + CapMod ELSE x
<1>1. CapMod \in Nat /\ CapMod > 0
  BY PpsAssumption
<1>2. CASE x < 0
  BY <1>1, <1>2
<1>3. CASE x >= 0
  BY <1>1, <1>3
<1> QED  BY <1>2, <1>3

LEMMA TurnsApart ==
  ASSUME NEW k \in Nat, NEW l \in Nat, NEW a \in 0 .. CapMod - 1,
         NEW b \in 0 .. CapMod - 1,
         CapMod * l + b <= CapMod * k + a,
         (CapMod * k + a) - (CapMod * l + b) < CapMod
  PROVE  (CapMod * k + a) - (CapMod * l + b) = IF a < b THEN a - b + CapMod ELSE a - b
<1>1. CapMod \in Nat /\ CapMod > 0
  BY PpsAssumption
<1>2. CapMod * k - CapMod * l = CapMod * (k - l)
  BY <1>1
<1> DEFINE d == k - l
<1>3. d \in Int /\ CapMod * d \in Int
  BY <1>1
<1>4. d >= 0
  <2>1. d <= -1 => CapMod * d <= -CapMod
    <3> HIDE DEF d
    <3> QED  BY <1>1, <1>3
  <2> QED  BY <1>1, <1>2, <1>3, <2>1
<1>5. d <= 1
  <2>1. d >= 2 => CapMod * d >= 2 * CapMod
    <3> HIDE DEF d
    <3> QED  BY <1>1, <1>3
  <2> QED  BY <1>1, <1>2, <1>3, <2>1
<1>6. d = 0 \/ d = 1
  BY <1>3, <1>4, <1>5
<1>7. CapMod * 0 = 0 /\ CapMod * 1 = CapMod
  BY <1>1
<1> QED  BY <1>1, <1>2, <1>6, <1>7

\* Two values of the counter less than one turn apart.
LEMMA CounterDifference ==
  ASSUME NEW p \in Nat, NEW q \in Nat, q <= p, p - q < CapMod
  PROVE  ((p % CapMod) - (q % CapMod)) % CapMod = p - q
<1>1. CapMod \in Nat /\ CapMod > 0
  BY PpsAssumption
<1>2. PICK k \in Nat : p = CapMod * k + (p % CapMod) /\ (p % CapMod) \in 0 .. CapMod - 1
  BY Divided
<1>3. PICK l \in Nat : q = CapMod * l + (q % CapMod) /\ (q % CapMod) \in 0 .. CapMod - 1
  BY Divided
<1> DEFINE a == p % CapMod  b == q % CapMod
<1> HIDE DEF a, b
<1>4. a \in 0 .. CapMod - 1 /\ b \in 0 .. CapMod - 1 /\ a \in Int /\ b \in Int
  BY <1>1, <1>2, <1>3 DEF a, b
<1>5. p - q = IF a < b THEN a - b + CapMod ELSE a - b
  <2>1. p = CapMod * k + a /\ q = CapMod * l + b
    BY <1>2, <1>3, Zenon DEF a, b
  <2>2. (CapMod * k + a) - (CapMod * l + b) = IF a < b THEN a - b + CapMod ELSE a - b
    BY <2>1, <1>4, TurnsApart
  <2> QED  BY <2>1, <2>2
<1>6. (a - b) % CapMod = IF a - b < 0 THEN a - b + CapMod ELSE a - b
  BY <1>1, <1>4, Remainder
<1>7. a - b < 0 <=> a < b
  BY <1>4
<1>8. (a - b) % CapMod = p - q
  BY <1>5, <1>6, <1>7
<1> QED  BY <1>8, Zenon DEF a, b

-----------------------------------------------------------------------------
(***************************************************************************)
(* The unwrapped counter.                                                  *)
(***************************************************************************)

\* What is latched, and what the callback kept of the capture before, are both
\* readings of the counter at a time the history names.
LatchInv ==
  /\ latch.due \in Nat
  /\ (latch.due # 0 => /\ latch.value = (latch.due % CapMod)
                       /\ captured <= latch.due /\ latch.due <= us)

CaptureInv ==
  /\ capture.previous = (captured % CapMod)
  /\ capture.epoch \in Int /\ capture.ticks \in Int
  /\ (~wrapped => Converted = captured)

CounterInv ==
  /\ us \in Nat \ {0} /\ captured \in Nat /\ captured <= us
  /\ wrapped \in BOOLEAN
  /\ capture \in [available : BOOLEAN, epoch : Int, previous : Int, ticks : Int,
                  sequence : Nat]
  /\ LatchInv /\ CaptureInv

LEMMA CounterInit == PpsInit => CounterInv
<1> SUFFICES ASSUME PpsInit PROVE CounterInv
  OBVIOUS
<1>1. PICK available \in BOOLEAN :
        capture = [available |-> available, epoch |-> us,
                   previous |-> us % CapMod, ticks |-> 0, sequence |-> 0]
  BY DEF PpsInit
<1>2. us = 1 /\ captured = us /\ wrapped = FALSE /\ latch.due = 0
  BY DEF PpsInit, NoCapture
<1>3. LatchInv
  BY <1>2 DEF LatchInv
<1>4. CaptureInv
  BY <1>1, <1>2 DEF CaptureInv, Converted
<1>5. us % CapMod \in Int /\ us \in Int /\ 0 \in Int /\ 0 \in Nat
  BY <1>2, PpsAssumption
<1>6. capture \in [available : BOOLEAN, epoch : Int, previous : Int, ticks : Int,
                   sequence : Nat]
  BY <1>1, <1>5, Zenon
<1>7. us \in Nat \ {0} /\ captured \in Nat /\ captured <= us
  BY <1>2
<1>8. wrapped \in BOOLEAN
  BY <1>2
<1> QED  BY <1>3, <1>4, <1>6, <1>7, <1>8, Zenon DEF CounterInv

\* Whatever leaves the counter, its latch and the callback's state alone.
LEMMA CounterKept ==
  CounterInv /\ UNCHANGED <<us, latch, capture, captured, wrapped>> => CounterInv'
BY DEF CounterInv, LatchInv, CaptureInv, Converted

LEMMA CounterCallback == CounterInv /\ CaptureCallback => CounterInv'
<1> SUFFICES ASSUME CounterInv, CaptureCallback PROVE CounterInv'
  OBVIOUS
<1> USE DEF CounterInv
<1>1. /\ latch.due \in Nat \ {0} /\ latch.value = (latch.due % CapMod)
      /\ captured <= latch.due /\ latch.due <= us
  BY DEF LatchInv, CaptureCallback
<1>2. /\ captured' = latch.due /\ us' = us /\ latch'.due = 0
      /\ wrapped' = (wrapped \/ latch.due - captured >= CapMod)
  BY DEF CaptureCallback, NoCapture
<1>3. capture' = [capture EXCEPT !.ticks = @ + Unwrap(latch.value),
                                 !.previous = latch.value, !.sequence = @ + 1]
  BY DEF CaptureCallback
<1>4. LatchInv'
  BY <1>2 DEF LatchInv
<1>5. CapMod \in Nat /\ CapMod > 0
  BY PpsAssumption
<1>6. Unwrap(latch.value) = ((latch.due % CapMod) - (captured % CapMod)) % CapMod
  BY <1>1 DEF Unwrap, CaptureInv
<1>7. Unwrap(latch.value) \in Int
  BY <1>1, <1>5, <1>6
<1> HIDE DEF Unwrap
<1>8. ~wrapped' => Converted' = captured'
  <2> SUFFICES ASSUME ~wrapped' PROVE Converted' = captured'
    OBVIOUS
  <2>1. ~wrapped /\ latch.due - captured < CapMod
    <3>1. ~wrapped /\ ~(latch.due - captured >= CapMod)
      BY <1>2
    <3> QED  BY <3>1, <1>1, <1>5
  <2>2. Unwrap(latch.value) = latch.due - captured
    BY <2>1, <1>1, <1>6, CounterDifference
  <2> QED  BY <2>1, <2>2, <1>1, <1>2, <1>3 DEF CaptureInv, Converted
<1>9. CaptureInv'
  BY <1>1, <1>2, <1>3, <1>7, <1>8 DEF CaptureInv
<1>10. latch.value \in Int
  BY <1>1, <1>5
<1>11. capture' \in [available : BOOLEAN, epoch : Int, previous : Int, ticks : Int,
                     sequence : Nat]
  <2>1. capture.ticks + Unwrap(latch.value) \in Int /\ capture.sequence + 1 \in Nat
    BY <1>7
  <2> QED  BY <1>3, <1>10, <2>1, Zenon
<1> QED  BY <1>1, <1>2, <1>4, <1>9, <1>11

LEMMA CounterStep == CounterInv /\ [PpsNext]_ppsVars => CounterInv'
<1> SUFFICES ASSUME CounterInv, [PpsNext]_ppsVars PROVE CounterInv'
  OBVIOUS
<1>1. CASE Rise
  <2>1. UNCHANGED <<us, capture, captured, wrapped>>
    BY <1>1 DEF Rise, Software
  <2>2. LatchInv'
    BY <1>1, <2>1 DEF Rise, CounterInv, LatchInv
  <2> QED  BY <2>1, <2>2 DEF CounterInv, CaptureInv, Converted
<1>2. CASE Fall
  BY <1>2, CounterKept DEF Fall, Software
<1>3. CASE PpsTick
  <2>1. us' = us + 1 /\ UNCHANGED <<latch, capture, captured, wrapped>>
    BY <1>3 DEF PpsTick, Software
  <2>2. LatchInv'
    BY <2>1 DEF CounterInv, LatchInv
  <2>3. us' \in Nat \ {0} /\ captured' <= us'
    BY <2>1 DEF CounterInv
  <2> QED  BY <2>1, <2>2, <2>3 DEF CounterInv, CaptureInv, Converted
<1>4. CASE EnterHandler
  BY <1>4, CounterKept DEF EnterHandler
<1>5. CASE StoreEdge
  BY <1>5, CounterKept DEF StoreEdge
<1>6. CASE RecordEdge
  BY <1>6, CounterKept DEF RecordEdge
<1>7. CASE CaptureCallback
  BY <1>7, CounterCallback
<1>8. CASE CopyEdges
  BY <1>8, CounterKept DEF CopyEdges
<1>9. CASE CompareCapture
  BY <1>9, CounterKept DEF CompareCapture
<1>10. CASE UNCHANGED ppsVars
  BY <1>10, CounterKept DEF ppsVars
<1> QED
  BY <1>1, <1>2, <1>3, <1>4, <1>5, <1>6, <1>7, <1>8, <1>9, <1>10 DEF PpsNext

LEMMA CounterInvariant == PpsSpec => []CounterInv
BY CounterInit, CounterStep, PTL DEF PpsSpec

\* The 32-bit capture counter is unwrapped to the exact time of the capture
\* (capture_event_callback), whatever the width of the counter, as long as no two
\* captures are a whole turn apart.
THEOREM UnwrappedAlways == PpsSpec => []Unwrapped
<1>1. CounterInv => Unwrapped
  BY DEF CounterInv, CaptureInv, Unwrapped
<1> QED  BY <1>1, CounterInvariant, PTL

-----------------------------------------------------------------------------
(***************************************************************************)
(* The interval statistics.                                                *)
(***************************************************************************)
LEMMA PulseTimesMonotone ==
  ASSUME NEW a \in Int, NEW b \in Int, NEW n \in Nat, a <= b
  PROVE  a * n <= b * n
<1>1. (b - a) * n >= 0
  <2> DEFINE d == b - a
  <2>1. d \in Nat
    OBVIOUS
  <2> HIDE DEF d
  <2>2. d * n >= 0
    BY <2>1
  <2> QED  BY <2>2 DEF d
<1>2. (b - a) * n = b * n - a * n
  OBVIOUS
<1>3. a * n \in Int /\ b * n \in Int
  OBVIOUS
<1> QED  BY <1>1, <1>2, <1>3

PulseStatistics == [count : Nat, sum : Int, minimum : Int, maximum : Int]

\* The limits, taken as often as there are samples, enclose the sum.
Enclosed(s) ==
  /\ s.minimum * s.count <= s.sum
  /\ s.sum <= s.maximum * s.count

LEMMA StatisticsParts ==
  ASSUME NEW s \in PulseStatistics
  PROVE  s.count \in Nat /\ s.sum \in Int /\ s.minimum \in Int /\ s.maximum \in Int
BY DEF PulseStatistics

LEMMA SampledParts ==
  ASSUME NEW s, NEW x
  PROVE  /\ Sampled(s, x).count = s.count + 1
         /\ Sampled(s, x).sum = s.sum + x
         /\ Sampled(s, x).minimum = IF s.count = 0 THEN x ELSE Least(s.minimum, x)
         /\ Sampled(s, x).maximum = IF s.count = 0 THEN x ELSE Most(s.maximum, x)
BY DEF Sampled

LEMMA SampledTyped ==
  ASSUME NEW s \in PulseStatistics, NEW x \in Int
  PROVE  Sampled(s, x) \in PulseStatistics
<1>1. s.count \in Nat /\ s.sum \in Int /\ s.minimum \in Int /\ s.maximum \in Int
  BY StatisticsParts
<1>2. s.count + 1 \in Nat /\ s.sum + x \in Int
  BY <1>1
<1>3. (IF s.count = 0 THEN x ELSE Least(s.minimum, x)) \in Int
  BY <1>1 DEF Least
<1>4. (IF s.count = 0 THEN x ELSE Most(s.maximum, x)) \in Int
  BY <1>1 DEF Most
<1> QED  BY <1>2, <1>3, <1>4, Zenon DEF Sampled, PulseStatistics

\* One more sample keeps the limits around the mean.
LEMMA SampledEnclosed ==
  ASSUME NEW s \in PulseStatistics, NEW x \in Int, Enclosed(s)
  PROVE  Enclosed(Sampled(s, x))
<1> DEFINE n == s.count
           l == IF n = 0 THEN x ELSE Least(s.minimum, x)
           m == IF n = 0 THEN x ELSE Most(s.maximum, x)
<1>1. n \in Nat /\ s.sum \in Int /\ s.minimum \in Int /\ s.maximum \in Int
  BY StatisticsParts
<1>2. s.minimum * n <= s.sum /\ s.sum <= s.maximum * n
  BY DEF Enclosed
<1>3. /\ Sampled(s, x).count = n + 1 /\ Sampled(s, x).sum = s.sum + x
      /\ Sampled(s, x).minimum = l /\ Sampled(s, x).maximum = m
  BY SampledParts
<1>4. l \in Int /\ m \in Int /\ l <= x /\ x <= m
  BY <1>1 DEF Least, Most
<1>5. l * n <= s.sum /\ s.sum <= m * n
  <2>1. CASE n = 0
    <3>1. \A v \in Int : v * n = 0
      BY <2>1
    <3>2. s.minimum * n = 0 /\ s.maximum * n = 0 /\ l * n = 0 /\ m * n = 0
      BY <3>1, <1>1, <1>4, Zenon
    <3> QED  BY <3>2, <1>1, <1>2
  <2>2. CASE n # 0
    <3>1. l <= s.minimum /\ s.maximum <= m
      BY <2>2, <1>1 DEF Least, Most
    <3> HIDE DEF l, m, n
    <3>2. l * n <= s.minimum * n /\ s.maximum * n <= m * n
      BY <3>1, <1>1, <1>4, PulseTimesMonotone
    <3>3. /\ l * n \in Int /\ m * n \in Int
          /\ s.minimum * n \in Int /\ s.maximum * n \in Int
      BY <1>1, <1>4
    <3> QED  BY <3>2, <3>3, <1>1, <1>2
  <2> QED  BY <2>1, <2>2
<1> HIDE DEF l, m, n
<1>6. l * (n + 1) = l * n + l /\ m * (n + 1) = m * n + m
  BY <1>1, <1>4
<1>7. l * n \in Int /\ m * n \in Int
  BY <1>1, <1>4
<1>8. l * (n + 1) <= s.sum + x /\ s.sum + x <= m * (n + 1)
  BY <1>1, <1>4, <1>5, <1>6, <1>7
<1> QED  BY <1>3, <1>8 DEF Enclosed

\* A pulse was stored exactly when there is a time stamp: the time stamp of no
\* pulse is zero, and intervals start with the second.
PulsesInv ==
  /\ pps.count = 0 <=> pps.timestamp = 0
  /\ pps.count = 0 => pps.first = 0 /\ pps.intervals = NoStats

IntervalInv ==
  /\ us \in Nat \ {0}
  /\ (handler.pc = "store" => handler.at \in Nat \ {0})
  /\ pps \in [sequence : Nat, count : Nat, timestamp : Nat, first : Nat,
              intervals : PulseStatistics]
  /\ PulsesInv /\ IntervalsAddUp

LEMMA IntervalInit == PpsInit => IntervalInv
<1> SUFFICES ASSUME PpsInit PROVE IntervalInv
  OBVIOUS
<1>1. /\ us = 1 /\ handler.pc = "idle"
      /\ pps = [sequence |-> 0, count |-> 0, timestamp |-> 0, first |-> 0,
                intervals |-> NoStats]
  BY DEF PpsInit, NoInterrupt
<1>2. NoStats \in PulseStatistics
  BY DEF NoStats, PulseStatistics
<1>3. PulsesInv
  BY <1>1 DEF PulsesInv
<1>4. IntervalsAddUp
  BY <1>1 DEF IntervalsAddUp, NoStats
<1> QED  BY <1>1, <1>2, <1>3, <1>4 DEF IntervalInv

\* Whatever leaves the statistics alone, and the clock and the handler's time.
LEMMA IntervalKept ==
  ASSUME IntervalInv, UNCHANGED pps, us' \in Nat \ {0},
         handler'.pc = "store" => handler'.at \in Nat \ {0}
  PROVE  IntervalInv'
BY DEF IntervalInv, PulsesInv, IntervalsAddUp

LEMMA IntervalStore == IntervalInv /\ StoreEdge => IntervalInv'
<1> SUFFICES ASSUME IntervalInv, StoreEdge PROVE IntervalInv'
  OBVIOUS
<1> DEFINE i == pps.intervals  at == handler.at
<1>1. /\ pps.sequence \in Nat /\ pps.count \in Nat /\ pps.timestamp \in Nat
      /\ pps.first \in Nat /\ i \in PulseStatistics
  BY DEF IntervalInv
<1>2. at \in Nat \ {0} /\ handler'.pc = "record" /\ us' \in Nat \ {0}
  BY DEF IntervalInv, StoreEdge
<1>3. PulsesInv /\ IntervalsAddUp
  BY DEF IntervalInv
<1>4. CASE handler.level = 0
  <2>1. pps' = [pps EXCEPT !.sequence = @ + 1]
    BY <1>4 DEF StoreEdge
  <2>2. /\ pps'.count = pps.count /\ pps'.timestamp = pps.timestamp
        /\ pps'.first = pps.first /\ pps'.intervals = i
    BY <2>1 DEF IntervalInv
  <2>3. pps' \in [sequence : Nat, count : Nat, timestamp : Nat, first : Nat,
                  intervals : PulseStatistics]
    BY <2>1, <1>1 DEF IntervalInv
  <2>4. PulsesInv' /\ IntervalsAddUp'
    BY <2>2, <1>3 DEF PulsesInv, IntervalsAddUp
  <2> QED  BY <2>3, <2>4, <1>2 DEF IntervalInv
<1>5. CASE handler.level # 0
  <2>1. pps' = [sequence |-> pps.sequence + 1, count |-> pps.count + 1,
                timestamp |-> at,
                first |-> IF pps.count = 0 THEN at ELSE pps.first,
                intervals |-> IntervalsAfter(at)]
    BY <1>5 DEF StoreEdge
  <2>2. pps'.count # 0 /\ pps'.timestamp # 0
    BY <2>1, <1>1, <1>2
  <2>3. PulsesInv'
    BY <2>2 DEF PulsesInv
  <2>4. IntervalsAfter(at) \in PulseStatistics /\ IntervalsAddUp'
    <3>1. CASE pps.count = 0
      <4>1. pps.timestamp = 0 /\ i = NoStats
        BY <3>1, <1>3 DEF PulsesInv
      <4>2. IntervalsAfter(at) = NoStats
        BY <4>1 DEF IntervalsAfter
      <4>3. /\ pps'.count = 1 /\ pps'.timestamp = at /\ pps'.first = at
            /\ pps'.intervals = NoStats
        BY <2>1, <3>1, <4>2
      <4>4. IntervalsAddUp'
        BY <4>3, <1>2 DEF IntervalsAddUp, NoStats
      <4> QED  BY <1>1, <4>1, <4>2, <4>4
    <3>2. CASE pps.count # 0
      <4> DEFINE d == at - pps.timestamp
      <4>1. pps.timestamp # 0
        BY <3>2, <1>3 DEF PulsesInv
      <4>2. d \in Int
        BY <1>1, <1>2
      <4>3. IntervalsAfter(at) = Sampled(i, d)
        BY <4>1 DEF IntervalsAfter
      <4>4. Enclosed(i) /\ i.sum = pps.timestamp - pps.first /\ i.count = pps.count - 1
        BY <3>2, <1>3 DEF IntervalsAddUp, Enclosed
      <4>5. Enclosed(Sampled(i, d)) /\ Sampled(i, d) \in PulseStatistics
        BY <1>1, <4>2, <4>4, SampledEnclosed, SampledTyped
      <4>6. Sampled(i, d).count = i.count + 1 /\ Sampled(i, d).sum = i.sum + d
        BY SampledParts
      <4>7. /\ pps'.count = pps.count + 1 /\ pps'.timestamp = at
            /\ pps'.first = pps.first /\ pps'.intervals = Sampled(i, d)
        BY <2>1, <3>2, <4>3
      <4>8. Sampled(i, d).sum = at - pps.first
        BY <4>4, <4>6, <1>1, <1>2
      <4>9. Sampled(i, d).count = (pps.count + 1) - 1 /\ pps.count + 1 # 0
        BY <4>4, <4>6, <1>1
      <4>10. IntervalsAddUp'
        <5> DEFINE s == pps'.intervals
        <5>1. Enclosed(s)
          BY <4>5, <4>7, Zenon
        <5>2. s.sum = pps'.timestamp - pps'.first
          <6> HIDE DEF d, i, at
          <6> QED  BY <4>7, <4>8
        <5>3. s.count = (IF pps'.count = 0 THEN 0 ELSE pps'.count - 1)
          <6>1. s.count = pps'.count - 1 /\ pps'.count # 0
            BY <4>7, <4>9, Zenon
          <6> QED  BY <6>1, Zenon
        <5>4. s.minimum * s.count <= s.sum /\ s.sum <= s.maximum * s.count
          BY <5>1, Zenon DEF Enclosed
        <5> QED  BY <5>2, <5>3, <5>4, Zenon DEF IntervalsAddUp
      <4> QED  BY <4>3, <4>5, <4>10
    <3> QED  BY <3>1, <3>2
  <2>5. pps.sequence + 1 \in Nat /\ pps.count + 1 \in Nat /\ at \in Nat
        /\ (IF pps.count = 0 THEN at ELSE pps.first) \in Nat
    BY <1>1, <1>2
  <2>6. pps' \in [sequence : Nat, count : Nat, timestamp : Nat, first : Nat,
                  intervals : PulseStatistics]
    BY <2>1, <2>4, <2>5, Zenon
  <2> QED  BY <2>3, <2>4, <2>6, <1>2 DEF IntervalInv
<1> QED  BY <1>4, <1>5

LEMMA IntervalStep == IntervalInv /\ [PpsNext]_ppsVars => IntervalInv'
<1> SUFFICES ASSUME IntervalInv, [PpsNext]_ppsVars PROVE IntervalInv'
  OBVIOUS
<1>0. us \in Nat \ {0} /\ (handler.pc = "store" => handler.at \in Nat \ {0})
  BY DEF IntervalInv
<1>1. CASE Rise
  BY <1>0, <1>1, IntervalKept DEF Rise, Software
<1>2. CASE Fall
  BY <1>0, <1>2, IntervalKept DEF Fall, Software
<1>3. CASE PpsTick
  BY <1>0, <1>3, IntervalKept DEF PpsTick, Software
<1>4. CASE EnterHandler
  BY <1>0, <1>4, IntervalKept DEF EnterHandler
<1>5. CASE StoreEdge
  BY <1>5, IntervalStore
<1>6. CASE RecordEdge
  BY <1>0, <1>6, IntervalKept DEF RecordEdge, NoInterrupt
<1>7. CASE CaptureCallback
  BY <1>0, <1>7, IntervalKept DEF CaptureCallback
<1>8. CASE CopyEdges
  BY <1>0, <1>8, IntervalKept DEF CopyEdges
<1>9. CASE CompareCapture
  BY <1>0, <1>9, IntervalKept DEF CompareCapture
<1>10. CASE UNCHANGED ppsVars
  BY <1>0, <1>10, IntervalKept DEF ppsVars
<1> QED
  BY <1>1, <1>2, <1>3, <1>4, <1>5, <1>6, <1>7, <1>8, <1>9, <1>10 DEF PpsNext

LEMMA IntervalInvariant == PpsSpec => []IntervalInv
BY IntervalInit, IntervalStep, PTL DEF PpsSpec

\* The interval statistics of pps_isr_handler add up to the time between the
\* first and the last pulse, and their limits enclose the mean.
THEOREM IntervalsAlwaysAddUp == PpsSpec => []IntervalsAddUp
<1>1. IntervalInv => IntervalsAddUp
  BY DEF IntervalInv
<1> QED  BY <1>1, IntervalInvariant, PTL


-----------------------------------------------------------------------------
(***************************************************************************)
(* The pin and the interrupts it raises.                                   *)
(***************************************************************************)
LEMMA PulseFacts ==
  /\ Width \in Nat /\ MinGap \in Nat /\ Latency \in Nat /\ Window \in Nat
  /\ Width > 0 /\ Width < MinGap /\ Latency < MinGap - Width /\ Window < MinGap - Latency
BY PpsAssumption

HandlerStates == [pc : {"idle", "store", "record"}, at : Int, level : {0, 1}]

\* A pending interrupt is of the pulse that rose last, and a handler that is at
\* work reads the pin and the clock of this pulse.
PinInv ==
  /\ us \in Nat \ {0} /\ edgeDue \in Nat
  /\ pin \in [level : {0, 1}, rose : Int]
  /\ handler \in HandlerStates
  /\ pin.level = 1 => 1 <= pin.rose /\ pin.rose <= us /\ us <= pin.rose + Width
  /\ pin.level = 0 => pin.rose + Width <= us
  /\ edgeDue # 0 =>
       /\ us <= edgeDue + Latency
       /\ edgeDue = pin.rose \/ (pin.level = 0 /\ edgeDue = pin.rose + Width)
  /\ handler.pc # "idle" =>
       /\ handler.at = us
       /\ handler.level = 1 => pin.rose <= us /\ us <= pin.rose + Latency
       /\ handler.level = 0 => pin.level = 0 /\ us <= pin.rose + Width + Latency

LEMMA PinStart == PpsInit => PinInv
<1> SUFFICES ASSUME PpsInit PROVE PinInv
  OBVIOUS
<1>1. /\ us = 1 /\ pin = [level |-> 0, rose |-> 1 - MinGap] /\ edgeDue = 0
      /\ handler = NoInterrupt
  BY DEF PpsInit
<1>2. handler \in HandlerStates /\ handler.pc = "idle"
  BY <1>1 DEF NoInterrupt, HandlerStates
<1>3. pin \in [level : {0, 1}, rose : Int] /\ pin.level = 0 /\ pin.rose = 1 - MinGap
  BY <1>1, PulseFacts
<1> QED  BY <1>1, <1>2, <1>3, PulseFacts DEF PinInv

\* When the pin rises no interrupt is pending and no handler at work.
LEMMA RiseAlone ==
  ASSUME PinInv, Rise
  PROVE  /\ edgeDue = 0 /\ handler.pc = "idle"
         /\ us' = us /\ pin' = [level |-> 1, rose |-> us] /\ edgeDue' = us
         /\ us >= pin.rose + MinGap
<1>1. us >= pin.rose + MinGap /\ pin.level = 0 /\ pin.rose \in Int
  BY DEF PinInv, Rise
<1>2. edgeDue = 0
  BY <1>1, PulseFacts DEF PinInv
<1>3. handler.pc = "idle"
  BY <1>1, PulseFacts DEF PinInv, HandlerStates
<1> QED  BY <1>1, <1>2, <1>3 DEF Rise, Software, RaiseInterrupt

\* Whatever leaves the pin and its interrupt alone.
LEMMA PinKept ==
  PinInv /\ UNCHANGED <<us, pin, edgeDue, handler>> => PinInv'
BY DEF PinInv

LEMMA PinStep == PinInv /\ [PpsNext]_ppsVars => PinInv'
<1> SUFFICES ASSUME PinInv, [PpsNext]_ppsVars PROVE PinInv'
  OBVIOUS
<1>1. CASE Rise
  <2>1. handler' = handler /\ handler.pc = "idle" /\ us \in Nat \ {0}
    BY <1>1, RiseAlone DEF Rise, Software, PinInv
  <2>2. pin' \in [level : {0, 1}, rose : Int] /\ pin'.level = 1 /\ pin'.rose = us
    BY <1>1, <2>1, RiseAlone
  <2>3. us' = us /\ edgeDue' = us
    BY <1>1, RiseAlone
  <2>4. handler' \in HandlerStates
    BY <2>1 DEF PinInv
  <2> QED  BY <2>1, <2>2, <2>3, <2>4, PulseFacts DEF PinInv
<1>2. CASE Fall
  <2>1. /\ pin.level = 1 /\ us = pin.rose + Width /\ us' = us /\ handler' = handler
        /\ edgeDue' = IF edgeDue = 0 THEN us ELSE edgeDue
        /\ pin' = [pin EXCEPT !.level = 0]
    BY <1>2 DEF Fall, Software, RaiseInterrupt
  <2>2. pin' \in [level : {0, 1}, rose : Int] /\ pin'.level = 0 /\ pin'.rose = pin.rose
    BY <2>1 DEF PinInv
  <2>3. handler.pc # "idle" => handler.level # 0
    BY <2>1 DEF PinInv
  <2> QED  BY <2>1, <2>2, <2>3, PulseFacts DEF PinInv
<1>3. CASE PpsTick
  <2>1. /\ us' = us + 1 /\ pin' = pin /\ edgeDue' = edgeDue /\ handler' = handler
        /\ handler.pc = "idle" /\ (pin.level = 1 => us < pin.rose + Width)
        /\ (edgeDue # 0 => us < edgeDue + Latency)
    BY <1>3 DEF PpsTick, Software, InTime
  <2> QED  BY <2>1, PulseFacts DEF PinInv
<1>4. CASE EnterHandler
  <2>1. /\ handler' = [pc |-> "store", at |-> us, level |-> pin.level]
        /\ edgeDue # 0 /\ edgeDue' = 0 /\ us' = us /\ pin' = pin
    BY <1>4 DEF EnterHandler
  <2>2. pin.level \in {0, 1} /\ pin.rose \in Int
    BY DEF PinInv
  <2>3. handler' \in HandlerStates
    BY <2>1, <2>2 DEF HandlerStates, PinInv
  <2>4. handler'.at = us /\ handler'.level = pin.level
    BY <2>1
  <2> QED  BY <2>1, <2>2, <2>3, <2>4, PulseFacts DEF PinInv
<1>5. CASE StoreEdge
  <2>1. /\ handler.pc = "store" /\ handler' = [handler EXCEPT !.pc = "record"]
        /\ us' = us /\ pin' = pin /\ edgeDue' = edgeDue
    BY <1>5 DEF StoreEdge
  <2>2. /\ handler' \in HandlerStates /\ handler'.at = handler.at
        /\ handler'.level = handler.level
    BY <2>1 DEF PinInv, HandlerStates
  <2> QED  BY <2>1, <2>2 DEF PinInv
<1>6. CASE RecordEdge
  <2>1. handler' \in HandlerStates /\ handler'.pc = "idle"
    BY <1>6 DEF RecordEdge, NoInterrupt, HandlerStates
  <2>2. us' = us /\ pin' = pin /\ edgeDue' = edgeDue
    BY <1>6 DEF RecordEdge
  <2> QED  BY <2>1, <2>2 DEF PinInv
<1>7. CASE CaptureCallback \/ CopyEdges \/ CompareCapture
  BY <1>7, PinKept DEF CaptureCallback, CopyEdges, CompareCapture
<1>8. CASE UNCHANGED ppsVars
  BY <1>8, PinKept DEF ppsVars
<1> QED
  BY <1>1, <1>2, <1>3, <1>4, <1>5, <1>6, <1>7, <1>8 DEF PpsNext

-----------------------------------------------------------------------------
(***************************************************************************)
(* The width of a pulse.                                                   *)
(***************************************************************************)
EdgeStates == [rising : Int, risingSequence : Nat, falling : Int]

\* The rising edge of the pulse that rose last is recorded.
RisingRecorded == pin.rose <= edges.rising /\ edges.rising <= pin.rose + Latency

\* As long as every interrupt was served before the pin changed again, the edges
\* of a pulse are recorded one after the other.
WidthInv ==
  /\ edges \in EdgeStates
  /\ ~late =>
       /\ WidthOfOnePulse
       /\ pin.level = 1 => edges.falling < pin.rose
       /\ edges.falling <= pin.rose + Width + Latency \/ edges.falling = 0
       /\ \/ RisingRecorded \/ edgeDue \in {0, pin.rose}
          \/ handler.pc # "idle" /\ handler.level = 1
       /\ pin.level = 1 /\ edgeDue = 0 =>
            RisingRecorded \/ (handler.pc # "idle" /\ handler.level = 1)
       /\ handler.pc # "idle" /\ handler.level = 1 => edges.falling < pin.rose
       /\ handler.pc # "idle" /\ handler.level = 0 => RisingRecorded

LEMMA WidthStart == PpsInit => WidthInv
<1> SUFFICES ASSUME PpsInit PROVE WidthInv
  OBVIOUS
<1>1. /\ edges = [rising |-> 0, risingSequence |-> 0, falling |-> 0] /\ edgeDue = 0
      /\ pin.level = 0 /\ handler.pc = "idle"
  BY DEF PpsInit, NoInterrupt
<1>2. edges \in EdgeStates /\ edges.falling = 0 /\ edges.rising = 0
  BY <1>1 DEF EdgeStates
<1>3. WidthOfOnePulse
  BY <1>2 DEF WidthOfOnePulse, WidthValid
<1> QED  BY <1>1, <1>2, <1>3 DEF WidthInv

\* Whatever leaves the pin, its interrupt and the recorded edges alone.
LEMMA WidthKept ==
  WidthInv /\ UNCHANGED <<pin, edgeDue, handler, edges, late>> => WidthInv'
BY DEF WidthInv, RisingRecorded, WidthOfOnePulse, WidthValid, PulseWidth

LEMMA WidthRecord ==
  ASSUME PinInv, IntervalInv, WidthInv, RecordEdge
  PROVE  WidthInv'
<1>1. /\ handler.pc # "idle" /\ handler'.pc = "idle"
      /\ UNCHANGED <<us, pin, edgeDue, late>>
      /\ edges' = IF handler.level = 0 THEN [edges EXCEPT !.falling = handler.at]
                  ELSE [edges EXCEPT !.rising = handler.at, !.risingSequence = pps.sequence]
  BY DEF RecordEdge, NoInterrupt
<1>2. /\ us \in Nat /\ handler.at = us /\ handler.level \in {0, 1} /\ pps.sequence \in Nat
      /\ edges \in EdgeStates /\ edges.rising \in Int /\ edges.falling \in Int
      /\ pin.rose \in Int
  BY <1>1 DEF PinInv, HandlerStates, IntervalInv, WidthInv, EdgeStates
<1>3. CASE handler.level = 0
  <2>1. /\ edges' \in EdgeStates /\ edges'.falling = us /\ edges'.rising = edges.rising
    BY <1>1, <1>2, <1>3 DEF EdgeStates
  <2>2. pin.level = 0 /\ us <= pin.rose + Width + Latency /\ pin.rose + Width <= us
    BY <1>1, <1>3 DEF PinInv
  <2>3. ASSUME ~late PROVE WidthOfOnePulse' /\ RisingRecorded'
    <3>1. RisingRecorded
      BY <1>1, <1>3, <2>3 DEF WidthInv
    <3>2. us - edges.rising \in Width - Latency .. Width + Latency
      BY <1>2, <2>2, <3>1, PulseFacts DEF RisingRecorded
    <3> QED  BY <1>1, <2>1, <3>1, <3>2 DEF RisingRecorded, WidthOfOnePulse, PulseWidth
  <2> QED  BY <1>1, <2>1, <2>2, <2>3 DEF WidthInv
<1>4. CASE handler.level = 1
  <2>1. /\ edges' \in EdgeStates /\ edges'.falling = edges.falling /\ edges'.rising = us
    <3>1. edges' = [edges EXCEPT !.rising = us, !.risingSequence = pps.sequence]
      BY <1>1, <1>2, <1>4
    <3> DEFINE n == pps.sequence
    <3>2. us \in Int /\ n \in Nat /\ edges \in EdgeStates
      BY <1>2
    <3>3. edges' = [edges EXCEPT !.rising = us, !.risingSequence = n]
      BY <3>1
    <3> HIDE DEF n
    <3> QED  BY <3>2, <3>3 DEF EdgeStates
  <2>2. pin.rose <= us /\ us <= pin.rose + Latency
    BY <1>1, <1>4 DEF PinInv
  <2>3. RisingRecorded'
    BY <1>1, <2>1, <2>2 DEF RisingRecorded
  <2>4. ASSUME ~late PROVE WidthOfOnePulse' /\ edges.falling < pin.rose
    <3>1. edges.falling < pin.rose
      BY <1>1, <1>4, <2>4 DEF WidthInv
    <3>2. ~(edges'.falling >= edges'.rising)
      BY <1>2, <2>1, <2>2, <3>1
    <3> QED  BY <3>1, <3>2 DEF WidthOfOnePulse, WidthValid
  <2> QED  BY <1>1, <2>1, <2>3, <2>4 DEF WidthInv
<1> QED  BY <1>2, <1>3, <1>4

LEMMA WidthStep == PinInv /\ IntervalInv /\ WidthInv /\ [PpsNext]_ppsVars => WidthInv'
<1> SUFFICES ASSUME PinInv, IntervalInv, WidthInv, [PpsNext]_ppsVars PROVE WidthInv'
  OBVIOUS
<1> USE DEF WidthOfOnePulse, WidthValid, PulseWidth
<1>1. CASE Rise
  <2>1. /\ edges' = edges /\ late' = late /\ handler' = handler /\ handler.pc = "idle"
        /\ pin'.level = 1 /\ pin'.rose = us /\ edgeDue' = us /\ us >= pin.rose + MinGap
        /\ us \in Nat \ {0} /\ pin.rose \in Int /\ edges.falling \in Int
    BY <1>1, RiseAlone DEF Rise, Software, PinInv, WidthInv, EdgeStates
  <2>2. ~late => edges.falling < us
    BY <2>1, PulseFacts DEF WidthInv
  <2>3. us <= us + Width + Latency
    BY <2>1, PulseFacts
  <2>4. ~late => edges.falling <= us + Width + Latency
    BY <2>1, <2>2, <2>3, PulseFacts
  <2> QED  BY <2>1, <2>2, <2>4 DEF WidthInv
<1>2. CASE Fall
  <2>1. /\ pin.level = 1 /\ us = pin.rose + Width /\ pin.rose >= 1 /\ pin.rose \in Int
        /\ UNCHANGED <<handler, edges, late>>
        /\ edgeDue' = IF edgeDue = 0 THEN us ELSE edgeDue
    BY <1>2 DEF Fall, Software, RaiseInterrupt, PinInv
  <2>2. pin'.level = 0 /\ pin'.rose = pin.rose
    BY <1>2 DEF Fall, PinInv
  <2>3. edges.falling \in Int /\ (edgeDue # 0 => edgeDue = pin.rose)
    BY <2>1 DEF WidthInv, EdgeStates, PinInv
  <2>4. ~late => edges.falling <= pin.rose + Width + Latency
    BY <2>1, <2>3, PulseFacts DEF WidthInv
  <2>5. ~late => \/ RisingRecorded' \/ edgeDue' = pin.rose
                 \/ handler.pc # "idle" /\ handler.level = 1
    BY <2>1, <2>2, <2>3 DEF WidthInv, RisingRecorded
  <2>6. handler.pc # "idle" => handler.level # 0
    BY <2>1 DEF PinInv
  <2> QED  BY <2>1, <2>2, <2>4, <2>5, <2>6 DEF WidthInv
<1>3. CASE PpsTick
  BY <1>3, WidthKept DEF PpsTick, Software
<1>4. CASE EnterHandler
  <2>1. /\ handler' = [pc |-> "store", at |-> us, level |-> pin.level]
        /\ edgeDue # 0 /\ edgeDue' = 0 /\ UNCHANGED <<us, pin, edges>>
        /\ handler.pc = "idle"
        /\ late' = (late \/ (pin.level = 0 /\ edgeDue < pin.rose + Width))
    BY <1>4 DEF EnterHandler
  <2>2. handler'.pc = "store" /\ handler'.level = pin.level
    BY <2>1
  <2>3. CASE pin.level = 1
    <3>1. ~late' => ~late
      BY <2>1
    <3> QED  BY <2>1, <2>2, <2>3, <3>1 DEF WidthInv, RisingRecorded
  <2>4. CASE pin.level = 0
    <3>1. ASSUME ~late' PROVE ~late /\ RisingRecorded
      <4>1. ~late /\ ~(edgeDue < pin.rose + Width)
        BY <2>1, <2>4, <3>1
      <4>2. edgeDue # pin.rose
        BY <4>1, PulseFacts DEF PinInv
      <4> QED  BY <2>1, <4>1, <4>2 DEF WidthInv
    <3> QED  BY <2>1, <2>2, <2>4, <3>1 DEF WidthInv, RisingRecorded
  <2> QED  BY <2>3, <2>4 DEF PinInv
<1>5. CASE StoreEdge
  <2>1. /\ handler.pc = "store" /\ handler' = [handler EXCEPT !.pc = "record"]
        /\ UNCHANGED <<pin, edgeDue, edges, late>>
    BY <1>5 DEF StoreEdge
  <2>2. handler'.pc # "idle" /\ handler.pc # "idle" /\ handler'.level = handler.level
    BY <2>1 DEF PinInv, HandlerStates
  <2> QED  BY <2>1, <2>2 DEF WidthInv, RisingRecorded
<1>6. CASE RecordEdge
  BY <1>6, WidthRecord
<1>7. CASE CaptureCallback \/ CopyEdges \/ CompareCapture
  BY <1>7, WidthKept DEF CaptureCallback, CopyEdges, CompareCapture
<1>8. CASE UNCHANGED ppsVars
  BY <1>8, WidthKept DEF ppsVars
<1> QED
  BY <1>1, <1>2, <1>3, <1>4, <1>5, <1>6, <1>7, <1>8 DEF PpsNext

LEMMA PinInvariant == PpsSpec => []PinInv
BY PinStart, PinStep, PTL DEF PpsSpec

LEMMA WidthInvariant == PpsSpec => []WidthInv
BY PinInvariant, IntervalInvariant, WidthStart, WidthStep, PTL DEF PpsSpec

\* The pulse width on the status page is that of one pulse, within the latency of
\* the handler (pps_diagnostics_record_edge_from_isr, pulse_width_us).
THEOREM WidthAlwaysOfOnePulse == PpsSpec => []WidthOfOnePulse
<1>1. WidthInv => WidthOfOnePulse
  BY DEF WidthInv, WidthOfOnePulse
<1> QED  BY <1>1, WidthInvariant, PTL

-----------------------------------------------------------------------------
(***************************************************************************)
(* The difference between interrupt and capture.                           *)
(***************************************************************************)

\* The captures that are at hand, by the time of their pulse.
Captures ==
  (IF capture.sequence > 0 THEN {captured} ELSE {})
    \cup (IF latch.due # 0 THEN {latch.due} ELSE {})

\* Two pulses are the same one or apart.
SameOrApart(a, b) == a = b \/ a >= b + MinGap \/ b >= a + MinGap

\* The timestamp of the interrupt of a pulse.
OfPulse(at, last, captures) ==
  \E rose \in Int :
    /\ rose <= last /\ rose <= at /\ at <= rose + Latency
    /\ \A c \in captures : SameOrApart(c, rose)

LoggerStates == [pc : {"poll", "capture"}, sequence : Int, rising : Int]

DeltaInv ==
  /\ edges \in EdgeStates /\ stats \in PulseStatistics /\ logger \in LoggerStates
  /\ \A c \in Captures : c \in Int /\ (c = pin.rose \/ c <= pin.rose - MinGap)
  /\ edges.risingSequence # 0 => OfPulse(edges.rising, pin.rose, Captures)
  /\ logger.pc = "capture" => OfPulse(logger.rising, pin.rose, Captures)
  /\ DeltasOfOnePulse

LEMMA DeltaStart == PpsInit => DeltaInv
<1> SUFFICES ASSUME PpsInit PROVE DeltaInv
  OBVIOUS
<1>1. /\ edges = [rising |-> 0, risingSequence |-> 0, falling |-> 0]
      /\ logger = Polling /\ stats = NoStats /\ latch.due = 0 /\ capture.sequence = 0
  BY DEF PpsInit, NoCapture
<1>2. edges \in EdgeStates /\ edges.risingSequence = 0
  BY <1>1 DEF EdgeStates
<1>3. stats \in PulseStatistics /\ stats.count = 0
  BY <1>1 DEF NoStats, PulseStatistics
<1>4. logger \in LoggerStates /\ logger.pc = "poll"
  BY <1>1 DEF Polling, LoggerStates
<1>5. Captures = {}
  BY <1>1 DEF Captures
<1>6. DeltasOfOnePulse
  BY <1>3 DEF DeltasOfOnePulse
<1> QED  BY <1>2, <1>3, <1>4, <1>5, <1>6, Zenon DEF DeltaInv

\* A pulse that has risen stays apart from every later one.
LEMMA OfPulseKept ==
  ASSUME NEW at \in Int, NEW last \in Int, NEW captures, OfPulse(at, last, captures),
         NEW last2 \in Int, NEW captures2,
         \/ last2 = last /\ captures2 \subseteq captures
         \/ last2 >= last + MinGap /\ captures2 \subseteq captures \cup {last2}
  PROVE  OfPulse(at, last2, captures2)
<1>1. PICK rose \in Int :
        /\ rose <= last /\ rose <= at /\ at <= rose + Latency
        /\ \A c \in captures : SameOrApart(c, rose)
  BY DEF OfPulse
<1>2. rose <= last2
  BY <1>1, PulseFacts
<1>3. ASSUME NEW c \in captures2 PROVE SameOrApart(c, rose)
  <2>1. CASE c \in captures
    BY <1>1, <2>1
  <2>2. CASE c = last2 /\ c \notin captures
    BY <1>1, <2>2, PulseFacts DEF SameOrApart
  <2> QED  BY <2>1, <2>2
<1> QED  BY <1>1, <1>2, <1>3, Zenon DEF OfPulse

\* Whatever leaves the time stamps alone, and takes no capture.
LEMMA DeltaKept ==
  ASSUME PinInv, DeltaInv, UNCHANGED <<edges, stats, logger, wrapped>>,
         pin'.rose = pin.rose, Captures' \subseteq Captures
  PROVE  DeltaInv'
<1>1. edges.rising \in Int /\ logger.rising \in Int /\ pin.rose \in Int
  BY DEF DeltaInv, EdgeStates, LoggerStates, PinInv
<1>2. edges'.risingSequence # 0 => OfPulse(edges'.rising, pin'.rose, Captures')
  BY <1>1, OfPulseKept DEF DeltaInv
<1>3. logger'.pc = "capture" => OfPulse(logger'.rising, pin'.rose, Captures')
  BY <1>1, OfPulseKept DEF DeltaInv
<1>4. \A c \in Captures' : c \in Int /\ (c = pin'.rose \/ c <= pin'.rose - MinGap)
  BY DEF DeltaInv
<1>5. DeltasOfOnePulse'
  BY DEF DeltaInv, DeltasOfOnePulse
<1>6. /\ edges' \in EdgeStates /\ stats' \in PulseStatistics /\ logger' \in LoggerStates
  BY DEF DeltaInv
<1> QED  BY <1>2, <1>3, <1>4, <1>5, <1>6, Zenon DEF DeltaInv

LEMMA DeltaRise ==
  ASSUME PinInv, DeltaInv, Rise
  PROVE  DeltaInv'
<1>1. /\ pin'.rose = us /\ us >= pin.rose + MinGap /\ us \in Int /\ pin.rose \in Int
      /\ UNCHANGED <<edges, stats, logger, wrapped, capture, captured>>
  BY RiseAlone DEF Rise, Software, PinInv
<1>2. Captures' \subseteq Captures \cup {us}
  <2>1. latch' = latch \/ latch'.due = us
    BY DEF Rise
  <2> QED  BY <1>1, <2>1 DEF Captures
<1>3. edges.rising \in Int /\ logger.rising \in Int
  BY DEF DeltaInv, EdgeStates, LoggerStates
<1>4. edges'.risingSequence # 0 => OfPulse(edges'.rising, pin'.rose, Captures')
  BY <1>1, <1>2, <1>3, OfPulseKept DEF DeltaInv
<1>5. logger'.pc = "capture" => OfPulse(logger'.rising, pin'.rose, Captures')
  BY <1>1, <1>2, <1>3, OfPulseKept DEF DeltaInv
<1>6. ASSUME NEW c \in Captures' PROVE c \in Int /\ (c = pin'.rose \/ c <= pin'.rose - MinGap)
  <2>1. CASE c = us
    BY <1>1, <2>1
  <2>2. CASE c \in Captures
    <3>1. c \in Int /\ (c = pin.rose \/ c <= pin.rose - MinGap)
      BY <2>2 DEF DeltaInv
    <3> QED  BY <1>1, <3>1, PulseFacts
  <2> QED  BY <1>2, <2>1, <2>2
<1>7. DeltasOfOnePulse'
  BY <1>1 DEF DeltaInv, DeltasOfOnePulse
<1>8. edges' \in EdgeStates /\ stats' \in PulseStatistics /\ logger' \in LoggerStates
  BY <1>1 DEF DeltaInv
<1> QED  BY <1>1, <1>4, <1>5, <1>6, <1>7, <1>8, Zenon DEF DeltaInv

LEMMA DeltaRecord ==
  ASSUME PinInv, IntervalInv, DeltaInv, RecordEdge
  PROVE  DeltaInv'
<1>1. /\ handler.pc # "idle" /\ UNCHANGED <<us, pin, latch, capture, captured, stats, logger, wrapped>>
      /\ edges' = IF handler.level = 0 THEN [edges EXCEPT !.falling = handler.at]
                  ELSE [edges EXCEPT !.rising = handler.at, !.risingSequence = pps.sequence]
  BY DEF RecordEdge
<1> DEFINE n == pps.sequence
<1>2. /\ us \in Int /\ handler.at = us /\ handler.level \in {0, 1} /\ n \in Nat
      /\ edges \in EdgeStates /\ pin.rose \in Int
  BY <1>1 DEF PinInv, HandlerStates, IntervalInv, DeltaInv
<1>3. Captures' = Captures
  BY <1>1 DEF Captures
<1>4. /\ edges' \in EdgeStates
      /\ \/ edges'.rising = edges.rising /\ edges'.risingSequence = edges.risingSequence
         \/ handler.level = 1 /\ edges'.rising = us
  <2>1. CASE handler.level = 0
    <3>1. edges' = [edges EXCEPT !.falling = us]
      BY <1>1, <1>2, <2>1
    <3> QED  BY <1>2, <3>1 DEF EdgeStates
  <2>2. CASE handler.level = 1
    <3>1. edges' = [edges EXCEPT !.rising = us, !.risingSequence = n]
      BY <1>1, <1>2, <2>2
    <3>2. us \in Int /\ n \in Nat /\ edges \in EdgeStates
      BY <1>2
    <3> HIDE DEF n
    <3> QED  BY <2>2, <3>1, <3>2 DEF EdgeStates
  <2> QED  BY <1>2, <2>1, <2>2
<1>5. edges'.risingSequence # 0 => OfPulse(edges'.rising, pin'.rose, Captures')
  <2>1. CASE edges'.rising = edges.rising /\ edges'.risingSequence = edges.risingSequence
    <3>1. edges.risingSequence # 0 => OfPulse(edges.rising, pin.rose, Captures)
      BY DEF DeltaInv
    <3> QED  BY <1>1, <1>3, <2>1, <3>1
  <2>2. CASE handler.level = 1 /\ edges'.rising = us
    <3>1. pin.rose <= us /\ us <= pin.rose + Latency
      BY <1>1, <2>2 DEF PinInv
    <3>2. \A c \in Captures : SameOrApart(c, pin.rose)
      BY <1>2, PulseFacts DEF DeltaInv, SameOrApart
    <3>3. pin.rose <= pin.rose
      BY <1>2
    <3>4. OfPulse(us, pin.rose, Captures)
      BY <1>2, <3>1, <3>2, <3>3 DEF OfPulse
    <3> QED  BY <1>1, <1>3, <2>2, <3>4
  <2> QED  BY <1>4, <2>1, <2>2
<1>6. logger'.pc = "capture" => OfPulse(logger'.rising, pin'.rose, Captures')
  BY <1>1, <1>3 DEF DeltaInv
<1>7. DeltasOfOnePulse'
  BY <1>1 DEF DeltaInv, DeltasOfOnePulse
<1>8. \A c \in Captures' : c \in Int /\ (c = pin'.rose \/ c <= pin'.rose - MinGap)
  BY <1>1, <1>3 DEF DeltaInv
<1>9. stats' \in PulseStatistics /\ logger' \in LoggerStates
  BY <1>1 DEF DeltaInv
<1> QED  BY <1>4, <1>5, <1>6, <1>7, <1>8, <1>9, Zenon DEF DeltaInv

LEMMA DeltaCopy ==
  ASSUME PinInv, DeltaInv, CopyEdges
  PROVE  DeltaInv'
<1>1. /\ edges.risingSequence # 0
      /\ logger' = [pc |-> "capture", sequence |-> edges.risingSequence, rising |-> edges.rising]
      /\ UNCHANGED <<us, pin, latch, capture, captured, edges, stats, wrapped>>
  BY DEF CopyEdges
<1>2. Captures' = Captures
  BY <1>1 DEF Captures
<1>3. logger' \in LoggerStates /\ logger'.rising = edges.rising
  BY <1>1 DEF DeltaInv, EdgeStates, LoggerStates
<1>4. /\ edges'.risingSequence # 0 => OfPulse(edges'.rising, pin'.rose, Captures')
      /\ logger'.pc = "capture" => OfPulse(logger'.rising, pin'.rose, Captures')
  BY <1>1, <1>2, <1>3 DEF DeltaInv
<1>5. DeltasOfOnePulse'
  BY <1>1 DEF DeltaInv, DeltasOfOnePulse
<1>6. /\ edges' \in EdgeStates /\ stats' \in PulseStatistics
      /\ \A c \in Captures' : c \in Int /\ (c = pin'.rose \/ c <= pin'.rose - MinGap)
  BY <1>1, <1>2 DEF DeltaInv
<1> QED  BY <1>3, <1>4, <1>5, <1>6, Zenon DEF DeltaInv

\* An edge and a capture that match are of one pulse.
LEMMA MatchIsOfOnePulse ==
  ASSUME PinInv, CounterInv, DeltaInv, ~wrapped, logger.pc = "capture",
         capture.sequence # 0, Matches
  PROVE  Delta \in 0 .. Latency
<1>1. captured \in Captures /\ Converted = captured /\ captured \in Int
  BY DEF CounterInv, CaptureInv, Captures
<1>2. PICK rose \in Int :
        /\ rose <= logger.rising /\ logger.rising <= rose + Latency
        /\ SameOrApart(captured, rose)
  BY <1>1 DEF DeltaInv, OfPulse
<1>3. logger.rising \in Int /\ Delta = logger.rising - captured
  BY <1>1 DEF DeltaInv, LoggerStates, Delta
<1>4. captured = rose
  BY <1>1, <1>2, <1>3, PulseFacts DEF Matches, SameOrApart
<1> QED  BY <1>1, <1>2, <1>3, <1>4, PulseFacts

LEMMA DeltaCompare ==
  ASSUME PinInv, CounterInv, DeltaInv, CompareCapture
  PROVE  DeltaInv'
<1>1. /\ logger.pc = "capture" /\ logger' = Polling
      /\ UNCHANGED <<us, pin, latch, capture, captured, edges, wrapped>>
  BY DEF CompareCapture
<1>2. Captures' = Captures
  BY <1>1 DEF Captures
<1>3. logger' \in LoggerStates /\ logger'.pc = "poll"
  BY <1>1 DEF Polling, LoggerStates
<1>4. edges'.risingSequence # 0 => OfPulse(edges'.rising, pin'.rose, Captures')
  BY <1>1, <1>2 DEF DeltaInv
<1>5. stats \in PulseStatistics /\ Delta \in Int
  BY DEF DeltaInv, Delta, Converted, LoggerStates, CounterInv, CaptureInv
<1>6. stats' \in PulseStatistics /\ DeltasOfOnePulse'
  <2>1. CASE stats' = stats
    BY <1>1, <2>1 DEF DeltaInv, DeltasOfOnePulse
  <2>2. CASE capture.sequence # 0 /\ Matches /\ stats' = Sampled(stats, Delta)
    <3>1. stats' \in PulseStatistics
      BY <1>5, <2>2, SampledTyped
    <3>2. ASSUME ~wrapped PROVE 0 <= stats'.minimum /\ stats'.maximum <= Latency
      <4>1. Delta \in 0 .. Latency
        BY <1>1, <2>2, <3>2, MatchIsOfOnePulse
      <4>2. /\ stats'.minimum = IF stats.count = 0 THEN Delta ELSE Least(stats.minimum, Delta)
            /\ stats'.maximum = IF stats.count = 0 THEN Delta ELSE Most(stats.maximum, Delta)
        BY <2>2, SampledParts
      <4>3. stats.count \in Nat /\ stats.minimum \in Int /\ stats.maximum \in Int
        BY <1>5, StatisticsParts
      <4>4. stats.count # 0 => 0 <= stats.minimum /\ stats.maximum <= Latency
        BY <3>2, <4>3 DEF DeltaInv, DeltasOfOnePulse
      <4> HIDE DEF Delta
      <4> QED  BY <4>1, <4>2, <4>3, <4>4, PulseFacts DEF Least, Most
    <3> QED  BY <1>1, <3>1, <3>2 DEF DeltasOfOnePulse
  <2> QED  BY <2>1, <2>2, Zenon DEF CompareCapture
<1>7. edges' \in EdgeStates /\ \A c \in Captures' : c \in Int /\ (c = pin'.rose \/ c <= pin'.rose - MinGap)
  BY <1>1, <1>2 DEF DeltaInv
<1> QED  BY <1>3, <1>4, <1>6, <1>7, Zenon DEF DeltaInv

LEMMA DeltaStep ==
  PinInv /\ IntervalInv /\ CounterInv /\ DeltaInv /\ [PpsNext]_ppsVars => DeltaInv'
<1> SUFFICES ASSUME PinInv, IntervalInv, CounterInv, DeltaInv, [PpsNext]_ppsVars
             PROVE  DeltaInv'
  OBVIOUS
<1>1. CASE Rise
  BY <1>1, DeltaRise
<1>2. CASE Fall
  <2>1. pin'.rose = pin.rose
    BY <1>2 DEF Fall, PinInv
  <2>2. UNCHANGED <<edges, stats, logger, wrapped, latch, capture, captured>>
    BY <1>2 DEF Fall, Software
  <2>3. Captures' = Captures
    BY <2>2 DEF Captures
  <2> QED  BY <2>1, <2>2, <2>3, DeltaKept
<1>3. CASE PpsTick \/ EnterHandler \/ StoreEdge \/ UNCHANGED ppsVars
  <2>1. UNCHANGED <<pin, edges, stats, logger, wrapped, latch, capture, captured>>
    BY <1>3 DEF PpsTick, Software, EnterHandler, StoreEdge, ppsVars
  <2>2. Captures' = Captures
    BY <2>1 DEF Captures
  <2> QED  BY <2>1, <2>2, DeltaKept
<1>4. CASE CaptureCallback
  <2>1. /\ UNCHANGED <<pin, edges, stats, logger>>
        /\ latch.due # 0 /\ captured' = latch.due /\ latch'.due = 0
        /\ wrapped' = (wrapped \/ latch.due - captured >= CapMod)
    BY <1>4 DEF CaptureCallback, NoCapture
  <2>2. Captures' \subseteq Captures
    BY <2>1 DEF Captures
  <2>3. ~wrapped' => ~wrapped
    BY <2>1
  <2>4. edges.rising \in Int /\ logger.rising \in Int /\ pin.rose \in Int
    BY DEF DeltaInv, EdgeStates, LoggerStates, PinInv
  <2>5. edges'.risingSequence # 0 => OfPulse(edges'.rising, pin'.rose, Captures')
    BY <2>1, <2>2, <2>4, OfPulseKept DEF DeltaInv
  <2>6. logger'.pc = "capture" => OfPulse(logger'.rising, pin'.rose, Captures')
    BY <2>1, <2>2, <2>4, OfPulseKept DEF DeltaInv
  <2>7. DeltasOfOnePulse'
    BY <2>1, <2>3 DEF DeltaInv, DeltasOfOnePulse
  <2>8. /\ edges' \in EdgeStates /\ stats' \in PulseStatistics /\ logger' \in LoggerStates
        /\ \A c \in Captures' : c \in Int /\ (c = pin'.rose \/ c <= pin'.rose - MinGap)
    BY <2>1, <2>2 DEF DeltaInv
  <2> QED  BY <2>5, <2>6, <2>7, <2>8, Zenon DEF DeltaInv
<1>5. CASE RecordEdge
  BY <1>5, DeltaRecord
<1>6. CASE CopyEdges
  BY <1>6, DeltaCopy
<1>7. CASE CompareCapture
  BY <1>7, DeltaCompare
<1> QED
  BY <1>1, <1>2, <1>3, <1>4, <1>5, <1>6, <1>7 DEF PpsNext

\* The difference between interrupt and capture is only ever taken between edge and
\* capture of the same pulse (pps_diagnostics_log_latest), whichever interrupt is
\* the later one and however slow the main task is.
THEOREM DeltasAlwaysOfOnePulse == PpsSpec => []DeltasOfOnePulse
<1>1. PpsSpec => []DeltaInv
  BY CounterInvariant, PinInvariant, IntervalInvariant, DeltaStart, DeltaStep, PTL DEF PpsSpec
<1>2. DeltaInv => DeltasOfOnePulse
  BY DEF DeltaInv
<1> QED  BY <1>1, <1>2, PTL
=============================================================================
