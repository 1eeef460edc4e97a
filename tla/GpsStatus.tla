------------------------------ MODULE GpsStatus ------------------------------
(***************************************************************************)
(* What the status page, the JSON status and the panel show of the         *)
(* receiver (gps_state and timing_stats of nmea_timing.c).  The main task  *)
(* writes while it processes a line, in several critical sections; readers *)
(* copy everything under one lock and look at the time afterwards.         *)
(*                                                                         *)
(* Of a line only what decides is kept: its type, whether the checksum is  *)
(* right, whether quality and satellites can be read, and what it says.    *)
(* How fields are read is in NmeaFields, what a line does to the timebase  *)
(* in Timebase.                                                            *)
(***************************************************************************)
EXTENDS Integers, FiniteSets, FiniteSetsExt

CONSTANTS
  Types,     \* the selected sentences: GGA, RMC and ZDA
  Stale,     \* NMEA_STATUS_STALE_US
  MaxDelay,  \* NMEA_MAX_VALID_DELAY_US
  Lag,       \* bound: a line is processed this late at most
  Gap,       \* two pulses are at least this far apart
  MaxTime,   \* bound: the last tick
  MaxLines   \* bound: lines that are processed

ASSUME StatusAssumption ==
  /\ {Stale, MaxDelay, Lag, Gap, MaxTime, MaxLines} \subseteq Nat
  /\ Gap > 0
  /\ "GGA" \in Types

VARIABLES
  uptime,  \* esp_timer_get_time()
  pulse,   \* pps_count and pps_timestamp_us, as pps_get_snapshot copies them
  gps,     \* gps_state; of numbers, which line they are from
  delays,  \* timing_stats
  task,    \* the main task in process_line: its place, the line, the PPS copy
  reader,  \* a reader in nmea_timing_get_snapshot, and what it was given
  pulses,  \* history: when the pulses came
  told,    \* history: the GGA lines that gps may tell of
  exact    \* history: the sums of delays, taken from the pulses as they came

statusVars == <<uptime, pulse, gps, delays, task, reader, pulses, told, exact>>

NoLine == [id |-> 0, type |-> "GGA", arrival |-> 0, intact |-> FALSE,
           legible |-> FALSE, fix |-> FALSE, place |-> FALSE]
NoDelays == [count |-> 0, sum |-> 0, minimum |-> 0, maximum |-> 0]
NoFix == [fix |-> FALSE, position |-> FALSE, sample |-> 0, coordinates |-> 0, last |-> 0]
NoReader == [pc |-> "idle", gps |-> NoFix, told |-> {}, now |-> 0]
NoPulse == [count |-> 0, at |-> 0]

StatusInit ==
  /\ uptime = 1 /\ pulse = NoPulse /\ pulses = {}
  /\ gps = NoFix /\ delays = [t \in Types |-> NoDelays]
  /\ task = [pc |-> "idle", line |-> NoLine, pulse |-> NoPulse]
  /\ reader = NoReader
  /\ told = {} /\ exact = [t \in Types |-> 0]

-----------------------------------------------------------------------------
StatusTick ==
  /\ uptime < MaxTime
  /\ uptime' = uptime + 1
  /\ UNCHANGED <<pulse, gps, delays, task, reader, pulses, told, exact>>

\* The PPS interrupt; its latency is in Pps.
Edge ==
  /\ pulse.count = 0 \/ uptime - pulse.at >= Gap
  /\ pulse' = [count |-> pulse.count + 1, at |-> uptime]
  /\ pulses' = pulses \cup {uptime}
  /\ UNCHANGED <<uptime, gps, delays, task, reader, told, exact>>

-----------------------------------------------------------------------------
(***************************************************************************)
(* process_line.                                                           *)
(***************************************************************************)
Goto(pc) == task' = [task EXCEPT !.pc = pc]

\* A GGA line from which update_gps_status gets as far as the fix.
Telling(line) == line.type = "GGA" /\ line.intact /\ line.legible

\* A selected line with its estimated arrival, which is over.  The fields of other
\* lines than GGA are not looked at.
TakeLine ==
  /\ task.pc = "idle" /\ task.line.id < MaxLines
  /\ \E type \in Types, intact, legible, fix, place \in BOOLEAN,
        arrival \in Max({1, uptime - Lag}) .. uptime - 1 :
       LET line == [id |-> task.line.id + 1, type |-> type, arrival |-> arrival,
                    intact |-> intact, legible |-> legible, fix |-> fix, place |-> place]
       IN  /\ (type # "GGA" \/ ~intact) => ~legible
           /\ (~legible => ~fix) /\ (~fix => ~place)
           /\ task' = [task EXCEPT !.pc = IF intact THEN "touch" ELSE "pps", !.line = line]
           /\ told' = told \cup (IF Telling(line) THEN {line} ELSE {})
  /\ UNCHANGED <<uptime, pulse, gps, delays, reader, pulses, exact>>

\* The first critical section of update_gps_status: every good line counts.
Touch ==
  /\ task.pc = "touch"
  /\ gps' = [gps EXCEPT !.last = task.line.arrival]
  /\ Goto(IF Telling(task.line) THEN "store" ELSE "pps")
  /\ UNCHANGED <<uptime, pulse, delays, reader, pulses, told, exact>>

\* Mutant: a position stays valid without coordinates.
StoredPositionKept(line) ==
  [gps EXCEPT !.fix = line.fix,
              !.position = gps.position \/ (line.fix /\ line.place),
              !.sample = line.id,
              !.coordinates = IF line.fix /\ line.place THEN line.id ELSE @]

\* Coordinates are only stored when all of them could be read.
Stored(line) ==
  [gps EXCEPT !.fix = line.fix,
              !.position = line.fix /\ line.place,
              !.sample = line.id,
              !.coordinates = IF line.fix /\ line.place THEN line.id ELSE @]

\* The second critical section.
Store ==
  /\ task.pc = "store"
  /\ gps' = Stored(task.line)
  /\ Goto("pps")
  /\ UNCHANGED <<uptime, pulse, delays, reader, pulses, told, exact>>

ReadPulse ==
  /\ task.pc = "pps"
  /\ task' = [task EXCEPT !.pc = "delay", !.pulse = pulse]
  /\ told' = IF Telling(task.line) THEN {task.line} ELSE told
  /\ UNCHANGED <<uptime, pulse, gps, delays, reader, pulses, exact>>

\* Mutant: a pulse that came after the line is not noticed.
DelayValidBackwards(delay) == delay <= MaxDelay
DelayValid(delay) == delay >= 0 /\ delay <= MaxDelay

\* record_valid_sample.
Recorded(stats, delay) ==
  [count   |-> stats.count + 1,
   sum     |-> stats.sum + delay,
   minimum |-> IF stats.count = 0 THEN delay ELSE Min({stats.minimum, delay}),
   maximum |-> IF stats.count = 0 THEN delay ELSE Max({stats.maximum, delay})]

\* From the last pulse that came before the line did.
ExactDelay(arrival) == arrival - Max({0} \cup {p \in pulses : p <= arrival})

RecordDelay ==
  /\ task.pc = "delay"
  /\ LET type  == task.line.type
         delay == task.line.arrival - task.pulse.at
     IN  IF task.pulse.count > 0 /\ DelayValid(delay)
         THEN /\ delays' = [delays EXCEPT ![type] = Recorded(@, delay)]
              /\ exact' = [exact EXCEPT ![type] = @ + ExactDelay(task.line.arrival)]
         ELSE UNCHANGED <<delays, exact>>
  /\ task' = [pc |-> "idle", line |-> [NoLine EXCEPT !.id = task.line.id],
              pulse |-> NoPulse]
  /\ UNCHANGED <<uptime, pulse, gps, reader, pulses, told>>

-----------------------------------------------------------------------------
(***************************************************************************)
(* nmea_timing_get_snapshot.                                               *)
(***************************************************************************)
CopyStatus ==
  /\ reader.pc = "idle"
  /\ reader' = [reader EXCEPT !.pc = "copied", !.gps = gps, !.told = told]
  /\ UNCHANGED <<uptime, pulse, gps, delays, task, pulses, told, exact>>

ReadClock ==
  /\ reader.pc = "copied"
  /\ reader' = [reader EXCEPT !.pc = "shown", !.now = uptime]
  /\ UNCHANGED <<uptime, pulse, gps, delays, task, pulses, told, exact>>

ReaderDone ==
  /\ reader.pc = "shown"
  /\ reader' = NoReader
  /\ UNCHANGED <<uptime, pulse, gps, delays, task, pulses, told, exact>>

Age == IF reader.gps.last = 0 THEN -1 ELSE reader.now - reader.gps.last
Current == Age >= 0 /\ Age <= Stale
ShownFix == Current /\ reader.gps.fix
ShownPosition == Current /\ reader.gps.position

-----------------------------------------------------------------------------
StatusNext ==
  \/ StatusTick \/ Edge
  \/ TakeLine \/ Touch \/ Store \/ ReadPulse \/ RecordDelay
  \/ CopyStatus \/ ReadClock \/ ReaderDone

StatusSpec == StatusInit /\ [][StatusNext]_statusVars

-----------------------------------------------------------------------------
(***************************************************************************)
(* Properties.                                                             *)
(***************************************************************************)

\* A fix and a position are shown only if the last GGA line that was legible says
\* so, or the one before while it is being processed, and satellites, precision
\* and coordinates shown are all from that line; and only while good lines of some
\* type arrive.  Readers between the two critical sections see an old fix with a
\* fresh time, which is why two lines have to be allowed.
FixOfOneLine ==
  reader.pc = "shown" /\ ShownFix =>
    \E line \in reader.told :
      /\ line.fix /\ reader.gps.sample = line.id
      /\ ShownPosition <=> line.place
      /\ ShownPosition => reader.gps.coordinates = line.id

\* The delays behind the statistics of each type are those from the last pulse
\* before the line, although the pulse is read when the line is processed and a
\* newer one may have come in between; and their limits enclose the mean.
DelaysFromPulse ==
  \A t \in Types :
    LET d == delays[t]
    IN  /\ d.sum = exact[t]
        /\ 0 <= d.minimum /\ d.maximum <= MaxDelay
        /\ d.minimum * d.count <= d.sum /\ d.sum <= d.maximum * d.count
=============================================================================
