--------------------------------- MODULE Pps ---------------------------------
(***************************************************************************)
(* The PPS interrupt with its statistics (pps.c) and the path diagnostics  *)
(* (pps_diagnostics.c, PPS_PATH_DIAGNOSTICS set): the pin interrupts on    *)
(* both edges, MCPWM hardware latches a counter at every rising edge, and  *)
(* the main task compares the two.  The interrupt handler takes two locks  *)
(* one after the other, and so does pps_diagnostics_log_latest; the        *)
(* callback of the capture, which has an interrupt of its own, may come    *)
(* between any two of these steps.                                         *)
(***************************************************************************)
EXTENDS Integers

CONSTANTS
  Width,    \* how long a pulse is
  MinGap,   \* two pulses rise at least this far apart
  Latency,  \* bound: an interrupt is served this late at most
  Window,   \* PPS_CAPTURE_MATCH_WINDOW_US
  CapMod,   \* the counter wraps here, 2^32
  LastTick  \* bound: the last tick

ASSUME PpsAssumption ==
  /\ {Width, MinGap, Latency, Window, CapMod, LastTick} \subseteq Nat
  /\ Width > 0 /\ Width < MinGap /\ Latency < MinGap - Width
  /\ Window < MinGap - Latency /\ CapMod > 0

VARIABLES
  us,       \* esp_timer_get_time()
  pin,      \* the PPS pin, and when it rose last
  edgeDue,  \* when the pin interrupt was raised; 0: it is not pending
  latch,    \* the value latched by the capture whose interrupt is pending, and
            \* when; 0: none is pending
  handler,  \* pps_isr_handler: its place and its locals
  pps,      \* pps_count, pps_timestamp_us and the interval statistics
  edges,    \* edge_state
  capture,  \* capture_available, capture_epoch_us and the unwrapped counter
  logger,   \* the main task in pps_diagnostics_log_latest
  stats,    \* capture_stats
  logged,   \* logged_rising_sequence
  captured, \* history: when the pin rose, of the capture handled last
  wrapped,  \* history: the counter went round between two captures
  late      \* history: a rising edge was served with the pin low again

ppsVars == <<us, pin, edgeDue, latch, handler, pps, edges, capture, logger, stats,
             logged, captured, wrapped, late>>

NoStats == [count |-> 0, sum |-> 0, minimum |-> 0, maximum |-> 0]
NoCapture == [due |-> 0, value |-> 0]
NoInterrupt == [pc |-> "idle", at |-> 0, level |-> 0]
Polling == [pc |-> "poll", sequence |-> 0, rising |-> 0]

\* The time before pps_start does not count: pulses may come right after it.
PpsInit ==
  /\ us = 1
  /\ pin = [level |-> 0, rose |-> 1 - MinGap]
  /\ edgeDue = 0 /\ latch = NoCapture /\ handler = NoInterrupt
  /\ pps = [sequence |-> 0, count |-> 0, timestamp |-> 0, first |-> 0,
            intervals |-> NoStats]
  /\ edges = [rising |-> 0, risingSequence |-> 0, falling |-> 0]
  /\ \E available \in BOOLEAN :
       capture = [available |-> available, epoch |-> us,
                  previous |-> us % CapMod, ticks |-> 0, sequence |-> 0]
  /\ logger = Polling /\ stats = NoStats /\ logged = 0
  /\ captured = us /\ wrapped = FALSE /\ late = FALSE

-----------------------------------------------------------------------------
(***************************************************************************)
(* The receiver and the hardware.                                          *)
(***************************************************************************)

\* An edge while the interrupt is pending is not told apart from the first one.
RaiseInterrupt == edgeDue' = IF edgeDue = 0 THEN us ELSE edgeDue

Software == <<handler, pps, edges, capture, logger, stats, logged, captured,
              wrapped, late>>

Rise ==
  /\ pin.level = 0 /\ us >= pin.rose + MinGap
  /\ pin' = [level |-> 1, rose |-> us]
  /\ RaiseInterrupt
  /\ latch' = IF capture.available THEN [due |-> us, value |-> us % CapMod]
              ELSE latch
  /\ UNCHANGED <<us, Software>>

Fall ==
  /\ pin.level = 1 /\ us = pin.rose + Width
  /\ pin' = [pin EXCEPT !.level = 0]
  /\ RaiseInterrupt
  /\ UNCHANGED <<us, latch, Software>>

InTime(due) == due # 0 => us < due + Latency

PpsTick ==
  /\ us < LastTick
  /\ pin.level = 1 => us < pin.rose + Width
  /\ InTime(edgeDue) /\ InTime(latch.due) /\ handler.pc = "idle"
  /\ us' = us + 1
  /\ UNCHANGED <<pin, edgeDue, latch, Software>>

-----------------------------------------------------------------------------
(***************************************************************************)
(* pps_isr_handler and capture_event_callback.                             *)
(***************************************************************************)

\* The timestamp is taken first, then the level is read.
EnterHandler ==
  /\ handler.pc = "idle" /\ edgeDue # 0
  /\ handler' = [pc |-> "store", at |-> us, level |-> pin.level]
  /\ edgeDue' = 0
  /\ late' = (late \/ (pin.level = 0 /\ edgeDue < pin.rose + Width))
  /\ UNCHANGED <<us, pin, latch, pps, edges, capture, logger, stats, logged,
                 captured, wrapped>>

Least(a, b) == IF a < b THEN a ELSE b
Most(a, b) == IF a > b THEN a ELSE b

\* One more sample in a statistic.
Sampled(s, x) ==
  [count |-> s.count + 1, sum |-> s.sum + x,
   minimum |-> IF s.count = 0 THEN x ELSE Least(s.minimum, x),
   maximum |-> IF s.count = 0 THEN x ELSE Most(s.maximum, x)]

\* Mutant: the first pulse has an interval, too.
IntervalsFromBoot(at) == Sampled(pps.intervals, at - pps.timestamp)

IntervalsAfter(at) ==
  IF pps.timestamp = 0 THEN pps.intervals
  ELSE Sampled(pps.intervals, at - pps.timestamp)

\* Under pps_lock: the sequence counts every edge, the rest rising ones.
StoreEdge ==
  /\ handler.pc = "store"
  /\ pps' = IF handler.level = 0 THEN [pps EXCEPT !.sequence = @ + 1]
            ELSE [sequence |-> pps.sequence + 1, count |-> pps.count + 1,
                  timestamp |-> handler.at,
                  first |-> IF pps.count = 0 THEN handler.at ELSE pps.first,
                  intervals |-> IntervalsAfter(handler.at)]
  /\ handler' = [handler EXCEPT !.pc = "record"]
  /\ UNCHANGED <<us, pin, edgeDue, latch, edges, capture, logger, stats, logged,
                 captured, wrapped, late>>

\* pps_diagnostics_record_edge_from_isr, under diagnostic_lock.
RecordEdge ==
  /\ handler.pc = "record"
  /\ edges' = IF handler.level = 0 THEN [edges EXCEPT !.falling = handler.at]
              ELSE [edges EXCEPT !.rising = handler.at,
                                 !.risingSequence = pps.sequence]
  /\ handler' = NoInterrupt
  /\ UNCHANGED <<us, pin, edgeDue, latch, pps, capture, logger, stats, logged,
                 captured, wrapped, late>>

\* Mutant: the difference is not taken modulo the counter's width.
UnwrapPlain(value) == value - capture.previous

Unwrap(value) == (value - capture.previous) % CapMod

\* The callback is given the value latched at the edge.
CaptureCallback ==
  /\ latch.due # 0
  /\ capture' = [capture EXCEPT !.ticks = @ + Unwrap(latch.value),
                                !.previous = latch.value,
                                !.sequence = @ + 1]
  /\ captured' = latch.due
  /\ wrapped' = (wrapped \/ latch.due - captured >= CapMod)
  /\ latch' = NoCapture
  /\ UNCHANGED <<us, pin, edgeDue, handler, pps, edges, logger, stats, logged,
                 late>>

-----------------------------------------------------------------------------
(***************************************************************************)
(* pps_diagnostics_log_latest, polled by the main task.                    *)
(***************************************************************************)

CopyEdges ==
  /\ logger.pc = "poll"
  /\ edges.risingSequence \notin {0, logged}
  /\ logger' = [pc |-> "capture", sequence |-> edges.risingSequence,
              rising |-> edges.rising]
  /\ UNCHANGED <<us, pin, edgeDue, latch, handler, pps, edges, capture, stats,
                 logged, captured, wrapped, late>>

Converted == capture.epoch + capture.ticks
Delta == logger.rising - Converted

\* Mutant: only an edge that is too late is no match.
MatchesEarlier == Delta <= Window

Matches == -Window <= Delta /\ Delta <= Window

\* The second critical section; an edge is compared once, match or not.
CompareCapture ==
  /\ logger.pc = "capture"
  /\ stats' = IF capture.available /\ capture.sequence # 0 /\ Matches
              THEN Sampled(stats, Delta) ELSE stats
  /\ logged' = logger.sequence
  /\ logger' = Polling
  /\ UNCHANGED <<us, pin, edgeDue, latch, handler, pps, edges, capture, captured,
                 wrapped, late>>

-----------------------------------------------------------------------------
PpsNext ==
  \/ Rise \/ Fall \/ PpsTick
  \/ EnterHandler \/ StoreEdge \/ RecordEdge \/ CaptureCallback
  \/ CopyEdges \/ CompareCapture

PpsSpec == PpsInit /\ [][PpsNext]_ppsVars

-----------------------------------------------------------------------------
(***************************************************************************)
(* Properties.                                                             *)
(***************************************************************************)

\* Mutant: a falling edge of an earlier pulse will do.
WidthValidAnyOrder == edges.rising > 0 /\ edges.falling > 0

\* pulse_width_valid and pulse_width_us of pps_diagnostics_get_snapshot.
WidthValid == edges.rising > 0 /\ edges.falling >= edges.rising
PulseWidth == edges.falling - edges.rising

\* The pulse width on the status page is that of one pulse, give or take the
\* latency of the handler, whichever of the two edges was recorded last.  A
\* rising edge served with the pin low again is taken for a falling one: the
\* width shown then reaches back to the pulse before.
WidthOfOnePulse ==
  WidthValid /\ ~late => PulseWidth \in Width - Latency .. Width + Latency

\* The difference between interrupt and capture is only ever taken between edge
\* and capture of the same pulse, although the two are read one after the other
\* and either interrupt may be the later one.
DeltasOfOnePulse ==
  stats.count > 0 /\ ~wrapped => 0 <= stats.minimum /\ stats.maximum <= Latency

\* The unwrapped counter tells the time of the capture exactly, for as long as
\* pulses follow each other faster than the counter goes round; the first one
\* follows the calibration.  Once they did not, nothing is ever in the window
\* again except by chance.
Unwrapped == capture.sequence > 0 /\ ~wrapped => Converted = captured

\* The interval statistics of the status page: the intervals add up to the time
\* between the first and the last pulse stored, pulses that were missed included,
\* and the mean lies between the limits.
IntervalsAddUp ==
  LET i == pps.intervals
  IN  /\ i.sum = pps.timestamp - pps.first
      /\ i.count = (IF pps.count = 0 THEN 0 ELSE pps.count - 1)
      /\ i.minimum * i.count <= i.sum /\ i.sum <= i.maximum * i.count
=============================================================================
