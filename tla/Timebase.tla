------------------------------ MODULE Timebase ------------------------------
(***************************************************************************)
(* The GPS-disciplined timebase of Clock 2: the PPS interrupt (pps.c), the *)
(* main task's loop (main.c, timebase.c) that associates GNSS labels with  *)
(* PPS edges, and the tasks that read UTC from it concurrently (the lwIP   *)
(* thread for NTP, the HTTP task, the OLED task).                          *)
(*                                                                         *)
(* Every call that takes pps_lock or timebase_lock, and every read of the  *)
(* microsecond timer, is a step of its own: the two cores interleave       *)
(* between them.  Time is discrete; a UTC second lasts Second ticks and    *)
(* UTC second k begins at tick k * Second.                                 *)
(*                                                                         *)
(* The PPS count is uint32_t in the code and is only ever used through the *)
(* unsigned difference of two counts.  Here pps.count is the unwrapped     *)
(* count and PpsDelta takes the difference modulo CountMod, which is the   *)
(* same number.                                                            *)
(***************************************************************************)
EXTENDS Integers, Sequences

CONSTANTS
  Second,        \* ticks in one UTC second
  AssocMin,      \* TIMEBASE_ASSOCIATION_MIN_US
  AssocMax,      \* TIMEBASE_ASSOCIATION_MAX_US
  PpsTimeout,    \* TIMEBASE_PPS_TIMEOUT_US
  GnssTimeout,   \* TIMEBASE_GNSS_TIMEOUT_US
  ZdaPreference, \* TIMEBASE_ZDA_PREFERENCE_US
  IsrLatency,    \* most ticks from a PPS edge to the ISR's timestamp
  CountMod,      \* 2^32: the range of the PPS count
  Kinds,         \* the sentences the receiver sends, a subset of SentenceKinds
  LabelErrors,   \* labelled second minus the second in which it is sent
  Readers,       \* the tasks that call timebase_get_snapshot
  MaxNow,        \* bound: the last tick
  MaxPending     \* bound: most sentences waiting in the UART driver

\* A "corrupt" sentence is a ZDA or RMC that fails its checksum or its parse.
SentenceKinds == {"ZDA", "RMC", "corrupt"}

ASSUME SecondAssumption == Second \in Nat \ {0, 1}
ASSUME WindowAssumption ==
  /\ AssocMin \in Nat
  /\ AssocMax \in Nat
  /\ IsrLatency \in Nat
  /\ AssocMax + IsrLatency < Second
ASSUME TimeoutAssumption ==
  /\ PpsTimeout \in Nat
  /\ GnssTimeout \in Nat
  /\ ZdaPreference \in Nat
\* Half the count's range outlasts the PPS timeout.
ASSUME CountAssumption ==
  /\ CountMod \in Nat
  /\ PpsTimeout + IsrLatency < ((CountMod - 1) \div 2) * Second
ASSUME LabelAssumption ==
  /\ Kinds \subseteq SentenceKinds
  /\ LabelErrors \subseteq Int
ASSUME BoundAssumption == MaxNow \in Nat \ {0} /\ MaxPending \in Nat

VARIABLES
  now,         \* esp_timer_get_time()
  second,      \* the UTC second now running (known to the receiver only)
  edgePending, \* a PPS edge was raised and its interrupt has not run yet
  pps,         \* the static variables of pps.c
  rx,          \* sentences received by the UART driver, oldest first
  main,        \* the main task's program counter and locals
  state,       \* the static variable of timebase.c
  reader,      \* each reader's program counter and locals, and a history
               \* field: was the timebase healthy when the read began
  lastServed   \* history: what each reader last served in this validity period

vars == <<now, second, edgePending, pps, rx, main, state, reader, lastServed>>

(***************************************************************************)
(* A snapshot of pps.c.  A stamp of 0 means that no edge was captured.     *)
(* The field edge is history: the UTC second that began with the edge.  No *)
(* guard reads it.                                                         *)
(***************************************************************************)
NoPps == [count |-> 0, stamp |-> 0, edge |-> 0]
PpsSnapshots == [count: Nat, stamp: Nat, edge: Nat]

\* A line: its kind, the UTC second it names, the tick its last byte arrived.
Sentences == [kind: SentenceKinds, label: Nat, at: Nat]

Served == [unix: Int, edge: Nat]
NothingServed == [unix |-> -1, edge |-> 0]

IdleReader == [pc |-> "idle", pps |-> NoPps, now |-> 0, healthy |-> FALSE]

\* (uint32_t)(newer - older), and the test pps_delta > UINT32_MAX / 2U.
PpsDelta(newer, older) == (newer - older) % CountMod
HalfRange == (CountMod - 1) \div 2

\* timebase_association_delay_valid
AssociationDelayValid(arrival, stamp) ==
  arrival - stamp \in AssocMin .. AssocMax

Init ==
  /\ now = 1
  /\ second = 0
  /\ edgePending = FALSE
  /\ pps = NoPps
  /\ rx = <<>>
  /\ main = [pc |-> "poll", pps |-> NoPps, now |-> 0,
             lines |-> <<>>, eventAt |-> 0]
  /\ state = [valid |-> FALSE, anchor |-> 0, count |-> 0, stamp |-> 0,
              edge |-> 0, source |-> "NONE", lastUpdate |-> 0, lastZda |-> 0]
  /\ reader = [r \in Readers |-> IdleReader]
  /\ lastServed = [r \in Readers |-> NothingServed]

-----------------------------------------------------------------------------
(***************************************************************************)
(* The receiver and the hardware.                                          *)
(***************************************************************************)

\* Time passes.  A second that begins raises a PPS edge; a pending interrupt
\* is not delayed by more than IsrLatency.
Tick ==
  /\ now < MaxNow
  /\ edgePending => now < second * Second + IsrLatency
  /\ now' = now + 1
  /\ IF now + 1 = second * Second + Second
     THEN second' = second + 1 /\ edgePending' = TRUE
     ELSE UNCHANGED <<second, edgePending>>
  /\ UNCHANGED <<pps, rx, main, state, reader, lastServed>>

\* pps_isr_handler: the timestamp is taken first, then count and timestamp
\* are stored together under pps_lock.
PpsIsr ==
  /\ edgePending
  /\ edgePending' = FALSE
  /\ pps' = [count |-> pps.count + 1, stamp |-> now, edge |-> second]
  /\ UNCHANGED <<now, second, rx, main, state, reader, lastServed>>

\* The receiver withholds the pulse, or the ISR samples the pin low and
\* drops the edge.
PpsMissed ==
  /\ edgePending
  /\ edgePending' = FALSE
  /\ UNCHANGED <<now, second, pps, rx, main, state, reader, lastServed>>

\* The last byte of a sentence reaches the UART driver.
Receive ==
  /\ Len(rx) < MaxPending
  /\ \E kind \in Kinds, e \in LabelErrors :
       /\ second + e >= 0
       /\ rx' = Append(rx, [kind |-> kind, label |-> second + e, at |-> now])
  /\ UNCHANGED <<now, second, edgePending, pps, main, state, reader, lastServed>>

-----------------------------------------------------------------------------
(***************************************************************************)
(* The main task.                                                          *)
(***************************************************************************)
Idle(pc) == [pc |-> pc, pps |-> NoPps, now |-> 0, lines |-> <<>>, eventAt |-> 0]

\* timebase_poll: pps_get_snapshot, then the timer, then the critical section.
PollReadPps ==
  /\ main.pc = "poll"
  /\ main' = [main EXCEPT !.pc = "poll_now", !.pps = pps]
  /\ UNCHANGED <<now, second, edgePending, pps, rx, state, reader, lastServed>>

PollReadNow ==
  /\ main.pc = "poll_now"
  /\ main' = [main EXCEPT !.pc = "poll_check", !.now = now]
  /\ UNCHANGED <<now, second, edgePending, pps, rx, state, reader, lastServed>>

\* Mutants: the PPS timeout is forgotten; the GNSS timeout is measured from the
\* last edge.
PpsLostNever == main.pps.stamp = 0
GnssLostFromPps == main.now - main.pps.stamp > GnssTimeout

PpsLost == main.pps.stamp = 0 \/ main.now - main.pps.stamp > PpsTimeout
GnssLost == main.now - state.lastUpdate > GnssTimeout

PollCheck ==
  /\ main.pc = "poll_check"
  /\ main' = Idle("uart")
  /\ IF state.valid /\ (PpsLost \/ GnssLost)
     THEN /\ state' = [state EXCEPT !.valid = FALSE]
          /\ lastServed' = [r \in Readers |-> NothingServed]
     ELSE UNCHANGED <<state, lastServed>>
  /\ UNCHANGED <<now, second, edgePending, pps, rx, reader>>

\* gps_uart_poll gets no event within its 100 ms, or one that completes no line.
UartQuiet ==
  /\ main.pc = "uart"
  /\ main' = Idle("poll")
  /\ UNCHANGED <<now, second, edgePending, pps, rx, state, reader, lastServed>>

\* gps_uart_poll gets a UART_DATA event that completes the n oldest lines; the
\* event is timestamped when it is dequeued.
UartData ==
  /\ main.pc = "uart"
  /\ \E n \in 1 .. Len(rx) :
       /\ main' = [Idle("line") EXCEPT !.lines = SubSeq(rx, 1, n),
                                       !.eventAt = now]
       /\ rx' = SubSeq(rx, n + 1, Len(rx))
  /\ UNCHANGED <<now, second, edgePending, pps, state, reader, lastServed>>

\* gps_uart_poll gets UART_FIFO_OVF or UART_BUFFER_FULL and flushes the input.
UartFlush ==
  /\ main.pc = "uart"
  /\ rx' = <<>>
  /\ main' = Idle("poll")
  /\ UNCHANGED <<now, second, edgePending, pps, state, reader, lastServed>>

\* The event's lines are processed and the loop starts over.
LinesDone ==
  /\ main.pc = "line"
  /\ main.lines = <<>>
  /\ main' = Idle("poll")
  /\ UNCHANGED <<now, second, edgePending, pps, rx, state, reader, lastServed>>

NextLine == [main EXCEPT !.pc = "line", !.pps = NoPps, !.now = 0,
                         !.lines = Tail(main.lines)]

\* timebase_process_sentence up to the association window.  The arrival
\* estimate is the event's timestamp less the time of the bytes that followed
\* the line: no earlier than the line's arrival, no later than the dequeue.
\* reject_association changes no variable of the timebase.
AssociateReadPps ==
  /\ main.pc = "line"
  /\ main.lines # <<>>
  /\ \E estimatedArrival \in Head(main.lines).at .. main.eventAt :
       main' = IF /\ Head(main.lines).kind # "corrupt"
                  /\ pps.stamp # 0
                  /\ AssociationDelayValid(estimatedArrival, pps.stamp)
               THEN [main EXCEPT !.pc = "assoc_now", !.pps = pps]
               ELSE NextLine
  /\ UNCHANGED <<now, second, edgePending, pps, rx, state, reader, lastServed>>

AssociateReadNow ==
  /\ main.pc = "assoc_now"
  /\ main' = [main EXCEPT !.pc = "assoc_commit", !.now = now]
  /\ UNCHANGED <<now, second, edgePending, pps, rx, state, reader, lastServed>>

\* The second that the current anchor gives to the PPS edge of snapshot p.
ProjectedSecond(p) == state.anchor + PpsDelta(p.count, state.count)

\* Mutants: a label after a loss may precede the old anchor; a label one second
\* behind the projection is accepted too.
LabelAcceptedAfresh(label) ==
  state.valid =>
    /\ PpsDelta(main.pps.count, state.count) <= HalfRange
    /\ label - ProjectedSecond(main.pps) \in {0, 1}
LabelAcceptedBehind(label) ==
  IF state.valid
  THEN /\ PpsDelta(main.pps.count, state.count) <= HalfRange
       /\ label - ProjectedSecond(main.pps) \in {-1, 0, 1}
  ELSE state.source # "NONE" => label >= state.anchor

\* The label agrees with the projection, or is one second ahead of it.  A
\* first label is taken as it is, a later one unless it precedes the anchor.
LabelAccepted(label) ==
  IF state.valid
  THEN /\ PpsDelta(main.pps.count, state.count) <= HalfRange
       /\ label - ProjectedSecond(main.pps) \in {0, 1}
  ELSE state.source # "NONE" => label >= state.anchor

\* A valid RMC never displaces the anchor of a recent ZDA.
KeepRecentZdaAnchor(kind) ==
  /\ state.valid
  /\ state.source = "ZDA"
  /\ kind = "RMC"
  /\ main.now - state.lastZda <= ZdaPreference

\* The state after a label is accepted.
Accepted(line) ==
  LET keep == KeepRecentZdaAnchor(line.kind)
  IN  [valid      |-> TRUE,
       anchor     |-> IF keep THEN state.anchor ELSE line.label,
       count      |-> IF keep THEN state.count  ELSE main.pps.count,
       stamp      |-> IF keep THEN state.stamp  ELSE main.pps.stamp,
       edge       |-> IF keep THEN state.edge   ELSE main.pps.edge,
       source     |-> IF keep THEN state.source ELSE line.kind,
       lastUpdate |-> main.now,
       lastZda    |-> IF line.kind = "ZDA" THEN main.now ELSE state.lastZda]

\* The critical section of timebase_process_sentence.
AssociateCommit ==
  /\ main.pc = "assoc_commit"
  /\ LET line == Head(main.lines)
     IN  state' = IF LabelAccepted(line.label) THEN Accepted(line) ELSE state
  /\ main' = NextLine
  /\ UNCHANGED <<now, second, edgePending, pps, rx, reader, lastServed>>

MainStep ==
  \/ PollReadPps \/ PollReadNow \/ PollCheck
  \/ UartQuiet \/ UartData \/ UartFlush \/ LinesDone
  \/ AssociateReadPps \/ AssociateReadNow \/ AssociateCommit

-----------------------------------------------------------------------------
(***************************************************************************)
(* timebase_get_snapshot: the PPS snapshot, the timer, then the copy of    *)
(* the state under timebase_lock and a verdict on the three.               *)
(***************************************************************************)
\* What README.md calls a valid timebase, of the present state: an accepted
\* label and an edge, neither older than its timeout.
PpsStale == now - pps.stamp > PpsTimeout
GnssStale == now - state.lastUpdate > GnssTimeout
Healthy == state.valid /\ ~PpsStale /\ ~GnssStale

ReadPps(r) ==
  /\ reader[r].pc = "idle"
  /\ reader' = [reader EXCEPT ![r] = [pc |-> "now", pps |-> pps, now |-> 0,
                                      healthy |-> Healthy]]
  /\ UNCHANGED <<now, second, edgePending, pps, rx, main, state, lastServed>>

ReadNow(r) ==
  /\ reader[r].pc = "now"
  /\ reader' = [reader EXCEPT ![r].pc = "copy", ![r].now = now]
  /\ UNCHANGED <<now, second, edgePending, pps, rx, main, state, lastServed>>

\* Mutant: the count's difference is not tested for a negative value.
SnapshotGrantedTorn(r) ==
  LET p == reader[r].pps
  IN  /\ state.valid
      /\ p.stamp # 0
      /\ reader[r].now - p.stamp \in 0 .. PpsTimeout
      /\ reader[r].now - state.lastUpdate \in 0 .. GnssTimeout

SnapshotGranted(r) ==
  LET p == reader[r].pps
  IN  /\ state.valid
      /\ p.stamp # 0
      /\ reader[r].now - p.stamp \in 0 .. PpsTimeout
      /\ reader[r].now - state.lastUpdate \in 0 .. GnssTimeout
      /\ PpsDelta(p.count, state.count) <= HalfRange

CopyState(r) ==
  /\ reader[r].pc = "copy"
  /\ reader' = [reader EXCEPT ![r] = IdleReader]
  /\ lastServed' =
       IF SnapshotGranted(r)
       THEN [lastServed EXCEPT ![r] = [unix |-> ProjectedSecond(reader[r].pps),
                                       edge |-> reader[r].pps.edge]]
       ELSE lastServed
  /\ UNCHANGED <<now, second, edgePending, pps, rx, main, state>>

ReaderStep(r) == ReadPps(r) \/ ReadNow(r) \/ CopyState(r)

-----------------------------------------------------------------------------
Next ==
  \/ Tick \/ PpsIsr \/ PpsMissed \/ Receive
  \/ MainStep
  \/ \E r \in Readers : ReaderStep(r)

Spec == Init /\ [][Next]_vars

\* FreeRTOS schedules the main task: its loop never blocks for more than 100 ms.
FairSpec == Spec /\ WF_vars(MainStep)

-----------------------------------------------------------------------------
(***************************************************************************)
(* Properties.                                                             *)
(***************************************************************************)

MainPc == {"poll", "poll_now", "poll_check", "uart", "line",
           "assoc_now", "assoc_commit"}
MainStates == [pc: MainPc, pps: PpsSnapshots, now: Nat,
               lines: Seq(Sentences), eventAt: Nat]
TimebaseStates == [valid: BOOLEAN, anchor: Nat, count: Nat, stamp: Nat,
                   edge: Nat, source: {"NONE", "RMC", "ZDA"},
                   lastUpdate: Nat, lastZda: Nat]
ReaderStates == [pc: {"idle", "now", "copy"}, pps: PpsSnapshots, now: Nat,
                 healthy: BOOLEAN]

\* The type invariant: every variable has the shape the declarations in
\* timebase.c and pps.c give it, and an accepted source is a real source.
TypeOK ==
  /\ now \in Nat /\ second \in Nat /\ edgePending \in BOOLEAN
  /\ pps \in PpsSnapshots
  /\ rx \in Seq(Sentences)
  /\ main \in MainStates
  /\ main.pc \in {"assoc_now", "assoc_commit"} =>
       /\ main.lines # <<>>
       /\ Head(main.lines).kind # "corrupt"
  /\ state \in TimebaseStates
  /\ reader \in [Readers -> ReaderStates]
  /\ lastServed \in [Readers -> Served]

\* Provided the receiver never names a second that has not begun, neither the
\* anchor nor any second served to a reader is later than the UTC second whose
\* PPS edge carries it: the server is never ahead of UTC, whatever edges are
\* missed, however late a sentence is processed, and however the readers
\* interleave with the main task (timebase_process_sentence,
\* timebase_get_snapshot).
AnchorNeverAhead == state.anchor <= state.edge
ServedNeverAhead == \A r \in Readers : lastServed[r].unix <= lastServed[r].edge
NeverAhead == AnchorNeverAhead /\ ServedNeverAhead

\* The anchor's second never decreases, not even when the timebase is lost and
\* synchronizes again: labels behind the old anchor are "utc-backward".
AnchorMonotone == [][state'.anchor >= state.anchor]_vars

\* The timebase implements the abstract source: while it stays valid the
\* offset that every reader adds to the PPS count is kept or grows by exactly
\* one; every second served is that offset plus the count of an edge that was
\* captured, never a torn mixture of an old count and a new anchor; and within
\* one validity period no reader is served an earlier second than before.
Offset(s) == s.anchor - s.count
Source == INSTANCE UtcSource WITH
  edges  <- pps.count,
  valid  <- state.valid,
  offset <- Offset(state),
  served <- [r \in Readers |-> lastServed[r].unix]
ImplementsSource == Source!Spec

\* A valid timebase whose PPS has been silent for longer than the timeout is
\* eventually invalidated by timebase_poll, unless an edge comes back.
PpsLossDetected == (state.valid /\ PpsStale) ~> (~state.valid \/ ~PpsStale)

\* Likewise when no label was accepted for longer than the GNSS timeout.
GnssLossDetected == (state.valid /\ GnssStale) ~> (~state.valid \/ ~GnssStale)

\* timebase_poll notices the loss of either input, whatever else the main task has
\* to do.
LossDetected == PpsLossDetected /\ GnssLossDetected

\* README.md, "How it works": the timebase is invalid only if the latest PPS or
\* the last accepted label is too old.  So a read that begins and ends while
\* the timebase is healthy, with a PPS snapshot that is fresh, is granted.  The
\* code breaks this: the reader's clock is read before the state is copied, and
\* a label accepted in between is newer than the reader's "now".
HealthyReadGranted ==
  [][\A r \in Readers :
       /\ CopyState(r)
       /\ reader[r].healthy /\ Healthy
       /\ reader[r].now - reader[r].pps.stamp <= PpsTimeout
       => SnapshotGranted(r)]_vars

\* timebase.h: "At pps_timestamp_us, UTC is exactly unix_seconds.000000."  With
\* a receiver that labels every second correctly and no missed edge, a sentence
\* dequeued after the following edge is associated with that edge.
ServedExact ==
  \A r \in Readers :
    lastServed[r] # NothingServed => lastServed[r].unix = lastServed[r].edge

-----------------------------------------------------------------------------
(***************************************************************************)
(* The inductive invariant behind NeverAhead (proved in TimebaseProofs).   *)
(***************************************************************************)

\* Snapshot q of pps.c was taken no later than snapshot p: every captured edge
\* between them is one UTC second, and there may be missed edges too.
Earlier(q, p) ==
  /\ q.count <= p.count
  /\ q.stamp <= p.stamp
  /\ p.count - q.count <= p.edge - q.edge
  /\ q.count = p.count => q.edge = p.edge
Comparable(q, p) == Earlier(q, p) \/ Earlier(p, q)

\* The stamp lies within IsrLatency of the second that began with the edge.
Stamped(p) ==
  /\ p.edge * Second <= p.stamp
  /\ p.stamp <= p.edge * Second + IsrLatency
  /\ p.count <= p.edge
  /\ p.count = 0 => p.edge = 0

\* The PPS snapshot at which the anchor was taken.
Anchor == [count |-> state.count, stamp |-> state.stamp, edge |-> state.edge]

\* Every snapshot a task holds is a past value of pps, and any two are ordered.
SnapshotInv ==
  /\ Stamped(pps) /\ Stamped(main.pps) /\ Stamped(Anchor)
  /\ Earlier(main.pps, pps) /\ Earlier(Anchor, pps)
  /\ \A r \in Readers :
       /\ Stamped(reader[r].pps)
       /\ Earlier(reader[r].pps, pps)
       /\ Comparable(reader[r].pps, main.pps)
       /\ Comparable(reader[r].pps, Anchor)

ClockInv ==
  /\ second * Second <= now
  /\ now < second * Second + Second
  /\ pps.edge <= second
  /\ pps.stamp <= now
  /\ edgePending => pps.edge < second /\ now <= second * Second + IsrLatency

\* A receiver that never names a second before it begins.
HonestReceiver == \A e \in LabelErrors : e <= 0

\* The count of edges does not wrap: 2^32 seconds are 136 years of uptime.
Lifetime == MaxNow < CountMod * Second

\* A sentence arrives no earlier than the second it names begins.
LinesTimely(lines) ==
  \A i \in 1 .. Len(lines) : lines[i].label * Second <= lines[i].at
LinesInv == LinesTimely(rx) /\ LinesTimely(main.lines)

\* A label inside the association window names the snapshot's second or an
\* earlier one, and the anchor it may replace is no newer.
AssociationInv ==
  main.pc \in {"assoc_now", "assoc_commit"} =>
    /\ Head(main.lines).label <= main.pps.edge
    /\ Earlier(Anchor, main.pps)
    /\ main.pc = "assoc_commit" => main.pps.stamp <= main.now

AnchorInv == state.anchor <= state.edge /\ state.stamp <= state.lastUpdate

IInv ==
  /\ TypeOK
  /\ SnapshotInv
  /\ ClockInv
  /\ LinesInv
  /\ AssociationInv
  /\ AnchorInv
  /\ ServedNeverAhead

=============================================================================
