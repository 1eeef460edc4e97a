--------------------------- MODULE TimebaseProofs ---------------------------
(***************************************************************************)
(* What is proved of Timebase for every value of its constants: its type   *)
(* invariant, that the server is never ahead of UTC, that the anchor never *)
(* moves back, and that Timebase implements UtcSource.  And of Calendar:   *)
(* that it is right on every day.                                          *)
(***************************************************************************)
EXTENDS Timebase, Calendar, SequenceTheorems, FiniteSetTheorems, TLAPS

-----------------------------------------------------------------------------
(***************************************************************************)
(* Arithmetic.                                                             *)
(***************************************************************************)

LEMMA CountFacts ==
  /\ CountMod \in Nat /\ CountMod > 2
  /\ HalfRange \in Nat /\ 2 * HalfRange < CountMod
  /\ PpsTimeout + IsrLatency < HalfRange * Second
<1>1. (CountMod - 1) \div 2 \in Int
  BY CountAssumption
<1>2. ((CountMod - 1) \div 2) * Second > 0
  BY CountAssumption, TimeoutAssumption, WindowAssumption, SecondAssumption, <1>1
<1>3. (CountMod - 1) \div 2 > 0
  BY <1>1, <1>2, SecondAssumption
<1> QED  BY <1>3, CountAssumption DEF HalfRange

\* A product by Second is an integer, and cancels in a comparison.
LEMMA SecondProduct ==
  ASSUME NEW a \in Int, NEW b \in Int
  PROVE  /\ a * Second \in Int
         /\ (a + 1) * Second = a * Second + Second
         /\ (a - b) * Second = a * Second - b * Second
         /\ a * Second < b * Second => a < b
BY SecondAssumption

\* Two instants less than one second apart at the beginning of their seconds.
LEMMA SecondCancel ==
  ASSUME NEW a \in Int, NEW b \in Int, a * Second < b * Second + Second
  PROVE  a <= b
BY SecondAssumption

\* The unsigned difference never exceeds the true one when the first count is
\* the newer ...
LEMMA DeltaForward ==
  ASSUME NEW p \in Nat, NEW q \in Nat, q <= p
  PROVE  PpsDelta(p, q) \in Nat /\ PpsDelta(p, q) <= p - q
<1> DEFINE d == p - q
<1>1. d \in Nat
  OBVIOUS
<1>2. d % CountMod \in 0 .. d
  <2> HIDE DEF d
  <2> QED  BY <1>1, CountFacts
<1> QED  BY <1>2 DEF PpsDelta

\* ... and falls in the upper half of the range when it is slightly older.
LEMMA DeltaBackward ==
  ASSUME NEW p \in Nat, NEW q \in Nat, p < q, q - p < HalfRange
  PROVE  PpsDelta(p, q) > HalfRange
<1> DEFINE k == q - p
<1>1. k \in Nat /\ k > 0 /\ k < HalfRange /\ p - q = -k
  BY CountFacts
<1>2. (-k) % CountMod = CountMod - k
  <2> HIDE DEF k
  <2> QED  BY <1>1, CountFacts
<1> QED  BY <1>1, <1>2, CountFacts DEF PpsDelta

LEMMA DeltaNat ==
  ASSUME NEW p \in Nat, NEW q \in Nat
  PROVE  PpsDelta(p, q) \in Nat
<1> DEFINE d == p - q
<1>1. d \in Int
  OBVIOUS
<1>2. d % CountMod \in Nat
  <2> HIDE DEF d
  <2> QED  BY <1>1, CountFacts
<1> QED  BY <1>2 DEF PpsDelta

-----------------------------------------------------------------------------
(***************************************************************************)
(* Type correctness.                                                       *)
(***************************************************************************)

\* The initial snapshot and the idle control states are well typed.
LEMMA NoPpsType == NoPps \in PpsSnapshots
BY DEF NoPps, PpsSnapshots

\* The tail of a nonempty queue of sentences, and its two parts at a cut.
LEMMA LinesType ==
  ASSUME NEW s \in Seq(Sentences)
  PROVE  /\ s # <<>> => /\ Tail(s) \in Seq(Sentences)
                        /\ Head(s) \in Sentences
                        /\ Len(s) \in Nat \ {0}
                        /\ Head(s) = s[1]
         /\ \A n \in 1 .. Len(s) :
              /\ SubSeq(s, 1, n) \in Seq(Sentences)
              /\ SubSeq(s, n + 1, Len(s)) \in Seq(Sentences)
BY SubSeqProperties, HeadTailProperties

LEMMA TypeInit == Init => TypeOK
<1> SUFFICES ASSUME Init PROVE TypeOK
  OBVIOUS
<1>1. pps \in PpsSnapshots /\ rx \in Seq(Sentences)
  BY NoPpsType DEF Init
<1>2. main \in MainStates /\ main.pc = "poll"
  BY NoPpsType DEF Init, MainPc, MainStates
<1>3. state \in TimebaseStates
  BY DEF Init, TimebaseStates
<1>4. reader \in [Readers -> ReaderStates]
  BY NoPpsType DEF Init, IdleReader, ReaderStates
<1>5. lastServed \in [Readers -> Served]
  BY DEF Init, Served, NothingServed
<1> QED  BY <1>1, <1>2, <1>3, <1>4, <1>5 DEF Init, TypeOK

\* Each action preserves the type invariant.
LEMMA TypeNext == TypeOK /\ [Next]_vars => TypeOK'
<1> SUFFICES ASSUME TypeOK, [Next]_vars PROVE TypeOK'
  OBVIOUS
<1> USE DEF TypeOK, MainStates
<1>1. CASE Tick
  <2>1. now' \in Nat /\ second' \in Nat
    BY <1>1 DEF Tick
  <2>2. edgePending' \in BOOLEAN
    BY <1>1, Zenon DEF Tick
  <2> QED  BY <1>1, <2>1, <2>2 DEF Tick
<1>2. CASE PpsIsr
  <2>1. pps' \in PpsSnapshots
    BY <1>2 DEF PpsIsr, PpsSnapshots
  <2> QED  BY <1>2, <2>1 DEF PpsIsr
<1>3. CASE PpsMissed
  BY <1>3 DEF PpsMissed
<1>4. CASE Receive
  <2> PICK kind \in Kinds, e \in LabelErrors :
        /\ second + e >= 0
        /\ rx' = Append(rx, [kind |-> kind, label |-> second + e, at |-> now])
    BY <1>4 DEF Receive
  <2>1. [kind |-> kind, label |-> second + e, at |-> now] \in Sentences
    BY LabelAssumption DEF Sentences
  <2>2. rx' \in Seq(Sentences)
    BY <2>1, AppendProperties
  <2> QED  BY <1>4, <2>2 DEF Receive
<1>5. CASE PollReadPps
  BY <1>5 DEF PollReadPps, MainPc
<1>6. CASE PollReadNow
  BY <1>6 DEF PollReadNow, MainPc
<1>7. CASE PollCheck
  <2>1. main' \in MainStates /\ main'.pc = "uart"
    BY <1>7, NoPpsType DEF PollCheck, Idle, MainPc
  <2>2. state' \in TimebaseStates
    BY <1>7 DEF PollCheck, TimebaseStates
  <2>3. NothingServed \in Served
    BY DEF NothingServed, Served
  <2>4. lastServed' \in [Readers -> Served]
    BY <1>7, <2>3, Zenon DEF PollCheck
  <2> QED  BY <1>7, <2>1, <2>2, <2>4 DEF PollCheck
<1>8. CASE UartQuiet
  BY <1>8, NoPpsType DEF UartQuiet, Idle, MainPc
<1>9. CASE UartData
  <2> PICK n \in 1 .. Len(rx) :
        /\ main' = [Idle("line") EXCEPT !.lines = SubSeq(rx, 1, n), !.eventAt = now]
        /\ rx' = SubSeq(rx, n + 1, Len(rx))
    BY <1>9 DEF UartData
  <2>1. SubSeq(rx, 1, n) \in Seq(Sentences) /\ rx' \in Seq(Sentences)
    BY LinesType
  <2> QED  BY <1>9, <2>1, NoPpsType DEF UartData, Idle, MainPc
<1>10. CASE UartFlush
  BY <1>10, NoPpsType DEF UartFlush, Idle, MainPc
<1>11. CASE LinesDone
  BY <1>11, NoPpsType DEF LinesDone, Idle, MainPc
<1>12. CASE AssociateReadPps
  <2>1. Tail(main.lines) \in Seq(Sentences)
    BY <1>12, LinesType DEF AssociateReadPps
  <2>2. CASE main' = NextLine
    BY <1>12, <2>1, <2>2, NoPpsType DEF AssociateReadPps, NextLine, MainPc
  <2>3. CASE /\ Head(main.lines).kind # "corrupt"
             /\ main' = [main EXCEPT !.pc = "assoc_now", !.pps = pps]
    BY <1>12, <2>3 DEF AssociateReadPps, MainPc
  <2> QED  BY <1>12, <2>2, <2>3 DEF AssociateReadPps
<1>13. CASE AssociateReadNow
  BY <1>13 DEF AssociateReadNow, MainPc
<1>14. CASE AssociateCommit
  <2>1. Tail(main.lines) \in Seq(Sentences) /\ Head(main.lines) \in Sentences
    BY <1>14, LinesType DEF AssociateCommit
  <2>2. Head(main.lines).kind \in {"ZDA", "RMC"}
    BY <1>14, <2>1 DEF AssociateCommit, Sentences, SentenceKinds
  <2>3. state' \in TimebaseStates
    BY <1>14, <2>1, <2>2
    DEF AssociateCommit, Accepted, Sentences, PpsSnapshots, TimebaseStates
  <2>4. main' \in MainStates /\ main'.pc = "line"
    BY <1>14, <2>1, NoPpsType DEF AssociateCommit, NextLine, MainPc
  <2> QED  BY <1>14, <2>3, <2>4 DEF AssociateCommit
<1>15. ASSUME NEW r \in Readers, ReadPps(r) PROVE TypeOK'
  <2> DEFINE started == [pc |-> "now", pps |-> pps, now |-> 0, healthy |-> Healthy]
  <2>1. Healthy \in BOOLEAN
    BY Zenon DEF Healthy
  <2>2. started \in ReaderStates
    BY <2>1, Zenon DEF ReaderStates
  <2> HIDE DEF started
  <2>3. reader' \in [Readers -> ReaderStates]
    BY <1>15, <2>2 DEF ReadPps, started
  <2> QED  BY <1>15, <2>3 DEF ReadPps
<1>16. ASSUME NEW r \in Readers, ReadNow(r) PROVE TypeOK'
  <2>1. reader' \in [Readers -> ReaderStates]
    BY <1>16 DEF ReadNow, ReaderStates
  <2> QED  BY <1>16, <2>1 DEF ReadNow
<1>17. ASSUME NEW r \in Readers, CopyState(r) PROVE TypeOK'
  <2>1. reader[r].pps.count \in Nat /\ reader[r].pps.edge \in Nat
    BY DEF PpsSnapshots, ReaderStates
  <2>2. state.count \in Nat /\ state.anchor \in Nat
    BY DEF TimebaseStates
  <2>3. PpsDelta(reader[r].pps.count, state.count) \in Nat
    BY <2>1, <2>2, DeltaNat
  <2>4. ProjectedSecond(reader[r].pps) \in Nat
    BY <2>2, <2>3 DEF ProjectedSecond
  <2>5. [unix |-> ProjectedSecond(reader[r].pps),
         edge |-> reader[r].pps.edge] \in Served
    BY <2>1, <2>4 DEF Served
  <2>6. lastServed' \in [Readers -> Served]
    BY <1>17, <2>5, Zenon DEF CopyState
  <2>7. IdleReader \in ReaderStates
    BY NoPpsType DEF IdleReader, ReaderStates
  <2>8. reader' \in [Readers -> ReaderStates]
    BY <1>17, <2>7 DEF CopyState
  <2> QED  BY <1>17, <2>6, <2>8 DEF CopyState
<1>18. CASE UNCHANGED vars
  BY <1>18 DEF vars
<1> QED
  BY <1>1, <1>2, <1>3, <1>4, <1>5, <1>6, <1>7, <1>8, <1>9, <1>10, <1>11,
     <1>12, <1>13, <1>14, <1>15, <1>16, <1>17, <1>18
  DEF Next, MainStep, ReaderStep

\* Every variable keeps its type (timebase.c, pps.c, main.c).
THEOREM TypeCorrect == Spec => []TypeOK
BY TypeInit, TypeNext, PTL DEF Spec

-----------------------------------------------------------------------------
(***************************************************************************)
(* The order of snapshots.                                                 *)
(***************************************************************************)

LEMMA EarlierReflexive ==
  ASSUME NEW p \in PpsSnapshots PROVE Earlier(p, p)
BY DEF Earlier, PpsSnapshots

LEMMA EarlierTransitive ==
  ASSUME NEW p \in PpsSnapshots, NEW q \in PpsSnapshots, NEW t \in PpsSnapshots,
         Earlier(p, q), Earlier(q, t)
  PROVE  Earlier(p, t)
BY DEF Earlier, PpsSnapshots

LEMMA NoPpsEarliest ==
  ASSUME NEW p \in PpsSnapshots, Stamped(p)
  PROVE  Earlier(NoPps, p) /\ Stamped(NoPps)
<1>1. 0 * Second = 0
  BY SecondAssumption
<1> QED  BY <1>1, WindowAssumption DEF Earlier, Stamped, NoPps, PpsSnapshots

\* A snapshot taken by the ISR in the current second is later than the last.
LEMMA NewEdgeLater ==
  ASSUME TypeOK, ClockInv, Stamped(pps), edgePending,
         NEW p, p = [count |-> pps.count + 1, stamp |-> now, edge |-> second]
  PROVE  p \in PpsSnapshots /\ Earlier(pps, p) /\ Stamped(p)
<1>1. pps \in PpsSnapshots /\ now \in Nat /\ second \in Nat
  BY DEF TypeOK
<1>2. p \in PpsSnapshots
  BY <1>1 DEF PpsSnapshots
<1>3. second * Second <= now /\ now <= second * Second + IsrLatency
  BY DEF ClockInv
<1>4. pps.edge < second /\ pps.stamp <= now /\ pps.count <= pps.edge
  BY DEF ClockInv, Stamped
<1> QED  BY <1>1, <1>2, <1>3, <1>4 DEF Earlier, Stamped, PpsSnapshots

LEMMA AnchorType == ASSUME TypeOK PROVE Anchor \in PpsSnapshots
BY DEF TypeOK, TimebaseStates, Anchor, PpsSnapshots

LEMMA SnapshotTypes ==
  ASSUME TypeOK
  PROVE  /\ pps \in PpsSnapshots /\ main.pps \in PpsSnapshots
         /\ \A r \in Readers : reader[r].pps \in PpsSnapshots
BY DEF TypeOK, MainStates, ReaderStates

\* A snapshot older than the anchor is not granted: its PPS is fresh, so that it
\* is only so little older that the count's difference falls in the upper half of
\* the range.
LEMMA GrantedNotOlder ==
  ASSUME TypeOK, SnapshotInv, AnchorInv, NEW r \in Readers, SnapshotGranted(r)
  PROVE  state.count <= reader[r].pps.count
<1> DEFINE p == reader[r].pps
<1>1. p \in PpsSnapshots /\ Anchor \in PpsSnapshots
  BY AnchorType, SnapshotTypes
<1>2. /\ state.count \in Nat /\ state.edge \in Nat
      /\ state.stamp \in Nat /\ state.lastUpdate \in Nat
      /\ reader[r].now \in Nat
  BY DEF TypeOK, TimebaseStates, ReaderStates
<1>3. /\ Anchor.count = state.count /\ Anchor.edge = state.edge
      /\ Anchor.stamp = state.stamp
  BY DEF Anchor
<1>4. p.count \in Nat /\ p.edge \in Nat /\ p.stamp \in Nat
  BY <1>1 DEF PpsSnapshots
<1>5. Stamped(p) /\ Stamped(Anchor) /\ Comparable(p, Anchor)
  BY DEF SnapshotInv
<1>6. PpsDelta(p.count, state.count) <= HalfRange
  BY DEF SnapshotGranted
<1>7. PpsDelta(p.count, state.count) \in Nat
  BY <1>2, <1>4, DeltaNat
<1>8. state.stamp <= state.lastUpdate
  BY DEF AnchorInv
<1>9. SUFFICES ASSUME p.count < state.count PROVE FALSE
  BY <1>2, <1>4
<1>10. Earlier(p, Anchor)
  BY <1>2, <1>3, <1>4, <1>5, <1>9 DEF Comparable, Earlier
<1>11. state.count - p.count <= state.edge - p.edge
  BY <1>3, <1>10 DEF Earlier
<1>12. /\ reader[r].now - p.stamp <= PpsTimeout
      /\ state.lastUpdate <= reader[r].now
  BY <1>2, <1>4, TimeoutAssumption DEF SnapshotGranted
<1>13. state.stamp <= p.stamp + PpsTimeout
  BY <1>2, <1>4, <1>8, <1>12, TimeoutAssumption
<1>14. state.edge * Second <= p.edge * Second + IsrLatency + PpsTimeout
  <2>1. state.edge * Second <= state.stamp
    BY <1>3, <1>5 DEF Stamped
  <2>2. p.stamp <= p.edge * Second + IsrLatency
    BY <1>5 DEF Stamped
  <2>3. state.edge * Second \in Int /\ p.edge * Second \in Int
    BY <1>2, <1>4, SecondAssumption
  <2> QED  BY <1>2, <1>4, <1>13, <2>1, <2>2, <2>3,
              TimeoutAssumption, WindowAssumption
<1>15. (state.edge - p.edge) * Second < HalfRange * Second
  <2>1. (state.edge - p.edge) * Second = state.edge * Second - p.edge * Second
    BY <1>2, <1>4, SecondAssumption
  <2>2. state.edge * Second \in Int /\ p.edge * Second \in Int
        /\ HalfRange * Second \in Int
    BY <1>2, <1>4, SecondAssumption, CountFacts
  <2> QED  BY <1>14, <2>1, <2>2, CountFacts, TimeoutAssumption, WindowAssumption
<1>16. state.edge - p.edge < HalfRange
  <2> DEFINE d == state.edge - p.edge
  <2>1. d \in Int /\ HalfRange \in Int
    BY <1>2, <1>4, CountFacts
  <2>2. d * Second < HalfRange * Second => d < HalfRange
    <3> HIDE DEF d
    <3> QED  BY <2>1, SecondProduct
  <2> QED  BY <1>15, <2>2
<1>17. PpsDelta(p.count, state.count) > HalfRange
  BY <1>2, <1>4, <1>9, <1>11, <1>16, DeltaBackward, CountFacts
<1> QED  BY <1>6, <1>7, <1>17, CountFacts

\* What a granted snapshot serves is not later than its edge's second: the
\* count's difference is at most the number of seconds since the anchor.
LEMMA GrantedNotAhead ==
  ASSUME TypeOK, SnapshotInv, AnchorInv, NEW r \in Readers, SnapshotGranted(r)
  PROVE  ProjectedSecond(reader[r].pps) <= reader[r].pps.edge
<1> DEFINE p == reader[r].pps
<1>1. p \in PpsSnapshots /\ Anchor \in PpsSnapshots
  BY AnchorType, SnapshotTypes
<1>2. state.anchor \in Nat /\ state.count \in Nat /\ state.edge \in Nat
  BY DEF TypeOK, TimebaseStates
<1>3. p.count \in Nat /\ p.edge \in Nat
  BY <1>1 DEF PpsSnapshots
<1>4. state.count <= p.count
  BY GrantedNotOlder
<1>5. PpsDelta(p.count, state.count) \in Nat
      /\ PpsDelta(p.count, state.count) <= p.count - state.count
  BY <1>2, <1>3, <1>4, DeltaForward
<1>6. p.count - state.count <= p.edge - state.edge
  BY <1>2, <1>3, <1>4 DEF SnapshotInv, Comparable, Earlier, Anchor
<1> QED  BY <1>2, <1>3, <1>5, <1>6 DEF ProjectedSecond, AnchorInv

\* A label inside the association window of a snapshot does not name a second
\* after the snapshot's.
LEMMA WindowBoundsLabel ==
  ASSUME NEW label \in Nat, NEW at \in Nat, NEW arrival \in Nat,
         NEW p \in PpsSnapshots, Stamped(p),
         label * Second <= at, at <= arrival,
         AssociationDelayValid(arrival, p.stamp)
  PROVE  label <= p.edge
<1>1. p.edge \in Nat /\ p.stamp \in Nat
  BY DEF PpsSnapshots
<1>2. arrival <= p.stamp + AssocMax
  BY <1>1, WindowAssumption DEF AssociationDelayValid
<1>3. p.stamp <= p.edge * Second + IsrLatency
  BY DEF Stamped
<1>4. label * Second \in Int /\ p.edge * Second \in Int
  BY <1>1, SecondAssumption
<1>5. label * Second < p.edge * Second + Second
  BY <1>1, <1>2, <1>3, <1>4, WindowAssumption, SecondAssumption
<1> QED  BY <1>1, <1>5, SecondCancel

-----------------------------------------------------------------------------
(***************************************************************************)
(* The inductive invariant.                                                *)
(***************************************************************************)

LEMMA IInvInit == Init => IInv
<1> SUFFICES ASSUME Init PROVE IInv
  OBVIOUS
<1>1. TypeOK
  BY TypeInit
<1>2. Stamped(NoPps) /\ Earlier(NoPps, NoPps)
  <2>1. 0 * Second = 0
    BY SecondAssumption
  <2> QED  BY <2>1, WindowAssumption DEF Stamped, Earlier, NoPps
<1>3. Anchor = NoPps /\ pps = NoPps /\ main.pps = NoPps
  BY DEF Init, Anchor, NoPps
<1>4. \A r \in Readers : reader[r].pps = NoPps
  BY DEF Init, IdleReader
<1>5. SnapshotInv
  BY <1>2, <1>3, <1>4 DEF SnapshotInv, Comparable
<1>6. ClockInv
  <2>1. 0 * Second = 0
    BY SecondAssumption
  <2> QED  BY <2>1, SecondAssumption, WindowAssumption DEF Init, ClockInv, NoPps
<1>7. LinesInv
  BY DEF Init, LinesInv, LinesTimely
<1>8. AssociationInv /\ AnchorInv
  BY DEF Init, AssociationInv, AnchorInv
<1>9. ServedNeverAhead
  BY DEF Init, ServedNeverAhead, NothingServed
<1> QED  BY <1>1, <1>5, <1>6, <1>7, <1>8, <1>9 DEF IInv

\* The steps that change one snapshot keep the order of all of them.
LEMMA SnapshotNext ==
  ASSUME IInv, [Next]_vars, TypeOK'
  PROVE  SnapshotInv'
<1>1. /\ TypeOK /\ SnapshotInv /\ ClockInv /\ AssociationInv
  BY DEF IInv
<1>2. /\ pps \in PpsSnapshots /\ main.pps \in PpsSnapshots
      /\ Anchor \in PpsSnapshots
      /\ \A r \in Readers : reader[r].pps \in PpsSnapshots
  BY <1>1, AnchorType, SnapshotTypes
<1>3. Stamped(pps) /\ Stamped(main.pps) /\ Stamped(Anchor)
  BY <1>1 DEF SnapshotInv
<1>4. Earlier(main.pps, pps) /\ Earlier(Anchor, pps) /\ Earlier(pps, pps)
  BY <1>1, <1>2, EarlierReflexive DEF SnapshotInv
<1>5. \A r \in Readers :
        /\ Stamped(reader[r].pps) /\ Earlier(reader[r].pps, pps)
        /\ Comparable(reader[r].pps, main.pps)
        /\ Comparable(reader[r].pps, Anchor)
  BY <1>1 DEF SnapshotInv
<1>6. /\ Stamped(NoPps) /\ Earlier(NoPps, pps) /\ Earlier(NoPps, main.pps)
      /\ Earlier(NoPps, Anchor)
      /\ \A r \in Readers : Earlier(NoPps, reader[r].pps)
  BY <1>2, <1>3, <1>5, NoPpsEarliest
<1>7. ASSUME UNCHANGED <<pps, main, state, reader>>
      PROVE  SnapshotInv'
  <2>1. Anchor' = Anchor
    BY <1>7 DEF Anchor
  <2>2. \A r \in Readers : reader'[r].pps = reader[r].pps
    BY <1>7
  <2> QED  BY <1>3, <1>4, <1>5, <1>7, <2>1, <2>2 DEF SnapshotInv
<1>8. CASE PpsIsr
  <2>1. Earlier(pps, pps') /\ Stamped(pps') /\ pps' \in PpsSnapshots
    BY <1>1, <1>3, <1>8, NewEdgeLater DEF PpsIsr
  <2>2. Anchor' = Anchor /\ main' = main /\ reader' = reader
    BY <1>8 DEF PpsIsr, Anchor
  <2>3. /\ Earlier(main.pps, pps') /\ Earlier(Anchor, pps')
        /\ \A r \in Readers : Earlier(reader[r].pps, pps')
    BY <1>2, <1>4, <1>5, <2>1, EarlierTransitive
  <2> QED  BY <1>3, <1>5, <2>1, <2>2, <2>3 DEF SnapshotInv
\* The main task drops its snapshot, takes a new one, or keeps it.
<1>9. ASSUME UNCHANGED <<pps, state, reader>>,
             main'.pps \in {main.pps, pps, NoPps}
      PROVE  SnapshotInv'
  <2>1. Anchor' = Anchor
    BY <1>9 DEF Anchor
  <2>2. Stamped(main'.pps) /\ Earlier(main'.pps, pps)
    BY <1>3, <1>4, <1>6, <1>9
  <2>3. \A r \in Readers : Comparable(reader[r].pps, main'.pps)
    BY <1>5, <1>6, <1>9 DEF Comparable
  <2> QED  BY <1>3, <1>4, <1>5, <1>9, <2>1, <2>2, <2>3 DEF SnapshotInv
<1>10. CASE PollReadPps \/ PollReadNow \/ UartQuiet \/ UartData \/ UartFlush
            \/ LinesDone \/ AssociateReadPps \/ AssociateReadNow
  <2>1. UNCHANGED <<pps, state, reader>>
    BY <1>10 DEF PollReadPps, PollReadNow, UartQuiet, UartData, UartFlush,
                 LinesDone, AssociateReadPps, AssociateReadNow
  <2>2. main'.pps \in {main.pps, pps, NoPps}
    <3>1. main \in MainStates
      BY <1>1 DEF TypeOK
    <3>2. CASE PollReadPps \/ PollReadNow \/ AssociateReadNow
      BY <3>1, <3>2 DEF PollReadPps, PollReadNow, AssociateReadNow, MainStates
    <3>3. CASE UartQuiet \/ UartFlush \/ LinesDone
      BY <3>3 DEF UartQuiet, UartFlush, LinesDone, Idle
    <3>4. CASE UartData
      BY <3>4 DEF UartData, Idle
    <3>5. CASE AssociateReadPps
      <4>1. main' = NextLine \/ main' = [main EXCEPT !.pc = "assoc_now", !.pps = pps]
        BY <3>5 DEF AssociateReadPps
      <4> QED  BY <3>1, <4>1 DEF NextLine, MainStates
    <3> QED  BY <1>10, <3>2, <3>3, <3>4, <3>5
  <2> QED  BY <1>9, <2>1, <2>2
<1>11. CASE PollCheck
  <2>1. pps' = pps /\ reader' = reader /\ main'.pps = NoPps
    BY <1>11 DEF PollCheck, Idle
  <2>2. Anchor' = Anchor
    BY <1>1, <1>11 DEF PollCheck, Anchor, TypeOK, TimebaseStates
  <2>3. \A r \in Readers : Comparable(reader[r].pps, NoPps)
    BY <1>6 DEF Comparable
  <2> QED  BY <1>3, <1>4, <1>5, <1>6, <2>1, <2>2, <2>3 DEF SnapshotInv
<1>12. CASE AssociateCommit
  <2>1. pps' = pps /\ reader' = reader
    BY <1>12 DEF AssociateCommit
  <2>2. main'.pps = NoPps
    BY <1>1, <1>12 DEF AssociateCommit, NextLine, TypeOK, MainStates
  <2>3. Anchor' \in {Anchor, main.pps}
    <3>1. main.pps = [count |-> main.pps.count, stamp |-> main.pps.stamp,
                      edge |-> main.pps.edge]
      BY <1>2 DEF PpsSnapshots
    <3>2. CASE state' = state
      BY <3>2 DEF Anchor
    <3>3. CASE state' = Accepted(Head(main.lines))
      BY <3>1, <3>3 DEF Anchor, Accepted
    <3> QED  BY <1>12, <3>2, <3>3 DEF AssociateCommit
  <2>4. /\ Stamped(Anchor') /\ Earlier(Anchor', pps)
        /\ \A r \in Readers : Comparable(reader[r].pps, Anchor')
    BY <1>3, <1>4, <1>5, <2>3
  <2>5. \A r \in Readers : Comparable(reader[r].pps, NoPps)
    BY <1>6 DEF Comparable
  <2> QED  BY <1>3, <1>4, <1>5, <1>6, <2>1, <2>2, <2>4, <2>5 DEF SnapshotInv
<1>13. ASSUME NEW r \in Readers, ReaderStep(r) PROVE SnapshotInv'
  <2>1. pps' = pps /\ main' = main /\ Anchor' = Anchor
    BY <1>13 DEF ReaderStep, ReadPps, ReadNow, CopyState, Anchor
  <2>2. \A t \in Readers : reader'[t].pps \in {reader[t].pps, pps, NoPps}
    <3>1. reader \in [Readers -> ReaderStates]
      BY <1>1 DEF TypeOK
    <3>2. CASE ReadPps(r)
      BY <3>1, <3>2 DEF ReadPps
    <3>3. CASE ReadNow(r)
      BY <3>1, <3>3 DEF ReadNow, ReaderStates
    <3>4. CASE CopyState(r)
      BY <3>1, <3>4 DEF CopyState, IdleReader
    <3> QED  BY <1>13, <3>2, <3>3, <3>4 DEF ReaderStep
  <2>3. \A t \in Readers :
          /\ Stamped(reader'[t].pps) /\ Earlier(reader'[t].pps, pps)
          /\ Comparable(reader'[t].pps, main.pps)
          /\ Comparable(reader'[t].pps, Anchor)
    BY <1>3, <1>4, <1>5, <1>6, <2>2 DEF Comparable
  <2> QED  BY <1>3, <1>4, <2>1, <2>3 DEF SnapshotInv
<1>14. CASE Tick \/ PpsMissed \/ Receive \/ UNCHANGED vars
  BY <1>7, <1>14 DEF Tick, PpsMissed, Receive, vars
<1> QED
  BY <1>8, <1>10, <1>11, <1>12, <1>13, <1>14 DEF Next, MainStep

\* The clock, the running second and the pending edge.
LEMMA ClockNext ==
  ASSUME IInv, [Next]_vars, TypeOK'
  PROVE  ClockInv'
<1>1. TypeOK /\ ClockInv /\ Stamped(pps)
  BY DEF IInv, SnapshotInv
<1>2. /\ now \in Nat /\ second \in Nat /\ pps \in PpsSnapshots
      /\ pps.edge \in Nat /\ pps.stamp \in Nat
  BY <1>1 DEF TypeOK, PpsSnapshots
<1>3. CASE Tick
  <2>1. pps' = pps /\ now' = now + 1
    BY <1>3 DEF Tick
  <2>2. second * Second \in Nat /\ (second + 1) * Second = second * Second + Second
    BY <1>2, SecondAssumption
  <2>3. CASE now + 1 = second * Second + Second
    <3>1. second' = second + 1 /\ edgePending'
      BY <1>3, <2>3 DEF Tick
    <3>2. second' * Second = second * Second + Second
      BY <2>2, <3>1
    <3> QED
      BY <1>1, <1>2, <2>1, <2>2, <2>3, <3>1, <3>2,
         SecondAssumption, WindowAssumption DEF ClockInv
  <2>4. CASE now + 1 # second * Second + Second
    <3>1. second' = second /\ edgePending' = edgePending
      BY <1>3, <2>4 DEF Tick
    <3>2. edgePending => now + 1 <= second * Second + IsrLatency
      BY <1>2, <1>3, <2>2, WindowAssumption DEF Tick
    <3> QED
      BY <1>1, <1>2, <2>1, <2>2, <2>4, <3>1, <3>2,
         SecondAssumption, WindowAssumption DEF ClockInv
  <2> QED  BY <2>3, <2>4
<1>4. CASE PpsIsr
  <2>1. /\ now' = now /\ second' = second /\ ~edgePending'
        /\ pps'.edge = second /\ pps'.stamp = now
    BY <1>4 DEF PpsIsr
  <2> QED  BY <1>1, <1>2, <2>1 DEF ClockInv
<1>5. CASE PpsMissed
  BY <1>1, <1>5 DEF PpsMissed, ClockInv
<1>6. CASE UNCHANGED <<now, second, edgePending, pps>>
  BY <1>1, <1>6 DEF ClockInv
<1>7. ASSUME NEW r \in Readers, ReaderStep(r)
      PROVE  UNCHANGED <<now, second, edgePending, pps>>
  BY <1>7 DEF ReaderStep, ReadPps, ReadNow, CopyState
<1>8. MainStep => UNCHANGED <<now, second, edgePending, pps>>
  BY DEF MainStep, PollReadPps, PollReadNow, PollCheck, UartQuiet, UartData,
         UartFlush, LinesDone, AssociateReadPps, AssociateReadNow,
         AssociateCommit
<1>9. Receive \/ UNCHANGED vars => UNCHANGED <<now, second, edgePending, pps>>
  BY DEF Receive, vars
<1> QED  BY <1>3, <1>4, <1>5, <1>6, <1>7, <1>8, <1>9 DEF Next

\* Queueing a timely line, and taking lines off a queue, keep it timely.
LEMMA TimelyParts ==
  ASSUME NEW s \in Seq(Sentences), LinesTimely(s)
  PROVE  /\ LinesTimely(<<>>)
         /\ s # <<>> => LinesTimely(Tail(s))
         /\ \A n \in 1 .. Len(s) :
              LinesTimely(SubSeq(s, 1, n)) /\ LinesTimely(SubSeq(s, n + 1, Len(s)))
<1>1. LinesTimely(<<>>)
  BY DEF LinesTimely
<1>2. ASSUME s # <<>> PROVE LinesTimely(Tail(s))
  <2>1. \A i \in 1 .. Len(Tail(s)) :
          i + 1 \in 1 .. Len(s) /\ Tail(s)[i] = s[i + 1]
    BY <1>2
  <2> QED  BY <2>1 DEF LinesTimely
<1>3. ASSUME NEW n \in 1 .. Len(s) PROVE LinesTimely(SubSeq(s, 1, n))
  <2>1. \A i \in 1 .. Len(SubSeq(s, 1, n)) :
          i \in 1 .. Len(s) /\ SubSeq(s, 1, n)[i] = s[i]
    OBVIOUS
  <2> QED  BY <2>1 DEF LinesTimely
<1>4. ASSUME NEW n \in 1 .. Len(s) PROVE LinesTimely(SubSeq(s, n + 1, Len(s)))
  <2>1. \A i \in 1 .. Len(SubSeq(s, n + 1, Len(s))) :
          n + i \in 1 .. Len(s) /\ SubSeq(s, n + 1, Len(s))[i] = s[n + i]
    OBVIOUS
  <2> QED  BY <2>1 DEF LinesTimely
<1> QED  BY <1>1, <1>2, <1>3, <1>4

LEMMA TimelyAppend ==
  ASSUME NEW s \in Seq(Sentences), LinesTimely(s), NEW line \in Sentences,
         line.label * Second <= line.at
  PROVE  LinesTimely(Append(s, line))
<1>1. \A i \in 1 .. Len(Append(s, line)) :
        \/ i \in 1 .. Len(s) /\ Append(s, line)[i] = s[i]
        \/ Append(s, line)[i] = line
  BY AppendProperties
<1> QED  BY <1>1 DEF LinesTimely

\* Sentences in the driver and in the event being processed.
LEMMA LinesNext ==
  ASSUME IInv, [Next]_vars, HonestReceiver
  PROVE  LinesInv'
<1>1. TypeOK /\ LinesInv /\ ClockInv
  BY DEF IInv
<1>2. rx \in Seq(Sentences) /\ main \in MainStates /\ main.lines \in Seq(Sentences)
      /\ now \in Nat /\ second \in Nat
  BY <1>1 DEF TypeOK, MainStates
<1>3. LinesTimely(rx) /\ LinesTimely(main.lines) /\ LinesTimely(<<>>)
  BY <1>1, <1>2, TimelyParts DEF LinesInv
<1>4. CASE Receive
  <2> PICK kind \in Kinds, e \in LabelErrors :
        /\ second + e >= 0
        /\ rx' = Append(rx, [kind |-> kind, label |-> second + e, at |-> now])
    BY <1>4 DEF Receive
  <2> DEFINE line == [kind |-> kind, label |-> second + e, at |-> now]
             k == second + e
  <2>1. k \in Nat /\ k <= second
    BY <1>2, LabelAssumption DEF HonestReceiver
  <2>2. k * Second <= now
    <3> HIDE DEF k
    <3>1. k * Second <= second * Second /\ k * Second \in Int /\ second * Second \in Int
      BY <1>2, <2>1, SecondAssumption
    <3>2. second * Second <= now
      BY <1>1 DEF ClockInv
    <3> QED  BY <1>2, <3>1, <3>2
  <2>3. line \in Sentences /\ line.label * Second <= line.at
    BY <1>2, <2>1, <2>2, LabelAssumption DEF Sentences
  <2> HIDE DEF line
  <2>4. LinesTimely(Append(rx, line))
    BY <1>2, <1>3, <2>3, TimelyAppend
  <2>5. rx' = Append(rx, line) /\ main' = main
    BY <1>4 DEF Receive, line
  <2> QED  BY <1>3, <2>4, <2>5 DEF LinesInv
<1>5. CASE UartData
  <2> PICK n \in 1 .. Len(rx) :
        /\ main' = [Idle("line") EXCEPT !.lines = SubSeq(rx, 1, n), !.eventAt = now]
        /\ rx' = SubSeq(rx, n + 1, Len(rx))
    BY <1>5 DEF UartData
  <2>1. main'.lines = SubSeq(rx, 1, n)
    BY DEF Idle
  <2> QED  BY <1>2, <1>3, <2>1, TimelyParts DEF LinesInv
\* Elsewhere lines are dropped or stay where they are.
<1>6. CASE PollReadPps \/ PollReadNow \/ AssociateReadNow
  <2>1. rx' = rx /\ main'.lines = main.lines
    BY <1>2, <1>6 DEF PollReadPps, PollReadNow, AssociateReadNow, MainStates
  <2> QED  BY <1>3, <2>1 DEF LinesInv
<1>7. CASE PollCheck \/ UartQuiet \/ UartFlush \/ LinesDone
  <2>1. (rx' = rx \/ rx' = <<>>) /\ main'.lines = <<>>
    BY <1>7 DEF PollCheck, UartQuiet, UartFlush, LinesDone, Idle
  <2> QED  BY <1>3, <2>1 DEF LinesInv
<1>8. CASE AssociateReadPps \/ AssociateCommit
  <2>1. main.lines # <<>> /\ rx' = rx
    BY <1>1, <1>8 DEF AssociateReadPps, AssociateCommit, TypeOK
  <2>2. main' = NextLine \/ main' = [main EXCEPT !.pc = "assoc_now", !.pps = pps]
    BY <1>8 DEF AssociateReadPps, AssociateCommit
  <2>3. main'.lines = main.lines \/ main'.lines = Tail(main.lines)
    BY <1>2, <2>2 DEF NextLine, MainStates
  <2>4. LinesTimely(Tail(main.lines))
    BY <1>2, <1>3, <2>1, TimelyParts
  <2> QED  BY <1>3, <2>1, <2>3, <2>4 DEF LinesInv
<1>9. CASE Tick \/ PpsIsr \/ PpsMissed \/ UNCHANGED vars
  <2>1. rx' = rx /\ main' = main
    BY <1>9 DEF Tick, PpsIsr, PpsMissed, vars
  <2> QED  BY <1>3, <2>1 DEF LinesInv
<1>10. ASSUME NEW r \in Readers, ReaderStep(r) PROVE LinesInv'
  <2>1. rx' = rx /\ main' = main
    BY <1>10 DEF ReaderStep, ReadPps, ReadNow, CopyState
  <2> QED  BY <1>3, <2>1 DEF LinesInv
<1> QED
  BY <1>4, <1>5, <1>6, <1>7, <1>8, <1>9, <1>10 DEF Next, MainStep

\* The label being associated, against the snapshot it is associated with.
LEMMA AssociationNext ==
  ASSUME IInv, [Next]_vars, TypeOK'
  PROVE  AssociationInv'
<1>1. TypeOK /\ AssociationInv /\ SnapshotInv /\ LinesInv /\ ClockInv
  BY DEF IInv
<1>2. main \in MainStates /\ main.lines \in Seq(Sentences) /\ pps \in PpsSnapshots
      /\ now \in Nat
  BY <1>1 DEF TypeOK, MainStates
<1>3. CASE AssociateReadPps
  <2>1. main.lines # <<>> /\ Anchor' = Anchor
    BY <1>3 DEF AssociateReadPps, Anchor
  <2>2. CASE main' = NextLine
    BY <1>2, <2>2 DEF NextLine, MainStates, AssociationInv
  <2>3. CASE main' # NextLine
    <3> DEFINE line == main.lines[1]
    <3>1. /\ line \in Sentences /\ Head(main.lines) = line
          /\ 1 \in 1 .. Len(main.lines)
      BY <1>2, <2>1
    <3>2. PICK arrival \in line.at .. main.eventAt :
            /\ AssociationDelayValid(arrival, pps.stamp)
            /\ main' = [main EXCEPT !.pc = "assoc_now", !.pps = pps]
      BY <1>3, <2>3, <3>1 DEF AssociateReadPps
    <3>3. /\ main'.pc = "assoc_now" /\ main'.pps = pps
          /\ main'.lines = main.lines
      BY <1>2, <3>2 DEF MainStates
    <3>4. line.label \in Nat /\ line.at \in Nat /\ arrival \in Nat /\ line.at <= arrival
      BY <1>2, <3>1, <3>2 DEF Sentences, MainStates
    <3>5. line.label * Second <= line.at
      BY <1>1, <3>1 DEF LinesInv, LinesTimely
    <3>6. Stamped(pps) /\ Earlier(Anchor, pps)
      BY <1>1 DEF SnapshotInv
    <3>7. line.label <= pps.edge
      BY <1>2, <3>2, <3>4, <3>5, <3>6, WindowBoundsLabel
    <3> QED  BY <2>1, <3>1, <3>3, <3>6, <3>7 DEF AssociationInv
  <2> QED  BY <2>2, <2>3
<1>4. CASE AssociateReadNow
  <2>1. /\ main'.pc = "assoc_commit" /\ main'.now = now
        /\ main'.lines = main.lines /\ main'.pps = main.pps
    BY <1>2, <1>4 DEF AssociateReadNow, MainStates
  <2>2. main.pps.stamp <= pps.stamp /\ pps.stamp <= now
    BY <1>1 DEF SnapshotInv, Earlier, ClockInv
  <2>3. Anchor' = Anchor
    BY <1>4 DEF AssociateReadNow, Anchor
  <2>4. main.pps.stamp <= now
    BY <1>2, <2>2 DEF MainStates, PpsSnapshots
  <2> QED  BY <1>1, <1>4, <2>1, <2>3, <2>4 DEF AssociateReadNow, AssociationInv
<1>5. ASSUME main'.pc \notin {"assoc_now", "assoc_commit"} PROVE AssociationInv'
  BY <1>5 DEF AssociationInv
<1>6. CASE PollReadPps \/ PollReadNow \/ PollCheck \/ UartQuiet \/ UartData
           \/ UartFlush \/ LinesDone \/ AssociateCommit
  <2>1. CASE PollReadPps \/ PollReadNow
    BY <1>2, <1>5, <2>1 DEF PollReadPps, PollReadNow, MainStates
  <2>2. CASE PollCheck \/ UartQuiet \/ UartFlush \/ LinesDone
    BY <1>5, <2>2 DEF PollCheck, UartQuiet, UartFlush, LinesDone, Idle
  <2>3. CASE UartData
    BY <1>5, <2>3 DEF UartData, Idle
  <2>4. CASE AssociateCommit
    BY <1>2, <1>5, <2>4 DEF AssociateCommit, NextLine, MainStates
  <2> QED  BY <1>6, <2>1, <2>2, <2>3, <2>4
<1>7. ASSUME main' = main, state' = state PROVE AssociationInv'
  BY <1>1, <1>7 DEF AssociationInv, Anchor
<1>8. CASE Tick \/ PpsIsr \/ PpsMissed \/ Receive \/ UNCHANGED vars
  BY <1>7, <1>8 DEF Tick, PpsIsr, PpsMissed, Receive, vars
<1>9. ASSUME NEW r \in Readers, ReaderStep(r) PROVE AssociationInv'
  BY <1>7, <1>9 DEF ReaderStep, ReadPps, ReadNow, CopyState
<1> QED
  BY <1>3, <1>4, <1>6, <1>8, <1>9 DEF Next, MainStep

\* The anchor: a new one names a second no later than its snapshot's.
LEMMA AnchorNext ==
  ASSUME IInv, [Next]_vars, TypeOK'
  PROVE  AnchorInv'
<1>1. TypeOK /\ AnchorInv /\ AssociationInv
  BY DEF IInv
<1>2. main \in MainStates /\ state \in TimebaseStates
  BY <1>1 DEF TypeOK
<1>3. ASSUME UNCHANGED state PROVE AnchorInv'
  BY <1>1, <1>3 DEF AnchorInv
<1>4. CASE AssociateCommit
  <2> DEFINE line == Head(main.lines)
  <2>1. CASE state' = state
    BY <1>3, <2>1
  <2>2. CASE state' = Accepted(line)
    <3>1. /\ line.label <= main.pps.edge /\ main.pps.stamp <= main.now
          /\ Earlier(Anchor, main.pps)
      BY <1>1, <1>4 DEF AssociateCommit, AssociationInv
    <3>2. state.stamp <= main.now
      <4>1. state.stamp <= main.pps.stamp
        BY <3>1 DEF Earlier, Anchor
      <4> QED  BY <1>2, <3>1, <4>1 DEF MainStates, TimebaseStates, PpsSnapshots
    <3>3. CASE KeepRecentZdaAnchor(line.kind)
      <4>1. state'.anchor = state.anchor /\ state'.edge = state.edge
            /\ state'.stamp = state.stamp /\ state'.lastUpdate = main.now
        BY <2>2, <3>3 DEF Accepted
      <4> QED  BY <1>1, <3>2, <4>1 DEF AnchorInv
    <3>4. CASE ~KeepRecentZdaAnchor(line.kind)
      <4>1. state'.anchor = line.label /\ state'.edge = main.pps.edge
            /\ state'.stamp = main.pps.stamp /\ state'.lastUpdate = main.now
        BY <2>2, <3>4 DEF Accepted
      <4> QED  BY <3>1, <4>1 DEF AnchorInv
    <3> QED  BY <3>3, <3>4
  <2> QED  BY <1>4, <2>1, <2>2 DEF AssociateCommit
<1>5. CASE PollCheck
  <2>1. state'.anchor = state.anchor /\ state'.edge = state.edge
        /\ state'.stamp = state.stamp /\ state'.lastUpdate = state.lastUpdate
    BY <1>2, <1>5 DEF PollCheck, TimebaseStates
  <2> QED  BY <1>1, <2>1 DEF AnchorInv
<1>6. CASE PollReadPps \/ PollReadNow \/ UartQuiet \/ UartData \/ UartFlush
           \/ LinesDone \/ AssociateReadPps \/ AssociateReadNow
  BY <1>3, <1>6 DEF PollReadPps, PollReadNow, UartQuiet, UartData, UartFlush,
                    LinesDone, AssociateReadPps, AssociateReadNow
<1>7. CASE Tick \/ PpsIsr \/ PpsMissed \/ Receive \/ UNCHANGED vars
  BY <1>3, <1>7 DEF Tick, PpsIsr, PpsMissed, Receive, vars
<1>8. ASSUME NEW r \in Readers, ReaderStep(r) PROVE AnchorInv'
  BY <1>3, <1>8 DEF ReaderStep, ReadPps, ReadNow, CopyState
<1> QED
  BY <1>4, <1>5, <1>6, <1>7, <1>8 DEF Next, MainStep

\* What the readers were served.
LEMMA ServedNext ==
  ASSUME IInv, [Next]_vars
  PROVE  ServedNeverAhead'
<1>1. TypeOK /\ SnapshotInv /\ AnchorInv /\ ServedNeverAhead
  BY DEF IInv
<1>2. lastServed \in [Readers -> Served]
  BY <1>1 DEF TypeOK
<1>3. ASSUME UNCHANGED lastServed PROVE ServedNeverAhead'
  BY <1>1, <1>3 DEF ServedNeverAhead
<1>4. ASSUME NEW r \in Readers, CopyState(r) PROVE ServedNeverAhead'
  <2>1. CASE SnapshotGranted(r)
    <3>1. ProjectedSecond(reader[r].pps) <= reader[r].pps.edge
      BY <1>1, <2>1, GrantedNotAhead
    <3>2. \A t \in Readers :
            lastServed'[t] = IF t = r THEN [unix |-> ProjectedSecond(reader[r].pps),
                                            edge |-> reader[r].pps.edge]
                                      ELSE lastServed[t]
      BY <1>2, <1>4, <2>1 DEF CopyState
    <3> QED  BY <1>1, <3>1, <3>2 DEF ServedNeverAhead
  <2>2. CASE ~SnapshotGranted(r)
    BY <1>3, <1>4, <2>2 DEF CopyState
  <2> QED  BY <2>1, <2>2
<1>5. CASE PollCheck
  <2>1. lastServed' = lastServed \/ lastServed' = [r \in Readers |-> NothingServed]
    BY <1>5 DEF PollCheck
  <2> QED  BY <1>3, <2>1 DEF ServedNeverAhead, NothingServed
<1>6. ASSUME NEW r \in Readers, ReadPps(r) \/ ReadNow(r) PROVE ServedNeverAhead'
  BY <1>3, <1>6 DEF ReadPps, ReadNow
<1>7. CASE PollReadPps \/ PollReadNow \/ UartQuiet \/ UartData \/ UartFlush
           \/ LinesDone \/ AssociateReadPps \/ AssociateReadNow \/ AssociateCommit
  BY <1>3, <1>7 DEF PollReadPps, PollReadNow, UartQuiet, UartData, UartFlush,
                    LinesDone, AssociateReadPps, AssociateReadNow, AssociateCommit
<1>8. CASE Tick \/ PpsIsr \/ PpsMissed \/ Receive \/ UNCHANGED vars
  BY <1>3, <1>8 DEF Tick, PpsIsr, PpsMissed, Receive, vars
<1> QED
  BY <1>4, <1>5, <1>6, <1>7, <1>8 DEF Next, MainStep, ReaderStep

LEMMA IInvNext ==
  ASSUME HonestReceiver, IInv, [Next]_vars
  PROVE  IInv'
<1>1. TypeOK'
  BY TypeNext DEF IInv
<1> QED
  BY <1>1, SnapshotNext, ClockNext, LinesNext, AssociationNext, AnchorNext,
     ServedNext DEF IInv

\* With a receiver that names no second before it begins, the timebase is never
\* ahead of UTC, neither in its anchor nor in what it serves (timebase.c).
THEOREM NeverAheadOfUtc == HonestReceiver => (Spec => []NeverAhead)
<1> SUFFICES ASSUME HonestReceiver PROVE Spec => []NeverAhead
  OBVIOUS
<1>1. IInv /\ [Next]_vars => IInv'
  BY IInvNext
<1>2. IInv => NeverAhead
  BY DEF IInv, AnchorInv, NeverAhead, AnchorNeverAhead
<1> QED  BY IInvInit, <1>1, <1>2, PTL DEF Spec

\* Only the two critical sections of the main task write the timebase.
LEMMA StateWriters == [Next]_vars => UNCHANGED state \/ AssociateCommit \/ PollCheck
BY DEF Next, vars, MainStep, ReaderStep, Tick, PpsIsr, PpsMissed, Receive,
       PollReadPps, PollReadNow, UartQuiet, UartData, UartFlush, LinesDone,
       AssociateReadPps, AssociateReadNow, ReadPps, ReadNow, CopyState

\* Before the first accepted label the anchor is zero.
NoSourceInv == TypeOK /\ (state.source = "NONE" => state.anchor = 0)

LEMMA NoSource == Spec => []NoSourceInv
<1>1. Init => NoSourceInv
  BY TypeInit DEF Init, NoSourceInv
<1>2. NoSourceInv /\ [Next]_vars => NoSourceInv'
  <2> SUFFICES ASSUME NoSourceInv, [Next]_vars PROVE NoSourceInv'
    OBVIOUS
  <2>1. TypeOK /\ TypeOK' /\ (state.source = "NONE" => state.anchor = 0)
    BY TypeNext DEF NoSourceInv
  <2>2. CASE UNCHANGED state
    BY <2>1, <2>2 DEF NoSourceInv
  <2>3. CASE AssociateCommit
    <3>1. state'.source # "NONE" \/ state' = state
      <4>1. main.lines # <<>> /\ main.lines \in Seq(Sentences)
        BY <2>1, <2>3 DEF AssociateCommit, TypeOK, MainStates
      <4>2. Head(main.lines).kind \in SentenceKinds
        BY <4>1, LinesType DEF Sentences
      <4>3. Head(main.lines).kind # "NONE"
        BY <4>2 DEF SentenceKinds
      <4> QED  BY <2>3, <4>3 DEF AssociateCommit, Accepted, KeepRecentZdaAnchor
    <3> QED  BY <2>1, <3>1 DEF NoSourceInv
  <2>4. CASE PollCheck
    BY <2>1, <2>4 DEF PollCheck, NoSourceInv, TypeOK, TimebaseStates
  <2>5. [Next]_vars => UNCHANGED state \/ AssociateCommit \/ PollCheck
    BY StateWriters
  <2> QED  BY <2>2, <2>3, <2>4, <2>5
<1> QED  BY <1>1, <1>2, PTL DEF Spec

\* Whatever the receiver sends, the anchor's second never decreases
\* (timebase_process_sentence, timebase_poll).
THEOREM AnchorNeverBack == Spec => AnchorMonotone
<1>1. NoSourceInv /\ [Next]_vars => [state'.anchor >= state.anchor]_vars
  <2> SUFFICES ASSUME NoSourceInv, [Next]_vars PROVE state'.anchor >= state.anchor
    OBVIOUS
  <2>0. TypeOK /\ (state.source = "NONE" => state.anchor = 0)
    BY DEF NoSourceInv
  <2>1. state \in TimebaseStates /\ state.anchor \in Nat /\ state.count \in Nat
    BY <2>0 DEF TypeOK, TimebaseStates
  <2>2. CASE UNCHANGED state
    BY <2>1, <2>2
  <2>3. CASE AssociateCommit
    <3> DEFINE line == Head(main.lines)
    <3>1. line \in Sentences /\ line.label \in Nat /\ main.pps.count \in Nat
      <4>1. main.lines # <<>> /\ main \in MainStates
        BY <2>0, <2>3 DEF AssociateCommit, TypeOK
      <4>2. line \in Sentences
        BY <4>1, LinesType DEF MainStates
      <4> QED  BY <4>1, <4>2 DEF MainStates, PpsSnapshots, Sentences
    <3>2. CASE ~LabelAccepted(line.label) \/ KeepRecentZdaAnchor(line.kind)
      <4>1. state'.anchor = state.anchor
        BY <2>3, <3>2 DEF AssociateCommit, Accepted
      <4> QED  BY <2>1, <4>1
    <3>3. CASE LabelAccepted(line.label) /\ ~KeepRecentZdaAnchor(line.kind)
      <4>1. state'.anchor = line.label
        BY <2>3, <3>3 DEF AssociateCommit, Accepted
      <4>2. CASE state.valid
        <5>1. PpsDelta(main.pps.count, state.count) \in Nat
          BY <2>1, <3>1, DeltaNat
        <5>2. line.label - (state.anchor + PpsDelta(main.pps.count, state.count)) \in {0, 1}
          BY <3>3, <4>2 DEF LabelAccepted, ProjectedSecond
        <5> QED  BY <2>1, <3>1, <4>1, <5>1, <5>2
      <4>3. CASE ~state.valid
        BY <2>0, <2>1, <3>1, <3>3, <4>1, <4>3 DEF LabelAccepted
      <4> QED  BY <4>2, <4>3
    <3> QED  BY <3>2, <3>3
  <2>4. CASE PollCheck
    BY <2>1, <2>4 DEF PollCheck, TimebaseStates
  <2>5. UNCHANGED state \/ AssociateCommit \/ PollCheck
    BY StateWriters
  <2> QED  BY <2>2, <2>3, <2>4, <2>5
<1> QED  BY NoSource, <1>1, PTL DEF Spec, AnchorMonotone

-----------------------------------------------------------------------------
(***************************************************************************)
(* The implementation of UtcSource.                                        *)
(***************************************************************************)

\* What a reader was served is within the reach of what it will be served next.
ServedLimit(r) ==
  Offset(state) + (IF reader[r].pc = "idle" THEN pps.count ELSE reader[r].pps.count)

ServedInv ==
  /\ now <= MaxNow
  /\ ~state.valid => \A r \in Readers : lastServed[r] = NothingServed
  /\ \A r \in Readers :
       lastServed[r].unix = -1 \/ lastServed[r].unix <= ServedLimit(r)

SourceInv == IInv /\ ServedInv

LEMMA SourceTypes ==
  ASSUME IInv
  PROVE  /\ pps.count \in Nat /\ state.anchor \in Nat /\ state.count \in Nat
         /\ state.valid \in BOOLEAN /\ Offset(state) \in Int
         /\ main.pps.count \in Nat
         /\ \A r \in Readers : /\ reader[r].pps.count \in Nat
                               /\ reader[r].pc \in {"idle", "now", "copy"}
                               /\ ServedLimit(r) \in Int
                               /\ lastServed[r].unix \in Int
<1>1. /\ pps \in PpsSnapshots /\ state \in TimebaseStates /\ main \in MainStates
      /\ reader \in [Readers -> ReaderStates] /\ lastServed \in [Readers -> Served]
  BY DEF IInv, TypeOK
<1>2. pps.count \in Nat /\ state.anchor \in Nat /\ state.count \in Nat
      /\ state.valid \in BOOLEAN /\ main.pps.count \in Nat
  BY <1>1 DEF PpsSnapshots, TimebaseStates, MainStates
<1>3. ASSUME NEW r \in Readers
      PROVE  /\ reader[r].pps.count \in Nat
             /\ reader[r].pc \in {"idle", "now", "copy"}
             /\ lastServed[r].unix \in Int
  BY <1>1 DEF ReaderStates, PpsSnapshots, Served
<1> QED  BY <1>2, <1>3 DEF ServedLimit, Offset

\* The unsigned difference is the true one as long as the count has not wrapped.
LEMMA DeltaExact ==
  ASSUME NEW p \in Nat, NEW q \in Nat, q <= p, p < CountMod
  PROVE  PpsDelta(p, q) = p - q
<1> DEFINE d == p - q
<1>1. d \in Nat /\ d < CountMod
  BY CountFacts
<1>2. d % CountMod = d
  <2> HIDE DEF d
  <2> QED  BY <1>1, CountFacts
<1> QED  BY <1>2 DEF PpsDelta

LEMMA CountInLifetime ==
  ASSUME Lifetime, SourceInv PROVE pps.count < CountMod
<1>1. pps \in PpsSnapshots /\ now \in Nat /\ second \in Nat /\ MaxNow \in Nat
  BY BoundAssumption DEF SourceInv, IInv, TypeOK
<1>2. second * Second <= now /\ pps.edge <= second /\ pps.count <= pps.edge
  BY DEF SourceInv, IInv, ClockInv, SnapshotInv, Stamped
<1>3. second * Second < CountMod * Second
  BY <1>1, <1>2, SecondProduct, CountFacts DEF Lifetime, SourceInv, ServedInv
<1>4. second < CountMod
  BY <1>1, <1>3, SecondProduct, CountFacts
<1> QED  BY <1>1, <1>2, <1>4, CountFacts DEF PpsSnapshots

\* A granted snapshot serves the offset plus the count of its edge, and no less
\* than the anchor.
LEMMA GrantedExact ==
  ASSUME Lifetime, SourceInv, NEW r \in Readers, SnapshotGranted(r)
  PROVE  /\ ProjectedSecond(reader[r].pps) = Offset(state) + reader[r].pps.count
         /\ ProjectedSecond(reader[r].pps) \in Nat
         /\ reader[r].pps.count <= pps.count
<1>1. state.count <= reader[r].pps.count
  BY GrantedNotOlder DEF SourceInv, IInv
<1>2. reader[r].pps.count <= pps.count
  BY DEF SourceInv, IInv, SnapshotInv, Earlier
<1>3. pps.count < CountMod
  BY CountInLifetime
<1>4. IInv
  BY DEF SourceInv
<1>5. PpsDelta(reader[r].pps.count, state.count) = reader[r].pps.count - state.count
  BY <1>1, <1>2, <1>3, <1>4, SourceTypes, DeltaExact, CountFacts
<1> QED  BY <1>1, <1>2, <1>4, <1>5, SourceTypes DEF ProjectedSecond, Offset

\* A label that is accepted while the timebase is valid keeps the offset or adds
\* one; only a label can make it valid.
LEMMA CommitShifts ==
  ASSUME Lifetime, SourceInv, AssociateCommit
  PROVE  /\ Offset(state') \in Int
         /\ state' = state \/ state'.valid
         /\ state.valid => /\ state'.valid
                           /\ Offset(state') - Offset(state) \in {0, 1}
<1> DEFINE line == Head(main.lines)
<1>1. IInv
  BY DEF SourceInv
<1>2. line.label \in Nat
  <2>1. main.lines # <<>> /\ main \in MainStates
    BY <1>1 DEF AssociateCommit, IInv, TypeOK
  <2> QED  BY <2>1, LinesType DEF MainStates, Sentences
<1>3. state.count <= main.pps.count /\ main.pps.count < CountMod
  <2>1. Earlier(Anchor, main.pps) /\ Earlier(main.pps, pps)
    BY <1>1 DEF IInv, AssociationInv, SnapshotInv, AssociateCommit
  <2> QED  BY <1>1, <2>1, CountInLifetime, SourceTypes, CountFacts DEF Earlier, Anchor
<1>4. PpsDelta(main.pps.count, state.count) = main.pps.count - state.count
  BY <1>1, <1>3, SourceTypes, DeltaExact
<1>5. CASE ~LabelAccepted(line.label)
  BY <1>1, <1>5, SourceTypes DEF AssociateCommit
<1>6. CASE LabelAccepted(line.label) /\ KeepRecentZdaAnchor(line.kind)
  <2>1. state'.valid /\ state'.anchor = state.anchor /\ state'.count = state.count
    BY <1>6 DEF AssociateCommit, Accepted
  <2> QED  BY <1>1, <2>1, SourceTypes DEF Offset
<1>7. CASE LabelAccepted(line.label) /\ ~KeepRecentZdaAnchor(line.kind)
  <2>1. state'.valid /\ state'.anchor = line.label /\ state'.count = main.pps.count
    BY <1>7 DEF AssociateCommit, Accepted
  <2>2. state.valid =>
          line.label - (state.anchor + (main.pps.count - state.count)) \in {0, 1}
    BY <1>4, <1>7 DEF LabelAccepted, ProjectedSecond
  <2> QED  BY <1>1, <1>2, <2>1, <2>2, SourceTypes DEF Offset
<1> QED  BY <1>5, <1>6, <1>7

LEMMA ServedInvInit == Init => ServedInv
BY BoundAssumption DEF Init, ServedInv, NothingServed

LEMMA ServedInvNext ==
  ASSUME Lifetime, SourceInv, IInv', [Next]_vars
  PROVE  ServedInv'
<1> USE DEF ServedInv
<1>1. IInv /\ ServedInv
  BY DEF SourceInv
<1>2. now \in Nat /\ MaxNow \in Nat /\ now <= MaxNow
  BY <1>1, BoundAssumption DEF IInv, TypeOK
<1>3. CASE Tick
  <2>1. now' <= MaxNow
    BY <1>2, <1>3 DEF Tick
  <2> QED  BY <1>1, <1>3, <2>1 DEF Tick, ServedLimit
<1>4. CASE PpsIsr
  <2>1. ASSUME NEW r \in Readers PROVE ServedLimit(r)' >= ServedLimit(r)
    BY <1>1, <1>4, SourceTypes DEF PpsIsr, ServedLimit
  <2>2. ASSUME NEW r \in Readers
        PROVE  /\ ServedLimit(r) \in Int /\ ServedLimit(r)' \in Int
               /\ lastServed[r].unix \in Int
    BY <1>1, SourceTypes, <1>4 DEF PpsIsr, ServedLimit, Offset
  <2> QED  BY <1>1, <1>4, <2>1, <2>2 DEF PpsIsr
<1>5. CASE PpsMissed \/ Receive \/ UNCHANGED vars
  BY <1>1, <1>5 DEF PpsMissed, Receive, vars, ServedLimit
<1>6. CASE PollReadPps \/ PollReadNow \/ UartQuiet \/ UartData \/ UartFlush
           \/ LinesDone \/ AssociateReadPps \/ AssociateReadNow
  BY <1>1, <1>6 DEF PollReadPps, PollReadNow, UartQuiet, UartData, UartFlush,
                    LinesDone, AssociateReadPps, AssociateReadNow, ServedLimit
<1>7. CASE PollCheck
  <2>1. CASE UNCHANGED <<state, lastServed>>
    BY <1>1, <1>7, <2>1 DEF PollCheck, ServedLimit
  <2>2. CASE lastServed' = [r \in Readers |-> NothingServed]
    BY <1>1, <1>7, <2>2 DEF PollCheck, NothingServed
  <2> QED  BY <1>7, <2>1, <2>2 DEF PollCheck
<1>8. CASE AssociateCommit
  <2>1. /\ Offset(state') \in Int
        /\ state' = state \/ state'.valid
        /\ state.valid => state'.valid /\ Offset(state') - Offset(state) \in {0, 1}
    BY <1>8, CommitShifts
  <2>2. UNCHANGED <<now, pps, reader, lastServed>>
    BY <1>8 DEF AssociateCommit
  <2>3. ~state'.valid => ~state.valid
    BY <2>1
  <2>4. ASSUME NEW r \in Readers
        PROVE  lastServed'[r].unix = -1 \/ lastServed'[r].unix <= ServedLimit(r)'
    <3>1. CASE ~state.valid
      BY <1>1, <2>2, <3>1 DEF NothingServed
    <3>2. CASE state.valid
      BY <1>1, <2>1, <2>2, <3>2, SourceTypes DEF ServedLimit
    <3> QED  BY <3>1, <3>2
  <2> QED  BY <1>1, <2>2, <2>3, <2>4
<1>9. ASSUME NEW r \in Readers, ReaderStep(r) PROVE ServedInv'
  <2>1. UNCHANGED <<now, pps, state>> /\ reader \in [Readers -> ReaderStates]
        /\ lastServed \in [Readers -> Served]
    BY <1>1, <1>9 DEF ReaderStep, ReadPps, ReadNow, CopyState, IInv, TypeOK
  <2>2. CASE ReadPps(r)
    <3>1. ASSUME NEW t \in Readers PROVE ServedLimit(t)' = ServedLimit(t)
      BY <2>1, <2>2, <3>1 DEF ReadPps, ServedLimit
    <3> QED  BY <1>1, <2>1, <2>2, <3>1 DEF ReadPps
  <2>3. CASE ReadNow(r)
    <3>1. ASSUME NEW t \in Readers PROVE ServedLimit(t)' = ServedLimit(t)
      BY <2>1, <2>3, <3>1 DEF ReadNow, ServedLimit
    <3> QED  BY <1>1, <2>1, <2>3, <3>1 DEF ReadNow
  <2>4. CASE CopyState(r)
    <3>1. ServedLimit(r)' = Offset(state) + pps.count
      BY <2>1, <2>4 DEF CopyState, ServedLimit, IdleReader
    <3>2. reader[r].pps.count <= pps.count
      BY <1>1 DEF IInv, SnapshotInv, Earlier
    <3>3. lastServed'[r].unix = -1 \/ lastServed'[r].unix <= ServedLimit(r)'
      <4>1. CASE SnapshotGranted(r)
        <5>1. lastServed'[r].unix = Offset(state) + reader[r].pps.count
          BY <2>1, <2>4, <4>1, GrantedExact DEF CopyState
        <5> QED  BY <1>1, <3>1, <3>2, <5>1, SourceTypes
      <4>2. CASE ~SnapshotGranted(r)
        <5>1. lastServed' = lastServed /\ ServedLimit(r) <= ServedLimit(r)'
          BY <1>1, <2>4, <3>1, <3>2, <4>2, SourceTypes DEF CopyState, ServedLimit
        <5> QED  BY <1>1, <3>1, <5>1, SourceTypes
      <4> QED  BY <4>1, <4>2
    <3>4. ASSUME NEW t \in Readers, t # r
          PROVE  lastServed'[t] = lastServed[t] /\ ServedLimit(t)' = ServedLimit(t)
      BY <2>1, <2>4, <3>4 DEF CopyState, ServedLimit
    <3>5. ~state.valid => lastServed' = lastServed
      BY <2>4 DEF CopyState, SnapshotGranted
    <3> QED  BY <1>1, <2>1, <3>3, <3>4, <3>5
  <2> QED  BY <1>9, <2>2, <2>3, <2>4 DEF ReaderStep
<1> QED
  BY <1>3, <1>4, <1>5, <1>6, <1>7, <1>8, <1>9 DEF Next, MainStep

LEMMA SourceInit == Init => Source!Init
<1> SUFFICES ASSUME Init PROVE Source!Init
  OBVIOUS
<1>1. pps.count = 0 /\ state.valid = FALSE /\ Offset(state) \in Int
  BY DEF Init, NoPps, Offset
<1>2. [r \in Readers |-> lastServed[r].unix] = [r \in Readers |-> -1]
  BY DEF Init, NothingServed
<1> QED  BY <1>1, <1>2 DEF Source!Init, Source!Nothing

LEMMA SourceStep ==
  ASSUME Lifetime, SourceInv, [Next]_vars
  PROVE  [Source!Next]_(Source!vars)
<1>1. IInv /\ ServedInv
  BY DEF SourceInv
<1>2. CASE UNCHANGED <<pps, state, lastServed>>
  BY <1>2 DEF Source!vars, Offset
<1>3. CASE PpsIsr
  <2>1. pps'.count = pps.count + 1 /\ UNCHANGED <<state, lastServed>>
    BY <1>3 DEF PpsIsr
  <2> QED  BY <2>1 DEF Source!Next, Source!Edge, Offset
<1>4. CASE PollCheck
  <2>1. CASE UNCHANGED <<state, lastServed>>
    BY <1>2, <1>4, <2>1 DEF PollCheck
  <2>2. CASE state.valid /\ state' = [state EXCEPT !.valid = FALSE]
             /\ lastServed' = [r \in Readers |-> NothingServed]
    <3>1. state'.valid = FALSE /\ Offset(state') = Offset(state) /\ UNCHANGED pps
      BY <1>1, <1>4, <2>2 DEF PollCheck, Offset, IInv, TypeOK, TimebaseStates
    <3>2. [r \in Readers |-> lastServed'[r].unix] = [r \in Readers |-> -1]
      BY <2>2 DEF NothingServed
    <3> QED  BY <2>2, <3>1, <3>2 DEF Source!Next, Source!Lose, Source!Nothing
  <2> QED  BY <1>4, <2>1, <2>2 DEF PollCheck
<1>5. CASE AssociateCommit
  <2>1. /\ Offset(state') \in Int
        /\ state' = state \/ state'.valid
        /\ state.valid => state'.valid /\ Offset(state') - Offset(state) \in {0, 1}
    BY <1>5, CommitShifts
  <2>2. UNCHANGED <<pps, lastServed>>
    BY <1>5 DEF AssociateCommit
  <2>3. state.valid \in BOOLEAN /\ Offset(state) \in Int /\ state'.valid \in BOOLEAN
    BY <1>1, <1>5, SourceTypes DEF AssociateCommit, Accepted
  <2>4. CASE state' = state
    BY <1>2, <2>2, <2>4
  <2>5. CASE state'.valid /\ ~state.valid
    BY <2>1, <2>2, <2>3, <2>5 DEF Source!Next, Source!Acquire
  <2>6. CASE state'.valid /\ state.valid
    <3>1. CASE Offset(state') = Offset(state)
      BY <2>2, <2>3, <2>6, <3>1 DEF Source!vars
    <3>2. CASE Offset(state') = Offset(state) + 1
      BY <2>2, <2>3, <2>6, <3>2 DEF Source!Next, Source!Correct
    <3> QED  BY <2>1, <2>3, <2>6, <3>1, <3>2
  <2> QED  BY <2>1, <2>4, <2>5, <2>6
<1>6. ASSUME NEW r \in Readers, CopyState(r)
      PROVE  [Source!Next]_(Source!vars)
  <2>1. CASE ~SnapshotGranted(r)
    BY <1>2, <1>6, <2>1 DEF CopyState
  <2>2. CASE SnapshotGranted(r)
    <3> DEFINE count == reader[r].pps.count
               served == [t \in Readers |-> lastServed[t].unix]
    <3>1. /\ ProjectedSecond(reader[r].pps) = Offset(state) + count
          /\ Offset(state) + count \in Nat /\ count <= pps.count
      BY <2>2, GrantedExact
    <3>2. count \in 0 .. pps.count /\ state.valid /\ UNCHANGED <<pps, state>>
      BY <1>1, <1>6, <2>2, <3>1, SourceTypes DEF CopyState, SnapshotGranted
    <3>3. Offset(state) + count >= lastServed[r].unix
      <4>1. reader[r].pc = "copy"
        BY <1>6 DEF CopyState
      <4>2. lastServed[r].unix = -1 \/ lastServed[r].unix <= Offset(state) + count
        BY <1>1, <4>1 DEF ServedInv, ServedLimit
      <4> QED  BY <1>1, <3>1, <4>2, SourceTypes
    <3>4. [t \in Readers |-> lastServed'[t].unix]
            = [served EXCEPT ![r] = Offset(state) + count]
      <4>1. lastServed \in [Readers -> Served]
        BY <1>1 DEF IInv, TypeOK
      <4>2. lastServed' = [lastServed EXCEPT
              ![r] = [unix |-> Offset(state) + count, edge |-> reader[r].pps.edge]]
        BY <1>6, <2>2, <3>1 DEF CopyState
      <4>3. ASSUME NEW t \in Readers
            PROVE lastServed'[t].unix = [served EXCEPT ![r] = Offset(state) + count][t]
        BY <4>1, <4>2
      <4> QED  BY <4>3
    <3>5. Source!Serve(r)
      BY <3>2, <3>3, <3>4 DEF Source!Serve
    <3> QED  BY <3>5 DEF Source!Next
  <2> QED  BY <2>1, <2>2
<1>7. PpsIsr \/ PollCheck \/ AssociateCommit \/ (\E r \in Readers : CopyState(r))
      \/ UNCHANGED <<pps, state, lastServed>>
  BY DEF Next, vars, MainStep, ReaderStep, Tick, PpsMissed, Receive,
         PollReadPps, PollReadNow, UartQuiet, UartData, UartFlush, LinesDone,
         AssociateReadPps, AssociateReadNow, ReadPps, ReadNow
<1> QED  BY <1>2, <1>3, <1>4, <1>5, <1>6, <1>7

\* As long as the count of edges has not wrapped, with a receiver that names no
\* second before it begins, the timebase keeps what UtcSource promises: one offset,
\* corrected by single seconds forward, no torn reads and no reader taken back
\* within a validity period (timebase_process_sentence, timebase_get_snapshot).
THEOREM TimebaseImplementsSource ==
  HonestReceiver /\ Lifetime => (Spec => ImplementsSource)
<1> SUFFICES ASSUME HonestReceiver, Lifetime PROVE Spec => ImplementsSource
  OBVIOUS
<1>1. Init => SourceInv /\ Source!Init
  BY IInvInit, ServedInvInit, SourceInit DEF SourceInv
<1>2. SourceInv /\ [Next]_vars => SourceInv' /\ [Source!Next]_(Source!vars)
  <2> SUFFICES ASSUME SourceInv, [Next]_vars
               PROVE  SourceInv' /\ [Source!Next]_(Source!vars)
    OBVIOUS
  <2>1. IInv'
    BY IInvNext DEF SourceInv
  <2> QED  BY <2>1, ServedInvNext, SourceStep DEF SourceInv
<1> QED  BY <1>1, <1>2, PTL DEF Spec, ImplementsSource, Source!Spec

-----------------------------------------------------------------------------
(***************************************************************************)
(* The calendar.  Quotients and remainders.                                *)
(***************************************************************************)
LEMMA Multiples ==
  ASSUME NEW y \in Nat, NEW k \in Nat \ {0}
  PROVE  /\ y \div k \in Nat /\ y = k * (y \div k) + (y % k) /\ y % k \in 0 .. k - 1
         /\ (y * k) % k = 0 /\ (y * k) \div k = y
<1>1. y \div k \in Nat
  OBVIOUS
<1>2. y = k * (y \div k) + (y % k) /\ y % k \in 0 .. k - 1
  OBVIOUS
<1>3. (y * k) % k = 0 /\ (y * k) \div k = y
  OBVIOUS
<1> QED  BY <1>1, <1>2, <1>3

LEMMA Remains ==
  ASSUME NEW k \in Nat \ {0}, NEW q \in Nat, NEW x \in 0 .. k - 1
  PROVE  (q * k + x) % k = x /\ (q * k + x) \div k = q
OBVIOUS

LEMMA Shifted ==
  ASSUME NEW k \in Nat \ {0}, NEW q \in Nat, NEW x \in Nat
  PROVE  (q * k + x) % k = x % k
<1> DEFINE t == x \div k   u == x % k
<1>1. t \in Nat /\ x = k * t + u /\ u \in 0 .. k - 1
  BY Multiples
<1> HIDE DEF t, u
<1>2. q * k + x = (q + t) * k + u /\ q + t \in Nat
  BY <1>1
<1>3. ((q + t) * k + u) % k = u
  BY <1>1, <1>2, Remains
<1> QED  BY <1>2, <1>3 DEF u

-----------------------------------------------------------------------------
(***************************************************************************)
(* Years that begin in March.  Before(y) days are before year y, counted   *)
(* from the year 0; the code counts them by eras of 400 years.             *)
(***************************************************************************)
Before(y) == 365 * y + y \div 4 - y \div 100 + y \div 400

EraOf(y) == y \div 400
YearOfEra(y) == y - EraOf(y) * 400
BeforeInEra(r) == r * 365 + (r \div 4) - (r \div 100)

LEMMA Eras ==
  ASSUME NEW y \in Nat
  PROVE  /\ EraOf(y) \in Nat /\ YearOfEra(y) \in Nat /\ YearOfEra(y) < 400
         /\ EraOf(y) * 146097 + BeforeInEra(YearOfEra(y)) = Before(y)
  BY SMTT(60) DEF Before, BeforeInEra, YearOfEra, EraOf

LEMMA CountsInt == \A r \in Int : BeforeInEra(r) \in Int /\ Before(r) \in Int
BY DEF Before, BeforeInEra

Divides(k, y) == y % k = 0
Quotient(k, y) == y \div k

LEMMA Divisible ==
  ASSUME NEW y \in Nat
  PROVE  (Divides(100, y) => Divides(4, y)) /\ (Divides(400, y) => Divides(100, y))
<1> DEFINE h == y \div 100   e == y \div 400
<1>1. h \in Nat /\ e \in Nat /\ y = 100 * h + (y % 100) /\ y = 400 * e + (y % 400)
  BY Multiples
<1>2. \A k \in Nat : (k * 4) % 4 = 0 /\ (k * 100) % 100 = 0
  BY Multiples
<1> HIDE DEF h, e
<1>3. 25 * h \in Nat /\ 4 * e \in Nat
  BY <1>1
<1> DEFINE u == (25 * h) * 4   v == (4 * e) * 100
<1>4. (y % 100 = 0 => y = u) /\ (y % 400 = 0 => y = v)
  BY <1>1
<1>5. u \in Nat /\ v \in Nat /\ u % 4 = 0 /\ v % 100 = 0
  BY <1>2, <1>3
<1> HIDE DEF u, v
<1>6. y % 100 = 0 => y % 4 = 0
  BY <1>4, <1>5
<1>7. y % 400 = 0 => y % 100 = 0
  BY <1>4, <1>5
<1> QED  BY ONLY y \in Nat, <1>6, <1>7 DEF Divides

\* A year that begins in March is as long as the calendar year it ends in.
LEMMA YearLength ==
  ASSUME NEW y \in Nat \ {0}
  PROVE  Before(y) - Before(y - 1) = IF IsLeapYear(y) THEN 366 ELSE 365
<1>1. y \div 4 = (y - 1) \div 4 + (IF y % 4 = 0 THEN 1 ELSE 0)
  BY SMTT(60)
<1>2. y \div 100 = (y - 1) \div 100 + (IF y % 100 = 0 THEN 1 ELSE 0)
  BY SMTT(60)
<1>3. y \div 400 = (y - 1) \div 400 + (IF y % 400 = 0 THEN 1 ELSE 0)
  BY SMTT(60)
<1>4. (y % 100 = 0 => y % 4 = 0) /\ (y % 400 = 0 => y % 100 = 0)
  <2>1. (Divides(100, y) => Divides(4, y)) /\ (Divides(400, y) => Divides(100, y))
    BY y \in Nat, Divisible
  <2> QED  BY ONLY y \in Nat, <2>1 DEF Divides
<1> DEFINE f(k) == y \div k   b(k) == (y - 1) \div k
<1>5. /\ f(4) \in Int /\ f(100) \in Int /\ f(400) \in Int
      /\ b(4) \in Int /\ b(100) \in Int /\ b(400) \in Int
  BY SMT
<1>6. Before(y) - Before(y - 1) = 365 + (f(4) - b(4)) - (f(100) - b(100)) + (f(400) - b(400))
  <2>1. Before(y) = 365 * y + f(4) - f(100) + f(400)
    BY DEF Before
  <2>2. Before(y - 1) = 365 * (y - 1) + b(4) - b(100) + b(400)
    BY DEF Before
  <2> HIDE DEF f, b
  <2> QED  BY <1>5, <2>1, <2>2
<1>7. f(4) - b(4) = (IF y % 4 = 0 THEN 1 ELSE 0) /\ f(100) - b(100) = (IF y % 100 = 0 THEN 1 ELSE 0)
      /\ f(400) - b(400) = (IF y % 400 = 0 THEN 1 ELSE 0)
  <2> HIDE DEF b
  <2>1. f(4) = b(4) + (IF y % 4 = 0 THEN 1 ELSE 0) /\ f(100) = b(100) + (IF y % 100 = 0 THEN 1 ELSE 0)
        /\ f(400) = b(400) + (IF y % 400 = 0 THEN 1 ELSE 0)
    BY <1>1, <1>2, <1>3 DEF b
  <2> HIDE DEF f
  <2> QED  BY <1>5, <2>1
<1> HIDE DEF f, b
<1> QED  BY <1>4, <1>5, <1>6, <1>7 DEF IsLeapYear

\* unix_to_utc finds the year of an era from the day of the era.
LEMMA YearFound ==
  ASSUME NEW r \in Nat, r < 400, NEW n \in Nat, n <= 365,
         n = 365 => (r + 1) % 4 = 0 /\ ((r + 1) % 100 # 0 \/ r = 399)
  PROVE  LET d == r * 365 + r \div 4 - r \div 100 + n
         IN  (d - d \div 1460 + d \div 36524 - d \div 146096) \div 365 = r
  BY SMTT(120)

-----------------------------------------------------------------------------
(***************************************************************************)
(* Days of a month and leap years, in the code and on the wall.            *)
(***************************************************************************)
LEMMA MonthDays ==
  ASSUME NEW y, NEW m \in 1 .. 12
  PROVE  DaysInMonth(y, m) = IF m = 2 THEN IF IsLeapYear(y) THEN 29 ELSE 28
                             ELSE IF m \in {4, 6, 9, 11} THEN 30 ELSE 31
BY DEF DaysInMonth, MonthLengths

LEMMA LeapDays ==
  ASSUME NEW y \in Nat, y <= 9999
  PROVE  LeapDay(y) = IsLeapYear(y)
<1> DEFINE q == y \div 4   h == y \div 100   e == h \div 4
<1>1. q \in Nat /\ y = 4 * q + (y % 4) /\ y % 4 \in 0 .. 3
  BY Multiples
<1>2. h \in Nat /\ y = 100 * h + (y % 100) /\ y % 100 \in 0 .. 99
  BY Multiples
<1>3. e \in Nat /\ h = 4 * e + (h % 4) /\ h % 4 \in 0 .. 3
  BY <1>2, Multiples
<1>4. \A k \in Nat : (k * 4) % 4 = 0 /\ (k * 100) % 100 = 0 /\ (k * 400) % 400 = 0
                     /\ (k * 100) \div 100 = k
  BY Multiples
<1> HIDE DEF q, h, e
<1>5. y % 4 = 0 <=> \E k \in 0 .. 2500 : y = 4 * k
  <2> DEFINE even == y % 4 = 0   some == \E k \in 0 .. 2500 : y = 4 * k
  <2>1. even => some
    <3> SUFFICES ASSUME even PROVE some
      OBVIOUS
    <3>1. y = 4 * q
      BY <1>1
    <3>2. q \in 0 .. 2500
      BY ONLY y \in Nat, y <= 9999, <1>1, <3>1
    <3> QED  BY ONLY <3>1, <3>2
  <2>2. some => even
    BY <1>4
  <2> HIDE DEF even, some
  <2>3. even <=> some
    BY <2>1, <2>2
  <2> QED  BY ONLY <2>3, SMT DEF even, some
<1>6. y % 100 = 0 <=> \E k \in 0 .. 100 : y = 100 * k
  <2> DEFINE even == y % 100 = 0   some == \E k \in 0 .. 100 : y = 100 * k
  <2>1. even => some
    <3> SUFFICES ASSUME even PROVE some
      OBVIOUS
    <3>1. y = 100 * h
      BY <1>2
    <3>2. h \in 0 .. 100
      BY ONLY y \in Nat, y <= 9999, <1>2, <3>1
    <3> QED  BY ONLY <3>1, <3>2
  <2>2. some => even
    BY <1>4
  <2> HIDE DEF even, some
  <2>3. even <=> some
    BY <2>1, <2>2
  <2> QED  BY ONLY <2>3, SMT DEF even, some
<1>7. y % 400 = 0 <=> y % 100 = 0 /\ h % 4 = 0
  <2>1. ASSUME y % 400 = 0 PROVE y % 100 = 0 /\ h % 4 = 0
    <3> DEFINE c == y \div 400
    <3>1. c \in Nat /\ y = 400 * c
      BY <2>1, Multiples
    <3> HIDE DEF c
    <3>2. 4 * c \in Nat /\ y = (4 * c) * 100
      BY <3>1
    <3>3. y % 100 = 0 /\ h = 4 * c
      BY <1>4, <3>2 DEF h
    <3> QED  BY <1>4, <3>1, <3>3
  <2>2. ASSUME y % 100 = 0, h % 4 = 0 PROVE y % 400 = 0
    <3>1. y = e * 400
      BY <1>2, <1>3, <2>2
    <3> QED  BY <1>3, <1>4, <3>1
  <2> QED  BY <2>1, <2>2
<1>8. y \in LeapYears <=> y % 4 = 0 /\ ~(y % 100 = 0 /\ h % 4 # 0)
  <2>1. \A k \in 0 .. 100 : y = 100 * k => h = k
    BY <1>4 DEF h
  <2>2. (\E k \in {j \in 0 .. 100 : j % 4 # 0} : y = 100 * k) <=> y % 100 = 0 /\ h % 4 # 0
    <3>1. ASSUME NEW k \in 0 .. 100, k % 4 # 0, y = 100 * k PROVE y % 100 = 0 /\ h % 4 # 0
      <4>1. h = k
        BY ONLY <2>1, <3>1, k \in 0 .. 100
      <4> QED  BY ONLY <1>6, <3>1, <4>1, k \in 0 .. 100
    <3>2. ASSUME y % 100 = 0, h % 4 # 0 PROVE \E k \in 0 .. 100 : k % 4 # 0 /\ y = 100 * k
      <4>1. PICK k \in 0 .. 100 : y = 100 * k
        BY ONLY <1>6, <3>2
      <4>2. h = k
        BY ONLY <2>1, <4>1
      <4> QED  BY ONLY <3>2, <4>1, <4>2
    <3> QED  BY ONLY <3>1, <3>2
  <2> QED  BY <1>5, <2>2 DEF LeapYears
<1> QED  BY <1>7, <1>8 DEF LeapDay, IsLeapYear

\* So many years from 1970 to y have a leap day.
LEMMA MultiplesCounted ==
  ASSUME NEW a \in Nat \ {0}, NEW lo \in Nat, NEW hi \in Nat, lo <= hi + 1
  PROVE  LET S == {a * k : k \in lo .. hi}
         IN  IsFiniteSet(S) /\ Cardinality(S) = hi - lo + 1
<1> DEFINE S == {a * k : k \in lo .. hi}
           f == [k \in lo .. hi |-> a * k]
<1>1. f \in [lo .. hi -> S]
  BY Zenon
<1>2. \A i, j \in lo .. hi : f[i] = f[j] => i = j
  <2>1. \A i, j \in lo .. hi : a * i = a * j => i = j
    OBVIOUS
  <2> QED  BY <2>1
<1>3. \A x \in S : \E k \in lo .. hi : f[k] = x
  BY Zenon
<1>4. f \in Bijection(lo .. hi, S)
  BY <1>1, <1>2, <1>3 DEF Bijection, Injection, Surjection, IsInjective
<1>5. ExistsBijection(lo .. hi, S)
  BY <1>4, Zenon DEF ExistsBijection
<1>6. IsFiniteSet(lo .. hi) /\ Cardinality(lo .. hi) = hi - lo + 1
  BY FS_Interval
<1> QED  BY <1>5, <1>6, FS_Bijection

LEMMA Factors ==
  ASSUME NEW a \in Nat \ {0}, NEW j \in Int, NEW k \in Int
  PROVE  /\ a * j < a * k => j < k
         /\ j <= k => a * j <= a * k
<1>1. ASSUME j <= k PROVE a * j <= a * k
  <2>1. a * k = a * j + a * (k - j) /\ a * (k - j) >= 0
    BY <1>1
  <2> QED  BY <2>1
<1>2. ASSUME k <= j PROVE a * k <= a * j
  <2>1. a * j = a * k + a * (j - k) /\ a * (j - k) >= 0
    BY <1>2
  <2> QED  BY <2>1
<1> QED  BY <1>1, <1>2


\* The multiples of a in an interval; the first of them is the lo-th.
MultiplesIn(a, b, y) == {x \in b .. y : Divides(a, x)}

LEMMA MultiplesWithin ==
  ASSUME NEW a \in Nat \ {0}, NEW lo \in Nat, NEW b \in Nat, NEW y \in Nat,
         a * (lo - 1) < b, b <= a * lo
  PROVE  MultiplesIn(a, b, y) = {a * k : k \in lo .. y \div a}
<1> DEFINE top == y \div a
<1>1. top \in Nat /\ a * top <= y /\ y < a * (top + 1)
  <2>1. top \in Nat /\ y = a * top + (y % a) /\ y % a \in 0 .. a - 1
    BY Multiples
  <2>2. a * (top + 1) = a * top + a
    BY <2>1
  <2> HIDE DEF top
  <2> QED  BY <2>1, <2>2
<1> HIDE DEF top
<1>2. ASSUME NEW x \in b .. y, Divides(a, x) PROVE \E k \in lo .. top : x = a * k
  <2> DEFINE k == x \div a
  <2>1. k \in Nat /\ x = a * k
    BY <1>2, Multiples DEF Divides
  <2> HIDE DEF k
  <2>2. lo - 1 < k
    BY <2>1, Factors
  <2>3. k < top + 1
    <3>1. a * k < a * (top + 1)
      BY <1>1, <2>1
    <3> QED  BY <1>1, <2>1, <3>1, Factors
  <2> QED  BY <1>1, <2>1, <2>2, <2>3
<1>3. ASSUME NEW k \in lo .. top PROVE a * k \in b .. y /\ Divides(a, a * k)
  <2>1. a * lo <= a * k /\ a * k <= a * top
    BY <1>1, Factors
  <2>2. (k * a) % a = 0 /\ k * a = a * k
    BY <1>1, Multiples
  <2>3. a * k \in Int /\ a * top \in Int /\ a * lo \in Int
    BY <1>1
  <2> QED  BY <1>1, <2>1, <2>2, <2>3 DEF Divides
<1> QED  BY <1>2, <1>3 DEF top, MultiplesIn

LEMMA MultiplesTold ==
  ASSUME NEW a \in Nat \ {0}, NEW b \in Nat \ {0}, NEW y \in Nat, b - 1 <= y
  PROVE  /\ IsFiniteSet(MultiplesIn(a, b, y))
         /\ Cardinality(MultiplesIn(a, b, y)) = Quotient(a, y) - Quotient(a, b - 1)
<1> DEFINE top == y \div a   below == (b - 1) \div a   lo == below + 1
           T == {a * k : k \in lo .. top}
<1>1. b - 1 \in Nat
  OBVIOUS
<1>2. /\ below \in Nat /\ b - 1 = a * below + ((b - 1) % a) /\ (b - 1) % a \in 0 .. a - 1
      /\ top \in Nat /\ y = a * top + (y % a) /\ y % a \in 0 .. a - 1
  BY <1>1, Multiples
<1> HIDE DEF below, top
<1>3. a * (below + 1) = a * below + a /\ a * (top + 1) = a * top + a
      /\ a * below \in Int /\ a * top \in Int
  BY <1>2
<1>4. a * (lo - 1) < b /\ b <= a * lo
  <2>1. lo - 1 = below
    BY <1>2
  <2> QED  BY <1>2, <1>3, <2>1
<1>5. lo - 1 < top + 1
  <2>1. lo - 1 = below /\ a * below < a * (top + 1)
    BY <1>2, <1>3
  <2> QED  BY <1>2, <2>1, Factors
<1>6. lo \in Nat /\ lo <= top + 1
  BY <1>2, <1>5
<1> HIDE DEF lo
<1>7. MultiplesIn(a, b, y) = T
  BY <1>4, <1>6, MultiplesWithin DEF top
<1>8. IsFiniteSet(T) /\ Cardinality(T) = top - lo + 1
  BY <1>2, <1>6, MultiplesCounted
<1> HIDE DEF T
<1> QED  BY <1>2, <1>7, <1>8 DEF lo, top, below, Quotient

\* B is taken out of A and C put in.
LEMMA Exchanged ==
  ASSUME NEW A, NEW B, NEW C, IsFiniteSet(A), IsFiniteSet(B), IsFiniteSet(C),
         A \cap B = B, (A \ B) \cap C = {}
  PROVE  Cardinality((A \ B) \cup C) = Cardinality(A) - Cardinality(B) + Cardinality(C)
<1> DEFINE D == A \ B   both == A \cap B   U == D \cup C   none == D \cap C
<1>1. IsFiniteSet(D) /\ Cardinality(D) = Cardinality(A) - Cardinality(both)
  BY FS_Difference
<1>2. Cardinality(U) = Cardinality(D) + Cardinality(C) - Cardinality(none)
  BY <1>1, FS_Union
<1>3. both = B /\ none = {}
  OBVIOUS
<1>4. /\ Cardinality(A) \in Nat /\ Cardinality(B) \in Nat /\ Cardinality(C) \in Nat
      /\ Cardinality({}) = 0
  BY FS_CardinalityType, FS_EmptySet
<1> HIDE DEF D, both, U, none
<1>5. Cardinality(U) = Cardinality(A) - Cardinality(B) + Cardinality(C)
  BY <1>1, <1>2, <1>3, <1>4
<1> QED  BY <1>5 DEF U, D

\* How many days more the years from 1970 to y have than 365 each.
LEMMA LeapYearsCounted ==
  ASSUME NEW y \in Nat, 1970 <= y, y <= 9999
  PROVE  Cardinality(LeapYears \cap (1970 .. y - 1)) = Before(y - 1) - 365 * (y - 1) - 477
<1> DEFINE z == y - 1
           S(a) == MultiplesIn(a, 1970, z)
           top(a) == Quotient(a, z)
           L == LeapYears \cap (1970 .. z)
<1>1. z \in Nat /\ z <= 9999 /\ z = y - 1
  OBVIOUS
<1>2. top(4) \in Nat /\ top(4) >= 492 /\ top(100) \in Nat /\ top(100) >= 19
      /\ top(400) \in Nat /\ top(400) >= 4
      /\ Quotient(4, 1969) = 492 /\ Quotient(100, 1969) = 19 /\ Quotient(400, 1969) = 4
  BY DEF Quotient
<1> HIDE DEF z
<1>3. IsFiniteSet(S(4)) /\ Cardinality(S(4)) = top(4) - 492
  <2>1. IsFiniteSet(S(4)) /\ Cardinality(S(4)) = top(4) - Quotient(4, 1970 - 1)
    BY <1>1, MultiplesTold
  <2> HIDE DEF S, top
  <2> QED  BY <1>2, <2>1
<1>4. IsFiniteSet(S(100)) /\ Cardinality(S(100)) = top(100) - 19
  <2>1. IsFiniteSet(S(100)) /\ Cardinality(S(100)) = top(100) - Quotient(100, 1970 - 1)
    BY <1>1, MultiplesTold
  <2> HIDE DEF S, top
  <2> QED  BY <1>2, <2>1
<1>5. IsFiniteSet(S(400)) /\ Cardinality(S(400)) = top(400) - 4
  <2>1. IsFiniteSet(S(400)) /\ Cardinality(S(400)) = top(400) - Quotient(400, 1970 - 1)
    BY <1>1, MultiplesTold
  <2> HIDE DEF S, top
  <2> QED  BY <1>2, <2>1
<1>6. Before(z) = 365 * z + top(4) - top(100) + top(400)
  BY DEF Before, Quotient
<1> HIDE DEF top
<1>7. \A x \in 1970 .. z :
        /\ x \in LeapYears <=> Divides(4, x) /\ (~Divides(100, x) \/ Divides(400, x))
        /\ Divides(100, x) => Divides(4, x)
        /\ Divides(400, x) => Divides(100, x)
  <2> TAKE x \in 1970 .. z
  <2>1. x \in Nat /\ x <= 9999
    BY <1>1
  <2>2. x \in LeapYears <=> Divides(4, x) /\ (~Divides(100, x) \/ Divides(400, x))
    <3>1. LeapDay(x) = IsLeapYear(x)
      BY <2>1, LeapDays
    <3> QED  BY ONLY <2>1, <3>1 DEF LeapDay, IsLeapYear, Divides
  <2> QED  BY <2>1, <2>2, Divisible
<1>8. /\ L = (S(4) \ S(100)) \cup S(400)
      /\ S(4) \cap S(100) = S(100) /\ (S(4) \ S(100)) \cap S(400) = {}
  BY <1>7 DEF MultiplesIn
<1> HIDE DEF S, L
<1>9. Cardinality(L) = (top(4) - 492) - (top(100) - 19) + (top(400) - 4)
  <2>1. Cardinality(L) = Cardinality(S(4)) - Cardinality(S(100)) + Cardinality(S(400))
    BY <1>3, <1>4, <1>5, <1>8, Exchanged
  <2> QED  BY <1>3, <1>4, <1>5, <2>1
<1> QED  BY <1>1, <1>2, <1>6, <1>9 DEF L

-----------------------------------------------------------------------------
(***************************************************************************)
(* A date as the code counts it: the year and the month from March.        *)
(***************************************************************************)
Dates == {d \in [year : Int, month : Int, day : Int] : DateAccepted(d)}

March(d) == IF d.month <= 2 THEN d.year - 1 ELSE d.year
FromMarch(d) == IF d.month > 2 THEN d.month - 3 ELSE d.month + 9
MonthStarts(m) == (153 * m + 2) \div 5
OfYear(d) == MonthStarts(FromMarch(d)) + d.day - 1

LEMMA DateFacts ==
  ASSUME NEW d \in Dates
  PROVE  /\ d.year \in Nat /\ 1970 <= d.year /\ d.year <= 9999 /\ d.month \in 1 .. 12
         /\ d.day \in 1 .. (IF d.month = 2 THEN IF IsLeapYear(d.year) THEN 29 ELSE 28
                            ELSE IF d.month \in {4, 6, 9, 11} THEN 30 ELSE 31)
         /\ March(d) \in Nat /\ FromMarch(d) \in 0 .. 11
         /\ d = [year |-> d.year, month |-> d.month, day |-> d.day]
<1>1. d.year \in Nat /\ 1970 <= d.year /\ d.year <= 9999 /\ d.month \in 1 .. 12
      /\ d.day \in 1 .. DaysInMonth(d.year, d.month)
  BY DEF Dates, DateAccepted
<1>2. d = [year |-> d.year, month |-> d.month, day |-> d.day]
  BY DEF Dates
<1>3. DaysInMonth(d.year, d.month) =
        IF d.month = 2 THEN IF IsLeapYear(d.year) THEN 29 ELSE 28
        ELSE IF d.month \in {4, 6, 9, 11} THEN 30 ELSE 31
  BY <1>1, MonthDays
<1>4. March(d) \in Nat /\ FromMarch(d) \in 0 .. 11
  BY <1>1 DEF March, FromMarch
<1> QED  BY <1>1, <1>2, <1>3, <1>4

MonthTable == <<0, 31, 61, 92, 122, 153, 184, 214, 245, 275, 306, 337>>

LEMMA MonthsStart ==
  ASSUME NEW m \in 0 .. 11
  PROVE  MonthStarts(m) = MonthTable[m + 1] /\ MonthStarts(m) \in Nat /\ MonthStarts(m) <= 337
BY SMTT(30) DEF MonthStarts, MonthTable

LEMMA DaysAre ==
  ASSUME NEW d \in Dates
  PROVE  /\ DaysSinceEpoch(d) = Before(March(d)) + OfYear(d) - 719468
         /\ OfYear(d) \in Nat /\ OfYear(d) <= 367
<1> DEFINE y == March(d)   e == EraOf(y)   in == BeforeInEra(YearOfEra(y))
<1>1. y \in Nat /\ FromMarch(d) \in 0 .. 11 /\ d.day \in 1 .. 31 /\ d.month \in 1 .. 12
      /\ d.year \in Int
  BY DateFacts
<1>2. e \in Int /\ in \in Int /\ e * 146097 + in = Before(y)
  BY <1>1, Eras, CountsInt
<1>3. MonthStarts(FromMarch(d)) \in Nat /\ MonthStarts(FromMarch(d)) <= 337
  BY <1>1, MonthsStart
<1>4. OfYear(d) \in Nat /\ OfYear(d) <= 367
  BY <1>1, <1>3 DEF OfYear
<1>5. DaysSinceEpoch(d) = e * 146097 + (in + OfYear(d)) - 719468
  BY <1>1 DEF DaysSinceEpoch, March, FromMarch, OfYear, MonthStarts, EraOf, BeforeInEra, YearOfEra
<1> HIDE DEF in, e, y
<1>6. DaysSinceEpoch(d) = Before(y) + OfYear(d) - 719468
  BY <1>2, <1>4, <1>5
<1> QED  BY <1>4, <1>6 DEF y

\* The first of January, and the day after a date.
LEMMA JanuaryFirst ==
  ASSUME NEW y \in Nat, 1970 <= y, y <= 9999
  PROVE  LET d == [year |-> y, month |-> 1, day |-> 1]
         IN  d \in Dates /\ DaysSinceEpoch(d) = Before(y - 1) + 306 - 719468
<1> DEFINE d == [year |-> y, month |-> 1, day |-> 1]
<1>1. d \in Dates
  <2>1. DaysInMonth(y, 1) = 31
    BY MonthDays
  <2>2. DateAccepted(d)
    BY <2>1 DEF DateAccepted
  <2> QED  BY <2>2 DEF Dates
<1>2. March(d) = y - 1 /\ FromMarch(d) = 10 /\ OfYear(d) = 306
  BY DEF March, FromMarch, OfYear, MonthStarts
<1> HIDE DEF d
<1>3. DaysSinceEpoch(d) = Before(y - 1) + 306 - 719468
  BY <1>1, <1>2, DaysAre
<1> QED  BY <1>1, <1>3 DEF d

\* The next day: of the same month, of the next month, and behind February.
Successor(d) ==
  IF MonthEnd(d) THEN [d EXCEPT !.month = @ + 1, !.day = 1] ELSE [d EXCEPT !.day = @ + 1]

LEMMA MonthEnds ==
  ASSUME NEW d \in Dates
  PROVE  MonthEnd(d) <=> d.day = DaysInMonth(d.year, d.month)
<1>1. /\ d.year \in Nat /\ d.year <= 9999 /\ d.month \in 1 .. 12 /\ d.day \in Int
  BY DateFacts
<1> DEFINE leap == LeapDay(d.year)
<1>2. leap <=> IsLeapYear(d.year)
  BY <1>1, LeapDays
<1>3. DaysInMonth(d.year, d.month) = IF d.month = 2 THEN IF IsLeapYear(d.year) THEN 29 ELSE 28
                                     ELSE IF d.month \in {4, 6, 9, 11} THEN 30 ELSE 31
  BY <1>1, MonthDays
<1>4. /\ d.month \in {4, 6, 9, 11} => (MonthEnd(d) <=> d.day = 30)
      /\ d.month = 2 /\ leap => (MonthEnd(d) <=> d.day = 29)
      /\ d.month = 2 /\ ~leap => (MonthEnd(d) <=> d.day = 28)
      /\ d.month \notin {2, 4, 6, 9, 11} => (MonthEnd(d) <=> d.day = 31)
  BY <1>1 DEF MonthEnd
<1> HIDE DEF leap
<1>5. CASE d.month = 2
  BY <1>2, <1>3, <1>4, <1>5
<1>6. CASE d.month \in {4, 6, 9, 11}
  BY <1>3, <1>4, <1>6
<1>7. CASE d.month \notin {2, 4, 6, 9, 11}
  BY <1>3, <1>4, <1>7
<1> QED  BY <1>5, <1>6, <1>7

LEMMA DayCounted ==
  ASSUME NEW d \in Dates, ~(d.month = 12 /\ d.day = 31)
  PROVE  Successor(d) \in Dates /\ DaysSinceEpoch(Successor(d)) = DaysSinceEpoch(d) + 1
<1> DEFINE e == Successor(d)
<1>1. /\ d.year \in Nat /\ 1970 <= d.year /\ d.year <= 9999 /\ d.month \in 1 .. 12
      /\ d.day \in Int /\ 1 <= d.day
      /\ d.day <= DaysInMonth(d.year, d.month)
      /\ DaysInMonth(d.year, d.month) = IF d.month = 2 THEN IF IsLeapYear(d.year) THEN 29 ELSE 28
                                        ELSE IF d.month \in {4, 6, 9, 11} THEN 30 ELSE 31
  BY DateFacts, MonthDays DEF Dates, DateAccepted
<1>2. DaysSinceEpoch(d) = Before(March(d)) + OfYear(d) - 719468
  BY DaysAre
<1>3. /\ OfYear(d) = MonthTable[FromMarch(d) + 1] + d.day - 1
      /\ Before(March(d)) \in Int /\ OfYear(d) \in Int
  BY DateFacts, MonthsStart, CountsInt, DaysAre DEF OfYear
<1>4. CASE ~MonthEnd(d)
  <2>1. /\ e.year = d.year /\ e.month = d.month /\ e.day = d.day + 1
        /\ e \in [year : Int, month : Int, day : Int]
    BY <1>4 DEF Successor, Dates
  <2>2. d.day < DaysInMonth(d.year, d.month)
    BY <1>1, <1>4, MonthEnds
  <2>3. e \in Dates
    BY <1>1, <2>1, <2>2 DEF Dates, DateAccepted
  <2> HIDE DEF e
  <2>4. March(e) = March(d) /\ FromMarch(e) = FromMarch(d)
    BY <2>1 DEF March, FromMarch
  <2>5. OfYear(e) = OfYear(d) + 1
    <3>1. OfYear(e) = MonthTable[FromMarch(e) + 1] + e.day - 1 /\ MonthTable[FromMarch(d) + 1] \in Int
      BY <2>3, DateFacts, MonthsStart DEF OfYear
    <3> QED  BY <1>1, <1>3, <2>1, <2>4, <3>1
  <2>6. DaysSinceEpoch(e) = Before(March(e)) + OfYear(e) - 719468
    BY <2>3, DaysAre
  <2>7. DaysSinceEpoch(e) = DaysSinceEpoch(d) + 1
    BY <1>2, <1>3, <2>4, <2>5, <2>6
  <2> QED  BY <2>3, <2>7 DEF e
<1>5. CASE MonthEnd(d)
  <2>1. /\ e.year = d.year /\ e.month = d.month + 1 /\ e.day = 1
        /\ e \in [year : Int, month : Int, day : Int]
    <3>1. e = [d EXCEPT !.month = @ + 1, !.day = 1]
      BY <1>5 DEF Successor
    <3>2. d \in [year : Int, month : Int, day : Int]
      BY DEF Dates
    <3> HIDE DEF e
    <3>3. e = [year |-> d.year, month |-> d.month + 1, day |-> 1]
      BY <3>1, <3>2
    <3>4. d.year \in Int /\ d.month + 1 \in Int
      BY <3>2
    <3> QED  BY <3>3, <3>4
  <2>2. d.day = DaysInMonth(d.year, d.month)
    BY <1>5, MonthEnds
  <2>3. d.month # 12
    BY <1>1, <2>2
  <2>4. DaysInMonth(e.year, e.month) >= 1 /\ e.month \in 1 .. 12
    <3>1. e.month \in 1 .. 12
      BY <1>1, <2>1, <2>3
    <3> QED  BY <3>1, MonthDays
  <2>5. e \in Dates
    BY <1>1, <2>1, <2>4 DEF Dates, DateAccepted
  <2>6. DaysSinceEpoch(e) = Before(March(e)) + OfYear(e) - 719468
        /\ OfYear(e) = MonthTable[FromMarch(e) + 1] + e.day - 1
        /\ Before(March(e)) \in Int
    BY <2>5, DaysAre, DateFacts, MonthsStart, CountsInt DEF OfYear
  <2> HIDE DEF e
  <2>7. CASE d.month = 2
    <3>1. March(e) = d.year /\ March(d) = d.year - 1 /\ FromMarch(e) = 0 /\ FromMarch(d) = 11
      BY <2>1, <2>7 DEF March, FromMarch
    <3>2. Before(d.year) - Before(d.year - 1) = IF IsLeapYear(d.year) THEN 366 ELSE 365
      BY <1>1, YearLength
    <3>3. OfYear(e) = 0 /\ OfYear(d) = 337 + d.day - 1
      BY <1>3, <2>1, <2>6, <3>1 DEF MonthTable
    <3>4. DaysSinceEpoch(e) = DaysSinceEpoch(d) + 1
      BY <1>1, <1>2, <1>3, <2>2, <2>6, <2>7, <3>1, <3>2, <3>3
    <3> QED  BY <2>5, <3>4 DEF e
  <2>8. CASE d.month # 2
    <3>1. March(e) = March(d) /\ FromMarch(e) = FromMarch(d) + 1
      BY <1>1, <2>1, <2>3, <2>8 DEF March, FromMarch
    <3>2. OfYear(e) = OfYear(d) + 1
      BY <1>1, <1>3, <2>1, <2>2, <2>3, <2>6, <2>8 DEF MonthTable, FromMarch
    <3>3. DaysSinceEpoch(e) = DaysSinceEpoch(d) + 1
      BY <1>2, <1>3, <2>6, <3>1, <3>2
    <3> QED  BY <2>5, <3>3 DEF e
  <2> QED  BY <2>7, <2>8
<1> QED  BY <1>4, <1>5

-----------------------------------------------------------------------------
(***************************************************************************)
(* The way back.                                                           *)
(***************************************************************************)
DaysPerEra == 146097

\* The last day of a year that begins in March is its 366th only if the year ends
\* with a leap day.
LEMMA LastDay ==
  ASSUME NEW d \in Dates
  PROVE  /\ OfYear(d) <= 365
         /\ OfYear(d) = 365 => IsLeapYear(March(d) + 1)
<1>1. /\ d.month \in 1 .. 12 /\ d.year \in Nat
      /\ d.day \in 1 .. (IF d.month = 2 THEN IF IsLeapYear(d.year) THEN 29 ELSE 28
                         ELSE IF d.month \in {4, 6, 9, 11} THEN 30 ELSE 31)
  BY DateFacts
<1>2. OfYear(d) = MonthTable[FromMarch(d) + 1] + d.day - 1
  BY DateFacts, MonthsStart DEF OfYear
<1>3. CASE d.month = 2
  <2>1. March(d) + 1 = d.year /\ FromMarch(d) = 11
    BY <1>1, <1>3 DEF March, FromMarch
  <2>2. OfYear(d) = 337 + d.day - 1
    BY <1>2, <2>1 DEF MonthTable
  <2>3. d.day \in Nat /\ d.day <= 29 /\ (d.day = 29 => IsLeapYear(d.year))
    BY <1>1, <1>3
  <2> QED  BY <2>1, <2>2, <2>3
<1>4. CASE d.month # 2
  <2>1. FromMarch(d) \in 0 .. 10
    BY <1>1, <1>4 DEF FromMarch
  <2>2. MonthTable[FromMarch(d) + 1] \in Nat /\ MonthTable[FromMarch(d) + 1] <= 306
    BY <2>1 DEF MonthTable
  <2>3. d.day \in Nat /\ d.day <= 31
    BY <1>1, <1>4
  <2> QED  BY <1>2, <2>2, <2>3
<1> QED  BY <1>3, <1>4

\* The month is found from the day of the year.
LEMMA MonthFound ==
  ASSUME NEW d \in Dates
  PROVE  (5 * OfYear(d) + 2) \div 153 = FromMarch(d)
<1> DEFINE m == FromMarch(d)   n == MonthTable[m + 1] + d.day - 1
<1>1. /\ d.month \in 1 .. 12 /\ d.day \in Int /\ 1 <= d.day
      /\ d.day <= (IF d.month = 2 THEN 29 ELSE IF d.month \in {4, 6, 9, 11} THEN 30 ELSE 31)
  BY DateFacts
<1>2. OfYear(d) = n
  BY DateFacts, MonthsStart DEF OfYear
<1>3. /\ m \in 0 .. 11
      /\ d.day <= (IF m = 11 THEN 29 ELSE IF m \in {1, 3, 6, 8} THEN 30 ELSE 31)
  BY <1>1 DEF FromMarch
<1> HIDE DEF m
<1>4. n \in Int /\ 153 * m <= 5 * n + 2 /\ 5 * n + 2 < 153 * (m + 1)
  BY <1>1, <1>3 DEF MonthTable
<1> HIDE DEF n
<1>5. (5 * n + 2) \div 153 = m
  BY <1>3, <1>4
<1> QED  BY <1>2, <1>5 DEF m

\* A year that is followed by a leap year, within its era.
LEMMA BeforeLeap ==
  ASSUME NEW y \in Nat, IsLeapYear(y + 1)
  PROVE  LET r == YearOfEra(y) IN (r + 1) % 4 = 0 /\ ((r + 1) % 100 # 0 \/ r = 399)
<1> DEFINE e == EraOf(y)   r == YearOfEra(y)
<1>1. e \in Nat /\ r \in Nat /\ r < 400 /\ r = y - e * 400
  <2>1. EraOf(y) \in Nat /\ YearOfEra(y) \in Nat /\ YearOfEra(y) < 400
    BY Eras
  <2> QED  BY ONLY <2>1 DEF YearOfEra
<1> HIDE DEF e, r
<1>2. y + 1 = 400 * e + (r + 1)
  BY <1>1
<1>3. /\ y + 1 = (100 * e) * 4 + (r + 1) /\ y + 1 = (4 * e) * 100 + (r + 1)
      /\ y + 1 = e * 400 + (r + 1)
  BY <1>1, <1>2
<1>4. (y + 1) % 4 = (r + 1) % 4 /\ (y + 1) % 100 = (r + 1) % 100
  <2>1. 100 * e \in Nat /\ 4 * e \in Nat /\ r + 1 \in Nat
    BY <1>1
  <2>2. ((100 * e) * 4 + (r + 1)) % 4 = (r + 1) % 4
    BY <2>1, Shifted
  <2>3. ((4 * e) * 100 + (r + 1)) % 100 = (r + 1) % 100
    BY <2>1, Shifted
  <2> QED  BY <1>3, <2>2, <2>3
<1>5. r # 399 => (y + 1) % 400 = r + 1
  <2>1. r # 399 => r + 1 \in 0 .. 400 - 1
    BY <1>1
  <2>2. r # 399 => (e * 400 + (r + 1)) % 400 = r + 1
    BY <1>1, <2>1, Remains
  <2> QED  BY <1>3, <2>2
<1>6. (y + 1) % 400 = 0 => r = 399
  BY <1>1, <1>5
<1> QED  BY <1>1, <1>4, <1>6 DEF IsLeapYear, r

LEMMA WayBack ==
  ASSUME NEW d \in Dates
  PROVE  DateOf(DaysSinceEpoch(d)) = d
<1> DEFINE y == March(d)   e == EraOf(y)   r == YearOfEra(y)   n == OfYear(d)
           in == BeforeInEra(r) + n   counted == DaysSinceEpoch(d)
           adjusted == counted + 719468
<1>1. y \in Nat /\ d.month \in 1 .. 12 /\ d.day \in Int /\ d.year \in Int
  BY DateFacts
<1>2. e \in Nat /\ r \in Nat /\ r < 400 /\ y = e * 400 + r
  <2>1. EraOf(y) \in Nat /\ YearOfEra(y) \in Nat /\ YearOfEra(y) < 400
    BY <1>1, Eras
  <2> QED  BY ONLY <1>1, <2>1 DEF YearOfEra
<1>3. n \in Nat /\ n <= 365 /\ counted = Before(y) + n - 719468
  BY DaysAre, LastDay
<1>4. e * DaysPerEra + BeforeInEra(r) = Before(y) /\ BeforeInEra(r) \in Int
  BY <1>1, <1>2, Eras, CountsInt DEF DaysPerEra
<1>5. n = 365 => (r + 1) % 4 = 0 /\ ((r + 1) % 100 # 0 \/ r = 399)
  BY <1>1, LastDay, BeforeLeap
<1> HIDE DEF y, e, r, n, counted
<1>6. adjusted = e * DaysPerEra + in /\ in \in Int
  BY <1>2, <1>3, <1>4 DEF DaysPerEra
<1>7. in >= 0 /\ in < DaysPerEra
  BY <1>2, <1>3 DEF BeforeInEra, DaysPerEra
<1>8. (in - in \div 1460 + in \div 36524 - in \div 146096) \div 365 = r
  BY <1>2, <1>3, <1>5, YearFound DEF BeforeInEra
<1> HIDE DEF in, adjusted
<1>9. adjusted \div 146097 = e /\ adjusted - e * 146097 = in
  BY <1>2, <1>6, <1>7 DEF DaysPerEra
<1>10. in - (365 * r + r \div 4 - r \div 100) = n
  BY <1>2, <1>3 DEF in, BeforeInEra
<1>11. (5 * n + 2) \div 153 = FromMarch(d) /\ n = MonthStarts(FromMarch(d)) + d.day - 1
  BY MonthFound DEF n, OfYear
<1> DEFINE march == FromMarch(d)
           month == march + (IF march < 10 THEN 3 ELSE -9)
           first == (153 * march + 2) \div 5
<1>12. /\ month = d.month
       /\ y + (IF month <= 2 THEN 1 ELSE 0) = d.year
  BY <1>1 DEF y, March, FromMarch
<1>13. first \in Int /\ n - first + 1 = d.day
  BY <1>1, <1>11, DateFacts, MonthsStart DEF MonthStarts
<1>14. DateOf(counted) =
         [year |-> r + e * 400 + (IF month <= 2 THEN 1 ELSE 0), month |-> month,
          day |-> n - first + 1]
  BY <1>8, <1>9, <1>10, <1>11 DEF DateOf, adjusted
<1> HIDE DEF march, month, first
<1>15. r + e * 400 + (IF month <= 2 THEN 1 ELSE 0) = d.year
  BY <1>1, <1>2, <1>12
<1>16. DateOf(counted) = [year |-> d.year, month |-> d.month, day |-> d.day]
  BY <1>12, <1>13, <1>14, <1>15
<1> QED  BY <1>16, DateFacts DEF counted

-----------------------------------------------------------------------------
(***************************************************************************)
(* The calendar.                                                           *)
(***************************************************************************)
CalendarInv == date \in Dates /\ days = DaysSinceEpoch(date)

LEMMA CalendarBegins == CalendarInit => CalendarInv
<1> SUFFICES ASSUME CalendarInit PROVE CalendarInv
  OBVIOUS
<1> PICK year \in Years :
      /\ date = [year |-> year, month |-> 1, day |-> 1]
      /\ days = 365 * (year - 1970) + Cardinality(LeapYears \cap (1970 .. year - 1))
  BY DEF CalendarInit
<1>1. year \in Nat /\ 1970 <= year /\ year <= 9999
  BY RangeAssumption
<1>2. date \in Dates /\ DaysSinceEpoch(date) = Before(year - 1) + 306 - 719468
  BY <1>1, JanuaryFirst
<1> DEFINE leaps == Cardinality(LeapYears \cap (1970 .. year - 1))
<1>3. leaps = Before(year - 1) - 365 * (year - 1) - 477
  BY <1>1, LeapYearsCounted
<1>4. days = 365 * (year - 1970) + leaps /\ Before(year - 1) \in Int
  BY <1>1, CountsInt
<1> HIDE DEF leaps
<1>5. days = DaysSinceEpoch(date)
  BY <1>1, <1>2, <1>3, <1>4
<1> QED  BY <1>2, <1>5 DEF CalendarInv

LEMMA CalendarGoesOn == CalendarInv /\ [NextDay]_calendarVars => CalendarInv'
<1> SUFFICES ASSUME CalendarInv, [NextDay]_calendarVars PROVE CalendarInv'
  OBVIOUS
<1>1. CASE NextDay
  <2>1. date \in Dates /\ ~(date.month = 12 /\ date.day = 31) /\ date' = Successor(date)
        /\ days' = days + 1 /\ days = DaysSinceEpoch(date)
    BY <1>1 DEF NextDay, Successor, CalendarInv
  <2>2. Successor(date) \in Dates /\ DaysSinceEpoch(Successor(date)) = DaysSinceEpoch(date) + 1
    BY <2>1, DayCounted
  <2> QED  BY <2>1, <2>2 DEF CalendarInv
<1>2. CASE UNCHANGED calendarVars
  BY <1>2 DEF CalendarInv, calendarVars
<1> QED  BY <1>1, <1>2

LEMMA AcceptedFacts == CalendarInv => DatesAccepted
<1> SUFFICES ASSUME CalendarInv PROVE DatesAccepted
  OBVIOUS
<1>1. date \in Dates /\ DateAccepted(date) /\ date \in [year : Int, month : Int, day : Int]
  BY DEF CalendarInv, Dates
<1> DEFINE later == [date EXCEPT !.day = @ + 1]   zero == [date EXCEPT !.day = 0]
<1>2. /\ later.year = date.year /\ later.month = date.month /\ later.day = date.day + 1
      /\ zero.day = 0
  BY <1>1
<1> HIDE DEF later, zero
<1>3. ~DateAccepted(zero)
  BY <1>2 DEF DateAccepted
<1>4. MonthEnd(date) <=> date.day = DaysInMonth(date.year, date.month)
  BY <1>1, MonthEnds
<1>5. /\ 1970 <= date.year /\ date.year <= 9999 /\ date.month \in 1 .. 12
      /\ date.day \in Int /\ 1 <= date.day /\ date.day <= DaysInMonth(date.year, date.month)
      /\ DaysInMonth(date.year, date.month) \in Int
  BY <1>1, DateFacts, MonthDays DEF DateAccepted
<1>6. DateAccepted(later) <=> date.day + 1 <= DaysInMonth(date.year, date.month)
  BY <1>2, <1>5 DEF DateAccepted
<1>7. DateAccepted(later) <=> ~MonthEnd(date)
  BY <1>4, <1>5, <1>6
<1> QED  BY <1>1, <1>3, <1>7 DEF DatesAccepted, later, zero

LEMMA SentencesFacts == CalendarInv => SentencesAgree
<1> SUFFICES ASSUME CalendarInv, date.year \in Int, 1980 <= date.year, date.year <= 2079
             PROVE  DaysSinceEpoch([date EXCEPT !.year = RmcYear(date.year % 100)]) = days
  BY DEF SentencesAgree
<1> DEFINE y == date.year
<1>1. RmcYear(y % 100) = y
  <2>1. CASE y <= 1999
    <3>1. y % 100 = y - 1900
      BY <2>1
    <3> QED  BY <2>1, <3>1 DEF RmcYear
  <2>2. CASE y >= 2000
    <3>1. y % 100 = y - 2000
      BY <2>2
    <3> QED  BY <2>2, <3>1 DEF RmcYear
  <2> QED  BY <2>1, <2>2
<1>2. [date EXCEPT !.year = y] = date
  BY DEF CalendarInv, Dates
<1> QED  BY <1>1, <1>2 DEF CalendarInv

LEMMA SecondsBack ==
  ASSUME NEW s \in Nat
  PROVE  SecondOfDay(TimeOf(s)) = s
<1> DEFINE h == s \div 3600   r == s % 3600   m == r \div 60   t == s % 60
<1>1. h \in Nat /\ s = 3600 * h + r /\ r \in 0 .. 3600 - 1
  BY Multiples
<1> HIDE DEF h, r
<1>2. r \in Nat
  BY <1>1
<1>3. m \in Nat /\ r = 60 * m + (r % 60)
  BY <1>2, Multiples
<1>4. s = (60 * h) * 60 + r /\ 60 * h \in Nat
  BY <1>1
<1>5. t = r % 60 /\ r % 60 \in Int
  <2>1. ((60 * h) * 60 + r) % 60 = r % 60
    BY <1>2, <1>4, Shifted
  <2>2. r % 60 \in Int
    BY <1>2
  <2> QED  BY <1>4, <2>1, <2>2
<1> HIDE DEF m, t
<1>6. TimeOf(s) = [hour |-> h, minute |-> m, second |-> t]
  BY DEF TimeOf, h, r, m, t
<1> QED  BY <1>1, <1>2, <1>3, <1>5, <1>6 DEF SecondOfDay

\* Over all years the code takes, from 1970 to 9999, a date of the calendar becomes the
\* number of days since 1970, is found again from that number, is accepted as a label
\* and no other is, and is the same from an RMC as from a ZDA sentence from 1980 to 2079
\* (timebase_utc_to_unix, unix_to_utc, timebase_parse_rmc).
THEOREM CalendarAlwaysExact == CalendarSpec => []CalendarExact
<1>1. CalendarInv => CalendarExact
  <2> SUFFICES ASSUME CalendarInv PROVE CalendarExact
    OBVIOUS
  <2>1. DaysCounted
    BY DEF DaysCounted, CalendarInv
  <2>2. DateOf(days) = date
    BY WayBack DEF CalendarInv
  <2>3. \A s \in Seconds : SecondOfDay(TimeOf(s)) = s
    BY RangeAssumption, SecondsBack
  <2>4. RoundTrip
    BY <2>2, <2>3 DEF RoundTrip
  <2> QED  BY <2>1, <2>4, AcceptedFacts, SentencesFacts DEF CalendarExact
<1> QED  BY <1>1, CalendarBegins, CalendarGoesOn, PTL DEF CalendarSpec

=============================================================================
