----------------------------- MODULE NtpProofs ------------------------------
(***************************************************************************)
(* What is proved of NtpServer for every value of its constants: it leaves *)
(* the timebase's behaviour as it is, a reply is never ahead of UTC and    *)
(* has its timestamps in order, and every request is settled.              *)
(***************************************************************************)
EXTENDS NtpServer, TimebaseProofs

\* A step of the server is a step of one reader of the timebase, or none.
LEMMA NtpStep == [NtpNext]_allVars => [Next]_vars
<1> SUFFICES ASSUME [NtpNext]_allVars PROVE [Next]_vars
  OBVIOUS
<1>1. CASE TimebaseStep
  BY <1>1 DEF TimebaseStep, Next
<1>2. CASE AskTimebase \/ Refused \/ Granted
  <2>1. ReaderStep(Server)
    BY <1>2 DEF AskTimebase, Refused, Granted, ReaderStep
  <2> QED  BY <2>1, ServerAssumption DEF Next
<1>3. CASE Arrive \/ CheckFails \/ CheckPasses \/ SampleReceive \/ Allocate
           \/ AllocationFails \/ SampleTransmit \/ Send
  BY <1>3 DEF Arrive, CheckFails, CheckPasses, SampleReceive, Allocate,
              AllocationFails, SampleTransmit, Send
<1>4. CASE UNCHANGED allVars
  BY <1>4 DEF allVars
<1> QED  BY <1>1, <1>2, <1>3, <1>4 DEF NtpNext, CallbackStep

\* The NTP server is one of the readers that Timebase describes, so whatever is
\* proved of Timebase holds while the server runs (get_current_ntp_time).
THEOREM NtpImplementsTimebase == NtpSpec => Spec
BY NtpStep, PTL DEF NtpSpec, NtpInit, Spec

\* A second that is not later gives an instant that is not later.
LEMMA SecondMonotone ==
  ASSUME NEW a \in Int, NEW b \in Int, a <= b
  PROVE  a * Second <= b * Second
<1>1. a * Second \in Int /\ b * Second \in Int
  BY SecondProduct
<1>2. ~(b * Second < a * Second)
  BY SecondProduct
<1> QED  BY <1>1, <1>2

\* The snapshot at hand names the second of its edge or an earlier one, and both
\* timestamps are past.
RequestLocals ==
  [pc: RequestPc, snapshot: [unix: Int, pps: PpsSnapshots], receive: Int,
   transmit: Int, first: PpsSnapshots, kept: BOOLEAN]
ReplyInv ==
  /\ request \in RequestLocals
  /\ Stamped(request.snapshot.pps)
  /\ request.snapshot.unix <= request.snapshot.pps.edge
  /\ request.receive <= now
  /\ request.transmit <= now

NtpInv == IInv /\ ReplyInv

\* The cleared locals satisfy the invariant.
LEMMA NoRequestType ==
  /\ NoRequest \in RequestLocals
  /\ NoRequest.snapshot.pps = NoPps /\ NoRequest.snapshot.unix = 0
  /\ NoRequest.receive = 0 /\ NoRequest.transmit = 0
  /\ Stamped(NoPps) /\ NoPps.edge = 0
<1>1. 0 * Second = 0
  BY SecondAssumption
<1>2. Stamped(NoPps) /\ NoPps.edge = 0
  BY <1>1, WindowAssumption DEF Stamped, NoPps
<1>3. NoSnapshot \in [unix: Int, pps: PpsSnapshots]
  BY NoPpsType DEF NoSnapshot
<1> QED
  BY <1>2, <1>3, NoPpsType DEF NoRequest, NoSnapshot, RequestLocals, RequestPc

\* A timestamp computed from such a snapshot is past.
LEMMA TimestampPast ==
  ASSUME TypeOK, ReplyInv
  PROVE  Timestamp \in Int /\ Timestamp <= now
<1> DEFINE unix == request.snapshot.unix
           p == request.snapshot.pps
<1>1. unix \in Int /\ p.edge \in Int /\ p.stamp \in Int /\ now \in Int
      /\ unix <= p.edge
  BY DEF ReplyInv, RequestLocals, PpsSnapshots, TypeOK
<1>2. /\ unix * Second \in Int /\ p.edge * Second \in Int
      /\ unix * Second <= p.edge * Second
  BY <1>1, SecondMonotone, SecondProduct
<1>3. p.edge * Second <= p.stamp
  BY DEF ReplyInv, Stamped
<1> QED
  <2> HIDE DEF unix, p
  <2>1. Timestamp = unix * Second + now - p.stamp
    BY DEF Timestamp, unix, p
  <2> QED  BY <1>1, <1>2, <1>3, <2>1

LEMMA ReplyNext ==
  ASSUME NtpInv, TypeOK', [NtpNext]_allVars
  PROVE  ReplyInv'
<1>1. TypeOK /\ SnapshotInv /\ AnchorInv /\ ReplyInv /\ now \in Nat /\ now' \in Nat
  BY DEF NtpInv, IInv, TypeOK
<1>2. now' >= now
  <2>1. [Next]_vars
    BY NtpStep
  <2>2. CASE Tick
    BY <1>1, <2>2 DEF Tick
  <2>3. CASE now' = now
    BY <1>1, <2>3
  <2> QED
    BY <2>1, <2>2, <2>3 DEF Next, vars, MainStep, ReaderStep, PpsIsr, PpsMissed,
       Receive, PollReadPps, PollReadNow, PollCheck, UartQuiet, UartData,
       UartFlush, LinesDone, AssociateReadPps, AssociateReadNow,
       AssociateCommit, ReadPps, ReadNow, CopyState
<1>3. CASE UNCHANGED request
  BY <1>1, <1>2, <1>3 DEF ReplyInv, RequestLocals, Stamped
<1>4. CASE request' = NoRequest
  BY <1>1, <1>4, NoRequestType DEF ReplyInv
<1>5. CASE Arrive \/ CheckPasses \/ Allocate
  BY <1>1, <1>2, <1>5
     DEF Arrive, CheckPasses, Allocate, ReplyInv, RequestLocals, RequestPc, Stamped
<1>6. CASE Granted
  <2>1. Server \in Readers /\ SnapshotGranted(Server)
    BY <1>6, ServerAssumption DEF Granted
  <2>2. ProjectedSecond(reader[Server].pps) <= reader[Server].pps.edge
    BY <1>1, <2>1, GrantedNotAhead
  <2>3. reader[Server].pps \in PpsSnapshots /\ Stamped(reader[Server].pps)
    BY <1>1, <2>1, SnapshotTypes DEF SnapshotInv
  <2>4. ProjectedSecond(reader[Server].pps) \in Int
    <3>1. state.anchor \in Nat /\ state.count \in Nat
          /\ reader[Server].pps.count \in Nat
      BY <1>1, <2>3 DEF TypeOK, TimebaseStates, PpsSnapshots
    <3>2. PpsDelta(reader[Server].pps.count, state.count) \in Nat
      BY <3>1, DeltaNat
    <3> QED  BY <3>1, <3>2 DEF ProjectedSecond
  <2> DEFINE taken == [unix |-> ProjectedSecond(reader[Server].pps),
                       pps  |-> reader[Server].pps]
  <2>5. taken \in [unix: Int, pps: PpsSnapshots] /\ Stamped(taken.pps)
        /\ taken.unix <= taken.pps.edge
    BY <2>2, <2>3, <2>4
  <2>6. \E pc \in RequestPc, kept \in BOOLEAN :
          request' = [request EXCEPT !.pc = pc, !.snapshot = taken, !.kept = kept]
    BY <1>6 DEF Granted, RequestPc
  <2> HIDE DEF taken
  <2>7. /\ request' \in RequestLocals /\ request'.snapshot = taken
        /\ request'.receive = request.receive
        /\ request'.transmit = request.transmit
    BY <1>1, <2>5, <2>6 DEF ReplyInv, RequestLocals
  <2>8. request'.receive <= now' /\ request'.transmit <= now'
    BY <1>1, <1>2, <2>7 DEF ReplyInv, RequestLocals
  <2> QED  BY <2>5, <2>7, <2>8 DEF ReplyInv, Stamped
<1>7. CASE SampleReceive \/ SampleTransmit
  <2>1. Timestamp \in Int /\ Timestamp <= now
    BY <1>1, TimestampPast
  <2>2. \E pc \in RequestPc, first \in PpsSnapshots :
          \/ request' = [request EXCEPT !.pc = pc, !.receive = Timestamp,
                                       !.first = first]
          \/ request' = [request EXCEPT !.pc = pc, !.transmit = Timestamp]
    BY <1>1, <1>7
       DEF SampleReceive, SampleTransmit, ReplyInv, RequestLocals, RequestPc
  <2>3. now' = now
    BY <1>7 DEF SampleReceive, SampleTransmit, vars
  <2>4. /\ request' \in RequestLocals /\ request'.snapshot = request.snapshot
        /\ request'.receive \in {request.receive, Timestamp}
        /\ request'.transmit \in {request.transmit, Timestamp}
    BY <1>1, <2>1, <2>2 DEF ReplyInv, RequestLocals
  <2> QED  BY <1>1, <2>1, <2>3, <2>4 DEF ReplyInv, Stamped
<1> QED
  BY <1>3, <1>4, <1>5, <1>6, <1>7
     DEF NtpNext, allVars, ntpVars, TimebaseStep, CallbackStep, AskTimebase,
         Refused, CheckFails, AllocationFails, Send, Ignore

\* With a receiver that names no second before it begins, no reply carries a
\* time that UTC has not reached (ntp_receive_callback).
THEOREM ReplyNeverAheadOfUtc == HonestReceiver => (NtpSpec => []ReplyNeverAhead)
<1> SUFFICES ASSUME HonestReceiver PROVE NtpSpec => []ReplyNeverAhead
  OBVIOUS
<1>1. NtpInit => NtpInv
  BY IInvInit, NoRequestType DEF NtpInit, NtpInv, ReplyInv, IInv, TypeOK
<1>2. NtpInv /\ [NtpNext]_allVars => NtpInv'
  BY NtpStep, IInvNext, ReplyNext DEF NtpInv, IInv
<1>3. NtpInv => ReplyNeverAhead
  BY DEF NtpInv, ReplyInv, ReplyNeverAhead
<1> QED  BY <1>1, <1>2, <1>3, PTL DEF NtpSpec

-----------------------------------------------------------------------------
(***************************************************************************)
(* Requests are settled once.                                              *)
(***************************************************************************)
Counters == [received: Nat, transmitted: Nat, ignored: Nat, invalidTimebase: Nat]

SettledInv ==
  /\ TypeOK
  /\ request \in RequestLocals
  /\ stats \in Counters
  /\ RequestSettled

LEMMA RequestType ==
  ASSUME TypeOK, request \in RequestLocals, [NtpNext]_allVars
  PROVE  request' \in RequestLocals
<1>1. CASE UNCHANGED request
  BY <1>1
<1>2. CASE request' = NoRequest
  BY <1>2, NoRequestType
<1>3. CASE Arrive \/ CheckPasses \/ Allocate
  BY <1>3 DEF Arrive, CheckPasses, Allocate, RequestLocals, RequestPc
<1>4. CASE Granted
  <2> DEFINE p == reader[Server].pps
             taken == [unix |-> ProjectedSecond(p), pps |-> p]
  <2>1. p \in PpsSnapshots
    BY ServerAssumption, SnapshotTypes
  <2>2. ProjectedSecond(p) \in Int
    <3>1. state.anchor \in Nat /\ state.count \in Nat /\ p.count \in Nat
      BY <2>1 DEF TypeOK, TimebaseStates, PpsSnapshots
    <3>2. PpsDelta(p.count, state.count) \in Nat
      BY <3>1, DeltaNat
    <3> QED  BY <3>1, <3>2 DEF ProjectedSecond
  <2>3. taken \in [unix: Int, pps: PpsSnapshots]
    BY <2>1, <2>2
  <2>4. \E pc \in RequestPc, kept \in BOOLEAN :
          request' = [request EXCEPT !.pc = pc, !.snapshot = taken, !.kept = kept]
    BY <1>4 DEF Granted, RequestPc
  <2> HIDE DEF taken
  <2> QED  BY <2>3, <2>4 DEF RequestLocals
<1>5. CASE SampleReceive \/ SampleTransmit
  <2>1. Timestamp \in Int
    <3> DEFINE unix == request.snapshot.unix
    <3>1. unix \in Int /\ request.snapshot.pps.stamp \in Int /\ now \in Int
      BY DEF RequestLocals, PpsSnapshots, TypeOK
    <3>2. unix * Second \in Int
      BY <3>1, SecondProduct
    <3> QED  BY <3>1, <3>2 DEF Timestamp
  <2> QED  BY <1>5, <2>1 DEF SampleReceive, SampleTransmit, RequestLocals, RequestPc
<1> QED
  BY <1>1, <1>2, <1>3, <1>4, <1>5
     DEF NtpNext, allVars, ntpVars, TimebaseStep, CallbackStep, AskTimebase,
         Refused, CheckFails, AllocationFails, Send, Ignore

LEMMA SettledNext ==
  ASSUME SettledInv, [NtpNext]_allVars
  PROVE  SettledInv'
<1>1. TypeOK' /\ request' \in RequestLocals
  BY NtpStep, TypeNext, RequestType DEF SettledInv
<1>2. stats \in Counters /\ request \in RequestLocals /\ Accounted /\ NoPbufLeak
  BY DEF SettledInv, RequestSettled
<1> USE DEF RequestSettled, Accounted, NoPbufLeak
<1>3. CASE UNCHANGED ntpVars
  BY <1>1, <1>2, <1>3 DEF SettledInv, ntpVars
<1>4. ASSUME NEW invalid \in BOOLEAN, Ignore(invalid), held' = {}, request.pc # "none"
      PROVE  SettledInv'
  <2>1. /\ stats' \in Counters
        /\ stats'.received = stats.received
        /\ stats'.transmitted = stats.transmitted
        /\ stats'.ignored = stats.ignored + 1
        /\ stats'.invalidTimebase \in {stats.invalidTimebase, stats.invalidTimebase + 1}
    <3>1. stats.ignored + 1 \in Nat /\ stats.invalidTimebase + 1 \in Nat
      BY <1>2 DEF Counters
    <3>2. CASE invalid
      <4>1. stats' = [stats EXCEPT !.ignored = stats.ignored + 1,
                                   !.invalidTimebase = stats.invalidTimebase + 1]
        BY <1>4, <3>2 DEF Ignore
      <4> QED  BY <1>2, <3>1, <4>1 DEF Counters
    <3>3. CASE ~invalid
      <4>1. stats' = [stats EXCEPT !.ignored = stats.ignored + 1,
                                   !.invalidTimebase = stats.invalidTimebase]
        BY <1>4, <3>3 DEF Ignore
      <4> QED  BY <1>2, <3>1, <4>1 DEF Counters
    <3> QED  BY <3>2, <3>3
  <2>2. request'.pc = "none" /\ request.pc # "none"
    BY <1>4 DEF Ignore, NoRequest
  <2> QED  BY <1>1, <1>2, <1>4, <2>1, <2>2 DEF SettledInv, Counters
<1>5. CASE Arrive
  BY <1>1, <1>2, <1>5 DEF SettledInv, Arrive, Counters, RequestLocals
<1>6. CASE CheckFails \/ AllocationFails
  BY <1>2, <1>4, <1>6 DEF CheckFails, AllocationFails
<1>7. CASE CheckPasses
  BY <1>1, <1>2, <1>7 DEF SettledInv, CheckPasses, RequestLocals
<1>8. CASE Refused
  BY <1>4, <1>8 DEF Refused
<1>9. CASE Granted
  BY <1>1, <1>2, <1>9 DEF SettledInv, Granted, RequestLocals
<1>10. CASE SampleReceive
  BY <1>1, <1>2, <1>10 DEF SettledInv, SampleReceive, RequestLocals
<1>11. CASE Allocate
  BY <1>1, <1>2, <1>11 DEF SettledInv, Allocate, RequestLocals
<1>12. CASE SampleTransmit
  BY <1>1, <1>2, <1>12 DEF SettledInv, SampleTransmit, RequestLocals
<1>13. CASE Send
  <2>1. CASE request' = NoRequest /\ stats' = [stats EXCEPT !.transmitted = @ + 1]
    BY <1>1, <1>2, <1>13, <2>1 DEF SettledInv, Send, NoRequest, Counters
  <2>2. CASE Ignore(FALSE)
    BY <1>4, <1>13, <2>2 DEF Send
  <2> QED  BY <1>13, <2>1, <2>2 DEF Send
<1> QED
  BY <1>3, <1>5, <1>6, <1>7, <1>8, <1>9, <1>10, <1>11, <1>12, <1>13
     DEF NtpNext, allVars, TimebaseStep, CallbackStep, AskTimebase

\* Whatever the receiver, the timebase and memory do, a request is counted once and
\* no pbuf is held when the callback returns (ntp_receive_callback).
THEOREM RequestsAlwaysSettled == NtpSpec => []RequestSettled
<1>1. NtpInit => SettledInv
  BY TypeInit, NoRequestType
     DEF NtpInit, SettledInv, Counters, RequestSettled, Accounted, NoPbufLeak, NoRequest
<1>2. SettledInv /\ [NtpNext]_allVars => SettledInv'
  BY SettledNext
<1>3. SettledInv => RequestSettled
  BY DEF SettledInv
<1> QED  BY <1>1, <1>2, <1>3, PTL DEF NtpSpec

-----------------------------------------------------------------------------
(***************************************************************************)
(* The order of the two timestamps.                                        *)
(***************************************************************************)

\* UTC at tick t, by the edge p of second u.
UtcAt(u, p, t) == u * Second + t - p.stamp

\* The first snapshot is not overtaken by the offset's corrections, and what the
\* receive timestamp was taken from is known until the reply is sent.
OrderInv ==
  /\ Stamped(request.first)
  /\ request.pc \in {"sample_receive", "alloc", "transmit"}
       /\ lastServed[Server] # NothingServed
     => request.snapshot.unix <= Offset(state) + request.snapshot.pps.count
  /\ request.pc \in {"alloc", "transmit"} =>
       /\ request.first = request.snapshot.pps
       /\ request.receive <= UtcAt(request.snapshot.unix, request.first, now)
  /\ request.pc = "sample_transmit" /\ request.kept =>
       \E u \in Int :
         /\ request.receive <= UtcAt(u, request.first, now)
         /\ u - request.first.count <= request.snapshot.unix - request.snapshot.pps.count
  /\ request.pc = "send" /\ request.kept =>
       \E u, t \in Int :
         /\ request.receive <= UtcAt(u, request.first, t)
         /\ u - request.first.count <= request.snapshot.unix - request.snapshot.pps.count
         /\ request.transmit = UtcAt(request.snapshot.unix, request.snapshot.pps, t)

FullInv == SourceInv /\ ReplyInv /\ OrderInv

LEMMA UtcAtLater ==
  ASSUME NEW u \in Int, NEW p \in PpsSnapshots, NEW t \in Int, NEW s \in Int, t <= s
  PROVE  UtcAt(u, p, t) \in Int /\ UtcAt(u, p, t) <= UtcAt(u, p, s)
<1>1. u * Second \in Int
  BY SecondProduct
<1> QED  BY <1>1 DEF UtcAt, PpsSnapshots

LEMMA TimeAdvances == ASSUME TypeOK, [Next]_vars PROVE now' \in Nat /\ now <= now'
<1>1. now \in Nat
  BY DEF TypeOK
<1>2. CASE Tick
  BY <1>1, <1>2 DEF Tick
<1>3. CASE now' = now
  BY <1>1, <1>3
<1> QED
  BY <1>2, <1>3 DEF Next, vars, MainStep, ReaderStep, PpsIsr, PpsMissed,
     Receive, PollReadPps, PollReadNow, PollCheck, UartQuiet, UartData,
     UartFlush, LinesDone, AssociateReadPps, AssociateReadNow,
     AssociateCommit, ReadPps, ReadNow, CopyState

\* Outside of a read that is granted, a second that was served stays within reach.
LEMMA ReachKept ==
  ASSUME Lifetime, FullInv, TimebaseStep \/ AskTimebase \/ UNCHANGED vars,
         lastServed'[Server] # NothingServed
  PROVE  /\ lastServed[Server] # NothingServed
         /\ Offset(state) \in Int /\ Offset(state') \in Int
         /\ Offset(state) <= Offset(state')
<1>1. IInv /\ ServedInv /\ Offset(state) \in Int /\ Server \in Readers
  BY SourceTypes, ServerAssumption DEF FullInv, SourceInv
<1>2. CASE UNCHANGED <<state, lastServed>>
  BY <1>1, <1>2
<1>3. CASE PollCheck
  <2>1. UNCHANGED <<state, lastServed>>
    BY <1>1, <1>3 DEF PollCheck
  <2> QED  BY <1>2, <2>1
<1>4. CASE AssociateCommit
  <2>1. lastServed' = lastServed
    BY <1>4 DEF AssociateCommit
  <2>2. state.valid
    BY <1>1, <2>1 DEF ServedInv
  <2>3. Offset(state') \in Int /\ Offset(state') - Offset(state) \in {0, 1}
    BY <1>4, <2>2, CommitShifts DEF FullInv
  <2> QED  BY <1>1, <2>1, <2>3
<1> QED
  BY <1>2, <1>3, <1>4
     DEF TimebaseStep, AskTimebase, vars, MainStep, Tick, PpsIsr, PpsMissed,
         Receive, PollReadPps, PollReadNow, UartQuiet, UartData, UartFlush,
         LinesDone, AssociateReadPps, AssociateReadNow, ReadPps, ReadNow

LEMMA OrderNext ==
  ASSUME Lifetime, FullInv, [NtpNext]_allVars
  PROVE  OrderInv'
<1>1. /\ IInv /\ TypeOK /\ ServedInv /\ ReplyInv /\ OrderInv /\ SourceInv
      /\ request \in RequestLocals /\ Server \in Readers
  BY ServerAssumption DEF FullInv, SourceInv, IInv, ReplyInv
<1>2. /\ now \in Nat /\ now' \in Nat /\ now <= now'
      /\ request.snapshot.unix \in Int /\ request.snapshot.pps \in PpsSnapshots
      /\ request.first \in PpsSnapshots /\ request.receive \in Int
      /\ request.snapshot.pps.count \in Nat /\ request.first.count \in Nat
      /\ Offset(state) \in Int
  BY <1>1, NtpStep, TimeAdvances, SourceTypes DEF RequestLocals, TypeOK, PpsSnapshots
<1>3. ASSUME TimebaseStep \/ AskTimebase \/ UNCHANGED allVars
      PROVE  OrderInv'
  <2>1. request' = request
    BY <1>3 DEF TimebaseStep, AskTimebase, allVars, ntpVars
  <2>2. lastServed'[Server] # NothingServed =>
          /\ lastServed[Server] # NothingServed
          /\ Offset(state') \in Int /\ Offset(state) <= Offset(state')
    BY <1>3, ReachKept DEF allVars
  <2>3. request.pc \in {"sample_receive", "alloc", "transmit"}
          /\ lastServed'[Server] # NothingServed
        => request.snapshot.unix <= Offset(state') + request.snapshot.pps.count
    BY <1>1, <1>2, <2>2 DEF OrderInv
  <2>4. ASSUME NEW u \in Int, request.receive <= UtcAt(u, request.first, now)
        PROVE  request.receive <= UtcAt(u, request.first, now')
    <3>1. /\ UtcAt(u, request.first, now) \in Int
          /\ UtcAt(u, request.first, now) <= UtcAt(u, request.first, now')
      BY <1>2, UtcAtLater
    <3>2. UtcAt(u, request.first, now') \in Int
      BY <1>2, UtcAtLater
    <3> QED  BY <1>2, <2>4, <3>1, <3>2
  <2>5. ASSUME request.pc \in {"alloc", "transmit"}
        PROVE  /\ request.first = request.snapshot.pps
               /\ request.receive <= UtcAt(request.snapshot.unix, request.first, now')
    BY <1>1, <1>2, <2>4, <2>5 DEF OrderInv
  <2>6. ASSUME request.pc = "sample_transmit", request.kept
        PROVE  \E u \in Int :
                 /\ request.receive <= UtcAt(u, request.first, now')
                 /\ u - request.first.count
                      <= request.snapshot.unix - request.snapshot.pps.count
    <3> PICK u \in Int :
          /\ request.receive <= UtcAt(u, request.first, now)
          /\ u - request.first.count
               <= request.snapshot.unix - request.snapshot.pps.count
      BY <1>1, <2>6 DEF OrderInv
    <3> QED  BY <2>4
  <2>7. Stamped(request.first) /\ Stamped(request'.first)
    BY <1>1, <2>1 DEF OrderInv
  <2>8. UtcAt(request.snapshot.unix, request.first, now)'
          = UtcAt(request.snapshot.unix, request.first, now')
    BY <2>1 DEF UtcAt
  <2>9. ASSUME NEW u \in Int
        PROVE  UtcAt(u, request.first, now)' = UtcAt(u, request.first, now')
    BY <2>1 DEF UtcAt
  <2> QED
    BY <1>1, <2>1, <2>3, <2>5, <2>6, <2>7, <2>8, <2>9 DEF OrderInv, UtcAt, Stamped
<1>4. CASE request' = NoRequest
  BY <1>4, NoRequestType DEF OrderInv, NoRequest, Stamped
<1>5. CASE Arrive \/ CheckPasses
  <2>1. /\ request'.pc \in {"check", "receive"}
        /\ request'.first = request.first
    BY <1>1, <1>5 DEF Arrive, CheckPasses, RequestLocals
  <2> QED  BY <1>1, <2>1 DEF OrderInv, Stamped
<1>6. CASE Allocate
  <2>1. /\ request.pc = "alloc" /\ request'.pc = "transmit" /\ UNCHANGED vars
        /\ request'.first = request.first /\ request'.snapshot = request.snapshot
        /\ request'.receive = request.receive
    BY <1>1, <1>6 DEF Allocate, RequestLocals
  <2> QED  BY <1>1, <2>1 DEF OrderInv, Stamped, UtcAt, vars
<1>7. CASE Granted
  <2> DEFINE p == reader[Server].pps
  <2>1. /\ ProjectedSecond(p) = Offset(state) + p.count /\ p \in PpsSnapshots
        /\ p.count \in Nat /\ ProjectedSecond(p) \in Int
    BY <1>1, <1>7, GrantedExact, SnapshotTypes, SourceTypes DEF Granted
  <2>2. state' = state /\ now' = now
    BY <1>7 DEF Granted, CopyState
  <2>3. /\ request'.snapshot.unix = ProjectedSecond(p) /\ request'.snapshot.pps = p
        /\ request'.first = request.first /\ request'.receive = request.receive
    BY <1>1, <1>7 DEF Granted, RequestLocals
  <2> HIDE DEF p
  <2>4. CASE request.pc = "receive"
    <3>1. request'.pc = "sample_receive"
      BY <1>1, <1>7, <2>4 DEF Granted, RequestLocals
    <3>2. request'.snapshot.unix <= Offset(state') + request'.snapshot.pps.count
      BY <1>2, <2>1, <2>2, <2>3
    <3> QED  BY <1>1, <2>3, <3>1, <3>2 DEF OrderInv, Stamped
  <2>5. CASE request.pc = "transmit"
    <3>1. /\ request'.pc = "sample_transmit"
          /\ request'.kept => lastServed[Server] # NothingServed
      BY <1>1, <1>7, <2>5 DEF Granted, RequestLocals
    <3>2. ASSUME request'.kept
          PROVE  \E u \in Int :
                   /\ request.receive <= UtcAt(u, request.first, now)
                   /\ u - request.first.count <= ProjectedSecond(p) - p.count
      <4>1. request.snapshot.unix <= Offset(state) + request.snapshot.pps.count
        BY <1>1, <2>5, <3>1, <3>2 DEF OrderInv
      <4>2. request.first = request.snapshot.pps
            /\ request.receive <= UtcAt(request.snapshot.unix, request.first, now)
        BY <1>1, <2>5 DEF OrderInv
      <4>3. request.snapshot.unix - request.first.count <= ProjectedSecond(p) - p.count
        BY <1>2, <2>1, <4>1, <4>2
      <4> QED  BY <1>2, <4>2, <4>3
    <3> QED  BY <1>1, <2>2, <2>3, <3>1, <3>2 DEF OrderInv, Stamped, UtcAt
  <2> QED  BY <1>7, <2>4, <2>5 DEF Granted
<1>8. CASE SampleReceive
  <2>1. /\ request.pc = "sample_receive" /\ request'.pc = "alloc"
        /\ UNCHANGED <<state, lastServed, now>>
        /\ request'.first = request.snapshot.pps
        /\ request'.snapshot = request.snapshot
        /\ request'.receive = Timestamp
    BY <1>1, <1>8 DEF SampleReceive, RequestLocals, vars
  <2>2. Timestamp = UtcAt(request.snapshot.unix, request.snapshot.pps, now)
    BY DEF Timestamp, UtcAt
  <2>3. Timestamp \in Int
    BY <1>2, <2>2, UtcAtLater
  <2>4. Stamped(request.snapshot.pps)
    BY <1>1 DEF ReplyInv
  <2> QED  BY <1>1, <2>1, <2>2, <2>3, <2>4 DEF OrderInv, Stamped, UtcAt
<1>9. CASE SampleTransmit
  <2>1. /\ request.pc = "sample_transmit" /\ request'.pc = "send"
        /\ request'.first = request.first /\ request'.snapshot = request.snapshot
        /\ request'.receive = request.receive /\ request'.kept = request.kept
        /\ request'.transmit = UtcAt(request.snapshot.unix, request.snapshot.pps, now)
    BY <1>1, <1>9 DEF SampleTransmit, RequestLocals, Timestamp, UtcAt
  <2>2. now \in Int
    BY <1>2
  <2> QED  BY <1>1, <2>1, <2>2 DEF OrderInv, Stamped, UtcAt
<1> QED
  BY <1>3, <1>4, <1>5, <1>6, <1>7, <1>8, <1>9
     DEF NtpNext, CallbackStep, Refused, CheckFails, AllocationFails, Send, Ignore

LEMMA OrderedReply == ASSUME FullInv PROVE ReplyOrdered
<1> SUFFICES ASSUME request.pc = "send", request.kept, EdgesBetween = CapturedBetween
             PROVE  request.receive <= request.transmit + IsrLatency
  BY DEF ReplyOrdered
<1> DEFINE p == request.snapshot.pps
           q == request.first
           unix == request.snapshot.unix
           k == p.edge - q.edge
<1>1. /\ p \in PpsSnapshots /\ q \in PpsSnapshots /\ unix \in Int
      /\ request.receive \in Int /\ request.transmit \in Int
      /\ Stamped(p) /\ Stamped(q)
  BY DEF FullInv, ReplyInv, RequestLocals, OrderInv
<1>2. PICK u \in Int, t \in Int :
        /\ request.receive <= UtcAt(u, q, t)
        /\ u - q.count <= unix - p.count
        /\ request.transmit = UtcAt(unix, p, t)
  BY DEF FullInv, OrderInv
<1>3. /\ p.count \in Nat /\ q.count \in Nat /\ p.edge \in Nat /\ q.edge \in Nat
      /\ p.stamp \in Nat /\ q.stamp \in Nat
  BY <1>1 DEF PpsSnapshots
<1>4. p.count - q.count = k
  BY DEF EdgesBetween, CapturedBetween
<1>5. u + k <= unix /\ u + k \in Int
  BY <1>2, <1>1, <1>3, <1>4
<1>6. /\ p.stamp <= p.edge * Second + IsrLatency
      /\ q.edge * Second <= q.stamp
  BY <1>1 DEF Stamped
<1> HIDE DEF p, q, unix, k
<1>7. /\ (u + k) * Second <= unix * Second
      /\ (u + k) * Second = u * Second + k * Second
      /\ k * Second = p.edge * Second - q.edge * Second
      /\ u * Second \in Int /\ unix * Second \in Int
      /\ p.edge * Second \in Int /\ q.edge * Second \in Int
  <2>1. k \in Int /\ k = p.edge - q.edge
    BY <1>3 DEF k
  <2>2. (u + k) * Second = u * Second + k * Second
    BY <2>1, SecondAssumption
  <2>3. (p.edge - q.edge) * Second = p.edge * Second - q.edge * Second
    BY <1>3, SecondAssumption
  <2>4. (u + k) * Second <= unix * Second
    <3> DEFINE v == u + k
    <3>1. v \in Int /\ v <= unix
      BY <1>5
    <3> HIDE DEF v
    <3>2. v * Second <= unix * Second
      BY <1>1, <3>1, SecondMonotone
    <3> QED  BY <3>2 DEF v
  <2>5. /\ u * Second \in Int /\ unix * Second \in Int
        /\ p.edge * Second \in Int /\ q.edge * Second \in Int
    BY <1>1, <1>3, SecondAssumption
  <2> QED  BY <2>1, <2>2, <2>3, <2>4, <2>5
<1>8. /\ request.receive <= u * Second + t - q.stamp
      /\ request.transmit = unix * Second + t - p.stamp
  BY <1>2 DEF UtcAt
<1> QED  BY <1>1, <1>3, <1>6, <1>7, <1>8, WindowAssumption

\* With a receiver that names no second before it begins, and as long as the count
\* has not wrapped, a reply's receive timestamp is not later than its transmit
\* timestamp, but for the jitter of the interrupt, unless an edge was missed or the
\* timebase lost in between (ntp_receive_callback).
THEOREM RepliesAlwaysOrdered ==
  HonestReceiver /\ Lifetime => (NtpSpec => []ReplyOrdered)
<1> SUFFICES ASSUME HonestReceiver, Lifetime PROVE NtpSpec => []ReplyOrdered
  OBVIOUS
<1>1. NtpInit => FullInv
  BY IInvInit, ServedInvInit, NoRequestType
     DEF NtpInit, FullInv, SourceInv, ReplyInv, OrderInv, IInv, TypeOK, NoRequest
<1>2. FullInv /\ [NtpNext]_allVars => FullInv'
  <2> SUFFICES ASSUME FullInv, [NtpNext]_allVars PROVE FullInv'
    OBVIOUS
  <2>1. IInv' /\ ServedInv'
    BY NtpStep, IInvNext, ServedInvNext DEF FullInv, SourceInv
  <2>2. ReplyInv'
    BY <2>1, ReplyNext DEF FullInv, SourceInv, NtpInv, IInv
  <2> QED  BY <2>1, <2>2, OrderNext DEF FullInv, SourceInv
<1> QED  BY <1>1, <1>2, OrderedReply, PTL DEF NtpSpec

=============================================================================
