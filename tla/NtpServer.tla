----------------------------- MODULE NtpServer ------------------------------
(***************************************************************************)
(* The NTP server (ntp_server.c) on top of the timebase: its receive       *)
(* callback runs in the lwIP thread and takes two snapshots of the         *)
(* timebase per request, one for the receive timestamp and one, as late as *)
(* possible, for the transmit and the reference timestamps.  The main task *)
(* and the PPS interrupt go on between any two of its steps.               *)
(*                                                                         *)
(* A timestamp is a number of ticks of UTC; ntp_time.c turns it into       *)
(* seconds and a fraction.                                                 *)
(***************************************************************************)
EXTENDS Timebase

CONSTANTS
  Server,       \* the one reader of the timebase that is modelled here
  MaxRequests   \* bound: requests received

ASSUME ServerAssumption == Readers = {Server} /\ MaxRequests \in Nat

VARIABLES
  request,  \* the callback's program counter and locals
  held,     \* the pbufs that the callback has to free
  stats     \* the static variable of ntp_server.c

ntpVars == <<request, held, stats>>
allVars == <<vars, ntpVars>>

\* The locals: the snapshot at hand, the two timestamps and, as history, the PPS
\* snapshot behind the receive timestamp.
NoSnapshot == [unix |-> 0, pps |-> NoPps]
NoRequest == [pc |-> "none", snapshot |-> NoSnapshot, receive |-> 0,
              transmit |-> 0, first |-> NoPps, kept |-> TRUE]

NtpInit ==
  /\ Init
  /\ request = NoRequest
  /\ held = {}
  /\ stats = [received |-> 0, transmitted |-> 0, ignored |-> 0,
              invalidTimebase |-> 0]

-----------------------------------------------------------------------------
(***************************************************************************)
(* ntp_receive_callback.                                                   *)
(***************************************************************************)

\* stats_record_ignored, and the callback returns.
Ignore(invalid) ==
  /\ request' = NoRequest
  /\ stats' = [stats EXCEPT !.ignored = @ + 1,
                            !.invalidTimebase = IF invalid THEN @ + 1 ELSE @]

\* A datagram arrives; it is copied and its pbuf freed.
Arrive ==
  /\ request.pc = "none"
  /\ stats.received < MaxRequests
  /\ stats' = [stats EXCEPT !.received = @ + 1]
  /\ request' = [request EXCEPT !.pc = "check"]
  /\ UNCHANGED <<held, vars>>

\* The request is short, not a client's, or of an unknown version.
CheckFails ==
  /\ request.pc = "check"
  /\ Ignore(FALSE)
  /\ UNCHANGED <<held, vars>>

CheckPasses ==
  /\ request.pc = "check"
  /\ request' = [request EXCEPT !.pc = "receive"]
  /\ UNCHANGED <<held, stats, vars>>

\* get_current_ntp_time asks the timebase for a snapshot.
AskTimebase ==
  /\ request.pc \in {"receive", "transmit"}
  /\ ReadPps(Server) \/ ReadNow(Server)
  /\ UNCHANGED ntpVars

\* Mutant: the response pbuf is not freed when the second snapshot is refused.
RefusedLeaks ==
  /\ request.pc \in {"receive", "transmit"}
  /\ CopyState(Server)
  /\ ~SnapshotGranted(Server)
  /\ Ignore(TRUE)
  /\ UNCHANGED held

\* The timebase refuses: the response pbuf, if there is one, is freed.
Refused ==
  /\ request.pc \in {"receive", "transmit"}
  /\ CopyState(Server)
  /\ ~SnapshotGranted(Server)
  /\ Ignore(TRUE)
  /\ held' = {}

\* The timebase grants a snapshot.  kept records whether the timebase was valid
\* without interruption since the first one.
Granted ==
  /\ request.pc \in {"receive", "transmit"}
  /\ CopyState(Server)
  /\ SnapshotGranted(Server)
  /\ request' = [request EXCEPT
       !.pc = IF @ = "receive" THEN "sample_receive" ELSE "sample_transmit",
       !.snapshot = [unix |-> ProjectedSecond(reader[Server].pps),
                     pps  |-> reader[Server].pps],
       !.kept = request.pc = "transmit" => lastServed[Server] # NothingServed]
  /\ UNCHANGED <<held, stats>>

\* Mutant: the latest second is advanced by the time since the anchor's edge.
TimestampSinceAnchor == request.snapshot.unix * Second + now - state.stamp

\* ntp_time_from_pps: the snapshot's second, advanced by the time since its
\* edge, with whole seconds carried over.
Timestamp == request.snapshot.unix * Second + now - request.snapshot.pps.stamp

\* The timer is read once more, after the snapshot.
SampleReceive ==
  /\ request.pc = "sample_receive"
  /\ request' = [request EXCEPT !.pc = "alloc", !.receive = Timestamp,
                                !.first = request.snapshot.pps]
  /\ UNCHANGED <<held, stats, vars>>

\* pbuf_alloc succeeds, or fails for want of memory.
Allocate ==
  /\ request.pc = "alloc"
  /\ request' = [request EXCEPT !.pc = "transmit"]
  /\ held' = {"response"}
  /\ UNCHANGED <<stats, vars>>

AllocationFails ==
  /\ request.pc = "alloc"
  /\ Ignore(FALSE)
  /\ UNCHANGED <<held, vars>>

SampleTransmit ==
  /\ request.pc = "sample_transmit"
  /\ request' = [request EXCEPT !.pc = "send", !.transmit = Timestamp]
  /\ UNCHANGED <<held, stats, vars>>

\* udp_sendto; the response pbuf is freed whatever the result.
Send ==
  /\ request.pc = "send"
  /\ held' = {}
  /\ \/ /\ stats' = [stats EXCEPT !.transmitted = @ + 1]
        /\ request' = NoRequest
     \/ Ignore(FALSE)
  /\ UNCHANGED vars

CallbackStep ==
  \/ CheckFails \/ CheckPasses
  \/ AskTimebase \/ Refused \/ Granted
  \/ SampleReceive \/ Allocate \/ AllocationFails \/ SampleTransmit \/ Send

-----------------------------------------------------------------------------
\* The rest of the system does not touch the server's variables.
TimebaseStep ==
  /\ Tick \/ PpsIsr \/ PpsMissed \/ Receive \/ MainStep
  /\ UNCHANGED ntpVars

NtpNext == TimebaseStep \/ Arrive \/ CallbackStep

NtpSpec == NtpInit /\ [][NtpNext]_allVars

-----------------------------------------------------------------------------
(***************************************************************************)
(* Properties.                                                             *)
(***************************************************************************)

RequestPc == {"none", "check", "receive", "sample_receive", "alloc",
              "transmit", "sample_transmit", "send"}

\* A reply never claims a time that UTC has not reached, provided the receiver
\* never names a second before it begins: neither the interrupts and labels
\* between the two snapshots nor a delay after one of them can push a timestamp
\* ahead of UTC (get_current_ntp_time).
ReplyNeverAhead ==
  request.pc = "send" => request.receive <= now /\ request.transmit <= now

\* Edges between the two snapshots, and the edges of them that were captured.
EdgesBetween == request.snapshot.pps.edge - request.first.edge
CapturedBetween == request.snapshot.pps.count - request.first.count

\* A client sees the receive timestamp before the transmit timestamp, but for
\* the jitter of the interrupt, unless an edge was missed or the timebase was
\* lost between the two snapshots: a label accepted in between cannot turn the
\* clock back.
ReplyOrdered ==
  request.pc = "send" /\ request.kept /\ EdgesBetween = CapturedBetween
    => request.receive <= request.transmit + IsrLatency

\* Every request is counted once, as transmitted or as ignored, and the refusals
\* of the timebase are among the ignored ones (the counters of /api/status).
Accounted ==
  /\ stats.received = stats.transmitted + stats.ignored
                        + (IF request.pc = "none" THEN 0 ELSE 1)
  /\ stats.invalidTimebase <= stats.ignored

\* On every path the callback frees the response pbuf that it allocated.
NoPbufLeak ==
  request.pc \in {"transmit", "sample_transmit", "send"} <=> held # {}

\* However a request ends - refused before or after the allocation, out of
\* memory, failed or sent - it is settled once: one counter more, nothing held.
RequestSettled == Accounted /\ NoPbufLeak

=============================================================================
