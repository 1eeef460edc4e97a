------------------------------ MODULE WiznetRx ------------------------------
(***************************************************************************)
(* The receive side of the W5500 driver (wiznet_mac_common.c) and the link *)
(* handling that starts and stops it (phy_wiznet_get_link).  Two tasks use *)
(* the chip: the RX task w5500_tsk, which takes frames from the chip's     *)
(* ring, and the timer task, which polls the link and opens or closes the  *)
(* socket.  Pure reads of one call are one step with the access they feed. *)
(*                                                                         *)
(* The ring is counted in units: the two-byte header of a frame is one     *)
(* unit, its payload one or more.  Chip and cable are not part of the      *)
(* repository and are modelled from how the driver uses them.              *)
(***************************************************************************)
EXTENDS Integers, WiznetSpi

CONSTANTS
  RingSize,   \* units of RX memory, 16 KB in the chip
  PtrMod,     \* the pointers wrap here, 2^16 in the chip
  Sizes,      \* the sizes of a frame, header included
  MaxFrames,  \* bound: frames that arrive
  MaxFaults,  \* bound: failed transactions and allocations
  MaxFlaps    \* bound: changes of the link

ASSUME WiznetRxAssumption ==
  /\ {RingSize, PtrMod, MaxFrames, MaxFaults, MaxFlaps} \subseteq Nat
  /\ RingSize > 0 /\ PtrMod > RingSize /\ PtrMod % RingSize = 0
  /\ Sizes \subseteq 2 .. RingSize /\ Sizes # {}

VARIABLES
  mem,        \* RX memory: what each unit holds
  wr,         \* Sn_RX_WR, where the chip writes the next frame
  rd,         \* Sn_RX_RD, as last written
  taken,      \* Sn_RX_RD as of the last RECV command
  recvBit,    \* RECV in Sn_IR
  simr,       \* the socket's interrupt is enabled (SIMR)
  sockOpen,   \* Sn_SR is not SOCK_CLOSED
  cable,      \* the link bit of PHYCFGR
  rx,         \* the RX task's program counter and the locals of its calls
  more,       \* packets_remain
  notified,   \* the RX task's notification
  timer,      \* the timer task's program counter
  status,     \* link_status
  started,    \* sock_started
  shutFailed, \* history: the last CLOSE was reported as failed
  sent,       \* frames that arrived so far
  last,       \* history: the last frame that stack_input was given
  damaged,    \* history: it was given a damaged, old or repeated frame
  skipped,    \* history: it was not given the next frame though nothing failed
  faults,     \* failures so far
  flaps,      \* changes of the link so far
  disturbed,  \* history: a failure or a drain met the RX task since the last frame
  interfered, \* history: a failure or a drain ever
  torn        \* history: the RX task took a frame while RX_RD was ahead of the
              \* last RECV, or while the timer task drained the ring

chipVars == <<mem, wr, rd, taken, recvBit, simr, sockOpen>>
linkVars == <<timer, status, started, shutFailed>>
history == <<disturbed, interfered, torn>>
delivered == <<last, damaged, skipped>>
receiverVars == <<chipVars, linkVars, history, delivered, cable, rx, more, notified,
          sent, faults, flaps>>

\* A unit of memory: the header of a frame with its size, or payload.
Header(id, n) == <<id, n>>
Payload(id) == <<id, 0>>
Plausible(unit) == unit[2] # 0

At(pointer) == pointer % RingSize
Plus(pointer, n) == (pointer + n) % PtrMod

\* Sn_RX_RSR.
Received == (wr - taken) % PtrMod

\* INTn is low while an enabled interrupt is pending.
Low == simr /\ recvBit

Idle == [pc |-> "wait", flush |-> FALSE, offset |-> 0, len |-> 0,
         remain |-> 0, frame |-> 0]
\* The end of a turn of the loop, before its test.
Over == [Idle EXCEPT !.pc = "test"]

RxInit ==
  /\ mem = [p \in 0 .. RingSize - 1 |-> Payload(0)]
  /\ wr = 0 /\ rd = 0 /\ taken = 0
  /\ recvBit = FALSE /\ simr = FALSE /\ sockOpen = FALSE
  /\ cable = FALSE
  /\ rx = Idle /\ more = FALSE /\ notified = FALSE
  /\ timer = "idle" /\ status = FALSE /\ started = FALSE
  /\ shutFailed = FALSE
  /\ sent = 0 /\ last = 0 /\ damaged = FALSE /\ skipped = FALSE
  /\ faults = 0 /\ flaps = 0 /\ disturbed = FALSE /\ interfered = FALSE
  /\ torn = FALSE

-----------------------------------------------------------------------------
(***************************************************************************)
(* Chip and cable.                                                         *)
(***************************************************************************)

\* The falling edge of INTn runs wiznet_isr_handler, which notifies the task.
Notify(low) == notified' = (notified \/ (low /\ ~Low))

\* A frame that fits is written behind the last one; one that does not is
\* dropped by the chip.
Arrive ==
  /\ sockOpen /\ cable
  /\ sent < MaxFrames
  /\ \E n \in Sizes :
       /\ Received + n <= RingSize
       /\ mem' = [p \in DOMAIN mem |->
                    LET k == (p - wr) % RingSize
                    IN  IF k = 0 THEN Header(sent + 1, n)
                        ELSE IF k < n THEN Payload(sent + 1) ELSE mem[p]]
       /\ wr' = Plus(wr, n)
  /\ sent' = sent + 1
  /\ recvBit' = TRUE
  /\ Notify(simr)
  /\ disturbed' = FALSE
  /\ UNCHANGED <<rd, taken, simr, sockOpen, linkVars, cable, rx, more,
                 delivered, faults, flaps, interfered, torn>>

Flap ==
  /\ flaps < MaxFlaps
  /\ flaps' = flaps + 1
  /\ cable' = ~cable
  /\ UNCHANGED <<chipVars, linkVars, history, rx, more, notified, sent,
                 delivered, faults>>

-----------------------------------------------------------------------------
(***************************************************************************)
(* Failures.                                                               *)
(***************************************************************************)

Spend(result) ==
  /\ faults' = Counted(faults, result)
  /\ faults' <= MaxFaults

\* A failure met by the RX task once it has cleared the RECV bit.
Disturb(result) ==
  /\ Spend(result)
  /\ disturbed' = (disturbed \/ result # "ok")
  /\ interfered' = (interfered \/ result # "ok")
  /\ UNCHANGED torn

\* Any other failure.
Interfere(result) ==
  /\ Spend(result)
  /\ interfered' = (interfered \/ result # "ok")
  /\ UNCHANGED <<disturbed, torn>>

-----------------------------------------------------------------------------
(***************************************************************************)
(* emac_wiznet_task.                                                       *)
(***************************************************************************)

\* Mutant: without a notification the level of INTn is not looked at.
TakeNotificationOnly ==
  /\ rx.pc = "wait"
  /\ notified
  /\ notified' = FALSE
  /\ rx' = [rx EXCEPT !.pc = "status"]
  /\ UNCHANGED <<chipVars, linkVars, history, cable, more, sent, delivered,
                 faults, flaps>>

\* ulTaskNotifyTake returns a notification, or times out after a second and
\* the level of INTn tells that one was missed.
TakeNotification ==
  /\ rx.pc = "wait"
  /\ notified \/ Low
  /\ notified' = FALSE
  /\ rx' = [rx EXCEPT !.pc = "status"]
  /\ UNCHANGED <<chipVars, linkVars, history, cable, more, sent, delivered,
                 faults, flaps>>

\* Sn_IR; zero when the read fails.
ReadStatus ==
  /\ rx.pc = "status"
  /\ \E result \in Results :
       /\ Interfere(result)
       /\ rx' = [rx EXCEPT !.pc =
                   IF result = "ok" /\ recvBit THEN "clear" ELSE "wait"]
  /\ UNCHANGED <<chipVars, linkVars, cable, more, notified, sent, delivered,
                 flaps>>

\* The RECV bit is cleared before the ring is looked at; a failure is ignored.
ClearStatus ==
  /\ rx.pc = "clear"
  /\ \E result \in Results :
       /\ Spend(result)
       /\ recvBit' = (recvBit /\ result # "ok")
       /\ interfered' = (interfered \/ result # "ok")
  /\ torn' = (torn \/ rd # taken)
  /\ disturbed' = (disturbed \/ timer = "drained")
  /\ rx' = [rx EXCEPT !.pc = "size"]
  /\ UNCHANGED <<mem, wr, rd, taken, simr, sockOpen, linkVars, cable, more,
                 notified, sent, delivered, flaps>>

\* emac_wiznet_alloc_recv_buf and emac_wiznet_flush_recv_frame begin with
\* Sn_RX_RSR, whose failure they take for an empty ring.
ReadSize ==
  /\ rx.pc = "size"
  /\ \E result \in Results :
       /\ Disturb(result)
       /\ rx' = IF result # "ok" \/ Received = 0
                THEN Over
                ELSE [rx EXCEPT !.pc = "head", !.remain = Received]
  /\ UNCHANGED <<chipVars, linkVars, cable, more, notified, sent, delivered,
                 flaps>>

\* The unit at RX_RD read as a header: what a frame's header says, or anything
\* (0: an implausible length).
Lengths(unit) == IF Plausible(unit) THEN {unit[2]} ELSE {0} \cup Sizes

\* The read pointer and the header, then the length check and the malloc; a
\* frame without memory is flushed.  The flush trusts the header.
ReadHead ==
  /\ rx.pc = "head"
  /\ \/ /\ Disturb("failed")
        /\ rx' = Over
        /\ UNCHANGED more
     \/ /\ \E n \in Lengths(mem[At(rd)]) :
             \/ /\ Disturb("ok")
                /\ rx' = [rx EXCEPT
                            !.pc = IF rx.flush THEN "advance"
                                   ELSE IF n = 0 THEN "drain" ELSE "payload",
                            !.offset = rd, !.len = n]
                /\ UNCHANGED more
             \/ /\ ~rx.flush /\ n # 0
                /\ Interfere("failed")
                /\ more' = FALSE
                /\ rx' = [rx EXCEPT !.pc = "size", !.flush = TRUE]
  /\ UNCHANGED <<chipVars, linkVars, cable, notified, sent, delivered, flaps>>

\* The frame that the payload of rx.len units belongs to; 0 if it is not the
\* whole payload of one frame.
FrameAt(offset, n) ==
  LET units == {mem[At(offset + k)] : k \in 1 .. n - 1}
      id == mem[At(offset)][1]
  IN  IF Plausible(mem[At(offset)]) /\ units = {Payload(id)} THEN id ELSE 0

\* emac_wiznet_receive.
ReadPayload ==
  /\ rx.pc = "payload"
  /\ more' = FALSE
  /\ \E result \in Results :
       /\ Disturb(result)
       /\ rx' = IF result = "ok"
                THEN [rx EXCEPT !.pc = "advance",
                                !.frame = FrameAt(rx.offset, rx.len)]
                ELSE Over
  /\ UNCHANGED <<chipVars, linkVars, cable, notified, sent, delivered, flaps>>

\* Mutant: the length of the payload, without the header.
AdvancePayload ==
  /\ rx.pc = "advance"
  /\ \E result \in Results :
       /\ Disturb(result)
       /\ rd' = IF result = "ok" THEN Plus(rx.offset, rx.len - 1) ELSE rd
       /\ rx' = IF result = "ok" THEN [rx EXCEPT !.pc = "recv"] ELSE Over
  /\ UNCHANGED <<mem, wr, taken, recvBit, simr, sockOpen, linkVars, cable, more,
                 notified, sent, delivered, flaps>>

\* Sn_RX_RD is moved past the frame.
Advance ==
  /\ rx.pc = "advance"
  /\ \E result \in Results :
       /\ Disturb(result)
       /\ rd' = IF result = "ok" THEN Plus(rx.offset, rx.len) ELSE rd
       /\ rx' = IF result = "ok" THEN [rx EXCEPT !.pc = "recv"] ELSE Over
  /\ UNCHANGED <<mem, wr, taken, recvBit, simr, sockOpen, linkVars, cable, more,
                 notified, sent, delivered, flaps>>

\* stack_input; once the ring is torn the history says no more.
Input(id) ==
  /\ last' = IF torn THEN 0 ELSE id
  /\ damaged' = (damaged \/ (~torn /\ id <= last))
  /\ skipped' = (skipped \/ (~interfered /\ id # last + 1))

\* The RECV command hands the space to the chip; the frame goes to the stack
\* unless the command fails or the frame is being flushed.
Release ==
  /\ rx.pc = "recv"
  /\ \E result \in CommandResults :
       /\ Disturb(result)
       /\ taken' = IF Executed(result) THEN rd ELSE taken
       /\ more' = (result = "ok" /\ rx.remain # rx.len)
       /\ IF result = "ok" /\ ~rx.flush
          THEN Input(rx.frame) ELSE UNCHANGED delivered
  /\ rx' = Over
  /\ UNCHANGED <<mem, wr, rd, recvBit, simr, sockOpen, linkVars, cable,
                 notified, sent, flaps>>

\* wiznet_drain_rx_buffer: RX_RD is set to RX_WR ...
DrainPointer ==
  /\ rx.pc = "drain"
  /\ \E result \in Results :
       /\ Disturb(result)
       /\ rd' = IF result = "ok" THEN wr ELSE rd
       /\ rx' = IF result = "ok" THEN [rx EXCEPT !.pc = "drained"] ELSE Over
  /\ UNCHANGED <<mem, wr, taken, recvBit, simr, sockOpen, linkVars, cable, more,
                 notified, sent, delivered, flaps>>

\* ... and RECV releases everything.
DrainRelease ==
  /\ rx.pc = "drained"
  /\ \E result \in CommandResults :
       /\ Disturb(result)
       /\ taken' = IF Executed(result) THEN rd ELSE taken
       /\ more' = (more /\ result # "ok")
  /\ rx' = Over
  /\ UNCHANGED <<mem, wr, rd, recvBit, simr, sockOpen, linkVars, cable,
                 notified, sent, delivered, flaps>>

\* Mutant: one frame for each notification.
TestOnce ==
  /\ rx.pc = "test"
  /\ rx' = Idle
  /\ UNCHANGED <<chipVars, linkVars, history, cable, more, notified, sent,
                 delivered, faults, flaps>>

\* while (packets_remain).
Test ==
  /\ rx.pc = "test"
  /\ rx' = [Idle EXCEPT !.pc = IF more THEN "size" ELSE "wait"]
  /\ UNCHANGED <<chipVars, linkVars, history, cable, more, notified, sent,
                 delivered, faults, flaps>>

RxTask ==
  \/ TakeNotification \/ ReadStatus \/ ClearStatus
  \/ ReadSize \/ ReadHead \/ ReadPayload \/ Advance \/ Release
  \/ DrainPointer \/ DrainRelease \/ Test

-----------------------------------------------------------------------------
(***************************************************************************)
(* The timer task: phy_wiznet_get_link every two seconds, which reports a  *)
(* change to emac_wiznet_set_link.  An error leaves link_status alone, so  *)
(* the report is made again at the next poll.                              *)
(***************************************************************************)

rxVars == <<rx, notified, sent, delivered, flaps, cable>>

\* Mutant: link_status is set before the report is made, as phy_wiznet_set_link
\* does, and an error leaves it set.
CheckLinkFirst ==
  /\ timer = "idle"
  /\ cable # status
  /\ timer' = IF cable THEN "open" ELSE IF started THEN "send" ELSE "idle"
  /\ status' = cable
  /\ UNCHANGED <<chipVars, history, rxVars, more, started, shutFailed, faults>>

\* A link that went down on a socket that was not started needs no stop.
CheckLink ==
  /\ timer = "idle"
  /\ cable # status
  /\ timer' = IF cable THEN "open" ELSE IF started THEN "send" ELSE "idle"
  /\ status' = (status /\ (cable \/ started))
  /\ UNCHANGED <<chipVars, history, rxVars, more, started, shutFailed, faults>>

\* emac_wiznet_start: the OPEN command ...
Open ==
  /\ timer = "open"
  /\ \E result \in CommandResults :
       /\ Interfere(result)
       /\ sockOpen' = (sockOpen \/ Executed(result))
       /\ started' = (started \/ result = "ok")
       /\ timer' = IF result = "ok" THEN "enable" ELSE "idle"
  /\ UNCHANGED <<mem, wr, rd, taken, recvBit, simr, rxVars, more, status,
                 shutFailed>>

\* ... and the socket's interrupt.
Enable ==
  /\ timer = "enable"
  /\ \E result \in Results :
       /\ Interfere(result)
       /\ simr' = (simr \/ result = "ok")
       /\ status' = (result = "ok")
  /\ shutFailed' = (shutFailed /\ ~status')
  /\ timer' = "idle"
  /\ Notify(simr' /\ recvBit)
  /\ UNCHANGED <<mem, wr, rd, taken, recvBit, sockOpen, rx, sent, delivered,
                 flaps, cable, more, started>>

\* emac_wiznet_stop waits up to a second for a SEND to end; an error ends it.
AwaitSend ==
  /\ timer = "send"
  /\ \E result \in Results :
       /\ Interfere(result)
       /\ timer' = IF result = "ok" THEN "drain" ELSE "idle"
       /\ started' = (result = "ok")
  /\ UNCHANGED <<chipVars, rxVars, more, status, shutFailed>>

\* The RX task is in the middle of taking a frame.
Taking == rx.pc \notin {"wait", "status", "clear"}

\* The drain's result is only logged.
StopDrain ==
  /\ timer = "drain"
  /\ \E result \in Results :
       /\ Spend(result)
       /\ rd' = IF result = "ok" THEN wr ELSE rd
       /\ timer' = IF result = "ok" THEN "drained" ELSE "disable"
  /\ disturbed' = (disturbed \/ Taking)
  /\ torn' = (torn \/ Taking)
  /\ interfered' = TRUE
  /\ UNCHANGED <<mem, wr, taken, recvBit, simr, sockOpen, rxVars, more, status,
                 started, shutFailed>>

StopRelease ==
  /\ timer = "drained"
  /\ \E result \in CommandResults :
       /\ Spend(result)
       /\ taken' = IF Executed(result) THEN rd ELSE taken
       /\ more' = (more /\ result # "ok")
  /\ disturbed' = (disturbed \/ Taking)
  /\ timer' = "disable"
  /\ UNCHANGED <<mem, wr, rd, recvBit, simr, sockOpen, rxVars, status, started,
                 shutFailed, interfered, torn>>

Disable ==
  /\ timer = "disable"
  /\ \E result \in Results :
       /\ Interfere(result)
       /\ simr' = (simr /\ result # "ok")
       /\ timer' = IF result = "ok" THEN "close" ELSE "idle"
       /\ started' = (result = "ok")
  /\ UNCHANGED <<mem, wr, rd, taken, recvBit, sockOpen, rxVars, more, status,
                 shutFailed>>

\* sock_started is cleared on every path.
Close ==
  /\ timer = "close"
  /\ \E result \in CommandResults :
       /\ Interfere(result)
       /\ sockOpen' = (sockOpen /\ ~Executed(result))
       /\ status' = (result # "ok")
       /\ shutFailed' = (result # "ok")
  /\ started' = FALSE
  /\ timer' = "idle"
  /\ UNCHANGED <<mem, wr, rd, taken, recvBit, simr, rxVars, more>>

TimerTask ==
  \/ CheckLink \/ Open \/ Enable
  \/ AwaitSend \/ StopDrain \/ StopRelease \/ Disable \/ Close

-----------------------------------------------------------------------------
RxNext == Arrive \/ Flap \/ RxTask \/ TimerTask

RxSpec == RxInit /\ [][RxNext]_receiverVars

\* Both tasks are scheduled and the link is polled; the wire promises nothing.
FairRxSpec == RxSpec /\ WF_receiverVars(RxTask) /\ WF_receiverVars(TimerTask)

-----------------------------------------------------------------------------
(***************************************************************************)
(* Properties.                                                             *)
(***************************************************************************)

\* Frames reach the stack undamaged, once and in the order of their arrival,
\* through any one failure on the way, as long as the pointer that was read and
\* the one the chip goes by agree when the RX task begins to take a frame.  They
\* differ after a RECV command that failed and after a drain by the timer task;
\* old memory then passes for frames.
InOrder == ~damaged

\* Without a failure and without a link loss no frame is lost: whenever the RX
\* task has nothing left to do, every frame that arrived was delivered.
NothingLost ==
  (~interfered /\ rx.pc = "wait" /\ ~notified /\ ~Low /\ timer = "idle" /\ status)
    => last = sent /\ ~skipped

\* A frame does not stay in the ring with the RX task asleep, whichever edge of
\* INTn was missed, unless an access failed or the timer task drained the ring
\* while the RX task was taking a frame; the next frame then wakes it.
RingEmptied ==
  (sockOpen /\ simr /\ Received > 0) ~> (Received = 0 \/ ~simr \/ disturbed \/ torn)

\* However often the link flaps and whatever fails on the way, a link that stays
\* up is received from: a start that failed is made again at the next poll.  A
\* CLOSE reported as failed is the exception: with the cable back by the next
\* poll, link_status is still up and nothing opens the socket again.
UpMeansOpen == <>[](cable /\ ~shutFailed) => <>[](sockOpen /\ simr /\ status)
=============================================================================
