------------------------------ MODULE WiznetTx ------------------------------
(***************************************************************************)
(* The transmit side of the W5500 driver: emac_wiznet_transmit, called by  *)
(* the TCP/IP task, against the timer task, which stops and starts the     *)
(* socket with the link, and against the chip, which sends a frame in its  *)
(* own time and reports it by the SEND bit of Sn_IR.                       *)
(*                                                                         *)
(* TX memory is a ring counted in units.  The chip is not part of the      *)
(* repository: each SEND command sends what lies between the end of the    *)
(* one before it and Sn_TX_WR, as one frame; commands are finished in      *)
(* order; CLOSE gives up what is not sent; OPEN sets the pointers equal.   *)
(***************************************************************************)
EXTENDS Integers, Sequences, WiznetSpi

CONSTANTS
  TxSize,     \* units of TX memory, 16 KB in the chip
  TxMod,      \* the pointers wrap here, 2^16 in the chip
  TxLengths,  \* the lengths of a frame
  MaxSends,   \* bound: frames that the stack sends
  MaxTxFaults,\* bound: failed transactions
  MaxTxFlaps  \* bound: changes of the link

ASSUME WiznetTxAssumption ==
  /\ {TxSize, TxMod, MaxSends, MaxTxFaults, MaxTxFlaps} \subseteq Nat
  /\ TxSize > 0 /\ TxMod > TxSize /\ TxMod % TxSize = 0
  /\ TxLengths \subseteq 1 .. TxSize /\ TxLengths # {}

VARIABLES
  txMem,     \* TX memory: the piece of a frame that each unit holds
  txWr,      \* Sn_TX_WR
  txRd,      \* Sn_TX_RD
  pending,   \* Sn_TX_WR as of each SEND command that is not finished
  sendBit,   \* SEND in Sn_IR
  txOpen,    \* Sn_SR is not SOCK_CLOSED
  carrier,   \* the link bit of PHYCFGR
  tx,        \* the transmitting task: its place and the locals of the call
  closer,    \* the timer task's place in emac_wiznet_stop
  running,   \* sock_started
  frames,    \* frames passed to emac_wiznet_transmit so far
  onWire,    \* history: the last frame that was sent
  mangled,   \* history: a frame was sent that was not passed like that
  early,     \* history: ESP_OK was returned before the frame was sent
  unclaimed, \* history: a transmit left a SEND to the chip and did not see its
             \* end since the socket was closed
  unsent,    \* history: a SEND command did not reach the chip
  txFaults,  \* failures so far
  txFlaps    \* changes of the link so far

txChip == <<txMem, txWr, txRd, pending, sendBit, txOpen>>
txHistory == <<onWire, mangled, early, unclaimed, unsent>>
transmitVars == <<txChip, txHistory, carrier, tx, closer, running, frames,
                  txFaults, txFlaps>>

\* The k-th unit of a frame of n units.
Piece(id, k, n) == <<id, k, n>>

TxIdle == [pc |-> "idle", id |-> 0, len |-> 0, offset |-> 0]
Wrapped(pointer, n) == (pointer + n) % TxMod
Unit(pointer) == pointer % TxSize

\* Sn_TX_FSR.
Free == TxSize - ((txWr - txRd) % TxMod)

TxInit ==
  /\ txMem = [p \in 0 .. TxSize - 1 |-> Piece(0, 0, 0)]
  /\ txWr = 0 /\ txRd = 0 /\ pending = <<>> /\ sendBit = FALSE
  /\ txOpen = FALSE /\ carrier = FALSE /\ running = FALSE
  /\ tx = TxIdle /\ closer = "idle" /\ frames = 0
  /\ onWire = 0 /\ mangled = FALSE /\ early = FALSE /\ unclaimed = FALSE
  /\ unsent = FALSE /\ txFaults = 0 /\ txFlaps = 0

-----------------------------------------------------------------------------
(***************************************************************************)
(* Chip and cable.                                                         *)
(***************************************************************************)

\* The frame that lies in the n units from offset; 0 if they are not exactly
\* the pieces of one frame.
FrameIn(offset, n) ==
  LET id == txMem[Unit(offset)][1]
  IN  IF \A k \in 0 .. n - 1 : txMem[Unit(offset + k)] = Piece(id, k, n)
      THEN id ELSE 0

\* A frame leaves the chip.
FinishSend ==
  /\ pending # <<>>
  /\ LET id == FrameIn(txRd, (Head(pending) - txRd) % TxMod)
     IN  /\ mangled' = (mangled \/ (~unsent /\ id <= onWire))
         /\ onWire' = IF id = 0 THEN onWire ELSE id
  /\ txRd' = Head(pending)
  /\ pending' = Tail(pending)
  /\ sendBit' = TRUE
  /\ UNCHANGED <<txMem, txWr, txOpen, early, unclaimed, unsent, carrier, tx,
                 closer, running, frames, txFaults, txFlaps>>

TxFlap ==
  /\ txFlaps < MaxTxFlaps
  /\ txFlaps' = txFlaps + 1
  /\ carrier' = ~carrier
  /\ UNCHANGED <<txChip, txHistory, tx, closer, running, frames, txFaults>>

-----------------------------------------------------------------------------
(***************************************************************************)
(* emac_wiznet_transmit.  One task transmits; any error ends the call.     *)
(***************************************************************************)

CountFault(result) ==
  /\ txFaults' = Counted(txFaults, result)
  /\ txFaults' <= MaxTxFaults

Unmoved == <<closer, running, carrier, txFlaps>>

Transmit ==
  /\ tx.pc = "idle"
  /\ frames < MaxSends
  /\ frames' = frames + 1
  /\ \E n \in TxLengths :
       tx' = [TxIdle EXCEPT !.pc = "space", !.id = frames + 1, !.len = n]
  /\ UNCHANGED <<txChip, txHistory, Unmoved, txFaults>>

\* Mutant: what is free is not asked for.
FreeUnasked ==
  /\ tx.pc = "space"
  /\ tx' = [tx EXCEPT !.pc = "copy"]
  /\ UNCHANGED <<txChip, txHistory, Unmoved, frames, txFaults>>

\* ESP_ERR_NO_MEM when the frame does not fit.
CheckFree ==
  /\ tx.pc = "space"
  /\ \E result \in Results :
       /\ CountFault(result)
       /\ tx' = IF result = "ok" /\ tx.len <= Free
                THEN [tx EXCEPT !.pc = "copy"] ELSE TxIdle
  /\ UNCHANGED <<txChip, txHistory, Unmoved, frames>>

\* Sn_TX_WR is read and the frame written behind it.
CopyFrame ==
  /\ tx.pc = "copy"
  /\ \E result \in Results :
       /\ CountFault(result)
       /\ txMem' = IF result # "ok" THEN txMem
                   ELSE [p \in DOMAIN txMem |->
                           LET k == (p - txWr) % TxSize
                           IN  IF k < tx.len THEN Piece(tx.id, k, tx.len)
                               ELSE txMem[p]]
       /\ tx' = IF result = "ok"
                THEN [tx EXCEPT !.pc = "move", !.offset = txWr] ELSE TxIdle
  /\ UNCHANGED <<txWr, txRd, pending, sendBit, txOpen, txHistory, Unmoved,
                 frames>>

MoveWritePointer ==
  /\ tx.pc = "move"
  /\ \E result \in Results :
       /\ CountFault(result)
       /\ txWr' = IF result = "ok" THEN Wrapped(tx.offset, tx.len) ELSE txWr
       /\ tx' = IF result = "ok" THEN [tx EXCEPT !.pc = "send"] ELSE TxIdle
  /\ UNCHANGED <<txMem, txRd, pending, sendBit, txOpen, txHistory, Unmoved,
                 frames>>

\* The SEND command; a closed socket does not execute it.
Send ==
  /\ tx.pc = "send"
  /\ \E result \in CommandResults :
       /\ CountFault(result)
       /\ pending' = IF Executed(result) /\ txOpen
                     THEN Append(pending, txWr) ELSE pending
       /\ unsent' = (unsent \/ (result = "unsent" /\ txOpen))
       /\ unclaimed' = (unclaimed \/ result = "unseen")
       /\ tx' = IF result = "ok" THEN [tx EXCEPT !.pc = "poll"] ELSE TxIdle
  /\ UNCHANGED <<txMem, txWr, txRd, sendBit, txOpen, onWire, mangled, early,
                 Unmoved, frames>>

\* The SEND bit is seen; a failed read ends the call.
SeeSent ==
  /\ tx.pc = "poll"
  /\ \E result \in Results :
       /\ CountFault(result)
       /\ result = "ok" => sendBit
       /\ unclaimed' = (unclaimed \/ result # "ok")
       /\ tx' = IF result = "ok" THEN [tx EXCEPT !.pc = "clear"] ELSE TxIdle
  /\ UNCHANGED <<txChip, onWire, mangled, early, unsent, Unmoved, frames>>

\* ESP_FAIL: the link is down, or more than tx_tmo has passed.  The clock is read
\* before the bit, so a task that was not run for long gives up at any time.
GiveUp ==
  /\ tx.pc = "poll"
  /\ tx' = TxIdle
  /\ unclaimed' = TRUE
  /\ UNCHANGED <<txChip, onWire, mangled, early, unsent, Unmoved, frames,
                 txFaults>>

LeftBehind == unclaimed \/ unsent

\* Mutant: the bit is left set.
ReturnOkUncleared ==
  /\ tx.pc = "clear"
  /\ early' = (early \/ (~LeftBehind /\ onWire < tx.id))
  /\ tx' = TxIdle
  /\ UNCHANGED <<txChip, onWire, mangled, unclaimed, unsent, Unmoved, frames,
                 txFaults>>

\* The bit is cleared and ESP_OK returned.
ReturnOk ==
  /\ tx.pc = "clear"
  /\ \E result \in Results :
       /\ CountFault(result)
       /\ sendBit' = (sendBit /\ result # "ok")
       /\ early' = (early \/ (result = "ok" /\ ~LeftBehind /\ onWire < tx.id))
       /\ unclaimed' = (unclaimed \/ result # "ok")
  /\ tx' = TxIdle
  /\ UNCHANGED <<txMem, txWr, txRd, pending, txOpen, onWire, mangled, unsent,
                 Unmoved, frames>>

TransmitTask ==
  \/ Transmit \/ CheckFree \/ CopyFrame \/ MoveWritePointer \/ Send
  \/ SeeSent \/ GiveUp \/ ReturnOk

-----------------------------------------------------------------------------
(***************************************************************************)
(* The timer task: emac_wiznet_start and emac_wiznet_stop.                 *)
(***************************************************************************)

Elsewhere == <<txMem, txWr, tx, frames, onWire, mangled, early, unsent,
               carrier, txFlaps>>

\* OPEN.  A transmit takes less than a second (the command is waited for for
\* 100 ms), and the link is polled again two seconds after a stop: none is under
\* way.
OpenSocket ==
  /\ closer = "idle" /\ carrier /\ ~running
  /\ tx.pc = "idle"
  /\ \E result \in CommandResults :
       /\ CountFault(result)
       /\ txOpen' = (txOpen \/ Executed(result))
       /\ running' = (result = "ok")
       /\ txRd' = IF Executed(result) THEN txWr ELSE txRd
       /\ pending' = IF Executed(result) THEN <<>> ELSE pending
  /\ UNCHANGED <<sendBit, closer, unclaimed, Elsewhere>>

LinkLost ==
  /\ closer = "idle" /\ ~carrier /\ running
  /\ closer' = "await"
  /\ UNCHANGED <<txRd, pending, sendBit, txOpen, running, unclaimed, txFaults,
                 Elsewhere>>

\* The stop looks for the SEND bit a hundred times, 10 ms apart, whether anything
\* is being sent or not, clears it and goes on, or goes on without it.  An error
\* ends the stop, which clears sock_started all the same.
AwaitSent ==
  /\ closer = "await"
  /\ \E result \in Results :
       /\ CountFault(result)
       /\ sendBit' = (sendBit /\ result # "ok")
       /\ closer' = IF result = "ok" THEN "close" ELSE "idle"
       /\ running' = (result = "ok")
       /\ unclaimed' = (unclaimed \/ result # "ok")
  /\ UNCHANGED <<txRd, pending, txOpen, Elsewhere>>

CloseSocket ==
  /\ closer = "close"
  /\ \E result \in CommandResults :
       /\ CountFault(result)
       /\ txOpen' = (txOpen /\ ~Executed(result))
       /\ pending' = IF Executed(result) THEN <<>> ELSE pending
       /\ unclaimed' = (sendBit \/ tx.pc # "idle" \/ ~Executed(result))
  /\ running' = FALSE
  /\ closer' = "idle"
  /\ UNCHANGED <<txRd, sendBit, Elsewhere>>

StopTask == OpenSocket \/ LinkLost \/ AwaitSent \/ CloseSocket

TxNext == FinishSend \/ TxFlap \/ TransmitTask \/ StopTask

TxSpec == TxInit /\ [][TxNext]_transmitVars

-----------------------------------------------------------------------------
(***************************************************************************)
(* Properties.                                                             *)
(***************************************************************************)

\* What leaves the chip is a frame as it was passed to emac_wiznet_transmit, each
\* once and in order, however many transmits gave up while the chip was still
\* sending: the frame behind is never written over the one being sent.  Only a
\* SEND command that did not reach the chip breaks this: the next one sends its
\* frame and the one left behind as one.
WireIntact == ~mangled

\* ESP_OK means that the frame was sent as it was passed, unless a transmit before
\* left a SEND to the chip: its bit then passes for the next frame's, and so on for every frame
\* after it until the socket is closed.
OkMeansSent == ~early

\* The comment at wiznet_setup_default: "each SEND is one frame and must complete
\* before the next".
SendsOneByOne == Len(pending) <= 1
=============================================================================
