------------------------------- MODULE NtpPath -------------------------------
(***************************************************************************)
(* The NTP path diagnostics (ntp_path_diagnostics.c, with                  *)
(* NTP_PATH_DIAGNOSTICS set): a wrapper around the SPI driver recognises   *)
(* requests and replies in passing and keeps a sample of each; the server  *)
(* callback takes the sample it believes to be its own.  Nothing but the   *)
(* order connects a sample with its request: the RX task stores, the lwIP  *)
(* thread takes, and the request travels in between through a mailbox      *)
(* where it may be lost.                                                   *)
(*                                                                         *)
(* Of the time stamps only two are modelled, when a reply is given to lwIP *)
(* and when its frame is written: later than each other, since an SPI      *)
(* transfer lies between them.  All other comparisons of the code are with *)
(* a time before now, or only decide whether a sample is called valid.     *)
(***************************************************************************)
EXTENDS Integers, Sequences, FiniteSetsExt

CONSTANTS
  HistorySize,  \* NTP_PATH_FRAME_HISTORY_SIZE
  MaxRequests,  \* bound: requests read from the W5500
  TxMayFail     \* an SPI write fails, or SEND_OK is not seen in time

ASSUME PathAssumption ==
  /\ HistorySize \in Nat \ {0} /\ MaxRequests \in Nat /\ TxMayFail \in BOOLEAN

VARIABLES
  time,      \* esp_timer_get_time(), by the stamps that are modelled
  reader,    \* the RX task: idle, a frame in its hands, or a SEND_OK it has read
  requests,  \* frame_history, next_frame_sequence, last_consumed_frame_sequence
  mailbox,   \* requests on their way to the callback
  server,    \* the lwIP thread: its place, and the call it is in
  replies,   \* tx_history, active_tx_sample and the counters
  sendOk,    \* Sn_IR: SEND_OK; "busy" while the W5500 sends
  waiting,   \* replies that wait for the client's hardware address
  took,      \* history: the latest call, and whose samples it took
  shifted    \* history: a request was lost, or its sample was overwritten

pathVars == <<time, reader, requests, mailbox, server, replies, sendOk, waiting,
              took, shifted>>

NoTx == [sequence |-> 0, start |-> 0, sent |-> FALSE, request |-> 0]
NoCall == [pc |-> "idle", request |-> 0, entry |-> 0, call |-> FALSE]

PathInit ==
  /\ time = 1
  /\ reader = [pc |-> "idle", request |-> 0]
  /\ requests = [history |-> [slot \in 0 .. HistorySize - 1 |-> 0],
                 next |-> 0, consumed |-> 0]
  /\ mailbox = <<>> /\ server = NoCall
  /\ replies = [history |-> [slot \in 0 .. HistorySize - 1 |-> NoTx],
                active |-> FALSE, sample |-> NoTx, next |-> 0, consumed |-> 0]
  /\ sendOk = "no" /\ waiting = <<>>
  /\ took = [request |-> 0, sample |-> 0, reply |-> 0]
  /\ shifted = [lost |-> FALSE, overwritten |-> FALSE]

-----------------------------------------------------------------------------
(***************************************************************************)
(* The RX task, in diagnostic_spi_read.                                    *)
(***************************************************************************)

\* A request is read from the receive buffer.
ReadRequest ==
  /\ reader.pc = "idle" /\ requests.next < MaxRequests
  /\ LET frame == requests.next + 1
     IN  /\ requests' = [requests EXCEPT !.next = frame,
                                     !.history[frame % HistorySize] = frame]
         /\ reader' = [pc |-> "frame", request |-> frame]
         /\ shifted' = [shifted EXCEPT !.overwritten =
                          @ \/ frame - requests.consumed > HistorySize]
  /\ UNCHANGED <<time, mailbox, server, replies, sendOk, waiting, took>>

\* The frame goes to lwIP, which may drop it: a full mailbox, a wrong checksum,
\* another address, or no server that listens yet.
HandOver ==
  /\ reader.pc = "frame"
  /\ reader' = [reader EXCEPT !.pc = "idle"]
  /\ \/ mailbox' = Append(mailbox, reader.request) /\ UNCHANGED shifted
     \/ shifted' = [shifted EXCEPT !.lost = TRUE] /\ UNCHANGED mailbox
  /\ UNCHANGED <<time, requests, server, replies, sendOk, waiting, took>>

\* SEND_OK was read: the sample is complete.
Completed ==
  IF replies.active /\ replies.sample.sent
  THEN [replies EXCEPT
          !.history[replies.sample.sequence % HistorySize] = replies.sample,
          !.active = FALSE]
  ELSE replies

\* The RX task reads Sn_IR and finds the flag that the lwIP thread waits for; it
\* may be interrupted before it takes the lock.
NoticeSendOk ==
  /\ reader.pc = "idle" /\ sendOk = "yes"
  /\ reader' = [pc |-> "ok", request |-> 0]
  /\ UNCHANGED <<time, requests, mailbox, server, replies, sendOk, waiting, took, shifted>>

StoreSendOk ==
  /\ reader.pc = "ok"
  /\ replies' = Completed
  /\ reader' = [pc |-> "idle", request |-> 0]
  /\ UNCHANGED <<time, requests, mailbox, server, sendOk, waiting, took, shifted>>

-----------------------------------------------------------------------------
(***************************************************************************)
(* The lwIP thread: the callback of the server, and frames it sends.       *)
(***************************************************************************)

\* Mutant: the latest sample is taken.
FirstOfNewest(frames) == Max(frames)

FirstOf(frames) == Min(frames)

\* ntp_path_diagnostics_capture_rx, at the entry of the callback.  Not every
\* request is answered.
Callback ==
  /\ server.pc = "idle" /\ mailbox # <<>>
  /\ LET frames == {f \in {requests.history[slot] : slot \in DOMAIN requests.history} :
                      f > requests.consumed}
         chosen == IF frames = {} THEN 0 ELSE FirstOf(frames)
     IN  /\ requests' = [requests EXCEPT
                            !.consumed = IF frames = {} THEN @ ELSE chosen]
         /\ took' = [request |-> Head(mailbox), sample |-> chosen, reply |-> 0]
  /\ \/ server' = [NoCall EXCEPT !.pc = "send", !.request = Head(mailbox),
                                 !.call = TRUE]
     \/ server' = NoCall
  /\ mailbox' = Tail(mailbox)
  /\ UNCHANGED <<time, reader, replies, sendOk, waiting, shifted>>

\* udp_sendto: without a hardware address of the client the reply waits.
SendReply ==
  /\ server.pc = "send"
  /\ \/ server' = [server EXCEPT !.pc = "write", !.entry = time] /\ UNCHANGED waiting
     \/ server' = [server EXCEPT !.pc = "return", !.entry = time]
        /\ waiting' = Append(waiting, server.request)
  /\ time' = time + 1
  /\ UNCHANGED <<reader, requests, mailbox, replies, sendOk, took, shifted>>

\* The address has come: a reply that waited is sent outside of any call.
SendWaiting ==
  /\ server.pc = "idle" /\ waiting # <<>>
  /\ server' = [NoCall EXCEPT !.pc = "write", !.request = Head(waiting)]
  /\ waiting' = Tail(waiting)
  /\ UNCHANGED <<time, reader, requests, mailbox, replies, sendOk, took, shifted>>

\* Another frame: what has not been completed is forgotten.
SendOther ==
  /\ server.pc = "idle" /\ replies.active
  /\ replies' = [replies EXCEPT !.active = FALSE]
  /\ UNCHANGED <<time, reader, requests, mailbox, server, sendOk, waiting, took, shifted>>

\* diagnostic_spi_write of the reply to the transmit buffer.
WriteReply ==
  /\ server.pc = "write"
  /\ \/ /\ replies' = [replies EXCEPT
                         !.active = TRUE, !.next = @ + 1,
                         !.sample = [NoTx EXCEPT !.sequence = replies.next + 1,
                                                 !.start = time,
                                                 !.request = server.request]]
        /\ server' = [server EXCEPT !.pc = "command"]
     \/ /\ TxMayFail
        /\ replies' = [replies EXCEPT !.active = FALSE]
        /\ server' = [server EXCEPT !.pc = "return"]
  /\ time' = time + 1
  /\ UNCHANGED <<reader, requests, mailbox, sendOk, waiting, took, shifted>>

\* ... and of the SEND command.
WriteCommand ==
  /\ server.pc = "command"
  /\ \/ /\ replies' = [replies EXCEPT !.sample.sent = TRUE]
        /\ sendOk' = (IF sendOk = "yes" THEN "yes" ELSE "busy")
        /\ server' = [server EXCEPT !.pc = "poll"]
     \/ /\ TxMayFail
        /\ server' = [server EXCEPT !.pc = "return"]
        /\ UNCHANGED <<replies, sendOk>>
  /\ UNCHANGED <<time, reader, requests, mailbox, waiting, took, shifted>>

Sent ==
  /\ sendOk = "busy"
  /\ sendOk' = "yes"
  /\ UNCHANGED <<time, reader, requests, mailbox, server, replies, waiting, took, shifted>>

\* The poll of Sn_IR in transmit; the flag is cleared after it was seen.
PollSendOk ==
  /\ server.pc = "poll"
  /\ \/ sendOk = "yes" /\ replies' = Completed /\ sendOk' = "no"
     \/ TxMayFail /\ sendOk = "busy" /\ UNCHANGED <<replies, sendOk>>
  /\ server' = [server EXCEPT !.pc = "return"]
  /\ UNCHANGED <<time, reader, requests, mailbox, waiting, took, shifted>>

\* Mutant: the time of the call does not matter.
InCallEver(sample) == TRUE

InCall(sample) == sample.start >= server.entry

\* ntp_path_diagnostics_capture_tx, when udp_sendto has returned.
Return ==
  /\ server.pc = "return"
  /\ LET samples == {s \in {replies.history[slot] : slot \in DOMAIN replies.history} :
                       s.sequence > replies.consumed /\ InCall(s)}
         chosen  == CHOOSE s \in samples : \A r \in samples : s.sequence <= r.sequence
     IN  IF server.call /\ samples # {}
         THEN /\ replies' = [replies EXCEPT !.consumed = chosen.sequence]
              /\ took' = [took EXCEPT !.reply = chosen.request]
         ELSE UNCHANGED <<replies, took>>
  /\ server' = NoCall
  /\ UNCHANGED <<time, reader, requests, mailbox, sendOk, waiting, shifted>>

-----------------------------------------------------------------------------
PathNext ==
  \/ ReadRequest \/ HandOver \/ NoticeSendOk \/ StoreSendOk
  \/ Callback \/ SendReply \/ SendWaiting \/ SendOther
  \/ WriteReply \/ WriteCommand \/ Sent \/ PollSendOk \/ Return

PathSpec == PathInit /\ [][PathNext]_pathVars

-----------------------------------------------------------------------------
\* What a callback takes is its own: the sample of its own request, unless one
\* was lost before or more requests were in flight than the history holds, and the
\* sample of the reply sent in this very call.  After a loss it is the sample of
\* an earlier request, and it stays so: nothing brings the two in step again.
OwnSamples ==
  /\ took.request # 0 /\ ~shifted.overwritten =>
       /\ took.sample \in 1 .. took.request
       /\ ~shifted.lost => took.sample = took.request
  /\ took.reply \in {0, took.request}

=============================================================================
