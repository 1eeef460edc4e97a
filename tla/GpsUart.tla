------------------------------ MODULE GpsUart -------------------------------
(***************************************************************************)
(* How GNSS bytes reach the main task (gps_uart.c): the UART driver's      *)
(* interrupt moves bytes from the hardware FIFO to a ring buffer and posts *)
(* an event that announces how many; the main task takes an event,         *)
(* timestamps it, reads that many bytes and estimates when each of them    *)
(* arrived (nmea_timing_process_uart_event_bytes).  The driver is not part *)
(* of the repository and is modelled from how gps_uart.c uses it.          *)
(*                                                                         *)
(* One tick is one byte time, NMEA_UART_BYTE_TIME_US.  A byte is known by  *)
(* the tick in which it arrived.                                           *)
(***************************************************************************)
EXTENDS Integers, Sequences

CONSTANTS
  FifoSize,     \* hardware FIFO, bytes
  RingSize,     \* GPS_BUFFER_SIZE * 2, the driver's ring buffer
  QueueSize,    \* GPS_UART_EVENT_QUEUE_SIZE
  BufferSize,   \* GPS_BUFFER_SIZE, the main task's buffer
  ReadMayFail,  \* whether uart_read_bytes may return an error
  MaxNow        \* bound: the last tick

ASSUME SizeAssumption ==
  /\ {FifoSize, RingSize, QueueSize, BufferSize, MaxNow} \subseteq Nat \ {0}
  /\ ReadMayFail \in BOOLEAN

VARIABLES
  clock,  \* esp_timer_get_time(), in byte times
  fifo,   \* bytes in the hardware FIFO
  ring,   \* bytes in the driver's ring buffer
  queue,  \* gps_uart_event_queue
  main    \* the main task's program counter and the locals of gps_uart_poll

uartVars == <<clock, fifo, ring, queue, main>>

\* An event.  The field bytes is history: the bytes that a UART_DATA event was
\* posted for.
Data(bytes) == [type |-> "UART_DATA", size |-> Len(bytes), bytes |-> bytes]
Fault(type) == [type |-> type, size |-> 0, bytes |-> <<>>]

Overflows == {"UART_FIFO_OVF", "UART_BUFFER_FULL"}
LineErrors == {"UART_BREAK", "UART_PARITY_ERR", "UART_FRAME_ERR"}

Waiting == [pc |-> "wait", eventAt |-> 0, remaining |-> 0, own |-> <<>>]

UartInit ==
  /\ clock = 0
  /\ fifo = <<>>
  /\ ring = <<>>
  /\ queue = <<>>
  /\ main = Waiting

-----------------------------------------------------------------------------
(***************************************************************************)
(* The wire and the driver.                                                *)
(***************************************************************************)

\* An event that finds the queue full is dropped.
Post(event) == IF Len(queue) < QueueSize THEN Append(queue, event) ELSE queue

\* A byte time passes, with or without a byte on the wire.
ByteTime ==
  /\ clock < MaxNow
  /\ clock' = clock + 1
  /\ \/ fifo' = fifo
     \/ Len(fifo) < FifoSize /\ fifo' = Append(fifo, clock + 1)
  /\ UNCHANGED <<ring, queue, main>>

\* The FIFO reached its threshold or the wire was idle for two byte times.
DriverData ==
  /\ fifo # <<>>
  /\ Len(ring) + Len(fifo) <= RingSize
  /\ ring' = ring \o fifo
  /\ queue' = Post(Data(fifo))
  /\ fifo' = <<>>
  /\ UNCHANGED <<clock, main>>

\* The ring buffer has no room for the FIFO's bytes.
DriverFull ==
  /\ fifo # <<>>
  /\ Len(ring) + Len(fifo) > RingSize
  /\ queue' = Post(Fault("UART_BUFFER_FULL"))
  /\ fifo' = <<>>
  /\ UNCHANGED <<clock, ring, main>>

\* A byte arrived with the FIFO full: the driver resets the FIFO.
DriverOverflow ==
  /\ Len(fifo) = FifoSize
  /\ queue' = Post(Fault("UART_FIFO_OVF"))
  /\ fifo' = <<>>
  /\ UNCHANGED <<clock, ring, main>>

\* A break, or a byte with a parity or framing error.
DriverError ==
  /\ fifo # <<>>
  /\ \E type \in LineErrors : queue' = Post(Fault(type))
  /\ UNCHANGED <<clock, fifo, ring, main>>

-----------------------------------------------------------------------------
(***************************************************************************)
(* gps_uart_poll.                                                          *)
(***************************************************************************)

\* xQueueReceive returns an event; the timestamp is taken before any byte is
\* read.  Without an event within 100 ms the call returns and changes nothing.
Dequeue ==
  /\ main.pc = "wait"
  /\ queue # <<>>
  /\ queue' = Tail(queue)
  /\ LET event == Head(queue)
     IN  main' = CASE event.type = "UART_DATA" ->
                        [pc |-> "read", eventAt |-> clock,
                         remaining |-> event.size, own |-> event.bytes]
                   [] event.type \in Overflows -> [main EXCEPT !.pc = "flush"]
                   [] OTHER -> main
  /\ UNCHANGED <<clock, fifo, ring>>

Requested ==
  IF main.remaining < BufferSize THEN main.remaining ELSE BufferSize

Later == main.remaining - Requested
Chunk == SubSeq(ring, 1, Requested)

\* Mutant: the estimate is one byte time too early.
EstimateOneEarly(i) == main.eventAt - (Later + Requested - i + 1)

\* The estimated arrival of the i-th byte of the chunk.
EstimatedArrival(i) == main.eventAt - (Later + Requested - i)

\* uart_read_bytes waits without limit until the requested bytes are there;
\* nmea_timing_process_uart_event_bytes then takes them one by one.
Read ==
  /\ main.pc = "read"
  /\ Len(ring) >= Requested
  /\ ring' = SubSeq(ring, Requested + 1, Len(ring))
  /\ main' = IF Later = 0 THEN Waiting
             ELSE [main EXCEPT !.remaining = Later,
                     !.own = SubSeq(main.own, Requested + 1, Len(main.own))]
  /\ UNCHANGED <<clock, fifo, queue>>

\* The rest of the event's bytes is abandoned, where it is: in the ring.
ReadFails ==
  /\ ReadMayFail
  /\ main.pc = "read"
  /\ main' = Waiting
  /\ UNCHANGED <<clock, fifo, ring, queue>>

\* Mutant: the queue is not reset.
ResetNothing ==
  /\ main.pc = "reset"
  /\ main' = Waiting
  /\ UNCHANGED <<clock, fifo, ring, queue>>

\* uart_flush_input empties the ring buffer and the FIFO.
FlushInput ==
  /\ main.pc = "flush"
  /\ main' = [main EXCEPT !.pc = "reset"]
  /\ ring' = <<>>
  /\ fifo' = <<>>
  /\ UNCHANGED <<clock, queue>>

\* xQueueReset, a second call: the driver's interrupt may run in between.
ResetQueue ==
  /\ main.pc = "reset"
  /\ main' = Waiting
  /\ queue' = <<>>
  /\ UNCHANGED <<clock, fifo, ring>>

Works == Dequeue \/ Read \/ FlushInput \/ ResetQueue

MainStep == Works \/ ReadFails

-----------------------------------------------------------------------------
UartNext ==
  \/ ByteTime
  \/ DriverData \/ DriverFull \/ DriverOverflow \/ DriverError
  \/ MainStep

UartSpec == UartInit /\ [][UartNext]_uartVars

\* The main task is scheduled; the wire and the driver promise nothing, and
\* nobody promises that a read which could wait for ever fails instead.
FairUartSpec == UartSpec /\ WF_uartVars(Works)

-----------------------------------------------------------------------------
(***************************************************************************)
(* Properties.                                                             *)
(***************************************************************************)

\* Every byte that an event promises is in the ring buffer, after those of the
\* events before it: uart_read_bytes, called with portMAX_DELAY, never blocks the
\* main task, whatever events were dropped, and whatever the driver does between
\* the flush and the reset of the queue.  Between these two steps the queue is
\* about to be emptied.
EventsBacked ==
  main.pc # "reset" =>
    \E last \in [0 .. Len(queue) -> 0 .. Len(ring)] :
      /\ last[0] = main.remaining
      /\ \A i \in 1 .. Len(queue) : last[i] = last[i - 1] + queue[i].size

\* The estimate handed to the NMEA parser lies between the byte's true arrival
\* and the event's timestamp: the premise on which Timebase's association
\* window rests, kept even when the bytes read are older than their event.
EstimateBounded ==
  [][Read => \A i \in 1 .. Requested :
               EstimatedArrival(i) \in Chunk[i] .. main.eventAt]_uartVars

\* gps_uart_poll always returns once it has taken an event: the loop of the main
\* task, which also detects the loss of PPS, is never stuck in a read.
PollReturns == (main.pc # "wait") ~> (main.pc = "wait")

\* nmea_timing.c: the event's timestamp is "shifted backward by the wire time of
\* all later bytes belonging to that same event", so the bytes read are those
\* the event was posted for.  After a dropped event they are older ones.
ReadsOwnBytes == [][Read => Chunk = SubSeq(main.own, 1, Requested)]_uartVars

=============================================================================
