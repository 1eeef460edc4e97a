------------------------------ MODULE NmeaLine ------------------------------
(***************************************************************************)
(* How nmea_timing.c cuts the bytes from the receiver into lines: CR, LF or *)
(* both end a line, "$" starts one afresh, a byte that cannot belong to a   *)
(* sentence or a line that outgrows the buffer is discarded up to its end.  *)
(* The UART may lose bytes anywhere (gps_uart_poll flushes its input after  *)
(* an overflow) while the assembler keeps what it had.                      *)
(*                                                                         *)
(* A byte matters only by its class, and is known by its position on the   *)
(* wire, which also stands for the time it arrived.                        *)
(***************************************************************************)
EXTENDS Integers, Sequences, FiniteSets

CONSTANTS
  MaxLine,   \* NMEA_LINE_BUFFER_SIZE - 1
  MaxBytes   \* bound: bytes on the wire

ASSUME LineAssumption == MaxLine \in Nat \ {0} /\ MaxBytes \in Nat

VARIABLES
  wire,       \* history: the class of every byte so far, "lost" if flushed
  line,       \* line_buffer: the positions of the bytes in it
  discarding, \* discarding_line
  awaiting,   \* line_awaiting_lf
  crAt,       \* cr_arrival_us
  handed      \* history: the lines given to process_line and their arrival

lineVars == <<wire, line, discarding, awaiting, crAt, handed>>

\* Beside CR and LF, "start" is "$", "text" another printable character and
\* "bad" any other byte.
Terminators == {"CR", "LF"}

LineInit ==
  /\ wire = <<>>
  /\ line = <<>>
  /\ discarding = FALSE
  /\ awaiting = FALSE
  /\ crAt = 0
  /\ handed = <<>>

-----------------------------------------------------------------------------
(***************************************************************************)
(* process_byte.                                                           *)
(***************************************************************************)
Position == Len(wire) + 1

Arrives(class) ==
  /\ Len(wire) < MaxBytes
  /\ wire' = Append(wire, class)

\* Mutant: the buffer is not emptied.
CompleteLineKeeps(at) ==
  /\ handed' = IF discarding \/ line = <<>>
               THEN handed
               ELSE Append(handed, [bytes |-> line, at |-> at])
  /\ line' = line
  /\ discarding' = FALSE

\* complete_line: a line that is not discarded and not empty is processed.
CompleteLine(at) ==
  /\ handed' = IF discarding \/ line = <<>>
               THEN handed
               ELSE Append(handed, [bytes |-> line, at |-> at])
  /\ line' = <<>>
  /\ discarding' = FALSE

\* LF, alone or after a CR: the line arrived with the LF.
LineFeed ==
  /\ Arrives("LF")
  /\ CompleteLine(Position)
  /\ awaiting' = FALSE
  /\ UNCHANGED crAt

\* Mutant: a line ends at its CR, whether or not a LF follows.
CarriageReturnEnds ==
  /\ Arrives("CR")
  /\ CompleteLine(Position)
  /\ UNCHANGED <<awaiting, crAt>>

\* CR: in a line it is remembered until the next byte shows whether a LF
\* follows.  It ends the discarding, and a line that an earlier CR ended.
CarriageReturn ==
  /\ Arrives("CR")
  /\ IF awaiting \/ discarding \/ line = <<>>
     THEN CompleteLine(crAt) /\ awaiting' = FALSE /\ UNCHANGED crAt
     ELSE /\ awaiting' = TRUE
          /\ crAt' = Position
          /\ UNCHANGED <<line, discarding, handed>>

\* Before any other byte a line that a bare CR ended is processed; Held and
\* Discards are the buffer and the flag the byte then finds.
EndBareCr ==
  /\ handed' = IF awaiting
               THEN Append(handed, [bytes |-> line, at |-> crAt])
               ELSE handed
  /\ awaiting' = FALSE
  /\ UNCHANGED crAt
Held == IF awaiting THEN <<>> ELSE line
Discards == ~awaiting /\ discarding

Start ==
  /\ Arrives("start")
  /\ EndBareCr
  /\ line' = <<Position>>
  /\ discarding' = FALSE

Text ==
  /\ Arrives("text")
  /\ EndBareCr
  /\ IF ~Discards /\ Len(Held) < MaxLine
     THEN line' = Append(Held, Position) /\ discarding' = FALSE
     ELSE line' = Held /\ discarding' = TRUE

Unprintable ==
  /\ Arrives("bad")
  /\ EndBareCr
  /\ line' = Held
  /\ discarding' = TRUE

\* gps_uart_poll flushed this byte: the assembler never sees it.
Flushed ==
  /\ Arrives("lost")
  /\ UNCHANGED <<line, discarding, awaiting, crAt, handed>>

ProcessByte == LineFeed \/ CarriageReturn \/ Start \/ Text \/ Unprintable \/ Flushed

LineSpec == LineInit /\ [][ProcessByte]_lineVars

-----------------------------------------------------------------------------
(***************************************************************************)
(* The reference: the lines in a stream of received bytes.                 *)
(***************************************************************************)

\* The positions that reached the assembler.
Received == {i \in DOMAIN wire : wire[i] # "lost"}

\* What position k would end: all that was received after the last terminator, and
\* from the last "$" on.
Bytes(k) ==
  {j \in Received :
     /\ j < k /\ wire[j] \notin Terminators
     /\ \A i \in Received : j < i /\ i < k => wire[i] \notin Terminators \cup {"start"}}

\* It is a line if there is any of it, it fits and belongs to a sentence.
Proper(bytes) ==
  bytes # {} /\ Cardinality(bytes) <= MaxLine /\ \A j \in bytes : wire[j] # "bad"

\* A line arrives with its last terminator; a CR at the end of the stream still
\* waits for the next byte.
Follows(k, i) == i \in Received /\ k < i /\ \A j \in Received : j <= k \/ i <= j
Arrival(k) ==
  IF wire[k] = "CR" /\ \E i \in Received : Follows(k, i) /\ wire[i] = "LF"
  THEN CHOOSE i \in Received : Follows(k, i) ELSE k
Decided(k) == wire[k] = "CR" => \E i \in Received : k < i

LineEnds ==
  {k \in Received : wire[k] \in Terminators /\ Proper(Bytes(k)) /\ Decided(k)}

Ascending(s) == \A i, j \in DOMAIN s : i < j => s[i] < s[j]
IsLine(l, k) ==
  /\ {l.bytes[i] : i \in DOMAIN l.bytes} = Bytes(k) /\ Ascending(l.bytes)
  /\ l.at = Arrival(k)

-----------------------------------------------------------------------------
(***************************************************************************)
(* Properties.                                                             *)
(***************************************************************************)

\* Byte by byte the assembler finds exactly the lines that the whole stream
\* holds, each once and in order, with the arrival times of their last bytes
\* (process_byte).
AssembledExactly ==
  /\ \A n \in DOMAIN handed : \E k \in LineEnds : IsLine(handed[n], k)
  /\ \A k \in LineEnds : \E n \in DOMAIN handed : IsLine(handed[n], k)
  /\ \A m, n \in DOMAIN handed : m < n => handed[m].at < handed[n].at

\* Bytes lost in the middle of the stream may join the beginning of one
\* sentence to the end of another, which only the checksum can tell.  Each gap
\* costs one such line at most.
Spliced(l) == \E i \in 2 .. Len(l.bytes) : l.bytes[i] # l.bytes[i - 1] + 1
Gaps == {i \in DOMAIN wire : wire[i] = "lost" /\ (i > 1 => wire[i - 1] # "lost")}
SplicesBounded ==
  Cardinality({n \in DOMAIN handed : Spliced(handed[n])}) <= Cardinality(Gaps)

\* The lines are those of the bytes that were received, and each loss of bytes
\* spoils no more than the line it falls into.
LinesExact == AssembledExactly /\ SplicesBounded
=============================================================================
