\* UART: overflows, dropped events and failed reads.  Lines: all streams of six
\* bytes, any of them lost, and lines of two characters.  Calendar: day by day
\* through more than a century and a half.  NTP time: five ticks per second,
\* eight seconds per NTP era, two and a half eras.  Fields: all texts of some
\* alphabets.  PPS: three pulses, interrupts up to two ticks late, and a counter
\* that wraps after eight ticks.  Status: two lines, two pulses and a silence; ZDA
\* is treated as RMC is.
SPECIFICATION Spec
CONSTANTS
  FifoSize = 3
  RingSize = 4
  QueueSize = 2
  BufferSize = 2
  ReadMayFail = TRUE
  MaxNow = 7
  MaxLine = 2
  MaxBytes = 6
  Years <- ManyYears
  Seconds <- EdgeSeconds
  Second = 5
  SecondsMod = 8
  FractionMod = 16
  EpochOffset = 3
  MaxAge = 12
  LastSecond = 20
  Samples <- SampleTexts
  FixedScale = 10
  IntMax = 127
  MinuteScale = 10
  DegreeScale = 100
  BufferRoom = 2
  Width = 2
  MinGap = 5
  Latency = 2
  Window = 1
  CapMod = 8
  LastTick = 13
  Types = {"GGA", "RMC"}
  Stale = 1
  MaxDelay = 1
  Lag = 1
  Gap = 3
  MaxTime = 4
  MaxLines = 2
INVARIANT EventsBacked
PROPERTY EstimateBounded
PROPERTY PollReturns
INVARIANT LinesExact
INVARIANT CalendarExact
PROPERTY Advances
INVARIANT FieldsRead
INVARIANT WidthOfOnePulse
INVARIANT DeltasOfOnePulse
INVARIANT Unwrapped
INVARIANT IntervalsAddUp
INVARIANT FixOfOneLine
INVARIANT DelaysFromPulse
CHECK_DEADLOCK FALSE
