\* An event that reads bytes older than its own.
SPECIFICATION UartSpec
CONSTANTS
  FifoSize = 3
  RingSize = 4
  QueueSize = 2
  BufferSize = 2
  ReadMayFail = FALSE
  MaxNow = 7
PROPERTY ReadsOwnBytes
CHECK_DEADLOCK FALSE
