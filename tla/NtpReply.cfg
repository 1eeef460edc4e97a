\* Two requests, along every path of the callback, against the main task and a
\* PPS interrupt that may be late.
SPECIFICATION NtpSpec
CONSTANTS
  Second = 4
  AssocMin = 1
  AssocMax = 2
  PpsTimeout = 5
  GnssTimeout = 4
  ZdaPreference = 3
  IsrLatency = 1
  CountMod = 8
  Kinds <- RmcOnly
  LabelErrors <- Honest
  Readers = {server}
  Server = server
  MaxRequests = 2
  MaxNow = 9
  MaxPending = 1
INVARIANT ReplyNeverAhead
INVARIANT ReplyOrdered
INVARIANT RequestSettled
