\* Receive: three frames through a ring that holds one or two, a failure
\* anywhere and a link that flaps.  Transmit: five frames, time-outs, a failure
\* and link losses.  Filter: three groups; the count never gets to its end.
\* Path: four requests, samples of two, and sends that fail.
SPECIFICATION Spec
CONSTANTS
  RingSize = 4
  PtrMod = 8
  Sizes = {2, 3}
  MaxFrames = 3
  MaxFaults = 1
  MaxFlaps = 2
  TxSize = 4
  TxMod = 8
  TxLengths = {1, 2}
  MaxSends = 5
  MaxTxFaults = 1
  MaxTxFlaps = 3
  Groups = {g1, g2, g3}
  CountMod = 8
  HistorySize = 2
  MaxRequests = 4
  TxMayFail = TRUE
INVARIANT InOrder
INVARIANT NothingLost
PROPERTY RingEmptied
PROPERTY UpMeansOpen
INVARIANT WireIntact
INVARIANT OkMeansSent
INVARIANT JoinedHeard
INVARIANT OwnSamples
CHECK_DEADLOCK FALSE
