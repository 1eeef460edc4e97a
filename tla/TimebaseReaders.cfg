\* One reader against the main task and the ISR.  Readers change nothing that
\* another reader or the main task reads, so one stands for any number.
SPECIFICATION Spec
CONSTANTS
  Second = 3
  AssocMin = 1
  AssocMax = 2
  PpsTimeout = 4
  GnssTimeout = 2
  ZdaPreference = 3
  IsrLatency = 0
  CountMod = 8
  Kinds <- BothKinds
  LabelErrors <- Honest
  Readers = {r1}
  MaxNow = 8
  MaxPending = 1
INVARIANT NeverAhead
PROPERTY ImplementsSource
