\* A label associated with the edge after the one it belongs to.
SPECIFICATION Spec
CONSTANTS
  Second = 3
  AssocMin = 1
  AssocMax = 2
  PpsTimeout = 4
  GnssTimeout = 2
  ZdaPreference = 3
  IsrLatency = 0
  CountMod = 8
  Kinds <- BothKinds
  LabelErrors <- Honest
  Readers = {r1}
  MaxNow = 8
  MaxPending = 1
INVARIANT ServedExact
