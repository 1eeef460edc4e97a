\* A read of a healthy timebase that is refused all the same.
SPECIFICATION Spec
CONSTANTS
  Second = 3
  AssocMin = 1
  AssocMax = 2
  PpsTimeout = 4
  GnssTimeout = 6
  ZdaPreference = 3
  IsrLatency = 0
  CountMod = 8
  Kinds <- BothKinds
  LabelErrors <- Honest
  Readers = {r1}
  MaxNow = 8
  MaxPending = 1
PROPERTY HealthyReadGranted
