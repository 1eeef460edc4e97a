\* The main task alone, with every kind of sentence, late and corrupt labels,
\* and the loss of PPS and of labels under fairness.
SPECIFICATION FairSpec
CONSTANTS
  Second = 3
  AssocMin = 1
  AssocMax = 2
  PpsTimeout = 4
  GnssTimeout = 4
  ZdaPreference = 4
  IsrLatency = 0
  CountMod = 8
  Kinds <- AllKinds
  LabelErrors <- Lagging
  Readers = {}
  MaxNow = 9
  MaxPending = 1
PROPERTY AnchorMonotone
PROPERTY LossDetected
