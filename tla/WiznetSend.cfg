\* No failures: a transmit that gives up waiting is enough.
SPECIFICATION TxSpec
CONSTANTS
  TxSize = 4
  TxMod = 8
  TxLengths = {1, 2}
  MaxSends = 2
  MaxTxFaults = 0
  MaxTxFlaps = 1
INVARIANT SendsOneByOne
CHECK_DEADLOCK FALSE
