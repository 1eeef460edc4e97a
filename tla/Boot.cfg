\* Two addresses, a flapping link and a restart: starts that fail, handlers
\* that abort, two reboots.
SPECIFICATION FairBootSpec
CONSTANTS
  Addresses = {a1, a2}
  None = None
  MaxEvents = 3
  MaxReboots = 2
INVARIANT LinkSettled
INVARIANT AddressShown
INVARIANT HealthTruthful
PROPERTY BootCompletes
