\* Panel: two pages, short intervals, and a task that may fall two polls behind.
\* Settings: saves, failed writes, restarts and power losses in any order.
\* Requests: all bodies within two changes of a good one, in any pieces.
\* Names of up to five characters where three fit; typing ends there.
SPECIFICATION Spec
CONSTANTS
  Pages = 2
  DebouncePolls = 2
  Rotation = 3
  Overlay = 2
  Frame = 2
  MaxStall = 2
  clock2 = clock2
  lab = lab
  roof = roof
  None = None
  Hostnames <- ThreeNames
  Default = clock2
  KeyRoom = 2
  NameRoom = 2
  BodyMax = 10
  Edits = 2
  MaxLength = 3
  MaxInput = 5
INVARIANT PanelFollows
INVARIANT ShowsCurrent
PROPERTY PageHeldAfterKey
PROPERTY GoesDark
INVARIANT ConfiguredIsStored
INVARIANT PendingExact
INVARIANT RequestRead
INVARIANT NamesKept
CHECK_DEADLOCK FALSE
