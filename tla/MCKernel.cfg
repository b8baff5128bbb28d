\* A ring of 2, 4, 8 slots and warnings at more than 1, 2, 4 messages.  The
\* model of the storage ends where the process dies.
SPECIFICATION AllSpec
CONSTANTS
  Msg = {m1, m2}
  DefaultSize = 2
  Overload = 1
  Garbage = Garbage
  MaxLength = 5
  Context = {c1, c2, c3}
  Event = {e1, e2}
  Null = Null
  DefaultSlots = 2
  HandleMask = 7
  FewHandles = 3
  Name = {1, 2}
  OneName = {1}
  TIME_NEAR = 2
  TIME_LEVEL = 2
SYMMETRY Symmetry
CHECK_DEADLOCK FALSE
PROPERTIES ImplementsFifo BacklogToldOnce StorageHolds ImplementsDirectory ImplementsTimer
