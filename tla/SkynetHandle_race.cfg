\* Up to three threads in skynet_context_new.
CONSTANTS
  Context = {c1, c2, c3}
  HandleMask = 7
  DefaultSize = 2
  Launchers = 3
  Name = {}
  Null = Null
SPECIFICATION Spec
CHECK_DEADLOCK FALSE
INVARIANTS NewSlotsDistinct
