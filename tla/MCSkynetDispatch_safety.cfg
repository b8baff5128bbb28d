\* Two workers of different weight, one other thread, two services, two
\* messages.  All services may die: then nothing is left to do.
CONSTANTS
  w1 = w1
  w2 = w2
  Worker = {w1, w2}
  Agent = {a1}
  Handle = {h1, h2}
  Msg = {m1, m2, m3}
  Divisor <- MixedDivisor
  System = System
  Unused = Unused
  None = None
SPECIFICATION Spec
SYMMETRY Symmetry
CHECK_DEADLOCK FALSE
INVARIANTS OneDispatcher NoStrandedQueue  DispatchInitialised
PROPERTY ImplementsMailboxes
