\* One worker of weight 0, whose callbacks may send for ever: two services
\* that keep each other busy with two messages, and retire each other.
SPECIFICATION AllSpec
CONSTANTS
  w1 = w1
  w2 = w2
  Worker = {w2}
  Agent = {a1}
  Handle = {h1, h2}
  Msg = {m1, m2}
  Divisor <- WeightZero
  System = System
  Unused = Unused
  None = None
  t1 = t1
  t2 = t2
  t3 = t3
  s1 = s1
  s2 = s2
CHECK_DEADLOCK FALSE
PROPERTIES QueuedLeaves RetiredFreed SleepersWake EndlessFound
