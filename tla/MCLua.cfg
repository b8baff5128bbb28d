\* Five coroutines at one queue, whose calls nest three deep; three coroutines,
\* two sessions and one other service that asks and is asked; two unique
\* services, the init of one of which asks for the other, and two who ask for
\* both.
SPECIFICATION AllSpec
CONSTANTS
  Coroutine = {q1, q2, q3, q4, q5}
  MaxNesting = 3
  Nil = Nil
  Thread = {c1, c2, c3}
  Session = {1, 2}
  Peer = {p1}
  Incoming = {r1}
  Source <- OneSource
  MaxWakeups = 3
  MaxErrors = 1
  Break = Break
  Trigger = Trigger
  Timer = Timer
  Name = {n1, n2}
  Needs <- FirstNeedsOther
  Client = {u1, u2}
  MaxInstances = 4
  Starting = Starting
  Failed = Failed
SYMMETRY Symmetry
CHECK_DEADLOCK FALSE
INVARIANTS HandoverReaches RuntimeKeeps LaunchesKeep
PROPERTY ImplementsLock
