SPECIFICATION AllSpec
CONSTANTS
  w1 = w1
  w2 = w2
  w3 = w3
  c1 = c1
  c2 = c2
  c3 = c3
  Dispatch = Dispatch
  None = None
  Session = {1, 2}
  expired_number = 1
  MaxVersion = 3
  MaxAsked = 2
  MaxSent = 2
  MaxPackage = 2
  Uid = {"u1", "u2"}
  MaxTry = 2
  MaxFd = 2
SYMMETRY Symmetry
CHECK_DEADLOCK FALSE
INVARIANTS   ResponsesKept LoginAgrees
