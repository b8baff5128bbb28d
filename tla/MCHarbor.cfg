SPECIFICATION AllSpec
CONSTANTS
  s1 = s1
  s2 = s2
  s3 = s3
  x = x
  MaxSend = 3
  Base = 2
  Contents <- FourMessages
CHECK_DEADLOCK FALSE
INVARIANTS  StreamExact
PROPERTY HarborSettles
