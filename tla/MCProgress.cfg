SPECIFICATION AllSpec
CONSTANTS
  Nil = Nil
  c1 = c1
  c2 = c2
  c3 = c3
  r1 = r1
  p1 = p1
  Break = Break
  Trigger = Trigger
  Timer = Timer
  n1 = n1
  n2 = n2
  q1 = q1
  q2 = q2
  Starting = Starting
  Failure = Failure
  t1 = t1
  t2 = t2
  t3 = t3
  w1 = w1
  Thread = Thread
  s1 = s1
  s2 = s2
  A = A
  B = B
CHECK_DEADLOCK FALSE
PROPERTIES  WaitersEnter  
