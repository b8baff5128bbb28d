SPECIFICATION AllSpec
CONSTANTS
  Thread = {t1, t2, t3, t4}
  Reader = {r1, r2}
  Address = {a1, a2, a3, a4}
  MaxVersion = 4
  Key = {1, 2}
  Flat <- TwoKeys
  Deep <- OneAndTwoKeys
  FlatLeaf = {1, 7}
  DeepLeaf = {7}
  Asker = {c1, c2}
  Caller = {c1, c2, c3}
  here = here
  Others = {there}
  Listener = {s1, s2}
  SoleHome <- OneAbroad
  SharedHome <- BothAbroad
  Speaker = here
  MaxPublished = 2
  MaxSubscribed = 2
  there = there
  s1 = s1
  HEADER = HEADER
  NULL = NULL
  TABLE = TABLE
  FAILED = FAILED
SYMMETRY Symmetry
CHECK_DEADLOCK FALSE
INVARIANTS LockSound ObjectKept 
PROPERTIES ImplementsRegistry ImplementsSortedSet
