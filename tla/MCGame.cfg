\* Two tables for two users, two requests that wait; a table with two seats,
\* three users who want one, and two games; the deal of all 108 tiles.
SPECIFICATION AllSpec
CONSTANTS
  Uid = {u1, u2}
  MAX_ROOM_NUM = 2
  Coroutine = {1, 2}
  MaxNum = 4
  MaxJoined = 2
  Nil = Nil
  Users = {u1, u2, u3}
  Host = u1
  Seats = {1, 2}
  MaxJu = 2
  Long = 28
  Short = 26
  Rounds = 3
CHECK_DEADLOCK FALSE
INVARIANTS RoomsKept  DealExact HandsRead
