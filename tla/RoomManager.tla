---------------------------- MODULE RoomManager ----------------------------
(***************************************************************************)
(* The room manager (chestnut/room_mgr/cmd.lua): a fixed set of tables,    *)
(* each a service of its own, which are idle (pool) or created by a user   *)
(* (rooms).  To create and to dissolve a room the manager calls the table, *)
(* and while it waits it handles other requests, which may be for the same *)
(* user or for the same table.  A table may answer, refuse or never answer *)
(* (a handler of a service that fails or returns nothing sends no reply).  *)
(* Tables are numbered from 1, the code numbers them from startid.         *)
(***************************************************************************)
EXTENDS Integers, FiniteSets

CONSTANTS
  Uid,
  MAX_ROOM_NUM,
  Coroutine,     \* bound of the model: requests that wait for a table
  MaxNum,        \* bound of the model: creations
  MaxJoined,     \* bound of the model: joins of a table
  Nil

ASSUME MaxRoomAssumption == MAX_ROOM_NUM \in Nat /\ MAX_ROOM_NUM > 1
ASSUME UidAssumption == Nil \notin Uid /\ 0 \notin Uid /\ Nil # 0

Room == 1 .. MAX_ROOM_NUM

VARIABLES
  users,     \* the roomid of each user the manager knows, or Nil
  rooms, pool, num, id,
  host,      \* of each table
  seats,     \* room.users of each table: who joined, and whether he has an agent
  joined,    \* of each table
  ju,        \* of each table
  request    \* what each coroutine waits for

tables == <<host, seats, joined, ju>>
vars == <<users, rooms, pool, num, id, tables, request>>

Waiting == [op : {"create"}, uid : Uid, room : Room] \cup [op : {"dissolve"}, room : Room]

TypeOK ==
  /\ users \in [Uid -> Room \cup {0, Nil}]
  /\ rooms \subseteq Room /\ pool \subseteq Room
  /\ num \in Nat /\ id \in Room
  /\ host \in [Room -> Uid \cup {0, Nil}]
  /\ seats \in [Room -> [Uid -> {"none", "here", "away"}]]
  /\ joined \in [Room -> Nat]
  /\ ju \in [Room -> {0, 1}]
  /\ request \in [Coroutine -> Waiting \cup {Nil}]

NoSeats == [u \in Uid |-> "none"]

Init ==
  /\ users = [u \in Uid |-> Nil]
  /\ rooms = {} /\ pool = Room
  /\ num = 0 /\ id = 1
  /\ host = [r \in Room |-> Nil]
  /\ seats = [r \in Room |-> NoSeats]
  /\ joined = [r \in Room |-> 0]
  /\ ju = [r \in Room |-> 0]
  /\ request = [c \in Coroutine |-> Nil]

-----------------------------------------------------------------------------

\* A fault: a room that is dissolved is no longer counted.
NumAfterDissolve_less == num - 1

-----------------------------------------------------------------------------
Free(c) == request[c] = Nil

Wait(c, what) == request' = [request EXCEPT ![c] = what]
Done(c) == request' = [request EXCEPT ![c] = Nil]

\* The loop of next_id, from id around to a number that is not in rooms.
FirstFree ==
  LET distance(r) == (r - id + MAX_ROOM_NUM) % MAX_ROOM_NUM
  IN CHOOSE r \in Room \ rooms : \A t \in Room \ rooms : distance(r) <= distance(t)

\* pool while the manager waits for table r to be created
PoolDuringCall(r) == pool

\* CMD.create until it calls the table.  Otherwise it answers 10 (the user
\* has a room) or 13 (too many rooms) and changes nothing.
Create(c, u) ==
  /\ Free(c)
  /\ users[u] = Nil
  /\ num < MAX_ROOM_NUM
  /\ id' = FirstFree
  /\ FirstFree \in pool        \* assert(pool[roomid])
  /\ pool' = PoolDuringCall(FirstFree)
  /\ Wait(c, [op |-> "create", uid |-> u, room |-> FirstFree])
  /\ UNCHANGED <<users, rooms, num, tables>>

\* The table was created.
Created(c) ==
  /\ ~Free(c) /\ request[c].op = "create"
  /\ num < MaxNum
  /\ LET u == request[c].uid  r == request[c].room
     IN /\ users' = [users EXCEPT ![u] = r]
        /\ pool' = pool \ {r}
        /\ rooms' = rooms \cup {r}
        /\ host' = [host EXCEPT ![r] = u]
        /\ seats' = [seats EXCEPT ![r] = NoSeats]
        /\ ju' = [ju EXCEPT ![r] = 0]
  /\ num' = num + 1
  /\ Done(c)
  /\ UNCHANGED <<id, joined>>

\* The table refused, or the call failed.
Refused(c) ==
  /\ ~Free(c)
  /\ Done(c)
  /\ UNCHANGED <<users, rooms, pool, num, id, tables>>

\* CMD.dissolve until it calls the table, and after.  If the table has no host
\* by now, or one that is not known, users[room.host] is nil and an error ends
\* the request.
Dissolve(c, r) ==
  /\ Free(c)
  /\ r \in rooms
  /\ Wait(c, [op |-> "dissolve", room |-> r])
  /\ UNCHANGED <<users, rooms, pool, num, id, tables>>

NumAfterDissolve == num

Recycled(c) ==
  /\ ~Free(c) /\ request[c].op = "dissolve"
  /\ Done(c)
  /\ LET r == request[c].room  u == host[r]
     IN /\ u \in Uid /\ users[u] # Nil
        /\ users' = [users EXCEPT ![u] = 0]
        /\ host' = [host EXCEPT ![r] = 0]
        /\ pool' = pool \cup {r}
  /\ num' = NumAfterDissolve
  /\ UNCHANGED <<rooms, id, seats, joined, ju>>

\* CMD.save_data, time and again
SaveData ==
  LET over == {r \in rooms : host[r] = 0}
  IN /\ users' = [u \in Uid |-> IF users[u] = 0 THEN Nil ELSE users[u]]
     /\ pool' = pool \cup over
     /\ rooms' = rooms \ over
     /\ UNCHANGED <<num, id, tables, request>>

-----------------------------------------------------------------------------
(***************************************************************************)
(* Called by the table, which lets in who is not there and out who is:     *)
(* room_join, room_rejoin and room_afk, room_leave, room_incre_ju.         *)
(***************************************************************************)
RoomJoin(r, u) ==
  /\ r \in rooms
  /\ seats[r][u] = "none"
  /\ joined[r] < MaxJoined
  /\ seats' = [seats EXCEPT ![r][u] = "here"]
  /\ joined' = [joined EXCEPT ![r] = @ + 1]
  /\ UNCHANGED <<users, rooms, pool, num, id, host, ju, request>>

RoomAgent(r, u, how) ==
  /\ r \in rooms
  /\ seats[r][u] # "none"
  /\ seats' = [seats EXCEPT ![r][u] = how]
  /\ UNCHANGED <<users, rooms, pool, num, id, host, joined, ju, request>>

RoomLeave(r, u) ==
  /\ r \in rooms
  /\ seats[r][u] # "none"
  /\ joined[r] > 0
  /\ joined' = [joined EXCEPT ![r] = @ - 1]
  /\ seats' = [seats EXCEPT ![r][u] = "none"]
  /\ UNCHANGED <<users, rooms, pool, num, id, host, ju, request>>

JuLeft(r) == ju[r] < 1

IncreJu(r) ==
  /\ r \in rooms
  /\ JuLeft(r)
  /\ ju' = [ju EXCEPT ![r] = @ + 1]
  /\ UNCHANGED <<users, rooms, pool, num, id, host, seats, joined, request>>

TableCalls ==
  \E r \in Room :
    \/ IncreJu(r)
    \/ \E u \in Uid : \/ RoomJoin(r, u) \/ RoomLeave(r, u)
                      \/ \E how \in {"here", "away"} : RoomAgent(r, u, how)

Next ==
  \/ \E c \in Coroutine :
       \/ \E u \in Uid : Create(c, u)
       \/ \E r \in Room : Dissolve(c, r)
       \/ Created(c) \/ Refused(c) \/ Recycled(c)
  \/ SaveData
  \/ TableCalls

Spec == Init /\ [][Next]_vars

-----------------------------------------------------------------------------
(***************************************************************************)
(* Properties.                                                             *)
(***************************************************************************)
\* Whatever calls fail or overtake each other, every table can be found: it
\* is idle or in use (or both, once it is dissolved).  So the assertion
\* assert(pool[roomid]) of CMD.create never fails.
NoTableLost == rooms \cup pool = Room

\* The loop of next_id ends: there is a number it can stop at whenever it is
\* entered.  That needs num to grow with every creation and never to fall.
NextIdStops == num < MAX_ROOM_NUM => rooms # Room
=============================================================================
