------------------------------- MODULE MCGame -------------------------------
(***************************************************************************)
(* The game: the manager of the rooms, the seats of a table, the deal of a *)
(* game, and the search for a winning hand.  They share no state; on says  *)
(* which of them moves.                                                    *)
(***************************************************************************)
EXTENDS RoomManager, FiniteSetTheorems, WellFoundedInduction, TLAPS

CONSTANTS
  Users, Host, Seats, MaxJu,  \* of MahjongTable
  Long, Short, Rounds         \* of MahjongDeal

VARIABLES
  on,
  state, uid, connected, ready, seated, online, games, dealer, calling, built, ended,
  walls, next, curtake, takepoint, curidx, firstidx, hands, dealt, phase,
  hand, reading, a, rest, tally, code

table == <<state, uid, connected, ready, seated, online, games, dealer, calling, built, ended>>
deal == <<walls, next, curtake, takepoint, curidx, firstidx, hands, dealt, phase>>
search == <<hand, reading, a, rest, tally, code>>

Table == INSTANCE MahjongTable WITH
  joined <- seated, ju <- games, firstidx <- dealer, walls <- built, dealt <- ended
Deal == INSTANCE MahjongDeal WITH Players <- 1 .. 4
\* Hands of two suits; hands of fourteen cards for the seven pairs.
Hands == INSTANCE SichuanHu WITH Suits <- {1, 2}, Ranks <- 1 .. 5, Sizes <- {2, 5, 8}
Pairs == INSTANCE SichuanHu WITH Suits <- {1}, Ranks <- 1 .. 6, Sizes <- {14}

AllInit ==
  /\ on \in {"rooms", "table", "deal", "hands", "pairs"}
  /\ Init /\ Table!Init /\ Hands!Init
  /\ Deal!Init /\ (on # "deal" => firstidx = 1)

AllNext ==
  \/ on = "rooms" /\ Next /\ UNCHANGED <<on, table, deal, search>>
  \/ on = "table" /\ Table!Next /\ UNCHANGED <<on, vars, deal, search>>
  \/ on = "deal" /\ Deal!Next /\ UNCHANGED <<on, vars, table, search>>
  \/ on = "hands" /\ Hands!Next /\ UNCHANGED <<on, vars, table, deal>>
  \/ on = "pairs" /\ Pairs!Next /\ UNCHANGED <<on, vars, table, deal>>

AllSpec == AllInit /\ [][AllNext]_<<on, vars, table, deal, search>>

\* A table is created for some number of users, of whom none is called nobody.
ASSUME TableAssumption == IsFiniteSet(Seats) /\ Table!Nobody \notin Users /\ MaxJu \in Nat

\* The dice open a wall at its thirteenth tile at most, and there are as many
\* tiles as are dealt.
ASSUME DealAssumption ==
  /\ Long \in Nat /\ Short \in Nat /\ Rounds \in Nat
  /\ Long >= 12 /\ Short >= 12
  /\ 16 * Rounds + 5 <= 2 * Long + 2 * Short

-----------------------------------------------------------------------------
\* room_mgr/cmd.lua: although create and dissolve call the table between their
\* halves, no table is lost and the search for a free number ends.
RoomsKept == TypeOK /\ NoTableLost /\ NextIdStops

\* rcontext.lua: the counters are those of the seats, nobody has two seats, and
\* a game goes on at a full table only, however users come, go and return.
TableCounts == Table!TypeOK /\ Table!Counted /\ Table!PlaysFull

\* player.lua and take_deal: no tile is dealt twice or lost wherever the dice
\* break the walls, everybody gets his share, and the walls end together.
DealExact == Deal!TypeOK /\ Deal!TilesKept /\ Deal!DealFair /\ Deal!AllTaken

\* hu.lua: no card is counted twice; what is called a winning hand is one by the
\* rules, seven pairs are told exactly, and no small hand is missed.
HandsRead ==
  /\ Hands!NoCardTwice
  /\ IF on = "pairs" THEN Pairs!NeverTooMuch ELSE Hands!NeverTooMuch
  /\ on = "pairs" => Pairs!PairsExact
  /\ on = "hands" => Hands!TypeOK /\ Hands!SmallHandsFound

-----------------------------------------------------------------------------
(***************************************************************************)
(* The room manager, for any number of tables, users and requests.         *)
(***************************************************************************)

\* A set of natural numbers has a smallest.
LEMMA NatMin ==
  ASSUME NEW T, T \subseteq Nat, T # {}
  PROVE  \E x \in T : \A y \in T : x <= y
<1> DEFINE R == {p \in Nat \X Nat : p[1] < p[2]}
<1>1. IsWellFoundedOn(R, Nat)
  BY NatLessThanWellFounded DEF OpToRel
<1>2. ASSUME NEW x \in Nat, NEW y \in Nat PROVE <<y, x>> \in R <=> y < x
  <2>1. <<y, x>> \in Nat \X Nat /\ <<y, x>>[1] = y /\ <<y, x>>[2] = x
    OBVIOUS
  <2> QED BY <2>1
<1> HIDE DEF R
<1>3. PICK x \in T : \A y \in T : ~ (<<y, x>> \in R)
  BY <1>1, WFMin
<1>4. \A y \in T : ~ (y < x)
  BY <1>2, <1>3
<1> QED BY <1>3, <1>4

\* The tables in use, never more than are counted: what keeps the loop of
\* next_id from going around for ever.
RoomsCounted == IsFiniteSet(rooms) /\ Cardinality(rooms) <= num

RoomsInv == TypeOK /\ NoTableLost /\ RoomsCounted

\* There are as many tables as the configuration says.
LEMMA RoomFacts ==
  /\ 1 \in Room
  /\ IsFiniteSet(Room) /\ Cardinality(Room) = MAX_ROOM_NUM
<1>1. MAX_ROOM_NUM \in Int /\ MAX_ROOM_NUM > 1 /\ 1 \in Int
  BY MaxRoomAssumption
<1> QED BY <1>1, FS_Interval DEF Room

\* The number of a creation is counted when its table joins the rooms.
LEMMA CreatedStep ==
  ASSUME RoomsInv, NEW c \in Coroutine, Created(c)
  PROVE  RoomsInv'
<1>1. request[c] \in Waiting
  BY DEF Created, Free, TypeOK, RoomsInv
<1> DEFINE u == request[c].uid  r == request[c].room
<1>2. u \in Uid /\ r \in Room
  BY <1>1 DEF Created, Waiting
<1>3. /\ users' = [users EXCEPT ![u] = r]
      /\ pool' = pool \ {r} /\ rooms' = rooms \cup {r} /\ num' = num + 1
      /\ host' = [host EXCEPT ![r] = u]
      /\ seats' = [seats EXCEPT ![r] = NoSeats]
      /\ ju' = [ju EXCEPT ![r] = 0]
      /\ request' = [request EXCEPT ![c] = Nil]
      /\ UNCHANGED <<id, joined>>
  BY DEF Created, Done
<1> HIDE DEF u, r
<1>4. TypeOK'
  BY <1>2, <1>3 DEF RoomsInv, TypeOK, NoSeats
<1>5. NoTableLost'
  BY <1>2, <1>3 DEF RoomsInv, NoTableLost
<1>6. IsFiniteSet(rooms') /\ Cardinality(rooms') <= Cardinality(rooms) + 1
  <2>1. /\ IsFiniteSet(rooms) /\ Cardinality(rooms) \in Nat
        /\ IsFiniteSet(rooms \cup {r})
        /\ Cardinality(rooms \cup {r}) = IF r \in rooms THEN Cardinality(rooms)
                                                        ELSE Cardinality(rooms) + 1
    BY FS_AddElement, FS_CardinalityType DEF RoomsInv, RoomsCounted
  <2> QED BY <1>3, <2>1
<1>7. Cardinality(rooms) \in Nat /\ Cardinality(rooms') \in Nat /\ num \in Nat
  BY <1>6, FS_CardinalityType DEF RoomsInv, RoomsCounted, TypeOK
<1> QED BY <1>3, <1>4, <1>5, <1>6, <1>7 DEF RoomsInv, RoomsCounted

\* The rooms over return to the pool, and the rooms are fewer.
LEMMA SaveDataStep ==
  ASSUME RoomsInv, SaveData
  PROVE  RoomsInv'
<1> DEFINE over == {r \in rooms : host[r] = 0}
<1>1. /\ users' = [u \in Uid |-> IF users[u] = 0 THEN Nil ELSE users[u]]
      /\ pool' = pool \cup over /\ rooms' = rooms \ over
      /\ UNCHANGED <<num, id, host, seats, joined, ju, request>>
  BY DEF SaveData, tables
<1>2. over \subseteq rooms
  OBVIOUS
<1> HIDE DEF over
<1>3. TypeOK' /\ NoTableLost'
  BY <1>1, <1>2 DEF RoomsInv, TypeOK, NoTableLost
<1>4. /\ IsFiniteSet(rooms') /\ Cardinality(rooms') <= Cardinality(rooms)
  BY <1>1, FS_Subset DEF RoomsInv, RoomsCounted
<1>5. Cardinality(rooms) \in Nat /\ Cardinality(rooms') \in Nat /\ num \in Nat
  BY <1>4, FS_CardinalityType DEF RoomsInv, RoomsCounted, TypeOK
<1> QED BY <1>1, <1>3, <1>4, <1>5 DEF RoomsInv, RoomsCounted

LEMMA RoomsStep == RoomsInv /\ [Next]_vars => RoomsInv'
<1> SUFFICES ASSUME RoomsInv, [Next]_vars PROVE RoomsInv'
  OBVIOUS
<1>1. ASSUME NEW c \in Coroutine, NEW u \in Uid, Create(c, u) PROVE RoomsInv'
  <2>1. FirstFree \in Room
    BY <1>1 DEF Create, RoomsInv, TypeOK
  <2>2. [op |-> "create", uid |-> u, room |-> FirstFree] \in Waiting
    BY <2>1 DEF Waiting
  <2>3. /\ id' = FirstFree
        /\ request' = [request EXCEPT ![c] = [op |-> "create", uid |-> u, room |-> FirstFree]]
        /\ UNCHANGED <<pool, users, rooms, num, host, seats, joined, ju>>
    BY <1>1 DEF Create, Wait, PoolDuringCall, tables
  <2> QED BY <2>1, <2>2, <2>3 DEF RoomsInv, RoomsCounted, TypeOK, NoTableLost
<1>2. ASSUME NEW c \in Coroutine, NEW r \in Room, Dissolve(c, r) PROVE RoomsInv'
  <2>1. [op |-> "dissolve", room |-> r] \in Waiting
    BY DEF Waiting
  <2> QED BY <1>2, <2>1
          DEF Dissolve, Wait, RoomsInv, RoomsCounted, TypeOK, NoTableLost, tables
<1>3. ASSUME NEW c \in Coroutine, Refused(c) PROVE RoomsInv'
  BY <1>3 DEF Refused, Done, RoomsInv, RoomsCounted, TypeOK, NoTableLost, tables
<1>4. ASSUME NEW c \in Coroutine, Recycled(c) PROVE RoomsInv'
  <2>1. request[c] \in Waiting
    BY <1>4 DEF Recycled, Free, RoomsInv, TypeOK
  <2>2. PICK r \in Room : r = request[c].room
    BY <1>4, <2>1 DEF Recycled, Waiting
  <2> QED BY <1>4, <2>2
          DEF Recycled, NumAfterDissolve, Done, RoomsInv, RoomsCounted, TypeOK, NoTableLost
<1>5. ASSUME NEW r \in Room, NEW u \in Uid,
             RoomJoin(r, u) \/ RoomLeave(r, u) \/ \E how \in {"here", "away"} : RoomAgent(r, u, how)
      PROVE  RoomsInv'
  <2>1. /\ UNCHANGED <<users, rooms, pool, num, id, host, ju, request>>
        /\ \E how \in {"none", "here", "away"} : seats' = [seats EXCEPT ![r][u] = how]
        /\ \/ joined' = [joined EXCEPT ![r] = @ + 1]
           \/ joined' = [joined EXCEPT ![r] = @ - 1] /\ joined[r] > 0
           \/ UNCHANGED joined
    BY <1>5 DEF RoomJoin, RoomLeave, RoomAgent
  <2>2. seats' \in [Room -> [Uid -> {"none", "here", "away"}]] /\ joined' \in [Room -> Nat]
    BY <2>1 DEF RoomsInv, TypeOK
  <2> QED BY <2>1, <2>2 DEF RoomsInv, RoomsCounted, TypeOK, NoTableLost
<1>6. ASSUME NEW r \in Room, IncreJu(r) PROVE RoomsInv'
  BY <1>6 DEF IncreJu, JuLeft, RoomsInv, RoomsCounted, TypeOK, NoTableLost
<1>7. ASSUME UNCHANGED vars PROVE RoomsInv'
  BY <1>7 DEF vars, tables, RoomsInv, RoomsCounted, TypeOK, NoTableLost
<1> QED
  BY <1>1, <1>2, <1>3, <1>4, <1>5, <1>6, <1>7, CreatedStep, SaveDataStep DEF Next, TableCalls

\* No table is lost and next_id finds a number, for any number of requests that
\* wait for tables and are answered or refused in any order.
THEOREM RoomsTheorem == Spec => []RoomsKept
<1>1. Init => RoomsInv
  BY RoomFacts, FS_EmptySet
     DEF Init, RoomsInv, RoomsCounted, TypeOK, NoTableLost, NoSeats
<1>2. RoomsInv => RoomsKept
  <2> SUFFICES ASSUME RoomsInv, num < MAX_ROOM_NUM PROVE rooms # Room
    BY DEF RoomsKept, RoomsInv, NextIdStops
  <2>1. Cardinality(rooms) \in Nat /\ Cardinality(rooms) <= num /\ num \in Nat
    BY FS_CardinalityType DEF RoomsInv, RoomsCounted, TypeOK
  <2> QED BY <2>1, RoomFacts, MaxRoomAssumption
<1> QED BY <1>1, <1>2, RoomsStep, PTL DEF Spec

\* As long as fewer tables are in use than there are, the number that next_id
\* finds is that of a table in the pool: CMD.create's assert(pool[roomid])
\* never fails.
THEOREM NextIdTheorem == Spec => [](num < MAX_ROOM_NUM => FirstFree \in pool \ rooms)
<1>1. ASSUME RoomsKept, num < MAX_ROOM_NUM PROVE FirstFree \in pool \ rooms
  <2> DEFINE distance(r) == (r - id + MAX_ROOM_NUM) % MAX_ROOM_NUM
             T == {distance(r) : r \in Room \ rooms}
  <2>1. \A r \in Room : distance(r) \in Nat
    <3> SUFFICES ASSUME NEW r \in Room PROVE distance(r) \in Nat
      OBVIOUS
    <3>1. r \in Int /\ id \in Int /\ MAX_ROOM_NUM \in Nat /\ MAX_ROOM_NUM > 1
      BY <1>1, MaxRoomAssumption DEF RoomsKept, TypeOK, Room
    <3> QED BY <3>1
  <2>2. Room \ rooms # {}
    BY <1>1 DEF RoomsKept, TypeOK, NextIdStops
  <2>3. PICK r \in Room \ rooms : \A t \in Room \ rooms : distance(r) <= distance(t)
    <3> HIDE DEF distance
    <3>1. T \subseteq Nat /\ T # {}
      BY <2>1, <2>2
    <3>2. PICK x \in T : \A y \in T : x <= y
      BY <3>1, NatMin
    <3> QED BY <3>2
  <2>4. FirstFree \in Room \ rooms
    BY <2>3 DEF FirstFree
  <2> QED BY <1>1, <2>4 DEF RoomsKept, NoTableLost
<1> QED BY <1>1, RoomsTheorem, PTL

-----------------------------------------------------------------------------
(***************************************************************************)
(* The seats of a table, for any number of seats and users.                *)
(***************************************************************************)

\* A set that changes at one element.
LEMMA CountChange ==
  ASSUME NEW S, NEW T, NEW x, IsFiniteSet(S), S \ {x} = T \ {x}
  PROVE  /\ IsFiniteSet(T)
         /\ Cardinality(S) \in Nat /\ Cardinality(T) \in Nat
         /\ x \in S /\ x \notin T => Cardinality(T) = Cardinality(S) - 1
         /\ x \notin S /\ x \in T => Cardinality(T) = Cardinality(S) + 1
         /\ (x \in S <=> x \in T) => T = S
<1>1. CASE x \in S <=> x \in T
  <2>1. T = S
    BY <1>1
  <2> QED BY <1>1, <2>1, FS_CardinalityType
<1>2. CASE x \in S /\ x \notin T
  <2>1. T = S \ {x}
    BY <1>2
  <2> QED BY <1>2, <2>1, FS_RemoveElement, FS_CardinalityType
<1>3. CASE x \notin S /\ x \in T
  <2>1. T = S \cup {x}
    BY <1>3
  <2> QED BY <1>3, <2>1, FS_AddElement, FS_CardinalityType
<1> QED BY <1>1, <1>2, <1>3

\* The table counts as this module does.
LEMMA SameCount == \A S : Table!Cardinality(S) = Cardinality(S)
  BY DEF Table!Cardinality, Cardinality

\* The seats that are taken, and those whose users are connected.
Taken == {i \in Seats : uid[i] # Table!Nobody}
Connected == {i \in Seats : connected[i]}

LEMMA SeatCounts ==
  ASSUME NEW S \in SUBSET Seats
  PROVE  IsFiniteSet(S) /\ Cardinality(S) \in 0 .. Table!Max
<1>1. Table!Max = Cardinality(Seats)
  BY SameCount DEF Table!Max
<1>2. IsFiniteSet(S) /\ Cardinality(S) <= Cardinality(Seats)
  BY TableAssumption, FS_Subset
<1> QED BY <1>1, <1>2, TableAssumption, FS_CardinalityType

SeatsCounted ==
  /\ seated = Cardinality(Taken) /\ online = Cardinality(Connected)
  /\ Cardinality(Table!Seated) = seated

LEMMA SeatedCounted ==
  /\ Table!Counted <=> SeatsCounted
  /\ Table!Counted' <=> SeatsCounted'
  BY SameCount DEF Table!Counted, SeatsCounted, Taken, Connected

Differ(x, y) == IF x = y THEN 0 ELSE 1

\* One seat changes hands or its user loses or regains his connection, and the
\* counters follow.
LEMMA SeatChange ==
  ASSUME Table!Inv,
         NEW me \in Seats, NEW v \in Users \cup {Table!Nobody}, NEW b \in BOOLEAN,
         v = uid[me] \/ v = Table!Nobody \/ (uid[me] = Table!Nobody /\ v \notin Table!Seated),
         b => v # Table!Nobody,
         uid' = [uid EXCEPT ![me] = v], connected' = [connected EXCEPT ![me] = b],
         seated' = seated + Differ(v, Table!Nobody) - Differ(uid[me], Table!Nobody),
         online' = online + Differ(b, FALSE) - Differ(connected[me], FALSE)
  PROVE  /\ uid' \in [Seats -> Users \cup {Table!Nobody}]
         /\ connected' \in [Seats -> BOOLEAN]
         /\ seated' \in 0 .. Table!Max /\ online' \in 0 .. Table!Max
         /\ Table!Counted' /\ Table!OneSeat' /\ Table!OnlineSeated'
<1>1. /\ uid \in [Seats -> Users \cup {Table!Nobody}] /\ connected \in [Seats -> BOOLEAN]
      /\ seated = Cardinality(Taken) /\ online = Cardinality(Connected)
      /\ Cardinality(Table!Seated) = seated
      /\ IsFiniteSet(Taken) /\ IsFiniteSet(Connected) /\ seated \in Nat
  <2>1. Taken \in SUBSET Seats /\ Connected \in SUBSET Seats
    BY DEF Taken, Connected
  <2>2. IsFiniteSet(Taken) /\ IsFiniteSet(Connected)
    BY <2>1, SeatCounts
  <2>3. Cardinality(Taken) \in Nat
    BY <2>2, FS_CardinalityType
  <2>4. SeatsCounted
    BY SeatedCounted DEF Table!Inv
  <2>5. uid \in [Seats -> Users \cup {Table!Nobody}] /\ connected \in [Seats -> BOOLEAN]
    BY DEF Table!Inv, Table!TypeOK
  <2> QED BY <2>2, <2>3, <2>4, <2>5 DEF SeatsCounted
<1>2. /\ uid'[me] = v /\ connected'[me] = b
      /\ \A i \in Seats \ {me} : uid'[i] = uid[i] /\ connected'[i] = connected[i]
  BY <1>1
<1>3. uid' \in [Seats -> Users \cup {Table!Nobody}] /\ connected' \in [Seats -> BOOLEAN]
  BY <1>1
<1>4. Taken \ {me} = Taken' \ {me} /\ Connected \ {me} = Connected' \ {me}
  BY <1>2 DEF Taken, Connected
<1>5. /\ me \in Taken <=> uid[me] # Table!Nobody
      /\ me \in Taken' <=> v # Table!Nobody
      /\ me \in Connected <=> connected[me]
      /\ me \in Connected' <=> b
  BY <1>2 DEF Taken, Connected
<1>6. seated' = Cardinality(Taken')
  BY <1>1, <1>4, <1>5, CountChange DEF Differ
<1>7. online' = Cardinality(Connected')
  BY <1>1, <1>4, <1>5, CountChange DEF Differ
<1>8. Cardinality(Taken') \in 0 .. Table!Max /\ Cardinality(Connected') \in 0 .. Table!Max
  <2>1. Taken' \in SUBSET Seats /\ Connected' \in SUBSET Seats
    BY DEF Taken, Connected
  <2> QED BY <2>1, SeatCounts
<1>9. Table!OneSeat' /\ Table!OnlineSeated'
  BY <1>2 DEF Table!Inv, Table!OneSeat, Table!OnlineSeated, Table!Seated
<1>10. Cardinality(Table!Seated') = seated'
  <2>1. Table!Seated' = {uid'[i] : i \in Seats} \ {Table!Nobody}
    BY DEF Table!Seated
  <2>2. IsFiniteSet(Table!Seated)
    <3> DEFINE T == {uid[i] : i \in Seats}
    <3>1. uid \in Surjection(Seats, T)
      BY <1>1 DEF Surjection
    <3>2. IsFiniteSet(T)
      BY <3>1, TableAssumption, FS_Surjection
    <3> QED BY <3>2, FS_Subset DEF Table!Seated
  <2>3. CASE v = uid[me]
    <3>1. Table!Seated' = Table!Seated
      BY <1>2, <2>1, <2>3 DEF Table!Seated
    <3> QED BY <1>1, <2>3, <3>1 DEF Differ
  <2>4. CASE v # uid[me] /\ v = Table!Nobody
    <3>1. Table!Seated \ {uid[me]} = Table!Seated' \ {uid[me]}
      BY <1>2, <2>1, <2>4 DEF Table!Seated
    <3>2. uid[me] \in Table!Seated /\ uid[me] \notin Table!Seated'
      BY <1>2, <2>1, <2>4 DEF Table!Seated, Table!Inv, Table!OneSeat
    <3> QED BY <1>1, <2>2, <2>4, <3>1, <3>2, CountChange DEF Differ
  <2>5. CASE v # uid[me] /\ uid[me] = Table!Nobody /\ v \notin Table!Seated
    <3>1. Table!Seated \ {v} = Table!Seated' \ {v}
      BY <1>2, <2>1, <2>5 DEF Table!Seated
    <3>2. v \in Table!Seated'
      BY <1>2, <2>1, <2>5 DEF Table!Seated
    <3> QED BY <1>1, <2>2, <2>5, <3>1, <3>2, CountChange DEF Differ
  <2> QED BY <2>3, <2>4, <2>5
<1> QED
  BY <1>3, <1>6, <1>7, <1>8, <1>9, <1>10, SeatedCounted DEF SeatsCounted

\* A user at the table has a seat.
LEMMA SeatOfUser ==
  ASSUME NEW u \in Table!Seated
  PROVE  /\ Table!SeatOf(u) \in Seats /\ uid[Table!SeatOf(u)] = u
         /\ u # Table!Nobody
<1>1. \E i \in Seats : uid[i] = u
  BY DEF Table!Seated
<1> QED BY <1>1 DEF Table!SeatOf, Table!Seated

\* What no step of the game changes.
LEMMA SeatsSame ==
  ASSUME Table!Inv, UNCHANGED Table!people
  PROVE  /\ uid' \in [Seats -> Users \cup {Table!Nobody}]
         /\ connected' \in [Seats -> BOOLEAN]
         /\ seated' \in 0 .. Table!Max /\ online' \in 0 .. Table!Max
         /\ Table!Counted' /\ Table!OneSeat' /\ Table!OnlineSeated'
<1>1. UNCHANGED <<uid, connected, seated, online>>
  BY DEF Table!people
<1>2. SeatsCounted'
  BY <1>1, SeatedCounted DEF Table!Inv, SeatsCounted, Taken, Connected, Table!Seated
<1> QED
  BY <1>1, <1>2, SeatedCounted DEF Table!Inv, Table!TypeOK, Table!OneSeat, Table!OnlineSeated

LEMMA CountsNat ==
  ASSUME Table!Inv
  PROVE  seated \in Nat /\ online \in Nat
<1>1. IsFiniteSet(Taken) /\ IsFiniteSet(Connected)
  <2>1. Taken \in SUBSET Seats /\ Connected \in SUBSET Seats
    BY DEF Taken, Connected
  <2> QED BY <2>1, SeatCounts
<1>2. SeatsCounted
  BY SeatedCounted DEF Table!Inv
<1> QED BY <1>1, <1>2, FS_CardinalityType DEF SeatsCounted

LEMMA JoinStep ==
  ASSUME Table!Inv, NEW u \in Users, Table!Join(u)
  PROVE  Table!Inv'
<1>1. PICK me \in Seats : /\ uid[me] = Table!Nobody
                          /\ uid' = [uid EXCEPT ![me] = u]
                          /\ connected' = [connected EXCEPT ![me] = TRUE]
  BY DEF Table!Join, Table!Free
<1>2. connected[me] = FALSE /\ u # Table!Nobody /\ u \notin Table!Seated
  BY <1>1, TableAssumption DEF Table!Inv, Table!TypeOK, Table!OnlineSeated, Table!Join
<1>3. /\ seated' = seated + Differ(u, Table!Nobody) - Differ(uid[me], Table!Nobody)
      /\ online' = online + Differ(TRUE, FALSE) - Differ(connected[me], FALSE)
  <2>1. seated' = seated + 1 /\ online' = online + 1
    BY DEF Table!Join
  <2>2. seated \in Nat /\ online \in Nat
    BY CountsNat
  <2> QED BY <1>1, <1>2, <2>1, <2>2 DEF Differ
<1>4. /\ uid' \in [Seats -> Users \cup {Table!Nobody}]
      /\ connected' \in [Seats -> BOOLEAN]
      /\ seated' \in 0 .. Table!Max /\ online' \in 0 .. Table!Max
      /\ Table!Counted' /\ Table!OneSeat' /\ Table!OnlineSeated'
  BY <1>1, <1>2, <1>3, SeatChange
<1>5. /\ \/ state' = "READY" /\ ready' = {}
         \/ state' = "JOIN" /\ ready' = ready
      /\ UNCHANGED <<games, dealer, calling, built, ended>>
  BY DEF Table!Join, Table!game
<1>6. Table!TypeOK'
  BY <1>4, <1>5 DEF Table!Inv, Table!TypeOK
<1> QED BY <1>4, <1>5, <1>6 DEF Table!Inv, Table!PlaysFull, Table!ReadyOnline

\* The seat of a user who is at the table, when his connection changes or he
\* leaves.
LEMMA ConnectionStep ==
  ASSUME Table!Inv, NEW u \in Users,
         Table!Rejoin(u) \/ Table!Afk(u) \/ Table!Leave(u)
  PROVE  Table!Inv'
<1> DEFINE me == Table!SeatOf(u)
<1>1. me \in Seats /\ uid[me] = u /\ u # Table!Nobody
  BY SeatOfUser DEF Table!Rejoin, Table!Afk, Table!Leave
<1>2. /\ uid \in [Seats -> Users \cup {Table!Nobody}] /\ connected \in [Seats -> BOOLEAN]
      /\ seated \in Nat /\ online \in Nat
  BY CountsNat DEF Table!Inv, Table!TypeOK
<1>3. \/ /\ ~connected[me]
         /\ connected' = [connected EXCEPT ![me] = TRUE] /\ uid' = uid
         /\ seated' = seated /\ online' = online + 1
         /\ \/ state' = "READY" /\ ready' = {}
            \/ UNCHANGED <<state, ready>>
      \/ /\ connected[me]
         /\ connected' = [connected EXCEPT ![me] = FALSE] /\ uid' = uid
         /\ seated' = seated /\ online' = online - 1
         /\ state' = "JOIN" /\ ready' = ready
      \/ /\ connected[me]
         /\ connected' = [connected EXCEPT ![me] = FALSE]
         /\ uid' = [uid EXCEPT ![me] = Table!Nobody]
         /\ seated' = seated - 1 /\ online' = online - 1
         /\ state' = "JOIN" /\ ready' = ready
  BY DEF Table!Rejoin, Table!Afk, Table!Leave
<1> HIDE DEF me
<1>4. uid = [uid EXCEPT ![me] = u]
  BY <1>1, <1>2
<1>5. /\ uid' \in [Seats -> Users \cup {Table!Nobody}]
      /\ connected' \in [Seats -> BOOLEAN]
      /\ seated' \in 0 .. Table!Max /\ online' \in 0 .. Table!Max
      /\ Table!Counted' /\ Table!OneSeat' /\ Table!OnlineSeated'
  <2>1. CASE connected[me] = FALSE
    <3>1. /\ uid' = [uid EXCEPT ![me] = u] /\ connected' = [connected EXCEPT ![me] = TRUE]
          /\ seated' = seated /\ online' = online + 1
      BY <1>3, <1>4, <2>1
    <3>2. /\ seated' = seated + Differ(u, Table!Nobody) - Differ(uid[me], Table!Nobody)
          /\ online' = online + Differ(TRUE, FALSE) - Differ(connected[me], FALSE)
      BY <1>1, <1>2, <2>1, <3>1 DEF Differ
    <3> QED BY <1>1, <3>1, <3>2, SeatChange
  <2>2. CASE connected[me] = TRUE
    <3>1. PICK v \in {u, Table!Nobody} :
             /\ uid' = [uid EXCEPT ![me] = v] /\ connected' = [connected EXCEPT ![me] = FALSE]
             /\ seated' = seated + Differ(v, Table!Nobody) - 1 /\ online' = online - 1
      BY <1>1, <1>2, <1>3, <1>4, <2>2 DEF Differ
    <3>2. /\ seated' = seated + Differ(v, Table!Nobody) - Differ(uid[me], Table!Nobody)
          /\ online' = online + Differ(FALSE, FALSE) - Differ(connected[me], FALSE)
      BY <1>1, <1>2, <2>2, <3>1 DEF Differ
    <3> QED BY <1>1, <3>1, <3>2, SeatChange
  <2> QED BY <1>1, <1>2, <2>1, <2>2
<1>6. UNCHANGED <<games, dealer, calling, built, ended>>
  BY DEF Table!Rejoin, Table!Afk, Table!Leave, Table!game
<1>7. Table!TypeOK'
  BY <1>3, <1>5, <1>6 DEF Table!Inv, Table!TypeOK
<1>8. Table!PlaysFull' /\ Table!ReadyOnline'
  <2>1. CASE state' \in {"JOIN", "READY"} /\ (state' = "READY" => ready' = {})
    BY <2>1 DEF Table!PlaysFull, Table!ReadyOnline
  <2>2. CASE state' = state /\ ready' = ready /\ uid' = uid
             /\ connected' = [connected EXCEPT ![me] = TRUE]
    BY <1>1, <1>2, <2>2 DEF Table!Inv, Table!PlaysFull, Table!ReadyOnline, Table!TypeOK
  <2> QED BY <1>3, <2>1, <2>2
<1> QED BY <1>5, <1>7, <1>8 DEF Table!Inv

\* The shuffle begins when every seat has a user who is connected and ready.
LEMMA ReadyStep ==
  ASSUME Table!Inv, NEW i \in Seats, Table!Ready(i)
  PROVE  Table!Inv'
<1>1. UNCHANGED Table!people /\ state = "READY" /\ connected[i] /\ games < MaxJu
  BY DEF Table!Ready
<1>2. /\ Table!Counted' /\ Table!OneSeat' /\ Table!OnlineSeated'
      /\ uid' \in [Seats -> Users \cup {Table!Nobody}] /\ connected' \in [Seats -> BOOLEAN]
      /\ seated' \in 0 .. Table!Max /\ online' \in 0 .. Table!Max
      /\ uid' = uid /\ connected' = connected
  BY <1>1, SeatsSame DEF Table!people
<1>3. CASE ready \cup {i} # Seats
  <2>1. ready' = ready \cup {i} /\ UNCHANGED <<state, games, dealer, calling, built, ended>>
    BY <1>3 DEF Table!Ready, Table!game
  <2>2. Table!TypeOK'
    BY <1>2, <2>1 DEF Table!Inv, Table!TypeOK
  <2> QED
    BY <1>1, <1>2, <2>1, <2>2 DEF Table!Inv, Table!PlaysFull, Table!ReadyOnline
<1>4. CASE ready \cup {i} = Seats
  <2>1. /\ state' = "SHUFFLE" /\ ready' = {} /\ games' = games + 1 /\ ended' = "not"
        /\ calling' \in {TRUE, calling} /\ built' \in BOOLEAN /\ dealer' \in {0, dealer}
    BY <1>4 DEF Table!Ready, Table!TakeShuffle, Table!BuildWalls
  <2>2. games' \in 0 .. MaxJu
    <3>1. games \in 0 .. MaxJu
      BY DEF Table!Inv, Table!TypeOK
    <3> QED BY <1>1, <2>1, <3>1, TableAssumption
  <2>3. Table!TypeOK'
    BY <1>2, <2>1, <2>2 DEF Table!Inv, Table!TypeOK
  <2>4. \A j \in Seats : connected[j] /\ uid[j] # Table!Nobody
    BY <1>1, <1>4 DEF Table!Inv, Table!ReadyOnline, Table!OnlineSeated
  <2> QED
    BY <1>2, <2>1, <2>3, <2>4 DEF Table!Inv, Table!PlaysFull, Table!ReadyOnline
<1> QED BY <1>3, <1>4

\* The other steps of the game leave the seats and, but for the next step of a
\* game that goes on, the state.
LEMMA GameStep ==
  ASSUME Table!Inv, Table!ShuffleGoesOn \/ \E i \in Seats : Table!Step(i)
  PROVE  Table!Inv'
<1>1. UNCHANGED Table!people
  BY DEF Table!ShuffleGoesOn, Table!Step
<1>2. /\ Table!Counted' /\ Table!OneSeat' /\ Table!OnlineSeated'
      /\ uid' \in [Seats -> Users \cup {Table!Nobody}] /\ connected' \in [Seats -> BOOLEAN]
      /\ seated' \in 0 .. Table!Max /\ online' \in 0 .. Table!Max
      /\ uid' = uid /\ connected' = connected
  BY <1>1, SeatsSame DEF Table!people
<1>3. CASE Table!ShuffleGoesOn
  <2>1. /\ UNCHANGED <<state, ready, games, ended>> /\ calling' = FALSE /\ built' \in {TRUE, built}
        /\ dealer' \in Seats \cup {dealer}
    BY <1>3, SeatOfUser DEF Table!ShuffleGoesOn, Table!BuildWalls
  <2>2. Table!TypeOK'
    BY <1>2, <2>1 DEF Table!Inv, Table!TypeOK
  <2> QED
    BY <1>2, <2>1, <2>2 DEF Table!Inv, Table!PlaysFull, Table!ReadyOnline
<1>4. CASE \E i \in Seats : Table!Step(i)
  <2>1. PICK i \in Seats : Table!Step(i)
    BY <1>4
  <2>2. /\ UNCHANGED <<games, dealer, calling, built>>
        /\ state \in {"SHUFFLE", "DICE"} /\ state' \in {"SHUFFLE", "DICE", "DEAL"}
        /\ ready' \in {{}, ready \cup {i}}
        /\ ended' \in {ended, "no tile", "no dealer", "ok"}
    BY <2>1 DEF Table!Step, Table!TakeDeal
  <2>3. Table!TypeOK'
    BY <1>2, <2>2 DEF Table!Inv, Table!TypeOK
  <2> QED
    BY <1>2, <2>2, <2>3 DEF Table!Inv, Table!PlaysFull, Table!ReadyOnline
<1> QED BY <1>3, <1>4

\* The counters of a table are those of its seats and a game goes on at a full
\* table only, for any number of seats and users who come, go and return.
THEOREM TableTheorem == Table!Spec => []TableCounts
<1>1. Table!Init => Table!Inv
  <2> SUFFICES ASSUME Table!Init PROVE Table!Inv
    OBVIOUS
  <2>1. /\ Taken = {} /\ Connected = {} /\ Table!Seated = {}
    BY DEF Table!Init, Taken, Connected, Table!Seated
  <2>2. SeatsCounted
    BY <2>1, FS_EmptySet DEF Table!Init, SeatsCounted
  <2>3. Cardinality({}) \in 0 .. Table!Max
    BY SeatCounts
  <2>4. Table!TypeOK
    <3>1. seated \in 0 .. Table!Max /\ online \in 0 .. Table!Max
      BY <2>3, FS_EmptySet DEF Table!Init
    <3>2. games \in 0 .. MaxJu
      BY TableAssumption DEF Table!Init
    <3>3. /\ uid \in [Seats -> Users \cup {Table!Nobody}]
          /\ connected \in [Seats -> BOOLEAN] /\ ready \subseteq Seats
      BY DEF Table!Init
    <3> QED BY <3>1, <3>2, <3>3 DEF Table!Init, Table!TypeOK
  <2> QED
    BY <2>2, <2>4, SeatedCounted
       DEF Table!Init, Table!Inv, Table!PlaysFull, Table!OneSeat, Table!OnlineSeated, Table!ReadyOnline
<1>2. ASSUME Table!Inv, [Table!Next]_Table!vars PROVE Table!Inv'
  <2>1. CASE UNCHANGED Table!vars
    <3>1. UNCHANGED Table!people /\ UNCHANGED <<state, ready, games, dealer, calling, built, ended>>
      BY <2>1 DEF Table!vars, Table!people
    <3>2. Table!Counted' /\ Table!OneSeat' /\ Table!OnlineSeated' /\ UNCHANGED <<uid, connected, seated, online>>
      BY <1>2, <3>1, SeatsSame DEF Table!people
    <3> QED
      BY <1>2, <3>1, <3>2 DEF Table!Inv, Table!TypeOK, Table!PlaysFull, Table!ReadyOnline
  <2>2. CASE Table!Next
    BY <1>2, <2>2, JoinStep, ConnectionStep, ReadyStep, GameStep DEF Table!Next
  <2> QED BY <1>2, <2>1, <2>2
<1>3. Table!Inv => TableCounts
  BY DEF Table!Inv, TableCounts
<1> QED BY <1>1, <1>2, <1>3, PTL DEF Table!Spec

-----------------------------------------------------------------------------
(***************************************************************************)
(* The deal, for walls of any length and any number of rounds.             *)
(***************************************************************************)

\* A tile is a player and a place in his wall.
Tile == {x \in (1 .. 4) \X Nat : x[2] \in 1 .. Deal!LenOf(x[1])}

\* The wall of s was opened at place o: the walls are taken in the order of
\* their laps, and the tiles of s before o are those of the last one.
Lap(s, o, p, j) == IF p = s /\ j < o THEN 4 ELSE (s - p + 4) % 4

\* The walls w, of which c is in use after k changes at the places n.
Walls(s, o, w, n, c, k) ==
  /\ s \in 1 .. 4 /\ o \in 3 .. 13
  /\ c \in 1 .. 4 /\ k \in 0 .. 4 /\ (s - c + 4) % 4 = k % 4
  /\ \A p \in 1 .. 4 :
        /\ w[p] \subseteq 1 .. Deal!LenOf(p) /\ n[p] \in 1 .. Deal!LenOf(p) + 1
        /\ \A j \in 1 .. Deal!LenOf(p) :
              j \in w[p] <=> (\/ Lap(s, o, p, j) > k
                             \/ (Lap(s, o, p, j) = k /\ j >= n[c]))
        /\ p # c /\ (p = s \/ (s - p + 4) % 4 > k) => n[p] = 1
  /\ (k = 0 => n[c] >= o) /\ (k = 4 => n[c] <= o)

\* The tiles that the m-th player after the dealer has got when n are dealt.
Share(n, m) ==
  IF n <= 16 * Rounds
  THEN 4 * (n \div 16) + (IF m < (n % 16) \div 4 THEN 4
                          ELSE IF m = (n % 16) \div 4 THEN n % 4 ELSE 0)
  ELSE 4 * Rounds + (IF m < n - 16 * Rounds THEN 1 ELSE 0)
                  + (IF m = 0 /\ n = 16 * Rounds + 5 THEN 1 ELSE 0)

Shared == \A q \in 1 .. 4 : Cardinality(hands[q]) = Share(dealt, (q - firstidx + 4) % 4)

HandsSum == Cardinality(hands[1]) + Cardinality(hands[2]) + Cardinality(hands[3])
              + Cardinality(hands[4])

\* Every tile is in a wall or in one hand.
Parted ==
  /\ \A q \in 1 .. 4 : hands[q] \subseteq Tile /\ IsFiniteSet(hands[q])
  /\ \A p \in 1 .. 4 : \A j \in 1 .. Deal!LenOf(p) :
        j \notin walls[p] <=> \E q \in 1 .. 4 : <<p, j>> \in hands[q]
  /\ \A q, r \in 1 .. 4 : q # r => hands[q] \cap hands[r] = {}

DealInv ==
  /\ Deal!TypeOK /\ walls \in [1 .. 4 -> SUBSET Nat] /\ next \in [1 .. 4 -> Nat]
  /\ hands \in [1 .. 4 -> SUBSET Tile] /\ Parted
  /\ phase = "dice" => /\ walls = [p \in 1 .. 4 |-> 1 .. Deal!LenOf(p)]
                       /\ next = [p \in 1 .. 4 |-> 1]
                       /\ takepoint = 0 /\ dealt = 0
  /\ phase \in {"deal", "turn"} =>
        \E s \in 1 .. 4, o \in 3 .. 13 : Walls(s, o, walls, next, curtake, takepoint)
  /\ phase \in {"dice", "deal"} => dealt < 16 * Rounds + 5 /\ Shared
  /\ phase = "turn" => /\ dealt = 16 * Rounds + 5
                       /\ (HandsSum > dealt \/ Shared)
  /\ phase = "over" => \A p \in 1 .. 4 : walls[p] = {}
  /\ phase # "failed"
LEMMA DealFacts ==
  /\ \A S : Deal!Cardinality(S) = Cardinality(S)
  /\ Deal!Max = 4 /\ Deal!DealSize = 16 * Rounds + 5
  /\ Deal!LenOf(1) = Long /\ Deal!LenOf(2) = Long
  /\ Deal!LenOf(3) = Short /\ Deal!LenOf(4) = Short
  /\ \A p \in 1 .. 4 : Deal!LenOf(p) \in Nat /\ Deal!LenOf(p) >= 12
<1>1. \A S : Deal!Cardinality(S) = Cardinality(S)
  BY DEF Deal!Cardinality, Cardinality
<1>2. Cardinality(1 .. 4) = 4
  <2>1. \A n \in Nat : Cardinality(1 .. n) = n
    <3> SUFFICES ASSUME NEW n \in Nat PROVE Cardinality(1 .. n) = n
      OBVIOUS
    <3>1. 1 \in Int /\ n \in Int
      OBVIOUS
    <3> QED BY <3>1, FS_Interval
  <2> QED BY <2>1
<1>3. Deal!Max = 4
  BY <1>1, <1>2 DEF Deal!Max
<1>4. Deal!DealSize = 16 * Rounds + 5
  BY <1>3, DealAssumption DEF Deal!DealSize
<1>5. \A p \in 1 .. 4 : Deal!LenOf(p) = IF p <= 2 THEN Long ELSE Short
  BY <1>3 DEF Deal!LenOf
<1> QED BY <1>1, <1>3, <1>4, <1>5, DealAssumption

\* A taking, from its parts.
Took(w, n, c, k, x) == [walls |-> w, next |-> n, curtake |-> c, takepoint |-> k, tile |-> x]

LEMMA TookIs ==
  ASSUME NEW w, NEW n, NEW c, NEW k, NEW x
  PROVE  LET t == Took(w, n, c, k, x)
         IN  /\ t.walls = w /\ t.next = n /\ t.curtake = c /\ t.takepoint = k /\ t.tile = x
             /\ Deal!NextWall(t) = Took(w, n, Deal!CountDown(c), k + 1, x)
             /\ \A y : [t EXCEPT !.tile = y] = Took(w, n, c, k, y)
<1> DEFINE t == Took(w, n, c, k, x)
<1>1. t.walls = w /\ t.next = n /\ t.curtake = c /\ t.takepoint = k /\ t.tile = x
  BY DEF Took
<1>2. Deal!NextWall(t) = Took(w, n, Deal!CountDown(c), k + 1, x)
  <2>1. Deal!NextWall(t) = [t EXCEPT !.curtake = Deal!CountDown(c), !.takepoint = k + 1]
    BY <1>1 DEF Deal!NextWall
  <2> QED BY <2>1 DEF Took
<1>3. \A y : [t EXCEPT !.tile = y] = Took(w, n, c, k, y)
  BY DEF Took
<1> QED BY <1>1, <1>2, <1>3

\* What player.take_card leaves: of an empty wall, at its end, and else.
TakenHere(w, n, c, k) ==
  IF w[c] = {} THEN Took(w, n, c, k, Deal!NoTile)
  ELSE IF n[c] > Deal!LenOf(c) THEN Took(w, [n EXCEPT ![c] = 1], c, k, Deal!NoTile)
  ELSE Took([w EXCEPT ![c] = @ \ {n[c]}], [n EXCEPT ![c] = n[c] + 1], c, k, <<c, n[c]>>)

\* What player.take_card does with the places of a wall.
LEMMA FromWallIs ==
  ASSUME NEW w, NEW n \in [1 .. 4 -> Nat], NEW c \in 1 .. 4, NEW k,
         w \in [1 .. 4 -> SUBSET Nat]
  PROVE  Deal!FromWall(Took(w, n, c, k, Deal!NoTile)) = TakenHere(w, n, c, k)
<1> USE DEF TakenHere
<1> DEFINE t == Took(w, n, c, k, Deal!NoTile)
<1>1. t.walls = w /\ t.next = n /\ t.curtake = c /\ t.takepoint = k
  BY DEF Took
<1>2. CASE w[c] = {}
  BY <1>1, <1>2 DEF Deal!FromWall
<1>3. CASE w[c] # {} /\ n[c] > Deal!LenOf(c)
  <2>1. Deal!FromWall(t) = [t EXCEPT !.next = [n EXCEPT ![c] = 1]]
    BY <1>3 DEF Deal!FromWall, Took
  <2> QED BY <1>3, <2>1 DEF Took
<1>4. CASE w[c] # {} /\ ~ (n[c] > Deal!LenOf(c))
  <2>1. Deal!FromWall(t) = [t EXCEPT !.walls = [w EXCEPT ![c] = w[c] \ {n[c]}],
                                     !.next = [n EXCEPT ![c] = n[c] + 1], !.tile = <<c, n[c]>>]
    BY <1>4 DEF Deal!FromWall, Took
  <2> QED BY <1>4, <2>1 DEF Took
<1> QED BY <1>2, <1>3, <1>4

\* There is a tile at the place in use.
LEMMA HereTaken ==
  ASSUME NEW s, NEW o, NEW w \in [1 .. 4 -> SUBSET Nat], NEW n \in [1 .. 4 -> Nat], NEW c, NEW k,
         Walls(s, o, w, n, c, k), w[c] # {}, ~ (n[c] > Deal!LenOf(c))
  PROVE  /\ n[c] \in 1 .. Deal!LenOf(c) /\ n[c] \in w[c]
         /\ Walls(s, o, [w EXCEPT ![c] = @ \ {n[c]}], [n EXCEPT ![c] = n[c] + 1], c, k)
<1>1. /\ s \in 1 .. 4 /\ o \in 3 .. 13 /\ c \in 1 .. 4 /\ k \in 0 .. 4
      /\ (s - c + 4) % 4 = k % 4
      /\ (k = 0 => n[c] >= o) /\ (k = 4 => n[c] <= o)
  BY DEF Walls
<1>2. \A p \in 1 .. 4 : /\ Deal!LenOf(p) \in Nat /\ w[p] \subseteq 1 .. Deal!LenOf(p)
                        /\ n[p] \in 1 .. Deal!LenOf(p) + 1
  BY DealFacts DEF Walls
<1>3. \A p \in 1 .. 4 : \A j \in 1 .. Deal!LenOf(p) :
        j \in w[p] <=> (Lap(s, o, p, j) > k \/ (Lap(s, o, p, j) = k /\ j >= n[c]))
  BY DEF Walls
<1>4. \A p \in 1 .. 4 : p # c /\ (p = s \/ (s - p + 4) % 4 > k) => n[p] = 1
  BY DEF Walls
<1>5. n[c] \in 1 .. Deal!LenOf(c)
  BY <1>1, <1>2
<1>6. \A p \in 1 .. 4 : \A j \in Nat :
        /\ Lap(s, o, p, j) \in 0 .. 4
        /\ Lap(s, o, p, j) = k => p = c
        /\ Lap(s, o, c, j) > k => k = 0 /\ c = s /\ j < o
        /\ p = c /\ ~ (Lap(s, o, p, j) > k) => (Lap(s, o, p, j) = k \/ (k = 4 /\ j >= o))
  BY <1>1 DEF Lap
<1>7. n[c] \in w[c] /\ (k = 4 => n[c] < o)
  <2>1. CASE k = 4
    <3>1. PICK j \in 1 .. Deal!LenOf(c) : j \in w[c]
      BY <1>1, <1>2
    <3>2. j < o /\ j >= n[c]
      BY <1>1, <1>3, <1>6, <2>1, <3>1 DEF Lap
    <3>3. Lap(s, o, c, n[c]) = 4
      BY <1>1, <1>2, <2>1, <3>1, <3>2 DEF Lap
    <3> QED BY <1>1, <1>2, <1>3, <1>5, <2>1, <3>1, <3>2, <3>3
  <2>2. CASE k # 4
    <3>1. Lap(s, o, c, n[c]) = k
      BY <1>1, <1>2, <1>5, <2>2 DEF Lap
    <3> QED BY <1>1, <1>2, <1>3, <1>5, <2>2, <3>1
  <2> QED BY <2>1, <2>2
<1> DEFINE w2 == [w EXCEPT ![c] = w[c] \ {n[c]}]  n2 == [n EXCEPT ![c] = n[c] + 1]
<1>8. /\ n2[c] = n[c] + 1 /\ w2[c] = w[c] \ {n[c]}
      /\ \A p \in 1 .. 4 : p # c => n2[p] = n[p]
      /\ \A p \in 1 .. 4 : p # c => w2[p] = w[p]
  BY <1>1
<1> HIDE DEF w2, n2
<1>9. ASSUME NEW p \in 1 .. 4, NEW j \in 1 .. Deal!LenOf(p)
      PROVE  j \in w2[p] <=> (Lap(s, o, p, j) > k \/ (Lap(s, o, p, j) = k /\ j >= n2[c]))
  <2>1. j \in Nat /\ n[c] \in Nat
    BY <1>1, <1>2
  <2>2. Lap(s, o, p, j) = k => p = c
    BY <1>6, <2>1
  <2>3. p = c => ~ (Lap(s, o, p, n[c]) > k)
    BY <1>1, <1>6, <2>1
  <2>4. CASE p # c
    <3>1. w2[p] = w[p] /\ Lap(s, o, p, j) # k
      BY <1>8, <2>2, <2>4
    <3> QED BY <1>3, <3>1
  <2>5. CASE p = c /\ j # n[c]
    BY <1>3, <1>8, <2>1, <2>5
  <2>6. CASE p = c /\ j = n[c]
    BY <1>1, <1>8, <2>1, <2>3, <2>6
  <2> QED BY <2>4, <2>5, <2>6
<1>10. \A p \in 1 .. 4 : w2[p] \subseteq 1 .. Deal!LenOf(p) /\ n2[p] \in 1 .. Deal!LenOf(p) + 1
  <2> SUFFICES ASSUME NEW p \in 1 .. 4
               PROVE  w2[p] \subseteq 1 .. Deal!LenOf(p) /\ n2[p] \in 1 .. Deal!LenOf(p) + 1
    OBVIOUS
  <2>1. CASE p = c
    BY <1>2, <1>5, <1>8, <2>1
  <2>2. CASE p # c
    BY <1>2, <1>8, <2>2
  <2> QED BY <2>1, <2>2
<1>11. Walls(s, o, w2, n2, c, k)
  <2>1. (k = 0 => n2[c] >= o) /\ (k = 4 => n2[c] <= o)
    BY <1>1, <1>5, <1>7, <1>8
  <2>2. \A p \in 1 .. 4 : p # c /\ (p = s \/ (s - p + 4) % 4 > k) => n2[p] = 1
    <3> SUFFICES ASSUME NEW p \in 1 .. 4, p # c, p = s \/ (s - p + 4) % 4 > k PROVE n2[p] = 1
      OBVIOUS
    <3>1. n[p] = 1
      BY <1>4
    <3> QED BY <1>8, <3>1
  <2> QED BY <1>1, <1>9, <1>10, <2>1, <2>2 DEF Walls
<1> QED BY <1>1, <1>5, <1>7, <1>11 DEF w2, n2

\* The places, when the wall c has no tile at its place.
Restarted(w, n, c) == IF w[c] = {} THEN n ELSE [n EXCEPT ![c] = 1]

\* The wall in use has no tile left, or none but those before its opening.
LEMMA MovedOn ==
  ASSUME NEW s, NEW o, NEW w \in [1 .. 4 -> SUBSET Nat], NEW n \in [1 .. 4 -> Nat], NEW c, NEW k,
         Walls(s, o, w, n, c, k), k # 4, w[c] = {} \/ n[c] > Deal!LenOf(c)
  PROVE  /\ Walls(s, o, w, Restarted(w, n, c), Deal!CountDown(c), k + 1)
         /\ Restarted(w, n, c)[Deal!CountDown(c)] = 1 /\ w[Deal!CountDown(c)] # {}
<1> DEFINE m == Restarted(w, n, c)
<1>1. /\ s \in 1 .. 4 /\ o \in 3 .. 13 /\ c \in 1 .. 4 /\ k \in 0 .. 3
      /\ (s - c + 4) % 4 = k % 4 /\ (k = 0 => n[c] >= o)
  BY DEF Walls
<1>2. \A p \in 1 .. 4 : /\ Deal!LenOf(p) \in Nat /\ Deal!LenOf(p) >= 12
                        /\ w[p] \subseteq 1 .. Deal!LenOf(p)
                        /\ n[p] \in 1 .. Deal!LenOf(p) + 1
  BY DealFacts DEF Walls
<1>3. \A p \in 1 .. 4 : \A j \in 1 .. Deal!LenOf(p) :
        j \in w[p] <=> (Lap(s, o, p, j) > k \/ (Lap(s, o, p, j) = k /\ j >= n[c]))
  BY DEF Walls
<1>4. \A p \in 1 .. 4 : p # c /\ (p = s \/ (s - p + 4) % 4 > k) => n[p] = 1
  BY DEF Walls
<1>5. n[c] = Deal!LenOf(c) + 1
  <2>1. SUFFICES ASSUME n[c] \in 1 .. Deal!LenOf(c) PROVE n[c] \in w[c]
    BY <1>1, <1>2
  <2>2. Lap(s, o, c, n[c]) = k
    BY <1>1, <1>2, <2>1 DEF Lap
  <2> QED BY <1>1, <1>2, <1>3, <2>1, <2>2
<1> DEFINE d == Deal!CountDown(c)
<1>6. d = IF c = 1 THEN 4 ELSE c - 1
  BY DealFacts DEF Deal!CountDown
<1> HIDE DEF d
<1>7. d \in 1 .. 4 /\ d # c /\ (s - d + 4) % 4 = (k + 1) % 4 /\ (k = 3 => d = s) /\ (k # 3 => d # s)
  BY <1>1, <1>6
<1>8. /\ m \in [1 .. 4 -> Nat] /\ \A p \in 1 .. 4 : p # c => m[p] = n[p]
      /\ m[c] = 1 \/ (m[c] = n[c] /\ w[c] = {})
  BY <1>1 DEF Restarted
<1> HIDE DEF m
<1>9. c = s => m[c] = 1
  <2> SUFFICES ASSUME c = s PROVE 1 \in w[c]
    BY <1>8
  <2>1. Lap(s, o, c, 1) = 4 /\ 1 \in 1 .. Deal!LenOf(c)
    BY <1>1, <1>2 DEF Lap
  <2> QED BY <1>1, <1>3, <2>1
<1>10. m[d] = 1
  BY <1>1, <1>4, <1>7, <1>8
<1>11. \A p \in 1 .. 4 : m[p] \in 1 .. Deal!LenOf(p) + 1
  BY <1>1, <1>2, <1>8
<1>12. ASSUME NEW p \in 1 .. 4, NEW j \in 1 .. Deal!LenOf(p)
       PROVE  j \in w[p] <=> (Lap(s, o, p, j) > k + 1 \/ (Lap(s, o, p, j) = k + 1 /\ j >= m[d]))
  <2>1. j \in Nat /\ Lap(s, o, p, j) \in 0 .. 4 /\ (Lap(s, o, p, j) = k => p = c)
    BY <1>1, <1>2 DEF Lap
  <2>2. Lap(s, o, p, j) = k => ~ (j >= n[c])
    BY <1>1, <1>2, <1>5, <2>1
  <2> QED BY <1>1, <1>3, <1>10, <2>1, <2>2
<1>13. \A p \in 1 .. 4 : p # d /\ (p = s \/ (s - p + 4) % 4 > k + 1) => m[p] = 1
  <2> SUFFICES ASSUME NEW p \in 1 .. 4, p # d, p = s \/ (s - p + 4) % 4 > k + 1
               PROVE  m[p] = 1
    OBVIOUS
  <2>1. CASE p = c
    BY <1>1, <1>9, <2>1
  <2>2. CASE p # c
    BY <1>1, <1>4, <1>8, <2>2
  <2> QED BY <2>1, <2>2
<1>14. Walls(s, o, w, m, d, k + 1)
  BY <1>1, <1>2, <1>7, <1>10, <1>11, <1>12, <1>13 DEF Walls
<1>15. w[d] # {}
  <2>1. Lap(s, o, d, 1) = k + 1 /\ 1 \in 1 .. Deal!LenOf(d)
    BY <1>1, <1>2, <1>7 DEF Lap
  <2> QED BY <1>7, <1>10, <1>12, <2>1
<1> QED BY <1>10, <1>14, <1>15 DEF d, m

\* The tiles before the opening are taken too.
LEMMA AllGone ==
  ASSUME NEW s, NEW o, NEW w \in [1 .. 4 -> SUBSET Nat], NEW n \in [1 .. 4 -> Nat], NEW c,
         Walls(s, o, w, n, c, 4), w[c] = {} \/ n[c] > Deal!LenOf(c)
  PROVE  \A p \in 1 .. 4 : w[p] = {}
<1>1. s \in 1 .. 4 /\ o \in 3 .. 13 /\ c \in 1 .. 4 /\ c = s /\ n[c] <= o
  BY DEF Walls
<1>2. \A p \in 1 .. 4 : Deal!LenOf(p) \in Nat /\ w[p] \subseteq 1 .. Deal!LenOf(p)
  BY DealFacts DEF Walls
<1>3. \A p \in 1 .. 4 : \A j \in 1 .. Deal!LenOf(p) :
        j \in w[p] <=> (Lap(s, o, p, j) > 4 \/ (Lap(s, o, p, j) = 4 /\ j >= n[c]))
  BY DEF Walls
<1>4. SUFFICES ASSUME NEW p \in 1 .. 4, NEW j \in w[p] PROVE FALSE
  OBVIOUS
<1>5. j \in 1 .. Deal!LenOf(p) /\ j \in Nat
  BY <1>2
<1>6. ~ (Lap(s, o, p, j) > 4) /\ (Lap(s, o, p, j) = 4 => p = s)
  BY <1>1, <1>5 DEF Lap
<1>7. p = c /\ j >= n[c]
  BY <1>1, <1>3, <1>5, <1>6
<1> QED BY <1>1, <1>2, <1>5, <1>7

\* rcontext.take_card takes one tile that is left, or says that none is when
\* the walls are empty.
LEMMA TakeCardIs ==
  ASSUME NEW s, NEW o, walls \in [1 .. 4 -> SUBSET Nat], next \in [1 .. 4 -> Nat],
         Walls(s, o, walls, next, curtake, takepoint)
  PROVE  LET t == Deal!TakeCard(Deal!Taking)
         IN  /\ t.next \in [1 .. 4 -> Nat] /\ t.walls \in [1 .. 4 -> SUBSET Nat]
             /\ \/ \E p \in 1 .. 4 : \E j \in 1 .. Deal!LenOf(p) :
                     /\ t.tile = <<p, j>> /\ t.tile # Deal!NoTile
                     /\ j \in walls[p] /\ t.walls = [walls EXCEPT ![p] = @ \ {j}]
                     /\ Walls(s, o, t.walls, t.next, t.curtake, t.takepoint)
                \/ /\ t.tile = Deal!NoTile /\ t.walls = walls /\ t.next = next
                   /\ t.curtake \in 1 .. 4 /\ t.takepoint = 5
                   /\ \A p \in 1 .. 4 : walls[p] = {}
<1> DEFINE c == curtake  k == takepoint  d == Deal!CountDown(c)
           t == Deal!TakeCard(Deal!Taking)
           here == Deal!FromWall(Deal!Taking)
<1>1. c \in 1 .. 4 /\ k \in 0 .. 4 /\ \A q \in 1 .. 4 : Deal!LenOf(q) \in Nat
  BY DealFacts DEF Walls
<1>2. \A q \in 1 .. 4 : \A j \in 1 .. Deal!LenOf(q) : <<q, j>> # Deal!NoTile
  BY DEF Deal!NoTile
<1>3. d \in 1 .. 4
  BY <1>1, DealFacts DEF Deal!CountDown
<1>4. [Deal!Taking EXCEPT !.tile = Deal!NoTile] = Deal!Taking
      /\ Deal!Taking = Took(walls, next, c, k, Deal!NoTile)
  BY DEF Deal!Taking, Took
<1>5. here = IF walls[c] = {} THEN Took(walls, next, c, k, Deal!NoTile)
             ELSE IF next[c] > Deal!LenOf(c) THEN Took(walls, [next EXCEPT ![c] = 1], c, k, Deal!NoTile)
             ELSE Took([walls EXCEPT ![c] = @ \ {next[c]}], [next EXCEPT ![c] = next[c] + 1], c, k,
                    <<c, next[c]>>)
  <2>1. Deal!FromWall(Took(walls, next, c, k, Deal!NoTile)) = TakenHere(walls, next, c, k)
    BY <1>1, FromWallIs
  <2> QED BY <1>4, <2>1, Zenon DEF TakenHere
<1>6. t = IF here.tile # Deal!NoTile THEN here
          ELSE IF Deal!NextWall(here).takepoint >= 6 THEN Deal!NextWall(here)
          ELSE Deal!FromWall(Deal!NextWall(here))
  BY <1>4, DealFacts DEF Deal!TakeCard
<1>7. \A w, n : Deal!NextWall(Took(w, n, c, k, Deal!NoTile)) = Took(w, n, d, k + 1, Deal!NoTile)
  BY TookIs
<1> HIDE DEF c, k, t, here, d
<1>8. CASE walls[c] # {} /\ ~ (next[c] > Deal!LenOf(c))
  <2>1. /\ next[c] \in 1 .. Deal!LenOf(c) /\ next[c] \in walls[c]
        /\ Walls(s, o, [walls EXCEPT ![c] = @ \ {next[c]}], [next EXCEPT ![c] = next[c] + 1], c, k)
    BY <1>8, HereTaken DEF c, k
  <2>2. t = Took([walls EXCEPT ![c] = @ \ {next[c]}], [next EXCEPT ![c] = next[c] + 1], c, k,
              <<c, next[c]>>)
    <3>1. here = Took([walls EXCEPT ![c] = @ \ {next[c]}], [next EXCEPT ![c] = next[c] + 1], c, k,
                      <<c, next[c]>>)
      BY <1>5, <1>8
    <3>2. here.tile # Deal!NoTile
      BY <1>1, <1>2, <2>1, <3>1, TookIs
    <3> QED BY <1>6, <3>1, <3>2
  <2>3. /\ t.tile = <<c, next[c]>> /\ t.walls = [walls EXCEPT ![c] = @ \ {next[c]}]
        /\ t.next = [next EXCEPT ![c] = next[c] + 1] /\ t.curtake = c /\ t.takepoint = k
    BY <2>2, TookIs
  <2>4. /\ t.tile # Deal!NoTile
        /\ t.next \in [1 .. 4 -> Nat] /\ t.walls \in [1 .. 4 -> SUBSET Nat]
        /\ Walls(s, o, t.walls, t.next, t.curtake, t.takepoint)
    BY <1>1, <1>2, <2>1, <2>3
  <2> HIDE DEF t
  <2>5. \E p \in 1 .. 4 : \E j \in 1 .. Deal!LenOf(p) :
          /\ t.tile = <<p, j>> /\ t.tile # Deal!NoTile
          /\ j \in walls[p] /\ t.walls = [walls EXCEPT ![p] = @ \ {j}]
          /\ Walls(s, o, t.walls, t.next, t.curtake, t.takepoint)
    BY <1>1, <2>1, <2>3, <2>4
  <2> QED BY <2>4, <2>5 DEF t
<1>9. ASSUME walls[c] = {} \/ next[c] > Deal!LenOf(c)
      PROVE  \E m : /\ m = Restarted(walls, next, c)
                    /\ m \in [1 .. 4 -> Nat]
                    /\ t = IF k + 1 >= 6 THEN Took(walls, m, d, k + 1, Deal!NoTile)
                           ELSE Deal!FromWall(Took(walls, m, d, k + 1, Deal!NoTile))
  <2> DEFINE m == Restarted(walls, next, c)
  <2>1. m \in [1 .. 4 -> Nat]
    BY <1>1 DEF Restarted
  <2>2. here = Took(walls, m, c, k, Deal!NoTile)
    BY <1>5, <1>9 DEF Restarted
  <2> HIDE DEF m
  <2>3. Deal!NextWall(here) = Took(walls, m, d, k + 1, Deal!NoTile)
    BY <1>7, <2>2
  <2>4. t = IF k + 1 >= 6 THEN Took(walls, m, d, k + 1, Deal!NoTile)
            ELSE Deal!FromWall(Took(walls, m, d, k + 1, Deal!NoTile))
    BY <1>6, <2>2, <2>3, TookIs
  <2> QED BY <2>1, <2>4 DEF m
<1>10. CASE k # 4 /\ (walls[c] = {} \/ next[c] > Deal!LenOf(c))
  <2>1. PICK m : /\ m = Restarted(walls, next, c)
                 /\ m \in [1 .. 4 -> Nat]
                 /\ t = IF k + 1 >= 6 THEN Took(walls, m, d, k + 1, Deal!NoTile)
                        ELSE Deal!FromWall(Took(walls, m, d, k + 1, Deal!NoTile))
    BY <1>9, <1>10
  <2>2. m \in [1 .. 4 -> Nat]
    BY <2>1
  <2>3. t = Deal!FromWall(Took(walls, m, d, k + 1, Deal!NoTile))
    <3>1. ~ (k + 1 >= 6)
      BY <1>1
    <3> QED BY <2>1, <3>1
  <2>4. Walls(s, o, walls, m, d, k + 1) /\ m[d] = 1 /\ walls[d] # {}
    <3>1. Walls(s, o, walls, next, c, k)
      BY DEF c, k
    <3>2. m = Restarted(walls, next, c)
      BY <2>1
    <3>3. /\ Walls(s, o, walls, Restarted(walls, next, c), Deal!CountDown(c), k + 1)
          /\ Restarted(walls, next, c)[Deal!CountDown(c)] = 1 /\ walls[Deal!CountDown(c)] # {}
      BY <1>10, <3>1, MovedOn
    <3> QED BY <3>2, <3>3 DEF d
  <2>5. ~ (m[d] > Deal!LenOf(d))
    BY <1>3, <2>4, DealFacts
  <2>6. /\ m[d] \in 1 .. Deal!LenOf(d) /\ m[d] \in walls[d]
        /\ Walls(s, o, [walls EXCEPT ![d] = @ \ {m[d]}], [m EXCEPT ![d] = m[d] + 1], d, k + 1)
    BY <2>2, <2>4, <2>5, HereTaken
  <2>7. t = Took([walls EXCEPT ![d] = @ \ {m[d]}], [m EXCEPT ![d] = m[d] + 1], d, k + 1, <<d, m[d]>>)
    <3>1. Deal!FromWall(Took(walls, m, d, k + 1, Deal!NoTile)) = TakenHere(walls, m, d, k + 1)
      BY <1>3, <2>2, FromWallIs
    <3> QED BY <2>3, <2>4, <2>5, <3>1, Zenon DEF TakenHere
  <2>8. /\ t.tile = <<d, m[d]>> /\ t.walls = [walls EXCEPT ![d] = @ \ {m[d]}]
        /\ t.next = [m EXCEPT ![d] = m[d] + 1] /\ t.curtake = d /\ t.takepoint = k + 1
    BY <2>7, TookIs
  <2>9. /\ t.tile # Deal!NoTile
        /\ t.next \in [1 .. 4 -> Nat] /\ t.walls \in [1 .. 4 -> SUBSET Nat]
        /\ Walls(s, o, t.walls, t.next, t.curtake, t.takepoint)
    BY <1>2, <1>3, <2>2, <2>6, <2>8
  <2>10. \E p \in 1 .. 4 : \E j \in 1 .. Deal!LenOf(p) :
          /\ t.tile = <<p, j>> /\ t.tile # Deal!NoTile
          /\ j \in walls[p] /\ t.walls = [walls EXCEPT ![p] = @ \ {j}]
          /\ Walls(s, o, t.walls, t.next, t.curtake, t.takepoint)
    BY <1>3, <2>6, <2>8, <2>9
  <2> QED BY <2>9, <2>10 DEF t
<1>11. CASE k = 4 /\ (walls[c] = {} \/ next[c] > Deal!LenOf(c))
  <2>1. \A p \in 1 .. 4 : walls[p] = {}
    BY <1>11, AllGone DEF c, k
  <2>2. walls[c] = {}
    BY <1>1, <2>1
  <2>3. t = Deal!FromWall(Took(walls, next, d, k + 1, Deal!NoTile))
    <3>1. PICK m : /\ m = Restarted(walls, next, c)
                   /\ t = IF k + 1 >= 6 THEN Took(walls, m, d, k + 1, Deal!NoTile)
                          ELSE Deal!FromWall(Took(walls, m, d, k + 1, Deal!NoTile))
      BY <1>9, <1>11
    <3>2. m = next
      BY <2>2, <3>1 DEF Restarted
    <3>3. ~ (k + 1 >= 6)
      BY <1>11
    <3> QED BY <3>1, <3>2, <3>3
  <2>4. t = Took(walls, next, d, k + 1, Deal!NoTile)
    BY <1>1, <1>3, <2>1, <2>3, FromWallIs DEF TakenHere
  <2>5. /\ t.walls = walls /\ t.next = next /\ t.curtake = d /\ t.takepoint = k + 1
        /\ t.tile = Deal!NoTile
    BY <2>4, TookIs
  <2> QED BY <1>3, <1>11, <2>1, <2>5 DEF t
<1> QED BY <1>1, <1>8, <1>10, <1>11
\* A tile goes from a wall to a hand.
Moves(p, j, r) ==
  /\ p \in 1 .. 4 /\ j \in 1 .. Deal!LenOf(p) /\ r \in 1 .. 4 /\ j \in walls[p]
  /\ walls' = [walls EXCEPT ![p] = @ \ {j}] /\ hands' = [hands EXCEPT ![r] = @ \cup {<<p, j>>}]

LEMMA PartedStep ==
  ASSUME walls \in [1 .. 4 -> SUBSET Nat], hands \in [1 .. 4 -> SUBSET Tile], Parted,
         NEW p, NEW j, NEW r, Moves(p, j, r)
  PROVE  /\ hands' \in [1 .. 4 -> SUBSET Tile] /\ Parted'
         /\ \A q \in 1 .. 4 : Cardinality(hands'[q]) = Cardinality(hands[q]) + (IF q = r THEN 1 ELSE 0)
<1> /\ p \in 1 .. 4 /\ j \in 1 .. Deal!LenOf(p) /\ r \in 1 .. 4 /\ j \in walls[p]
    /\ walls' = [walls EXCEPT ![p] = @ \ {j}] /\ hands' = [hands EXCEPT ![r] = @ \cup {<<p, j>>}]
  BY DEF Moves
<1>1. \A q \in 1 .. 4 : Deal!LenOf(q) \in Nat
  BY DealFacts
<1>2. <<p, j>> \in Tile /\ Tile' = Tile
  BY <1>1 DEF Tile
<1>3. \A q \in 1 .. 4 : <<p, j>> \notin hands[q]
  BY DEF Parted
<1>4. \A q \in 1 .. 4 : hands'[q] = IF q = r THEN hands[q] \cup {<<p, j>>} ELSE hands[q]
  OBVIOUS
<1>5. \A q \in 1 .. 4 : /\ IsFiniteSet(hands'[q])
                        /\ Cardinality(hands'[q]) = Cardinality(hands[q]) + (IF q = r THEN 1 ELSE 0)
  <2> SUFFICES ASSUME NEW q \in 1 .. 4
               PROVE  /\ IsFiniteSet(hands'[q])
                      /\ Cardinality(hands'[q]) = Cardinality(hands[q]) + (IF q = r THEN 1 ELSE 0)
    OBVIOUS
  <2>1. IsFiniteSet(hands[q]) /\ Cardinality(hands[q]) \in Nat
    BY FS_CardinalityType DEF Parted
  <2>2. CASE q = r
    BY <1>3, <1>4, <2>1, <2>2, FS_AddElement
  <2>3. CASE q # r
    BY <1>4, <2>1, <2>3
  <2> QED BY <2>2, <2>3
<1>6. hands' \in [1 .. 4 -> SUBSET Tile]
  BY <1>2
<1>7. ASSUME NEW x \in 1 .. 4, NEW i \in 1 .. Deal!LenOf(x)
      PROVE  i \notin walls'[x] <=> \E q \in 1 .. 4 : <<x, i>> \in hands'[q]
  <2>1. i \notin walls[x] <=> \E q \in 1 .. 4 : <<x, i>> \in hands[q]
    BY DEF Parted
  <2>2. CASE x = p /\ i = j
    <3>1. <<x, i>> \in hands'[r] /\ i \notin walls'[x]
      BY <1>4, <2>2
    <3> QED BY <3>1
  <2>3. CASE ~ (x = p /\ i = j)
    <3>1. i \in walls'[x] <=> i \in walls[x]
      BY <2>3
    <3>2. <<x, i>> # <<p, j>>
      BY <2>3
    <3>3. \A q \in 1 .. 4 : <<x, i>> \in hands'[q] <=> <<x, i>> \in hands[q]
      BY <1>4, <3>2
    <3> QED BY <2>1, <3>1, <3>3
  <2> QED BY <2>2, <2>3
<1>8. \A q, x \in 1 .. 4 : q # x => hands'[q] \cap hands'[x] = {}
  <2> SUFFICES ASSUME NEW q \in 1 .. 4, NEW x \in 1 .. 4, q # x PROVE hands'[q] \cap hands'[x] = {}
    OBVIOUS
  <2>1. hands[q] \cap hands[x] = {}
    BY DEF Parted
  <2> QED BY <1>3, <1>4, <2>1
<1> QED BY <1>1, <1>2, <1>5, <1>6, <1>7, <1>8 DEF Parted

\* Disjoint sets together.
LEMMA DisjointSum ==
  ASSUME NEW S, NEW T, IsFiniteSet(S), IsFiniteSet(T), S \cap T = {}
  PROVE  /\ IsFiniteSet(S \cup T)
         /\ Cardinality(S \cup T) = Cardinality(S) + Cardinality(T)
<1>1. Cardinality(S) \in Nat /\ Cardinality(T) \in Nat /\ Cardinality(S \cap T) = 0
  BY FS_EmptySet, FS_CardinalityType
<1>2. /\ IsFiniteSet(S \cup T)
      /\ Cardinality(S \cup T) = Cardinality(S) + Cardinality(T) - Cardinality(S \cap T)
  BY FS_Union
<1> QED BY <1>1, <1>2

\* The tiles in the hands, which are disjoint, are counted hand by hand.
LEMMA HandsUnion ==
  ASSUME hands \in [1 .. 4 -> SUBSET Tile], Parted
  PROVE  /\ \A q \in 1 .. 4 : Cardinality(hands[q]) \in Nat
         /\ HandsSum \in Nat /\ Cardinality(UNION {hands[q] : q \in 1 .. 4}) = HandsSum
<1>1. \A q \in 1 .. 4 : IsFiniteSet(hands[q]) /\ Cardinality(hands[q]) \in Nat
  BY FS_CardinalityType DEF Parted
<1>2. \A q, r \in 1 .. 4 : q # r => hands[q] \cap hands[r] = {}
  BY DEF Parted
<1> DEFINE A == hands[1] \cup hands[2]  B == hands[3] \cup hands[4]
<1>4. IsFiniteSet(A) /\ Cardinality(A) = Cardinality(hands[1]) + Cardinality(hands[2])
  <2>1. hands[1] \cap hands[2] = {} /\ IsFiniteSet(hands[1]) /\ IsFiniteSet(hands[2])
    BY <1>1, <1>2
  <2> QED BY <2>1, DisjointSum
<1>5. IsFiniteSet(B) /\ Cardinality(B) = Cardinality(hands[3]) + Cardinality(hands[4])
  <2>1. hands[3] \cap hands[4] = {} /\ IsFiniteSet(hands[3]) /\ IsFiniteSet(hands[4])
    BY <1>1, <1>2
  <2> QED BY <2>1, DisjointSum
<1>6. A \cap B = {}
  <2>1. /\ hands[1] \cap hands[3] = {} /\ hands[1] \cap hands[4] = {}
        /\ hands[2] \cap hands[3] = {} /\ hands[2] \cap hands[4] = {}
    BY <1>2
  <2> QED BY <2>1
<1>7. UNION {hands[q] : q \in 1 .. 4} = A \cup B
  <2>1. 1 .. 4 = {1, 2, 3, 4}
    OBVIOUS
  <2> QED BY <2>1
<1>8. Cardinality(A \cup B) = Cardinality(A) + Cardinality(B)
  <2>1. IsFiniteSet(A) /\ IsFiniteSet(B)
    BY <1>4, <1>5
  <2> HIDE DEF A, B
  <2> QED BY <1>6, <2>1, DisjointSum
<1>9. Cardinality(UNION {hands[q] : q \in 1 .. 4}) = Cardinality(A) + Cardinality(B)
  BY <1>7, <1>8
<1> HIDE DEF A, B
<1>10. /\ Cardinality(hands[1]) \in Nat /\ Cardinality(hands[2]) \in Nat
       /\ Cardinality(hands[3]) \in Nat /\ Cardinality(hands[4]) \in Nat
  BY <1>1
<1>11. HandsSum \in Nat /\ HandsSum = Cardinality(A) + Cardinality(B)
  BY <1>4, <1>5, <1>10 DEF HandsSum
<1> QED BY <1>1, <1>9, <1>11

LEMMA TileCount == IsFiniteSet(Tile) /\ Cardinality(Tile) = 2 * Long + 2 * Short
<1> DEFINE W(p) == {p} \X (1 .. Deal!LenOf(p))
<1>1. \A p \in 1 .. 4 : IsFiniteSet(W(p)) /\ Cardinality(W(p)) = Deal!LenOf(p)
  <2> SUFFICES ASSUME NEW p \in 1 .. 4
               PROVE  IsFiniteSet(W(p)) /\ Cardinality(W(p)) = Deal!LenOf(p)
    OBVIOUS
  <2>1. Deal!LenOf(p) \in Nat
    BY DealFacts
  <2>2. 1 \in Int /\ Deal!LenOf(p) \in Int
    BY <2>1
  <2>3. IsFiniteSet(1 .. Deal!LenOf(p)) /\ Cardinality(1 .. Deal!LenOf(p)) = Deal!LenOf(p)
    BY <2>1, <2>2, FS_Interval
  <2>4. IsFiniteSet({p}) /\ Cardinality({p}) = 1
    BY FS_Singleton
  <2>5. IsFiniteSet(W(p)) /\ Cardinality(W(p)) = 1 * Deal!LenOf(p)
    <3>1. /\ IsFiniteSet(W(p))
          /\ Cardinality(W(p)) = Cardinality({p}) * Cardinality(1 .. Deal!LenOf(p))
      BY <2>3, <2>4, FS_Product, Zenon
    <3> QED BY <2>3, <2>4, <3>1, Zenon
  <2> QED BY <2>1, <2>5
<1>2. \A p, q \in 1 .. 4 : p # q => W(p) \cap W(q) = {}
  OBVIOUS
<1>3. Tile = (W(1) \cup W(2)) \cup (W(3) \cup W(4))
  <2>1. \A p \in 1 .. 4 : Deal!LenOf(p) \in Nat
    BY DealFacts
  <2>2. \A x : x \in Tile <=> \E p \in 1 .. 4 : x \in W(p)
    BY <2>1 DEF Tile
  <2> HIDE DEF W
  <2>3. 1 .. 4 = {1, 2, 3, 4}
    OBVIOUS
  <2> QED BY <2>2, <2>3
<1> HIDE DEF W
<1>5. /\ IsFiniteSet(W(1) \cup W(2)) /\ IsFiniteSet(W(3) \cup W(4))
      /\ Cardinality(W(1) \cup W(2)) = 2 * Long /\ Cardinality(W(3) \cup W(4)) = 2 * Short
  BY <1>1, <1>2, DisjointSum, DealFacts, DealAssumption
<1>6. (W(1) \cup W(2)) \cap (W(3) \cup W(4)) = {}
  <2>1. /\ W(1) \cap W(3) = {} /\ W(1) \cap W(4) = {} /\ W(2) \cap W(3) = {} /\ W(2) \cap W(4) = {}
    BY <1>2
  <2> QED BY <2>1
<1> QED BY <1>3, <1>5, <1>6, DisjointSum, DealAssumption

\* When the walls are empty all tiles are in the hands.
LEMMA AllInHands ==
  ASSUME hands \in [1 .. 4 -> SUBSET Tile], Parted, \A p \in 1 .. 4 : walls[p] = {}
  PROVE  HandsSum = 2 * Long + 2 * Short
<1>1. UNION {hands[q] : q \in 1 .. 4} = Tile
  <2>1. ASSUME NEW x \in Tile PROVE \E q \in 1 .. 4 : x \in hands[q]
    <3>1. x = <<x[1], x[2]>> /\ x[1] \in 1 .. 4 /\ x[2] \in 1 .. Deal!LenOf(x[1])
      BY DEF Tile
    <3>2. \E q \in 1 .. 4 : <<x[1], x[2]>> \in hands[q]
      BY <3>1 DEF Parted
    <3> QED BY <3>1, <3>2
  <2> QED BY <2>1
<1> QED BY <1>1, HandsUnion, TileCount

\* The player, counted from the dealer, who gets the tile after n tiles.
Turn(n) == IF n < 16 * Rounds THEN (n \div 4) % 4 ELSE (n - 16 * Rounds) % 4

LEMMA ShareStep ==
  ASSUME NEW n \in Nat, n < 16 * Rounds + 5
  PROVE  /\ Turn(n) \in 0 .. 3
         /\ \A m \in 0 .. 3 : /\ Share(n, m) \in Nat
                              /\ Share(n + 1, m) = Share(n, m) + (IF m = Turn(n) THEN 1 ELSE 0)
<1>1. Rounds \in Nat
  BY DealAssumption
<1>2. Turn(n) \in 0 .. 3
  BY <1>1 DEF Turn
<1>3. SUFFICES ASSUME NEW m \in 0 .. 3
               PROVE  /\ Share(n, m) \in Nat
                      /\ Share(n + 1, m) = Share(n, m) + (IF m = Turn(n) THEN 1 ELSE 0)
  BY <1>2
<1>4. CASE n < 16 * Rounds
  <2> DEFINE r == n \div 16  k == (n \div 4) % 4  j == n % 4
  <2>1. r \in Nat /\ k \in 0 .. 3 /\ j \in 0 .. 3 /\ n = 16 * r + 4 * k + j
    OBVIOUS
  <2> HIDE DEF r, k, j
  <2>2. \A x \in Nat, y \in 0 .. 3, z \in 0 .. 3 :
          Share(16 * x + 4 * y + z, m) =
            IF 16 * x + 4 * y + z <= 16 * Rounds
            THEN 4 * x + (IF m < y THEN 4 ELSE IF m = y THEN z ELSE 0)
            ELSE Share(16 * x + 4 * y + z, m)
    <3> SUFFICES ASSUME NEW x \in Nat, NEW y \in 0 .. 3, NEW z \in 0 .. 3,
                        16 * x + 4 * y + z <= 16 * Rounds
                 PROVE  Share(16 * x + 4 * y + z, m) =
                          4 * x + (IF m < y THEN 4 ELSE IF m = y THEN z ELSE 0)
      OBVIOUS
    <3>1. /\ (16 * x + 4 * y + z) \div 16 = x
          /\ ((16 * x + 4 * y + z) % 16) \div 4 = y
          /\ (16 * x + 4 * y + z) % 4 = z
      OBVIOUS
    <3> QED BY <3>1 DEF Share
  <2>3. Share(n, m) = 4 * r + (IF m < k THEN 4 ELSE IF m = k THEN j ELSE 0)
    BY <1>1, <1>4, <2>1, <2>2
  <2>4. Turn(n) = k
    BY <1>4 DEF Turn, k
  <2>5. n + 1 <= 16 * Rounds
    BY <1>1, <1>4
  <2>6. CASE j < 3
    <3>1. n + 1 = 16 * r + 4 * k + (j + 1) /\ j + 1 \in 0 .. 3
      BY <2>1, <2>6
    <3>2. Share(n + 1, m) = 4 * r + (IF m < k THEN 4 ELSE IF m = k THEN j + 1 ELSE 0)
      BY <2>1, <2>2, <2>5, <3>1
    <3> QED BY <2>1, <2>3, <2>4, <3>2
  <2>7. CASE j = 3 /\ k < 3
    <3>1. n + 1 = 16 * r + 4 * (k + 1) + 0 /\ k + 1 \in 0 .. 3
      BY <2>1, <2>7
    <3>2. Share(n + 1, m) = 4 * r + (IF m < k + 1 THEN 4 ELSE IF m = k + 1 THEN 0 ELSE 0)
      BY <2>1, <2>2, <2>5, <3>1
    <3> QED BY <2>1, <2>3, <2>4, <2>7, <3>2
  <2>8. CASE j = 3 /\ k = 3
    <3>1. n + 1 = 16 * (r + 1) + 4 * 0 + 0 /\ r + 1 \in Nat
      BY <2>1, <2>8
    <3>2. Share(n + 1, m) = 4 * (r + 1)
      <4>1. n + 1 = 16 * (r + 1) /\ (n + 1) \div 16 = r + 1
        BY <2>1, <3>1
      <4>2. (n + 1) % 16 = 0 /\ (n + 1) % 4 = 0
        BY <2>1, <4>1
      <4> QED BY <2>1, <2>5, <4>1, <4>2 DEF Share
    <3> QED BY <2>1, <2>3, <2>4, <2>8, <3>2
  <2> QED BY <2>1, <2>6, <2>7, <2>8
<1>5. CASE ~ (n < 16 * Rounds)
  <2> DEFINE x == n - 16 * Rounds
  <2>1. x \in 0 .. 4 /\ n = 16 * Rounds + x /\ Turn(n) = x % 4
    BY <1>1, <1>5 DEF Turn
  <2> HIDE DEF x
  <2>2. Share(16 * Rounds, m) = 4 * Rounds
    <3>1. (16 * Rounds) \div 16 = Rounds /\ (16 * Rounds) % 16 = 0 /\ (16 * Rounds) % 4 = 0
      BY <1>1
    <3> QED BY <1>1, <3>1 DEF Share
  <2>3. \A y \in 1 .. 5 :
          Share(16 * Rounds + y, m) = 4 * Rounds + (IF m < y THEN 1 ELSE 0)
                                        + (IF m = 0 /\ y = 5 THEN 1 ELSE 0)
    BY <1>1 DEF Share
  <2>4. Share(n, m) = 4 * Rounds + (IF m < x THEN 1 ELSE 0)
    <3>1. CASE x = 0
      BY <1>1, <2>1, <2>2, <3>1
    <3>2. CASE x # 0
      BY <1>1, <2>1, <2>3, <3>2
    <3> QED BY <3>1, <3>2
  <2>5. x + 1 \in 1 .. 5 /\ n + 1 = 16 * Rounds + (x + 1)
    BY <1>1, <2>1
  <2>6. Share(n + 1, m) = 4 * Rounds + (IF m < x + 1 THEN 1 ELSE 0)
                            + (IF m = 0 /\ x + 1 = 5 THEN 1 ELSE 0)
    BY <2>3, <2>5
  <2> QED BY <1>1, <2>1, <2>4, <2>6
<1> QED BY <1>4, <1>5

\* All that is dealt has been got, and in the end the dealer has one more.
LEMMA ShareSum ==
  ASSUME NEW n \in Nat, n <= 16 * Rounds + 5
  PROVE  /\ \A m \in 0 .. 3 : Share(0, m) = 0 /\ Share(n, m) \in Nat
         /\ Share(n, 0) + Share(n, 1) + Share(n, 2) + Share(n, 3) = n
         /\ \A m \in 0 .. 3 : Share(16 * Rounds + 5, m) = 4 * Rounds + (IF m = 0 THEN 2 ELSE 1)
<1>1. Rounds \in Nat
  BY DealAssumption
<1>2. \A m \in 0 .. 3 : Share(0, m) = 0
  BY <1>1 DEF Share
<1>3. \A m \in 0 .. 3 : Share(16 * Rounds + 5, m) = 4 * Rounds + (IF m = 0 THEN 2 ELSE 1)
  BY <1>1 DEF Share
<1>4. CASE n <= 16 * Rounds
  <2> DEFINE r == n \div 16  k == (n % 16) \div 4  j == n % 4
  <2>1. r \in Nat /\ k \in 0 .. 3 /\ j \in 0 .. 3 /\ n = 16 * r + 4 * k + j
    OBVIOUS
  <2>2. \A m \in 0 .. 3 : Share(n, m) = 4 * r + (IF m < k THEN 4 ELSE IF m = k THEN j ELSE 0)
    BY <1>4 DEF Share
  <2> HIDE DEF r, k, j
  <2>3. \A m \in 0 .. 3 : Share(n, m) \in Nat
    BY <2>1, <2>2
  <2>4. Share(n, 0) + Share(n, 1) + Share(n, 2) + Share(n, 3) = n
    <3>1. /\ Share(n, 0) = 4 * r + (IF k > 0 THEN 4 ELSE j)
          /\ Share(n, 1) = 4 * r + (IF k > 1 THEN 4 ELSE IF k = 1 THEN j ELSE 0)
          /\ Share(n, 2) = 4 * r + (IF k > 2 THEN 4 ELSE IF k = 2 THEN j ELSE 0)
          /\ Share(n, 3) = 4 * r + (IF k = 3 THEN j ELSE 0)
      BY <2>1, <2>2
    <3> QED BY <2>1, <3>1
  <2> QED BY <1>2, <1>3, <2>3, <2>4
<1>5. CASE ~ (n <= 16 * Rounds)
  <2> DEFINE x == n - 16 * Rounds
  <2>1. x \in 1 .. 5 /\ n = 16 * Rounds + x
    BY <1>1, <1>5
  <2>2. \A m \in 0 .. 3 : Share(n, m) = 4 * Rounds + (IF m < x THEN 1 ELSE 0)
                                          + (IF m = 0 /\ x = 5 THEN 1 ELSE 0)
    BY <1>1, <1>5 DEF Share
  <2> HIDE DEF x
  <2>3. \A m \in 0 .. 3 : Share(n, m) \in Nat
    BY <1>1, <2>1, <2>2
  <2>4. Share(n, 0) + Share(n, 1) + Share(n, 2) + Share(n, 3) = n
    BY <1>1, <2>1, <2>2
  <2> QED BY <1>2, <1>3, <2>3, <2>4
<1> QED BY <1>4, <1>5

LEMMA TakerIs ==
  ASSUME firstidx \in 1 .. 4, NEW n \in Nat, n < 16 * Rounds + 5
  PROVE  /\ Deal!Taker(n) \in 1 .. 4
         /\ \A q \in 1 .. 4 : /\ (q - firstidx + 4) % 4 \in 0 .. 3
                              /\ (q - firstidx + 4) % 4 = Turn(n) <=> q = Deal!Taker(n)
<1>1. Deal!Max = 4 /\ Rounds \in Nat
  BY DealFacts, DealAssumption
<1>2. Deal!Taker(n) = Deal!Seat(Turn(n))
  BY <1>1 DEF Deal!Taker, Turn
<1>3. Turn(n) \in 0 .. 3
  BY ShareStep
<1>4. Deal!Taker(n) = ((firstidx + Turn(n) - 1) % 4) + 1
  BY <1>1, <1>2 DEF Deal!Seat
<1> DEFINE m == Turn(n)  x == Deal!Taker(n)
<1> HIDE DEF m, x
<1>5. m \in 0 .. 3 /\ x = ((firstidx + m - 1) % 4) + 1
  BY <1>3, <1>4 DEF m, x
<1>6. ASSUME NEW q \in 1 .. 4
      PROVE  (q - firstidx + 4) % 4 \in 0 .. 3 /\ ((q - firstidx + 4) % 4 = m <=> q = x)
  BY <1>5
<1> QED BY <1>5, <1>6 DEF m, x

\* A step of the deal or of a turn in which a tile is taken.
LEMMA TileTaken ==
  ASSUME DealInv, phase \in {"deal", "turn"}, NEW r \in 1 .. 4,
         NEW t, t = Deal!TakeCard(Deal!Taking), t.tile # Deal!NoTile, Deal!Leave(t),
         hands' = [hands EXCEPT ![r] = @ \cup {t.tile}]
  PROVE  /\ walls' \in [1 .. 4 -> SUBSET Nat] /\ next' \in [1 .. 4 -> Nat]
         /\ hands' \in [1 .. 4 -> SUBSET Tile] /\ Parted'
         /\ \E s \in 1 .. 4, o \in 3 .. 13 : Walls(s, o, walls', next', curtake', takepoint')
         /\ \A q \in 1 .. 4 : /\ Cardinality(hands[q]) \in Nat
                              /\ Cardinality(hands'[q]) =
                                   Cardinality(hands[q]) + (IF q = r THEN 1 ELSE 0)
<1>1. PICK s \in 1 .. 4, o \in 3 .. 13 : Walls(s, o, walls, next, curtake, takepoint)
  BY DEF DealInv
<1>2. /\ walls \in [1 .. 4 -> SUBSET Nat] /\ next \in [1 .. 4 -> Nat]
      /\ hands \in [1 .. 4 -> SUBSET Tile] /\ Parted
  BY DEF DealInv
<1>3. /\ t.next \in [1 .. 4 -> Nat] /\ t.walls \in [1 .. 4 -> SUBSET Nat]
      /\ \E p \in 1 .. 4 : \E j \in 1 .. Deal!LenOf(p) :
           /\ t.tile = <<p, j>> /\ j \in walls[p] /\ t.walls = [walls EXCEPT ![p] = @ \ {j}]
           /\ Walls(s, o, t.walls, t.next, t.curtake, t.takepoint)
  BY <1>1, <1>2, TakeCardIs
<1> PICK p \in 1 .. 4 : \E j \in 1 .. Deal!LenOf(p) :
        /\ t.tile = <<p, j>> /\ j \in walls[p] /\ t.walls = [walls EXCEPT ![p] = @ \ {j}]
        /\ Walls(s, o, t.walls, t.next, t.curtake, t.takepoint)
  BY <1>3
<1>4. PICK j \in 1 .. Deal!LenOf(p) :
        /\ t.tile = <<p, j>> /\ j \in walls[p] /\ t.walls = [walls EXCEPT ![p] = @ \ {j}]
        /\ Walls(s, o, t.walls, t.next, t.curtake, t.takepoint)
  OBVIOUS
<1>5. /\ walls' = t.walls /\ next' = t.next /\ curtake' = t.curtake /\ takepoint' = t.takepoint
  BY DEF Deal!Leave
<1>6. walls' = [walls EXCEPT ![p] = @ \ {j}] /\ hands' = [hands EXCEPT ![r] = @ \cup {<<p, j>>}]
  BY <1>4, <1>5
<1>7. /\ hands' \in [1 .. 4 -> SUBSET Tile] /\ Parted'
      /\ \A q \in 1 .. 4 : Cardinality(hands'[q]) = Cardinality(hands[q]) + (IF q = r THEN 1 ELSE 0)
  <2>1. Moves(p, j, r)
    BY <1>4, <1>6 DEF Moves
  <2> QED BY <1>2, <2>1, PartedStep
<1> QED BY <1>1, <1>2, <1>3, <1>4, <1>5, <1>7, HandsUnion

\* A step in which none is left.
LEMMA NoneTaken ==
  ASSUME DealInv, phase \in {"deal", "turn"},
         NEW t, t = Deal!TakeCard(Deal!Taking), t.tile = Deal!NoTile, Deal!Leave(t)
  PROVE  /\ walls' = walls /\ next' = next /\ curtake' \in 1 .. 4 /\ takepoint' = 5
         /\ \A p \in 1 .. 4 : walls[p] = {}
         /\ HandsSum = 2 * Long + 2 * Short
<1>1. PICK s \in 1 .. 4, o \in 3 .. 13 : Walls(s, o, walls, next, curtake, takepoint)
  BY DEF DealInv
<1>2. /\ walls \in [1 .. 4 -> SUBSET Nat] /\ next \in [1 .. 4 -> Nat]
      /\ hands \in [1 .. 4 -> SUBSET Tile] /\ Parted
  BY DEF DealInv
<1>3. /\ t.walls = walls /\ t.next = next /\ t.curtake \in 1 .. 4 /\ t.takepoint = 5
      /\ \A p \in 1 .. 4 : walls[p] = {}
  BY <1>1, <1>2, TakeCardIs
<1> QED BY <1>2, <1>3, AllInHands DEF Deal!Leave

\* What is true of the walls is what the type invariant says of them.
LEMMA WallsType ==
  ASSUME NEW s, NEW o, Walls(s, o, walls, next, curtake, takepoint)
  PROVE  /\ \A p \in 1 .. 4 : walls[p] \subseteq 1 .. Deal!LenOf(p) /\ next[p] \in 1 .. Deal!LenOf(p) + 1
         /\ curtake \in 1 .. 4 /\ takepoint \in 0 .. 4
BY DEF Walls

LEMMA DealInit == Deal!Init => DealInv
<1> SUFFICES ASSUME Deal!Init PROVE DealInv
  OBVIOUS
<1>1. /\ walls = [p \in 1 .. 4 |-> 1 .. Deal!LenOf(p)] /\ next = [p \in 1 .. 4 |-> 1]
      /\ curtake = 0 /\ takepoint = 0 /\ firstidx \in 1 .. 4 /\ curidx = firstidx
      /\ hands = [p \in 1 .. 4 |-> {}] /\ dealt = 0 /\ phase = "dice"
  BY DEF Deal!Init
<1>2. \A p \in 1 .. 4 : Deal!LenOf(p) \in Nat /\ Deal!LenOf(p) >= 12
  BY DealFacts
<1>3. Deal!TypeOK
  <2>1. \A p \in 1 .. 4 : walls[p] \subseteq 1 .. Deal!LenOf(p) /\ next[p] \in 1 .. Deal!LenOf(p) + 1
    BY <1>1, <1>2
  <2>2. takepoint \in 0 .. Deal!Max + 2 /\ dealt \in 0 .. Deal!DealSize
    BY <1>1, DealFacts, DealAssumption
  <2> QED BY <1>1, <2>1, <2>2 DEF Deal!TypeOK
<1>4. /\ walls \in [1 .. 4 -> SUBSET Nat] /\ next \in [1 .. 4 -> Nat]
      /\ hands \in [1 .. 4 -> SUBSET Tile]
  BY <1>1, <1>2
<1>5. Parted
  BY <1>1, FS_EmptySet DEF Parted
<1>6. dealt < 16 * Rounds + 5 /\ Shared
  <2>1. \A q \in 1 .. 4 : (q - firstidx + 4) % 4 \in 0 .. 3
    BY <1>1
  <2>2. 0 \in Nat /\ 0 <= 16 * Rounds + 5 /\ 0 < 16 * Rounds + 5
    BY DealAssumption
  <2>3. \A m \in 0 .. 3 : Share(0, m) = 0
    BY <2>2, ShareSum
  <2>4. \A q \in 1 .. 4 : Cardinality(hands[q]) = 0
    BY <1>1, FS_EmptySet
  <2> QED BY <1>1, <2>1, <2>2, <2>3, <2>4 DEF Shared
<1> QED BY <1>1, <1>3, <1>4, <1>5, <1>6 DEF DealInv

LEMMA TakeDiceStep ==
  ASSUME DealInv, NEW d1 \in 1 .. 6, NEW d2 \in 1 .. 6, Deal!TakeDice(d1, d2)
  PROVE  DealInv'
<1> DEFINE s == ((d1 + d2 - 1) % 4) + 1  o == Deal!Opened(d1, d2)
<1>1. s \in 1 .. 4 /\ o \in 3 .. 13
  BY DEF Deal!Opened
<1>2. /\ phase = "dice" /\ curtake' = s /\ next' = [next EXCEPT ![s] = o] /\ phase' = "deal"
      /\ UNCHANGED <<walls, takepoint, curidx, firstidx, hands, dealt>>
  BY DealFacts DEF Deal!TakeDice
<1>3. /\ walls = [p \in 1 .. 4 |-> 1 .. Deal!LenOf(p)] /\ next = [p \in 1 .. 4 |-> 1]
      /\ takepoint = 0 /\ dealt < 16 * Rounds + 5 /\ Shared
      /\ Deal!TypeOK /\ Parted
      /\ walls \in [1 .. 4 -> SUBSET Nat] /\ next \in [1 .. 4 -> Nat]
      /\ hands \in [1 .. 4 -> SUBSET Tile]
  BY <1>2 DEF DealInv
<1>4. \A p \in 1 .. 4 : Deal!LenOf(p) \in Nat /\ Deal!LenOf(p) >= 12
  BY DealFacts
<1> HIDE DEF s, o
<1>5. /\ next'[s] = o /\ \A p \in 1 .. 4 : p # s => next'[p] = 1
      /\ \A p \in 1 .. 4 : walls'[p] = 1 .. Deal!LenOf(p)
  BY <1>1, <1>2, <1>3
<1>6. \A p \in 1 .. 4 : \A j \in 1 .. Deal!LenOf(p) :
        Lap(s, o, p, j) > 0 \/ (Lap(s, o, p, j) = 0 /\ j >= o)
  BY <1>1, <1>4 DEF Lap
<1>7. ASSUME NEW p \in 1 .. 4 PROVE next'[p] \in 1 .. Deal!LenOf(p) + 1
  <2>1. next'[p] \in 1 .. 13
    <3>1. next'[p] = 1 \/ (next'[p] = o /\ o \in 3 .. 13)
      BY <1>1, <1>5, Zenon
    <3> QED BY <3>1
  <2>2. Deal!LenOf(p) \in Nat /\ Deal!LenOf(p) >= 12
    BY <1>4
  <2> QED BY <2>1, <2>2
<1>8. Walls(s, o, walls', next', curtake', takepoint')
  BY <1>1, <1>2, <1>3, <1>5, <1>6, <1>7 DEF Walls
<1>9. Deal!TypeOK'
  BY <1>1, <1>2, <1>3, <1>5, <1>7 DEF Deal!TypeOK
<1>10. Parted' /\ Shared' /\ next' \in [1 .. 4 -> Nat]
  BY <1>1, <1>2, <1>3 DEF Parted, Shared
<1> QED BY <1>1, <1>2, <1>3, <1>8, <1>9, <1>10 DEF DealInv

\* The type invariant after a step at whose end a wall is open.
LEMMA TypeKept ==
  ASSUME Deal!TypeOK, NEW s, NEW o, Walls(s, o, walls', next', curtake', takepoint'),
         curidx' \in 1 .. 4, firstidx' = firstidx, dealt' \in 0 .. 16 * Rounds + 5,
         phase' \in {"deal", "turn"}
  PROVE  Deal!TypeOK'
<1>1. /\ \A p \in 1 .. 4 : /\ walls'[p] \subseteq 1 .. Deal!LenOf(p)
                           /\ next'[p] \in 1 .. Deal!LenOf(p) + 1
      /\ curtake' \in 1 .. 4 /\ takepoint' \in 0 .. 4
  BY DEF Walls
<1>2. takepoint' \in 0 .. Deal!Max + 2 /\ dealt' \in 0 .. Deal!DealSize
  BY <1>1, DealFacts
<1> QED BY <1>1, <1>2 DEF Deal!TypeOK

\* What is shared out is all that is dealt.
LEMMA SharedSum ==
  ASSUME Shared, dealt \in Nat, dealt <= 16 * Rounds + 5, firstidx \in 1 .. 4
  PROVE  HandsSum = dealt
<1>1. /\ Share(dealt, 0) + Share(dealt, 1) + Share(dealt, 2) + Share(dealt, 3) = dealt
      /\ \A m \in 0 .. 3 : Share(dealt, m) \in Nat
  BY ShareSum
<1>2. \A q \in 1 .. 4 : Cardinality(hands[q]) = Share(dealt, (q - firstidx + 4) % 4)
  BY DEF Shared
<1>3. HandsSum = Share(dealt, (1 - firstidx + 4) % 4) + Share(dealt, (2 - firstidx + 4) % 4)
                   + Share(dealt, (3 - firstidx + 4) % 4) + Share(dealt, (4 - firstidx + 4) % 4)
  BY <1>2 DEF HandsSum
<1>4. \/ firstidx = 1 \/ firstidx = 2 \/ firstidx = 3 \/ firstidx = 4
  OBVIOUS
<1>5. CASE firstidx = 1
  <2>1. HandsSum = Share(dealt, 0) + Share(dealt, 1) + Share(dealt, 2) + Share(dealt, 3)
    BY <1>3, <1>5
  <2> QED BY <1>1, <2>1
<1>6. CASE firstidx = 2
  <2>1. HandsSum = Share(dealt, 3) + Share(dealt, 0) + Share(dealt, 1) + Share(dealt, 2)
    BY <1>3, <1>6
  <2> QED BY <1>1, <2>1
<1>7. CASE firstidx = 3
  <2>1. HandsSum = Share(dealt, 2) + Share(dealt, 3) + Share(dealt, 0) + Share(dealt, 1)
    BY <1>3, <1>7
  <2> QED BY <1>1, <2>1
<1>8. CASE firstidx = 4
  <2>1. HandsSum = Share(dealt, 1) + Share(dealt, 2) + Share(dealt, 3) + Share(dealt, 0)
    BY <1>3, <1>8
  <2> QED BY <1>1, <2>1
<1> QED BY <1>4, <1>5, <1>6, <1>7, <1>8

LEMMA TakeDealStep ==
  ASSUME DealInv, Deal!TakeDeal
  PROVE  DealInv'
<1> DEFINE t == Deal!TakeCard(Deal!Taking)  r == Deal!Taker(dealt)
<1>1. /\ phase = "deal" /\ dealt' = dealt + 1 /\ UNCHANGED <<curidx, firstidx>>
      /\ Deal!Leave(t)
      /\ IF t.tile = Deal!NoTile
         THEN phase' = "failed" /\ UNCHANGED hands
         ELSE /\ hands' = [hands EXCEPT ![r] = @ \cup {t.tile}]
              /\ phase' = IF dealt' = 16 * Rounds + 5 THEN "turn" ELSE "deal"
  BY DealFacts DEF Deal!TakeDeal
<1>2. /\ Deal!TypeOK /\ dealt < 16 * Rounds + 5 /\ Shared
      /\ hands \in [1 .. 4 -> SUBSET Tile] /\ Parted
  BY <1>1 DEF DealInv
<1>3. /\ dealt \in Nat /\ firstidx \in 1 .. 4 /\ curidx \in 1 .. 4 /\ Rounds \in Nat
  BY <1>2, DealFacts, DealAssumption DEF Deal!TypeOK
<1>4. /\ r \in 1 .. 4
      /\ \A q \in 1 .. 4 : /\ (q - firstidx + 4) % 4 \in 0 .. 3
                           /\ (q - firstidx + 4) % 4 = Turn(dealt) <=> q = r
  BY <1>2, <1>3, TakerIs
<1> HIDE DEF t, r
<1>5. HandsSum = dealt
  BY <1>2, <1>3, SharedSum
<1>6. t.tile # Deal!NoTile
  <2> SUFFICES ASSUME t.tile = Deal!NoTile PROVE FALSE
    OBVIOUS
  <2>1. HandsSum = 2 * Long + 2 * Short
    BY <1>1, NoneTaken DEF t
  <2> QED BY <1>2, <1>3, <1>5, <2>1, DealAssumption
<1>7. /\ walls' \in [1 .. 4 -> SUBSET Nat] /\ next' \in [1 .. 4 -> Nat]
      /\ hands' \in [1 .. 4 -> SUBSET Tile] /\ Parted'
      /\ \E s \in 1 .. 4, o \in 3 .. 13 : Walls(s, o, walls', next', curtake', takepoint')
      /\ \A q \in 1 .. 4 : /\ Cardinality(hands[q]) \in Nat
                           /\ Cardinality(hands'[q]) =
                                Cardinality(hands[q]) + (IF q = r THEN 1 ELSE 0)
  BY <1>1, <1>4, <1>6, TileTaken DEF t
<1>8. dealt' \in 0 .. 16 * Rounds + 5 /\ dealt' \in Nat
  BY <1>1, <1>2, <1>3
<1>9. Deal!TypeOK'
  <2>1. phase' \in {"deal", "turn"}
    BY <1>1, <1>6
  <2>2. PICK s, o : Walls(s, o, walls', next', curtake', takepoint')
    BY <1>7
  <2>3. curidx' \in 1 .. 4 /\ firstidx' = firstidx
    BY <1>1, <1>3
  <2> QED BY <1>2, <1>8, <2>1, <2>2, <2>3, TypeKept
<1>10. Shared'
  <2> SUFFICES ASSUME NEW q \in 1 .. 4
               PROVE  Cardinality(hands'[q]) = Share(dealt', (q - firstidx' + 4) % 4)
    BY DEF Shared
  <2> DEFINE m == (q - firstidx + 4) % 4
  <2>1. m \in 0 .. 3 /\ (m = Turn(dealt) <=> q = r) /\ firstidx' = firstidx
    BY <1>1, <1>4
  <2>2. Cardinality(hands[q]) = Share(dealt, m)
    BY <1>2 DEF Shared
  <2> HIDE DEF m
  <2>3. Share(dealt + 1, m) = Share(dealt, m) + (IF m = Turn(dealt) THEN 1 ELSE 0)
    BY <1>2, <1>3, <2>1, ShareStep
  <2>4. Cardinality(hands'[q]) = Share(dealt', m)
    BY <1>1, <1>7, <2>1, <2>2, <2>3
  <2> QED BY <2>1, <2>4 DEF m
<1>11. CASE dealt' = 16 * Rounds + 5
  <2>1. phase' = "turn"
    BY <1>1, <1>6, <1>11
  <2> QED BY <1>7, <1>9, <1>10, <1>11, <2>1 DEF DealInv
<1>12. CASE dealt' # 16 * Rounds + 5
  <2>1. phase' = "deal" /\ dealt' < 16 * Rounds + 5
    BY <1>1, <1>3, <1>6, <1>8, <1>12
  <2> QED BY <1>7, <1>9, <1>10, <2>1 DEF DealInv
<1> QED BY <1>11, <1>12

LEMMA TakeTurnStep ==
  ASSUME DealInv, Deal!TakeTurn
  PROVE  DealInv'
<1> DEFINE t == Deal!TakeCard(Deal!Taking)
<1>1. /\ phase = "turn" /\ curidx' = Deal!After(curidx) /\ UNCHANGED <<firstidx, dealt>>
      /\ Deal!Leave(t)
      /\ IF t.tile = Deal!NoTile
         THEN phase' = "over" /\ UNCHANGED hands
         ELSE hands' = [hands EXCEPT ![curidx'] = @ \cup {t.tile}] /\ UNCHANGED phase
  BY DEF Deal!TakeTurn
<1>2. /\ Deal!TypeOK /\ dealt = 16 * Rounds + 5 /\ (HandsSum > dealt \/ Shared)
      /\ hands \in [1 .. 4 -> SUBSET Tile] /\ Parted
      /\ walls \in [1 .. 4 -> SUBSET Nat] /\ next \in [1 .. 4 -> Nat]
  BY <1>1 DEF DealInv
<1>3. /\ dealt \in Nat /\ dealt \in 0 .. 16 * Rounds + 5 /\ firstidx \in 1 .. 4 /\ curidx' \in 1 .. 4
  BY <1>1, <1>2, DealFacts, DealAssumption DEF Deal!TypeOK, Deal!After
<1> HIDE DEF t
<1>4. CASE t.tile = Deal!NoTile
  <2>1. /\ walls' = walls /\ next' = next /\ curtake' \in 1 .. 4 /\ takepoint' = 5
        /\ \A p \in 1 .. 4 : walls[p] = {}
    BY <1>1, <1>4, NoneTaken DEF t
  <2>2. phase' = "over" /\ UNCHANGED <<hands, firstidx, dealt>>
    BY <1>1, <1>4
  <2>3. Deal!TypeOK'
    BY <1>2, <1>3, <2>1, <2>2, DealFacts DEF Deal!TypeOK
  <2>4. Parted'
    BY <1>2, <2>1, <2>2 DEF Parted
  <2> QED BY <1>2, <2>1, <2>2, <2>3, <2>4 DEF DealInv
<1>5. CASE t.tile # Deal!NoTile
  <2>1. /\ walls' \in [1 .. 4 -> SUBSET Nat] /\ next' \in [1 .. 4 -> Nat]
        /\ hands' \in [1 .. 4 -> SUBSET Tile] /\ Parted'
        /\ \E s \in 1 .. 4, o \in 3 .. 13 : Walls(s, o, walls', next', curtake', takepoint')
        /\ \A q \in 1 .. 4 : /\ Cardinality(hands[q]) \in Nat
                             /\ Cardinality(hands'[q]) =
                                  Cardinality(hands[q]) + (IF q = curidx' THEN 1 ELSE 0)
    BY <1>1, <1>3, <1>5, TileTaken DEF t
  <2>2. phase' = "turn" /\ UNCHANGED <<firstidx, dealt>>
    BY <1>1, <1>5
  <2>3. Deal!TypeOK'
    <3>1. PICK s, o : Walls(s, o, walls', next', curtake', takepoint')
      BY <2>1
    <3>2. dealt' \in 0 .. 16 * Rounds + 5 /\ phase' \in {"deal", "turn"} /\ firstidx' = firstidx
      BY <1>3, <2>2
    <3> QED BY <1>2, <1>3, <3>1, <3>2, TypeKept
  <2>4. HandsSum \in Nat /\ HandsSum' = HandsSum + 1
    BY <1>3, <2>1 DEF HandsSum
  <2>5. HandsSum >= dealt
    <3>1. CASE HandsSum > dealt
      BY <1>3, <2>4, <3>1
    <3>2. CASE Shared
      BY <1>2, <1>3, <3>2, SharedSum
    <3> QED BY <1>2, <3>1, <3>2
  <2>6. HandsSum' > dealt'
    BY <1>3, <2>2, <2>4, <2>5
  <2> QED BY <1>2, <2>1, <2>2, <2>3, <2>6 DEF DealInv
<1> QED BY <1>4, <1>5

LEMMA DealInvExact == DealInv => DealExact
<1> SUFFICES ASSUME DealInv PROVE DealExact
  OBVIOUS
<1>1. /\ Deal!TypeOK /\ Parted /\ hands \in [1 .. 4 -> SUBSET Tile]
  BY DEF DealInv
<1>2. Deal!TilesKept
  <2> SUFFICES ASSUME NEW p \in 1 .. 4, NEW i \in 1 .. Deal!LenOf(p)
               PROVE  Cardinality({q \in 1 .. 4 : <<p, i>> \in hands[q]}) =
                        (IF i \in walls[p] THEN 0 ELSE 1)
    BY DealFacts DEF Deal!TilesKept
  <2> DEFINE S == {q \in 1 .. 4 : <<p, i>> \in hands[q]}
  <2>1. CASE i \in walls[p]
    <3>1. S = {}
      BY <1>1, <2>1 DEF Parted
    <3> QED BY <2>1, <3>1, FS_EmptySet
  <2>2. CASE i \notin walls[p]
    <3>1. PICK q \in 1 .. 4 : <<p, i>> \in hands[q]
      BY <1>1, <2>2 DEF Parted
    <3>2. \A r \in 1 .. 4 : r # q => <<p, i>> \notin hands[r]
      BY <1>1, <3>1 DEF Parted
    <3>3. S = {q}
      BY <3>1, <3>2
    <3> QED BY <2>2, <3>3, FS_Singleton
  <2> QED BY <2>1, <2>2
<1>3. Deal!DealFair
  <2> SUFFICES ASSUME phase = "turn", Cardinality(UNION {hands[p] : p \in 1 .. 4}) = dealt,
                      NEW p \in 1 .. 4
               PROVE  Cardinality(hands[p]) = 4 * Rounds + (IF p = firstidx THEN 2 ELSE 1)
    BY DealFacts DEF Deal!DealFair, DealInv
  <2>1. HandsSum = dealt /\ HandsSum \in Nat
    BY <1>1, HandsUnion
  <2>2. dealt = 16 * Rounds + 5 /\ Shared
    BY <2>1 DEF DealInv
  <2>3. firstidx \in 1 .. 4 /\ dealt \in Nat /\ dealt <= 16 * Rounds + 5
    BY <1>1, <2>1, <2>2 DEF Deal!TypeOK
  <2> DEFINE m == (p - firstidx + 4) % 4
  <2>4. m \in 0 .. 3 /\ (m = 0 <=> p = firstidx)
    BY <2>3
  <2>5. Cardinality(hands[p]) = Share(16 * Rounds + 5, m)
    BY <2>2 DEF Shared
  <2> HIDE DEF m
  <2>6. Share(16 * Rounds + 5, m) = 4 * Rounds + (IF m = 0 THEN 2 ELSE 1)
    BY <2>3, <2>4, ShareSum
  <2> QED BY <2>4, <2>5, <2>6
<1>4. Deal!AllTaken
  BY DEF DealInv, Deal!AllTaken
<1> QED BY <1>1, <1>2, <1>3, <1>4 DEF DealExact

\* For walls of any length that the dice can open and any number of rounds for
\* which there are tiles: wherever the walls are opened and whoever deals, no
\* tile is dealt twice or lost, nobody gets less than his share or more, the
\* deal never finds the walls empty, and a game that goes on to the end takes
\* every tile, those before the opening included.
THEOREM DealTheorem == Deal!Spec => []DealExact
<1>1. ASSUME DealInv, [Deal!Next]_Deal!vars PROVE DealInv'
  <2>1. CASE UNCHANGED Deal!vars
    <3>1. UNCHANGED <<walls, next, curtake, takepoint, curidx, firstidx, hands, dealt, phase>>
      BY <2>1 DEF Deal!vars
    <3>2. Deal!TypeOK' /\ Parted' /\ Shared' = Shared /\ HandsSum' = HandsSum
      BY <1>1, <3>1 DEF DealInv, Deal!TypeOK, Parted, Shared, HandsSum
    <3> QED BY <1>1, <3>1, <3>2 DEF DealInv
  <2>2. CASE \E d1, d2 \in Deal!Dice : Deal!TakeDice(d1, d2)
    <3>1. PICK d1 \in 1 .. 6, d2 \in 1 .. 6 : Deal!TakeDice(d1, d2)
      BY <2>2 DEF Deal!Dice
    <3> QED BY <1>1, <3>1, TakeDiceStep
  <2>3. CASE Deal!TakeDeal
    BY <1>1, <2>3, TakeDealStep
  <2>4. CASE Deal!TakeTurn
    BY <1>1, <2>4, TakeTurnStep
  <2> QED BY <1>1, <2>1, <2>2, <2>3, <2>4 DEF Deal!Next
<1> QED BY <1>1, DealInit, DealInvExact, PTL DEF Deal!Spec


=============================================================================
