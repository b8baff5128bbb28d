----------------------------- MODULE MahjongTable -----------------------------
(***************************************************************************)
(* The table of a mahjong room (rcontext.lua): users take seats, lose and  *)
(* regain their connection, leave, declare themselves ready, and step the  *)
(* game through the shuffle and the dice to the deal.  A handler runs to   *)
(* its end, but for the first shuffle, which calls the agent of the host   *)
(* and lets other handlers run until the answer comes.                     *)
(*                                                                         *)
(* A game is followed to its deal: of the tiles only whether the walls of  *)
(* the game are built is kept (MahjongDeal has the tiles).                 *)
(***************************************************************************)
EXTENDS Naturals, FiniteSets

CONSTANTS Users,    \* uids
          Host,     \* the user who created the room
          Seats,    \* 1 .. _max
          MaxJu     \* bound on the games that are begun

VARIABLES state,      \* rcontext._state
          uid,        \* player._uid of each seat, or Nobody (0)
          connected,  \* player._online
          ready,      \* the seats whose player._state is the one check_state waits for
          joined,     \* _joined
          online,     \* _online
          ju,         \* _ju: games begun
          firstidx,   \* _firstidx: the seat of the dealer
          calling,    \* take_shuffle waits for the agent of the host
          walls,      \* the players' _takecards are those of this game
          dealt       \* how take_deal ended: "not", "ok", or what failed in it

vars == <<state, uid, connected, ready, joined, online, ju, firstidx, calling, walls, dealt>>
people == <<uid, connected, joined, online>>
game == <<ju, firstidx, calling, walls, dealt>>

Nobody == "nobody"
Max == Cardinality(Seats)
Seated == {uid[i] : i \in Seats} \ {Nobody}
SeatOf(u) == CHOOSE i \in Seats : uid[i] = u
Free(i) == uid[i] = Nobody

\* create
Init == /\ state = "JOIN" /\ ready = {}
        /\ uid = [i \in Seats |-> Nobody]
        /\ connected = [i \in Seats |-> FALSE]
        /\ joined = 0 /\ online = 0
        /\ ju = 0 /\ firstidx = 0 /\ calling = FALSE /\ walls = FALSE /\ dealt = "not"

-----------------------------------------------------------------------------
(* Seats.                                                                  *)

Join(u) ==
    /\ state = "JOIN" /\ joined < Max /\ u \notin Seated
    /\ \E me \in Seats :
          /\ Free(me) /\ \A i \in Seats : Free(i) => me <= i
          /\ uid' = [uid EXCEPT ![me] = u] /\ connected' = [connected EXCEPT ![me] = TRUE]
    /\ joined' = joined + 1 /\ online' = online + 1
    /\ IF joined' >= Max THEN state' = "READY" /\ ready' = {} ELSE UNCHANGED <<state, ready>>
    /\ UNCHANGED game

Rejoin(u) ==
    /\ u \in Seated /\ ~connected[SeatOf(u)]
    /\ connected' = [connected EXCEPT ![SeatOf(u)] = TRUE]
    /\ online' = online + 1
    /\ IF state = "JOIN" /\ online' >= Max
       THEN state' = "READY" /\ ready' = {}             \* take_ready
       ELSE UNCHANGED <<state, ready>>
    /\ UNCHANGED <<uid, joined, game>>

\* A fault: the game goes on.
Afk_on(u) ==
    /\ u \in Seated /\ connected[SeatOf(u)]
    /\ connected' = [connected EXCEPT ![SeatOf(u)] = FALSE]
    /\ online' = online - 1
    /\ UNCHANGED <<uid, joined, state, ready, game>>

\* The agent of a user whose connection is lost calls afk.
Afk(u) ==
    /\ u \in Seated /\ connected[SeatOf(u)]
    /\ connected' = [connected EXCEPT ![SeatOf(u)] = FALSE]
    /\ online' = online - 1
    /\ state' = "JOIN"
    /\ UNCHANGED <<uid, joined, ready, game>>

\* A user who is connected asks to leave.
Leave(u) ==
    /\ u \in Seated /\ connected[SeatOf(u)]
    /\ connected' = [connected EXCEPT ![SeatOf(u)] = FALSE]
    /\ uid' = [uid EXCEPT ![SeatOf(u)] = Nobody]
    /\ online' = online - 1 /\ joined' = joined - 1
    /\ state' = "JOIN"
    /\ UNCHANGED <<ready, game>>

-----------------------------------------------------------------------------
(* The game.                                                               *)

\* The rest of take_shuffle, after the call of the first game.  _lastfirsthu
\* is 0 until someone has won a game.
BuildWalls(first) == /\ firstidx' = first
                     /\ walls' = TRUE

\* take_shuffle, once every player is ready; player.clear drops the walls.
TakeShuffle ==
    /\ state' = "SHUFFLE" /\ ready' = {}
    /\ ju' = ju + 1
    /\ CASE ju' = 1 /\ Host \in Seated ->                 \* skynet.call yields
              calling' = TRUE /\ walls' = FALSE /\ UNCHANGED firstidx
         [] ju' = 1 /\ Host \notin Seated ->              \* an index of nil: the handler fails
              walls' = FALSE /\ UNCHANGED <<calling, firstidx>>
         [] OTHER -> BuildWalls(0) /\ UNCHANGED calling
    /\ dealt' = "not"

Ready(i) ==
    /\ state = "READY" /\ connected[i] /\ i \notin ready /\ ju < MaxJu
    /\ IF ready \cup {i} = Seats
       THEN TakeShuffle
       ELSE ready' = ready \cup {i} /\ UNCHANGED <<state, game>>
    /\ UNCHANGED people

\* alter_rcard has answered: take_shuffle goes on, whatever the state is now.
ShuffleGoesOn ==
    /\ calling
    /\ calling' = FALSE
    /\ IF Host \in Seated THEN BuildWalls(SeatOf(Host)) ELSE UNCHANGED <<firstidx, walls>>
    /\ UNCHANGED <<people, state, ready, ju, dealt>>

\* take_deal: a seat out of range has no player to insert a tile, and walls
\* that are empty no tile to take.
TakeDeal == dealt' = CASE ~walls              -> "no tile"
                       [] firstidx \notin Seats -> "no dealer"
                       [] OTHER                 -> "ok"

\* A step fails at its end (errorcode is not defined), after what it changed.
Step(i) ==
    /\ joined = Max /\ online = Max
    /\ state \in {"SHUFFLE", "DICE"} /\ i \notin ready
    /\ IF ready \cup {i} # Seats
       THEN ready' = ready \cup {i} /\ UNCHANGED <<state, dealt>>
       ELSE /\ ready' = {}
            /\ IF state = "SHUFFLE" THEN state' = "DICE" /\ UNCHANGED dealt
                                    ELSE state' = "DEAL" /\ TakeDeal
    /\ UNCHANGED <<people, ju, firstidx, calling, walls>>

Next == \/ \E u \in Users : Join(u) \/ Rejoin(u) \/ Afk(u) \/ Leave(u)
        \/ \E i \in Seats : Ready(i) \/ Step(i)
        \/ ShuffleGoesOn

Spec == Init /\ [][Next]_vars

-----------------------------------------------------------------------------
TypeOK ==
    /\ state \in {"JOIN", "READY", "SHUFFLE", "DICE", "DEAL"}
    /\ uid \in [Seats -> Users \cup {Nobody}]
    /\ connected \in [Seats -> BOOLEAN]
    /\ ready \subseteq Seats
    /\ joined \in 0..Max /\ online \in 0..Max
    /\ ju \in 0..MaxJu /\ firstidx \in Seats \cup {0}
    /\ calling \in BOOLEAN /\ walls \in BOOLEAN
    /\ dealt \in {"not", "ok", "no tile", "no dealer"}

\* The two counters are those of the seats, and nobody has two seats, however
\* joining, leaving and lost connections are mixed.
Counted == /\ joined = Cardinality({i \in Seats : uid[i] # Nobody})
           /\ online = Cardinality({i \in Seats : connected[i]})
           /\ Cardinality(Seated) = joined

\* A game is played at a full table only: a seat that becomes empty or loses
\* its user takes the table out of the game, and it starts again from the
\* shuffle when the last one has declared himself ready.
PlaysFull == state \in {"SHUFFLE", "DICE", "DEAL"} => \A i \in Seats : connected[i] /\ uid[i] # Nobody

\* What keeps them so: a user has one seat, who is connected has one, and who
\* has declared himself ready for the game is connected.
OneSeat == \A i, j \in Seats : uid[i] = uid[j] /\ uid[i] # Nobody => i = j
OnlineSeated == \A i \in Seats : connected[i] => uid[i] # Nobody
ReadyOnline == state = "READY" => \A i \in ready : connected[i]

Inv == TypeOK /\ Counted /\ PlaysFull /\ OneSeat /\ OnlineSeated /\ ReadyOnline

\* rcontext.lua:1796 and 1801 assert that a tile is left for every player in
\* the deal.  The steps to the deal need no walls: they may be taken while the
\* first shuffle waits for the host's agent, or after it failed.
DealHasTiles == dealt # "no tile"
=============================================================================
