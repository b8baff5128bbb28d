------------------------------ MODULE MahjongDeal ------------------------------
(***************************************************************************)
(* The tiles of a game of mahjong: shuffled into a wall before each of the *)
(* four players, opened by the dice, dealt, and taken one by one until no  *)
(* tile is left.  A player's wall is an array and an index: when the index *)
(* passes the end it starts again at 1, where the tiles before the opening *)
(* are still to be taken, and the taking goes on with the wall before it.  *)
(* A tile is its place in the walls: <<player, place>>.                    *)
(***************************************************************************)
EXTENDS Naturals, FiniteSets

CONSTANTS Players,   \* 1 .. 4
          Long,      \* the tiles of the walls of the first half of the players: 28
          Short,     \* those of the others: 26
          Rounds     \* deal rounds of four tiles for each player: 3

VARIABLES walls,      \* player._takecards: the places that hold a tile
          next,       \* player._takecardsidx
          curtake,    \* the player whose wall is taken from
          takepoint,  \* how often the taking has gone on to another wall
          curidx,     \* the player who takes
          firstidx,   \* the dealer
          hands,      \* the tiles each player has got
          dealt,      \* the tiles dealt in take_deal
          phase       \* "dice", "deal", "turn", "over" or "failed"

vars == <<walls, next, curtake, takepoint, curidx, firstidx, hands, dealt, phase>>

Max == Cardinality(Players)
LenOf(p) == IF 2 * p <= Max THEN Long ELSE Short       \* _takecardslen
Dice == 1..6
NoTile == <<0, 0>>
CountDown(p) == IF p = 1 THEN Max ELSE p - 1

\* take_shuffle; the host is the dealer of the first game
Init == /\ walls = [p \in Players |-> 1..LenOf(p)]
        /\ next = [p \in Players |-> 1]
        /\ curtake = 0 /\ takepoint = 0
        /\ firstidx \in Players /\ curidx = firstidx
        /\ hands = [p \in Players |-> {}]
        /\ dealt = 0 /\ phase = "dice"

\* How far from its start the wall is opened.
Opened(d1, d2) == 2 * (IF d1 < d2 THEN d1 ELSE d2) + 1

TakeDice(d1, d2) ==
    /\ phase = "dice"
    /\ LET point == ((d1 + d2 - 1) % Max) + 1
       IN  /\ curtake' = point
           /\ next' = [next EXCEPT ![point] = Opened(d1, d2)]
    /\ phase' = "deal"
    /\ UNCHANGED <<walls, takepoint, curidx, firstidx, hands, dealt>>

-----------------------------------------------------------------------------
(* Taking a tile.  A taking is a record of what it leaves: `tile` is       *)
(* NoTile when there was none.                                             *)

Taking == [walls |-> walls, next |-> next, curtake |-> curtake, takepoint |-> takepoint,
           tile |-> NoTile]

\* player.take_card; a tile that is gone is nil, which no table holds
FromWall(t) ==
    LET p == t.curtake  i == t.next[p]
    IN  IF t.walls[p] = {} THEN t
        ELSE IF i > LenOf(p) THEN [t EXCEPT !.next[p] = 1]
        ELSE [t EXCEPT !.walls[p] = @ \ {i}, !.next[p] = i + 1, !.tile = <<p, i>>]

\* next_takeidx
NextWall(t) == [t EXCEPT !.curtake = CountDown(@), !.takepoint = @ + 1]

\* rcontext.take_card
TakeCard(t) ==
    LET here  == FromWall([t EXCEPT !.tile = NoTile])
        there == NextWall(here)
    IN  IF here.tile # NoTile THEN here
        ELSE IF there.takepoint >= Max + 2 THEN there
        ELSE FromWall(there)

-----------------------------------------------------------------------------
After(p) == IF p = Max THEN 1 ELSE p + 1
Seat(k) == ((firstidx + k - 1) % Max) + 1      \* the k-th player from the dealer

\* Who takes the n-th tile of the deal: in every round but the last a player
\* takes four tiles in a row, in the last one; then the dealer takes one more.
Taker(n) == IF n < 4 * Rounds * Max THEN Seat((n \div 4) % Max)
            ELSE Seat((n - 4 * Rounds * Max) % Max)

DealSize == (4 * Rounds + 1) * Max + 1

\* A fault: what was taken last is put back.
Leave_stale(t) == UNCHANGED <<walls, next>> /\ curtake' = t.curtake /\ takepoint' = t.takepoint

Leave(t) == /\ walls' = t.walls /\ next' = t.next
            /\ curtake' = t.curtake /\ takepoint' = t.takepoint

\* One turn of the loops of take_deal, which is one handler: nothing else is
\* enabled before the last tile is dealt.
TakeDeal ==
    /\ phase = "deal"
    /\ dealt' = dealt + 1
    /\ \E t \in {TakeCard(Taking)} :
          /\ Leave(t)
          /\ IF t.tile = NoTile
             THEN phase' = "failed" /\ UNCHANGED hands
             ELSE /\ hands' = [hands EXCEPT ![Taker(dealt)] = @ \cup {t.tile}]
                  /\ phase' = IF dealt' = DealSize THEN "turn" ELSE "deal"
    /\ UNCHANGED <<curidx, firstidx>>

\* take_takecard, for the player after the one who has led a tile; what is
\* led and claimed in between is left out
TakeTurn ==
    /\ phase = "turn"
    /\ curidx' = After(curidx)
    /\ \E t \in {TakeCard(Taking)} :
          /\ Leave(t)
          /\ IF t.tile = NoTile
             THEN phase' = "over" /\ UNCHANGED hands
             ELSE hands' = [hands EXCEPT ![curidx'] = @ \cup {t.tile}] /\ UNCHANGED phase
    /\ UNCHANGED <<firstidx, dealt>>

Next == \/ \E d1, d2 \in Dice : TakeDice(d1, d2)
        \/ TakeDeal \/ TakeTurn

Spec == Init /\ [][Next]_vars

-----------------------------------------------------------------------------
TypeOK ==
    /\ \A p \in Players : walls[p] \subseteq 1..LenOf(p) /\ next[p] \in 1..LenOf(p) + 1
    /\ curtake \in Players \cup {0} /\ takepoint \in 0..Max + 2
    /\ curidx \in Players /\ firstidx \in Players
    /\ dealt \in 0..DealSize
    /\ phase \in {"dice", "deal", "turn", "over", "failed"}

\* Every tile is in a wall or in one hand, wherever the dice open the wall.
TilesKept ==
    \A p \in Players : \A i \in 1..LenOf(p) :
        Cardinality({q \in Players : <<p, i>> \in hands[q]}) = (IF i \in walls[p] THEN 0 ELSE 1)

\* The deal never runs out of tiles (the assertions at rcontext.lua:1796, 1801
\* and 1815); it leaves the dealer one tile more than the others.
DealFair ==
    /\ phase # "failed"
    /\ phase = "turn" /\ Cardinality(UNION {hands[p] : p \in Players}) = dealt =>
          \A p \in Players : Cardinality(hands[p]) = 4 * Rounds + (IF p = firstidx THEN 2 ELSE 1)

\* A game that no one wins goes on to the last tile, those before the opening
\* included: take_card says that there is none only when every wall is empty.
AllTaken == phase = "over" => \A p \in Players : walls[p] = {}
=============================================================================
