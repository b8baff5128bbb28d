----------------------------- MODULE TimerWheel -----------------------------
(***************************************************************************)
(* The hierarchical timing wheel (skynet_timer.c), for any sizes of its    *)
(* arrays: one of lists for the ticks that differ from the current time in *)
(* the lowest digit only, and four levels of lists for those that differ   *)
(* in the next digit each.  The digits use up the whole time, which wraps  *)
(* around.  The sizes of the code are powers of two, so that a digit is a  *)
(* field of bits, and its shifts and masks are quotients and remainders.   *)
(*                                                                         *)
(* Any thread sets timeouts, the timer thread runs skynet_updatetime; both *)
(* lock the timer, but events are sent with the lock released.  A timeout  *)
(* of 0 or less never comes here: skynet_timeout sends it at once.         *)
(***************************************************************************)
EXTENDS Integers, Sequences, Functions

CONSTANTS Event,        \* timeouts that may be pending at a time
          TIME_NEAR,    \* 256
          TIME_LEVEL    \* 64

Level == 0 .. 3

\* What the first digit above near, and that of each level, counts.
Unit[i \in 0 .. 4] == IF i = 0 THEN TIME_NEAR ELSE Unit[i - 1] * TIME_LEVEL

Wrap == Unit[4]                 \* 2^32
Time == 0 .. Wrap - 1
Delay == 1 .. (Wrap \div 2) - 1   \* the positive ints

VARIABLES
  near, t,   \* the lists
  time,      \* T->time
  expire,    \* node->expire, -1 for an event that has no node
  firing,    \* the nodes dispatch_list has still to send
  pc         \* the timer thread is outside timer_update, "idle", or in its
             \* first or second timer_execute, "early" or "late"

vars == <<near, t, time, expire, firing, pc>>

Wheel == [near |-> near, t |-> t]

\* timer_create_timer.
Init ==
  /\ near = [j \in 0 .. TIME_NEAR - 1 |-> <<>>]
  /\ t = [i \in Level |-> [j \in 0 .. TIME_LEVEL - 1 |-> <<>>]]
  /\ time = 0
  /\ expire = [e \in Event |-> -1]
  /\ firing = <<>>
  /\ pc = "idle"

\* The digits of x from that of level i on: x | mask - 1 and y | mask - 1 are
\* the same when these are.
From(x, i) == x \div Unit[i]

NearIndex(x) == x % TIME_NEAR
LevelIndex(x, i) == From(x, i) % TIME_LEVEL

-----------------------------------------------------------------------------

\* A fault: only the first level is ever moved.
Cascade_stuck(now) == IF NearIndex(now) # 0 THEN <<>> ELSE <<0, LevelIndex(now, 0)>>

-----------------------------------------------------------------------------
\* link
Linked(list, e) == Append(list, e)

\* The level whose lists take an event that expires at x, when it is now.
LevelOf(x, now) ==
  CHOOSE i \in Level :
    /\ i = 3 \/ From(x, i + 1) = From(now, i + 1)
    /\ \A j \in 0 .. i - 1 : From(x, j + 1) # From(now, j + 1)

\* add_node
AddNode(w, e, x, now) ==
  IF From(x, 0) = From(now, 0)
  THEN [w EXCEPT !.near[NearIndex(x)] = Linked(@, e)]
  ELSE LET i == LevelOf(x, now)
       IN [w EXCEPT !.t[i][LevelIndex(x, i)] = Linked(@, e)]

\* move_list
MoveList(w, i, j, now) ==
  LET list == w.t[i][j]
      moved[n \in 0 .. Len(list)] ==
        IF n = 0 THEN [w EXCEPT !.t[i][j] = <<>>]
        ELSE AddNode(moved[n - 1], list[n], expire[list[n]], now)
  IN moved[Len(list)]

\* The list, if any, whose nodes timer_shift moves at the new time.
Cascade(now) ==
  IF now = 0 THEN <<3, 0>>
  ELSE IF NearIndex(now) # 0 THEN <<>>
  ELSE LET i == CHOOSE k \in Level :
                  LevelIndex(now, k) # 0 /\ \A j \in 0 .. k - 1 : LevelIndex(now, j) = 0
       IN <<i, LevelIndex(now, i)>>

\* timer_shift
Shifted(now) ==
  LET c == Cascade(now)
  IN IF c = <<>> THEN Wheel ELSE MoveList(Wheel, c[1], c[2], now)

\* node->expire=time+T->time, unsigned.
Expiry(d) == (time + d) % Wrap

\* skynet_timeout of a positive time: timer_add.
Timeout(e, d) ==
  LET w == AddNode(Wheel, e, Expiry(d), time) IN
  /\ expire[e] = -1
  /\ expire' = [expire EXCEPT ![e] = Expiry(d)]
  /\ near' = w.near
  /\ t' = w.t
  /\ UNCHANGED <<time, firing, pc>>

\* timer_execute at the given time: it takes the list and releases the lock
\* to send the events, or goes on.
Execute(w, now, during, after) ==
  /\ firing' = w.near[NearIndex(now)]
  /\ near' = [w.near EXCEPT ![NearIndex(now)] = <<>>]
  /\ t' = w.t
  /\ pc' = IF firing' # <<>> THEN during ELSE after
  /\ UNCHANGED expire

\* timer_update from where it locks the timer to where it unlocks it: at its
\* beginning or after sending.
Update ==
  LET now == (time + 1) % Wrap IN
  /\ firing = <<>>
  /\ IF pc = "late"
     THEN Execute(Wheel, time, "late", "idle") /\ UNCHANGED time
     ELSE IF near[NearIndex(time)] # <<>>
     THEN Execute(Wheel, time, "early", "early") /\ UNCHANGED time
     ELSE Execute(Shifted(now), now, "late", "idle") /\ time' = now

\* dispatch_list sends an event and frees its node.
Send ==
  /\ firing # <<>>
  /\ firing' = Tail(firing)
  /\ expire' = [expire EXCEPT ![Head(firing)] = -1]
  /\ UNCHANGED <<near, t, time, pc>>

Next == Update \/ Send \/ \E e \in Event, d \in Delay : Timeout(e, d)

Spec == Init /\ [][Next]_vars

-----------------------------------------------------------------------------
TypeOK ==
  /\ near \in [0 .. TIME_NEAR - 1 -> Seq(Event)]
  /\ t \in [Level -> [0 .. TIME_LEVEL - 1 -> Seq(Event)]]
  /\ time \in Time
  /\ expire \in [Event -> Time \cup {-1}]
  /\ firing \in Seq(Event)
  /\ pc \in {"idle", "early", "late"}

\* The elements of a list that are in S.
Among(list, S) ==
  LET kept[n \in 0 .. Len(list)] ==
        IF n = 0 THEN <<>>
        ELSE IF list[n] \in S THEN Append(kept[n - 1], list[n]) ELSE kept[n - 1]
  IN kept[Len(list)]

\* The list of w to which an event that expires at x belongs, when it is now.
ListFor(w, x, now) ==
  IF From(x, 0) = From(now, 0) THEN w.near[NearIndex(x)]
  ELSE w.t[LevelOf(x, now)][LevelIndex(x, LevelOf(x, now))]

\* The events that expire at x, in the order of their list.
ExpireAt(x) == Among(ListFor(Wheel, x, time), {e \in Event : expire[e] = x})

\* The ticks until an event expires.
Remaining(e) == (expire[e] - time) % Wrap

Pending == {e \in Event : expire[e] # -1} \ Range(firing)

Promise == INSTANCE Timer WITH
  due <- [d \in {Remaining(e) : e \in Pending} |-> ExpireAt((time + d) % Wrap)],
  ready <- firing

\* Every timeout fires in its tick, neither before nor after, wherever it
\* has to move in the wheel and when the time wraps around; and timeouts of
\* a tick fire in the order in which they were set.
ImplementsTimer == Promise!Spec

\* Every node is in a list whose turn is still to come before the node's
\* tick: none stays behind, to surface a revolution late, and none is where
\* it would be sent early.
NothingLeftBehind ==
  \A e \in Event : expire[e] # -1 =>
    LET x == expire[e] IN
    \/ /\ e \in Range(firing)
       /\ x = time
    \/ /\ e \in Range(near[NearIndex(x)])
       /\ NearIndex(x) > NearIndex(time)
       /\ From(x, 0) = From(time, 0)
    \/ /\ e \in Range(t[3][LevelIndex(x, 3)])
       /\ LevelIndex(x, 3) # LevelIndex(time, 3)
    \/ \E i \in Level \ {3} :
         /\ e \in Range(t[i][LevelIndex(x, i)])
         /\ LevelIndex(x, i) > LevelIndex(time, i)
         /\ From(x, i + 1) = From(time, i + 1)
=============================================================================
