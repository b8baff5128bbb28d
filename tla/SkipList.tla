------------------------------ MODULE SkipList ------------------------------
(***************************************************************************)
(* The sorted sets of the game (zset.lua) and the skip list below them     *)
(* (skiplist.c): a linked list for each level, those above skip nodes and  *)
(* count with spans how many.  A table of the members' scores is kept      *)
(* beside it.  Members are numbers, ordered as compareslObj orders them.   *)
(***************************************************************************)
EXTENDS Integers, Sequences, FiniteSets, SequencesExt

CONSTANTS
  Member, Score,
  SKIPLIST_MAXLEVEL,
  HEADER, NULL

Level == 1 .. SKIPLIST_MAXLEVEL

VARIABLES
  sl,   \* the list: its nodes, or NULL, its tail, length and level
  tbl   \* the score of a member, or NULL

vars == <<sl, tbl>>

Init ==
  /\ sl = [node |-> [x \in Member \cup {HEADER} |-> IF x # HEADER THEN NULL ELSE
             [score |-> 0, backward |-> NULL, forward |-> [i \in Level |-> NULL], span |-> [i \in Level |-> 0]]],
           tail |-> NULL, length |-> 0, level |-> 1]
  /\ tbl = [x \in Member |-> NULL]

Nodes(l) == {x \in Member : l.node[x] # NULL}
Node == Nodes(sl)
Forward(l, x, i) == l.node[x].forward[i]
Span(l, x, i) == l.node[x].span[i]

-----------------------------------------------------------------------------
(***************************************************************************)
(* Faults: forms that definitions below might have had.                    *)
(***************************************************************************)
Crossed_whole(rank, i) == rank[i]

-----------------------------------------------------------------------------
(***************************************************************************)
(* Going down the levels.  At each, one goes forward over the nodes of a   *)
(* set, or as long as the rank is at most r; <<x, rank>> is where one is.  *)
(***************************************************************************)
Step(l, at, i) == <<Forward(l, at[1], i), at[2] + Span(l, at[1], i)>>

Place == (Member \cup {HEADER}) \X Int

WalkIn(l, i, over) ==
  LET walk[at \in Place] ==
        IF Forward(l, at[1], i) \in over THEN walk[Step(l, at, i)] ELSE at IN walk

WalkTo(l, i, r) ==
  LET walk[at \in Place] ==
        IF Forward(l, at[1], i) # NULL /\ Step(l, at, i)[2] <= r THEN walk[Step(l, at, i)] ELSE at IN walk

Start == <<HEADER, 0>>
Over(l, set) ==
  LET at[i \in 1 .. l.level] == WalkIn(l, i, set)[IF i = l.level THEN Start ELSE at[i + 1]] IN at
UpTo(l, r) ==
  LET at[i \in 1 .. l.level] == WalkTo(l, i, r)[IF i = l.level THEN Start ELSE at[i + 1]] IN at

Less(l, s, x) == {y \in Nodes(l) : l.node[y].score < s \/ (l.node[y].score = s /\ y < x)}

(***************************************************************************)
(* slInsert into a list l, with a node of h levels.                        *)
(***************************************************************************)
\* How many nodes are between the place where one left level i and the end.
Crossed(rank, i) == rank[1] - rank[i]

\* The span of a level of the header that is new.
Raised(l, i) == l.length

slInsert(l, s, x, h) ==
  LET at == Over(l, Less(l, s, x))
      lower == 1 .. l.level
      update == [i \in Level |-> IF i \in lower THEN at[i][1] ELSE HEADER]
      rank == [i \in Level |-> IF i \in lower THEN at[i][2] ELSE 0]
      span == [i \in Level |-> IF i \in lower THEN Span(l, update[i], i) ELSE Raised(l, i)]
      next == Forward(l, update[1], 1)
      top == IF h > l.level THEN h ELSE l.level
      new == [score |-> s, backward |-> IF update[1] = HEADER THEN NULL ELSE update[1],
              forward |-> [i \in 1 .. h |-> Forward(l, update[i], i)],
              span |-> [i \in 1 .. h |-> span[i] - Crossed(rank, i)]]
      linked(y) == [l.node[y] EXCEPT
        !.backward = IF y = next THEN x ELSE @,
        !.forward = [i \in DOMAIN @ |-> IF i <= h /\ update[i] = y THEN x ELSE @[i]],
        !.span = [i \in DOMAIN @ |-> IF i > top \/ update[i] # y THEN @[i]
                                     ELSE IF i <= h THEN Crossed(rank, i) + 1 ELSE @[i] + 1]] IN
  [node |-> [y \in DOMAIN l.node |-> IF y = x THEN new ELSE IF l.node[y] = NULL THEN NULL ELSE linked(y)],
   tail |-> IF next = NULL THEN x ELSE l.tail, length |-> l.length + 1, level |-> top]

(***************************************************************************)
(* slDeleteNode, on a list l; update is where one left the levels.         *)
(***************************************************************************)
Unlinked(l, x, i, y) == y.span[i] + l.node[x].span[i] - 1

slDeleteNode(l, x, update) ==
  LET gone == l.node[x]
      unlinked(y) == [l.node[y] EXCEPT
        !.backward = IF y = gone.forward[1] THEN gone.backward ELSE @,
        !.forward = [i \in DOMAIN @ |-> IF i <= l.level /\ update[i] = y /\ @[i] = x THEN gone.forward[i] ELSE @[i]],
        !.span = [i \in DOMAIN @ |-> IF i > l.level \/ update[i] # y THEN @[i]
                                     ELSE IF l.node[y].forward[i] = x THEN Unlinked(l, x, i, l.node[y])
                                     ELSE @[i] - 1]]
      node == [y \in DOMAIN l.node |-> IF y = x \/ l.node[y] = NULL THEN NULL ELSE unlinked(y)]
      used == {i \in 1 .. l.level : node[HEADER].forward[i] # NULL} IN
  [node |-> node, length |-> l.length - 1,
   tail |-> IF gone.forward[1] = NULL THEN gone.backward ELSE l.tail,
   level |-> IF used = {} THEN 1 ELSE CHOOSE i \in used : \A j \in used : j <= i]

\* slDelete
Deleted(s, x) ==
  LET at == Over(sl, Less(sl, s, x)) IN
  IF Forward(sl, at[1][1], 1) = x /\ sl.node[x].score = s
  THEN slDeleteNode(sl, x, [i \in 1 .. sl.level |-> at[i][1]]) ELSE sl

\* slDeleteByRank: n nodes from x on.
DeleteFrom(l, x, n, update) ==
  LET cut[k \in 0 .. n] ==   \* what is left, and where one is, after k of them
        IF k = 0 THEN <<l, x>>
        ELSE LET c == cut[k - 1] IN
             IF c[2] = NULL THEN c
             ELSE <<slDeleteNode(c[1], c[2], update), c[1].node[c[2]].forward[1]>> IN
  cut[n][1]

slDeleteByRank(start, end) ==
  LET at == UpTo(sl, start - 1) IN
  DeleteFrom(sl, Forward(sl, at[1][1], 1), end - at[1][2], [i \in 1 .. sl.level |-> at[i][1]])

-----------------------------------------------------------------------------
(***************************************************************************)
(* Questions.                                                              *)
(***************************************************************************)
slGetRank(s, x) ==
  LET at == Over(sl, Less(sl, s, x) \cup {y \in Node : y = x /\ sl.node[y].score = s})
      found == {i \in 1 .. sl.level : at[i][1] = x} IN
  IF found = {} THEN 0 ELSE at[CHOOSE i \in found : \A j \in found : j <= i][2]

slGetNodeByRank(r) ==
  LET at == UpTo(sl, r)
      found == {i \in 1 .. sl.level : at[i][2] = r} IN
  IF r \notin 1 .. sl.length \/ found = {} THEN NULL ELSE at[CHOOSE i \in found : TRUE][1]

\* The nodes from x on that are in the set, forward or backward, at most n.
List(x, n, set, reverse) ==
  LET list[y \in Member \cup {HEADER, NULL}, k \in 0 .. n] ==
        IF y \notin set \/ k = 0 THEN <<>>
        ELSE <<y>> \o list[IF reverse THEN sl.node[y].backward ELSE Forward(sl, y, 1), k - 1] IN
  list[x, n]

get_rank_range(r1, r2) ==
  List(slGetNodeByRank(r1), (IF r1 <= r2 THEN r2 - r1 ELSE r1 - r2) + 1, Node, r1 > r2)

get_score_range(s1, s2) ==
  LET low == IF s1 <= s2 THEN s1 ELSE s2
      high == IF s1 <= s2 THEN s2 ELSE s1
      below == {y \in Node : sl.node[y].score < low}
      upto == {y \in Node : sl.node[y].score <= high}
      none == sl.tail = NULL \/ sl.tail \in below \/ Forward(sl, HEADER, 1) \notin upto IN
  IF none THEN <<>>
  ELSE IF s1 <= s2 THEN List(Forward(sl, Over(sl, below)[1][1], 1), sl.length, upto, FALSE)
  ELSE List(Over(sl, upto)[1][1], sl.length, Node \ below, TRUE)

-----------------------------------------------------------------------------
(***************************************************************************)
(* zset                                                                    *)
(***************************************************************************)
reverse_rank(r) == sl.length - r + 1

\* A member that has another score is deleted first.
add(s, x) ==
  /\ tbl[x] # s
  /\ \E h \in Level : sl' = slInsert(IF tbl[x] = NULL THEN sl ELSE Deleted(tbl[x], x), s, x, h)
  /\ tbl' = [tbl EXCEPT ![x] = s]

rem(x) ==
  /\ tbl[x] # NULL
  /\ sl' = Deleted(tbl[x], x)
  /\ tbl' = [tbl EXCEPT ![x] = NULL]

\* What a list has no more is taken out of the table.
Kept(l) == [x \in Member |-> IF l.node[x] = NULL THEN NULL ELSE tbl[x]]

Cut(from, to) == sl' = slDeleteByRank(from, to) /\ tbl' = Kept(sl')

limit(n) == sl.length > n /\ Cut(n + 1, sl.length)

rev_limit(n) ==
  /\ sl.length > n
  /\ LET a == reverse_rank(n + 1)
         b == reverse_rank(sl.length) IN
     Cut(IF a < b THEN a ELSE b, IF a < b THEN b ELSE a)

Next ==
  \/ \E x \in Member : rem(x) \/ \E s \in Score : add(s, x)
  \/ \E n \in 0 .. Cardinality(Member) - 1 : limit(n) \/ rev_limit(n)

Spec == Init /\ [][Next]_vars

-----------------------------------------------------------------------------
Sorted == SetToSortSeq({x \in Member : tbl[x] # NULL},
                       LAMBDA x, y : tbl[x] < tbl[y] \/ (tbl[x] = tbl[y] /\ x < y))

TypeOK ==
  /\ sl.length = Cardinality(Node) /\ sl.level \in Level
  /\ \A x \in Node : tbl[x] = sl.node[x].score

\* Every level of the list is a part of the sorted members, the lowest one
\* all of them; every span counts the steps below it, or those to the end.
LevelsAgree ==
  \A x \in Node \cup {HEADER} : \A i \in DOMAIN sl.node[x].forward \cap 1 .. sl.level :
    LET at == IF x = HEADER THEN 0 ELSE IndexFirstSubSeq(<<x>>, Sorted)
        after == {j \in at + 1 .. Len(Sorted) : i \in DOMAIN sl.node[Sorted[j]].forward} IN
    IF after = {} THEN Forward(sl, x, i) = NULL /\ Span(sl, x, i) = Len(Sorted) - at
    ELSE LET j == CHOOSE j \in after : \A k \in after : j <= k IN
         Forward(sl, x, i) = Sorted[j] /\ Span(sl, x, i) = j - at

\* A member's rank is its place, and ranks lead back to members.
RanksExact ==
  /\ \A x \in Member : tbl[x] # NULL => slGetRank(tbl[x], x) = IndexFirstSubSeq(<<x>>, Sorted)
  /\ \A r \in 0 .. Len(Sorted) + 1 : slGetNodeByRank(r) = IF r \in DOMAIN Sorted THEN Sorted[r] ELSE NULL

\* Ranges by rank and by score, in both directions, are what they are of the
\* sorted members.
RangesExact ==
  /\ \A r1, r2 \in DOMAIN Sorted :
       get_rank_range(r1, r2) = IF r1 <= r2 THEN SubSeq(Sorted, r1, r2) ELSE Reverse(SubSeq(Sorted, r2, r1))
  /\ \A r1, r2 \in DOMAIN Sorted : r1 <= r2 =>
       get_rank_range(reverse_rank(r1), reverse_rank(r2)) = SubSeq(Reverse(Sorted), r1, r2)
  /\ \A s1, s2 \in Score :
       LET within == SelectSeq(Sorted, LAMBDA x : tbl[x] >= s1 /\ tbl[x] <= s2) IN
       s1 <= s2 => get_score_range(s1, s2) = within /\ (s1 < s2 => get_score_range(s2, s1) = Reverse(within))

\* The list and the table together do what a set of members with scores does.
Abstract == INSTANCE SortedSet WITH score <- [x \in Member |-> IF x \in Node THEN sl.node[x].score ELSE NULL]
ImplementsSortedSet == Abstract!Spec
=============================================================================
