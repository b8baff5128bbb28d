------------------------------ MODULE SortedSet ------------------------------
(***************************************************************************)
(* What zset promises: members with scores, ordered by score and then by   *)
(* themselves, that can be cut to the first or the last ones.              *)
(***************************************************************************)
EXTENDS Integers, FiniteSets

CONSTANTS Member, Score, NULL

VARIABLE score  \* of a member, or NULL

In == {x \in Member : score[x] # NULL}
Before(x, y) == score[x] < score[y] \/ (score[x] = score[y] /\ x < y)
Rank(x) == Cardinality({y \in In : Before(y, x)}) + 1
RevRank(x) == Cardinality(In) - Rank(x) + 1

Init == score = [x \in Member |-> NULL]

Put(x, s) == score' = [score EXCEPT ![x] = s]
Limit(n) == score' = [x \in Member |-> IF x \in In /\ Rank(x) > n THEN NULL ELSE score[x]]
RevLimit(n) == score' = [x \in Member |-> IF x \in In /\ RevRank(x) > n THEN NULL ELSE score[x]]

Next ==
  \/ \E x \in Member, s \in Score \cup {NULL} : Put(x, s)
  \/ \E n \in 0 .. Cardinality(Member) : Limit(n) \/ RevLimit(n)

Spec == Init /\ [][Next]_score
=============================================================================
