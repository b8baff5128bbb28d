------------------------------ MODULE FifoLock ------------------------------
(* What a critical section promises: one at a time, in the order in which  *)
(* they came.                                                              *)
EXTENDS Sequences

CONSTANT Thread

VARIABLES inside,   \* who is in the critical section
          line      \* who waits, in order

vars == <<inside, line>>

Init == inside = {} /\ line = <<>>

Join(t) == line' = Append(line, t) /\ UNCHANGED inside

Enter(t) == inside = {} /\ line = <<>> /\ inside' = {t} /\ UNCHANGED line

Admit ==
  /\ inside = {} /\ line # <<>>
  /\ inside' = {Head(line)}
  /\ line' = Tail(line)

Leave == inside # {} /\ inside' = {} /\ UNCHANGED line

Next == Admit \/ Leave \/ \E t \in Thread : Join(t) \/ Enter(t)

Spec == Init /\ [][Next]_vars
=============================================================================
