------------------------------- MODULE Timer -------------------------------
(***************************************************************************)
(* What the timer promises: an event set with a delay of d fires in the    *)
(* d-th tick from then, and events that fire in the same tick do so in the *)
(* order in which they were set.                                           *)
(***************************************************************************)
EXTENDS Naturals, Sequences, Functions

CONSTANTS Event, Delay

VARIABLES due,    \* for numbers of ticks: the events due then
          ready   \* the events due in this tick that have not fired yet

vars == <<due, ready>>

Init ==
  /\ due = <<>>
  /\ ready = <<>>

DueIn(d) == IF d \in DOMAIN due THEN due[d] ELSE <<>>

Set(e, d) ==
  /\ e \notin Range(ready)
  /\ \A k \in DOMAIN due : e \notin Range(due[k])
  /\ due' = [k \in DOMAIN due \cup {d} |-> IF k = d THEN Append(DueIn(k), e) ELSE due[k]]
  /\ UNCHANGED ready

\* No tick goes by before all events of the last have fired.
Tick ==
  /\ ready = <<>>
  /\ ready' = DueIn(1)
  /\ due' = [d \in {k - 1 : k \in DOMAIN due \ {1}} |-> due[d + 1]]

Fire ==
  /\ ready # <<>>
  /\ ready' = Tail(ready)
  /\ UNCHANGED due

Next == Tick \/ Fire \/ \E e \in Event, d \in Delay : Set(e, d)

Spec == Init /\ [][Next]_vars
=============================================================================
