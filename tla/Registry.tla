------------------------------ MODULE Registry ------------------------------
(***************************************************************************)
(* What the data center promises to services that agree on names: a name   *)
(* has one value or none, and who waits for a name gets the first value    *)
(* that it is given.                                                       *)
(***************************************************************************)
CONSTANTS Path, Leaf, Caller, NULL

VARIABLES
  value,    \* of a name, or NULL
  waiting,  \* the name for which a caller waits, or NULL
  got       \* the last answer a caller got

vars == <<value, waiting, got>>

Init ==
  /\ value = [p \in Path |-> NULL]
  /\ waiting = [c \in Caller |-> NULL] /\ got = [c \in Caller |-> NULL]

Set(p, v) ==
  /\ value' = [value EXCEPT ![p] = v]
  /\ IF v = NULL \/ value[p] # NULL THEN UNCHANGED <<waiting, got>>
     ELSE /\ waiting' = [c \in Caller |-> IF waiting[c] = p THEN NULL ELSE waiting[c]]
          /\ got' = [c \in Caller |-> IF waiting[c] = p THEN v ELSE got[c]]

Wait(c, p) ==
  /\ waiting[c] = NULL
  /\ IF value[p] = NULL THEN waiting' = [waiting EXCEPT ![c] = p] /\ UNCHANGED got
     ELSE got' = [got EXCEPT ![c] = value[p]] /\ UNCHANGED waiting
  /\ UNCHANGED value

Next == \E p \in Path : (\E v \in Leaf \cup {NULL} : Set(p, v)) \/ \E c \in Caller : Wait(c, p)

Spec == Init /\ [][Next]_vars
=============================================================================
