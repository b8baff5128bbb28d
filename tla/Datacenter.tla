----------------------------- MODULE Datacenter -----------------------------
(***************************************************************************)
(* The data center of a cluster (datacenterd.lua): a tree of values, each  *)
(* at a path of keys, and a tree of those who wait for a value.  A node of *)
(* that one is a queue of callers or a branch with nodes below it.         *)
(*                                                                         *)
(* Both trees are functions of the paths.  A value is a number, as keys    *)
(* may be too: tables as values are not modelled.                          *)
(***************************************************************************)
EXTENDS Integers, Sequences, FiniteSets, SequencesExt

CONSTANTS
  Path,    \* paths that the callers use
  Leaf,    \* values
  Caller,
  NULL, TABLE, FAILED

VARIABLES
  database,    \* of a path: a value, TABLE or NULL
  wait_queue,  \* of a path: "queue", "branch" or "none"
  waiting,     \* the path for which a caller waits, or NULL
  got          \* the last answer a caller got

vars == <<database, wait_queue, waiting, got>>

Node == (UNION {Prefixes(p) : p \in Path}) \ {<<>>}
Above(p) == {q \in Node : IsStrictPrefix(q, p)}
Below(p) == {q \in Node : IsStrictPrefix(p, q)}

TypeOK ==
  /\ \A p \in Node : database[p] # NULL => \A q \in Above(p) : database[q] = TABLE
  /\ \A p \in Node : wait_queue[p] # "none" => \A q \in Above(p) : wait_queue[q] = "branch"
  /\ \A c \in Caller : waiting[c] # NULL => wait_queue[waiting[c]] = "queue"

Init ==
  /\ database = [p \in Node |-> NULL] /\ wait_queue = [p \in Node |-> "none"]
  /\ waiting = [c \in Caller |-> NULL] /\ got = waiting

-----------------------------------------------------------------------------
(***************************************************************************)
(* Faults: forms that definitions below might have had.                    *)
(***************************************************************************)
Woken_first(p) == {CHOOSE c \in Caller : waiting[c] = p}

-----------------------------------------------------------------------------
\* command.QUERY: of the keys after the first one, each looks into what the
\* one before has found.
QUERY(p) ==
  IF database[SubSeq(p, 1, 1)] = NULL THEN NULL
  ELSE IF \E q \in Above(p) : database[q] # TABLE THEN FAILED
  ELSE database[p]

\* The branches that lead to a caller who waits for p.
Branches(p) == Above(p)

\* waitfor refuses a caller: "assert(q[mode] ==" for "queue" or "branch".
Refused(p) == wait_queue[p] = "branch" \/ \E q \in Above(p) : wait_queue[q] = "queue"

\* WAIT of a caller.
Fails(c, p) ==
  got' = [got EXCEPT ![c] = FAILED] /\ UNCHANGED <<wait_queue, waiting>>

WAIT(c, p) ==
  /\ waiting[c] = NULL
  /\ \/ QUERY(p) = FAILED /\ Fails(c, p)
     \/ QUERY(p) \notin {FAILED, NULL} /\ got' = [got EXCEPT ![c] = QUERY(p)] /\ UNCHANGED <<wait_queue, waiting>>
     \/ /\ QUERY(p) = NULL
        /\ \/ Refused(p) /\ Fails(c, p)
           \/ /\ ~Refused(p)
              /\ wait_queue' = [q \in Node |-> IF q = p THEN "queue"
                                               ELSE IF q \in Branches(p) THEN "branch" ELSE wait_queue[q]]
              /\ waiting' = [waiting EXCEPT ![c] = p]
              /\ UNCHANGED got
  /\ UNCHANGED database

\* Those who are in the queue at p.
Woken(p) == {c \in Caller : waiting[c] = p}

\* wakeup: it goes down the keys of the path, and then the value, as long as
\* there are branches; a queue it comes to is emptied.
Queue(keys) == {p \in Node : IsPrefix(p, keys) /\ wait_queue[p] = "queue"}

\* Only the value is left after the key of the queue.
IsLast(keys, p) == Len(keys) = Len(p) + 1

wakeup(keys, v) ==
  IF Queue(keys) = {} THEN UNCHANGED <<wait_queue, waiting, got>>
  ELSE \E p \in Queue(keys) :
         /\ wait_queue' = [wait_queue EXCEPT ![p] = "none"]
         /\ waiting' = [c \in Caller |-> IF c \in Woken(p) THEN NULL ELSE waiting[c]]
         /\ got' = [c \in Caller |-> IF c \notin Woken(p) THEN got[c]
                                     ELSE IF IsLast(keys, p) THEN v ELSE FAILED]

\* command.UPDATE: nothing is done when a path leads through a value.
UPDATE(p, v) ==
  /\ \A q \in Above(p) : database[q] \in {NULL, TABLE}
  /\ database' = [q \in Node |-> IF q = p THEN v
                                 ELSE IF q \in Above(p) THEN TABLE
                                 ELSE IF q \in Below(p) THEN NULL ELSE database[q]]
  /\ IF database[p] # NULL \/ v = NULL THEN UNCHANGED <<wait_queue, waiting, got>>
     ELSE wakeup(Append(p, v), v)

Next == \E p \in Path : (\E v \in Leaf \cup {NULL} : UPDATE(p, v)) \/ \E c \in Caller : WAIT(c, p)

Spec == Init /\ [][Next]_vars

-----------------------------------------------------------------------------
\* For names none of which leads through another one, the tree and its queues
\* do what a table of names would do.
Names == INSTANCE Registry WITH value <- [p \in Path |-> database[p]]
ImplementsRegistry == Names!Spec

\* Who waits, waits for something that is not there: no update passes a
\* caller by.
NoneInVain == \A c \in Caller : waiting[c] # NULL => QUERY(waiting[c]) \notin Leaf

\* Who is woken gets the value that his own path has now, or an error.
RightValue ==
  [][\A c \in Caller : waiting[c] # NULL /\ waiting'[c] = NULL =>
       got'[c] \in {FAILED, database'[waiting[c]]}]_vars
(***************************************************************************)
(* What is inductive                                                       *)
(***************************************************************************)
Typed ==
  /\ database \in [Node -> Leaf \cup {NULL, TABLE}]
  /\ wait_queue \in [Node -> {"queue", "branch", "none"}]
  /\ waiting \in [Caller -> Node \cup {NULL}]
  /\ got \in [Caller -> Leaf \cup {NULL, TABLE, FAILED}]

Inv == Typed /\ TypeOK

\* And for names, as above: a name is not a table and has callers or none, the
\* nodes above it are tables or nothing and have branches or none; who waits for a
\* name, does so as long as it has no value.
NamesApart ==
  /\ \A p \in Path : database[p] # TABLE /\ wait_queue[p] # "branch"
  /\ \A p \in Path : \A q \in Above(p) : database[q] \in {NULL, TABLE} /\ wait_queue[q] # "queue"
  /\ \A c \in Caller : waiting[c] # NULL => waiting[c] \in Path /\ database[waiting[c]] = NULL

=============================================================================
