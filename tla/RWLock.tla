------------------------------- MODULE RWLock -------------------------------
(***************************************************************************)
(* The lock for readers and writers of rwlock.h, without pthreads: a flag  *)
(* for the writer, and how many readers are in or are trying to get in.    *)
(* Each action is one access to one of the two words.  All of them are     *)
(* atomic operations of the compiler or follow one, so that they take      *)
(* place in one order.                                                     *)
(***************************************************************************)
EXTENDS Integers, FiniteSets

CONSTANT Thread

ASSUME ThreadAssumption == IsFiniteSet(Thread)

VARIABLES
  write,  \* lock->write
  read,   \* lock->read
  pc      \* where a thread is in the functions of the lock

vars == <<write, read, pc>>

\* Readers that are counted, and the one who has set the flag.
Counted == {t \in Thread : pc[t] \in {"added", "reading", "back"}}
Flagged == {t \in Thread : pc[t] \in {"drain", "writing"}}

TypeOK ==
  /\ write \in {0, 1} /\ read \in 0 .. Cardinality(Thread)
  /\ pc \in [Thread -> {"idle", "rlock", "seen", "added", "back", "reading", "wlock", "drain", "writing"}]

Init == write = 0 /\ read = 0 /\ pc = [t \in Thread |-> "idle"]

-----------------------------------------------------------------------------
(***************************************************************************)
(* Faults: forms that definitions below might have had.                    *)
(***************************************************************************)
NoWriter_skipped == TRUE

-----------------------------------------------------------------------------
\* A thread wants the lock.
Want(t) ==
  /\ pc[t] = "idle"
  /\ \E at \in {"rlock", "wlock"} : pc' = [pc EXCEPT ![t] = at]
  /\ UNCHANGED <<write, read>>

\* rlock: wait for the writer.
See(t) ==
  /\ pc[t] = "rlock" /\ write = 0
  /\ pc' = [pc EXCEPT ![t] = "seen"] /\ UNCHANGED <<write, read>>

\* rlock: count this reader.
Add(t) ==
  /\ pc[t] = "seen"
  /\ read' = read + 1
  /\ pc' = [pc EXCEPT ![t] = "added"] /\ UNCHANGED write

\* rlock looks again.
NoWriter == write = 0
Look(t) ==
  /\ pc[t] = "added"
  /\ pc' = [pc EXCEPT ![t] = IF NoWriter THEN "reading" ELSE "back"]
  /\ UNCHANGED <<write, read>>

\* rlock: a writer has come in between.
Back(t) ==
  /\ pc[t] = "back"
  /\ read' = read - 1
  /\ pc' = [pc EXCEPT ![t] = "rlock"] /\ UNCHANGED write

\* wlock: set the flag.
TestAndSet(t) ==
  /\ pc[t] = "wlock" /\ write = 0
  /\ write' = 1
  /\ pc' = [pc EXCEPT ![t] = "drain"] /\ UNCHANGED read

\* wlock: wait for the readers.
Drained(t) ==
  /\ pc[t] = "drain" /\ read = 0
  /\ pc' = [pc EXCEPT ![t] = "writing"] /\ UNCHANGED <<write, read>>

wunlock(t) ==
  /\ pc[t] = "writing"
  /\ write' = 0
  /\ pc' = [pc EXCEPT ![t] = "idle"] /\ UNCHANGED read

runlock(t) ==
  /\ pc[t] = "reading"
  /\ read' = read - 1
  /\ pc' = [pc EXCEPT ![t] = "idle"] /\ UNCHANGED write

Step(t) ==
  \/ See(t) \/ Add(t) \/ Look(t) \/ Back(t) \/ runlock(t)
  \/ TestAndSet(t) \/ Drained(t) \/ wunlock(t)

Next == \E t \in Thread : Want(t) \/ Step(t)

Spec == Init /\ [][Next]_vars

\* Threads that want or have the lock go on; nobody needs to want it.
Fairness == \A t \in Thread : WF_vars(Step(t))
FairSpec == Spec /\ Fairness

-----------------------------------------------------------------------------
\* A writer is alone with what the lock protects.
Exclusion ==
  \A t \in Thread : pc[t] = "writing" => \A o \in Thread \ {t} : pc[o] \notin {"reading", "writing"}

\* The two words tell who is in: nobody leaves the lock taken behind him.
WordsTell ==
  /\ read = Cardinality(Counted)
  /\ write = Cardinality(Flagged)

\* What the lock promises: a writer is alone, and the count of the readers,
\* never beyond the number of threads, and the flag say exactly who is in.
LockSound == TypeOK /\ WordsTell /\ Exclusion

\* A writer that has set the flag gets in, however many readers come.
WriterEnters == \A t \in Thread : pc[t] = "drain" ~> pc[t] = "writing"

\* And no number of threads shuts the others out for good: when one waits,
\* one gets in.
SomebodyEnters ==
  (\E t \in Thread : pc[t] \in {"rlock", "wlock"}) ~> (\E t \in Thread : pc[t] \in {"reading", "writing"})
=============================================================================
