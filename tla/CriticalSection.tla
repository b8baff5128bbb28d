-------------------------- MODULE CriticalSection --------------------------
(***************************************************************************)
(* skynet.queue: a critical section for the coroutines of one service      *)
(* (queue.lua).  Coroutines change only where they suspend, so an action   *)
(* is what one does from there to the next suspension or to the next point *)
(* at which the queue is used.  Whoever was woken up runs before the next  *)
(* message does (LuaRuntime: WakeupsServed).                               *)
(***************************************************************************)
EXTENDS Integers, Sequences

CONSTANTS Coroutine,
          MaxNesting,   \* bound of the model: calls of the queue inside each other
          Nil

ASSUME NilAssumption == Nil \notin Coroutine
ASSUME NestingAssumption == MaxNesting \in Nat

VARIABLES
  current_thread, ref, thread_queue,   \* the upvalues of the closure
  frames,         \* how many calls of f each coroutine is in
  waiting,        \* coroutines in the skynet.wait of the queue
  wakeup_queue,   \* of skynet.lua
  running         \* the coroutine that runs, or Nil

vars == <<current_thread, ref, thread_queue, frames, waiting, wakeup_queue, running>>

TypeOK ==
  /\ current_thread \in Coroutine \cup {Nil}
  /\ ref \in Nat
  /\ thread_queue \in Seq(Coroutine)
  /\ frames \in [Coroutine -> Nat]
  /\ waiting \subseteq Coroutine
  /\ wakeup_queue \in Seq(Coroutine)
  /\ running \in Coroutine \cup {Nil}

Init ==
  /\ current_thread = Nil /\ ref = 0 /\ thread_queue = <<>>
  /\ frames = [c \in Coroutine |-> 0]
  /\ waiting = {} /\ wakeup_queue = <<>>
  /\ running = Nil

-----------------------------------------------------------------------------
\* Faults: the count is looked at instead of the owner; nobody is next; the
\* first is not taken out of the line.
Occupied_running(c) == ref > 0 /\ current_thread # c

NextInLine_none == Nil

Rest_all == thread_queue

-----------------------------------------------------------------------------
\* current_thread and current_thread ~= thread
Occupied(c) == current_thread # Nil /\ current_thread # c

Entered == ref + 1

\* The start of the function skynet.queue returns: wait, or go on to f.
Enter(c) ==
  /\ running = c
  /\ frames[c] < MaxNesting
  /\ IF Occupied(c)
     THEN /\ thread_queue' = Append(thread_queue, c)
          /\ waiting' = waiting \cup {c}
          /\ running' = Nil
          /\ UNCHANGED <<current_thread, ref, frames>>
     ELSE /\ current_thread' = c
          /\ ref' = Entered
          /\ frames' = [frames EXCEPT ![c] = @ + 1]
          /\ UNCHANGED <<thread_queue, waiting, running>>
  /\ UNCHANGED wakeup_queue

\* skynet.wait returns: assert(ref == 0), and go on to f.  A coroutine that
\* fails the assertion ends.
Woken(c) ==
  /\ running = Nil
  /\ wakeup_queue # <<>> /\ c = Head(wakeup_queue)
  /\ wakeup_queue' = Tail(wakeup_queue)
  /\ waiting' = waiting \ {c}
  /\ IF ref = 0
     THEN /\ current_thread' = c
          /\ ref' = 1
          /\ frames' = [frames EXCEPT ![c] = 1]
          /\ running' = c
     ELSE UNCHANGED <<current_thread, ref, frames, running>>
  /\ UNCHANGED thread_queue

\* table.remove(thread_queue, 1)
NextInLine == IF thread_queue = <<>> THEN Nil ELSE Head(thread_queue)
Rest == IF thread_queue = <<>> THEN <<>> ELSE Tail(thread_queue)

\* xpcall_ret, whether f returns or throws.  An error is raised again
\* afterwards, and makes no difference to the queue.
Leave(c) ==
  /\ running = c
  /\ frames[c] > 0
  /\ frames' = [frames EXCEPT ![c] = @ - 1]
  /\ ref' = ref - 1
  /\ IF ref = 1
     THEN /\ current_thread' = NextInLine
          /\ thread_queue' = Rest
          /\ wakeup_queue' = IF NextInLine \in waiting THEN Append(wakeup_queue, NextInLine)
                                                       ELSE wakeup_queue
     ELSE UNCHANGED <<current_thread, thread_queue, wakeup_queue>>
  /\ UNCHANGED <<waiting, running>>

\* The coroutine blocks in a call, inside f or not, or ends, outside f.
Suspend(c) ==
  /\ running = c
  /\ running' = Nil
  /\ UNCHANGED <<current_thread, ref, thread_queue, frames, waiting, wakeup_queue>>

\* A message starts a coroutine or ends its blocking.
Resume(c) ==
  /\ running = Nil /\ wakeup_queue = <<>>
  /\ c \notin waiting
  /\ running' = c
  /\ UNCHANGED <<current_thread, ref, thread_queue, frames, waiting, wakeup_queue>>

Next == \E c \in Coroutine : Enter(c) \/ Woken(c) \/ Leave(c) \/ Suspend(c) \/ Resume(c)

Spec == Init /\ [][Next]_vars

(***************************************************************************)
(* Fairness: coroutines are resumed and run until they suspend, and every  *)
(* call of f ends, if the coroutine gets to run time and again.            *)
(***************************************************************************)
Fairness ==
  \A c \in Coroutine :
    /\ WF_vars(Woken(c)) /\ WF_vars(Suspend(c))
    /\ SF_vars(Resume(c))
    /\ \A n \in 1 .. MaxNesting : SF_vars(Leave(c) /\ frames[c] = n)

FairSpec == Spec /\ Fairness

-----------------------------------------------------------------------------
\* Between xpcall_ret and the resumption of the next one, the critical section
\* is his although nobody is in it.
Granted == ref = 0 /\ current_thread # Nil

Lock == INSTANCE FifoLock WITH
  Thread <- Coroutine,
  inside <- {c \in Coroutine : frames[c] > 0},
  line <- (IF Granted THEN <<current_thread>> ELSE <<>>) \o thread_queue

\* At most one coroutine is in f, also while it is blocked there, and they
\* come in in order: nobody overtakes one that was woken up and has not run
\* yet.
ImplementsLock == Lock!Spec

\* The one the critical section was handed to is waiting and has been woken
\* up, so that its wait returns and finds assert(ref == 0) true.
HandoverReaches ==
  /\ Granted => wakeup_queue = <<current_thread>> /\ current_thread \in waiting
  /\ wakeup_queue # <<>> => Granted

\* Whoever waits gets in.
EachGetsIn == \A c \in Coroutine : c \in waiting ~> frames[c] > 0

=============================================================================
