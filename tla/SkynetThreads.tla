--------------------------- MODULE SkynetThreads ---------------------------
(***************************************************************************)
(* The threads of the skynet process (skynet_start.c): workers that sleep  *)
(* on a condition variable when the global queue is empty, the timer and   *)
(* socket threads that wake them up, and the shutdown when the last        *)
(* context is gone.  A ready queue is a unit of work here: what is in it   *)
(* and how it gets there is the matter of SkynetDispatch.                  *)
(*                                                                         *)
(* The mutex protects the counter and the flag below, but the test for an  *)
(* empty global queue, the loop condition of the workers and wakeup read   *)
(* without it.                                                             *)
(***************************************************************************)
EXTENDS Integers, FiniteSets

CONSTANTS Worker,     \* worker threads
          Work,       \* bound of the model: how often a queue gets ready
          Services    \* bound of the model: contexts at a time

VARIABLES
  total,      \* skynet_context_total
  ready,      \* the number of queues in the global queue
  work,       \* how many more may get ready
  sleep,      \* m->sleep
  quit,       \* m->quit
  exitCmd,    \* skynet_socket_exit was called
  pc,         \* the workers
  waiting,    \* workers in pthread_cond_wait that were not woken up
  timer, socket, monitor   \* the other threads

vars == <<total, ready, work, sleep, quit, exitCmd, pc, waiting, timer, socket, monitor>>

count == Cardinality(Worker)

Init ==
  /\ total \in 1 .. Services
  /\ ready = 1
  /\ work = Work
  /\ sleep = 0
  /\ quit = FALSE
  /\ exitCmd = FALSE
  /\ pc = [w \in Worker |-> "loop"]
  /\ waiting = {}
  /\ timer = "update"
  /\ socket = "poll"
  /\ monitor = "check"

\* One more queue gets ready, or none.
MayGetReady ==
  \/ UNCHANGED <<ready, work>>
  \/ /\ work > 0
     /\ work' = work - 1
     /\ ready' = ready + 1

-----------------------------------------------------------------------------

\* A fault: quit is not looked at before waiting.
MayWait_always == TRUE

-----------------------------------------------------------------------------
(***************************************************************************)
(* thread_worker.                                                          *)
(***************************************************************************)
\* while (!m->quit)
Loop(w) ==
  /\ pc[w] = "loop"
  /\ pc' = [pc EXCEPT ![w] = IF quit THEN "exited" ELSE "dispatch"]
  /\ UNCHANGED <<total, ready, work, sleep, quit, exitCmd, waiting, timer, socket, monitor>>

\* skynet_globalmq_pop: something to do, or nothing.
Dispatch(w) ==
  /\ pc[w] = "dispatch"
  /\ IF ready > 0
     THEN ready' = ready - 1 /\ pc' = [pc EXCEPT ![w] = "callback"]
     ELSE UNCHANGED ready /\ pc' = [pc EXCEPT ![w] = "lock"]
  /\ UNCHANGED <<total, work, sleep, quit, exitCmd, waiting, timer, socket, monitor>>

\* The callbacks of a round return.  They have sent messages, launched or
\* ended services; what is left in the queue makes it ready again.
Callback(w) ==
  /\ pc[w] = "callback"
  /\ MayGetReady
  /\ total' \in IF total = 0 THEN {0} ELSE {total - 1, total, total + 1} \cap 0 .. Services
  /\ pc' = [pc EXCEPT ![w] = "loop"]
  /\ UNCHANGED <<sleep, quit, exitCmd, waiting, timer, socket, monitor>>

\* if (!m->quit)
MayWait == ~quit

\* Under the mutex: count the worker as asleep, and wait unless it is time to
\* quit; pthread_cond_wait releases the mutex.
Sleep(w) ==
  /\ pc[w] = "lock"
  /\ IF MayWait
     THEN /\ sleep' = sleep + 1
          /\ waiting' = waiting \cup {w}
          /\ pc' = [pc EXCEPT ![w] = "wait"]
     ELSE /\ UNCHANGED <<sleep, waiting>>
          /\ pc' = [pc EXCEPT ![w] = "loop"]
  /\ UNCHANGED <<total, ready, work, quit, exitCmd, timer, socket, monitor>>

\* A worker woken up gets the mutex again.
Awake(w) ==
  /\ pc[w] = "wait" /\ w \notin waiting
  /\ sleep' = sleep - 1
  /\ pc' = [pc EXCEPT ![w] = "loop"]
  /\ UNCHANGED <<total, ready, work, quit, exitCmd, waiting, timer, socket, monitor>>

\* pthread_cond_wait may return for no reason ("spurious wakeup").
Spurious(w) ==
  /\ w \in waiting
  /\ waiting' = waiting \ {w}
  /\ UNCHANGED <<total, ready, work, sleep, quit, exitCmd, pc, timer, socket, monitor>>

-----------------------------------------------------------------------------
\* The condition of wakeup.
WakeAt(busy) == sleep >= count - busy

\* pthread_cond_signal: one of the workers that wait, if any.
Signal ==
  \/ \E w \in waiting : waiting' = waiting \ {w}
  \/ waiting = {} /\ UNCHANGED waiting

Broadcast == waiting' = {}

(***************************************************************************)
(* thread_timer.                                                           *)
(***************************************************************************)
\* skynet_updatetime: timeouts are sent.
UpdateTime ==
  /\ timer = "update"
  /\ MayGetReady
  /\ timer' = "check"
  /\ UNCHANGED <<total, sleep, quit, exitCmd, pc, waiting, socket, monitor>>

\* CHECK_ABORT, then the test of wakeup(m,m->count-1), then usleep and again.
TimerCheck ==
  /\ timer = "check"
  /\ timer' = IF total = 0 THEN "exit" ELSE IF WakeAt(count - 1) THEN "signal" ELSE "update"
  /\ UNCHANGED <<total, ready, work, sleep, quit, exitCmd, pc, waiting, socket, monitor>>

TimerSignal ==
  /\ timer = "signal"
  /\ Signal
  /\ timer' = "update"
  /\ UNCHANGED <<total, ready, work, sleep, quit, exitCmd, pc, socket, monitor>>

\* skynet_socket_exit
TimerExit ==
  /\ timer = "exit"
  /\ exitCmd' = TRUE
  /\ timer' = "quit"
  /\ UNCHANGED <<total, ready, work, sleep, quit, pc, waiting, socket, monitor>>

\* Under the mutex.
Quit ==
  /\ timer = "quit"
  /\ quit' = TRUE
  /\ Broadcast
  /\ timer' = "done"
  /\ UNCHANGED <<total, ready, work, sleep, exitCmd, pc, socket, monitor>>

-----------------------------------------------------------------------------
(***************************************************************************)
(* thread_socket and thread_monitor.                                       *)
(***************************************************************************)
\* skynet_socket_poll returns 0, 1 with a message sent, or -1.
PollExit ==
  /\ socket = "poll"
  /\ exitCmd
  /\ socket' = "done"
  /\ UNCHANGED <<total, ready, work, sleep, quit, exitCmd, pc, waiting, timer, monitor>>

Poll ==
  /\ socket = "poll"
  /\ MayGetReady
  /\ socket' = IF ready' # ready THEN "wakeup" ELSE "check"
  /\ UNCHANGED <<total, sleep, quit, exitCmd, pc, waiting, timer, monitor>>

SocketCheck ==
  /\ socket = "check"
  /\ socket' = IF total = 0 THEN "done" ELSE "poll"
  /\ UNCHANGED <<total, ready, work, sleep, quit, exitCmd, pc, waiting, timer, monitor>>

\* wakeup(m,0)
SocketWakeup ==
  /\ socket = "wakeup"
  /\ socket' = IF WakeAt(0) THEN "signal" ELSE "poll"
  /\ UNCHANGED <<total, ready, work, sleep, quit, exitCmd, pc, waiting, timer, monitor>>

SocketSignal ==
  /\ socket = "signal"
  /\ Signal
  /\ socket' = "poll"
  /\ UNCHANGED <<total, ready, work, sleep, quit, exitCmd, pc, timer, monitor>>

MonitorCheck ==
  /\ monitor = "check"
  /\ total = 0
  /\ monitor' = "done"
  /\ UNCHANGED <<total, ready, work, sleep, quit, exitCmd, pc, waiting, timer, socket>>

-----------------------------------------------------------------------------
WorkerStep(w) == Loop(w) \/ Dispatch(w) \/ Sleep(w) \/ Awake(w)

TimerStep == UpdateTime \/ TimerCheck \/ TimerSignal \/ TimerExit \/ Quit

SocketStep == SocketCheck \/ SocketWakeup \/ SocketSignal

Next ==
  \/ \E w \in Worker : WorkerStep(w) \/ Callback(w) \/ Spurious(w)
  \/ TimerStep \/ SocketStep \/ PollExit \/ Poll \/ MonitorCheck

Spec == Init /\ [][Next]_vars

\* Threads are scheduled and the socket thread notices its exit command.
\* Nothing says that a callback returns, or that poll does otherwise.
Fairness ==
  /\ \A w \in Worker : WF_vars(WorkerStep(w))
  /\ WF_vars(TimerStep) /\ WF_vars(SocketStep)
  /\ WF_vars(PollExit) /\ WF_vars(MonitorCheck)

FairSpec == Spec /\ Fairness

-----------------------------------------------------------------------------
TypeOK ==
  /\ total \in 0 .. Services
  /\ ready \in 0 .. Work + 1
  /\ work \in 0 .. Work
  /\ sleep \in 0 .. count
  /\ quit \in BOOLEAN
  /\ exitCmd \in BOOLEAN
  /\ pc \in [Worker -> {"loop", "dispatch", "callback", "lock", "wait", "exited"}]
  /\ waiting \subseteq Worker
  /\ timer \in {"update", "check", "signal", "exit", "quit", "done"}
  /\ socket \in {"poll", "check", "wakeup", "signal", "done"}
  /\ monitor \in {"check", "done"}

Busy(w) == pc[w] = "callback"

\* Work does not wait while a worker could do it: a wakeup that comes between
\* a worker's look at the empty queue and its sleep is lost, and wakeup(m,0)
\* of the socket thread wakes nobody unless all sleep, but the timer thread
\* makes up for both, even when the other workers are stuck in callbacks.
WorkTaken ==
  \A n \in 1 .. Work + 1 :
    (ready >= n /\ total > 0) ~> (ready < n \/ total = 0 \/ \A w \in Worker : Busy(w))

\* When the last context is gone, all threads return, so that skynet_start
\* does: no worker falls asleep past the broadcast.
Shutdown ==
  total = 0 ~> /\ \A w \in Worker : pc[w] = "exited" \/ Busy(w)
               /\ timer = "done" /\ socket = "done" /\ monitor = "done"
=============================================================================
