---------------------------- MODULE MCScheduling ----------------------------
(***************************************************************************)
(* What must happen in the end, in the three parts that schedule the work  *)
(* of the process: the dispatch of messages, the threads that sleep and    *)
(* wake up, and the monitor of a worker.  They share no state; on says     *)
(* which of them moves, while the others rest as they began.               *)
(***************************************************************************)
EXTENDS MCSkynetDispatch

CONSTANTS t1, t2, t3, s1, s2

VARIABLES
  on,
  total, ready, work, sleep, quit, exitCmd, threadPc, waiting, timer, socket, monitorThread,
  version, checked, destination, worker, running, check, named, endless, recent

threads == <<total, ready, work, sleep, quit, exitCmd, threadPc, waiting, timer, socket,
             monitorThread>>
monitor == <<version, checked, destination, worker, running, check, named, endless, recent>>

\* Three workers, one more queue getting ready, one service at most.
Threads == INSTANCE SkynetThreads WITH
  Worker <- {t1, t2, t3}, Work <- 1, Services <- 1, pc <- threadPc, monitor <- monitorThread

\* The callbacks of two services, four versions.
Monitor == INSTANCE EndlessMonitor WITH
  Services <- {s1, s2}, MaxVersion <- 4, monitor <- check

AllInit ==
  /\ on \in {"dispatch", "threads", "monitor"}
  /\ Init /\ Threads!Init /\ Monitor!Init

AllNext ==
  \/ on = "dispatch" /\ Next /\ UNCHANGED <<on, threads, monitor>>
  \/ on = "threads" /\ Threads!Next /\ UNCHANGED <<on, vars, monitor>>
  \/ on = "monitor" /\ Monitor!Next /\ UNCHANGED <<on, vars, threads>>

\* The fairness of each part.
AllFairness ==
  /\ \A t \in Thread :
       /\ WF_vars(on = "dispatch" /\ Step(t))
       /\ SF_vars(on = "dispatch" /\ Return(t))
       /\ SF_vars(on = "dispatch" /\ (InitOk(t) \/ InitFail(t)))
  /\ \A t \in {t1, t2, t3} : WF_threads(on = "threads" /\ Threads!WorkerStep(t))
  /\ WF_threads(on = "threads" /\ Threads!TimerStep)
  /\ WF_threads(on = "threads" /\ Threads!SocketStep)
  /\ WF_threads(on = "threads" /\ Threads!PollExit)
  /\ WF_threads(on = "threads" /\ Threads!MonitorCheck)
  /\ WF_monitor(on = "monitor" /\ Monitor!Look)
  /\ WF_monitor(on = "monitor" /\ Monitor!Test)
  /\ WF_monitor(on = "monitor" /\ Monitor!Mark)
  /\ WF_monitor(on = "monitor" /\ Monitor!CountUp)

AllSpec == AllInit /\ [][AllNext]_<<on, vars, threads, monitor>> /\ AllFairness

-----------------------------------------------------------------------------
\* skynet_start.c: work that was announced finds a worker awake, although the
\* announcement looks at the sleepers without the lock, and the process ends
\* when the last service has: no worker sleeps through the broadcast.
SleepersWake == []Threads!TypeOK /\ (on = "threads" => Threads!WorkTaken /\ Threads!Shutdown)

\* skynet_monitor.c: the check reads what the worker writes without a lock.  A
\* callback that does not return is found, and the service that is marked has
\* been in a callback since the last check.
EndlessFound ==
  []Monitor!TypeOK /\ Monitor!MarksRecent /\ (on = "monitor" => Monitor!FindsEndless)
=============================================================================
