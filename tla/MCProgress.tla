----------------------------- MODULE MCProgress -----------------------------
(***************************************************************************)
(* What must happen in the end in the parts of MCLua, MCConnections,       *)
(* MCTransport and MCShared, each under the fairness its module states.    *)
(* They share no state; on says which of them moves.                       *)
(***************************************************************************)
EXTENDS Naturals, Sequences, TLC

CONSTANTS Nil, c1, c2, c3, r1, p1, Break, Trigger, Timer, n1, n2, q1, q2, Starting, Failure,
          t1, t2, t3, w1, Thread, s1, s2, A, B

VARIABLES
  on,
  status, awaits, session_id_coroutine, session_coroutine_id, sleep_session, watching_session,
  unresponse, wakeups, error_queue, fork_queue, at, current, owed, exited, out, failed, request,
  wasted,
  current_thread, ref, thread_queue, frames, waiting, wakeup_queue, running,
  service, launch, line, asks, given, mailbox, instance, services, replies, proc, of,
  write, read, thread,
  slot, alloc_id, pipe, worker, server, checkctrl, events, peer, wire, told, sent, tries, due,
  closing, ended, broken,
  sock, closed, connecting, auth, queue, disp, serving, result, socket, pc, call, id, fd, after,
  run, ready, bad, moves,
  u, response, package, working, connection, gate, up, down, client, asked, ran, refused, answers,
  U, net, got, aborted, lost, doubled

runtime == <<status, awaits, session_id_coroutine, session_coroutine_id, sleep_session,
             watching_session, unresponse, wakeups, error_queue, fork_queue, at, current, owed,
             exited, out, failed, request, wasted>>
section == <<current_thread, ref, thread_queue, frames, waiting, wakeup_queue, running>>
unique == <<service, launch, line, asks, given, mailbox, instance, services, replies, proc, of>>
rwlock == <<write, read, thread>>
sockets == <<slot, alloc_id, pipe, worker, server, checkctrl, events, peer, wire, told, sent,
             tries, due, closing, ended, broken>>
channel == <<sock, closed, connecting, auth, queue, disp, serving, result, socket, pc, call, id,
             fd, after, run, ready, bad, moves>>
users == <<u, response, package, working, connection, gate, up, down, client, asked, ran,
           refused, answers>>
rudp == <<U, net, got, aborted, lost, doubled>>

Runtime == INSTANCE LuaRuntime WITH
  Coroutine <- {c1, c2}, Session <- {1, 2}, Peer <- {p1}, Request <- {}, Source <- <<>>,
  MaxWakeups <- 1, MaxErrors <- 1, wakeup_queue <- wakeups, running <- current
Section == INSTANCE CriticalSection WITH Coroutine <- {c1, c2, c3}, MaxNesting <- 1
\* The init of n1 asks for n2.
Services == INSTANCE UniqueService WITH
  Name <- {n1, n2}, Needs <- (n1 :> n2 @@ n2 :> Nil), Client <- {q1}, MaxInstances <- 4,
  None <- Nil, Failed <- Failure, queue <- line
Lock == INSTANCE RWLock WITH Thread <- {t1, t2, t3}, pc <- thread
\* The worker that sends is the one that closes.
Socket == INSTANCE SocketServer WITH
  Worker <- {w1}, MAX_SOCKET <- 1, MaxId <- 1, MaxSend <- 3, MaxClose <- 1, Openings <- {"O"},
  Lows <- {FALSE}, Faults <- FALSE, None <- Nil, asked <- closing
Channel == INSTANCE SocketChannel WITH
  Co <- {c1, c2}, BySession <- FALSE, HasAuth <- FALSE, MaxConnection <- 2, MaxRequest <- 5,
  MaxQueue <- 2, MaxBad <- 1, MaxMoves <- 0, None <- Nil, Dispatch <- Thread
\* A client that asks once in each of two sessions and connects twice.
Responses == INSTANCE MsgServer WITH
  Session <- {s1, s2}, expired_number <- 1, Overlap <- FALSE, MaxVersion <- 2, MaxAsked <- 1,
  MaxSent <- 2, MaxPackage <- 2, None <- Nil, sent <- answers
\* One direction, and a package of three is lost.
Losing == INSTANCE Rudp WITH
  GENERAL_PACKAGE <- 1, send_delay <- 1, expired <- 2, Wide <- 65536, Heartbeats <- FALSE,
  Reorder <- FALSE, Drained <- TRUE, SendsA <- 3, SendsB <- 0, MaxNet <- 2, MaxLoss <- 1,
  MaxDouble <- 0

AllInit ==
  /\ on \in {"runtime", "section", "unique", "rwlock", "sockets", "channel", "users", "rudp"}
  /\ Runtime!Init /\ Section!Init /\ Services!Init /\ Lock!Init
  /\ Socket!Init /\ Channel!Init /\ Responses!Init /\ Losing!Init

AllNext ==
  \/ /\ on = "runtime" /\ Runtime!Next
     /\ UNCHANGED <<on, section, unique, rwlock, sockets, channel, users, rudp>>
  \/ /\ on = "section" /\ Section!Next
     /\ UNCHANGED <<on, runtime, unique, rwlock, sockets, channel, users, rudp>>
  \/ /\ on = "unique" /\ Services!Next
     /\ UNCHANGED <<on, runtime, section, rwlock, sockets, channel, users, rudp>>
  \/ /\ on = "rwlock" /\ Lock!Next
     /\ UNCHANGED <<on, runtime, section, unique, sockets, channel, users, rudp>>
  \/ /\ on = "sockets" /\ Socket!Next /\ Socket!Polite
     /\ UNCHANGED <<on, runtime, section, unique, rwlock, channel, users, rudp>>
  \/ /\ on = "channel" /\ Channel!Next
     /\ UNCHANGED <<on, runtime, section, unique, rwlock, sockets, users, rudp>>
  \/ /\ on = "users" /\ Responses!Next
     /\ UNCHANGED <<on, runtime, section, unique, rwlock, sockets, channel, rudp>>
  \/ /\ on = "rudp" /\ Losing!Next
     /\ UNCHANGED <<on, runtime, section, unique, rwlock, sockets, channel, users>>

all == <<on, runtime, section, unique, rwlock, sockets, channel, users, rudp>>

WeakFairness ==
  /\ WF_runtime(on = "runtime" /\ Runtime!Serve)
  /\ \A c \in {c1, c2} : WF_runtime(on = "runtime" /\ (Runtime!Finish(c) \/ Runtime!Throw(c)))
  /\ \A c \in {c1, c2, c3} : /\ WF_section(on = "section" /\ Section!Woken(c))
                           /\ WF_section(on = "section" /\ Section!Suspend(c))
  /\ WF_unique(on = "unique" /\ Services!Launched) /\ WF_unique(on = "unique" /\ Services!Dispatch)
  /\ \A i \in Services!Instance :
       /\ WF_unique(on = "unique" /\ Services!InitAsks(i))
       /\ WF_unique(on = "unique" /\ (Services!InitDone(i) \/ Services!InitFails(i)))
  /\ \A t \in {t1, t2, t3} : WF_rwlock(on = "rwlock" /\ Lock!Step(t))
  /\ WF_sockets(on = "sockets" /\ (Socket!OpenStep(w1) \/ Socket!SendStep(w1)))
  /\ WF_sockets(on = "sockets" /\ Socket!Server)
  /\ WF_channel(on = "channel" /\ \E c \in {c1, c2} : Channel!Step(c))
  /\ WF_channel(on = "channel" /\ Channel!DispatchStep)
  /\ WF_users(on = "users" /\ Responses!Receive)
  /\ \A s \in {s1, s2} : WF_users(on = "users" /\ Responses!AskAgain(s))
  /\ \A p \in Responses!Package : WF_users(on = "users" /\ Responses!Handled(p))
  /\ \A f \in Responses!Fd :
       /\ WF_users(on = "users" /\ Responses!Open(f)) /\ WF_users(on = "users" /\ Responses!auth(f))
       /\ WF_users(on = "users" /\ Responses!disconnect(f))
       /\ WF_users(on = "users" /\ Responses!do_request(f))
  /\ \A e \in {A, B} : WF_rudp(on = "rudp" /\ Losing!Recv(e)) /\ WF_rudp(on = "rudp" /\ Losing!Tick(e))

moving ==
  CASE on = "runtime" -> runtime [] on = "section" -> section [] on = "sockets" -> sockets
    [] on = "channel" -> channel [] on = "rudp" -> rudp [] OTHER -> <<>>
In(part) == on = part /\ UNCHANGED on

\* As only one part moves in a behaviour, one condition serves several parts.
\* What happens to connection k of the channel is one action here: that asks
\* for less than the module does.
Happens(k) == Channel!OpenResult(k) \/ Channel!Data(k) \/ Channel!CloseEvent(k)
StrongFairness ==
  /\ SF_moving(
       \/ In("runtime") /\ (Runtime!Answer(1) \/ Runtime!ErrorOf(1))
       \/ In("section") /\ Section!Resume(c1)
       \/ In("sockets") /\ Socket!Ready
       \/ In("channel") /\ Channel!Timeout(c1)
       \/ In("rudp") /\ Losing!Arrive(A))
  /\ SF_moving(
       \/ In("runtime") /\ (Runtime!Answer(2) \/ Runtime!ErrorOf(2))
       \/ In("section") /\ Section!Resume(c2)
       \/ In("sockets") /\ Socket!SendAll
       \/ In("channel") /\ Channel!Timeout(c2)
       \/ In("rudp") /\ Losing!Arrive(B))
  /\ SF_moving(
       \/ In("section") /\ Section!Resume(c3)
       \/ In("channel") /\ Happens(1))
  /\ SF_moving(
       \/ In("section") /\ Section!Leave(c1)
       \/ In("channel") /\ Happens(2))
  /\ \A c \in {c2, c3} : SF_moving(In("section") /\ Section!Leave(c))

AllSpec == AllInit /\ [][AllNext]_all /\ WeakFairness /\ StrongFairness

-----------------------------------------------------------------------------
\* Every skynet.call returns although the service called may die, and every
\* launch ends for those who wait for it, although init fails or asks for more.
CallersServed ==
  (on = "runtime" => Runtime!CallsReturn) /\ (on = "unique" => Services!LaunchEnds)

\* Who waits for the critical section of skynet.queue gets in; a writer who has
\* set the flag of rwlock.h gets in, and of those who want the lock some do.
WaitersEnter ==
  /\ on = "section" => Section!EachGetsIn
  /\ on = "rwlock" => Lock!WriterEnters /\ Lock!SomebodyEnters

\* A socket that is half closed closes once all is sent, who uses a channel
\* comes back although connections fail, and a client that asks again over its
\* next connection is answered.
ConnectionsServed ==
  /\ on = "sockets" => Socket!HalfCloseEnds
  /\ on = "channel" => Channel!CallsReturn
  /\ on = "users" => Responses!Answered

\* rudp.c: a gap in what was received closes, with the message or with the news
\* that it is missing.
GapCloses == on = "rudp" => Losing!GapCloses
=============================================================================
