--------------------------- MODULE SocketChannel ---------------------------
(***************************************************************************)
(* A channel to a server (socketchannel.lua): the coroutines of a service  *)
(* share one connection, which is opened when somebody needs it.  Each     *)
(* connection has a dispatch thread, a coroutine that reads the answers    *)
(* and gives them to those who wait.  In order mode the answers come in    *)
(* the order of the requests; in session mode they carry the session.      *)
(*                                                                         *)
(* Only one coroutine runs; it runs until it waits.  Those it wakes up run *)
(* next, in order, then the dispatch thread it has forked, and only then   *)
(* comes the next message.  The other side of the connection answers in    *)
(* order mode in order, may send an answer that cannot be read, and may    *)
(* close.  Left out: backup hosts, the overload warning, answers in        *)
(* several parts, requests without an answer, and response(), which waits  *)
(* for what was not asked for.                                             *)
(***************************************************************************)
EXTENDS Integers, Sequences, FiniteSets, SequencesExt

CONSTANTS
  Co,            \* the coroutines that use the channel
  Dispatch,      \* the coroutine of the dispatch thread
  None,
  BySession,     \* session mode: the channel has a __response function
  HasAuth,       \* the channel has an __auth function
  MaxConnection, \* bound of the model: connections at a time
  MaxRequest,    \* bound of the model: requests on their way at a time
  MaxQueue,      \* bound of the model: nobody starts while the queue is longer
  MaxBad,        \* bound of the model: answers that cannot be read
  MaxMoves       \* bound of the model: calls of connect, close and changehost

Connection == 1 .. MaxConnection
Id == 1 .. MaxRequest
Coroutine == Co \cup {Dispatch}

VARIABLES
  sock, closed,   \* __sock, __closed
  connecting,     \* __connecting: who is connecting, and those who wait for it
  auth,           \* __authcoroutine
  queue,          \* __request and __thread: who waits for which answer
  disp,           \* where the dispatch thread is; none: no __dispatch_thread
  serving,        \* for whom the dispatch thread reads an answer, and on which socket
  result,         \* __result
  socket,         \* socket_pool, and the connections behind it
  pc, call, id, fd,  \* of a coroutine: where it is, what it was called for, its request, its new connection
  after,          \* where a coroutine goes on when which socket is closed
  run, ready,     \* who runs, and who runs next
  bad, moves      \* counters for the bounds

channel == <<sock, closed, connecting, auth>>
thread == <<disp, serving>>
local == <<pc, call, id, fd, after>>
bounds == <<bad, moves>>
vars == <<channel, queue, thread, result, socket, local, run, ready, bounds>>

\* A number no socket has.  (The code counts on.)
Gone == [st |-> "none", ending |-> "no", co |-> None, closing |-> None,
         wire |-> <<>>, buffer |-> <<>>]

Nowhere == [place |-> "idle", on |-> None]

TypeOK ==
  /\ sock \in Connection \cup {None} /\ closed \in BOOLEAN
  /\ connecting \in [by : Co \cup {None}, waiting : Seq(Co)]
  /\ auth \in Co \cup {None}
  /\ queue \in Seq([co : Co \cup {None}, id : Id \cup {None}])
  /\ disp \in {"none", "forked", "loop", "popping", "read", "reading", "failed", "closing", "lost"}
  /\ serving \in [co : Co \cup {None}, on : Connection \cup {None}]
  /\ result \in [Co -> Id \cup {None, 0}]
  /\ socket \in [Connection -> [st : {"none", "opening", "up", "down"}, ending : {"no", "lost", "shut"}, co : Coroutine \cup {None},
                                closing : Coroutine \cup {None}, wire : Seq(Id), buffer : Seq(Id)]]
  /\ pc \in [Co -> {"idle", "check", "queued", "once", "opening", "drain", "end", "fail", "sleep",
                    "recheck", "granted", "waiting", "closing", "sock_err", "raised",
                    "auth_ok", "auth_fail"}]
  /\ call \in [Co -> {None, "request", "connect", "insist"}]
  /\ id \in [Co -> Id \cup {None}]
  /\ fd \in [Co -> Connection \cup {None}]
  /\ after \in [Co -> [place : {"idle", "sock_err", "auth_fail"},
                          on : Connection \cup {None}]]
  /\ run \in Coroutine \cup {None}
  /\ ready \in Seq(Coroutine)
  /\ bad \in 0 .. MaxBad /\ moves \in 0 .. MaxMoves

Init ==
  /\ sock = None /\ closed = FALSE /\ auth = None
  /\ connecting = [by |-> None, waiting |-> <<>>]
  /\ queue = <<>> /\ disp = "none" /\ serving = [co |-> None, on |-> None]
  /\ result = [c \in Co |-> None]
  /\ socket = [k \in Connection |-> Gone]
  /\ pc = [c \in Co |-> "idle"]
  /\ call = [c \in Co |-> None]  /\ id = call /\ fd = call
  /\ after = [c \in Co |-> Nowhere]
  /\ run = None /\ ready = <<>>
  /\ bad = 0 /\ moves = 0

\* The service waits for its next message.
Quiet == run = None /\ ready = <<>> /\ disp # "forked"

Goto(c, place) == pc' = [pc EXCEPT ![c] = place]

\* The signal that ends the dispatch thread, "(true, false) is close signal".
Signal == [co |-> None, id |-> None]

Connected(k) == socket[k].st = "up"

-----------------------------------------------------------------------------

\* A fault: the requests of a connection that ends stay.
Cleared_not == queue

-----------------------------------------------------------------------------
(***************************************************************************)
(* What the functions of the channel share.                                *)
(***************************************************************************)
\* Those to wake: nobody, if there is nobody.
Woken(c) == IF c = None THEN <<>> ELSE <<c>>

\* term_dispatch_thread: what it adds to the queue.
TermSignal == IF ~BySession /\ disp # "none" THEN <<Signal>> ELSE <<>>

\* push_response wakes the dispatch thread if it waits for a request.
Popper(added) == IF added # <<>> /\ disp = "popping" /\ Dispatch \notin Range(ready)
                 THEN <<Dispatch>> ELSE <<>>

\* wakeup_all: everybody in the queue but the close signal gets an error.
Waiters == {i \in DOMAIN queue : queue[i].co # None}
Failed(res) == [c \in Co |-> IF \E i \in Waiters : queue[i].co = c THEN 0 ELSE res[c]]
Cleared == <<>>
\* In which order they run: that of the queue, or that of pairs().
Orders == IF BySession THEN SetToSeqs({queue[i].co : i \in Waiters})
          ELSE {[i \in DOMAIN SelectSeq(queue, LAMBDA e : e # Signal) |->
                   SelectSeq(queue, LAMBDA e : e # Signal)[i].co]}

\* socket.close of k by a waits if k is connected: for the one who reads, or
\* for the message that it is closed.
MustWait(k) == Connected(k)
Shut(k) == IF socket[k].ending = "lost" THEN "lost" ELSE "shut"
CloseSocket(a, k) ==
  socket' = IF ~MustWait(k) THEN [socket EXCEPT ![k] = Gone]
            ELSE IF socket[k].co # None
                 THEN [socket EXCEPT ![k].ending = Shut(k), ![k].closing = a]
            ELSE [socket EXCEPT ![k].ending = Shut(k), ![k].co = a]

\* close_channel_socket by coroutine c, which then goes on at place.
GoOn(c, place) == run' = IF place = "idle" THEN None ELSE c
CloseChannelSocket(c, place) ==
  /\ sock' = None
  /\ IF sock = None
     THEN Goto(c, place) /\ GoOn(c, place) /\ UNCHANGED <<socket, after>>
     ELSE /\ CloseSocket(c, sock)
          /\ IF MustWait(sock)
             THEN /\ Goto(c, "closing") /\ after' = [after EXCEPT ![c] = [place |-> place, on |-> sock]]
                  /\ run' = None
             ELSE Goto(c, place) /\ GoOn(c, place) /\ UNCHANGED after

-----------------------------------------------------------------------------
(***************************************************************************)
(* block_connect and what it calls.                                        *)
(***************************************************************************)
\* check_connection for c.
Verdict(c) ==
  IF sock # None /\ ~Connected(sock) THEN "again"
  ELSE IF sock # None /\ auth \in {None, c} THEN "yes"
  ELSE IF closed THEN "no" ELSE "again"

\* and the socket it closes: one that is not connected, so it does not wait.
DropDead ==
  IF sock # None /\ ~Connected(sock)
  THEN sock' = None /\ socket' = [socket EXCEPT ![sock] = Gone]
  ELSE UNCHANGED <<sock, socket>>

\* "connecting in other coroutine".
Connecting == connecting.by # None

\* The first check, and becoming the one who connects, or one who waits.
BlockConnect(c) ==
  /\ run = c /\ pc[c] = "check"
  /\ DropDead
  /\ \/ Verdict(c) = "yes" /\ Goto(c, "granted") /\ UNCHANGED <<connecting, run>>
     \/ Verdict(c) = "no" /\ Goto(c, "raised") /\ UNCHANGED <<connecting, run>>
     \/ /\ Verdict(c) = "again" /\ Connecting
        /\ connecting' = [connecting EXCEPT !.waiting = Append(@, c)]
        /\ Goto(c, "queued") /\ run' = None
     \/ /\ Verdict(c) = "again" /\ ~Connecting
        /\ connecting' = [connecting EXCEPT !.by = c]
        /\ Goto(c, "once") /\ UNCHANGED run
  /\ UNCHANGED <<closed, auth, queue, thread, result, call, id, fd, after, ready, bounds>>

\* connect_once up to the wait in socket.open.
ConnectOnce(c) ==
  /\ run = c /\ pc[c] = "once"
  /\ IF closed
     THEN Goto(c, "fail") /\ UNCHANGED <<queue, ready, fd, socket, run>>
     ELSE /\ sock = None /\ auth = None   \* asserted
          /\ queue' = queue \o TermSignal
          /\ ready' = ready \o Popper(TermSignal)
          /\ \E k \in Connection :
               /\ socket[k] = Gone /\ \A j \in 1 .. k - 1 : socket[j] # Gone
               /\ socket' = [socket EXCEPT ![k].st = "opening", ![k].co = c]
               /\ fd' = [fd EXCEPT ![c] = k]
          /\ Goto(c, "opening") /\ run' = None
  /\ UNCHANGED <<channel, thread, result, call, id, after, bounds>>

\* socket.open returns.
Opened(c) ==
  /\ run = c /\ pc[c] = "opening"
  /\ IF Connected(fd[c])
     THEN Goto(c, "drain") /\ UNCHANGED <<socket, fd>>
     ELSE /\ Goto(c, "fail")
          /\ socket' = [socket EXCEPT ![fd[c]] = Gone] /\ fd' = [fd EXCEPT ![c] = None]
  /\ UNCHANGED <<channel, queue, thread, result, call, id, after, run, ready, bounds>>

\* The rest of connect_once: it waits for the dispatch thread of the last
\* connection, forks one for this, and has __auth make a request.
Drain(c) ==
  /\ run = c /\ pc[c] = "drain"
  /\ IF disp # "none"
     THEN run' = None /\ UNCHANGED <<sock, auth, disp, pc, fd>>
     ELSE /\ sock' = fd[c] /\ fd' = [fd EXCEPT ![c] = None]
          /\ disp' = "forked"
          /\ auth' = IF HasAuth THEN c ELSE None
          /\ Goto(c, IF HasAuth THEN "check" ELSE "end") /\ UNCHANGED run
  /\ UNCHANGED <<closed, connecting, queue, serving, result, socket, call, id, after, ready, bounds>>

\* __auth is done; "auth may change host, so connect again".
AuthOk(c) ==
  /\ run = c /\ pc[c] = "auth_ok"
  /\ auth' = None
  /\ Goto(c, IF sock = None THEN "once" ELSE "end")
  /\ UNCHANGED <<sock, closed, connecting, queue, thread, result, socket, call, id, fd, after,
                 run, ready, bounds>>

\* __auth has failed, and its socket is closed.
AuthFail(c) ==
  /\ run = c /\ pc[c] = "auth_fail"
  /\ auth' = None /\ Goto(c, "fail")
  /\ UNCHANGED <<sock, closed, connecting, queue, thread, result, socket, call, id, fd, after,
                 run, ready, bounds>>

\* try_connect returns, at once or because the channel was closed; a caller
\* that insists sleeps and tries again.
EndConnect(c) ==
  /\ run = c /\ pc[c] \in {"end", "fail", "sleep"}
  /\ \/ /\ pc[c] = "fail" /\ call[c] = "insist"
        /\ Goto(c, "sleep") /\ run' = None
        /\ UNCHANGED <<connecting, ready>>
     \/ /\ pc[c] = "sleep" /\ ~closed
        /\ Goto(c, "once") /\ UNCHANGED <<connecting, ready, run>>
     \/ /\ pc[c] = "end" \/ (pc[c] = "fail" /\ call[c] # "insist") \/ (pc[c] = "sleep" /\ closed)
        /\ connecting' = [by |-> None, waiting |-> <<>>]
        /\ ready' = ready \o connecting.waiting
        /\ Goto(c, "recheck") /\ UNCHANGED run
  /\ UNCHANGED <<sock, closed, auth, queue, thread, result, socket, call, id, fd, after, bounds>>

\* The second check, of the one who connected and of those who waited.
CheckAgain(c) ==
  /\ run = c /\ pc[c] \in {"recheck", "queued"}
  /\ DropDead
  /\ Goto(c, IF Verdict(c) = "yes" THEN "granted" ELSE "raised")
  /\ UNCHANGED <<closed, connecting, auth, queue, thread, result, call, id, fd, after,
                 run, ready, bounds>>

-----------------------------------------------------------------------------
(***************************************************************************)
(* request, and how a call ends.                                           *)
(***************************************************************************)
\* A number for a request that nothing refers to.  (The code counts on.)
Unused(r) ==
  /\ \A c \in Co : id[c] # r
  /\ \A k \in Connection : r \notin Range(socket[k].wire) \cup Range(socket[k].buffer)

\* socket.write fails if the connection is gone.  Otherwise the request is
\* on its way, and c waits for the answer.
Write(c) ==
  /\ run = c /\ pc[c] = "granted" /\ (call[c] = "request" \/ auth = c)
  /\ IF socket[sock].ending = "lost"
     THEN CloseChannelSocket(c, "sock_err") /\ UNCHANGED <<queue, ready, id>>
     ELSE /\ \E r \in Id :
               /\ Unused(r) /\ \A q \in 1 .. r - 1 : ~Unused(q)
               /\ socket' = [socket EXCEPT ![sock].wire = Append(@, r)]
               /\ queue' = Append(queue, [co |-> c, id |-> r])
               /\ id' = [id EXCEPT ![c] = r]
          /\ ready' = IF BySession THEN ready ELSE ready \o Popper(<<c>>)
          /\ Goto(c, "waiting") /\ run' = None /\ UNCHANGED <<sock, after>>
  /\ UNCHANGED <<closed, connecting, auth, thread, result, call, fd, bounds>>

\* sock_err when the socket is closed.
SockErr(c) ==
  /\ run = c /\ pc[c] = "sock_err"
  /\ result' = Failed(result) /\ queue' = Cleared
  /\ \E q \in Orders : ready' = ready \o q
  /\ Goto(c, "raised")
  /\ UNCHANGED <<channel, thread, socket, call, id, fd, after, run, bounds>>

\* wait_for_response goes on.
Answered(c) ==
  /\ run = c /\ pc[c] = "waiting"
  /\ result' = [result EXCEPT ![c] = None] /\ id' = [id EXCEPT ![c] = None]
  /\ \/ result[c] \in {None, 0} /\ Goto(c, "raised") /\ UNCHANGED <<call, run>>
     \/ /\ result[c] \notin {None, 0} /\ auth = c
        /\ Goto(c, "auth_ok") /\ UNCHANGED <<call, run>>
     \/ /\ result[c] \notin {None, 0} /\ auth # c
        /\ Goto(c, "idle") /\ call' = [call EXCEPT ![c] = None] /\ run' = None
  /\ UNCHANGED <<channel, queue, thread, socket, fd, after, ready, bounds>>

\* An error is raised: __auth fails, or the caller gets it.  A connect that
\* has succeeded returns.
Return(c) ==
  /\ run = c
  /\ \/ /\ pc[c] = "raised" /\ auth = c
        /\ CloseChannelSocket(c, "auth_fail") /\ UNCHANGED call
     \/ /\ pc[c] = "raised" \/ (pc[c] = "granted" /\ call[c] # "request")
        /\ auth # c
        /\ Goto(c, "idle") /\ call' = [call EXCEPT ![c] = None] /\ run' = None
        /\ UNCHANGED <<sock, socket, after>>
  /\ UNCHANGED <<closed, connecting, auth, queue, thread, result, id, fd, ready, bounds>>

\* socket.close goes on.  
CloseEnds(c) ==
  /\ run = c /\ pc[c] = "closing"
  /\ socket' = [socket EXCEPT ![after[c].on] = Gone]
  /\ Goto(c, after[c].place) /\ GoOn(c, after[c].place)
  /\ after' = [after EXCEPT ![c] = Nowhere]
  /\ UNCHANGED <<channel, queue, thread, result, call, id, fd, ready, bounds>>

-----------------------------------------------------------------------------
(***************************************************************************)
(* The dispatch thread.                                                    *)
(***************************************************************************)
\* It starts when those that were woken have run.
Start ==
  /\ run = None /\ ready = <<>> /\ disp = "forked"
  /\ disp' = "loop" /\ run' = Dispatch
  /\ UNCHANGED <<channel, queue, serving, result, socket, local, ready, bounds>>

\* "while self.__sock".
Loop ==
  /\ run = Dispatch /\ disp = "loop"
  /\ IF sock = None THEN disp' = "none" /\ run' = None
     ELSE disp' = (IF BySession THEN "read" ELSE "popping") /\ UNCHANGED run
  /\ UNCHANGED <<channel, queue, serving, result, socket, local, ready, bounds>>

\* pop_response, and the end by the close signal.
Pop ==
  /\ run = Dispatch /\ disp = "popping"
  /\ \/ queue = <<>> /\ run' = None /\ UNCHANGED <<disp, queue, serving, result, ready>>
     \/ /\ queue # <<>> /\ Head(queue) = Signal
        /\ result' = Failed(result) /\ queue' = Cleared
        /\ \E q \in Orders : ready' = ready \o q
        /\ disp' = "none" /\ run' = None /\ UNCHANGED serving
     \/ /\ queue # <<>> /\ Head(queue) # Signal
        /\ serving' = [serving EXCEPT !.co = Head(queue).co] /\ queue' = Tail(queue)
        /\ disp' = "read" /\ UNCHANGED <<result, ready, run>>
  /\ UNCHANGED <<channel, socket, local, bounds>>

\* An answer was read: it goes to the one at the head of the queue, or to
\* the one with its session, if there is one.
Give(r, on) ==
  LET mine == IF BySession THEN {queue[i].co : i \in {j \in DOMAIN queue : queue[j].id = r}}
                           ELSE {serving.co} IN
  /\ result' = [c \in Co |-> IF c \in mine THEN r ELSE result[c]]
  /\ queue' = IF BySession THEN SelectSeq(queue, LAMBDA e : e.id # r) ELSE queue
  /\ ready' = ready \o Woken(socket[on].closing) \o SetToSeq(mine)
  /\ serving' = [co |-> None, on |-> None] /\ disp' = "loop"

\* Reading on a socket: an answer is there, it is one that raises an error,
\* the connection is lost, or the thread waits.
Read ==
  /\ run = Dispatch /\ disp \in {"read", "reading"}
  /\ LET k == IF disp = "read" THEN sock ELSE serving.on IN
     IF k = None
     THEN disp' = "failed" /\ UNCHANGED <<queue, serving, result, socket, run, ready, bad>>
     ELSE \/ /\ socket[k].buffer # <<>>
             /\ Give(Head(socket[k].buffer), k)
             /\ socket' = [socket EXCEPT ![k].buffer = Tail(@)]
             /\ UNCHANGED <<run, bad>>
          \/ /\ (socket[k].buffer = <<>> /\ ~Connected(k)) \/ (socket[k].buffer # <<>> /\ bad < MaxBad)
             /\ bad' = bad + (IF socket[k].buffer # <<>> THEN 1 ELSE 0)
             /\ disp' = "failed" /\ ready' = ready \o Woken(socket[k].closing)
             /\ UNCHANGED <<queue, serving, result, socket, run>>
          \/ /\ socket[k].buffer = <<>> /\ Connected(k)
             /\ socket' = [socket EXCEPT ![k].co = Dispatch]
             /\ serving' = [serving EXCEPT !.on = k]
             /\ disp' = "reading" /\ run' = None
             /\ UNCHANGED <<queue, result, ready, bad>>
  /\ UNCHANGED <<channel, local, moves>>

\* Reading has raised an error: close_channel_socket.
ReadFails ==
  /\ run = Dispatch /\ disp = "failed"
  /\ sock' = None
  /\ IF sock = None THEN disp' = "lost" /\ UNCHANGED <<serving, socket, run>>
     ELSE /\ CloseSocket(Dispatch, sock) /\ serving' = [serving EXCEPT !.on = sock]
          /\ IF MustWait(sock) THEN disp' = "closing" /\ run' = None
                               ELSE disp' = "lost" /\ UNCHANGED run
  /\ UNCHANGED <<closed, connecting, auth, queue, result, local, ready, bounds>>

ReadClosed ==
  /\ run = Dispatch /\ disp = "closing"
  /\ socket' = [socket EXCEPT ![serving.on] = Gone]
  /\ disp' = "lost"
  /\ UNCHANGED <<channel, queue, serving, result, local, run, ready, bounds>>

\* The one who is served and all others get an error.
Lost ==
  /\ run = Dispatch /\ disp = "lost"
  /\ result' = LET res == Failed(result) IN
               IF serving.co = None THEN res ELSE [res EXCEPT ![serving.co] = 0]
  /\ queue' = Cleared
  /\ \E q \in Orders : ready' = ready \o Woken(serving.co) \o q
  /\ serving' = [co |-> None, on |-> None] /\ disp' = "loop"
  /\ UNCHANGED <<channel, socket, local, run, bounds>>

-----------------------------------------------------------------------------
(***************************************************************************)
(* Messages to the service, and what happens outside.                      *)
(***************************************************************************)
\* The next coroutine of wakeup_queue.
Resume ==
  /\ run = None /\ ready # <<>>
  /\ run' = Head(ready) /\ ready' = Tail(ready)
  /\ UNCHANGED <<channel, queue, thread, result, socket, local, bounds>>

\* The end of skynet.yield or of skynet.sleep.
Timeout(c) ==
  /\ Quiet
  /\ pc[c] = "drain" \/ (pc[c] = "sleep" /\ Len(queue) <= MaxQueue)
  /\ run' = c
  /\ UNCHANGED <<channel, queue, thread, result, socket, local, ready, bounds>>

\* Connected, or not.  The message that another connection was lost came
\* before: that one was lost before this was opened.
OpenResult(k) ==
  /\ Quiet /\ socket[k].st = "opening"
  /\ \A j \in Connection : Connected(j) => socket[j].ending # "lost"
  /\ \E st \in {"up", "down"} : socket' = [socket EXCEPT ![k].st = st, ![k].co = None]
  /\ ready' = <<socket[k].co>>
  /\ UNCHANGED <<channel, queue, thread, result, local, run, bounds>>

\* An answer comes, in order mode the next.
Reading(k) == disp = "reading" /\ socket[k].co = Dispatch
Data(k) ==
  /\ Quiet /\ Connected(k)
  /\ \E i \in DOMAIN socket[k].wire :
       /\ BySession \/ i = 1
       /\ socket' = [socket EXCEPT ![k].wire = RemoveAt(@, i),
                                   ![k].buffer = Append(@, socket[k].wire[i]),
                                   ![k].co = IF Reading(k) THEN None ELSE @]
  /\ ready' = IF Reading(k) THEN <<Dispatch>> ELSE <<>>
  /\ UNCHANGED <<channel, queue, thread, result, local, run, bounds>>

\* The connection is gone, but the service has yet to hear of it.
Lose(k) ==
  /\ Connected(k) /\ socket[k].ending = "no"
  /\ socket' = [socket EXCEPT ![k].ending = "lost"]
  /\ UNCHANGED <<channel, queue, thread, result, local, run, ready, bounds>>

\* The message that the socket is closed.
CloseEvent(k) ==
  /\ Quiet /\ Connected(k) /\ socket[k].ending # "no"
  /\ socket' = [socket EXCEPT ![k].st = "down", ![k].co = None]
  /\ ready' = Woken(socket[k].co)
  /\ UNCHANGED <<channel, queue, thread, result, local, run, bounds>>

\* channel:request, and channel:connect, which may insist.
Request(c) ==
  /\ Quiet /\ pc[c] = "idle" /\ Len(queue) <= MaxQueue
  /\ call' = [call EXCEPT ![c] = "request"] /\ Goto(c, "check") /\ run' = c
  /\ UNCHANGED <<channel, queue, thread, result, socket, id, fd, after, ready, bounds>>

Connect(c) ==
  /\ Quiet /\ pc[c] = "idle" /\ Len(queue) <= MaxQueue
  /\ moves < MaxMoves /\ moves' = moves + 1
  /\ closed' = FALSE
  /\ \E how \in {"connect", "insist"} : call' = [call EXCEPT ![c] = how]
  /\ Goto(c, "check") /\ run' = c
  /\ UNCHANGED <<sock, connecting, auth, queue, thread, result, socket, id, fd, after, ready, bad>>

\* channel:close.
Close(c) ==
  /\ Quiet /\ pc[c] = "idle" /\ moves < MaxMoves /\ moves' = moves + 1
  /\ ~closed /\ closed' = TRUE
  /\ queue' = queue \o TermSignal /\ ready' = Popper(TermSignal)
  /\ CloseChannelSocket(c, "idle")
  /\ UNCHANGED <<connecting, auth, thread, result, call, id, fd, bad>>

\* channel:changehost, of a channel that is not closed.
ChangeHost(c) ==
  /\ Quiet /\ pc[c] = "idle" /\ moves < MaxMoves /\ moves' = moves + 1
  /\ ~closed
  /\ CloseChannelSocket(c, "idle")
  /\ UNCHANGED <<closed, connecting, auth, queue, thread, result, call, id, fd, ready, bad>>

\* What a coroutine does of itself, and what the dispatch coroutine does.
Step(c) ==
  \/ BlockConnect(c) \/ ConnectOnce(c) \/ Opened(c) \/ Drain(c) \/ AuthOk(c) \/ AuthFail(c)
  \/ EndConnect(c) \/ CheckAgain(c) \/ Write(c) \/ SockErr(c) \/ Answered(c) \/ Return(c)
  \/ CloseEnds(c)
DispatchStep == Start \/ Loop \/ Pop \/ Read \/ ReadFails \/ ReadClosed \/ Lost \/ Resume

Next ==
  \/ \E c \in Co : Step(c) \/ Timeout(c) \/ Request(c) \/ Connect(c) \/ Close(c) \/ ChangeHost(c)
  \/ DispatchStep
  \/ \E k \in Connection : OpenResult(k) \/ Data(k) \/ Lose(k) \/ CloseEvent(k)

Spec == Init /\ [][Next]_vars

\* The coroutines run and the messages come; the server answers each request
\* or the connection ends.
Fairness ==
  /\ WF_vars(\E c \in Co : Step(c)) /\ WF_vars(DispatchStep)
  /\ \A c \in Co : SF_vars(Timeout(c))
  /\ \A k \in Connection : SF_vars(OpenResult(k)) /\ SF_vars(Data(k)) /\ SF_vars(CloseEvent(k))
FairSpec == Spec /\ Fairness

-----------------------------------------------------------------------------
(***************************************************************************)
(* Properties.                                                             *)
(***************************************************************************)
\* The answer a coroutine gets is the one to its request (dispatch_by_order,
\* which has nothing but the order to tell), whatever has become of earlier
\* connections and of requests that failed.
AnswerIsMine ==
  \A c \in Co : pc[c] = "waiting" => result[c] \in {None, 0, id[c]}

\* "Socket channel should clear request queue when reconnect" (HISTORY.md): a
\* dispatch thread leaves nobody behind, for there is none to serve them, and
\* the next one would take them for requests on its own connection.  (sock_err
\* does it when its socket is closed.)
NobodyForgotten ==
  Quiet /\ disp = "none" =>
    Waiters = {} \/ (\E c \in Co : pc[c] = "closing" /\ after[c].place = "sock_err")

\* The assertions of connect_once and socket.close: whoever connects finds no
\* connection and nobody in __auth, and a socket is closed by one coroutine.
AssertsHold ==
  /\ \A c \in Co : run = c /\ pc[c] = "once" /\ ~closed => sock = None /\ auth = None
  /\ sock # None => socket[sock].closing = None

\* "connecting in other coroutine": he who connects does not wait, in a
\* request of his __auth function, for himself.
OtherConnects == connecting.by # None => connecting.by \notin Range(connecting.waiting)

\* A connection that is open is the one of the channel, or about to be, or it
\* is being closed: none is left behind (connect_once, close_channel_socket).
NoLeak ==
  \A k \in Connection :
    Connected(k) => k = sock \/ socket[k].ending # "no" \/ (\E c \in Co : fd[c] = k)

\* Whoever calls returns.
CallsReturn == \A c \in Co : pc[c] # "idle" ~> pc[c] = "idle"
=============================================================================
