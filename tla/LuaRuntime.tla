---------------------------- MODULE LuaRuntime ----------------------------
(***************************************************************************)
(* The Lua side of one service (skynet.lua): every message is handled by a *)
(* coroutine, which may block in a call, in sleep or in wait and is found  *)
(* again by the session of the message that ends the blocking.  One        *)
(* callback of the service, skynet.dispatch_message, runs many coroutines: *)
(* the one the message is for, those it wakes up, those whose calls failed *)
(* and those it forks.  suspend does that by recursion, and an error that  *)
(* a coroutine does not catch unwinds it.                                  *)
(*                                                                         *)
(* The programs of the coroutines are arbitrary: the one that runs may do  *)
(* whatever the library offers.  Other services and the timer answer in    *)
(* any order.  A session is the least number nothing refers to, where the  *)
(* code counts up.                                                         *)
(***************************************************************************)
EXTENDS Integers, Sequences, FiniteSets

CONSTANTS
  Coroutine,    \* bound of the model: coroutines at a time
  Session,      \* bound of the model: sessions in use at a time, numbers
  Peer,         \* the other services
  Request,      \* the requests others make of this service
  Source,       \* who makes which request, a function from Request to Peer
  MaxWakeups,   \* bound of the model: wakeups waiting or nested in a callback
  MaxErrors,    \* bound of the model: how often another service fails
  Nil, Break, Trigger, Timer

VARIABLES
  status,        \* of a coroutine: free (in the pool), forked, run, call, sleep, wait, quit
  awaits,        \* the local variable session of yield_call, sleep and wait
  session_id_coroutine, session_coroutine_id, sleep_session, watching_session,
  unresponse,    \* requests whose response function is in unresponse
  wakeup_queue, error_queue, fork_queue,
  at,            \* what dispatch_message is doing: idle, run, wake, errors, fork
  running,       \* running_thread, while at is "run"
  owed,          \* calls of suspend in progress that have yet to do dispatch_error_queue
  exited,        \* skynet.exit was called
  out,           \* who may still answer a session
  failed,        \* services that died or were declared dead, and how many more may
  request,       \* history: new, open, answered, twice, forgotten, dropped
  wasted         \* history: a token of wakeup_queue was found not to sleep

tables == <<session_id_coroutine, sleep_session, watching_session>>
requests == <<session_coroutine_id, unresponse, request>>
world == <<out, failed>>
vars == <<status, awaits, tables, requests, world, wakeup_queue, error_queue,
          fork_queue, at, running, owed, exited, wasted>>

Suspended == {"call", "sleep", "wait"}

TypeOK ==
  /\ status \in [Coroutine -> Suspended \cup {"free", "forked", "run", "quit"}]
  /\ awaits \in [Coroutine -> Session \cup {Nil}]
  /\ session_id_coroutine \in [Session -> Coroutine \cup {Break, Nil}]
  /\ session_coroutine_id \in [Coroutine -> Request \cup {0, Nil}]
  /\ sleep_session \in [Coroutine -> Session \cup {Nil}]
  /\ watching_session \in [Session -> Peer \cup {Nil}]
  /\ unresponse \subseteq Request
  /\ wakeup_queue \in Seq(Coroutine) /\ Len(wakeup_queue) <= MaxWakeups
  /\ error_queue \in Seq(Session)
  /\ fork_queue \in Seq(Coroutine \cup {Trigger})
  /\ at \in {"idle", "run", "wake", "errors", "fork"}
  /\ running \in Coroutine \cup {Nil}
  /\ owed \in Nat /\ exited \in BOOLEAN /\ wasted \in BOOLEAN
  /\ out \in [Session -> Peer \cup {Timer, Nil}]
  /\ failed \in [dead : SUBSET Peer, left : 0 .. MaxErrors]
  /\ request \in [Request -> {"new", "open", "answered", "twice", "forgotten", "dropped"}]

Init ==
  /\ status = [c \in Coroutine |-> "free"]
  /\ awaits = [c \in Coroutine |-> Nil]
  /\ session_id_coroutine = [s \in Session |-> Nil]
  /\ session_coroutine_id = [c \in Coroutine |-> Nil]
  /\ sleep_session = [c \in Coroutine |-> Nil]
  /\ watching_session = [s \in Session |-> Nil]
  /\ unresponse = {}
  /\ wakeup_queue = <<>> /\ error_queue = <<>> /\ fork_queue = <<>>
  /\ at = "idle" /\ running = Nil /\ owed = 0 /\ exited = FALSE
  /\ out = [s \in Session |-> Nil]
  /\ failed = [dead |-> {}, left |-> MaxErrors]
  /\ request = [r \in Request |-> "new"]
  /\ wasted = FALSE

InQueue(s) == \E i \in 1 .. Len(error_queue) : error_queue[i] = s

\* A number no message, table or coroutine refers to.
Unused(s) ==
  /\ session_id_coroutine[s] = Nil /\ watching_session[s] = Nil /\ out[s] = Nil
  /\ ~InQueue(s)
  /\ \A c \in Coroutine : awaits[c] # s

\* The next session, the least such number.
NewSession(s) == Unused(s) /\ \A t \in Session : Unused(t) => s <= t

\* c.send of an answer or of an error to the source of each request in R.
Replied(req, R) ==
  [r \in Request |-> IF r \notin R THEN req[r]
                     ELSE IF req[r] = "open" THEN "answered" ELSE "twice"]

-----------------------------------------------------------------------------
(***************************************************************************)
(* Faults: forms that definitions below might have had.                    *)
(***************************************************************************)
ForkTrigger_none(q) == q

Watching_never(s) == FALSE

-----------------------------------------------------------------------------
(***************************************************************************)
(* suspend, and the queues it serves.                                      *)
(***************************************************************************)
\* suspend returns to the call that has yet to serve error_queue, or to
\* dispatch_message.
Return ==
  IF owed > 0 THEN at' = "errors" /\ owed' = owed - 1
              ELSE at' = "fork" /\ UNCHANGED owed

\* coroutine_resume(c): c runs on after its coroutine_yield, which it does by
\* clearing what it was waiting with.  ids is session_id_coroutine by now.
Resume(c, ids) ==
  /\ status' = [status EXCEPT ![c] = "run"]
  /\ awaits' = [awaits EXCEPT ![c] = Nil]
  /\ session_id_coroutine' = IF status[c] = "wait" THEN [ids EXCEPT ![awaits[c]] = Nil] ELSE ids
  /\ watching_session' =
       IF status[c] = "call" THEN [watching_session EXCEPT ![awaits[c]] = Nil] ELSE watching_session
  /\ sleep_session' = IF status[c] = "call" THEN sleep_session ELSE [sleep_session EXCEPT ![c] = Nil]
  /\ running' = c
  /\ at' = "run"

\* What session_id_coroutine holds for a session whose coroutine was woken up.
OnBreak(c) == Break

\* dispatch_wakeup
DispatchWakeup ==
  /\ at = "wake"
  /\ \/ /\ wakeup_queue = <<>>
        /\ at' = "errors"
        /\ UNCHANGED <<status, awaits, tables, wakeup_queue, running, owed, wasted>>
     \/ /\ wakeup_queue # <<>>
        /\ LET c == Head(wakeup_queue)  s == sleep_session[c]
           IN /\ wakeup_queue' = Tail(wakeup_queue)
              /\ IF s = Nil
                 THEN /\ at' = "errors" /\ wasted' = TRUE
                      /\ UNCHANGED <<status, awaits, tables, running, owed>>
                 ELSE /\ Resume(c, [session_id_coroutine EXCEPT ![s] = OnBreak(c)])
                      /\ owed' = owed + 1
                      /\ UNCHANGED wasted
  /\ UNCHANGED <<requests, world, error_queue, fork_queue, exited>>

\* dispatch_error_queue: nothing left to fail ...
NoError ==
  /\ at = "errors" /\ error_queue = <<>>
  /\ Return
  /\ UNCHANGED <<status, awaits, tables, requests, world, wakeup_queue, error_queue,
                 fork_queue, running, exited, wasted>>

\* ... or the next call fails.  Without a coroutine coroutine_resume raises an
\* error, which unwinds all.
DispatchError ==
  /\ at = "errors" /\ error_queue # <<>>
  /\ LET s == Head(error_queue)  c == session_id_coroutine[s]
     IN /\ error_queue' = Tail(error_queue)
        /\ IF c \in Coroutine
           THEN Resume(c, [session_id_coroutine EXCEPT ![s] = Nil]) /\ UNCHANGED owed
           ELSE /\ session_id_coroutine' = [session_id_coroutine EXCEPT ![s] = Nil]
                /\ at' = "fork" /\ owed' = 0
                /\ UNCHANGED <<status, awaits, sleep_session, watching_session, running>>
  /\ UNCHANGED <<requests, world, wakeup_queue, fork_queue, exited, wasted>>

-----------------------------------------------------------------------------
(***************************************************************************)
(* What the running coroutine may do.                                      *)
(***************************************************************************)
Running(c) == at = "run" /\ running = c

\* yield_call, sleep and wait: block on a new session.
Block(c, s, how) ==
  /\ status' = [status EXCEPT ![c] = how]
  /\ awaits' = [awaits EXCEPT ![c] = s]
  /\ session_id_coroutine' = [session_id_coroutine EXCEPT ![s] = c]
  /\ running' = Nil
  /\ at' = "wake"
  /\ UNCHANGED <<requests, failed, wakeup_queue, error_queue, fork_queue, owed, exited, wasted>>

\* skynet.call.  A service that is dead may still have been alive when the
\* message was sent: an error comes back.
Call(c, p) ==
  /\ Running(c)
  /\ \E s \in Session :
       /\ NewSession(s)
       /\ Block(c, s, "call")
       /\ watching_session' = [watching_session EXCEPT ![s] = p]
       /\ out' = [out EXCEPT ![s] = p]
  /\ UNCHANGED sleep_session

\* skynet.sleep and skynet.wait
Sleep(c) ==
  /\ Running(c)
  /\ \E s \in Session :
       /\ NewSession(s)
       /\ sleep_session' = [sleep_session EXCEPT ![c] = s]
       /\ \/ Block(c, s, "sleep") /\ out' = [out EXCEPT ![s] = Timer]
          \/ Block(c, s, "wait") /\ UNCHANGED out
  /\ UNCHANGED watching_session

\* skynet.wakeup
Wakeup(c, d) ==
  /\ Running(c)
  /\ sleep_session[d] # Nil
  /\ owed + Len(wakeup_queue) < MaxWakeups
  /\ wakeup_queue' = Append(wakeup_queue, d)
  /\ UNCHANGED <<status, awaits, tables, requests, world, error_queue, fork_queue,
                 at, running, owed, exited, wasted>>

\* skynet.fork
Fork(c, d) ==
  /\ Running(c)
  /\ status[d] = "free"
  /\ status' = [status EXCEPT ![d] = "forked"]
  /\ fork_queue' = Append(fork_queue, d)
  /\ UNCHANGED <<awaits, tables, requests, world, wakeup_queue, error_queue,
                 at, running, owed, exited, wasted>>

\* session_coroutine_id[c] = nil
ClearSession(c) == [session_coroutine_id EXCEPT ![c] = Nil]

\* skynet.ret.  Without a session it raises an error (Throw).
Ret(c) ==
  /\ Running(c)
  /\ session_coroutine_id[c] # Nil
  /\ session_coroutine_id' = ClearSession(c)
  /\ request' = Replied(request, {session_coroutine_id[c]} \ {0})
  /\ UNCHANGED <<status, awaits, tables, unresponse, world, wakeup_queue, error_queue,
                 fork_queue, at, running, owed, exited, wasted>>

\* skynet.response ...
Response(c) ==
  /\ Running(c)
  /\ session_coroutine_id[c] # Nil
  /\ session_coroutine_id' = ClearSession(c)
  /\ unresponse' = unresponse \cup ({session_coroutine_id[c]} \ {0})
  /\ UNCHANGED <<status, awaits, tables, request, world, wakeup_queue, error_queue,
                 fork_queue, at, running, owed, exited, wasted>>

\* ... and the use of what it returned, by any coroutine.
Respond(c, r) ==
  /\ Running(c)
  /\ r \in unresponse
  /\ unresponse' = unresponse \ {r}
  /\ request' = Replied(request, {r})
  /\ UNCHANGED <<status, awaits, tables, session_coroutine_id, world, wakeup_queue,
                 error_queue, fork_queue, at, running, owed, exited, wasted>>

\* The function of the coroutine returns; the caller may have got no answer.
Finish(c) ==
  /\ Running(c)
  /\ status' = [status EXCEPT ![c] = "free"]
  /\ session_coroutine_id' = [session_coroutine_id EXCEPT ![c] = Nil]
  /\ LET r == session_coroutine_id[c]
     IN request' = IF r \in Request /\ request[r] = "open"
                   THEN [request EXCEPT ![r] = "forgotten"] ELSE request
  /\ running' = Nil
  /\ at' = "wake"
  /\ UNCHANGED <<awaits, tables, unresponse, world, wakeup_queue, error_queue, fork_queue,
                 owed, exited, wasted>>

\* skynet.fork(function() end), to serve the queues after an error
ForkTrigger(q) == Append(q, Trigger)

\* The coroutine raises an error, as a failed call does: an error is the
\* answer, and suspend raises it again, up to dispatch_message.
Throw(c) ==
  /\ Running(c)
  /\ status' = [status EXCEPT ![c] = "free"]
  /\ session_coroutine_id' = [session_coroutine_id EXCEPT ![c] = Nil]
  /\ request' = Replied(request, {session_coroutine_id[c]} \ {0, Nil})
  /\ fork_queue' = ForkTrigger(fork_queue)
  /\ running' = Nil
  /\ at' = "fork" /\ owed' = 0
  /\ UNCHANGED <<awaits, tables, unresponse, world, wakeup_queue, error_queue, exited, wasted>>

\* Whom skynet.exit tells that they get no answer.
Report == ({session_coroutine_id[c] : c \in Coroutine} \ {0, Nil}) \cup unresponse

\* skynet.exit, until coroutine_yield "QUIT".  What others hold of the service
\* is theirs: the error they get, with session 0, is PeerFails in their model.
Exit(c) ==
  /\ Running(c)
  /\ ~exited
  /\ status' = [d \in Coroutine |-> IF d = c THEN "quit"
                                    ELSE IF status[d] = "forked" THEN "free" ELSE status[d]]
  /\ fork_queue' = <<>>
  /\ request' = Replied(request, Report)
  /\ unresponse' = {}
  /\ exited' = TRUE
  /\ running' = Nil
  /\ Return
  /\ UNCHANGED <<awaits, tables, session_coroutine_id, world, wakeup_queue, error_queue, wasted>>

\* dispatch_message after the message: coroutines that were forked.
NextFork ==
  /\ at = "fork"
  /\ \/ /\ fork_queue = <<>>
        /\ at' = "idle"
        /\ UNCHANGED <<status, running, fork_queue>>
     \/ /\ fork_queue # <<>>
        /\ fork_queue' = Tail(fork_queue)
        /\ LET c == Head(fork_queue)
           IN IF c = Trigger
              THEN at' = "wake" /\ UNCHANGED <<status, running>>
              ELSE /\ status' = [status EXCEPT ![c] = "run"]
                   /\ running' = c
                   /\ at' = "run"
  /\ UNCHANGED <<awaits, tables, requests, world, wakeup_queue, error_queue, owed, exited, wasted>>

-----------------------------------------------------------------------------
(***************************************************************************)
(* The messages: raw_dispatch_message.                                     *)
(***************************************************************************)
Idle == at = "idle" /\ ~exited

\* A request, with a coroutine of its own.  Another message, with session 0,
\* is handled in the same way and expects no answer.
Dispatch(c, r) ==
  /\ Idle
  /\ status[c] = "free"
  /\ r # 0 => request[r] = "new"
  /\ status' = [status EXCEPT ![c] = "run"]
  /\ session_coroutine_id' = [session_coroutine_id EXCEPT ![c] = r]
  /\ request' = IF r = 0 THEN request ELSE [request EXCEPT ![r] = "open"]
  /\ running' = c
  /\ at' = "run"
  /\ UNCHANGED <<awaits, tables, unresponse, world, wakeup_queue, error_queue, fork_queue,
                 owed, exited, wasted>>

\* A request of a type the service does not know gets an error.
Refuse(r) ==
  /\ Idle
  /\ request[r] = "new"
  /\ request' = [request EXCEPT ![r] = "answered"]
  /\ at' = "fork"
  /\ UNCHANGED <<status, awaits, tables, session_coroutine_id, unresponse, world, wakeup_queue,
                 error_queue, fork_queue, running, owed, exited, wasted>>

\* A response: to a coroutine, to one that was woken up before, or to none,
\* which is an error.
Answer(s) ==
  /\ Idle
  /\ out[s] # Nil /\ out[s] \notin failed.dead
  /\ out' = [out EXCEPT ![s] = Nil]
  /\ LET c == session_id_coroutine[s]  cleared == [session_id_coroutine EXCEPT ![s] = Nil]
     IN IF c \in Coroutine
        THEN Resume(c, cleared)
        ELSE /\ session_id_coroutine' = cleared
             /\ at' = "fork"
             /\ UNCHANGED <<status, awaits, watching_session, sleep_session, running>>
  /\ UNCHANGED <<requests, failed, wakeup_queue, error_queue, fork_queue, owed, exited, wasted>>

Watching(s) == watching_session[s] # Nil

\* _error_dispatch with a session; its coroutine ends at once.
ErrorOf(s) ==
  /\ Idle
  /\ out[s] \in Peer
  /\ out' = [out EXCEPT ![s] = Nil]
  /\ error_queue' = IF Watching(s) THEN Append(error_queue, s) ELSE error_queue
  /\ at' = "wake"
  /\ UNCHANGED <<status, awaits, tables, requests, failed, wakeup_queue, fork_queue,
                 running, owed, exited, wasted>>

\* _error_dispatch with session 0: p is dead, or skynet.term says so, which the
\* debug protocol may ask for.  The order of pairs is arbitrary.
PeerFails(p) ==
  /\ Idle
  /\ failed.left > 0
  /\ \E dead \in SUBSET {p} :
       failed' = [dead |-> failed.dead \cup dead, left |-> failed.left - 1]
  /\ LET lost == {s \in Session : watching_session[s] = p}
     IN \E order \in [1 .. Cardinality(lost) -> lost] :
          /\ \A s \in lost : \E i \in DOMAIN order : order[i] = s
          /\ error_queue' = error_queue \o order
  /\ LET callers == {r \in unresponse : Source[r] = p}
     IN /\ unresponse' = unresponse \ callers
        /\ request' = [r \in Request |-> IF r \in callers THEN "dropped" ELSE request[r]]
  /\ at' = "wake"
  /\ UNCHANGED <<status, awaits, tables, session_coroutine_id, out, wakeup_queue, fork_queue,
                 running, owed, exited, wasted>>

-----------------------------------------------------------------------------
Step(c) ==
  \/ \E p \in Peer : Call(c, p)
  \/ Sleep(c)
  \/ \E d \in Coroutine : Wakeup(c, d) \/ Fork(c, d)
  \/ Ret(c) \/ Response(c)
  \/ \E r \in Request : Respond(c, r)
  \/ Finish(c) \/ Throw(c) \/ Exit(c)

Serve == DispatchWakeup \/ NoError \/ DispatchError \/ NextFork

Message ==
  \/ \E c \in Coroutine, r \in Request \cup {0} : Dispatch(c, r)
  \/ \E r \in Request : Refuse(r)
  \/ \E s \in Session : Answer(s) \/ ErrorOf(s)
  \/ \E p \in Peer : PeerFails(p)

Next == Serve \/ Message \/ \E c \in Coroutine : Step(c)

(***************************************************************************)
(* Fairness: the callback of a service is run to its end, coroutines do    *)
(* not run for ever, and every call and timer is answered.  The last is    *)
(* strong, as the service has to be idle: other messages may come first.   *)
(***************************************************************************)
Fairness ==
  /\ WF_vars(Serve)
  /\ \A c \in Coroutine : WF_vars(Finish(c) \/ Throw(c))
  /\ \A s \in Session : SF_vars(Answer(s) \/ ErrorOf(s))

Spec == Init /\ [][Next]_vars
FairSpec == Spec /\ Fairness

-----------------------------------------------------------------------------
(***************************************************************************)
(* Properties.                                                             *)
(***************************************************************************)
\* The tables and the coroutines agree: a session leads to a coroutine that
\* is suspended for it, a coroutine suspended in a call or in a sleep is found
\* by the session it awaits, and the sessions watched are those of the calls.
\* So no answer, error or wakeup ever resumes a coroutine that is not waiting
\* for it, or finds none.
SessionsLead ==
  /\ \A s \in Session : LET c == session_id_coroutine[s] IN
       c \in Coroutine => status[c] \in Suspended /\ awaits[c] = s
  /\ \A c \in Coroutine :
       /\ status[c] \in Suspended => session_id_coroutine[awaits[c]] = c
       /\ sleep_session[c] = IF status[c] \in {"sleep", "wait"} THEN awaits[c] ELSE Nil
  /\ \A s \in Session :
       watching_session[s] # Nil <=> \E c \in Coroutine : status[c] = "call" /\ awaits[c] = s
  /\ \A i, j \in 1 .. Len(error_queue) : error_queue[i] = error_queue[j] => i = j
  /\ \A i \in 1 .. Len(error_queue) : watching_session[error_queue[i]] # Nil

\* When the service is done with a message, every call that is known to have
\* failed has returned with the error, whatever the coroutines in between
\* threw or woke up.
FailuresDelivered == Idle => error_queue = <<>>

\* When the service is done with a message, whoever was woken up has run,
\* unless somebody was woken up twice: the second time is served as well, and
\* stops the chain (dispatch_wakeup returns without a SUSPEND).
WakeupsServed == Idle /\ ~wasted => wakeup_queue = <<>>

\* As long as the service lives, a request is answered at most once, and a
\* request is open only while somebody can still answer it.
AnsweredOnce ==
  \A r \in Request :
    /\ request[r] = "twice" => exited
    /\ request[r] = "open" =>
         r \in unresponse \/ \E c \in Coroutine : session_coroutine_id[c] = r

\* When the service exits, nobody is left without an answer.
ExitAnswersAll == exited => \A r \in Request : request[r] # "open"

(***************************************************************************)
(* What keeps them so.                                                     *)
(***************************************************************************)
\* One coroutine runs at a time, and who awaits a session is suspended.
RunsOne ==
  /\ at = "run" => running # Nil
  /\ \A c \in Coroutine :
       /\ status[c] = "run" <=> at = "run" /\ running = c
       /\ awaits[c] # Nil <=> status[c] \in Suspended

\* Who is in fork_queue has not begun, and is there once.
ForksQueued ==
  \A i \in 1 .. Len(fork_queue) : fork_queue[i] # Trigger =>
    /\ status[fork_queue[i]] = "forked"
    /\ \A j \in 1 .. Len(fork_queue) : fork_queue[j] = fork_queue[i] => j = i

\* When dispatch_message comes to the coroutines that were forked, the queues
\* have been served, unless an error unwound it, which left a Trigger there.
QueuesServed ==
  /\ at = "idle" => fork_queue = <<>>
  /\ at = "errors" /\ ~exited => wasted \/ wakeup_queue = <<>>
  /\ at \in {"fork", "idle"} /\ ~exited =>
       \/ \E i \in 1 .. Len(fork_queue) : fork_queue[i] = Trigger
       \/ error_queue = <<>> /\ (wasted \/ wakeup_queue = <<>>)

\* A request is in one coroutine or in unresponse, and open as long as it is.
RequestsHeld ==
  /\ \A c \in Coroutine :
       /\ status[c] \in {"free", "forked"} => session_coroutine_id[c] = Nil
       /\ session_coroutine_id[c] \in Request =>
            /\ session_coroutine_id[c] \notin unresponse
            /\ \A d \in Coroutine : session_coroutine_id[d] = session_coroutine_id[c] => d = c
            /\ exited \/ request[session_coroutine_id[c]] = "open"
  /\ \A r \in unresponse : exited \/ request[r] = "open"

IInv ==
  /\ TypeOK /\ RunsOne /\ ForksQueued /\ QueuesServed
  /\ SessionsLead /\ RequestsHeld /\ AnsweredOnce /\ ExitAnswersAll

\* A call returns, with an answer or an error, unless the service exits.
CallsReturn ==
  \A c \in Coroutine : status[c] = "call" ~> (status[c] # "call" \/ exited)
=============================================================================
