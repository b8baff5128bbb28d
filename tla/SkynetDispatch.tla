--------------------------- MODULE SkynetDispatch ---------------------------
(***************************************************************************)
(* Message dispatch of the skynet runtime: service contexts and their      *)
(* reference counts (skynet_server.c), the per-service message queues and  *)
(* the global queue of ready queues (skynet_mq.c), registration, grab and  *)
(* retirement of handles (skynet_handle.c), and the loop of the worker     *)
(* threads (skynet_start.c).                                               *)
(*                                                                         *)
(* Every action is what one thread does under one lock, or with one atomic *)
(* instruction.  A queue's ring buffer is a sequence here (MessageRing     *)
(* models the buffer); idle workers poll (SkynetThreads has them sleep).   *)
(***************************************************************************)
EXTENDS Integers, Sequences, FiniteSets, Functions

CONSTANTS Worker,    \* worker threads
          Agent,     \* the other threads: main (bootstrap), timer, socket;
                     \* they send as the system and launch services, also
                     \* for a callback that waits for its LAUNCH to return
          Handle,    \* handles still to be given out
          Msg,       \* messages that may be in flight at a time
          Divisor,   \* per worker: 0 for weight -1, else 2^weight
          System, Unused, None

ASSUME ThreadsAssumption ==
  /\ IsFiniteSet(Worker)
  /\ IsFiniteSet(Agent)
  /\ Worker \cap Agent = {}
ASSUME DivisorAssumption == Divisor \in [Worker -> Nat]
ASSUME ValuesAssumption ==
  /\ None \notin Handle
  /\ None \notin Msg
  /\ System \notin Handle
  /\ Unused \notin Handle
  /\ Unused # System

Thread == Worker \cup Agent

VARIABLES
  slot,      \* handles in the handle storage
  ref,       \* ctx->ref
  inited,    \* contexts whose ctx->init is set
  qstate,    \* the message queue: "none", "live", "released" (q->release
             \* is set, the context is freed) or "freed"
  mq,        \* its messages, oldest first
  inGlobal,  \* queues whose in_global flag is set
  global,    \* the global queue
  pc, q, nq, msg, left, op,   \* locals of the threads, see TypeOK
  source     \* who sent each message

svars == <<slot, ref, inited, qstate, mq, inGlobal, global, source>>
tvars == <<pc, q, nq, msg, left, op>>
vars == <<svars, tvars>>

NoOp == [kind |-> "none", h |-> None, m |-> None]
PushOp(h, m) == [kind |-> "push", h |-> h, m |-> m]
ReleaseOp(h) == [kind |-> "release", h |-> h, m |-> None]
DeleteOp(h) == [kind |-> "delete", h |-> h, m |-> None]

Op == {NoOp}
        \cup {PushOp(h, m) : h \in Handle, m \in Msg}
        \cup {ReleaseOp(h) : h \in Handle}
        \cup {DeleteOp(h) : h \in Handle}

WorkerPC == {"top", "first", "length", "call", "next", "swap", "pushback"}
AgentPC == {"top", "init", "ok", "failRetire"}
ReleasePC == {"mqrelease", "drop"}

TypeOK ==
  /\ slot \subseteq Handle
  /\ ref \in [Handle -> Nat]
  /\ inited \subseteq Handle
  /\ qstate \in [Handle -> {"none", "live", "released", "freed"}]
  /\ mq \in [Handle -> Seq(Msg)]
  /\ inGlobal \subseteq Handle
  /\ global \in Seq(Handle)
  \* where the thread is in its loop
  /\ pc \in [Thread -> WorkerPC \cup AgentPC \cup ReleasePC]
  /\ \A w \in Worker : pc[w] \in WorkerPC \cup ReleasePC
  /\ \A a \in Agent : pc[a] \in AgentPC \cup ReleasePC
  \* the queue it works on, and the one it is about to exchange it for
  /\ q \in [Thread -> Handle \cup {None}]
  /\ nq \in [Thread -> Handle \cup {None}]
  \* the message its callback handles, and how many more it may take
  /\ msg \in [Thread -> Msg \cup {None}]
  /\ left \in [Thread -> Nat]
  \* the call it is in the middle of: a send that has grabbed the
  \* destination, a context about to be released or to be deleted
  /\ op \in [Thread -> Op]
  /\ source \in [Msg -> Handle \cup {System, Unused}]

Init ==
  /\ slot = {}
  /\ ref = [h \in Handle |-> 0]
  /\ inited = {}
  /\ qstate = [h \in Handle |-> "none"]
  /\ mq = [h \in Handle |-> <<>>]
  /\ inGlobal = {}
  /\ global = <<>>
  /\ pc = [t \in Thread |-> "top"]
  /\ q = [t \in Thread |-> None]
  /\ nq = [t \in Thread |-> None]
  /\ msg = [t \in Thread |-> None]
  /\ left = [t \in Thread |-> 0]
  /\ op = [t \in Thread |-> NoOp]
  /\ source = [m \in Msg |-> Unused]

\* The thread is at pc s and not inside a nested call.
At(t, s) == pc[t] = s /\ op[t] = NoOp

Goto(t, s) == pc' = [pc EXCEPT ![t] = s]

-----------------------------------------------------------------------------
(***************************************************************************)
(* Faults: forms the helpers and actions of the same name (less the        *)
(* suffix) might have had.  Each breaks a property below.                  *)
(***************************************************************************)
Grab_uncounted(h) == h \in slot /\ ref' = ref

LastRef_never(h) == ref[h] = 0

Ready_always(h) == Append(global, h)

Unflagged_never(h) == inGlobal

Requeue_lost(t) ==
  /\ At(t, "mqrelease")
  /\ qstate[q[t]] # "released"
  /\ q' = [q EXCEPT ![t] = None]
  /\ Goto(t, "top")
  /\ UNCHANGED <<svars, nq, msg, left, op>>

FreeQueue_undrained(t) ==
  /\ At(t, "drop")
  /\ qstate' = [qstate EXCEPT ![q[t]] = "freed"]
  /\ mq' = [mq EXCEPT ![q[t]] = <<>>]
  /\ q' = [q EXCEPT ![t] = None]
  /\ Goto(t, "top")
  /\ UNCHANGED <<slot, ref, inited, inGlobal, global, source, nq, msg, left, op>>

-----------------------------------------------------------------------------
(***************************************************************************)
(* Calls any thread makes: send, release, delete, retire.                  *)
(***************************************************************************)

\* skynet_handle_grab: the reference count grows under the read lock.
Grab(h) ==
  /\ h \in slot
  /\ ref' = [ref EXCEPT ![h] = @ + 1]

\* The address a thread sends from: that of the service whose callback or
\* init it runs, 0 for a thread that runs no service.
From(t) == IF pc[t] = "top" THEN System ELSE q[t]

\* skynet_send to a registered handle, up to the grab in
\* skynet_context_push.  (Sending to any other handle changes nothing.)
Send(t, h, m) ==
  /\ At(t, "call") \/ At(t, "init") \/ (t \in Agent /\ At(t, "top"))
  /\ source[m] = Unused
  /\ Grab(h)
  /\ source' = [source EXCEPT ![m] = From(t)]
  /\ op' = [op EXCEPT ![t] = PushOp(h, m)]
  /\ UNCHANGED <<slot, inited, qstate, mq, inGlobal, global, pc, q, nq, msg, left>>

\* The global queue after the globalmq_push that skynet_mq_push and
\* skynet_mq_mark_release make, under the queue's lock, unless it is flagged.
Ready(h) == IF h \in inGlobal THEN global ELSE Append(global, h)

\* skynet_mq_push.
Push(t) ==
  LET h == op[t].h
      m == op[t].m
  IN
  /\ op[t].kind = "push"
  /\ mq' = [mq EXCEPT ![h] = Append(@, m)]
  /\ inGlobal' = inGlobal \cup {h}
  /\ global' = Ready(h)
  /\ op' = [op EXCEPT ![t] = ReleaseOp(h)]
  /\ UNCHANGED <<slot, ref, inited, qstate, source, pc, q, nq, msg, left>>

\* ATOM_DEC(&ctx->ref) == 0
LastRef(h) == ref[h] = 1

\* skynet_context_release.
Release(t) ==
  LET h == op[t].h IN
  /\ op[t].kind = "release"
  /\ ref' = [ref EXCEPT ![h] = @ - 1]
  /\ op' = [op EXCEPT ![t] = IF LastRef(h) THEN DeleteOp(h) ELSE NoOp]
  /\ UNCHANGED <<slot, inited, qstate, mq, inGlobal, global, source, pc, q, nq, msg, left>>

\* delete_context: skynet_mq_mark_release, then the context is freed.
Delete(t) ==
  LET h == op[t].h IN
  /\ op[t].kind = "delete"
  /\ qstate' = [qstate EXCEPT ![h] = "released"]
  /\ global' = Ready(h)
  /\ op' = [op EXCEPT ![t] = NoOp]
  /\ UNCHANGED <<slot, ref, inited, mq, inGlobal, source, pc, q, nq, msg, left>>

\* skynet_handle_retire of a registered handle: the storage's reference
\* passes to the thread, which releases it after the write lock.
Retire(t, h) ==
  /\ h \in slot
  /\ slot' = slot \ {h}
  /\ op' = [op EXCEPT ![t] = ReleaseOp(h)]
  /\ UNCHANGED <<ref, inited, qstate, mq, inGlobal, global, source, q, nq, msg, left>>

\* EXIT, KILL and ABORT of a callback, EXIT of an init function.
Kill(t, h) ==
  /\ At(t, "call") \/ (At(t, "init") /\ h = q[t])
  /\ Retire(t, h)
  /\ UNCHANGED pc

-----------------------------------------------------------------------------
(***************************************************************************)
(* skynet_context_new, run by an agent.  It owns the new queue (q) from    *)
(* registration until it hands it to the global queue or releases it; the  *)
(* queue is born with in_global set, so that no sender pushes it before.   *)
(***************************************************************************)

\* Registration and creation of the queue: the storage and the launching
\* thread hold one reference each.
Launch(t, h) ==
  /\ t \in Agent /\ At(t, "top") /\ q[t] = None
  /\ qstate[h] = "none"
  /\ slot' = slot \cup {h}
  /\ ref' = [ref EXCEPT ![h] = 2]
  /\ qstate' = [qstate EXCEPT ![h] = "live"]
  /\ inGlobal' = inGlobal \cup {h}
  /\ q' = [q EXCEPT ![t] = h]
  /\ Goto(t, "init")
  /\ UNCHANGED <<inited, mq, global, source, nq, msg, left, op>>

\* The module's init succeeds: the launching thread drops its reference.
InitOk(t) ==
  /\ At(t, "init")
  /\ op' = [op EXCEPT ![t] = ReleaseOp(q[t])]
  /\ Goto(t, "ok")
  /\ UNCHANGED <<svars, q, nq, msg, left>>

\* ctx->init is set unless the context is gone, then globalmq_push(queue).
Launched(t) ==
  /\ At(t, "ok")
  /\ inited' = IF qstate[q[t]] = "live" THEN inited \cup {q[t]} ELSE inited
  /\ global' = Append(global, q[t])
  /\ q' = [q EXCEPT ![t] = None]
  /\ Goto(t, "top")
  /\ UNCHANGED <<slot, ref, qstate, mq, inGlobal, source, nq, msg, left, op>>

\* The init fails: release, retire, then skynet_mq_release.
InitFail(t) ==
  /\ At(t, "init")
  /\ op' = [op EXCEPT ![t] = ReleaseOp(q[t])]
  /\ Goto(t, "failRetire")
  /\ UNCHANGED <<svars, q, nq, msg, left>>

FailRetire(t) ==
  /\ At(t, "failRetire")
  /\ \/ Retire(t, q[t])
     \/ /\ q[t] \notin slot
        /\ UNCHANGED <<svars, q, nq, msg, left, op>>
  /\ Goto(t, "mqrelease")

-----------------------------------------------------------------------------
(***************************************************************************)
(* skynet_context_message_dispatch and the worker's loop.  The pop of the  *)
(* next queue that ends three of its paths is the Take of the next round.  *)
(***************************************************************************)

\* skynet_globalmq_pop.
Take(w) ==
  /\ w \in Worker /\ At(w, "top") /\ q[w] = None
  /\ global # <<>>
  /\ q' = [q EXCEPT ![w] = Head(global)]
  /\ global' = Tail(global)
  /\ UNCHANGED <<slot, ref, inited, qstate, mq, inGlobal, source, pc, nq, msg, left, op>>

\* skynet_handle_grab finds the context, or the service is gone.
GrabContext(w) ==
  /\ w \in Worker /\ At(w, "top") /\ q[w] # None
  /\ \/ Grab(q[w]) /\ Goto(w, "first")
     \/ q[w] \notin slot /\ UNCHANGED ref /\ Goto(w, "mqrelease")
  /\ UNCHANGED <<slot, inited, qstate, mq, inGlobal, global, source, q, nq, msg, left, op>>

\* The flags after skynet_mq_pop has found h empty.
Unflagged(h) == inGlobal \ {h}

\* skynet_mq_pop finds the queue empty: the flag is reset, the queue is no
\* longer the worker's, and the context is released.
PopEmpty(w) ==
  LET h == q[w] IN
  /\ At(w, "first") \/ At(w, "next")
  /\ mq[h] = <<>>
  /\ inGlobal' = Unflagged(h)
  /\ q' = [q EXCEPT ![w] = None]
  /\ op' = [op EXCEPT ![w] = ReleaseOp(h)]
  /\ Goto(w, "top")
  /\ UNCHANGED <<slot, ref, inited, qstate, mq, global, source, nq, msg, left>>

\* skynet_mq_pop takes a message; the first of a round also fixes how many
\* the round takes.
PopMessage(w) ==
  LET h == q[w] IN
  /\ At(w, "first") \/ At(w, "next")
  /\ mq[h] # <<>>
  /\ msg' = [msg EXCEPT ![w] = Head(mq[h])]
  /\ mq' = [mq EXCEPT ![h] = Tail(@)]
  /\ left' = [left EXCEPT ![w] = IF pc[w] = "next" THEN @ - 1 ELSE 0]
  /\ Goto(w, IF pc[w] = "first" /\ Divisor[w] # 0 THEN "length" ELSE "call")
  /\ UNCHANGED <<slot, ref, inited, qstate, inGlobal, global, source, q, nq, op>>

\* n = skynet_mq_length(q) >> weight, this message included.
Length(w) ==
  LET n == Len(mq[q[w]]) \div Divisor[w] IN
  /\ At(w, "length")
  /\ left' = [left EXCEPT ![w] = IF n > 0 THEN n - 1 ELSE 0]
  /\ Goto(w, "call")
  /\ UNCHANGED <<svars, q, nq, msg, op>>

\* The callback of dispatch_message returns (while it runs it may Send and
\* Kill), the message is freed.
Return(w) ==
  /\ At(w, "call")
  /\ source' = [source EXCEPT ![msg[w]] = Unused]
  /\ msg' = [msg EXCEPT ![w] = None]
  /\ Goto(w, IF left[w] > 0 THEN "next" ELSE "swap")
  /\ UNCHANGED <<slot, ref, inited, qstate, mq, inGlobal, global, q, nq, left, op>>

\* No other queue is ready: keep this one, release the context.
Keep(w) ==
  /\ At(w, "swap")
  /\ global = <<>>
  /\ op' = [op EXCEPT ![w] = ReleaseOp(q[w])]
  /\ Goto(w, "top")
  /\ UNCHANGED <<svars, q, nq, msg, left>>

\* Another queue is ready: take it ...
Swap(w) ==
  /\ At(w, "swap")
  /\ global # <<>>
  /\ nq' = [nq EXCEPT ![w] = Head(global)]
  /\ global' = Tail(global)
  /\ Goto(w, "pushback")
  /\ UNCHANGED <<slot, ref, inited, qstate, mq, inGlobal, source, q, msg, left, op>>

\* ... and put this one at the end of the global queue.
PushBack(w) ==
  /\ At(w, "pushback")
  /\ global' = Append(global, q[w])
  /\ q' = [q EXCEPT ![w] = nq[w]]
  /\ nq' = [nq EXCEPT ![w] = None]
  /\ op' = [op EXCEPT ![w] = ReleaseOp(q[w])]
  /\ Goto(w, "top")
  /\ UNCHANGED <<slot, ref, inited, qstate, mq, inGlobal, source, msg, left>>

-----------------------------------------------------------------------------
(***************************************************************************)
(* skynet_mq_release and _drop_queue, of a queue whose service is gone.    *)
(***************************************************************************)

\* The context still lives (someone holds a reference): try again later.
Requeue(t) ==
  /\ At(t, "mqrelease")
  /\ qstate[q[t]] # "released"
  /\ global' = Append(global, q[t])
  /\ q' = [q EXCEPT ![t] = None]
  /\ Goto(t, "top")
  /\ UNCHANGED <<slot, ref, inited, qstate, mq, inGlobal, source, nq, msg, left, op>>

StartDrop(t) ==
  /\ At(t, "mqrelease")
  /\ qstate[q[t]] = "released"
  /\ Goto(t, "drop")
  /\ UNCHANGED <<svars, q, nq, msg, left, op>>

\* drop_message: an error from the dead service goes to the source s of the
\* message, if s is registered.  (m itself stands for the error now.)
Report(t, s, m) ==
  \/ /\ Grab(s)
     /\ source' = [source EXCEPT ![m] = q[t]]
     /\ op' = [op EXCEPT ![t] = PushOp(s, m)]
  \/ /\ s \notin slot
     /\ source' = [source EXCEPT ![m] = Unused]
     /\ UNCHANGED <<ref, op>>

\* A turn of _drop_queue.
DropMessage(t) ==
  LET m == Head(mq[q[t]]) IN
  /\ At(t, "drop")
  /\ mq[q[t]] # <<>>
  /\ mq' = [mq EXCEPT ![q[t]] = Tail(@)]
  /\ Report(t, source[m], m)
  /\ UNCHANGED <<slot, inited, qstate, inGlobal, global, pc, q, nq, msg, left>>

\* The queue is empty: _release frees it.
FreeQueue(t) ==
  LET h == q[t] IN
  /\ At(t, "drop")
  /\ mq[h] = <<>>
  /\ qstate' = [qstate EXCEPT ![h] = "freed"]
  /\ inGlobal' = Unflagged(h)
  /\ q' = [q EXCEPT ![t] = None]
  /\ Goto(t, "top")
  /\ UNCHANGED <<slot, ref, inited, mq, global, source, nq, msg, left, op>>

-----------------------------------------------------------------------------
\* The steps a thread must go on to take once it runs.
Step(t) ==
  \/ Push(t) \/ Release(t) \/ Delete(t)
  \/ Launched(t) \/ FailRetire(t)
  \/ Take(t) \/ GrabContext(t) \/ PopEmpty(t) \/ PopMessage(t) \/ Length(t)
  \/ Keep(t) \/ Swap(t) \/ PushBack(t)
  \/ Requeue(t) \/ StartDrop(t) \/ DropMessage(t) \/ FreeQueue(t)

Next ==
  \E t \in Thread :
    \/ Step(t) \/ Return(t) \/ InitOk(t) \/ InitFail(t)
    \/ \E h \in Handle : Launch(t, h) \/ Kill(t, h)
    \/ \E h \in Handle, m \in Msg : Send(t, h, m)

Spec == Init /\ [][Next]_vars

\* Threads are scheduled; callbacks and init functions return, even those
\* that go on sending.
Fairness ==
  \A t \in Thread :
    /\ WF_vars(Step(t))
    /\ SF_vars(Return(t))
    /\ SF_vars(InitOk(t) \/ InitFail(t))

FairSpec == Spec /\ Fairness

-----------------------------------------------------------------------------
(***************************************************************************)
(* Properties.                                                             *)
(***************************************************************************)

\* The thread dispatches a message of q[t] and holds a reference to its
\* context from skynet_handle_grab until the release at the end.
Dispatching == {"first", "length", "call", "next", "swap", "pushback"}

\* The queue is somewhere a worker will find it.
InList(h) == h \in Range(global)
Owned(h) == \E t \in Thread : q[t] = h \/ nq[t] = h

\* A service's callback is never run by two workers at once, although any
\* worker may pick up any queue (what CHECKCALLING_BEGIN asserts).
OneDispatcher ==
  \A v, w \in Worker :
    v # w /\ pc[v] \in Dispatching /\ pc[w] \in Dispatching => q[v] # q[w]

\* A queue with a message in it is in the global queue or in the hands of a
\* thread: the flag in_global never keeps a sender from publishing a queue
\* that no worker is going to look at.
NoStrandedQueue ==
  \A h \in Handle : mq[h] # <<>> => InList(h) \/ Owned(h)

\* No thread is left with a reference to a freed context or with a freed
\* queue, whatever the order of grabs, releases, retirement and drops.
NoDangling ==
  /\ \A t \in Thread :
       /\ op[t] # NoOp => qstate[op[t].h] = "live"
       /\ pc[t] \in Dispatching \cup {"init"} => qstate[q[t]] = "live"
       /\ q[t] # None => qstate[q[t]] \in {"live", "released"}
       /\ nq[t] # None => qstate[nq[t]] \in {"live", "released"}
  /\ \A h \in Range(global) : qstate[h] \in {"live", "released"}

\* Messages can reach a queue while its service's init still runs, yet no
\* worker dispatches them before the init is done (assert(ctx->init)).
DispatchInitialised ==
  \A w \in Worker : pc[w] \in {"length", "call"} => q[w] \in inited

\* Every accepted message leaves its queue: it is handled, or returned to
\* its source by the drop, no matter how busy the other services are.
Queued(m, h) == m \in Range(mq[h])

QueuedLeaves ==
  \A m \in Msg, h \in Handle : Queued(m, h) ~> ~Queued(m, h)

\* A retired service is destroyed in the end and its queue freed.
RetiredFreed ==
  \A h \in Handle : (qstate[h] # "none" /\ h \notin slot) ~> qstate[h] = "freed"

-----------------------------------------------------------------------------
(***************************************************************************)
(* The inductive invariant behind the safety properties.                   *)
(***************************************************************************)

\* The locals of a thread fit its place in the loop.
Owning == Dispatching \cup {"init", "ok", "failRetire"} \cup ReleasePC

LocalsOK ==
  \A t \in Thread :
    /\ pc[t] \in Owning => q[t] # None
    /\ t \in Agent /\ pc[t] = "top" => q[t] = None
    /\ nq[t] # None <=> pc[t] = "pushback"
    /\ msg[t] # None <=> pc[t] \in {"length", "call"}
    /\ pc[t] = "length" => Divisor[t] # 0
    /\ pc[t] = "next" => left[t] > 0
    /\ pc[t] = "drop" => qstate[q[t]] = "released"
    /\ pc[t] \in ReleasePC => q[t] \notin slot

\* A queue is in the global queue or in one thread's hands, once ...
TokenUnique ==
  /\ IsInjective(global)
  /\ \A t \in Thread :
       /\ q[t] # None => ~InList(q[t])
       /\ nq[t] # None => ~InList(nq[t])
  /\ \A s, t \in Thread :
       /\ q[s] # None /\ s # t => q[s] # q[t]
       /\ nq[s] # None /\ s # t => nq[s] # nq[t]
       /\ q[s] # None => q[s] # nq[t]

\* ... exactly when its flag is set or its context is gone ...
Flagged(h) == (h \in inGlobal /\ qstate[h] = "live") \/ qstate[h] = "released"

TokenExact == \A h \in Handle : Flagged(h) <=> InList(h) \/ Owned(h)

\* ... and a queue with messages is such a queue.
QueueFlagged == \A h \in Handle : mq[h] # <<>> => Flagged(h)

\* The reference count is the number of references held: by threads in the
\* middle of a call, by threads that dispatch or initialise the service,
\* and by the handle storage.
OpHolders(h) == {t \in Thread : op[t].kind \in {"push", "release"} /\ op[t].h = h}
CtxHolders(h) == {t \in Thread : pc[t] \in Dispatching \cup {"init"} /\ q[t] = h}

RefExact ==
  \A h \in Handle :
    ref[h] = Cardinality(OpHolders(h)) + Cardinality(CtxHolders(h))
               + (IF h \in slot THEN 1 ELSE 0)

\* References are to live contexts; one thread deletes a context, after the
\* last of them.
RefLive ==
  /\ \A h \in slot : qstate[h] = "live"
  /\ \A t \in Thread :
       /\ op[t] # NoOp => qstate[op[t].h] = "live"
       /\ pc[t] \in Dispatching \cup {"init"} => qstate[q[t]] = "live"
       /\ op[t].kind = "delete" => ref[op[t].h] = 0
  /\ \A s, t \in Thread :
       s # t /\ op[s].kind = "delete" /\ op[t].kind = "delete" => op[s].h # op[t].h

\* No worker gets at a registered service that is not initialised.
InitGuard ==
  /\ \A w \in Worker : pc[w] \in Dispatching => q[w] \in inited
  /\ \A h \in slot \ inited :
       /\ h \in inGlobal
       /\ ~InList(h)
       /\ \A w \in Worker : q[w] # h /\ nq[w] # h

IInv ==
  /\ TypeOK
  /\ LocalsOK
  /\ TokenUnique
  /\ TokenExact
  /\ QueueFlagged
  /\ RefExact
  /\ RefLive
  /\ InitGuard

\* A message in flight is in exactly one place: a queue, a callback or a
\* send.  Behind the refinement of Mailbox: a drop or a return that frees a
\* message frees one that nobody else still has, and none is forgotten.
Handling(t) == {msg[t]} \ {None}
Sending(t) == IF op[t].kind = "push" THEN {op[t].m} ELSE {}
Carried(t) == Handling(t) \cup Sending(t)

OnePlace ==
  /\ \A h \in Handle : IsInjective(mq[h])
  /\ \A g, h \in Handle : g # h => Range(mq[g]) \cap Range(mq[h]) = {}
  /\ \A t \in Thread :
       /\ Handling(t) \cap Sending(t) = {}
       /\ \A h \in Handle : Carried(t) \cap Range(mq[h]) = {}
       /\ \A s \in Thread : s # t => Carried(s) \cap Carried(t) = {}
  /\ \A m \in Msg :
       source[m] # Unused <=> \/ \E h \in Handle : m \in Range(mq[h])
                             \/ \E t \in Thread : m \in Carried(t)

-----------------------------------------------------------------------------
(***************************************************************************)
(* The dispatcher implements the mailboxes of Mailbox.tla.                 *)
(***************************************************************************)
StatusOf(h) ==
  CASE qstate[h] = "none" -> "none"
    [] qstate[h] = "live" -> IF h \in slot THEN "open" ELSE "retired"
    [] qstate[h] = "released" -> "closed"
    [] qstate[h] = "freed" -> "gone"

CurrentOf(h) ==
  LET handling == {t \in Thread : q[t] = h /\ msg[t] # None}
  IN IF handling = {} THEN None ELSE msg[CHOOSE t \in handling : TRUE]

TransitOf(m) ==
  LET sending == {t \in Thread : op[t].kind = "push" /\ op[t].m = m}
  IN IF sending = {} THEN None ELSE op[CHOOSE t \in sending : TRUE].h

Mailboxes == INSTANCE Mailbox WITH
  status <- [h \in Handle |-> StatusOf(h)],
  mailbox <- mq,
  current <- [h \in Handle |-> CurrentOf(h)],
  transit <- [m \in Msg |-> TransitOf(m)]

\* FIFO, one message at a time, nothing accepted after the close, an error
\* for every message dropped: the promises of Mailbox, step by step.
ImplementsMailboxes == Mailboxes!Spec
=============================================================================
