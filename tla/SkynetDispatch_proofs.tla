------------------------ MODULE SkynetDispatch_proofs ------------------------
(***************************************************************************)
(* The safety properties of SkynetDispatch, for any number of workers,     *)
(* other threads, services and messages.                                   *)
(***************************************************************************)
EXTENDS SkynetDispatch, FiniteSetTheorems, TLAPS

-----------------------------------------------------------------------------
(***************************************************************************)
(* Lemmas on the data: queues, calls, counts.                              *)
(***************************************************************************)

\* A push at the end of a queue adds its element, and keeps a queue without
\* duplicates (the global queue) without duplicates.
LEMMA AppendFacts ==
  ASSUME NEW S, NEW s \in Seq(S), NEW x \in S
  PROVE  /\ Append(s, x) \in Seq(S)
         /\ Append(s, x) # <<>>
         /\ Range(Append(s, x)) = Range(s) \cup {x}
         /\ IsInjective(s) /\ x \notin Range(s) => IsInjective(Append(s, x))
<1>1. /\ Append(s, x) \in Seq(S)
      /\ Append(s, x) # <<>>
      /\ Len(Append(s, x)) = Len(s) + 1
      /\ \A i \in 1 .. Len(s) : Append(s, x)[i] = s[i]
      /\ Append(s, x)[Len(s) + 1] = x
  OBVIOUS
<1>2. /\ DOMAIN s = 1 .. Len(s)
      /\ DOMAIN Append(s, x) = 1 .. Len(s) + 1
      /\ Len(s) \in Nat
  BY <1>1
<1>3. Range(Append(s, x)) = Range(s) \cup {x}
  <2>1. ASSUME NEW y \in Range(Append(s, x)) PROVE y \in Range(s) \cup {x}
    BY <1>1, <1>2 DEF Range
  <2>2. ASSUME NEW y \in Range(s) PROVE y \in Range(Append(s, x))
    BY <1>1, <1>2 DEF Range
  <2>3. x \in Range(Append(s, x))
    BY <1>1, <1>2 DEF Range
  <2> QED BY <2>1, <2>2, <2>3
<1>4. ASSUME IsInjective(s), x \notin Range(s) PROVE IsInjective(Append(s, x))
  BY <1>1, <1>2, <1>4 DEF IsInjective, Range
<1> QED BY <1>1, <1>3, <1>4

\* A pop removes the head, which does not occur in the rest of a queue
\* without duplicates.
LEMMA TailFacts ==
  ASSUME NEW S, NEW s \in Seq(S), s # <<>>
  PROVE  /\ Head(s) \in S
         /\ Head(s) \in Range(s)
         /\ Tail(s) \in Seq(S)
         /\ Range(s) = Range(Tail(s)) \cup {Head(s)}
         /\ IsInjective(s) => IsInjective(Tail(s)) /\ Head(s) \notin Range(Tail(s))
<1>1. /\ Head(s) = s[1]
      /\ Head(s) \in S
      /\ Tail(s) \in Seq(S)
      /\ Len(s) > 0
      /\ Len(Tail(s)) = Len(s) - 1
      /\ \A i \in 1 .. Len(s) - 1 : Tail(s)[i] = s[i + 1]
  OBVIOUS
<1>2. /\ DOMAIN s = 1 .. Len(s)
      /\ DOMAIN Tail(s) = 1 .. Len(s) - 1
      /\ Len(s) \in Nat
  BY <1>1
<1>3. Head(s) \in Range(s)
  BY <1>1, <1>2 DEF Range
<1>4. Range(s) = Range(Tail(s)) \cup {Head(s)}
  <2>1. ASSUME NEW y \in Range(s) PROVE y \in Range(Tail(s)) \cup {Head(s)}
    <3>1. PICK i \in 1 .. Len(s) : y = s[i]
      BY <1>2 DEF Range
    <3>2. CASE i = 1
      BY <3>1, <3>2, <1>1
    <3>3. CASE i # 1
      <4>1. i - 1 \in DOMAIN Tail(s) /\ Tail(s)[i - 1] = y
        BY <3>1, <3>3, <1>1, <1>2
      <4> QED BY <4>1 DEF Range
    <3> QED BY <3>2, <3>3
  <2>2. ASSUME NEW y \in Range(Tail(s)) PROVE y \in Range(s)
    <3>1. PICK i \in 1 .. Len(s) - 1 : y = Tail(s)[i]
      BY <1>2 DEF Range
    <3>2. i + 1 \in DOMAIN s /\ s[i + 1] = y
      BY <3>1, <1>1, <1>2
    <3> QED BY <3>2 DEF Range
  <2> QED BY <2>1, <2>2, <1>3
<1>5. ASSUME IsInjective(s)
      PROVE  IsInjective(Tail(s)) /\ Head(s) \notin Range(Tail(s))
  BY <1>1, <1>2, <1>5 DEF IsInjective, Range
<1> QED BY <1>1, <1>3, <1>4, <1>5

\* The calls a thread may be in the middle of: what their fields are ...
LEMMA OpFacts ==
  ASSUME NEW o \in Op
  PROVE  /\ o.kind \in {"none", "push", "release", "delete"}
         /\ o # NoOp <=> o.kind # "none"
         /\ o.kind # "none" => o.h \in Handle
         /\ o.kind = "none" => o.h = None
         /\ o.kind = "push" => o.m \in Msg
BY DEF Op, NoOp, PushOp, ReleaseOp, DeleteOp

\* ... and the three calls that the actions start.
LEMMA OpMade ==
  /\ NoOp \in Op /\ NoOp.kind = "none"
  /\ \A h \in Handle :
       /\ ReleaseOp(h) \in Op /\ ReleaseOp(h).kind = "release" /\ ReleaseOp(h).h = h
       /\ DeleteOp(h) \in Op /\ DeleteOp(h).kind = "delete" /\ DeleteOp(h).h = h
       /\ \A m \in Msg :
            /\ PushOp(h, m) \in Op /\ PushOp(h, m).kind = "push"
            /\ PushOp(h, m).h = h /\ PushOp(h, m).m = m
<1>1. NoOp \in Op /\ NoOp.kind = "none"
  BY DEF Op, NoOp
<1>2. ASSUME NEW h \in Handle
      PROVE  /\ ReleaseOp(h) \in Op /\ ReleaseOp(h).kind = "release" /\ ReleaseOp(h).h = h
             /\ DeleteOp(h) \in Op /\ DeleteOp(h).kind = "delete" /\ DeleteOp(h).h = h
  <2>1. ReleaseOp(h) \in Op /\ DeleteOp(h) \in Op
    BY DEF Op
  <2> QED BY <2>1 DEF ReleaseOp, DeleteOp
<1>3. ASSUME NEW h \in Handle, NEW m \in Msg
      PROVE  /\ PushOp(h, m) \in Op /\ PushOp(h, m).kind = "push"
             /\ PushOp(h, m).h = h /\ PushOp(h, m).m = m
  <2>1. PushOp(h, m) \in Op
    BY DEF Op
  <2> QED BY <2>1 DEF PushOp
<1> QED BY <1>1, <1>2, <1>3

\* The holders of references are finitely many: they are threads.
LEMMA HoldersFinite ==
  ASSUME NEW h
  PROVE  /\ IsFiniteSet(OpHolders(h)) /\ Cardinality(OpHolders(h)) \in Nat
         /\ IsFiniteSet(CtxHolders(h)) /\ Cardinality(CtxHolders(h)) \in Nat
<1>1. IsFiniteSet(Thread)
  BY ThreadsAssumption, FS_Union DEF Thread
<1>2. OpHolders(h) \in SUBSET Thread /\ CtxHolders(h) \in SUBSET Thread
  BY DEF OpHolders, CtxHolders
<1> QED BY <1>1, <1>2, FS_Subset, FS_CardinalityType

\* A thread about to push or to release holds one of the references counted.
LEMMA RefPositive ==
  ASSUME TypeOK, RefExact, NEW t \in Thread, op[t].kind \in {"push", "release"}
  PROVE  op[t].h \in Handle /\ ref[op[t].h] \in Nat \ {0}
<1> DEFINE h == op[t].h
<1>1. h \in Handle
  BY OpFacts DEF TypeOK
<1>2. t \in OpHolders(h)
  BY DEF OpHolders
<1>3. Cardinality(OpHolders(h)) # 0
  BY <1>2, HoldersFinite, FS_EmptySet
<1>4. Cardinality(OpHolders(h)) \in Nat /\ Cardinality(CtxHolders(h)) \in Nat
  BY HoldersFinite
<1>5. ref[h] = Cardinality(OpHolders(h)) + Cardinality(CtxHolders(h))
                 + (IF h \in slot THEN 1 ELSE 0)
  BY <1>1 DEF RefExact
<1> HIDE DEF h
<1>6. ref[h] \in Nat \ {0}
  BY <1>3, <1>4, <1>5
<1> QED BY <1>1, <1>6 DEF h

\* A handle not given out yet is nowhere.
LEMMA NewUnowned ==
  ASSUME TypeOK, TokenExact, NEW h \in Handle, qstate[h] = "none"
  PROVE  h \notin Range(global) /\ \A t \in Thread : q[t] # h /\ nq[t] # h
<1>1. ~Flagged(h)
  BY DEF Flagged
<1> QED BY <1>1 DEF TokenExact, InList, Owned

\* Publishing the queue of a live context: an unflagged queue is nowhere.
LEMMA ReadyFacts ==
  ASSUME IInv, NEW h \in Handle, qstate[h] = "live"
  PROVE  /\ Ready(h) \in Seq(Handle)
         /\ IsInjective(Ready(h))
         /\ Range(Ready(h)) = IF h \in inGlobal THEN Range(global)
                                                ELSE Range(global) \cup {h}
         /\ h \notin inGlobal =>
              h \notin Range(global) /\ \A t \in Thread : q[t] # h /\ nq[t] # h
<1>1. ASSUME h \notin inGlobal
      PROVE  h \notin Range(global) /\ \A t \in Thread : q[t] # h /\ nq[t] # h
  <2>1. ~Flagged(h)
    BY <1>1 DEF Flagged
  <2> QED BY <2>1 DEF IInv, TokenExact, InList, Owned
<1>2. global \in Seq(Handle) /\ IsInjective(global)
  BY DEF IInv, TypeOK, TokenUnique
<1> QED BY ZenonT(60), <1>1, <1>2, AppendFacts DEF Ready

\* A thread that puts the queue it owns into the global queue.
LEMMA OwnedAppend ==
  ASSUME IInv, NEW t \in Thread, q[t] # None
  PROVE  /\ q[t] \in Handle
         /\ Append(global, q[t]) \in Seq(Handle)
         /\ IsInjective(Append(global, q[t]))
         /\ Range(Append(global, q[t])) = Range(global) \cup {q[t]}
<1>1. q[t] \in Handle /\ q[t] \notin Range(global)
  BY DEF IInv, TypeOK, TokenUnique, InList
<1>2. global \in Seq(Handle) /\ IsInjective(global)
  BY DEF IInv, TypeOK, TokenUnique
<1> QED BY <1>1, <1>2, AppendFacts

\* A worker that takes the queue at the head of the global queue.
LEMMA GlobalHead ==
  ASSUME IInv, global # <<>>
  PROVE  /\ Head(global) \in Handle
         /\ Tail(global) \in Seq(Handle)
         /\ IsInjective(Tail(global))
         /\ Head(global) \notin Range(Tail(global))
         /\ Range(global) = Range(Tail(global)) \cup {Head(global)}
         /\ \A t \in Thread : q[t] # Head(global) /\ nq[t] # Head(global)
<1>1. global \in Seq(Handle) /\ IsInjective(global)
  BY DEF IInv, TypeOK, TokenUnique
<1>2. /\ Head(global) \in Handle
      /\ Head(global) \in Range(global)
      /\ Tail(global) \in Seq(Handle)
      /\ Range(global) = Range(Tail(global)) \cup {Head(global)}
      /\ IsInjective(Tail(global)) /\ Head(global) \notin Range(Tail(global))
  BY <1>1, TailFacts
<1>3. \A t \in Thread : q[t] # Head(global) /\ nq[t] # Head(global)
  BY <1>2, ValuesAssumption DEF IInv, TokenUnique, InList
<1> QED BY <1>2, <1>3

\* A context to which someone holds a reference is not being deleted.
LEMMA RefHeld ==
  ASSUME TypeOK, RefExact, NEW h \in Handle
  PROVE  /\ h \in slot => ref[h] # 0
         /\ \A t \in Thread : t \in OpHolders(h) \cup CtxHolders(h) => ref[h] # 0
<1>1. /\ Cardinality(OpHolders(h)) \in Nat /\ Cardinality(CtxHolders(h)) \in Nat
      /\ \A t \in Thread : t \in OpHolders(h) => Cardinality(OpHolders(h)) # 0
      /\ \A t \in Thread : t \in CtxHolders(h) => Cardinality(CtxHolders(h)) # 0
  BY HoldersFinite, FS_EmptySet
<1>2. ref[h] = Cardinality(OpHolders(h)) + Cardinality(CtxHolders(h))
                 + (IF h \in slot THEN 1 ELSE 0)
  BY DEF RefExact
<1> QED BY <1>1, <1>2

\* A set that changes at one element.
LEMMA CountChange ==
  ASSUME NEW S, NEW T, NEW x, IsFiniteSet(S), S \ {x} = T \ {x}
  PROVE  /\ IsFiniteSet(T)
         /\ Cardinality(T) = Cardinality(S) - (IF x \in S THEN 1 ELSE 0)
                                            + (IF x \in T THEN 1 ELSE 0)
<1> DEFINE R == S \ {x}
<1>1. IsFiniteSet(R) /\ Cardinality(R) = Cardinality(S) - (IF x \in S THEN 1 ELSE 0)
  <2>1. Cardinality(S) \in Nat
    BY FS_CardinalityType
  <2> QED BY <2>1, FS_RemoveElement
<1>2. Cardinality(R) \in Nat
  BY <1>1, FS_CardinalityType
<1>3. CASE x \in T
  <2>1. T = R \cup {x} /\ x \notin R
    BY <1>3
  <2>2. IsFiniteSet(T) /\ Cardinality(T) = Cardinality(R) + 1
    BY <1>1, <2>1, FS_AddElement
  <2> HIDE DEF R
  <2> QED BY <1>1, <1>2, <1>3, <2>2
<1>4. CASE x \notin T
  <2>1. T = R
    BY <1>4
  <2>2. IsFiniteSet(T) /\ Cardinality(T) = Cardinality(R)
    BY <1>1, <2>1
  <2> HIDE DEF R
  <2> QED BY <1>1, <1>2, <1>4, <2>2
<1> QED BY <1>3, <1>4

\* How a step of one thread changes the numbers of holders.
LEMMA HolderCounts ==
  ASSUME NEW g, NEW t \in Thread,
         \A u \in Thread \ {t} : op'[u] = op[u] /\ pc'[u] = pc[u] /\ q'[u] = q[u]
  PROVE  /\ Cardinality(OpHolders(g)) \in Nat
         /\ Cardinality(CtxHolders(g)) \in Nat
         /\ Cardinality(OpHolders(g)')
              = Cardinality(OpHolders(g)) - (IF t \in OpHolders(g) THEN 1 ELSE 0)
                                          + (IF t \in OpHolders(g)' THEN 1 ELSE 0)
         /\ Cardinality(CtxHolders(g)')
              = Cardinality(CtxHolders(g)) - (IF t \in CtxHolders(g) THEN 1 ELSE 0)
                                           + (IF t \in CtxHolders(g)' THEN 1 ELSE 0)
<1>1. OpHolders(g) \ {t} = OpHolders(g)' \ {t}
  BY DEF OpHolders
<1>2. CtxHolders(g) \ {t} = CtxHolders(g)' \ {t}
  BY DEF CtxHolders
<1> QED BY <1>1, <1>2, HoldersFinite, CountChange

\* What one thread, and the handle storage, contribute to a count.
One(P) == IF P THEN 1 ELSE 0
HoldsOp(t, h) == op[t].kind \in {"push", "release"} /\ op[t].h = h
HoldsCtx(t, h) == pc[t] \in Dispatching \cup {"init"} /\ q[t] = h

\* A step of t keeps the count exact when it changes the count of a context
\* by as many references as t and the storage gain and lose.
LEMMA Balance ==
  ASSUME TypeOK, RefExact, NEW t \in Thread,
         \A u \in Thread \ {t} : op'[u] = op[u] /\ pc'[u] = pc[u] /\ q'[u] = q[u],
         \A g \in Handle :
           ref'[g] = ref[g] - One(HoldsOp(t, g)) + One(HoldsOp(t, g)')
                            - One(HoldsCtx(t, g)) + One(HoldsCtx(t, g)')
                            - One(g \in slot) + One(g \in slot')
  PROVE  RefExact'
<1> SUFFICES ASSUME NEW g \in Handle
             PROVE  ref'[g] = Cardinality(OpHolders(g)') + Cardinality(CtxHolders(g)')
                                + One(g \in slot')
  BY DEF RefExact, One
<1>1. ref[g] = Cardinality(OpHolders(g)) + Cardinality(CtxHolders(g)) + One(g \in slot)
  BY DEF RefExact, One
<1>2. /\ t \in OpHolders(g) <=> HoldsOp(t, g)
      /\ t \in OpHolders(g)' <=> HoldsOp(t, g)'
      /\ t \in CtxHolders(g) <=> HoldsCtx(t, g)
      /\ t \in CtxHolders(g)' <=> HoldsCtx(t, g)'
  BY DEF OpHolders, CtxHolders, HoldsOp, HoldsCtx
<1>3. /\ Cardinality(OpHolders(g)) \in Nat
      /\ Cardinality(CtxHolders(g)) \in Nat
      /\ Cardinality(OpHolders(g)')
           = Cardinality(OpHolders(g)) - One(HoldsOp(t, g)) + One(HoldsOp(t, g)')
      /\ Cardinality(CtxHolders(g)')
           = Cardinality(CtxHolders(g)) - One(HoldsCtx(t, g)) + One(HoldsCtx(t, g)')
  BY <1>2, HolderCounts DEF One
<1>4. /\ One(HoldsOp(t, g)) \in Nat /\ One(HoldsOp(t, g)') \in Nat
      /\ One(HoldsCtx(t, g)) \in Nat /\ One(HoldsCtx(t, g)') \in Nat
      /\ One(g \in slot) \in Nat /\ One(g \in slot') \in Nat
  BY DEF One
<1> QED BY <1>1, <1>3, <1>4

\* The count of a handle not given out yet is 0.
LEMMA NewUnheld ==
  ASSUME IInv, NEW h \in Handle, qstate[h] = "none"
  PROVE  h \notin slot /\ ref[h] = 0
<1>1. h \notin slot
  BY DEF IInv, RefLive
<1>2. OpHolders(h) = {} /\ CtxHolders(h) = {}
  BY OpFacts DEF OpHolders, CtxHolders, IInv, TypeOK, RefLive
<1>3. Cardinality(OpHolders(h)) = 0 /\ Cardinality(CtxHolders(h)) = 0
  BY <1>2, FS_EmptySet
<1> QED BY <1>1, <1>3 DEF IInv, RefExact

-----------------------------------------------------------------------------
(***************************************************************************)
(* Each part of the inductive invariant is preserved by every action.      *)
(***************************************************************************)

\* Every step keeps the variables in their types; a reference count is not
\* decremented below 0, the head of an empty queue is not taken.
LEMMA TypeStep == IInv /\ [Next]_vars => TypeOK'
<1> SUFFICES ASSUME IInv, [Next]_vars PROVE TypeOK'
  OBVIOUS
<1>1. ASSUME NEW t \in Thread, NEW h \in Handle, NEW m \in Msg, Send(t, h, m)
      PROVE  TypeOK'
  BY <1>1, OpFacts, OpMade, ThreadsAssumption, ValuesAssumption
     DEF Send, Grab, From, At, IInv, TypeOK, LocalsOK, Thread, WorkerPC,
         AgentPC, ReleasePC, Owning, Dispatching
<1>2. ASSUME NEW t \in Thread, Push(t)
      PROVE  TypeOK'
  <2>1. op[t].h \in Handle /\ op[t].m \in Msg
    BY <1>2, OpFacts DEF Push, IInv, TypeOK
  <2>2. mq' \in [Handle -> Seq(Msg)] /\ global' \in Seq(Handle)
    BY <1>2, <2>1 DEF Push, Ready, IInv, TypeOK
  <2>3. op' \in [Thread -> Op]
    BY <1>2, <2>1, OpMade DEF Push, IInv, TypeOK
  <2> QED
    BY <1>2, <2>1, <2>2, <2>3 DEF Push, IInv, TypeOK
<1>3. ASSUME NEW t \in Thread, Release(t)
      PROVE  TypeOK'
  <2>1. op[t].h \in Handle /\ ref[op[t].h] \in Nat \ {0}
    BY <1>3, RefPositive DEF Release, IInv
  <2>2. ref' \in [Handle -> Nat]
    BY <1>3, <2>1 DEF Release, IInv, TypeOK
  <2>3. op' \in [Thread -> Op]
    BY <1>3, <2>1, OpMade DEF Release, IInv, TypeOK
  <2> QED
    BY <1>3, <2>2, <2>3 DEF Release, IInv, TypeOK
<1>4. ASSUME NEW t \in Thread, Delete(t)
      PROVE  TypeOK'
  <2>1. op[t].h \in Handle
    BY <1>4, OpFacts DEF Delete, IInv, TypeOK
  <2>2. global' \in Seq(Handle)
    BY <1>4, <2>1 DEF Delete, Ready, IInv, TypeOK
  <2>3. op' \in [Thread -> Op]
    BY <1>4, OpMade DEF Delete, IInv, TypeOK
  <2> QED
    BY <1>4, <2>2, <2>3 DEF Delete, IInv, TypeOK
<1>5. ASSUME NEW t \in Thread, NEW h \in Handle, Kill(t, h)
      PROVE  TypeOK'
  BY <1>5, OpFacts, OpMade, ThreadsAssumption, ValuesAssumption
     DEF Kill, Retire, At, IInv, TypeOK, LocalsOK, Thread, WorkerPC, AgentPC,
         ReleasePC, Owning, Dispatching
<1>6. ASSUME NEW t \in Thread, NEW h \in Handle, Launch(t, h)
      PROVE  TypeOK'
  BY <1>6, OpFacts, OpMade, ThreadsAssumption, ValuesAssumption
     DEF Launch, Goto, At, IInv, TypeOK, LocalsOK, Thread, WorkerPC, AgentPC,
         ReleasePC, Owning, Dispatching
<1>7. ASSUME NEW t \in Thread, InitOk(t)
      PROVE  TypeOK'
  BY <1>7, OpFacts, OpMade, ThreadsAssumption, ValuesAssumption
     DEF InitOk, Goto, At, svars, IInv, TypeOK, LocalsOK, Thread, WorkerPC,
         AgentPC, ReleasePC, Owning, Dispatching
<1>8. ASSUME NEW t \in Thread, Launched(t)
      PROVE  TypeOK'
  BY <1>8, OpFacts, OpMade, ThreadsAssumption, ValuesAssumption
     DEF Launched, Goto, At, IInv, TypeOK, LocalsOK, Thread, WorkerPC,
         AgentPC, ReleasePC, Owning, Dispatching
<1>9. ASSUME NEW t \in Thread, InitFail(t)
      PROVE  TypeOK'
  BY <1>9, OpFacts, OpMade, ThreadsAssumption, ValuesAssumption
     DEF InitFail, Goto, At, svars, IInv, TypeOK, LocalsOK, Thread, WorkerPC,
         AgentPC, ReleasePC, Owning, Dispatching
<1>10. ASSUME NEW t \in Thread, FailRetire(t)
      PROVE  TypeOK'
  <2>1. q[t] \in Handle /\ t \in Agent
    BY ZenonT(60), <1>10, ThreadsAssumption DEF FailRetire, At, IInv, TypeOK, LocalsOK, Owning,
       Thread, WorkerPC, ReleasePC
  <2>2. \/ op' = [op EXCEPT ![t] = ReleaseOp(q[t])] /\ slot' = slot \ {q[t]}
        \/ op' = op /\ slot' = slot
    BY <1>10 DEF FailRetire, Retire, svars
  <2>3. op' \in [Thread -> Op] /\ slot' \subseteq Handle
    <3>1. ReleaseOp(q[t]) \in Op
      BY <2>1, OpMade
    <3> QED BY <2>2, <3>1 DEF IInv, TypeOK
  <2>4. pc' \in [Thread -> WorkerPC \cup AgentPC \cup ReleasePC]
        /\ pc' = [pc EXCEPT ![t] = "mqrelease"]
    BY <1>10 DEF FailRetire, Goto, IInv, TypeOK, ReleasePC
  <2> QED
    BY <1>10, <2>1, <2>3, <2>4, ThreadsAssumption
       DEF FailRetire, Retire, svars, IInv, TypeOK, ReleasePC, Thread
<1>11. ASSUME NEW t \in Thread, Take(t)
      PROVE  TypeOK'
  BY <1>11, OpFacts, OpMade, ThreadsAssumption, ValuesAssumption
     DEF Take, At, IInv, TypeOK, LocalsOK, Thread, WorkerPC, AgentPC,
         ReleasePC, Owning, Dispatching
<1>12. ASSUME NEW t \in Thread, GrabContext(t)
      PROVE  TypeOK'
  <2>1. q[t] \in Handle
    BY <1>12 DEF GrabContext, IInv, TypeOK
  <2>2. ref' \in [Handle -> Nat]
    <3>1. ref' = [ref EXCEPT ![q[t]] = ref[q[t]] + 1] \/ ref' = ref
      BY <1>12 DEF GrabContext, Grab
    <3>2. ref \in [Handle -> Nat]
      BY DEF IInv, TypeOK
    <3> QED BY <2>1, <3>1, <3>2
  <2>3. \/ pc' = [pc EXCEPT ![t] = "first"]
        \/ pc' = [pc EXCEPT ![t] = "mqrelease"]
    BY <1>12 DEF GrabContext, Goto
  <2> QED
    BY <1>12, <2>2, <2>3, ThreadsAssumption
       DEF GrabContext, IInv, TypeOK, WorkerPC, ReleasePC, Thread
<1>13. ASSUME NEW t \in Thread, PopEmpty(t)
      PROVE  TypeOK'
  BY <1>13, OpFacts, OpMade, ThreadsAssumption, ValuesAssumption
     DEF PopEmpty, Unflagged, Goto, At, IInv, TypeOK, LocalsOK, Thread,
         WorkerPC, AgentPC, ReleasePC, Owning, Dispatching
<1>14. ASSUME NEW t \in Thread, PopMessage(t)
      PROVE  TypeOK'
  <2>1. q[t] \in Handle /\ mq[q[t]] \in Seq(Msg) /\ mq[q[t]] # <<>>
    BY <1>14 DEF PopMessage, At, IInv, TypeOK, LocalsOK, Owning, Dispatching
  <2>2. Head(mq[q[t]]) \in Msg /\ Tail(mq[q[t]]) \in Seq(Msg)
    BY <2>1, TailFacts
  <2>3. mq' \in [Handle -> Seq(Msg)] /\ msg' \in [Thread -> Msg \cup {None}]
    BY <1>14, <2>2 DEF PopMessage, IInv, TypeOK
  <2>4. left' \in [Thread -> Nat]
    BY <1>14 DEF PopMessage, IInv, TypeOK, LocalsOK
  <2>5. t \in Worker
    BY <1>14 DEF PopMessage, At, IInv, TypeOK, Thread, AgentPC, ReleasePC
  <2>6. \/ pc' = [pc EXCEPT ![t] = "length"]
        \/ pc' = [pc EXCEPT ![t] = "call"]
    BY <1>14 DEF PopMessage, Goto
  <2> QED
    BY <1>14, <2>3, <2>4, <2>5, <2>6, ThreadsAssumption
       DEF PopMessage, IInv, TypeOK, WorkerPC, Thread
<1>15. ASSUME NEW t \in Thread, Length(t)
      PROVE  TypeOK'
  <2>1. t \in Worker
    BY <1>15 DEF Length, At, IInv, TypeOK, Thread, AgentPC, ReleasePC
  <2>2. left' \in [Thread -> Nat]
    <3> DEFINE n == Len(mq[q[t]]) \div Divisor[t]
    <3>1. left' = [left EXCEPT ![t] = IF n > 0 THEN n - 1 ELSE 0]
      BY <1>15 DEF Length
    <3>2. Len(mq[q[t]]) \in Nat /\ Divisor[t] \in Nat \ {0}
      BY <1>15, <2>1, DivisorAssumption
         DEF Length, At, IInv, TypeOK, LocalsOK, Owning, Dispatching, Thread
    <3>3. n \in Nat
      BY <3>2
    <3> HIDE DEF n
    <3> QED BY <3>1, <3>3 DEF IInv, TypeOK
  <2>3. pc' = [pc EXCEPT ![t] = "call"]
    BY <1>15 DEF Length, Goto
  <2> QED
    BY <1>15, <2>1, <2>2, <2>3, ThreadsAssumption
       DEF Length, svars, IInv, TypeOK, WorkerPC, Thread
<1>16. ASSUME NEW t \in Thread, Return(t)
      PROVE  TypeOK'
  BY <1>16, OpFacts, OpMade, ThreadsAssumption, ValuesAssumption
     DEF Return, Goto, At, IInv, TypeOK, LocalsOK, Thread, WorkerPC, AgentPC,
         ReleasePC, Owning, Dispatching
<1>17. ASSUME NEW t \in Thread, Keep(t)
      PROVE  TypeOK'
  BY <1>17, OpFacts, OpMade, ThreadsAssumption, ValuesAssumption
     DEF Keep, Goto, At, svars, IInv, TypeOK, LocalsOK, Thread, WorkerPC,
         AgentPC, ReleasePC, Owning, Dispatching
<1>18. ASSUME NEW t \in Thread, Swap(t)
      PROVE  TypeOK'
  BY <1>18, OpFacts, OpMade, ThreadsAssumption, ValuesAssumption
     DEF Swap, Goto, At, IInv, TypeOK, LocalsOK, Thread, WorkerPC, AgentPC,
         ReleasePC, Owning, Dispatching
<1>19. ASSUME NEW t \in Thread, PushBack(t)
      PROVE  TypeOK'
  BY <1>19, OpFacts, OpMade, ThreadsAssumption, ValuesAssumption
     DEF PushBack, Goto, At, IInv, TypeOK, LocalsOK, Thread, WorkerPC,
         AgentPC, ReleasePC, Owning, Dispatching
<1>20. ASSUME NEW t \in Thread, Requeue(t)
      PROVE  TypeOK'
  BY <1>20, OpFacts, OpMade, ThreadsAssumption, ValuesAssumption
     DEF Requeue, Goto, At, IInv, TypeOK, LocalsOK, Thread, WorkerPC, AgentPC,
         ReleasePC, Owning, Dispatching
<1>21. ASSUME NEW t \in Thread, StartDrop(t)
      PROVE  TypeOK'
  BY <1>21, OpFacts, OpMade, ThreadsAssumption, ValuesAssumption
     DEF StartDrop, Goto, At, svars, IInv, TypeOK, LocalsOK, Thread, WorkerPC,
         AgentPC, ReleasePC, Owning, Dispatching
<1>22. ASSUME NEW t \in Thread, DropMessage(t)
      PROVE  TypeOK'
  <2> DEFINE m == Head(mq[q[t]])
  <2>1. q[t] \in Handle /\ mq[q[t]] \in Seq(Msg) /\ mq[q[t]] # <<>>
    BY <1>22 DEF DropMessage, At, IInv, TypeOK, LocalsOK, Owning, ReleasePC
  <2>2. m \in Msg /\ Tail(mq[q[t]]) \in Seq(Msg)
    BY <2>1, TailFacts
  <2>3. mq' \in [Handle -> Seq(Msg)]
    BY <1>22, <2>2 DEF DropMessage, IInv, TypeOK
  <2>4. CASE Grab(source[m])
               /\ source' = [source EXCEPT ![m] = q[t]]
               /\ op' = [op EXCEPT ![t] = PushOp(source[m], m)]
    <3>1. source[m] \in Handle
      BY <2>4 DEF Grab, IInv, TypeOK
    <3>2. ref' \in [Handle -> Nat]
      BY <2>4, <3>1 DEF Grab, IInv, TypeOK
    <3>3. op' \in [Thread -> Op]
      BY <2>2, <2>4, <3>1, OpMade DEF IInv, TypeOK
    <3> QED
      BY <1>22, <2>1, <2>2, <2>3, <2>4, <3>2, <3>3 DEF DropMessage, IInv, TypeOK
  <2>5. CASE source' = [source EXCEPT ![m] = Unused] /\ UNCHANGED <<ref, op>>
    BY <1>22, <2>2, <2>3, <2>5 DEF DropMessage, IInv, TypeOK
  <2> QED
    BY <1>22, <2>4, <2>5 DEF DropMessage, Report
<1>23. ASSUME NEW t \in Thread, FreeQueue(t)
      PROVE  TypeOK'
  BY <1>23, OpFacts, OpMade, ThreadsAssumption, ValuesAssumption
     DEF FreeQueue, Unflagged, Goto, At, IInv, TypeOK, LocalsOK, Thread,
         WorkerPC, AgentPC, ReleasePC, Owning, Dispatching
<1>24. ASSUME UNCHANGED vars PROVE TypeOK'
  BY <1>24
     DEF vars, svars, tvars, IInv, TypeOK, LocalsOK, Thread, WorkerPC,
         AgentPC, ReleasePC, Owning, Dispatching
<1> QED
  BY <1>1, <1>2, <1>3, <1>4, <1>5, <1>6, <1>7, <1>8, <1>9, <1>10, <1>11,
     <1>12, <1>13, <1>14, <1>15, <1>16, <1>17, <1>18, <1>19, <1>20, <1>21,
     <1>22, <1>23, <1>24 DEF Next, Step

\* Every step keeps the locals of each thread fit for its place in the loop.
LEMMA LocalsStep == IInv /\ [Next]_vars => LocalsOK'
<1> SUFFICES ASSUME IInv, [Next]_vars PROVE LocalsOK'
  OBVIOUS
<1>1. ASSUME NEW t \in Thread, NEW h \in Handle, NEW m \in Msg, Send(t, h, m)
      PROVE  LocalsOK'
  BY <1>1, ThreadsAssumption, ValuesAssumption
     DEF Send, Grab, From, At, IInv, TypeOK, LocalsOK, Thread, Owning,
         Dispatching, WorkerPC, AgentPC, ReleasePC
<1>2. ASSUME NEW t \in Thread, Push(t)
      PROVE  LocalsOK'
  BY <1>2, ThreadsAssumption, ValuesAssumption
     DEF Push, Ready, IInv, TypeOK, LocalsOK, Thread, Owning, Dispatching,
         WorkerPC, AgentPC, ReleasePC
<1>3. ASSUME NEW t \in Thread, Release(t)
      PROVE  LocalsOK'
  BY <1>3, ThreadsAssumption, ValuesAssumption
     DEF Release, LastRef, IInv, TypeOK, LocalsOK, Thread, Owning,
         Dispatching, WorkerPC, AgentPC, ReleasePC
<1>4. ASSUME NEW t \in Thread, Delete(t)
      PROVE  LocalsOK'
  BY <1>4, ThreadsAssumption, ValuesAssumption
     DEF Delete, Ready, IInv, TypeOK, LocalsOK, Thread, Owning, Dispatching,
         WorkerPC, AgentPC, ReleasePC
<1>5. ASSUME NEW t \in Thread, NEW h \in Handle, Kill(t, h)
      PROVE  LocalsOK'
  BY <1>5, ThreadsAssumption, ValuesAssumption
     DEF Kill, Retire, At, IInv, TypeOK, LocalsOK, Thread, Owning,
         Dispatching, WorkerPC, AgentPC, ReleasePC
<1>6. ASSUME NEW t \in Thread, NEW h \in Handle, Launch(t, h)
      PROVE  LocalsOK'
  <2>1. \A s \in Thread : q[s] # h
    BY <1>6, NewUnowned DEF Launch, IInv
  <2> QED
    BY <1>6, <2>1, ThreadsAssumption, ValuesAssumption
       DEF Launch, Goto, At, IInv, TypeOK, LocalsOK, Thread, Owning, Dispatching,
           WorkerPC, AgentPC, ReleasePC
<1>7. ASSUME NEW t \in Thread, InitOk(t)
      PROVE  LocalsOK'
  BY <1>7, ThreadsAssumption, ValuesAssumption
     DEF InitOk, Goto, At, svars, IInv, TypeOK, LocalsOK, Thread, Owning,
         Dispatching, WorkerPC, AgentPC, ReleasePC
<1>8. ASSUME NEW t \in Thread, Launched(t)
      PROVE  LocalsOK'
  BY <1>8, ThreadsAssumption, ValuesAssumption
     DEF Launched, Goto, At, IInv, TypeOK, LocalsOK, Thread, Owning,
         Dispatching, WorkerPC, AgentPC, ReleasePC
<1>9. ASSUME NEW t \in Thread, InitFail(t)
      PROVE  LocalsOK'
  BY <1>9, ThreadsAssumption, ValuesAssumption
     DEF InitFail, Goto, At, svars, IInv, TypeOK, LocalsOK, Thread, Owning,
         Dispatching, WorkerPC, AgentPC, ReleasePC
<1>10. ASSUME NEW t \in Thread, FailRetire(t)
      PROVE  LocalsOK'
  BY <1>10, ThreadsAssumption, ValuesAssumption
     DEF FailRetire, Retire, Goto, At, svars, IInv, TypeOK, LocalsOK, Thread,
         Owning, Dispatching, WorkerPC, AgentPC, ReleasePC
<1>11. ASSUME NEW t \in Thread, Take(t)
      PROVE  LocalsOK'
  BY <1>11, ThreadsAssumption, ValuesAssumption
     DEF Take, At, IInv, TypeOK, LocalsOK, Thread, Owning, Dispatching,
         WorkerPC, AgentPC, ReleasePC
<1>12. ASSUME NEW t \in Thread, GrabContext(t)
      PROVE  LocalsOK'
  BY <1>12, ThreadsAssumption, ValuesAssumption
     DEF GrabContext, Grab, Goto, At, IInv, TypeOK, LocalsOK, Thread, Owning,
         Dispatching, WorkerPC, AgentPC, ReleasePC
<1>13. ASSUME NEW t \in Thread, PopEmpty(t)
      PROVE  LocalsOK'
  BY <1>13, ThreadsAssumption, ValuesAssumption
     DEF PopEmpty, Unflagged, Goto, At, IInv, TypeOK, LocalsOK, Thread,
         Owning, Dispatching, WorkerPC, AgentPC, ReleasePC
<1>14. ASSUME NEW t \in Thread, PopMessage(t)
      PROVE  LocalsOK'
  BY <1>14, ThreadsAssumption, ValuesAssumption
     DEF PopMessage, Goto, At, IInv, TypeOK, LocalsOK, Thread, Owning,
         Dispatching, WorkerPC, AgentPC, ReleasePC
<1>15. ASSUME NEW t \in Thread, Length(t)
      PROVE  LocalsOK'
  BY <1>15, ThreadsAssumption, ValuesAssumption
     DEF Length, Goto, At, svars, IInv, TypeOK, LocalsOK, Thread, Owning,
         Dispatching, WorkerPC, AgentPC, ReleasePC
<1>16. ASSUME NEW t \in Thread, Return(t)
      PROVE  LocalsOK'
  BY <1>16, ThreadsAssumption, ValuesAssumption
     DEF Return, Goto, At, IInv, TypeOK, LocalsOK, Thread, Owning,
         Dispatching, WorkerPC, AgentPC, ReleasePC
<1>17. ASSUME NEW t \in Thread, Keep(t)
      PROVE  LocalsOK'
  BY <1>17, ThreadsAssumption, ValuesAssumption
     DEF Keep, Goto, At, svars, IInv, TypeOK, LocalsOK, Thread, Owning,
         Dispatching, WorkerPC, AgentPC, ReleasePC
<1>18. ASSUME NEW t \in Thread, Swap(t)
      PROVE  LocalsOK'
  BY <1>18, ThreadsAssumption, ValuesAssumption
     DEF Swap, Goto, At, IInv, TypeOK, LocalsOK, Thread, Owning, Dispatching,
         WorkerPC, AgentPC, ReleasePC
<1>19. ASSUME NEW t \in Thread, PushBack(t)
      PROVE  LocalsOK'
  BY <1>19, ThreadsAssumption, ValuesAssumption
     DEF PushBack, Goto, At, IInv, TypeOK, LocalsOK, Thread, Owning,
         Dispatching, WorkerPC, AgentPC, ReleasePC
<1>20. ASSUME NEW t \in Thread, Requeue(t)
      PROVE  LocalsOK'
  BY <1>20, ThreadsAssumption, ValuesAssumption
     DEF Requeue, Goto, At, IInv, TypeOK, LocalsOK, Thread, Owning,
         Dispatching, WorkerPC, AgentPC, ReleasePC
<1>21. ASSUME NEW t \in Thread, StartDrop(t)
      PROVE  LocalsOK'
  BY <1>21, ThreadsAssumption, ValuesAssumption
     DEF StartDrop, Goto, At, svars, IInv, TypeOK, LocalsOK, Thread, Owning,
         Dispatching, WorkerPC, AgentPC, ReleasePC
<1>22. ASSUME NEW t \in Thread, DropMessage(t)
      PROVE  LocalsOK'
  BY <1>22, ThreadsAssumption, ValuesAssumption
     DEF DropMessage, Report, Grab, At, IInv, TypeOK, LocalsOK, Thread,
         Owning, Dispatching, WorkerPC, AgentPC, ReleasePC
<1>23. ASSUME NEW t \in Thread, FreeQueue(t)
      PROVE  LocalsOK'
  <2>1. q[t] # None /\ \A s \in Thread \ {t} : q[s] # q[t]
    BY <1>23 DEF FreeQueue, At, IInv, LocalsOK, TokenUnique, Owning, ReleasePC
  <2> QED
    BY <1>23, <2>1, ThreadsAssumption, ValuesAssumption
       DEF FreeQueue, Goto, At, IInv, TypeOK, LocalsOK, Thread, Owning,
           Dispatching, WorkerPC, AgentPC, ReleasePC
<1>24. ASSUME UNCHANGED vars PROVE LocalsOK'
  BY <1>24
     DEF vars, svars, tvars, IInv, TypeOK, LocalsOK, Thread, Owning,
         Dispatching, WorkerPC, AgentPC, ReleasePC
<1> QED
  BY <1>1, <1>2, <1>3, <1>4, <1>5, <1>6, <1>7, <1>8, <1>9, <1>10, <1>11,
     <1>12, <1>13, <1>14, <1>15, <1>16, <1>17, <1>18, <1>19, <1>20, <1>21,
     <1>22, <1>23, <1>24 DEF Next, Step

\* Every step keeps each queue in one place at most: in the global queue once,
\* or in the hands of one thread.
LEMMA TokenUniqueStep == IInv /\ [Next]_vars => TokenUnique'
<1> SUFFICES ASSUME IInv, [Next]_vars PROVE TokenUnique'
  OBVIOUS
<1>1. ASSUME NEW t \in Thread, NEW h \in Handle, NEW m \in Msg, Send(t, h, m)
      PROVE  TokenUnique'
  BY <1>1 DEF Send, IInv, TokenUnique, InList
<1>2. ASSUME NEW t \in Thread, Push(t)
      PROVE  TokenUnique'
  <2>1. op[t].h \in Handle /\ qstate[op[t].h] = "live"
    BY <1>2, OpFacts DEF Push, IInv, TypeOK, RefLive
  <2> QED
    BY <1>2, <2>1, ReadyFacts DEF Push, IInv, TokenUnique, InList
<1>3. ASSUME NEW t \in Thread, Release(t)
      PROVE  TokenUnique'
  BY <1>3 DEF Release, IInv, TokenUnique, InList
<1>4. ASSUME NEW t \in Thread, Delete(t)
      PROVE  TokenUnique'
  <2>1. op[t].h \in Handle /\ qstate[op[t].h] = "live"
    BY <1>4, OpFacts DEF Delete, IInv, TypeOK, RefLive
  <2> QED
    BY <1>4, <2>1, ReadyFacts DEF Delete, IInv, TokenUnique, InList
<1>5. ASSUME NEW t \in Thread, NEW h \in Handle, Kill(t, h)
      PROVE  TokenUnique'
  BY <1>5 DEF Kill, Retire, IInv, TokenUnique, InList
<1>6. ASSUME NEW t \in Thread, NEW h \in Handle, Launch(t, h)
      PROVE  TokenUnique'
  <2>1. h \notin Range(global) /\ \A s \in Thread : q[s] # h /\ nq[s] # h
    BY <1>6, NewUnowned DEF Launch, IInv
  <2> QED
    BY <1>6, <2>1 DEF Launch, IInv, TypeOK, TokenUnique, InList
<1>7. ASSUME NEW t \in Thread, InitOk(t)
      PROVE  TokenUnique'
  BY <1>7 DEF InitOk, svars, IInv, TokenUnique, InList
<1>8. ASSUME NEW t \in Thread, Launched(t)
      PROVE  TokenUnique'
  <2>1. q[t] # None
    BY <1>8 DEF Launched, At, IInv, LocalsOK, Owning
  <2> QED
    BY <1>8, <2>1, OwnedAppend DEF Launched, IInv, TypeOK, TokenUnique, InList
<1>9. ASSUME NEW t \in Thread, InitFail(t)
      PROVE  TokenUnique'
  BY <1>9 DEF InitFail, svars, IInv, TokenUnique, InList
<1>10. ASSUME NEW t \in Thread, FailRetire(t)
      PROVE  TokenUnique'
  BY <1>10 DEF FailRetire, Retire, svars, IInv, TokenUnique, InList
<1>11. ASSUME NEW t \in Thread, Take(t)
      PROVE  TokenUnique'
  BY <1>11, GlobalHead DEF Take, IInv, TypeOK, TokenUnique, InList
<1>12. ASSUME NEW t \in Thread, GrabContext(t)
      PROVE  TokenUnique'
  BY <1>12 DEF GrabContext, IInv, TokenUnique, InList
<1>13. ASSUME NEW t \in Thread, PopEmpty(t)
      PROVE  TokenUnique'
  BY <1>13 DEF PopEmpty, IInv, TypeOK, TokenUnique, InList
<1>14. ASSUME NEW t \in Thread, PopMessage(t)
      PROVE  TokenUnique'
  BY <1>14 DEF PopMessage, IInv, TokenUnique, InList
<1>15. ASSUME NEW t \in Thread, Length(t)
      PROVE  TokenUnique'
  BY <1>15 DEF Length, svars, IInv, TokenUnique, InList
<1>16. ASSUME NEW t \in Thread, Return(t)
      PROVE  TokenUnique'
  BY <1>16 DEF Return, IInv, TokenUnique, InList
<1>17. ASSUME NEW t \in Thread, Keep(t)
      PROVE  TokenUnique'
  BY <1>17 DEF Keep, svars, IInv, TokenUnique, InList
<1>18. ASSUME NEW t \in Thread, Swap(t)
      PROVE  TokenUnique'
  BY <1>18, GlobalHead DEF Swap, IInv, TypeOK, TokenUnique, InList
<1>19. ASSUME NEW t \in Thread, PushBack(t)
      PROVE  TokenUnique'
  <2>1. q[t] # None /\ nq[t] # None
    BY <1>19 DEF PushBack, At, IInv, LocalsOK, Owning, Dispatching
  <2> QED
    BY SMTT(30), <1>19, <2>1, OwnedAppend DEF PushBack, IInv, TypeOK, TokenUnique, InList
<1>20. ASSUME NEW t \in Thread, Requeue(t)
      PROVE  TokenUnique'
  <2>1. q[t] # None
    BY <1>20 DEF Requeue, At, IInv, LocalsOK, Owning, ReleasePC
  <2> QED
    BY <1>20, <2>1, OwnedAppend DEF Requeue, IInv, TypeOK, TokenUnique, InList
<1>21. ASSUME NEW t \in Thread, StartDrop(t)
      PROVE  TokenUnique'
  BY <1>21 DEF StartDrop, svars, IInv, TokenUnique, InList
<1>22. ASSUME NEW t \in Thread, DropMessage(t)
      PROVE  TokenUnique'
  BY <1>22 DEF DropMessage, Report, IInv, TokenUnique, InList
<1>23. ASSUME NEW t \in Thread, FreeQueue(t)
      PROVE  TokenUnique'
  BY <1>23 DEF FreeQueue, IInv, TypeOK, TokenUnique, InList
<1>24. ASSUME UNCHANGED vars PROVE TokenUnique'
  BY <1>24
     DEF vars, svars, tvars, IInv, TokenUnique, InList
<1> QED
  BY <1>1, <1>2, <1>3, <1>4, <1>5, <1>6, <1>7, <1>8, <1>9, <1>10, <1>11,
     <1>12, <1>13, <1>14, <1>15, <1>16, <1>17, <1>18, <1>19, <1>20, <1>21,
     <1>22, <1>23, <1>24 DEF Next, Step

\* Every step keeps the flag in_global exact: set as long as the queue of a
\* live context is in the global queue or in the hands of a thread.
LEMMA TokenExactStep == IInv /\ [Next]_vars => TokenExact'
<1> SUFFICES ASSUME IInv, [Next]_vars PROVE TokenExact'
  OBVIOUS
<1>1. ASSUME NEW t \in Thread, NEW h \in Handle, NEW m \in Msg, Send(t, h, m)
      PROVE  TokenExact'
  BY <1>1 DEF Send, IInv, TokenExact, Flagged, InList, Owned
<1>2. ASSUME NEW t \in Thread, Push(t)
      PROVE  TokenExact'
  <2>1. op[t].h \in Handle /\ qstate[op[t].h] = "live"
    BY <1>2, OpFacts DEF Push, IInv, TypeOK, RefLive
  <2> QED
    BY <1>2, <2>1, ReadyFacts DEF Push, IInv, TokenExact, Flagged, InList, Owned
<1>3. ASSUME NEW t \in Thread, Release(t)
      PROVE  TokenExact'
  BY <1>3 DEF Release, IInv, TokenExact, Flagged, InList, Owned
<1>4. ASSUME NEW t \in Thread, Delete(t)
      PROVE  TokenExact'
  <2>1. op[t].h \in Handle /\ qstate[op[t].h] = "live"
    BY <1>4, OpFacts DEF Delete, IInv, TypeOK, RefLive
  <2>2. \A g \in Handle : Owned(g)' <=> Owned(g)
    BY <1>4 DEF Delete, Owned
  <2>3. \A g \in Handle : InList(g)' <=> InList(g) \/ (g = op[t].h /\ g \notin inGlobal)
    BY <1>4, <2>1, ReadyFacts DEF Delete, InList
  <2>4. \A g \in Handle : Flagged(g)' <=> Flagged(g) \/ g = op[t].h
    BY <1>4, <2>1 DEF Delete, Flagged, IInv, TypeOK
  <2>5. op[t].h \in inGlobal => Flagged(op[t].h)
    BY <2>1 DEF Flagged
  <2> QED
    BY <2>1, <2>2, <2>3, <2>4, <2>5 DEF IInv, TokenExact
<1>5. ASSUME NEW t \in Thread, NEW h \in Handle, Kill(t, h)
      PROVE  TokenExact'
  BY <1>5 DEF Kill, Retire, IInv, TokenExact, Flagged, InList, Owned
<1>6. ASSUME NEW t \in Thread, NEW h \in Handle, Launch(t, h)
      PROVE  TokenExact'
  <2>1. h \notin Range(global) /\ \A s \in Thread : q[s] # h /\ nq[s] # h
    BY <1>6, NewUnowned DEF Launch, IInv
  <2> QED
    BY <1>6, <2>1, ValuesAssumption DEF Launch, TypeOK, IInv, TokenExact, Flagged, InList, Owned
<1>7. ASSUME NEW t \in Thread, InitOk(t)
      PROVE  TokenExact'
  BY <1>7 DEF InitOk, svars, IInv, TokenExact, Flagged, InList, Owned
<1>8. ASSUME NEW t \in Thread, Launched(t)
      PROVE  TokenExact'
  <2>1. q[t] # None
    BY <1>8 DEF Launched, At, IInv, LocalsOK, Owning
  <2> QED
    BY <1>8, <2>1, OwnedAppend, ValuesAssumption DEF Launched, TypeOK, IInv, TokenExact, Flagged, InList, Owned
<1>9. ASSUME NEW t \in Thread, InitFail(t)
      PROVE  TokenExact'
  BY <1>9 DEF InitFail, svars, IInv, TokenExact, Flagged, InList, Owned
<1>10. ASSUME NEW t \in Thread, FailRetire(t)
      PROVE  TokenExact'
  BY <1>10 DEF FailRetire, Retire, svars, IInv, TokenExact, Flagged, InList, Owned
<1>11. ASSUME NEW t \in Thread, Take(t)
      PROVE  TokenExact'
  BY <1>11, GlobalHead, ValuesAssumption DEF Take, TypeOK, IInv, TokenExact, Flagged, InList, Owned
<1>12. ASSUME NEW t \in Thread, GrabContext(t)
      PROVE  TokenExact'
  BY <1>12 DEF GrabContext, IInv, TokenExact, Flagged, InList, Owned
<1>13. ASSUME NEW t \in Thread, PopEmpty(t)
      PROVE  TokenExact'
  <2>1. q[t] \in Handle /\ qstate[q[t]] = "live"
    BY <1>13 DEF PopEmpty, At, IInv, TypeOK, LocalsOK, RefLive, Owning, Dispatching
  <2>2. q[t] \notin Range(global) /\ \A s \in Thread : s # t => q[s] # q[t]
    BY <2>1, ValuesAssumption DEF IInv, TokenUnique, InList
  <2>3. \A s \in Thread : nq[s] # q[t]
    BY <2>1, ValuesAssumption DEF IInv, TokenUnique
  <2> QED
    BY <1>13, <2>1, <2>2, <2>3, ValuesAssumption DEF PopEmpty, Unflagged, TypeOK, IInv, TokenExact, Flagged, InList, Owned
<1>14. ASSUME NEW t \in Thread, PopMessage(t)
      PROVE  TokenExact'
  BY <1>14 DEF PopMessage, IInv, TokenExact, Flagged, InList, Owned
<1>15. ASSUME NEW t \in Thread, Length(t)
      PROVE  TokenExact'
  BY <1>15 DEF Length, svars, IInv, TokenExact, Flagged, InList, Owned
<1>16. ASSUME NEW t \in Thread, Return(t)
      PROVE  TokenExact'
  BY <1>16 DEF Return, IInv, TokenExact, Flagged, InList, Owned
<1>17. ASSUME NEW t \in Thread, Keep(t)
      PROVE  TokenExact'
  BY <1>17 DEF Keep, svars, IInv, TokenExact, Flagged, InList, Owned
<1>18. ASSUME NEW t \in Thread, Swap(t)
      PROVE  TokenExact'
  <2>1. nq[t] = None
    BY <1>18 DEF Swap, At, IInv, LocalsOK
  <2> QED
    BY <1>18, <2>1, GlobalHead, ValuesAssumption DEF Swap, TypeOK, IInv, TokenExact, Flagged, InList, Owned
<1>19. ASSUME NEW t \in Thread, PushBack(t)
      PROVE  TokenExact'
  <2>1. q[t] # None /\ nq[t] # None
    BY <1>19 DEF PushBack, At, IInv, LocalsOK, Owning, Dispatching
  <2> QED
    BY <1>19, <2>1, OwnedAppend, ValuesAssumption DEF PushBack, TypeOK, IInv, TokenExact, Flagged, InList, Owned
<1>20. ASSUME NEW t \in Thread, Requeue(t)
      PROVE  TokenExact'
  <2>1. q[t] # None
    BY <1>20 DEF Requeue, At, IInv, LocalsOK, Owning, ReleasePC
  <2> QED
    BY <1>20, <2>1, OwnedAppend, ValuesAssumption DEF Requeue, TypeOK, IInv, TokenExact, Flagged, InList, Owned
<1>21. ASSUME NEW t \in Thread, StartDrop(t)
      PROVE  TokenExact'
  BY <1>21 DEF StartDrop, svars, IInv, TokenExact, Flagged, InList, Owned
<1>22. ASSUME NEW t \in Thread, DropMessage(t)
      PROVE  TokenExact'
  BY <1>22 DEF DropMessage, Report, IInv, TokenExact, Flagged, InList, Owned
<1>23. ASSUME NEW t \in Thread, FreeQueue(t)
      PROVE  TokenExact'
  <2>1. q[t] \in Handle /\ qstate[q[t]] = "released"
    BY <1>23 DEF FreeQueue, At, IInv, TypeOK, LocalsOK, Owning, ReleasePC
  <2>2. q[t] \notin Range(global) /\ \A s \in Thread : s # t => q[s] # q[t]
    BY <2>1, ValuesAssumption DEF IInv, TokenUnique, InList
  <2>3. \A s \in Thread : nq[s] # q[t]
    BY <2>1, ValuesAssumption DEF IInv, TokenUnique
  <2> QED
    BY <1>23, <2>1, <2>2, <2>3, ValuesAssumption DEF FreeQueue, Unflagged, TypeOK, IInv, TokenExact, Flagged, InList, Owned
<1>24. ASSUME UNCHANGED vars PROVE TokenExact'
  BY <1>24
     DEF vars, svars, tvars, IInv, TokenExact, Flagged, InList, Owned
<1> QED
  BY <1>1, <1>2, <1>3, <1>4, <1>5, <1>6, <1>7, <1>8, <1>9, <1>10, <1>11,
     <1>12, <1>13, <1>14, <1>15, <1>16, <1>17, <1>18, <1>19, <1>20, <1>21,
     <1>22, <1>23, <1>24 DEF Next, Step

\* Every step leaves the flag set on a queue with messages in it.
LEMMA QueueFlaggedStep == IInv /\ [Next]_vars => QueueFlagged'
<1> SUFFICES ASSUME IInv, [Next]_vars PROVE QueueFlagged'
  OBVIOUS
<1>1. ASSUME NEW t \in Thread, NEW h \in Handle, NEW m \in Msg, Send(t, h, m)
      PROVE  QueueFlagged'
  BY <1>1 DEF Send, IInv, QueueFlagged, Flagged
<1>2. ASSUME NEW t \in Thread, Push(t)
      PROVE  QueueFlagged'
  <2>1. op[t].h \in Handle /\ qstate[op[t].h] = "live"
    BY <1>2, OpFacts DEF Push, IInv, TypeOK, RefLive
  <2> QED
    BY <1>2, <2>1 DEF Push, TypeOK, IInv, QueueFlagged, Flagged
<1>3. ASSUME NEW t \in Thread, Release(t)
      PROVE  QueueFlagged'
  BY <1>3 DEF Release, IInv, QueueFlagged, Flagged
<1>4. ASSUME NEW t \in Thread, Delete(t)
      PROVE  QueueFlagged'
  BY <1>4 DEF Delete, TypeOK, IInv, QueueFlagged, Flagged
<1>5. ASSUME NEW t \in Thread, NEW h \in Handle, Kill(t, h)
      PROVE  QueueFlagged'
  BY <1>5 DEF Kill, Retire, IInv, QueueFlagged, Flagged
<1>6. ASSUME NEW t \in Thread, NEW h \in Handle, Launch(t, h)
      PROVE  QueueFlagged'
  BY <1>6 DEF Launch, TypeOK, IInv, QueueFlagged, Flagged
<1>7. ASSUME NEW t \in Thread, InitOk(t)
      PROVE  QueueFlagged'
  BY <1>7 DEF InitOk, svars, IInv, QueueFlagged, Flagged
<1>8. ASSUME NEW t \in Thread, Launched(t)
      PROVE  QueueFlagged'
  BY <1>8 DEF Launched, IInv, QueueFlagged, Flagged
<1>9. ASSUME NEW t \in Thread, InitFail(t)
      PROVE  QueueFlagged'
  BY <1>9 DEF InitFail, svars, IInv, QueueFlagged, Flagged
<1>10. ASSUME NEW t \in Thread, FailRetire(t)
      PROVE  QueueFlagged'
  BY <1>10 DEF FailRetire, Retire, svars, IInv, QueueFlagged, Flagged
<1>11. ASSUME NEW t \in Thread, Take(t)
      PROVE  QueueFlagged'
  BY <1>11 DEF Take, IInv, QueueFlagged, Flagged
<1>12. ASSUME NEW t \in Thread, GrabContext(t)
      PROVE  QueueFlagged'
  BY <1>12 DEF GrabContext, IInv, QueueFlagged, Flagged
<1>13. ASSUME NEW t \in Thread, PopEmpty(t)
      PROVE  QueueFlagged'
  <2>1. q[t] \in Handle
    BY <1>13 DEF PopEmpty, At, IInv, TypeOK, LocalsOK, Owning, Dispatching
  <2> QED
    BY <1>13, <2>1 DEF PopEmpty, Unflagged, IInv, QueueFlagged, Flagged
<1>14. ASSUME NEW t \in Thread, PopMessage(t)
      PROVE  QueueFlagged'
  <2>1. q[t] \in Handle
    BY <1>14 DEF PopMessage, At, IInv, TypeOK, LocalsOK, Owning, Dispatching
  <2>2. \A h \in Handle : mq'[h] # <<>> => mq[h] # <<>>
    BY <1>14, <2>1 DEF PopMessage, IInv, TypeOK
  <2> QED
    BY <1>14, <2>2 DEF PopMessage, IInv, QueueFlagged, Flagged
<1>15. ASSUME NEW t \in Thread, Length(t)
      PROVE  QueueFlagged'
  BY <1>15 DEF Length, svars, IInv, QueueFlagged, Flagged
<1>16. ASSUME NEW t \in Thread, Return(t)
      PROVE  QueueFlagged'
  BY <1>16 DEF Return, IInv, QueueFlagged, Flagged
<1>17. ASSUME NEW t \in Thread, Keep(t)
      PROVE  QueueFlagged'
  BY <1>17 DEF Keep, svars, IInv, QueueFlagged, Flagged
<1>18. ASSUME NEW t \in Thread, Swap(t)
      PROVE  QueueFlagged'
  BY <1>18 DEF Swap, IInv, QueueFlagged, Flagged
<1>19. ASSUME NEW t \in Thread, PushBack(t)
      PROVE  QueueFlagged'
  BY <1>19 DEF PushBack, IInv, QueueFlagged, Flagged
<1>20. ASSUME NEW t \in Thread, Requeue(t)
      PROVE  QueueFlagged'
  BY <1>20 DEF Requeue, IInv, QueueFlagged, Flagged
<1>21. ASSUME NEW t \in Thread, StartDrop(t)
      PROVE  QueueFlagged'
  BY <1>21 DEF StartDrop, svars, IInv, QueueFlagged, Flagged
<1>22. ASSUME NEW t \in Thread, DropMessage(t)
      PROVE  QueueFlagged'
  <2>1. q[t] \in Handle
    BY <1>22 DEF DropMessage, At, IInv, TypeOK, LocalsOK, Owning, ReleasePC
  <2>2. \A h \in Handle : mq'[h] # <<>> => mq[h] # <<>>
    BY <1>22, <2>1 DEF DropMessage, IInv, TypeOK
  <2> QED
    BY <1>22, <2>2 DEF DropMessage, IInv, QueueFlagged, Flagged
<1>23. ASSUME NEW t \in Thread, FreeQueue(t)
      PROVE  QueueFlagged'
  <2>1. q[t] \in Handle
    BY <1>23 DEF FreeQueue, At, IInv, TypeOK, LocalsOK, Owning, ReleasePC
  <2> QED
    BY <1>23, <2>1 DEF FreeQueue, Unflagged, TypeOK, IInv, QueueFlagged, Flagged
<1>24. ASSUME UNCHANGED vars PROVE QueueFlagged'
  BY <1>24
     DEF vars, svars, tvars, IInv, QueueFlagged, Flagged
<1> QED
  BY <1>1, <1>2, <1>3, <1>4, <1>5, <1>6, <1>7, <1>8, <1>9, <1>10, <1>11,
     <1>12, <1>13, <1>14, <1>15, <1>16, <1>17, <1>18, <1>19, <1>20, <1>21,
     <1>22, <1>23, <1>24 DEF Next, Step

\* Every step keeps a service whose init still runs out of the workers' reach.
LEMMA InitGuardStep == IInv /\ [Next]_vars => InitGuard'
<1> SUFFICES ASSUME IInv, [Next]_vars PROVE InitGuard'
  OBVIOUS
<1>1. ASSUME NEW t \in Thread, NEW h \in Handle, NEW m \in Msg, Send(t, h, m)
      PROVE  InitGuard'
  BY <1>1 DEF Send, IInv, InitGuard, InList
<1>2. ASSUME NEW t \in Thread, Push(t)
      PROVE  InitGuard'
  <2>1. op[t].h \in Handle /\ qstate[op[t].h] = "live"
    BY <1>2, OpFacts DEF Push, IInv, TypeOK, RefLive
  <2>2. op[t].h \in slot \ inited => op[t].h \in inGlobal
    BY DEF IInv, InitGuard
  <2> QED
    BY <1>2, <2>1, <2>2, ReadyFacts DEF Push, IInv, InitGuard, InList
<1>3. ASSUME NEW t \in Thread, Release(t)
      PROVE  InitGuard'
  BY <1>3 DEF Release, IInv, InitGuard, InList
<1>4. ASSUME NEW t \in Thread, Delete(t)
      PROVE  InitGuard'
  <2>1. op[t].h \in Handle /\ qstate[op[t].h] = "live" /\ op[t].h \notin slot
    BY <1>4, OpFacts, RefHeld DEF Delete, IInv, TypeOK, RefLive
  <2> QED
    BY <1>4, <2>1, ReadyFacts DEF Delete, IInv, InitGuard, InList
<1>5. ASSUME NEW t \in Thread, NEW h \in Handle, Kill(t, h)
      PROVE  InitGuard'
  BY <1>5 DEF Kill, Retire, IInv, InitGuard, InList
<1>6. ASSUME NEW t \in Thread, NEW h \in Handle, Launch(t, h)
      PROVE  InitGuard'
  <2>1. h \notin Range(global) /\ \A s \in Thread : q[s] # h /\ nq[s] # h
    BY <1>6, NewUnowned DEF Launch, IInv
  <2>2. t \notin Worker
    BY <1>6, ThreadsAssumption DEF Launch
  <2> QED
    BY <1>6, <2>1, <2>2 DEF Launch, Goto, TypeOK, Thread, Dispatching, IInv, InitGuard, InList
<1>7. ASSUME NEW t \in Thread, InitOk(t)
      PROVE  InitGuard'
  BY <1>7 DEF InitOk, Goto, svars, TypeOK, Thread, Dispatching, IInv, InitGuard, InList
<1>8. ASSUME NEW t \in Thread, Launched(t)
      PROVE  InitGuard'
  <2>1. q[t] # None /\ t \notin Worker
    BY <1>8, ThreadsAssumption DEF Launched, At, IInv, TypeOK, LocalsOK, Owning, WorkerPC, ReleasePC
  <2>2. q[t] \in slot => qstate[q[t]] = "live"
    BY DEF IInv, RefLive
  <2> QED
    BY <1>8, <2>1, <2>2, OwnedAppend
       DEF Launched, Goto, TypeOK, Thread, Dispatching, IInv, InitGuard, InList
<1>9. ASSUME NEW t \in Thread, InitFail(t)
      PROVE  InitGuard'
  BY <1>9 DEF InitFail, Goto, svars, TypeOK, Thread, Dispatching, IInv, InitGuard, InList
<1>10. ASSUME NEW t \in Thread, FailRetire(t)
      PROVE  InitGuard'
  BY <1>10 DEF FailRetire, Retire, Goto, svars, TypeOK, Thread, Dispatching, ReleasePC, IInv, InitGuard, InList
<1>11. ASSUME NEW t \in Thread, Take(t)
      PROVE  InitGuard'
  <2>1. Head(global) \notin slot \ inited
    BY <1>11, GlobalHead DEF Take, IInv, InitGuard, InList
  <2> QED
    BY <1>11, <2>1, GlobalHead DEF Take, At, TypeOK, Thread, Dispatching, IInv, InitGuard, InList
<1>12. ASSUME NEW t \in Thread, GrabContext(t)
      PROVE  InitGuard'
  <2>1. CASE q[t] \in slot /\ pc' = [pc EXCEPT ![t] = "first"]
    <3>1. q[t] \in inited
      BY <1>12, <2>1 DEF GrabContext, IInv, InitGuard
    <3> QED
      BY <1>12, <2>1, <3>1 DEF GrabContext, TypeOK, Thread, IInv, InitGuard, InList
  <2>2. CASE pc' = [pc EXCEPT ![t] = "mqrelease"]
    BY <1>12, <2>2 DEF GrabContext, TypeOK, Thread, Dispatching, IInv, InitGuard, InList
  <2> QED
    BY <1>12, <2>1, <2>2 DEF GrabContext, Grab, Goto
<1>13. ASSUME NEW t \in Thread, PopEmpty(t)
      PROVE  InitGuard'
  <2>1. t \in Worker /\ q[t] \notin slot \ inited
    BY <1>13 DEF PopEmpty, At, IInv, TypeOK, InitGuard, Thread, AgentPC, ReleasePC
  <2> QED
    BY <1>13, <2>1, ValuesAssumption
       DEF PopEmpty, Unflagged, Goto, TypeOK, Thread, Dispatching, IInv, InitGuard, InList
<1>14. ASSUME NEW t \in Thread, PopMessage(t)
      PROVE  InitGuard'
  <2>1. pc[t] \in Dispatching
    BY <1>14 DEF PopMessage, At, Dispatching
  <2> QED
    BY <1>14, <2>1 DEF PopMessage, Goto, TypeOK, Thread, IInv, InitGuard, InList
<1>15. ASSUME NEW t \in Thread, Length(t)
      PROVE  InitGuard'
  <2>1. pc[t] \in Dispatching
    BY <1>15 DEF Length, At, Dispatching
  <2> QED
    BY <1>15, <2>1 DEF Length, Goto, svars, TypeOK, Thread, IInv, InitGuard, InList
<1>16. ASSUME NEW t \in Thread, Return(t)
      PROVE  InitGuard'
  <2>1. pc[t] \in Dispatching
    BY <1>16 DEF Return, At, Dispatching
  <2> QED
    BY <1>16, <2>1 DEF Return, Goto, TypeOK, Thread, IInv, InitGuard, InList
<1>17. ASSUME NEW t \in Thread, Keep(t)
      PROVE  InitGuard'
  BY <1>17 DEF Keep, Goto, svars, TypeOK, Thread, Dispatching, IInv, InitGuard, InList
<1>18. ASSUME NEW t \in Thread, Swap(t)
      PROVE  InitGuard'
  <2>1. Head(global) \notin slot \ inited /\ pc[t] \in Dispatching
    BY <1>18, GlobalHead DEF Swap, At, Dispatching, IInv, InitGuard, InList
  <2> QED
    BY <1>18, <2>1, GlobalHead DEF Swap, Goto, TypeOK, Thread, IInv, InitGuard, InList
<1>19. ASSUME NEW t \in Thread, PushBack(t)
      PROVE  InitGuard'
  <2>1. /\ q[t] # None /\ nq[t] # None
        /\ t \in Worker
        /\ q[t] \notin slot \ inited /\ nq[t] \notin slot \ inited
    BY <1>19 DEF PushBack, At, IInv, TypeOK, LocalsOK, InitGuard, Owning, Dispatching,
       Thread, AgentPC, ReleasePC
  <2> QED
    BY <1>19, <2>1, OwnedAppend, ValuesAssumption
       DEF PushBack, Goto, TypeOK, Thread, Dispatching, IInv, InitGuard, InList
<1>20. ASSUME NEW t \in Thread, Requeue(t)
      PROVE  InitGuard'
  <2>1. q[t] # None /\ q[t] \notin slot
    BY <1>20 DEF Requeue, At, IInv, LocalsOK, Owning, ReleasePC
  <2> QED
    BY <1>20, <2>1, OwnedAppend, ValuesAssumption
       DEF Requeue, Goto, TypeOK, Thread, Dispatching, IInv, InitGuard, InList
<1>21. ASSUME NEW t \in Thread, StartDrop(t)
      PROVE  InitGuard'
  BY <1>21 DEF StartDrop, Goto, svars, TypeOK, Thread, Dispatching, IInv, InitGuard, InList
<1>22. ASSUME NEW t \in Thread, DropMessage(t)
      PROVE  InitGuard'
  BY <1>22 DEF DropMessage, Report, IInv, InitGuard, InList
<1>23. ASSUME NEW t \in Thread, FreeQueue(t)
      PROVE  InitGuard'
  <2>1. q[t] # None /\ q[t] \notin slot
    BY <1>23 DEF FreeQueue, At, IInv, LocalsOK, Owning, ReleasePC
  <2> QED
    BY <1>23, <2>1, ValuesAssumption
       DEF FreeQueue, Unflagged, Goto, TypeOK, Thread, Dispatching, IInv, InitGuard, InList
<1>24. ASSUME UNCHANGED vars PROVE InitGuard'
  BY <1>24
     DEF vars, svars, tvars, IInv, InitGuard, InList
<1> QED
  BY <1>1, <1>2, <1>3, <1>4, <1>5, <1>6, <1>7, <1>8, <1>9, <1>10, <1>11,
     <1>12, <1>13, <1>14, <1>15, <1>16, <1>17, <1>18, <1>19, <1>20, <1>21,
     <1>22, <1>23, <1>24 DEF Next, Step

\* Every step leaves references to live contexts only: the context is deleted
\* by one thread, when nobody else holds a reference.
LEMMA RefLiveStep == IInv /\ [Next]_vars => RefLive'
<1> SUFFICES ASSUME IInv, [Next]_vars PROVE RefLive'
  OBVIOUS
<1>1. ASSUME NEW t \in Thread, NEW h \in Handle, NEW m \in Msg, Send(t, h, m)
      PROVE  RefLive'
  <2>1. op' = [op EXCEPT ![t] = PushOp(h, m)] /\ ref' = [ref EXCEPT ![h] = ref[h] + 1]
    BY <1>1 DEF Send, Grab
  <2>2. qstate[h] = "live" /\ \A s \in Thread : op[s].kind = "delete" => op[s].h # h
    BY <1>1, RefHeld DEF Send, Grab, IInv, RefLive
  <2>3. \A s \in Thread : op[s].kind = "delete" => ref'[op[s].h] = ref[op[s].h]
    BY <2>1, <2>2, OpFacts DEF IInv, TypeOK
  <2> QED
    BY <1>1, <2>1, <2>2, <2>3, OpFacts, OpMade DEF Send, TypeOK, IInv, RefLive
<1>2. ASSUME NEW t \in Thread, Push(t)
      PROVE  RefLive'
  <2>1. op[t].h \in Handle /\ qstate[op[t].h] = "live"
    BY <1>2, OpFacts DEF Push, IInv, TypeOK, RefLive
  <2> QED
    BY <1>2, <2>1, OpMade DEF Push, TypeOK, IInv, RefLive
<1>3. ASSUME NEW t \in Thread, Release(t)
      PROVE  RefLive'
  <2> DEFINE h == op[t].h
  <2>1. h \in Handle /\ ref[h] \in Nat \ {0} /\ qstate[h] = "live"
    BY <1>3, RefPositive, OpFacts DEF Release, TypeOK, IInv, RefLive
  <2>2. ref' = [ref EXCEPT ![h] = ref[h] - 1] /\ qstate' = qstate /\ slot' = slot
        /\ pc' = pc /\ q' = q
    BY <1>3 DEF Release
  <2>3. \A s \in Thread : op[s].kind = "delete" => op[s].h # h /\ s # t
    BY <1>3, <2>1 DEF Release, IInv, RefLive
  <2>4. \A s \in Thread : op[s].kind = "delete" => ref'[op[s].h] = ref[op[s].h]
    BY <2>2, <2>3, OpFacts DEF IInv, TypeOK
  <2>5. \/ ref'[h] = 0 /\ op' = [op EXCEPT ![t] = DeleteOp(h)]
        \/ op' = [op EXCEPT ![t] = NoOp]
    <3>1. CASE ref[h] = 1
      <4>1. op' = [op EXCEPT ![t] = DeleteOp(h)]
        BY <1>3, <3>1 DEF Release, LastRef
      <4>2. ref \in [Handle -> Nat]
        BY DEF IInv, TypeOK
      <4> QED BY <2>1, <2>2, <3>1, <4>1, <4>2
    <3>2. CASE ref[h] # 1
      BY <1>3, <3>2 DEF Release, LastRef
    <3> QED BY <3>1, <3>2
  <2> HIDE DEF h
  <2>6. \A s \in Thread : op'[s] # op[s] =>
          s = t /\ (op'[s] = NoOp \/ (op'[s] = DeleteOp(h) /\ ref'[h] = 0))
    <3>1. op \in [Thread -> Op]
      BY DEF IInv, TypeOK
    <3>2. CASE op' = [op EXCEPT ![t] = DeleteOp(h)] /\ ref'[h] = 0
      BY <3>1, <3>2
    <3>3. CASE op' = [op EXCEPT ![t] = NoOp]
      BY <3>1, <3>3
    <3> QED BY <2>5, <3>2, <3>3
  <2>7. \A s \in Thread :
          /\ op'[s] # NoOp => qstate'[op'[s].h] = "live"
          /\ op'[s].kind = "delete" => ref'[op'[s].h] = 0
    <3> SUFFICES ASSUME NEW s \in Thread
                 PROVE  /\ op'[s] # NoOp => qstate'[op'[s].h] = "live"
                        /\ op'[s].kind = "delete" => ref'[op'[s].h] = 0
      OBVIOUS
    <3>1. CASE op'[s] = op[s]
      BY <2>2, <2>4, <3>1 DEF IInv, RefLive
    <3>2. CASE op'[s] # op[s]
      BY <2>1, <2>2, <2>6, <3>2, OpMade DEF IInv, RefLive
    <3> QED BY <3>1, <3>2
  <2>8. \A s \in Thread : op'[s].kind = "delete" =>
          \/ op[s].kind = "delete" /\ op'[s] = op[s] /\ op[s].h # h
          \/ s = t /\ op'[s].h = h
    <3> SUFFICES ASSUME NEW s \in Thread, op'[s].kind = "delete"
                 PROVE  \/ op[s].kind = "delete" /\ op'[s] = op[s] /\ op[s].h # h
                        \/ s = t /\ op'[s].h = h
      OBVIOUS
    <3>1. CASE op'[s] = op[s]
      BY <2>3, <3>1
    <3>2. CASE op'[s] # op[s]
      BY <2>1, <2>6, <3>2, OpMade
    <3> QED BY <3>1, <3>2
  <2> QED
    BY <2>2, <2>7, <2>8 DEF IInv, RefLive
<1>4. ASSUME NEW t \in Thread, Delete(t)
      PROVE  RefLive'
  <2> DEFINE h == op[t].h
  <2>1. h \in Handle /\ ref[h] = 0
    BY <1>4, OpFacts DEF Delete, TypeOK, IInv, RefLive
  <2>2. h \notin slot
        /\ \A s \in Thread : s \notin OpHolders(h) /\ s \notin CtxHolders(h)
    BY <2>1, RefHeld DEF IInv
  <2>3. \A s \in Thread : s # t /\ op[s] # NoOp => op[s].h # h
    BY <1>4, <2>2, OpFacts DEF Delete, OpHolders, TypeOK, IInv, RefLive
  <2>4. \A s \in Thread : pc[s] \in Dispatching \cup {"init"} => q[s] # h
    BY <2>2 DEF CtxHolders
  <2>5. /\ qstate' = [qstate EXCEPT ![h] = "released"]
        /\ op' = [op EXCEPT ![t] = NoOp]
        /\ UNCHANGED <<slot, ref, pc, q>>
    BY <1>4 DEF Delete
  <2> HIDE DEF h
  <2> QED
    BY <2>1, <2>2, <2>3, <2>4, <2>5, OpMade DEF TypeOK, IInv, RefLive
<1>5. ASSUME NEW t \in Thread, NEW h \in Handle, Kill(t, h)
      PROVE  RefLive'
  <2>1. h \in slot /\ qstate[h] = "live"
    BY <1>5 DEF Kill, Retire, IInv, RefLive
  <2> QED
    BY <1>5, <2>1, OpMade DEF Kill, Retire, TypeOK, IInv, RefLive
<1>6. ASSUME NEW t \in Thread, NEW h \in Handle, Launch(t, h)
      PROVE  RefLive'
  <2>1. \A s \in Thread : op[s] # NoOp => op[s].h # h
    BY <1>6 DEF Launch, IInv, RefLive
  <2>2. \A s \in Thread : pc[s] \in Dispatching \cup {"init"} => q[s] # h
    BY <1>6 DEF Launch, IInv, RefLive
  <2>3. \A s \in Thread : op[s].kind = "delete" => op[s].h \in Handle /\ op[s].h # h
    BY <2>1, OpFacts DEF IInv, TypeOK
  <2>4. \A s \in Thread : op[s].kind = "delete" => ref'[op[s].h] = ref[op[s].h]
    BY <1>6, <2>3 DEF Launch, IInv, TypeOK
  <2>5. \A g \in Handle : qstate'[g] = IF g = h THEN "live" ELSE qstate[g]
    BY <1>6 DEF Launch, IInv, TypeOK
  <2>6. qstate'[h] = "live" /\ \A g : g # h => qstate'[g] = qstate[g]
    BY <1>6 DEF Launch, IInv, TypeOK
  <2> QED
    BY <1>6, <2>1, <2>2, <2>4, <2>6 DEF Launch, Goto, At, TypeOK, Dispatching, IInv, RefLive
<1>7. ASSUME NEW t \in Thread, InitOk(t)
      PROVE  RefLive'
  <2>1. q[t] \in Handle /\ qstate[q[t]] = "live"
    BY <1>7 DEF InitOk, At, TypeOK, LocalsOK, Owning, IInv, RefLive
  <2> QED
    BY <1>7, <2>1, OpMade DEF InitOk, Goto, svars, TypeOK, Dispatching, IInv, RefLive
<1>8. ASSUME NEW t \in Thread, Launched(t)
      PROVE  RefLive'
  BY <1>8 DEF Launched, Goto, TypeOK, Dispatching, IInv, RefLive
<1>9. ASSUME NEW t \in Thread, InitFail(t)
      PROVE  RefLive'
  <2>1. q[t] \in Handle /\ qstate[q[t]] = "live"
    BY <1>9 DEF InitFail, At, TypeOK, LocalsOK, Owning, IInv, RefLive
  <2> QED
    BY <1>9, <2>1, OpMade DEF InitFail, Goto, svars, TypeOK, Dispatching, IInv, RefLive
<1>10. ASSUME NEW t \in Thread, FailRetire(t)
      PROVE  RefLive'
  <2>1. (op' = [op EXCEPT ![t] = ReleaseOp(q[t])] /\ q[t] \in slot) \/ op' = op
    BY <1>10 DEF FailRetire, Retire
  <2>2. slot' \subseteq slot /\ qstate' = qstate /\ ref' = ref /\ q' = q
        /\ pc' = [pc EXCEPT ![t] = "mqrelease"]
    BY <1>10 DEF FailRetire, Retire, Goto, svars
  <2>3. q[t] \in slot => qstate[q[t]] = "live"
    BY DEF IInv, RefLive
  <2>4. \A s \in Thread : op'[s] # op[s] =>
          s = t /\ q[t] \in slot /\ op'[s] = ReleaseOp(q[t])
    BY <2>1 DEF IInv, TypeOK
  <2>5. q[t] \in slot => ReleaseOp(q[t]).kind = "release" /\ ReleaseOp(q[t]).h = q[t]
    BY DEF ReleaseOp
  <2>6. \A s \in Thread : pc'[s] \in Dispatching \cup {"init"} =>
          pc[s] \in Dispatching \cup {"init"}
    BY <2>2 DEF IInv, TypeOK, Dispatching
  <2> QED
    BY <2>2, <2>3, <2>4, <2>5, <2>6 DEF IInv, RefLive
<1>11. ASSUME NEW t \in Thread, Take(t)
      PROVE  RefLive'
  BY <1>11 DEF Take, At, TypeOK, Dispatching, IInv, RefLive
<1>12. ASSUME NEW t \in Thread, GrabContext(t)
      PROVE  RefLive'
  <2>1. CASE Grab(q[t]) /\ Goto(t, "first")
    <3>1. q[t] \in Handle /\ ref' = [ref EXCEPT ![q[t]] = ref[q[t]] + 1]
          /\ qstate[q[t]] = "live"
      BY <2>1 DEF Grab, TypeOK, IInv, RefLive
    <3>2. \A s \in Thread : op[s].kind = "delete" => op[s].h # q[t]
      BY <2>1, RefHeld DEF Grab, TypeOK, IInv, RefLive
    <3>3. \A s \in Thread : op[s].kind = "delete" => ref'[op[s].h] = ref[op[s].h]
      BY <3>1, <3>2, OpFacts DEF IInv, TypeOK
    <3> QED
      BY <1>12, <2>1, <3>1, <3>3 DEF GrabContext, Goto, TypeOK, IInv, RefLive
  <2>2. CASE ref' = ref /\ Goto(t, "mqrelease")
    BY <1>12, <2>2 DEF GrabContext, Goto, TypeOK, Dispatching, IInv, RefLive
  <2> QED
    BY <1>12, <2>1, <2>2 DEF GrabContext
<1>13. ASSUME NEW t \in Thread, PopEmpty(t)
      PROVE  RefLive'
  <2>1. q[t] \in Handle /\ qstate[q[t]] = "live"
    BY <1>13 DEF PopEmpty, At, TypeOK, LocalsOK, Owning, Dispatching, IInv, RefLive
  <2> QED
    BY <1>13, <2>1, OpMade DEF PopEmpty, Goto, TypeOK, Dispatching, IInv, RefLive
<1>14. ASSUME NEW t \in Thread, PopMessage(t)
      PROVE  RefLive'
  <2>1. pc[t] \in Dispatching
    BY <1>14 DEF PopMessage, At, Dispatching
  <2> QED
    BY <1>14, <2>1 DEF PopMessage, Goto, TypeOK, IInv, RefLive
<1>15. ASSUME NEW t \in Thread, Length(t)
      PROVE  RefLive'
  <2>1. pc[t] \in Dispatching
    BY <1>15 DEF Length, At, Dispatching
  <2> QED
    BY <1>15, <2>1 DEF Length, Goto, svars, TypeOK, IInv, RefLive
<1>16. ASSUME NEW t \in Thread, Return(t)
      PROVE  RefLive'
  <2>1. pc[t] \in Dispatching
    BY <1>16 DEF Return, At, Dispatching
  <2> QED
    BY <1>16, <2>1 DEF Return, Goto, TypeOK, IInv, RefLive
<1>17. ASSUME NEW t \in Thread, Keep(t)
      PROVE  RefLive'
  <2>1. q[t] \in Handle /\ qstate[q[t]] = "live"
    BY <1>17 DEF Keep, At, TypeOK, LocalsOK, Owning, Dispatching, IInv, RefLive
  <2> QED
    BY <1>17, <2>1, OpMade DEF Keep, Goto, svars, TypeOK, Dispatching, IInv, RefLive
<1>18. ASSUME NEW t \in Thread, Swap(t)
      PROVE  RefLive'
  <2>1. pc[t] \in Dispatching
    BY <1>18 DEF Swap, At, Dispatching
  <2> QED
    BY <1>18, <2>1 DEF Swap, Goto, TypeOK, IInv, RefLive
<1>19. ASSUME NEW t \in Thread, PushBack(t)
      PROVE  RefLive'
  <2>1. q[t] \in Handle /\ qstate[q[t]] = "live"
    BY <1>19 DEF PushBack, At, TypeOK, LocalsOK, Owning, Dispatching, IInv, RefLive
  <2> QED
    BY <1>19, <2>1, OpMade DEF PushBack, Goto, TypeOK, Dispatching, IInv, RefLive
<1>20. ASSUME NEW t \in Thread, Requeue(t)
      PROVE  RefLive'
  BY <1>20 DEF Requeue, Goto, TypeOK, Dispatching, IInv, RefLive
<1>21. ASSUME NEW t \in Thread, StartDrop(t)
      PROVE  RefLive'
  BY <1>21 DEF StartDrop, Goto, svars, TypeOK, Dispatching, IInv, RefLive
<1>22. ASSUME NEW t \in Thread, DropMessage(t)
      PROVE  RefLive'
  <2> DEFINE m == Head(mq[q[t]])
             s0 == source[m]
  <2>1. CASE Grab(s0) /\ op' = [op EXCEPT ![t] = PushOp(s0, m)]
    <3>1. s0 \in Handle /\ ref' = [ref EXCEPT ![s0] = ref[s0] + 1]
          /\ qstate[s0] = "live"
      BY <2>1 DEF Grab, TypeOK, IInv, RefLive
    <3>2. \A s \in Thread : op[s].kind = "delete" => op[s].h # s0
      BY <2>1, <3>1, RefHeld DEF Grab, TypeOK, IInv, RefLive
    <3>3. \A s \in Thread : op[s].kind = "delete" => ref'[op[s].h] = ref[op[s].h]
      BY <3>1, <3>2, OpFacts DEF IInv, TypeOK
    <3>4. PushOp(s0, m).h = s0 /\ PushOp(s0, m).kind = "push"
      BY DEF PushOp
    <3>5. UNCHANGED <<slot, qstate, pc, q>>
      BY <1>22 DEF DropMessage
    <3> HIDE DEF s0, m
    <3> QED
      BY <2>1, <3>1, <3>2, <3>3, <3>4, <3>5 DEF TypeOK, IInv, RefLive
  <2>2. CASE UNCHANGED <<ref, op>>
    BY <1>22, <2>2 DEF DropMessage, IInv, RefLive
  <2> QED
    BY <1>22, <2>1, <2>2 DEF DropMessage, Report
<1>23. ASSUME NEW t \in Thread, FreeQueue(t)
      PROVE  RefLive'
  <2>1. q[t] \in Handle /\ qstate[q[t]] = "released"
    BY <1>23 DEF FreeQueue, At, IInv, TypeOK, LocalsOK, Owning, ReleasePC
  <2> QED
    BY <1>23, <2>1 DEF FreeQueue, Goto, At, TypeOK, Dispatching, IInv, RefLive
<1>24. ASSUME UNCHANGED vars PROVE RefLive'
  BY <1>24
     DEF vars, svars, tvars, IInv, RefLive
<1> QED
  BY <1>1, <1>2, <1>3, <1>4, <1>5, <1>6, <1>7, <1>8, <1>9, <1>10, <1>11,
     <1>12, <1>13, <1>14, <1>15, <1>16, <1>17, <1>18, <1>19, <1>20, <1>21,
     <1>22, <1>23, <1>24 DEF Next, Step

\* Every step keeps the reference count equal to the number of holders.
LEMMA RefExactStep == IInv /\ [Next]_vars => RefExact'
<1> SUFFICES ASSUME IInv, [Next]_vars PROVE RefExact'
  OBVIOUS
<1>1. ASSUME NEW t \in Thread, NEW h \in Handle, NEW m \in Msg, Send(t, h, m)
      PROVE  RefExact'
  <2>1. \A u \in Thread \ {t} : op'[u] = op[u] /\ pc'[u] = pc[u] /\ q'[u] = q[u]
    BY <1>1 DEF Send, Grab, From, At, IInv, TypeOK
  <2>2. op[t].kind = "none" /\ h \in Handle
    BY <1>1
       DEF Send, Grab, From, At, NoOp, IInv, TypeOK
  <2>3. /\ op'[t].kind = "push" /\ op'[t].h = h
        /\ UNCHANGED <<pc, q, slot>>
    BY <1>1, <2>2, OpMade
       DEF Send, Grab, From, At, IInv, TypeOK
  <2>4. \A g \in Handle : ref'[g] = ref[g] + One(g = h)
    BY <1>1, <2>2
       DEF Send, Grab, From, At, IInv, TypeOK, One
  <2>5. ASSUME NEW g \in Handle
        PROVE  ref'[g] = ref[g] - One(HoldsOp(t, g)) + One(HoldsOp(t, g)')
                                - One(HoldsCtx(t, g)) + One(HoldsCtx(t, g)')
                                - One(g \in slot) + One(g \in slot')
    BY <2>2, <2>3, <2>4, OpMade DEF One, HoldsOp, HoldsCtx, Dispatching, IInv, TypeOK
  <2> QED BY <2>1, <2>5, Balance DEF IInv
<1>2. ASSUME NEW t \in Thread, Push(t)
      PROVE  RefExact'
  <2>1. \A u \in Thread \ {t} : op'[u] = op[u] /\ pc'[u] = pc[u] /\ q'[u] = q[u]
    BY <1>2 DEF Push, Ready, IInv, TypeOK
  <2>2. op[t].kind = "push" /\ op[t].h \in Handle
    BY <1>2, OpFacts
       DEF Push, Ready, NoOp, IInv, TypeOK
  <2>3. /\ op'[t].kind = "release" /\ op'[t].h = op[t].h
        /\ UNCHANGED <<pc, q, slot>>
    BY <1>2, <2>2, OpMade
       DEF Push, Ready, IInv, TypeOK
  <2>4. \A g \in Handle : ref'[g] = ref[g]
    BY <1>2, <2>2
       DEF Push, Ready, IInv, TypeOK
  <2>5. ASSUME NEW g \in Handle
        PROVE  ref'[g] = ref[g] - One(HoldsOp(t, g)) + One(HoldsOp(t, g)')
                                - One(HoldsCtx(t, g)) + One(HoldsCtx(t, g)')
                                - One(g \in slot) + One(g \in slot')
    <3>1. /\ HoldsOp(t, g)' <=> HoldsOp(t, g)
          /\ HoldsCtx(t, g)' <=> HoldsCtx(t, g)
      BY <2>2, <2>3, <2>4 DEF HoldsOp, HoldsCtx, Dispatching
    <3>2. ref[g] \in Nat
      BY DEF IInv, TypeOK
    <3> QED BY <2>2, <2>3, <2>4, <3>1, <3>2 DEF One
  <2> QED BY <2>1, <2>5, Balance DEF IInv
<1>3. ASSUME NEW t \in Thread, Release(t)
      PROVE  RefExact'
  <2>1. \A u \in Thread \ {t} : op'[u] = op[u] /\ pc'[u] = pc[u] /\ q'[u] = q[u]
    BY <1>3 DEF Release, LastRef, IInv, TypeOK
  <2>2. op[t].kind = "release" /\ op[t].h \in Handle
    BY <1>3, OpFacts
       DEF Release, LastRef, NoOp, IInv, TypeOK
  <2>3. /\ op'[t].kind \in {"none", "delete"}
        /\ UNCHANGED <<pc, q, slot>>
    BY <1>3, <2>2, OpMade
       DEF Release, LastRef, IInv, TypeOK
  <2>4. \A g \in Handle : ref'[g] = ref[g] - One(g = op[t].h)
    BY <1>3, <2>2
       DEF Release, LastRef, IInv, TypeOK, One
  <2>5. ASSUME NEW g \in Handle
        PROVE  ref'[g] = ref[g] - One(HoldsOp(t, g)) + One(HoldsOp(t, g)')
                                - One(HoldsCtx(t, g)) + One(HoldsCtx(t, g)')
                                - One(g \in slot) + One(g \in slot')
    <3>1. /\ HoldsOp(t, g) <=> g = op[t].h
          /\ ~HoldsOp(t, g)'
          /\ HoldsCtx(t, g)' <=> HoldsCtx(t, g)
      BY <2>2, <2>3, <2>4 DEF HoldsOp, HoldsCtx, Dispatching
    <3>2. ref[g] \in Nat
      BY DEF IInv, TypeOK
    <3> QED BY <2>2, <2>3, <2>4, <3>1, <3>2 DEF One
  <2> QED BY <2>1, <2>5, Balance DEF IInv
<1>4. ASSUME NEW t \in Thread, Delete(t)
      PROVE  RefExact'
  <2>1. \A u \in Thread \ {t} : op'[u] = op[u] /\ pc'[u] = pc[u] /\ q'[u] = q[u]
    BY <1>4 DEF Delete, Ready, IInv, TypeOK
  <2>2. op[t].kind = "delete"
    BY <1>4
       DEF Delete, Ready, NoOp, IInv, TypeOK
  <2>3. /\ op'[t].kind = "none"
        /\ UNCHANGED <<pc, q, slot>>
    BY <1>4, <2>2, OpMade
       DEF Delete, Ready, IInv, TypeOK
  <2>4. \A g \in Handle : ref'[g] = ref[g]
    BY <1>4, <2>2
       DEF Delete, Ready, IInv, TypeOK
  <2>5. ASSUME NEW g \in Handle
        PROVE  ref'[g] = ref[g] - One(HoldsOp(t, g)) + One(HoldsOp(t, g)')
                                - One(HoldsCtx(t, g)) + One(HoldsCtx(t, g)')
                                - One(g \in slot) + One(g \in slot')
    <3>1. /\ ~HoldsOp(t, g) /\ ~HoldsOp(t, g)'
          /\ HoldsCtx(t, g)' <=> HoldsCtx(t, g)
      BY <2>2, <2>3, <2>4 DEF HoldsOp, HoldsCtx, Dispatching
    <3>2. ref[g] \in Nat
      BY DEF IInv, TypeOK
    <3> QED BY <2>2, <2>3, <2>4, <3>1, <3>2 DEF One
  <2> QED BY <2>1, <2>5, Balance DEF IInv
<1>5. ASSUME NEW t \in Thread, NEW h \in Handle, Kill(t, h)
      PROVE  RefExact'
  <2>1. \A u \in Thread \ {t} : op'[u] = op[u] /\ pc'[u] = pc[u] /\ q'[u] = q[u]
    BY <1>5 DEF Kill, Retire, At, IInv, TypeOK
  <2>2. op[t].kind = "none" /\ h \in slot
    BY <1>5
       DEF Kill, Retire, At, NoOp, IInv, TypeOK
  <2>3. /\ op'[t].kind = "release" /\ op'[t].h = h
        /\ UNCHANGED <<pc, q>> /\ slot' = slot \ {h}
    BY <1>5, <2>2, OpMade
       DEF Kill, Retire, At, IInv, TypeOK
  <2>4. \A g \in Handle : ref'[g] = ref[g]
    BY <1>5, <2>2
       DEF Kill, Retire, At, IInv, TypeOK
  <2>5. ASSUME NEW g \in Handle
        PROVE  ref'[g] = ref[g] - One(HoldsOp(t, g)) + One(HoldsOp(t, g)')
                                - One(HoldsCtx(t, g)) + One(HoldsCtx(t, g)')
                                - One(g \in slot) + One(g \in slot')
    BY <2>2, <2>3, <2>4, OpMade DEF One, HoldsOp, HoldsCtx, Dispatching, IInv, TypeOK
  <2> QED BY <2>1, <2>5, Balance DEF IInv
<1>6. ASSUME NEW t \in Thread, NEW h \in Handle, Launch(t, h)
      PROVE  RefExact'
  <2>1. \A u \in Thread \ {t} : op'[u] = op[u] /\ pc'[u] = pc[u] /\ q'[u] = q[u]
    BY <1>6 DEF Launch, Goto, At, IInv, TypeOK
  <2>2. /\ op[t].kind = "none" /\ pc[t] = "top"
        /\ h \notin slot /\ ref[h] = 0
    BY <1>6, NewUnheld
       DEF Launch, Goto, At, NoOp, IInv, TypeOK, RefLive
  <2>3. /\ op'[t].kind = "none" /\ pc'[t] = "init" /\ q'[t] = h
        /\ slot' = slot \cup {h}
    BY <1>6, <2>2, OpMade
       DEF Launch, Goto, At, IInv, TypeOK
  <2>4. \A g \in Handle : ref'[g] = IF g = h THEN 2 ELSE ref[g]
    BY <1>6, <2>2
       DEF Launch, Goto, At, IInv, TypeOK
  <2>5. ASSUME NEW g \in Handle
        PROVE  ref'[g] = ref[g] - One(HoldsOp(t, g)) + One(HoldsOp(t, g)')
                                - One(HoldsCtx(t, g)) + One(HoldsCtx(t, g)')
                                - One(g \in slot) + One(g \in slot')
    BY <2>2, <2>3, <2>4, OpMade DEF One, HoldsOp, HoldsCtx, Dispatching, IInv, TypeOK
  <2> QED BY <2>1, <2>5, Balance DEF IInv
<1>7. ASSUME NEW t \in Thread, InitOk(t)
      PROVE  RefExact'
  <2>1. \A u \in Thread \ {t} : op'[u] = op[u] /\ pc'[u] = pc[u] /\ q'[u] = q[u]
    BY <1>7 DEF InitOk, Goto, At, svars, IInv, TypeOK
  <2>2. op[t].kind = "none" /\ pc[t] = "init"
        /\ q[t] \in Handle
    BY <1>7
       DEF InitOk, Goto, At, svars, NoOp, IInv, TypeOK, LocalsOK, Owning, Dispatching, ReleasePC, At
  <2>3. op'[t].kind = "release" /\ op'[t].h = q[t]
        /\ pc'[t] \in {"ok", "failRetire"} /\ UNCHANGED <<q, slot>>
    BY <1>7, <2>2, OpMade
       DEF InitOk, Goto, At, svars, IInv, TypeOK
  <2>4. \A g \in Handle : ref'[g] = ref[g]
    BY <1>7, <2>2
       DEF InitOk, Goto, At, svars, IInv, TypeOK
  <2>5. ASSUME NEW g \in Handle
        PROVE  ref'[g] = ref[g] - One(HoldsOp(t, g)) + One(HoldsOp(t, g)')
                                - One(HoldsCtx(t, g)) + One(HoldsCtx(t, g)')
                                - One(g \in slot) + One(g \in slot')
    <3>1. /\ ~HoldsOp(t, g)
          /\ HoldsOp(t, g)' <=> HoldsCtx(t, g)
          /\ ~HoldsCtx(t, g)'
      BY <2>2, <2>3, <2>4 DEF HoldsOp, HoldsCtx, Dispatching
    <3>2. ref[g] \in Nat
      BY DEF IInv, TypeOK
    <3> QED BY <2>2, <2>3, <2>4, <3>1, <3>2 DEF One
  <2> QED BY <2>1, <2>5, Balance DEF IInv
<1>8. ASSUME NEW t \in Thread, Launched(t)
      PROVE  RefExact'
  <2>1. \A u \in Thread \ {t} : op'[u] = op[u] /\ pc'[u] = pc[u] /\ q'[u] = q[u]
    BY <1>8 DEF Launched, Goto, At, IInv, TypeOK
  <2>2. op[t].kind = "none" /\ pc[t] = "ok"
    BY <1>8
       DEF Launched, Goto, At, NoOp, IInv, TypeOK
  <2>3. op'[t].kind = "none" /\ pc'[t] = "top" /\ UNCHANGED slot
    BY <1>8, <2>2, OpMade
       DEF Launched, Goto, At, IInv, TypeOK
  <2>4. \A g \in Handle : ref'[g] = ref[g]
    BY <1>8, <2>2
       DEF Launched, Goto, At, IInv, TypeOK
  <2>5. ASSUME NEW g \in Handle
        PROVE  ref'[g] = ref[g] - One(HoldsOp(t, g)) + One(HoldsOp(t, g)')
                                - One(HoldsCtx(t, g)) + One(HoldsCtx(t, g)')
                                - One(g \in slot) + One(g \in slot')
    BY <2>2, <2>3, <2>4, OpMade DEF One, HoldsOp, HoldsCtx, Dispatching, IInv, TypeOK
  <2> QED BY <2>1, <2>5, Balance DEF IInv
<1>9. ASSUME NEW t \in Thread, InitFail(t)
      PROVE  RefExact'
  <2>1. \A u \in Thread \ {t} : op'[u] = op[u] /\ pc'[u] = pc[u] /\ q'[u] = q[u]
    BY <1>9 DEF InitFail, Goto, At, svars, IInv, TypeOK
  <2>2. op[t].kind = "none" /\ pc[t] = "init"
        /\ q[t] \in Handle
    BY <1>9
       DEF InitFail, Goto, At, svars, NoOp, IInv, TypeOK, LocalsOK, Owning, Dispatching, ReleasePC, At
  <2>3. op'[t].kind = "release" /\ op'[t].h = q[t]
        /\ pc'[t] \in {"ok", "failRetire"} /\ UNCHANGED <<q, slot>>
    BY <1>9, <2>2, OpMade
       DEF InitFail, Goto, At, svars, IInv, TypeOK
  <2>4. \A g \in Handle : ref'[g] = ref[g]
    BY <1>9, <2>2
       DEF InitFail, Goto, At, svars, IInv, TypeOK
  <2>5. ASSUME NEW g \in Handle
        PROVE  ref'[g] = ref[g] - One(HoldsOp(t, g)) + One(HoldsOp(t, g)')
                                - One(HoldsCtx(t, g)) + One(HoldsCtx(t, g)')
                                - One(g \in slot) + One(g \in slot')
    <3>1. /\ ~HoldsOp(t, g)
          /\ HoldsOp(t, g)' <=> HoldsCtx(t, g)
          /\ ~HoldsCtx(t, g)'
      BY <2>2, <2>3, <2>4 DEF HoldsOp, HoldsCtx, Dispatching
    <3>2. ref[g] \in Nat
      BY DEF IInv, TypeOK
    <3> QED BY <2>2, <2>3, <2>4, <3>1, <3>2 DEF One
  <2> QED BY <2>1, <2>5, Balance DEF IInv
<1>10. ASSUME NEW t \in Thread, FailRetire(t)
      PROVE  RefExact'
  <2>1. \A u \in Thread \ {t} : op'[u] = op[u] /\ pc'[u] = pc[u] /\ q'[u] = q[u]
    BY <1>10 DEF FailRetire, Retire, Goto, At, svars, IInv, TypeOK
  <2>2. op[t].kind = "none" /\ pc[t] = "failRetire"
    BY <1>10
       DEF FailRetire, Retire, Goto, At, svars, NoOp, IInv, TypeOK
  <2>3. /\ \/ q[t] \in slot /\ slot' = slot \ {q[t]}
              /\ op'[t].kind = "release" /\ op'[t].h = q[t]
           \/ op'[t].kind = "none" /\ slot' = slot
        /\ pc'[t] = "mqrelease" /\ UNCHANGED q
    BY <1>10, <2>2, OpMade
       DEF FailRetire, Retire, Goto, At, svars, IInv, TypeOK
  <2>4. \A g \in Handle : ref'[g] = ref[g]
    BY <1>10, <2>2
       DEF FailRetire, Retire, Goto, At, svars, IInv, TypeOK
  <2>5. ASSUME NEW g \in Handle
        PROVE  ref'[g] = ref[g] - One(HoldsOp(t, g)) + One(HoldsOp(t, g)')
                                - One(HoldsCtx(t, g)) + One(HoldsCtx(t, g)')
                                - One(g \in slot) + One(g \in slot')
    BY <2>2, <2>3, <2>4, OpMade DEF One, HoldsOp, HoldsCtx, Dispatching, IInv, TypeOK
  <2> QED BY <2>1, <2>5, Balance DEF IInv
<1>11. ASSUME NEW t \in Thread, Take(t)
      PROVE  RefExact'
  <2>1. \A u \in Thread \ {t} : op'[u] = op[u] /\ pc'[u] = pc[u] /\ q'[u] = q[u]
    BY <1>11 DEF Take, At, IInv, TypeOK
  <2>2. op[t].kind = "none" /\ pc[t] = "top"
    BY <1>11
       DEF Take, At, NoOp, IInv, TypeOK
  <2>3. op'[t].kind = "none" /\ pc'[t] = "top" /\ UNCHANGED slot
    BY <1>11, <2>2, OpMade
       DEF Take, At, IInv, TypeOK
  <2>4. \A g \in Handle : ref'[g] = ref[g]
    BY <1>11, <2>2
       DEF Take, At, IInv, TypeOK
  <2>5. ASSUME NEW g \in Handle
        PROVE  ref'[g] = ref[g] - One(HoldsOp(t, g)) + One(HoldsOp(t, g)')
                                - One(HoldsCtx(t, g)) + One(HoldsCtx(t, g)')
                                - One(g \in slot) + One(g \in slot')
    BY <2>2, <2>3, <2>4, OpMade DEF One, HoldsOp, HoldsCtx, Dispatching, IInv, TypeOK
  <2> QED BY <2>1, <2>5, Balance DEF IInv
<1>12. ASSUME NEW t \in Thread, GrabContext(t)
      PROVE  RefExact'
  <2>1. \A u \in Thread \ {t} : op'[u] = op[u] /\ pc'[u] = pc[u] /\ q'[u] = q[u]
    BY <1>12 DEF GrabContext, Grab, Goto, At, IInv, TypeOK
  <2>2. op[t].kind = "none" /\ pc[t] = "top" /\ q[t] \in Handle
    BY <1>12
       DEF GrabContext, Grab, Goto, At, NoOp, IInv, TypeOK
  <2>3. /\ op'[t].kind = "none" /\ pc'[t] \in {"first", "mqrelease"}
        /\ UNCHANGED <<q, slot>>
    BY <1>12, <2>2, OpMade
       DEF GrabContext, Grab, Goto, At, IInv, TypeOK
  <2>4. \A g \in Handle : ref'[g] = ref[g] + One(g = q[t] /\ pc'[t] = "first")
    BY <1>12, <2>2
       DEF GrabContext, Grab, Goto, At, IInv, TypeOK, One
  <2>5. ASSUME NEW g \in Handle
        PROVE  ref'[g] = ref[g] - One(HoldsOp(t, g)) + One(HoldsOp(t, g)')
                                - One(HoldsCtx(t, g)) + One(HoldsCtx(t, g)')
                                - One(g \in slot) + One(g \in slot')
    <3>1. /\ ~HoldsOp(t, g) /\ ~HoldsOp(t, g)'
          /\ ~HoldsCtx(t, g)
          /\ HoldsCtx(t, g)' <=> g = q[t] /\ pc'[t] = "first"
      BY <2>2, <2>3, <2>4 DEF HoldsOp, HoldsCtx, Dispatching
    <3>2. ref[g] \in Nat
      BY DEF IInv, TypeOK
    <3> QED BY <2>2, <2>3, <2>4, <3>1, <3>2 DEF One
  <2> QED BY <2>1, <2>5, Balance DEF IInv
<1>13. ASSUME NEW t \in Thread, PopEmpty(t)
      PROVE  RefExact'
  <2>1. \A u \in Thread \ {t} : op'[u] = op[u] /\ pc'[u] = pc[u] /\ q'[u] = q[u]
    BY <1>13 DEF PopEmpty, Unflagged, Goto, At, IInv, TypeOK
  <2>2. op[t].kind = "none" /\ pc[t] \in Dispatching /\ q[t] \in Handle
    BY <1>13
       DEF PopEmpty, Unflagged, Goto, At, NoOp, IInv, TypeOK, LocalsOK, Owning, Dispatching, ReleasePC, At
  <2>3. /\ op'[t].kind = "release" /\ op'[t].h = q[t]
        /\ pc'[t] = "top" /\ UNCHANGED slot
    BY <1>13, <2>2, OpMade
       DEF PopEmpty, Unflagged, Goto, At, IInv, TypeOK
  <2>4. \A g \in Handle : ref'[g] = ref[g]
    BY <1>13, <2>2
       DEF PopEmpty, Unflagged, Goto, At, IInv, TypeOK
  <2>5. ASSUME NEW g \in Handle
        PROVE  ref'[g] = ref[g] - One(HoldsOp(t, g)) + One(HoldsOp(t, g)')
                                - One(HoldsCtx(t, g)) + One(HoldsCtx(t, g)')
                                - One(g \in slot) + One(g \in slot')
    BY <2>2, <2>3, <2>4, OpMade DEF One, HoldsOp, HoldsCtx, Dispatching, IInv, TypeOK
  <2> QED BY <2>1, <2>5, Balance DEF IInv
<1>14. ASSUME NEW t \in Thread, PopMessage(t)
      PROVE  RefExact'
  <2>1. \A u \in Thread \ {t} : op'[u] = op[u] /\ pc'[u] = pc[u] /\ q'[u] = q[u]
    BY <1>14 DEF PopMessage, Goto, At, IInv, TypeOK
  <2>2. pc[t] \in Dispatching
    BY <1>14
       DEF PopMessage, Goto, At, NoOp, IInv, TypeOK, Dispatching, At
  <2>3. pc'[t] \in Dispatching /\ UNCHANGED <<op, q, slot>>
    BY <1>14, <2>2, OpMade
       DEF Dispatching, PopMessage, Goto, At, IInv, TypeOK
  <2>4. \A g \in Handle : ref'[g] = ref[g]
    BY <1>14, <2>2
       DEF PopMessage, Goto, At, IInv, TypeOK
  <2>5. ASSUME NEW g \in Handle
        PROVE  ref'[g] = ref[g] - One(HoldsOp(t, g)) + One(HoldsOp(t, g)')
                                - One(HoldsCtx(t, g)) + One(HoldsCtx(t, g)')
                                - One(g \in slot) + One(g \in slot')
    BY <2>2, <2>3, <2>4, OpMade DEF One, HoldsOp, HoldsCtx, Dispatching, IInv, TypeOK
  <2> QED BY <2>1, <2>5, Balance DEF IInv
<1>15. ASSUME NEW t \in Thread, Length(t)
      PROVE  RefExact'
  <2>1. \A u \in Thread \ {t} : op'[u] = op[u] /\ pc'[u] = pc[u] /\ q'[u] = q[u]
    BY <1>15 DEF Length, Goto, At, svars, IInv, TypeOK
  <2>2. pc[t] \in Dispatching
    BY <1>15
       DEF Length, Goto, At, svars, NoOp, IInv, TypeOK, Dispatching, At
  <2>3. pc'[t] \in Dispatching /\ UNCHANGED <<op, q, slot>>
    BY <1>15, <2>2, OpMade
       DEF Dispatching, Length, Goto, At, svars, IInv, TypeOK
  <2>4. \A g \in Handle : ref'[g] = ref[g]
    BY <1>15, <2>2
       DEF Length, Goto, At, svars, IInv, TypeOK
  <2>5. ASSUME NEW g \in Handle
        PROVE  ref'[g] = ref[g] - One(HoldsOp(t, g)) + One(HoldsOp(t, g)')
                                - One(HoldsCtx(t, g)) + One(HoldsCtx(t, g)')
                                - One(g \in slot) + One(g \in slot')
    BY <2>2, <2>3, <2>4, OpMade DEF One, HoldsOp, HoldsCtx, Dispatching, IInv, TypeOK
  <2> QED BY <2>1, <2>5, Balance DEF IInv
<1>16. ASSUME NEW t \in Thread, Return(t)
      PROVE  RefExact'
  <2>1. \A u \in Thread \ {t} : op'[u] = op[u] /\ pc'[u] = pc[u] /\ q'[u] = q[u]
    BY <1>16 DEF Return, Goto, At, IInv, TypeOK
  <2>2. pc[t] \in Dispatching
    BY <1>16
       DEF Return, Goto, At, NoOp, IInv, TypeOK, Dispatching, At
  <2>3. pc'[t] \in Dispatching /\ UNCHANGED <<op, q, slot>>
    BY <1>16, <2>2, OpMade
       DEF Dispatching, Return, Goto, At, IInv, TypeOK
  <2>4. \A g \in Handle : ref'[g] = ref[g]
    BY <1>16, <2>2
       DEF Return, Goto, At, IInv, TypeOK
  <2>5. ASSUME NEW g \in Handle
        PROVE  ref'[g] = ref[g] - One(HoldsOp(t, g)) + One(HoldsOp(t, g)')
                                - One(HoldsCtx(t, g)) + One(HoldsCtx(t, g)')
                                - One(g \in slot) + One(g \in slot')
    BY <2>2, <2>3, <2>4, OpMade DEF One, HoldsOp, HoldsCtx, Dispatching, IInv, TypeOK
  <2> QED BY <2>1, <2>5, Balance DEF IInv
<1>17. ASSUME NEW t \in Thread, Keep(t)
      PROVE  RefExact'
  <2>1. \A u \in Thread \ {t} : op'[u] = op[u] /\ pc'[u] = pc[u] /\ q'[u] = q[u]
    BY <1>17 DEF Keep, Goto, At, svars, IInv, TypeOK
  <2>2. op[t].kind = "none" /\ pc[t] \in Dispatching /\ q[t] \in Handle
    BY <1>17
       DEF Keep, Goto, At, svars, NoOp, IInv, TypeOK, LocalsOK, Owning, Dispatching, ReleasePC, At
  <2>3. /\ op'[t].kind = "release" /\ op'[t].h = q[t]
        /\ pc'[t] = "top" /\ UNCHANGED slot
    BY <1>17, <2>2, OpMade
       DEF Keep, Goto, At, svars, IInv, TypeOK
  <2>4. \A g \in Handle : ref'[g] = ref[g]
    BY <1>17, <2>2
       DEF Keep, Goto, At, svars, IInv, TypeOK
  <2>5. ASSUME NEW g \in Handle
        PROVE  ref'[g] = ref[g] - One(HoldsOp(t, g)) + One(HoldsOp(t, g)')
                                - One(HoldsCtx(t, g)) + One(HoldsCtx(t, g)')
                                - One(g \in slot) + One(g \in slot')
    BY <2>2, <2>3, <2>4, OpMade DEF One, HoldsOp, HoldsCtx, Dispatching, IInv, TypeOK
  <2> QED BY <2>1, <2>5, Balance DEF IInv
<1>18. ASSUME NEW t \in Thread, Swap(t)
      PROVE  RefExact'
  <2>1. \A u \in Thread \ {t} : op'[u] = op[u] /\ pc'[u] = pc[u] /\ q'[u] = q[u]
    BY <1>18 DEF Swap, Goto, At, IInv, TypeOK
  <2>2. pc[t] \in Dispatching
    BY <1>18
       DEF Swap, Goto, At, NoOp, IInv, TypeOK, Dispatching, At
  <2>3. pc'[t] \in Dispatching /\ UNCHANGED <<op, q, slot>>
    BY <1>18, <2>2, OpMade
       DEF Dispatching, Swap, Goto, At, IInv, TypeOK
  <2>4. \A g \in Handle : ref'[g] = ref[g]
    BY <1>18, <2>2
       DEF Swap, Goto, At, IInv, TypeOK
  <2>5. ASSUME NEW g \in Handle
        PROVE  ref'[g] = ref[g] - One(HoldsOp(t, g)) + One(HoldsOp(t, g)')
                                - One(HoldsCtx(t, g)) + One(HoldsCtx(t, g)')
                                - One(g \in slot) + One(g \in slot')
    BY <2>2, <2>3, <2>4, OpMade DEF One, HoldsOp, HoldsCtx, Dispatching, IInv, TypeOK
  <2> QED BY <2>1, <2>5, Balance DEF IInv
<1>19. ASSUME NEW t \in Thread, PushBack(t)
      PROVE  RefExact'
  <2>1. \A u \in Thread \ {t} : op'[u] = op[u] /\ pc'[u] = pc[u] /\ q'[u] = q[u]
    BY <1>19 DEF PushBack, Goto, At, IInv, TypeOK
  <2>2. op[t].kind = "none" /\ pc[t] \in Dispatching /\ q[t] \in Handle
    BY <1>19
       DEF PushBack, Goto, At, NoOp, IInv, TypeOK, LocalsOK, Owning, Dispatching, ReleasePC, At
  <2>3. /\ op'[t].kind = "release" /\ op'[t].h = q[t]
        /\ pc'[t] = "top" /\ UNCHANGED slot
    BY <1>19, <2>2, OpMade
       DEF PushBack, Goto, At, IInv, TypeOK
  <2>4. \A g \in Handle : ref'[g] = ref[g]
    BY <1>19, <2>2
       DEF PushBack, Goto, At, IInv, TypeOK
  <2>5. ASSUME NEW g \in Handle
        PROVE  ref'[g] = ref[g] - One(HoldsOp(t, g)) + One(HoldsOp(t, g)')
                                - One(HoldsCtx(t, g)) + One(HoldsCtx(t, g)')
                                - One(g \in slot) + One(g \in slot')
    BY <2>2, <2>3, <2>4, OpMade DEF One, HoldsOp, HoldsCtx, Dispatching, IInv, TypeOK
  <2> QED BY <2>1, <2>5, Balance DEF IInv
<1>20. ASSUME NEW t \in Thread, Requeue(t)
      PROVE  RefExact'
  <2>1. \A u \in Thread \ {t} : op'[u] = op[u] /\ pc'[u] = pc[u] /\ q'[u] = q[u]
    BY <1>20 DEF Requeue, Goto, At, IInv, TypeOK
  <2>2. pc[t] = "mqrelease"
    BY <1>20
       DEF Requeue, Goto, At, NoOp, IInv, TypeOK
  <2>3. pc'[t] = "top" /\ UNCHANGED <<op, slot>>
    BY <1>20, <2>2, OpMade
       DEF Requeue, Goto, At, IInv, TypeOK
  <2>4. \A g \in Handle : ref'[g] = ref[g]
    BY <1>20, <2>2
       DEF Requeue, Goto, At, IInv, TypeOK
  <2>5. ASSUME NEW g \in Handle
        PROVE  ref'[g] = ref[g] - One(HoldsOp(t, g)) + One(HoldsOp(t, g)')
                                - One(HoldsCtx(t, g)) + One(HoldsCtx(t, g)')
                                - One(g \in slot) + One(g \in slot')
    BY <2>2, <2>3, <2>4, OpMade DEF One, HoldsOp, HoldsCtx, Dispatching, IInv, TypeOK
  <2> QED BY <2>1, <2>5, Balance DEF IInv
<1>21. ASSUME NEW t \in Thread, StartDrop(t)
      PROVE  RefExact'
  <2>1. \A u \in Thread \ {t} : op'[u] = op[u] /\ pc'[u] = pc[u] /\ q'[u] = q[u]
    BY <1>21 DEF StartDrop, Goto, At, svars, IInv, TypeOK
  <2>2. pc[t] = "mqrelease"
    BY <1>21
       DEF StartDrop, Goto, At, svars, NoOp, IInv, TypeOK
  <2>3. pc'[t] = "drop" /\ UNCHANGED <<op, slot>>
    BY <1>21, <2>2, OpMade
       DEF StartDrop, Goto, At, svars, IInv, TypeOK
  <2>4. \A g \in Handle : ref'[g] = ref[g]
    BY <1>21, <2>2
       DEF StartDrop, Goto, At, svars, IInv, TypeOK
  <2>5. ASSUME NEW g \in Handle
        PROVE  ref'[g] = ref[g] - One(HoldsOp(t, g)) + One(HoldsOp(t, g)')
                                - One(HoldsCtx(t, g)) + One(HoldsCtx(t, g)')
                                - One(g \in slot) + One(g \in slot')
    BY <2>2, <2>3, <2>4, OpMade DEF One, HoldsOp, HoldsCtx, Dispatching, IInv, TypeOK
  <2> QED BY <2>1, <2>5, Balance DEF IInv
<1>22. ASSUME NEW t \in Thread, DropMessage(t)
      PROVE  RefExact'
  <2>1. \A u \in Thread \ {t} : op'[u] = op[u] /\ pc'[u] = pc[u] /\ q'[u] = q[u]
    BY <1>22 DEF DropMessage, Report, Grab, At, IInv, TypeOK
  <2>2. op[t].kind = "none" /\ pc[t] = "drop"
    BY <1>22
       DEF DropMessage, Report, Grab, At, NoOp, IInv, TypeOK
  <2> DEFINE m == Head(mq[q[t]])
  <2>3. \/ /\ op'[t].kind = "push" /\ op'[t].h = source[m] /\ source[m] \in slot
           /\ ref' = [ref EXCEPT ![source[m]] = ref[source[m]] + 1]
        \/ UNCHANGED <<op, ref>>
    <3>1. PushOp(source[m], m).kind = "push" /\ PushOp(source[m], m).h = source[m]
      BY DEF PushOp
    <3> HIDE DEF m
    <3>2. op \in [Thread -> Op]
      BY DEF IInv, TypeOK
    <3>3. \/ /\ op' = [op EXCEPT ![t] = PushOp(source[m], m)] /\ source[m] \in slot
             /\ ref' = [ref EXCEPT ![source[m]] = ref[source[m]] + 1]
          \/ UNCHANGED <<op, ref>>
      BY <1>22 DEF DropMessage, Report, Grab, m
    <3> QED BY <3>1, <3>2, <3>3
  <2>4. UNCHANGED <<pc, q, slot>>
    BY <1>22 DEF DropMessage
  <2> HIDE DEF m
  <2>5. ASSUME NEW g \in Handle
        PROVE  ref'[g] = ref[g] - One(HoldsOp(t, g)) + One(HoldsOp(t, g)')
                                - One(HoldsCtx(t, g)) + One(HoldsCtx(t, g)')
                                - One(g \in slot) + One(g \in slot')
    <3>1. /\ ~HoldsOp(t, g)
          /\ HoldsOp(t, g)' <=> g = op'[t].h /\ op'[t].kind = "push"
          /\ HoldsCtx(t, g)' <=> HoldsCtx(t, g)
      BY <2>2, <2>3, <2>4 DEF HoldsOp, HoldsCtx, Dispatching
    <3>2. ref[g] \in Nat
      BY DEF IInv, TypeOK
    <3>3. CASE UNCHANGED <<op, ref>>
      BY <2>2, <2>4, <3>1, <3>2, <3>3 DEF One
    <3>4. CASE /\ op'[t].kind = "push" /\ op'[t].h = source[m] /\ source[m] \in slot
               /\ ref' = [ref EXCEPT ![source[m]] = ref[source[m]] + 1]
      <4>1. ref'[g] = ref[g] + One(g = source[m])
        BY <3>4 DEF One, IInv, TypeOK
      <4> QED BY <2>4, <3>1, <3>2, <3>4, <4>1 DEF One
    <3> QED BY <2>3, <3>3, <3>4
  <2> QED BY <2>1, <2>5, Balance DEF IInv
<1>23. ASSUME NEW t \in Thread, FreeQueue(t)
      PROVE  RefExact'
  <2>1. \A u \in Thread \ {t} : op'[u] = op[u] /\ pc'[u] = pc[u] /\ q'[u] = q[u]
    BY <1>23 DEF FreeQueue, Unflagged, Goto, At, IInv, TypeOK
  <2>2. pc[t] = "drop"
    BY <1>23
       DEF FreeQueue, Unflagged, Goto, At, NoOp, IInv, TypeOK
  <2>3. pc'[t] = "top" /\ UNCHANGED <<op, slot>>
    BY <1>23, <2>2, OpMade
       DEF FreeQueue, Unflagged, Goto, At, IInv, TypeOK
  <2>4. \A g \in Handle : ref'[g] = ref[g]
    BY <1>23, <2>2
       DEF FreeQueue, Unflagged, Goto, At, IInv, TypeOK
  <2>5. ASSUME NEW g \in Handle
        PROVE  ref'[g] = ref[g] - One(HoldsOp(t, g)) + One(HoldsOp(t, g)')
                                - One(HoldsCtx(t, g)) + One(HoldsCtx(t, g)')
                                - One(g \in slot) + One(g \in slot')
    BY <2>2, <2>3, <2>4, OpMade DEF One, HoldsOp, HoldsCtx, Dispatching, IInv, TypeOK
  <2> QED BY <2>1, <2>5, Balance DEF IInv
<1>24. ASSUME UNCHANGED vars PROVE RefExact'
  BY <1>24
     DEF vars, svars, tvars, IInv, RefExact, OpHolders, CtxHolders
<1> QED
  BY <1>1, <1>2, <1>3, <1>4, <1>5, <1>6, <1>7, <1>8, <1>9, <1>10, <1>11,
     <1>12, <1>13, <1>14, <1>15, <1>16, <1>17, <1>18, <1>19, <1>20, <1>21,
     <1>22, <1>23, <1>24 DEF Next, Step

-----------------------------------------------------------------------------
(***************************************************************************)
(* Every message in flight is in one place.                                *)
(***************************************************************************)

\* The steps that neither move a message nor start or end a send.
LEMMA OnePlaceQuiet ==
  ASSUME OnePlace, UNCHANGED <<mq, msg, source>>,
         \A t \in Thread : op[t].kind = "push" \/ op'[t].kind = "push" => op'[t] = op[t]
  PROVE  OnePlace'
<1>1. \A t \in Thread : /\ Handling(t)' = Handling(t)
                        /\ Sending(t)' = Sending(t)
                        /\ Carried(t)' = Carried(t)
  BY DEF Handling, Sending, Carried
<1> QED BY <1>1 DEF OnePlace

\* What each thread carries after a step of t that changes what t carries.
LEMMA CarriedChange ==
  ASSUME NEW t \in Thread, \A u \in Thread \ {t} : msg'[u] = msg[u] /\ op'[u] = op[u]
  PROVE  \A u \in Thread \ {t} : /\ Handling(u)' = Handling(u)
                                 /\ Sending(u)' = Sending(u)
                                 /\ Carried(u)' = Carried(u)
BY DEF Handling, Sending, Carried

\* Send puts an unused message, which is nowhere, into a send.
LEMMA OnePlaceSend ==
  ASSUME IInv, OnePlace, NEW t \in Thread, NEW h \in Handle, NEW m \in Msg, Send(t, h, m)
  PROVE  OnePlace'
<1>1. /\ op[t].kind = "none"
      /\ op'[t].kind = "push" /\ op'[t].m = m
      /\ \A u \in Thread \ {t} : msg'[u] = msg[u] /\ op'[u] = op[u]
      /\ UNCHANGED <<mq, msg>>
  BY OpMade DEF Send, At, IInv, TypeOK
<1>2. source[m] = Unused /\ source' = [source EXCEPT ![m] = From(t)] /\ From(t) # Unused
  BY ValuesAssumption DEF Send, From, At, IInv, TypeOK, LocalsOK, Owning, Dispatching, Thread
<1>3. /\ \A g \in Handle : m \notin Range(mq[g])
      /\ \A u \in Thread : m \notin Carried(u)
  BY <1>2 DEF OnePlace
<1>4. /\ Sending(t) = {} /\ Sending(t)' = {m}
      /\ Handling(t)' = Handling(t)
      /\ Carried(t)' = Carried(t) \cup {m}
  BY <1>1 DEF Handling, Sending, Carried
<1>5. /\ m \notin Handling(t)
      /\ Handling(t)' \cap Sending(t)' = {}
  BY <1>3, <1>4 DEF Carried
<1>6. \A u \in Thread \ {t} : /\ Handling(u)' = Handling(u)
                              /\ Sending(u)' = Sending(u)
                              /\ Carried(u)' = Carried(u)
  BY <1>1, CarriedChange
<1>7. \A n \in Msg : source'[n] # Unused <=> n = m \/ source[n] # Unused
  BY <1>2 DEF IInv, TypeOK
<1> QED BY <1>1, <1>3, <1>4, <1>5, <1>6, <1>7 DEF OnePlace

\* Push moves the message of a send to the end of a queue.
LEMMA OnePlacePush ==
  ASSUME IInv, OnePlace, NEW t \in Thread, Push(t)
  PROVE  OnePlace'
<1> DEFINE h == op[t].h  m == op[t].m
<1>1. /\ h \in Handle /\ m \in Msg
      /\ op[t].kind = "push"
      /\ op'[t].kind = "release"
      /\ \A u \in Thread \ {t} : msg'[u] = msg[u] /\ op'[u] = op[u]
      /\ UNCHANGED <<msg, source>>
      /\ mq' = [mq EXCEPT ![h] = Append(mq[h], m)]
  BY OpMade, OpFacts DEF Push, IInv, TypeOK
<1>2. /\ Sending(t) = {m} /\ Sending(t)' = {}
      /\ Handling(t)' = Handling(t)
      /\ Carried(t) = Handling(t) \cup {m} /\ Carried(t)' = Handling(t)
  BY <1>1 DEF Handling, Sending, Carried
<1> HIDE DEF h, m
<1>3. /\ \A g \in Handle : m \notin Range(mq[g])
      /\ m \notin Handling(t)
      /\ \A u \in Thread \ {t} : m \notin Carried(u)
  BY <1>1, <1>2 DEF OnePlace
<1>4. /\ mq[h] \in Seq(Msg) /\ IsInjective(mq[h])
      /\ Range(mq'[h]) = Range(mq[h]) \cup {m}
      /\ IsInjective(mq'[h])
      /\ \A g \in Handle \ {h} : mq'[g] = mq[g]
  <2>1. mq[h] \in Seq(Msg) /\ IsInjective(mq[h]) /\ mq'[h] = Append(mq[h], m)
    BY <1>1 DEF IInv, TypeOK, OnePlace
  <2> QED BY <1>1, <1>3, <2>1, AppendFacts DEF IInv, TypeOK
<1>5. \A u \in Thread \ {t} : /\ Handling(u)' = Handling(u)
                              /\ Sending(u)' = Sending(u)
                              /\ Carried(u)' = Carried(u)
  BY <1>1, CarriedChange
<1>6. \A g \in Handle : /\ IsInjective(mq'[g])
                        /\ Range(mq'[g]) = Range(mq[g]) \cup IF g = h THEN {m} ELSE {}
  BY <1>4 DEF OnePlace
<1>7. \A u \in Thread : Carried(u) = Carried(u)' \cup IF u = t THEN {m} ELSE {}
  BY <1>2, <1>5
<1>8. \A g, k \in Handle : g # k => Range(mq'[g]) \cap Range(mq'[k]) = {}
  BY <1>3, <1>6 DEF OnePlace
<1>9. ASSUME NEW u \in Thread
      PROVE  /\ Handling(u)' \cap Sending(u)' = {}
             /\ \A g \in Handle : Carried(u)' \cap Range(mq'[g]) = {}
             /\ \A v \in Thread : v # u => Carried(v)' \cap Carried(u)' = {}
  BY <1>2, <1>3, <1>5, <1>6, <1>7 DEF OnePlace
<1>10. ASSUME NEW n \in Msg
       PROVE  source'[n] # Unused <=> \/ \E g \in Handle : n \in Range(mq'[g])
                                     \/ \E u \in Thread : n \in Carried(u)'
  BY <1>1, <1>6, <1>7 DEF OnePlace
<1> QED BY <1>6, <1>8, <1>9, <1>10 DEF OnePlace

\* PopMessage moves the first message of a queue to a callback.
LEMMA OnePlacePop ==
  ASSUME IInv, OnePlace, NEW t \in Thread, PopMessage(t)
  PROVE  OnePlace'
<1> DEFINE h == q[t]  m == Head(mq[h])
<1>1. /\ h \in Handle
      /\ msg[t] = None /\ op[t].kind = "none"
  BY OpMade DEF PopMessage, At, IInv, TypeOK, LocalsOK, Owning, Dispatching
<1>2. /\ mq[h] \in Seq(Msg) /\ mq[h] # <<>> /\ IsInjective(mq[h])
      /\ mq' = [mq EXCEPT ![h] = Tail(mq[h])]
      /\ msg' = [msg EXCEPT ![t] = m]
      /\ UNCHANGED <<op, source>>
  BY <1>1 DEF PopMessage, IInv, TypeOK, OnePlace
<1>3. /\ m \in Msg /\ m # None /\ m \in Range(mq[h])
      /\ Range(mq[h]) = Range(Tail(mq[h])) \cup {m}
      /\ IsInjective(Tail(mq[h])) /\ m \notin Range(Tail(mq[h]))
  BY <1>2, TailFacts, ValuesAssumption
<1>4. /\ mq'[h] = Tail(mq[h])
      /\ \A g \in Handle \ {h} : mq'[g] = mq[g]
      /\ msg'[t] = m
      /\ \A u \in Thread \ {t} : msg'[u] = msg[u] /\ op'[u] = op[u]
  BY <1>1, <1>2 DEF IInv, TypeOK
<1> HIDE DEF h, m
<1>5. /\ Handling(t) = {} /\ Sending(t) = {} /\ Carried(t) = {}
      /\ Handling(t)' = {m} /\ Sending(t)' = {} /\ Carried(t)' = {m}
  BY <1>1, <1>2, <1>3, <1>4 DEF Handling, Sending, Carried
<1>6. \A u \in Thread \ {t} : /\ Handling(u)' = Handling(u)
                              /\ Sending(u)' = Sending(u)
                              /\ Carried(u)' = Carried(u)
  BY <1>4, CarriedChange
<1>7. \A g \in Handle : /\ IsInjective(mq'[g]) /\ m \notin Range(mq'[g])
                        /\ Range(mq[g]) = Range(mq'[g]) \cup IF g = h THEN {m} ELSE {}
  BY <1>1, <1>3, <1>4 DEF OnePlace
<1>8. \A u \in Thread : /\ Carried(u)' = Carried(u) \cup IF u = t THEN {m} ELSE {}
                        /\ m \notin Carried(u)
  BY <1>1, <1>3, <1>5, <1>6 DEF OnePlace
<1>9. \A g, k \in Handle : g # k => Range(mq'[g]) \cap Range(mq'[k]) = {}
  BY <1>7 DEF OnePlace
<1>10. ASSUME NEW u \in Thread
       PROVE  /\ Handling(u)' \cap Sending(u)' = {}
              /\ \A g \in Handle : Carried(u)' \cap Range(mq'[g]) = {}
              /\ \A v \in Thread : v # u => Carried(v)' \cap Carried(u)' = {}
  BY <1>5, <1>6, <1>7, <1>8 DEF OnePlace
<1>11. ASSUME NEW n \in Msg
       PROVE  source'[n] # Unused <=> \/ \E g \in Handle : n \in Range(mq'[g])
                                     \/ \E u \in Thread : n \in Carried(u)'
  <2>1. /\ (\E g \in Handle : n \in Range(mq[g]))
             <=> n = m \/ \E g \in Handle : n \in Range(mq'[g])
        /\ (\E u \in Thread : n \in Carried(u)')
             <=> n = m \/ \E u \in Thread : n \in Carried(u)
    BY <1>1, <1>7, <1>8
  <2>2. source'[n] = source[n]
    BY <1>2
  <2> QED BY <2>1, <2>2 DEF OnePlace
<1> QED BY <1>7, <1>9, <1>10, <1>11 DEF OnePlace

\* Return frees a message that only the callback had.
LEMMA OnePlaceReturn ==
  ASSUME IInv, OnePlace, NEW t \in Thread, Return(t)
  PROVE  OnePlace'
<1> DEFINE m == msg[t]
<1>1. /\ m \in Msg /\ m # None /\ op[t].kind = "none"
      /\ source' = [source EXCEPT ![m] = Unused]
      /\ msg'[t] = None
      /\ \A u \in Thread \ {t} : msg'[u] = msg[u] /\ op'[u] = op[u]
      /\ UNCHANGED <<op, mq>>
  BY OpMade DEF Return, At, IInv, TypeOK, LocalsOK
<1>2. /\ Handling(t) = {m} /\ Sending(t) = {} /\ Carried(t) = {m}
      /\ Handling(t)' = {} /\ Sending(t)' = {} /\ Carried(t)' = {}
  BY <1>1 DEF Handling, Sending, Carried
<1> HIDE DEF m
<1>3. \A u \in Thread \ {t} : /\ Handling(u)' = Handling(u)
                              /\ Sending(u)' = Sending(u)
                              /\ Carried(u)' = Carried(u)
  BY <1>1, CarriedChange
<1>4. \A n \in Msg : source'[n] # Unused <=> n # m /\ source[n] # Unused
  BY <1>1 DEF IInv, TypeOK
<1> QED BY <1>1, <1>2, <1>3, <1>4 DEF OnePlace

\* A turn of _drop_queue takes a message out and frees it, or sends it back.
LEMMA OnePlaceDrop ==
  ASSUME IInv, OnePlace, NEW t \in Thread, DropMessage(t)
  PROVE  OnePlace'
<1> DEFINE h == q[t]  m == Head(mq[h])
<1>1. /\ h \in Handle /\ h # Unused
      /\ msg[t] = None /\ op[t].kind = "none"
  <2>1. pc[t] = "drop" /\ op[t] = NoOp
    BY DEF DropMessage, At
  <2>2. h \in Handle /\ msg[t] = None
    BY ZenonT(60), <2>1 DEF IInv, TypeOK, LocalsOK, Owning, ReleasePC
  <2> QED BY <2>1, <2>2, OpMade, ValuesAssumption
<1>2. /\ mq[h] \in Seq(Msg) /\ mq[h] # <<>> /\ IsInjective(mq[h])
      /\ mq' = [mq EXCEPT ![h] = Tail(mq[h])]
      /\ UNCHANGED msg
  BY <1>1 DEF DropMessage, IInv, TypeOK, OnePlace
<1>3. /\ m \in Msg /\ m \in Range(mq[h])
      /\ Range(mq[h]) = Range(Tail(mq[h])) \cup {m}
      /\ IsInjective(Tail(mq[h])) /\ m \notin Range(Tail(mq[h]))
  BY <1>2, TailFacts
<1>4. /\ mq'[h] = Tail(mq[h])
      /\ \A g \in Handle \ {h} : mq'[g] = mq[g]
  BY <1>1, <1>2 DEF IInv, TypeOK
<1>5. \/ /\ source' = [source EXCEPT ![m] = h]
         /\ op' = [op EXCEPT ![t] = PushOp(source[m], m)]
         /\ source[m] \in Handle
      \/ source' = [source EXCEPT ![m] = Unused] /\ UNCHANGED op
  BY DEF DropMessage, Report, Grab, IInv, TypeOK
<1> HIDE DEF h, m
<1>6. /\ \A u \in Thread : m \notin Carried(u)
      /\ \A g \in Handle \ {h} : m \notin Range(mq[g])
      /\ Handling(t) = {} /\ Sending(t) = {} /\ Carried(t) = {}
      /\ Handling(t)' = {}
  BY <1>1, <1>2, <1>3 DEF OnePlace, Handling, Sending, Carried
<1>7. \A u \in Thread \ {t} : msg'[u] = msg[u] /\ op'[u] = op[u]
  BY <1>2, <1>5 DEF IInv, TypeOK
<1>8. \A u \in Thread \ {t} : /\ Handling(u)' = Handling(u)
                              /\ Sending(u)' = Sending(u)
                              /\ Carried(u)' = Carried(u)
  BY <1>7, CarriedChange
<1>9. CASE /\ source' = [source EXCEPT ![m] = h]
           /\ op' = [op EXCEPT ![t] = PushOp(source[m], m)]
           /\ source[m] \in Handle
  <2>1. op'[t].kind = "push" /\ op'[t].m = m
    BY <1>3, <1>9, OpMade DEF IInv, TypeOK
  <2>2. Sending(t)' = {m} /\ Carried(t)' = {m}
    BY <1>6, <2>1 DEF Sending, Carried
  <2>3. \A n \in Msg : source'[n] # Unused <=> n = m \/ source[n] # Unused
    BY <1>1, <1>9 DEF IInv, TypeOK
  <2> QED BY <1>1, <1>3, <1>4, <1>6, <1>8, <2>2, <2>3 DEF OnePlace
<1>10. CASE source' = [source EXCEPT ![m] = Unused] /\ UNCHANGED op
  <2>1. Sending(t)' = {} /\ Carried(t)' = {}
    BY <1>1, <1>6, <1>10 DEF Sending, Carried
  <2>2. \A n \in Msg : source'[n] # Unused <=> n # m /\ source[n] # Unused
    BY <1>10 DEF IInv, TypeOK
  <2> QED BY <1>1, <1>3, <1>4, <1>6, <1>8, <2>1, <2>2 DEF OnePlace
<1> QED BY <1>5, <1>9, <1>10

\* Every step keeps every message in flight in one place.
LEMMA OnePlaceStep == IInv /\ OnePlace /\ [Next]_vars => OnePlace'
<1> SUFFICES ASSUME IInv, OnePlace, [Next]_vars PROVE OnePlace'
  OBVIOUS
<1>1. ASSUME NEW t \in Thread, Release(t) \/ Delete(t) \/ InitOk(t) \/ InitFail(t)
      PROVE  OnePlace'
  BY <1>1, OpFacts, OpMade, OnePlaceQuiet
     DEF Release, Delete, InitOk, InitFail, At, svars, IInv, TypeOK, LocalsOK, Owning
<1>2. ASSUME NEW t \in Thread, NEW h \in Handle, Kill(t, h) \/ Launch(t, h)
      PROVE  OnePlace'
  BY <1>2, OpMade, OnePlaceQuiet DEF Kill, Retire, Launch, At, IInv, TypeOK
<1>3. ASSUME NEW t \in Thread, FailRetire(t)
      PROVE  OnePlace'
  <2>1. q[t] \in Handle /\ op[t].kind = "none" /\ UNCHANGED <<mq, msg, source>>
    BY <1>3, OpMade
       DEF FailRetire, Retire, At, svars, IInv, TypeOK, LocalsOK, Owning
  <2>2. UNCHANGED op \/ op' = [op EXCEPT ![t] = ReleaseOp(q[t])]
    BY <1>3 DEF FailRetire, Retire
  <2> QED BY <2>1, <2>2, OpMade, OnePlaceQuiet DEF IInv, TypeOK
<1>4. ASSUME NEW t \in Thread,
             \/ Launched(t) \/ Take(t) \/ GrabContext(t) \/ Length(t) \/ Swap(t)
             \/ Requeue(t) \/ StartDrop(t) \/ FreeQueue(t)
      PROVE  OnePlace'
  <2>1. UNCHANGED <<mq, msg, source, op>>
    BY <1>4
       DEF Launched, Take, GrabContext, Length, Swap, Requeue, StartDrop, FreeQueue, svars
  <2> QED BY <2>1, OnePlaceQuiet
<1>5. ASSUME NEW t \in Thread, PopEmpty(t) \/ Keep(t) \/ PushBack(t)
      PROVE  OnePlace'
  <2>1. /\ q[t] \in Handle /\ op[t].kind = "none" /\ UNCHANGED <<mq, msg, source>>
        /\ op' = [op EXCEPT ![t] = ReleaseOp(q[t])]
    BY <1>5, OpMade
       DEF PopEmpty, Keep, PushBack, At, svars, IInv, TypeOK, LocalsOK, Owning, Dispatching
  <2> QED BY <2>1, OpMade, OnePlaceQuiet DEF IInv, TypeOK
<1>6. ASSUME UNCHANGED vars PROVE OnePlace'
  BY <1>6, OnePlaceQuiet DEF vars, svars, tvars
<1> QED
  BY <1>1, <1>2, <1>3, <1>4, <1>5, <1>6, OnePlaceSend, OnePlacePush, OnePlacePop,
     OnePlaceReturn, OnePlaceDrop DEF Next, Step

-----------------------------------------------------------------------------
(***************************************************************************)
(* The theorems.                                                           *)
(***************************************************************************)

\* Before the first launch no queue, reference or call exists.
LEMMA InitIInv == Init => IInv
<1> SUFFICES ASSUME Init PROVE IInv
  OBVIOUS
<1>1. TypeOK
  BY OpMade DEF Init, TypeOK, Thread, WorkerPC, AgentPC, ReleasePC
<1>2. LocalsOK /\ InitGuard
  BY ValuesAssumption
     DEF Init, LocalsOK, InitGuard, Owning, Dispatching, ReleasePC, Thread
<1>3. Range(global) = {} /\ IsInjective(global)
  BY DEF Init, Range, IsInjective
<1>4. TokenUnique /\ TokenExact /\ QueueFlagged
  BY <1>3, ValuesAssumption
     DEF Init, TokenUnique, TokenExact, QueueFlagged, Flagged, InList, Owned
<1>5. RefLive
  BY OpMade DEF Init, RefLive, Dispatching
<1>6. RefExact
  <2> SUFFICES ASSUME NEW h \in Handle
               PROVE  0 = Cardinality(OpHolders(h)) + Cardinality(CtxHolders(h))
    BY DEF Init, RefExact
  <2>1. OpHolders(h) = {} /\ CtxHolders(h) = {}
    BY OpMade DEF Init, OpHolders, CtxHolders, Dispatching
  <2>2. Cardinality(OpHolders(h)) = 0 /\ Cardinality(CtxHolders(h)) = 0
    BY <2>1, FS_EmptySet
  <2> QED BY <2>2
<1> QED BY <1>1, <1>2, <1>4, <1>5, <1>6 DEF IInv

\* Every part of the inductive invariant is kept.
LEMMA IInvStep == IInv /\ [Next]_vars => IInv'
BY TypeStep, LocalsStep, TokenUniqueStep, TokenExactStep, QueueFlaggedStep,
   RefExactStep, RefLiveStep, InitGuardStep DEF IInv

\* The inductive invariant holds in every reachable state of the dispatcher.
THEOREM Invariance == Spec => []IInv
BY InitIInv, IInvStep, PTL DEF Spec

\* Type correctness; with it, ctx->ref (ATOM_DEC in skynet_context_release)
\* never goes below 0.
THEOREM TypeCorrect == Spec => []TypeOK
<1>1. IInv => TypeOK
  BY DEF IInv
<1> QED BY <1>1, Invariance, PTL

\* No two workers run the same service's callback: CHECKCALLING_BEGIN's
\* spin_trylock in dispatch_message always succeeds.
THEOREM Exclusion == Spec => []OneDispatcher
<1>1. IInv => OneDispatcher
  BY DEF IInv, OneDispatcher, LocalsOK, TokenUnique, Owning, Thread
<1> QED BY <1>1, Invariance, PTL

\* skynet_mq_push, skynet_mq_pop and skynet_mq_release never leave a queue
\* with messages in it where no worker will look.
THEOREM NothingStranded == Spec => []NoStrandedQueue
<1>1. IInv => NoStrandedQueue
  BY DEF IInv, NoStrandedQueue, QueueFlagged, TokenExact
<1> QED BY <1>1, Invariance, PTL

\* No thread uses a context after delete_context freed it, nor a queue after
\* _release freed it.
THEOREM NothingDangling == Spec => []NoDangling
<1>1. ASSUME IInv PROVE NoDangling
  <2>1. ASSUME NEW h \in Handle, InList(h) \/ Owned(h)
        PROVE  qstate[h] \in {"live", "released"}
    BY <1>1, <2>1 DEF IInv, TokenExact, Flagged
  <2>2. ASSUME NEW t \in Thread
        PROVE  /\ q[t] # None => qstate[q[t]] \in {"live", "released"}
               /\ nq[t] # None => qstate[nq[t]] \in {"live", "released"}
    BY <1>1, <2>1 DEF IInv, TypeOK, Owned
  <2>3. Range(global) \subseteq Handle
    BY <1>1 DEF IInv, TypeOK, Range
  <2>4. \A h \in Range(global) : qstate[h] \in {"live", "released"}
    BY <2>1, <2>3 DEF InList
  <2> QED BY <1>1, <2>2, <2>4 DEF IInv, RefLive, NoDangling
<1> QED BY <1>1, Invariance, PTL

\* assert(ctx->init) in dispatch_message never fails.
THEOREM InitBeforeDispatch == Spec => []DispatchInitialised
<1>1. IInv => DispatchInitialised
  BY DEF IInv, InitGuard, DispatchInitialised, Dispatching
<1> QED BY <1>1, Invariance, PTL

\* A message in flight is in one queue, one callback or one send, once: none is
\* lost, doubled or freed while another has it.
THEOREM EachInOnePlace == Spec => []OnePlace
<1>1. Init => OnePlace
  <2> SUFFICES ASSUME Init PROVE OnePlace
    OBVIOUS
  <2>1. \A h \in Handle : IsInjective(mq[h]) /\ Range(mq[h]) = {}
    BY DEF Init, IsInjective, Range
  <2>2. \A t \in Thread : Handling(t) = {} /\ Sending(t) = {} /\ Carried(t) = {}
    BY OpMade DEF Init, Handling, Sending, Carried
  <2>3. \A m \in Msg : source[m] = Unused
    BY DEF Init
  <2> QED BY <2>1, <2>2, <2>3 DEF OnePlace
<1> QED BY <1>1, OnePlaceStep, Invariance, PTL DEF Spec

-----------------------------------------------------------------------------
(***************************************************************************)
(* The refinement of Mailbox.                                              *)
(***************************************************************************)

\* What a service works on and where a message is going, read off any thread
\* that says so.
CurrentExact ==
  \A h \in Handle :
    /\ \A t \in Thread : q[t] = h /\ msg[t] # None => CurrentOf(h) = msg[t]
    /\ (\A t \in Thread : q[t] = h => msg[t] = None) => CurrentOf(h) = None

TransitExact ==
  \A m \in Msg :
    /\ \A t \in Thread : op[t].kind = "push" /\ op[t].m = m => TransitOf(m) = op[t].h
    /\ (\A t \in Thread : op[t].kind = "push" => op[t].m # m) => TransitOf(m) = None

\* One thread at most works on a queue ...
LEMMA CurrentRead == IInv => CurrentExact
<1> SUFFICES ASSUME IInv, NEW h \in Handle
             PROVE  /\ \A t \in Thread : q[t] = h /\ msg[t] # None => CurrentOf(h) = msg[t]
                    /\ (\A t \in Thread : q[t] = h => msg[t] = None) => CurrentOf(h) = None
  BY DEF CurrentExact
<1> DEFINE handling == {t \in Thread : q[t] = h /\ msg[t] # None}
<1>1. CurrentOf(h) = IF handling = {} THEN None ELSE msg[CHOOSE t \in handling : TRUE]
  BY DEF CurrentOf
<1>2. ASSUME NEW t \in handling PROVE handling = {t}
  BY <1>2, ValuesAssumption DEF IInv, TokenUnique
<1>3. ASSUME NEW t \in handling PROVE (CHOOSE u \in handling : TRUE) = t
  BY <1>2, <1>3
<1> QED BY <1>1, <1>3

\* ... and one at most sends a message.
LEMMA TransitRead == OnePlace => TransitExact
<1> SUFFICES ASSUME OnePlace, NEW m \in Msg
             PROVE  /\ \A t \in Thread :
                         op[t].kind = "push" /\ op[t].m = m => TransitOf(m) = op[t].h
                    /\ (\A t \in Thread : op[t].kind = "push" => op[t].m # m)
                         => TransitOf(m) = None
  BY DEF TransitExact
<1> DEFINE sending == {t \in Thread : op[t].kind = "push" /\ op[t].m = m}
<1>1. TransitOf(m) = IF sending = {} THEN None ELSE op[CHOOSE t \in sending : TRUE].h
  BY DEF TransitOf
<1>2. \A t \in sending : m \in Carried(t)
  BY DEF Carried, Sending
<1>3. ASSUME NEW t \in sending PROVE sending = {t}
  BY <1>2, <1>3 DEF OnePlace
<1>4. ASSUME NEW t \in sending PROVE (CHOOSE u \in sending : TRUE) = t
  BY <1>3, <1>4
<1> QED BY <1>1, <1>4

\* All that the proofs of the steps know of the states before and after.
Known == IInv /\ OnePlace /\ CurrentExact /\ TransitExact

LEMMA KnownStep == Known /\ [Next]_vars => Known'
BY IInvStep, OnePlaceStep, CurrentRead, TransitRead, PTL DEF Known

\* What a step leaves alone.
LEMMA SameStatus ==
  ASSUME UNCHANGED <<qstate, slot>>
  PROVE  \A h \in Handle : StatusOf(h)' = StatusOf(h)
BY DEF StatusOf

LEMMA SameCurrent ==
  ASSUME Known, Known',
         \A t \in Thread : msg[t] # None \/ msg'[t] # None => msg'[t] = msg[t] /\ q'[t] = q[t]
  PROVE  \A h \in Handle : CurrentOf(h)' = CurrentOf(h)
<1> SUFFICES ASSUME NEW h \in Handle PROVE CurrentOf(h)' = CurrentOf(h)
  OBVIOUS
<1>1. CASE \A t \in Thread : q[t] = h => msg[t] = None
  BY <1>1 DEF Known, CurrentExact
<1>2. ASSUME NEW t \in Thread, q[t] = h, msg[t] # None PROVE CurrentOf(h)' = CurrentOf(h)
  BY <1>2 DEF Known, CurrentExact
<1> QED BY <1>1, <1>2

LEMMA SameTransit ==
  ASSUME Known, Known',
         \A t \in Thread : op[t].kind = "push" \/ op'[t].kind = "push" => op'[t] = op[t]
  PROVE  \A m \in Msg : TransitOf(m)' = TransitOf(m)
<1> SUFFICES ASSUME NEW m \in Msg PROVE TransitOf(m)' = TransitOf(m)
  OBVIOUS
<1>1. CASE \A t \in Thread : op[t].kind = "push" => op[t].m # m
  BY <1>1 DEF Known, TransitExact
<1>2. ASSUME NEW t \in Thread, op[t].kind = "push", op[t].m = m
      PROVE  TransitOf(m)' = TransitOf(m)
  BY <1>2 DEF Known, TransitExact
<1> QED BY <1>1, <1>2

\* A thread's send is the send of a message by a service, or by the system.
LEMMA SendMaps ==
  ASSUME Known, Known', NEW t \in Thread, NEW h \in Handle, NEW m \in Msg, Send(t, h, m)
  PROVE  Mailboxes!Next
<1>1. /\ From(t) \in Handle \cup {System}
      /\ source[m] = Unused /\ source' = [source EXCEPT ![m] = From(t)]
      /\ h \in slot /\ UNCHANGED <<slot, qstate, mq, msg, q>>
      /\ op[t].kind = "none" /\ op' = [op EXCEPT ![t] = PushOp(h, m)]
  BY OpMade DEF Send, Grab, From, At, Known, IInv, TypeOK, LocalsOK, Owning, Dispatching, Thread
<1>2. StatusOf(h) = "open"
  BY <1>1 DEF StatusOf, Known, IInv, RefLive
<1>3. /\ op'[t].kind = "push" /\ op'[t].m = m /\ op'[t].h = h
      /\ \A u \in Thread \ {t} : op'[u] = op[u]
  BY <1>1, OpMade DEF Known, IInv, TypeOK
<1>4. /\ \A g \in Handle : StatusOf(g)' = StatusOf(g)
      /\ \A g \in Handle : CurrentOf(g)' = CurrentOf(g)
  BY <1>1, SameStatus, SameCurrent
<1>5. TransitOf(m)' = h
  BY <1>3 DEF Known, TransitExact
<1>6. ASSUME NEW n \in Msg \ {m} PROVE TransitOf(n)' = TransitOf(n)
  <2>1. CASE \A u \in Thread : op[u].kind = "push" => op[u].m # n
    BY <1>3, <2>1 DEF Known, TransitExact
  <2>2. ASSUME NEW u \in Thread, op[u].kind = "push", op[u].m = n
        PROVE  TransitOf(n)' = TransitOf(n)
    BY <1>1, <1>3, <2>2 DEF Known, TransitExact
  <2> QED BY <2>1, <2>2
<1>7. Mailboxes!Send(m, From(t), h)
  BY <1>1, <1>2, <1>4, <1>5, <1>6 DEF Mailboxes!Send
<1> QED BY <1>1, <1>7 DEF Mailboxes!Next

\* skynet_mq_push is the arrival of the message.
LEMMA PushMaps ==
  ASSUME Known, Known', NEW t \in Thread, Push(t)
  PROVE  Mailboxes!Next
<1>0. PICK h \in Handle, m \in Msg : h = op[t].h /\ m = op[t].m
  BY OpFacts DEF Push, Known, IInv, TypeOK
<1>1. /\ h \in Handle /\ m \in Msg /\ op[t].kind = "push"
      /\ UNCHANGED <<slot, qstate, source, msg, q>>
      /\ mq' = [mq EXCEPT ![h] = Append(mq[h], m)]
      /\ op'[t].kind = "release"
      /\ \A u \in Thread \ {t} : op'[u] = op[u]
  BY <1>0, OpMade, OpFacts DEF Push, Known, IInv, TypeOK
<1>2. TransitOf(m) = h
  BY <1>0, <1>1 DEF Known, TransitExact
<1>3. qstate[h] = "live"
  BY <1>0, <1>1, OpMade DEF Known, IInv, RefLive
<1>4. StatusOf(h) \in {"open", "retired"}
  BY <1>3 DEF StatusOf
<1>5. /\ \A g \in Handle : StatusOf(g)' = StatusOf(g)
      /\ \A g \in Handle : CurrentOf(g)' = CurrentOf(g)
  BY <1>1, SameStatus, SameCurrent
<1>6. \A u \in Thread \ {t} : op[u].kind = "push" => op[u].m # m
  BY <1>0, <1>1 DEF Known, OnePlace, Carried, Sending
<1>7. TransitOf(m)' = None
  <2>1. \A u \in Thread : op'[u].kind = "push" => op'[u].m # m
    BY <1>1, <1>6
  <2> QED BY <1>1, <2>1 DEF Known, TransitExact
<1>8. ASSUME NEW n \in Msg \ {m} PROVE TransitOf(n)' = TransitOf(n)
  <2>1. CASE \A u \in Thread : op[u].kind = "push" => op[u].m # n
    BY <1>1, <2>1 DEF Known, TransitExact
  <2>2. ASSUME NEW u \in Thread, op[u].kind = "push", op[u].m = n
        PROVE  TransitOf(n)' = TransitOf(n)
    <3>1. u # t
      BY <1>0, <2>2
    <3> QED BY <1>1, <2>2, <3>1 DEF Known, TransitExact
  <2> QED BY <2>1, <2>2
<1>9. h # None
  BY <1>1, ValuesAssumption
<1>10. Mailboxes!Arrive(m)
  <2>1. [n \in Msg |-> TransitOf(n)]' = [[n \in Msg |-> TransitOf(n)] EXCEPT ![m] = None]
    BY <1>7, <1>8
  <2>2. /\ [n \in Msg |-> TransitOf(n)][m] = h
        /\ [g \in Handle |-> StatusOf(g)][h] \in {"open", "retired"}
    BY <1>1, <1>2, <1>4
  <2> QED BY <1>1, <1>5, <1>9, <2>1, <2>2 DEF Mailboxes!Arrive
<1> QED BY <1>1, <1>10 DEF Mailboxes!Next

\* delete_context closes the mailbox: nobody handles or sends a message of it.
LEMMA DeleteMaps ==
  ASSUME Known, Known', NEW t \in Thread, Delete(t)
  PROVE  Mailboxes!Next
<1>0. PICK h \in Handle : h = op[t].h
  BY OpFacts DEF Delete, Known, IInv, TypeOK
<1>1. /\ h \in Handle /\ op[t].kind = "delete"
      /\ UNCHANGED <<slot, mq, source, msg, q>>
      /\ qstate'[h] = "released"
      /\ \A g \in Handle \ {h} : qstate'[g] = qstate[g]
      /\ op' = [op EXCEPT ![t] = NoOp]
  BY <1>0, OpFacts DEF Delete, Known, IInv, TypeOK
<1>2. qstate[h] = "live" /\ ref[h] = 0
  BY <1>0, <1>1, OpMade DEF Known, IInv, RefLive
<1>3. /\ h \notin slot
      /\ \A u \in Thread : u \notin OpHolders(h) \cup CtxHolders(h)
  BY <1>1, <1>2, RefHeld DEF Known, IInv
<1>4. StatusOf(h) = "retired" /\ StatusOf(h)' = "closed"
  BY <1>1, <1>2, <1>3 DEF StatusOf
<1>5. \A g \in Handle \ {h} : StatusOf(g)' = StatusOf(g)
  BY <1>1 DEF StatusOf
<1>6. \A u \in Thread : q[u] = h => msg[u] = None
  BY <1>3 DEF CtxHolders, Dispatching, Known, IInv, LocalsOK
<1>7. CurrentOf(h) = None
  BY <1>1, <1>6 DEF Known, CurrentExact
<1>8. \A u \in Thread : op[u].kind = "push" => op[u].h # h
  BY <1>3 DEF OpHolders
<1>9. ASSUME NEW n \in Msg PROVE TransitOf(n) # h
  <2>1. CASE \A u \in Thread : op[u].kind = "push" => op[u].m # n
    BY <1>1, <2>1, ValuesAssumption DEF Known, TransitExact
  <2>2. ASSUME NEW u \in Thread, op[u].kind = "push", op[u].m = n
        PROVE  TransitOf(n) # h
    BY <1>8, <2>2 DEF Known, TransitExact
  <2> QED BY <2>1, <2>2
<1>10. \A u \in Thread : op[u].kind = "push" \/ op'[u].kind = "push" => op'[u] = op[u]
  BY <1>1, OpMade DEF Known, IInv, TypeOK
<1>11. /\ \A g \in Handle : CurrentOf(g)' = CurrentOf(g)
       /\ \A n \in Msg : TransitOf(n)' = TransitOf(n)
  BY <1>1, <1>10, SameCurrent, SameTransit
<1>12. Mailboxes!Close(h)
  <2>1. [g \in Handle |-> StatusOf(g)]'
          = [[g \in Handle |-> StatusOf(g)] EXCEPT ![h] = "closed"]
    BY <1>4, <1>5
  <2>2. /\ [g \in Handle |-> StatusOf(g)][h] = "retired"
        /\ [g \in Handle |-> CurrentOf(g)][h] = None
        /\ \A n \in Msg : [k \in Msg |-> TransitOf(k)][n] # h
    BY <1>1, <1>4, <1>7, <1>9
  <2>3. /\ [g \in Handle |-> CurrentOf(g)]' = [g \in Handle |-> CurrentOf(g)]
        /\ [n \in Msg |-> TransitOf(n)]' = [n \in Msg |-> TransitOf(n)]
    BY <1>11
  <2> QED BY <1>1, <2>1, <2>2, <2>3 DEF Mailboxes!Close
<1> QED BY <1>1, <1>12 DEF Mailboxes!Next

\* Taking a handle out of the storage retires the service.
LEMMA RetireMaps ==
  ASSUME Known, Known', NEW t \in Thread, NEW h \in Handle, Retire(t, h), op[t] = NoOp
  PROVE  Mailboxes!Next
<1>1. /\ h \in slot /\ slot' = slot \ {h}
      /\ UNCHANGED <<qstate, mq, source, msg, q>>
      /\ op' = [op EXCEPT ![t] = ReleaseOp(h)]
  BY DEF Retire
<1>2. StatusOf(h) = "open" /\ StatusOf(h)' = "retired"
  BY <1>1 DEF StatusOf, Known, IInv, RefLive
<1>3. \A g \in Handle \ {h} : StatusOf(g)' = StatusOf(g)
  BY <1>1 DEF StatusOf
<1>4. \A u \in Thread : op[u].kind = "push" \/ op'[u].kind = "push" => op'[u] = op[u]
  BY <1>1, OpMade DEF Known, IInv, TypeOK
<1>5. /\ \A g \in Handle : CurrentOf(g)' = CurrentOf(g)
      /\ \A n \in Msg : TransitOf(n)' = TransitOf(n)
  BY <1>1, <1>4, SameCurrent, SameTransit
<1>6. Mailboxes!Retire(h)
  BY <1>1, <1>2, <1>3, <1>5 DEF Mailboxes!Retire
<1> QED BY <1>6 DEF Mailboxes!Next

\* Registration opens the mailbox.
LEMMA LaunchMaps ==
  ASSUME Known, Known', NEW t \in Thread, NEW h \in Handle, Launch(t, h)
  PROVE  Mailboxes!Next
<1>1. /\ qstate[h] = "none" /\ qstate' = [qstate EXCEPT ![h] = "live"]
      /\ slot' = slot \cup {h}
      /\ UNCHANGED <<mq, source, msg, op>>
      /\ msg[t] = None
      /\ \A u \in Thread \ {t} : q'[u] = q[u]
  <2>1. pc[t] = "top" /\ q' = [q EXCEPT ![t] = h]
    BY DEF Launch, At
  <2>2. msg[t] = None
    BY <2>1 DEF Known, IInv, LocalsOK
  <2>3. \A u \in Thread \ {t} : q'[u] = q[u]
    BY <2>1 DEF Known, IInv, TypeOK
  <2> QED BY <2>2, <2>3 DEF Launch
<1>2. StatusOf(h) = "none" /\ StatusOf(h)' = "open"
  BY <1>1 DEF StatusOf, Known, IInv, TypeOK
<1>3. \A g \in Handle \ {h} : StatusOf(g)' = StatusOf(g)
  BY <1>1 DEF StatusOf, Known, IInv, TypeOK
<1>4. /\ \A g \in Handle : CurrentOf(g)' = CurrentOf(g)
      /\ \A n \in Msg : TransitOf(n)' = TransitOf(n)
  BY <1>1, SameCurrent, SameTransit
<1>5. Mailboxes!Open(h)
  BY <1>1, <1>2, <1>3, <1>4 DEF Mailboxes!Open
<1> QED BY <1>5 DEF Mailboxes!Next

\* skynet_mq_pop delivers the oldest message, when none is being handled.
LEMMA PopMaps ==
  ASSUME Known, Known', NEW t \in Thread, PopMessage(t)
  PROVE  Mailboxes!Next
<1>0. PICK h \in Handle : h = q[t]
  BY DEF PopMessage, At, Known, IInv, TypeOK, LocalsOK, Owning, Dispatching
<1>1. /\ h \in Handle /\ pc[t] \in Dispatching
      /\ msg[t] = None
      /\ mq[h] # <<>> /\ mq' = [mq EXCEPT ![h] = Tail(mq[h])]
      /\ msg'[t] = Head(mq[h])
      /\ \A u \in Thread \ {t} : msg'[u] = msg[u]
      /\ UNCHANGED <<slot, qstate, source, op, q>>
  BY <1>0 DEF PopMessage, At, Known, IInv, TypeOK, LocalsOK, Owning, Dispatching
<1>2. qstate[h] = "live"
  BY <1>0, <1>1 DEF Known, IInv, RefLive
<1>3. Head(mq[h]) \in Msg /\ Head(mq[h]) # None
  BY <1>1, TailFacts, ValuesAssumption DEF Known, IInv, TypeOK
<1>4. \A u \in Thread \ {t} : q[u] # h
  BY <1>0, <1>1, ValuesAssumption DEF Known, IInv, TokenUnique
<1>5. CurrentOf(h) = None /\ CurrentOf(h)' = Head(mq[h])
  BY <1>0, <1>1, <1>3, <1>4 DEF Known, CurrentExact
<1>6. ASSUME NEW g \in Handle \ {h} PROVE CurrentOf(g)' = CurrentOf(g)
  <2>1. CASE \A u \in Thread : q[u] = g => msg[u] = None
    BY <1>0, <1>1, <2>1 DEF Known, CurrentExact
  <2>2. ASSUME NEW u \in Thread, q[u] = g, msg[u] # None
        PROVE  CurrentOf(g)' = CurrentOf(g)
    BY <1>0, <1>1, <2>2 DEF Known, CurrentExact
  <2> QED BY <2>1, <2>2
<1>7. StatusOf(h) \in {"open", "retired"}
  BY <1>2 DEF StatusOf
<1>8. /\ \A g \in Handle : StatusOf(g)' = StatusOf(g)
      /\ \A n \in Msg : TransitOf(n)' = TransitOf(n)
  BY <1>1, SameStatus, SameTransit
<1>9. Mailboxes!Deliver(h)
  <2>1. [g \in Handle |-> CurrentOf(g)]'
          = [[g \in Handle |-> CurrentOf(g)] EXCEPT ![h] = Head(mq[h])]
    BY <1>5, <1>6
  <2>2. /\ [g \in Handle |-> StatusOf(g)][h] \in {"open", "retired"}
        /\ [g \in Handle |-> CurrentOf(g)][h] = None
    BY <1>1, <1>5, <1>7
  <2>3. /\ [g \in Handle |-> StatusOf(g)]' = [g \in Handle |-> StatusOf(g)]
        /\ [n \in Msg |-> TransitOf(n)]' = [n \in Msg |-> TransitOf(n)]
    BY <1>8
  <2> QED BY <1>1, <2>1, <2>2, <2>3 DEF Mailboxes!Deliver
<1> QED BY <1>1, <1>9 DEF Mailboxes!Next

\* The callback's return ends the handling.
LEMMA ReturnMaps ==
  ASSUME Known, Known', NEW t \in Thread, Return(t)
  PROVE  Mailboxes!Next
<1>0. PICK h \in Handle : h = q[t]
  BY DEF Return, At, Known, IInv, TypeOK, LocalsOK, Owning, Dispatching
<1>1. /\ h \in Handle
      /\ msg[t] # None /\ msg'[t] = None
      /\ source' = [source EXCEPT ![msg[t]] = Unused]
      /\ \A u \in Thread \ {t} : msg'[u] = msg[u]
      /\ UNCHANGED <<slot, qstate, mq, op, q>>
  BY <1>0 DEF Return, At, Known, IInv, TypeOK, LocalsOK, Owning, Dispatching
<1>2. \A u \in Thread \ {t} : q[u] # h
  BY <1>0, <1>1, ValuesAssumption DEF Known, IInv, TokenUnique
<1>3. CurrentOf(h) = msg[t] /\ CurrentOf(h)' = None
  BY <1>0, <1>1, <1>2 DEF Known, CurrentExact
<1>4. ASSUME NEW g \in Handle \ {h} PROVE CurrentOf(g)' = CurrentOf(g)
  <2>1. CASE \A u \in Thread : q[u] = g => msg[u] = None
    BY <1>0, <1>1, <2>1 DEF Known, CurrentExact
  <2>2. ASSUME NEW u \in Thread, q[u] = g, msg[u] # None
        PROVE  CurrentOf(g)' = CurrentOf(g)
    BY <1>0, <1>1, <2>2 DEF Known, CurrentExact
  <2> QED BY <2>1, <2>2
<1>5. /\ \A g \in Handle : StatusOf(g)' = StatusOf(g)
      /\ \A n \in Msg : TransitOf(n)' = TransitOf(n)
  BY <1>1, SameStatus, SameTransit
<1>6. Mailboxes!Finish(h)
  <2>1. [g \in Handle |-> CurrentOf(g)]'
          = [[g \in Handle |-> CurrentOf(g)] EXCEPT ![h] = None]
    BY <1>3, <1>4
  <2>2. [g \in Handle |-> CurrentOf(g)][h] = msg[t]
    BY <1>1, <1>3
  <2>3. /\ [g \in Handle |-> StatusOf(g)]' = [g \in Handle |-> StatusOf(g)]
        /\ [n \in Msg |-> TransitOf(n)]' = [n \in Msg |-> TransitOf(n)]
    BY <1>5
  <2> QED BY <1>1, <2>1, <2>2, <2>3 DEF Mailboxes!Finish
<1> QED BY <1>1, <1>6 DEF Mailboxes!Next

\* A turn of _drop_queue bounces the oldest message of a closed mailbox.
LEMMA DropMaps ==
  ASSUME Known, Known', NEW t \in Thread, DropMessage(t)
  PROVE  Mailboxes!Next
<1>0. PICK h \in Handle : h = q[t]
  BY DEF DropMessage, At, Known, IInv, TypeOK, LocalsOK, Owning, ReleasePC
<1>1. /\ pc[t] = "drop" /\ op[t] = NoOp
      /\ mq[h] # <<>> /\ mq' = [mq EXCEPT ![h] = Tail(mq[h])]
      /\ UNCHANGED <<slot, qstate, msg, q>>
  BY <1>0 DEF DropMessage, At
<1>2. qstate[h] = "released" /\ op[t].kind = "none"
  BY <1>0, <1>1, OpMade DEF Known, IInv, LocalsOK
<1>3. PICK m \in Msg : m = Head(mq[h])
  BY <1>1, <1>2, TailFacts DEF Known, IInv, TypeOK
<1>4. \/ /\ source[m] \in slot
         /\ source' = [source EXCEPT ![m] = h]
         /\ op' = [op EXCEPT ![t] = PushOp(source[m], m)]
      \/ /\ source[m] \notin slot
         /\ source' = [source EXCEPT ![m] = Unused]
         /\ UNCHANGED op
  BY <1>0, <1>3 DEF DropMessage, Report, Grab
<1>5. StatusOf(h) = "closed"
  BY <1>2 DEF StatusOf
<1>6. /\ \A g \in Handle : StatusOf(g)' = StatusOf(g)
      /\ \A g \in Handle : CurrentOf(g)' = CurrentOf(g)
  BY <1>1, SameStatus, SameCurrent
<1>7. CASE /\ source[m] \in slot
           /\ source' = [source EXCEPT ![m] = h]
           /\ op' = [op EXCEPT ![t] = PushOp(source[m], m)]
  <2>1. source[m] \in Handle /\ StatusOf(source[m]) = "open"
    BY <1>7 DEF StatusOf, Known, IInv, TypeOK, RefLive
  <2>2. /\ op'[t].kind = "push" /\ op'[t].m = m /\ op'[t].h = source[m]
        /\ \A u \in Thread \ {t} : op'[u] = op[u]
    BY SMTT(30), <1>3, <1>7, <2>1, OpMade DEF Known, IInv, TypeOK
  <2>3. TransitOf(m)' = source[m]
    <3>1. TransitExact'
      BY DEF Known
    <3> QED BY <1>3, <2>2, <3>1 DEF TransitExact
  <2>4. ASSUME NEW n \in Msg \ {m} PROVE TransitOf(n)' = TransitOf(n)
    <3>1. CASE \A u \in Thread : op[u].kind = "push" => op[u].m # n
      BY <2>2, <3>1 DEF Known, TransitExact
    <3>2. ASSUME NEW u \in Thread, op[u].kind = "push", op[u].m = n
          PROVE  TransitOf(n)' = TransitOf(n)
      BY <1>2, <2>2, <3>2 DEF Known, TransitExact
    <3> QED BY <3>1, <3>2
  <2>5. Mailboxes!Bounce(h)
    <3>1. [n \in Msg |-> TransitOf(n)]'
            = [[n \in Msg |-> TransitOf(n)] EXCEPT ![m] = source[m]]
      BY <2>3, <2>4
    <3>2. /\ [g \in Handle |-> StatusOf(g)][h] = "closed"
          /\ [g \in Handle |-> StatusOf(g)][source[m]] = "open"
      BY <1>2, <1>5, <2>1
    <3>3. /\ [g \in Handle |-> StatusOf(g)]' = [g \in Handle |-> StatusOf(g)]
          /\ [g \in Handle |-> CurrentOf(g)]' = [g \in Handle |-> CurrentOf(g)]
      BY <1>6
    <3> QED BY <1>1, <1>3, <1>7, <2>1, <3>1, <3>2, <3>3 DEF Mailboxes!Bounce
  <2> QED BY <1>2, <2>5 DEF Mailboxes!Next
<1>8. CASE /\ source[m] \notin slot
           /\ source' = [source EXCEPT ![m] = Unused]
           /\ UNCHANGED op
  <2>1. source[m] \in Handle => StatusOf(source[m]) # "open"
    BY <1>8 DEF StatusOf, Known, IInv, TypeOK
  <2>2. \A n \in Msg : TransitOf(n)' = TransitOf(n)
    BY <1>8, SameTransit
  <2>3. Mailboxes!Bounce(h)
    BY <1>1, <1>2, <1>3, <1>5, <1>6, <1>8, <2>1, <2>2 DEF Mailboxes!Bounce
  <2> QED BY <1>2, <2>3 DEF Mailboxes!Next
<1> QED BY <1>4, <1>7, <1>8

\* Freeing the queue forgets the mailbox.
LEMMA FreeMaps ==
  ASSUME Known, Known', NEW t \in Thread, FreeQueue(t)
  PROVE  Mailboxes!Next
<1>0. PICK h \in Handle : h = q[t]
  <2>1. pc[t] = "drop"
    BY DEF FreeQueue, At
  <2>2. q[t] # None
    BY <2>1 DEF Known, IInv, LocalsOK, Owning, ReleasePC
  <2> QED BY <2>2 DEF Known, IInv, TypeOK
<1>1. /\ pc[t] = "drop" /\ mq[h] = <<>>
      /\ qstate' = [qstate EXCEPT ![h] = "freed"]
      /\ UNCHANGED <<slot, mq, source, msg, op>>
      /\ \A u \in Thread \ {t} : q'[u] = q[u]
  BY <1>0 DEF FreeQueue, At, Known, IInv, TypeOK
<1>2. qstate[h] = "released" /\ msg[t] = None
  BY <1>0, <1>1 DEF Known, IInv, LocalsOK
<1>3. StatusOf(h) = "closed" /\ StatusOf(h)' = "gone"
  <2>1. qstate'[h] = "freed"
    BY <1>1, <1>2 DEF Known, IInv, TypeOK
  <2> QED BY <1>2, <2>1 DEF StatusOf
<1>4. \A g \in Handle \ {h} : StatusOf(g)' = StatusOf(g)
  BY <1>1 DEF StatusOf, Known, IInv, TypeOK
<1>5. /\ \A g \in Handle : CurrentOf(g)' = CurrentOf(g)
      /\ \A n \in Msg : TransitOf(n)' = TransitOf(n)
  BY <1>1, <1>2, SameCurrent, SameTransit
<1>6. Mailboxes!Forget(h)
  <2>1. [g \in Handle |-> StatusOf(g)]'
          = [[g \in Handle |-> StatusOf(g)] EXCEPT ![h] = "gone"]
    BY <1>3, <1>4
  <2>2. [g \in Handle |-> StatusOf(g)][h] = "closed"
    BY <1>2, <1>3
  <2>3. /\ [g \in Handle |-> CurrentOf(g)]' = [g \in Handle |-> CurrentOf(g)]
        /\ [n \in Msg |-> TransitOf(n)]' = [n \in Msg |-> TransitOf(n)]
    BY <1>5
  <2> QED BY <1>1, <2>1, <2>2, <2>3 DEF Mailboxes!Forget
<1> QED BY <1>2, <1>6 DEF Mailboxes!Next

\* All else goes on behind the mailboxes.
LEMMA StutterMaps ==
  ASSUME Known, Known', UNCHANGED <<qstate, slot, mq, source, msg>>,
         \A t \in Thread : msg[t] # None => q'[t] = q[t],
         \A t \in Thread : op[t].kind = "push" \/ op'[t].kind = "push" => op'[t] = op[t]
  PROVE  UNCHANGED Mailboxes!vars
<1>1. /\ \A h \in Handle : StatusOf(h)' = StatusOf(h)
      /\ \A h \in Handle : CurrentOf(h)' = CurrentOf(h)
      /\ \A m \in Msg : TransitOf(m)' = TransitOf(m)
  BY SameStatus, SameCurrent, SameTransit
<1> QED BY <1>1 DEF Mailboxes!vars

\* Every step of the dispatcher is a step of the mailboxes, or none.
LEMMA StepMaps == Known /\ Known' /\ [Next]_vars => [Mailboxes!Next]_(Mailboxes!vars)
<1> SUFFICES ASSUME Known, Known', [Next]_vars
             PROVE  Mailboxes!Next \/ UNCHANGED Mailboxes!vars
  OBVIOUS
<1>1. ASSUME NEW t \in Thread, Release(t) \/ InitOk(t) \/ InitFail(t)
      PROVE  UNCHANGED Mailboxes!vars
  <2>1. /\ UNCHANGED <<qstate, slot, mq, msg, source, q>>
        /\ op[t].kind # "push"
        /\ \/ op' = [op EXCEPT ![t] = NoOp]
           \/ op' = [op EXCEPT ![t] = DeleteOp(op[t].h)] /\ op[t].h \in Handle
           \/ op' = [op EXCEPT ![t] = ReleaseOp(q[t])] /\ q[t] \in Handle
    <3>1. CASE Release(t)
      BY <3>1, OpFacts DEF Release, Known, IInv, TypeOK
    <3>2. CASE InitOk(t) \/ InitFail(t)
      BY <3>2, OpMade
         DEF InitOk, InitFail, At, svars, Known, IInv, TypeOK, LocalsOK, Owning
    <3> QED BY <1>1, <3>1, <3>2
  <2>2. op'[t].kind # "push" /\ \A u \in Thread \ {t} : op'[u] = op[u]
    BY <2>1, OpMade DEF Known, IInv, TypeOK
  <2> QED BY <2>1, <2>2, StutterMaps
<1>2. ASSUME NEW t \in Thread, NEW h \in Handle, Kill(t, h)
      PROVE  Mailboxes!Next
  BY <1>2, RetireMaps DEF Kill, At
<1>3. ASSUME NEW t \in Thread, FailRetire(t)
      PROVE  Mailboxes!Next \/ UNCHANGED Mailboxes!vars
  <2>1. q[t] \in Handle /\ op[t] = NoOp
    BY <1>3 DEF FailRetire, At, Known, IInv, TypeOK, LocalsOK, Owning
  <2>2. CASE Retire(t, q[t])
    BY <2>1, <2>2, RetireMaps
  <2>3. CASE UNCHANGED <<svars, q, nq, msg, left, op>>
    BY <2>3, StutterMaps DEF svars
  <2> QED BY <1>3, <2>2, <2>3 DEF FailRetire
<1>4. ASSUME NEW t \in Thread,
             \/ Launched(t) \/ Take(t) \/ GrabContext(t) \/ Length(t) \/ Swap(t)
             \/ Requeue(t) \/ StartDrop(t)
      PROVE  UNCHANGED Mailboxes!vars
  <2>1. UNCHANGED <<qstate, slot, mq, msg, source, op>>
    BY <1>4
       DEF Launched, Take, GrabContext, Grab, Length, Swap, Requeue, StartDrop, svars
  <2>2. \A u \in Thread \ {t} : q'[u] = q[u]
    BY <1>4
       DEF Launched, Take, GrabContext, Length, Swap, Requeue, StartDrop, svars,
           Known, IInv, TypeOK
  <2>3. msg[t] # None => q'[t] = q[t]
    BY <1>4
       DEF Launched, Take, GrabContext, Length, Swap, Requeue, StartDrop, svars, At,
           Known, IInv, TypeOK, LocalsOK
  <2> QED BY <2>1, <2>2, <2>3, StutterMaps
<1>5. ASSUME NEW t \in Thread, PopEmpty(t) \/ Keep(t) \/ PushBack(t)
      PROVE  UNCHANGED Mailboxes!vars
  <2>1. /\ q[t] \in Handle /\ op[t].kind = "none" /\ msg[t] = None
        /\ UNCHANGED <<qstate, slot, mq, msg, source>>
        /\ op' = [op EXCEPT ![t] = ReleaseOp(q[t])]
    <3>1. /\ pc[t] \in {"first", "next", "swap", "pushback"} /\ op[t] = NoOp
          /\ UNCHANGED <<qstate, slot, mq, msg, source>>
          /\ op' = [op EXCEPT ![t] = ReleaseOp(q[t])]
      BY <1>5 DEF PopEmpty, Keep, PushBack, At, svars
    <3>2. q[t] # None /\ msg[t] = None
      BY <3>1 DEF Known, IInv, LocalsOK, Owning, Dispatching
    <3> QED BY <3>1, <3>2, OpMade DEF Known, IInv, TypeOK
  <2>2. \A u \in Thread \ {t} : q'[u] = q[u]
    BY <1>5 DEF PopEmpty, Keep, PushBack, svars, Known, IInv, TypeOK
  <2> QED BY SMTT(30), <2>1, <2>2, OpMade, StutterMaps DEF Known, IInv, TypeOK
<1>6. ASSUME UNCHANGED vars PROVE UNCHANGED Mailboxes!vars
  BY <1>6, StutterMaps DEF vars, svars, tvars
<1> QED
  BY <1>1, <1>2, <1>3, <1>4, <1>5, <1>6, SendMaps, PushMaps, DeleteMaps, LaunchMaps,
     PopMaps, ReturnMaps, DropMaps, FreeMaps DEF Next, Step

\* The dispatcher keeps the promises of Mailbox.tla: a message is accepted by a
\* registered service only, messages are handled in the order of their arrival
\* and one at a time, nothing arrives after the close, and what is left then
\* goes back as an error or is forgotten with its source.
THEOREM MailboxesImplemented == Spec => ImplementsMailboxes
<1>1. Init => Mailboxes!Init
  <2> SUFFICES ASSUME Init PROVE Mailboxes!Init
    OBVIOUS
  <2>1. \A h \in Handle : StatusOf(h) = "none"
    BY DEF Init, StatusOf
  <2>2. \A h \in Handle : CurrentOf(h) = None
    BY DEF Init, CurrentOf
  <2>3. \A m \in Msg : TransitOf(m) = None
    BY OpMade DEF Init, TransitOf
  <2> QED BY <2>1, <2>2, <2>3 DEF Init, Mailboxes!Init
<1>2. Spec => []Known
  BY Invariance, EachInOnePlace, CurrentRead, TransitRead, PTL DEF Known
<1> QED
  BY <1>1, <1>2, StepMaps, PTL DEF Spec, ImplementsMailboxes, Mailboxes!Spec
=============================================================================
