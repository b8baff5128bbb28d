------------------------------- MODULE MCLua --------------------------------
(***************************************************************************)
(* The Lua side of a service: the critical section of skynet.queue, the    *)
(* coroutines and sessions of skynet.lua, and the launching of unique      *)
(* services.  They share no state; on says which of them moves, while the  *)
(* others rest as they began.                                              *)
(***************************************************************************)
EXTENDS CriticalSection, FiniteSetTheorems, SequenceTheorems, TLAPS, TLC

CONSTANTS
  Thread, Session, Peer, Incoming, Source, MaxWakeups, MaxErrors,   \* of LuaRuntime
  Break, Trigger, Timer,
  Name, Needs, Client, MaxInstances, Starting, Failed              \* of UniqueService

VARIABLES
  on,
  status, awaits, session_id_coroutine, session_coroutine_id, sleep_session, watching_session,
  unresponse, wakeups, error_queue, fork_queue, at, current, owed, exited, out, failed, request,
  wasted,
  service, launch, queue, asks, given, mailbox, instance, services, replies, proc, of

runtime == <<status, awaits, session_id_coroutine, session_coroutine_id, sleep_session,
             watching_session, unresponse, wakeups, error_queue, fork_queue, at, current, owed,
             exited, out, failed, request, wasted>>
unique == <<service, launch, queue, asks, given, mailbox, instance, services, replies, proc, of>>

Runtime == INSTANCE LuaRuntime WITH
  Coroutine <- Thread, Request <- Incoming, wakeup_queue <- wakeups, running <- current

Services == INSTANCE UniqueService WITH None <- Nil

\* Values for the constants: every request is made by the same service; the
\* init of one service asks for the other.
OneSource == [r \in Incoming |-> CHOOSE p \in Peer : TRUE]
First == CHOOSE n \in Name : TRUE
FirstNeedsOther == [n \in Name |-> IF n = First THEN CHOOSE m \in Name : m # First ELSE Nil]

AllInit ==
  /\ on \in {"queue", "runtime", "unique"}
  /\ Init /\ Runtime!Init /\ Services!Init

AllNext ==
  \/ on = "queue" /\ Next /\ UNCHANGED <<on, runtime, unique>>
  \/ on = "runtime" /\ Runtime!Next /\ UNCHANGED <<on, vars, unique>>
  \/ on = "unique" /\ Services!Next /\ UNCHANGED <<on, vars, runtime>>

AllSpec == AllInit /\ [][AllNext]_<<on, vars, runtime, unique>>

\* No session or service is nil, and a coroutine can be told from nil, BREAK and
\* the function that an error forks.
ASSUME RuntimeAssumption ==
  /\ IsFiniteSet(Session) /\ MaxWakeups \in Nat /\ MaxErrors \in Nat
  /\ {Nil, Break, Trigger} \cap Thread = {}
  /\ Nil \notin Session /\ Nil \notin Peer /\ {0, Nil} \cap Incoming = {}

\* Whoever asks for a service, nil, the table of a launch and an error message
\* can be told from an address and from a name.
ASSUME UniqueAssumption ==
  /\ MaxInstances \in Nat
  /\ Nil \notin Name /\ Needs \in [Name -> Name \cup {Nil}]
  /\ Client \cap Services!Instance = {} /\ Nil \notin Services!Requester
  /\ {Starting, Failed} \cap Services!Instance = {}
  /\ Nil # Starting /\ Nil # Failed /\ Starting # Failed

\* The coroutines of the runtime are interchangeable.
Symmetry == Permutations(Thread)

-----------------------------------------------------------------------------
\* skynet.lua: the session of an answer leads to the coroutine that waits for
\* it, no failure and no wakeup is left when the callback returns, every
\* request is answered once, and skynet.exit tells all who still wait.
RuntimeKeeps ==
  /\ Runtime!TypeOK
  /\ Runtime!SessionsLead /\ Runtime!FailuresDelivered /\ Runtime!WakeupsServed
  /\ Runtime!AnsweredOnce /\ Runtime!ExitAnswersAll

\* launcher.lua and service_mgr.lua: a unique service runs once, each launch is
\* answered once, and whoever asks for a service that is being launched is
\* told how that ended, also when it failed.
LaunchesKeep ==
  Services!TypeOK /\ Services!Unique /\ Services!AnsweredOnce /\ Services!NobodyForgotten

-----------------------------------------------------------------------------
(***************************************************************************)
(* Proofs: skynet.queue is a lock that admits in the order of arrival, for *)
(* any set of coroutines and any depth of nesting.                         *)
(*                                                                         *)
(* The refinement needs to know who holds the section: ref counts the      *)
(* calls of current_thread and of nobody else (Owned), the line holds      *)
(* coroutines that wait, each once and not the one it was handed to        *)
(* (LineOK), and the one it was handed to has been woken up.               *)
(***************************************************************************)
Owned == /\ \A c \in Coroutine : frames[c] = IF c = current_thread THEN ref ELSE 0
         /\ current_thread = Nil => ref = 0 /\ thread_queue = <<>>

LineOK == /\ \A i \in 1 .. Len(thread_queue) :
               /\ thread_queue[i] \in waiting
               /\ Granted => thread_queue[i] # current_thread
               /\ \A j \in 1 .. Len(thread_queue) : thread_queue[i] = thread_queue[j] => i = j
          /\ running \notin waiting

IInv == TypeOK /\ Owned /\ LineOK /\ HandoverReaches

\* What Lock is given.
Inside == {c \in Coroutine : frames[c] > 0}
Line == (IF Granted THEN <<current_thread>> ELSE <<>>) \o thread_queue

\* Who is put before a sequence is its head, and who is taken is put back.
LEMMA GivenAhead ==
  ASSUME NEW S, NEW s \in Seq(S), NEW c \in S
  PROVE  /\ <<c>> \o s # <<>>
         /\ Head(<<c>> \o s) = c
         /\ Tail(<<c>> \o s) = s
<1>1. /\ <<c>> \in Seq(S) /\ Len(<<c>>) = 1 /\ <<c>>[1] = c /\ Len(s) \in Nat
  OBVIOUS
<1> DEFINE t == <<c>> \o s
<1>2. /\ t \in Seq(S) /\ Len(t) = Len(s) + 1
      /\ \A i \in 1 .. Len(s) + 1 : t[i] = IF i <= 1 THEN c ELSE s[i - 1]
  BY <1>1, ConcatProperties
<1> HIDE DEF t
<1>3. t # <<>> /\ Head(t) = c
  BY <1>1, <1>2
<1>4. /\ Tail(t) \in Seq(S) /\ Len(Tail(t)) = Len(s)
      /\ \A i \in 1 .. Len(s) : Tail(t)[i] = s[i]
  BY <1>1, <1>2, <1>3, HeadTailProperties
<1>5. Tail(t) = s
  BY <1>4, SeqEqual
<1> QED
  BY <1>3, <1>5 DEF t

LEMMA TakenFirst ==
  ASSUME NEW S, NEW s \in Seq(S), s # <<>>
  PROVE  /\ Head(s) = s[1] /\ Head(s) \in S /\ Len(s) \in Nat \ {0}
         /\ Tail(s) \in Seq(S) /\ Len(Tail(s)) = Len(s) - 1
         /\ \A i \in 1 .. Len(Tail(s)) : Tail(s)[i] = s[i + 1]
         /\ s = <<Head(s)>> \o Tail(s)
<1>1. /\ Head(s) = s[1] /\ Head(s) \in S /\ Len(s) \in Nat \ {0}
      /\ Tail(s) \in Seq(S) /\ Len(Tail(s)) = Len(s) - 1
      /\ \A i \in 1 .. Len(Tail(s)) : Tail(s)[i] = s[i + 1]
  BY HeadTailProperties, EmptySeq
<1> DEFINE h == <<Head(s)>>  t == h \o Tail(s)
<1>2. h \in Seq(S) /\ Len(h) = 1 /\ h[1] = s[1]
  BY <1>1
<1>3. /\ t \in Seq(S) /\ Len(t) = 1 + Len(Tail(s))
      /\ \A i \in 1 .. 1 + Len(Tail(s)) : t[i] = IF i <= 1 THEN h[i] ELSE Tail(s)[i - 1]
  BY <1>1, <1>2, ConcatProperties
<1> HIDE DEF h, t
<1>4. Len(t) = Len(s) /\ \A i \in 1 .. Len(t) : t[i] = s[i]
  BY <1>1, <1>2, <1>3
<1>5. t = s
  BY <1>3, <1>4, SeqEqual
<1> QED
  BY <1>1, <1>5 DEF h, t

LEMMA Initially == Init => IInv /\ Lock!Init
<1> SUFFICES ASSUME Init PROVE IInv /\ Lock!Init
  OBVIOUS
<1>1. ~Granted
  BY DEF Init, Granted
<1>2. TypeOK /\ Owned /\ LineOK
  BY <1>1, NilAssumption DEF Init, TypeOK, Owned, LineOK
<1> QED
  BY <1>1, <1>2 DEF Init, IInv, HandoverReaches, Lock!Init

-----------------------------------------------------------------------------
LEMMA EnterStep ==
  ASSUME IInv, NEW c \in Coroutine, Enter(c)
  PROVE  IInv' /\ [Lock!Next]_(Lock!vars)
<1> USE NilAssumption DEF IInv
<1>1. CASE Occupied(c)
  <2>1. /\ thread_queue' = Append(thread_queue, c)
        /\ waiting' = waiting \cup {c} /\ running' = Nil /\ running = c
        /\ UNCHANGED <<current_thread, ref, frames, wakeup_queue>>
        /\ current_thread # Nil /\ current_thread # c
    BY <1>1 DEF Enter, Occupied
  <2>2. Granted' = Granted
    BY <2>1 DEF Granted
  <2>3. TypeOK' /\ Owned'
    BY <2>1 DEF TypeOK, Owned
  <2>4. HandoverReaches'
    BY <2>1, <2>2 DEF HandoverReaches
  <2>5. LineOK'
    <3>1. \A i \in 1 .. Len(thread_queue) : thread_queue[i] # c
      BY <2>1 DEF LineOK
    <3>2. /\ Len(thread_queue') = Len(thread_queue) + 1
          /\ \A i \in 1 .. Len(thread_queue) : thread_queue'[i] = thread_queue[i]
          /\ thread_queue'[Len(thread_queue) + 1] = c
      BY <2>1 DEF TypeOK
    <3>3. Len(thread_queue) \in Nat
      BY DEF TypeOK
    <3>4. Nil \notin waiting'
      BY <2>1 DEF TypeOK
    <3> QED
      BY <2>1, <2>2, <3>1, <3>2, <3>3, <3>4 DEF LineOK
  <2>6. Line' = Append(Line, c) /\ Inside' = Inside
    BY <2>1, <2>2 DEF Line, Inside, TypeOK
  <2> QED
    BY <2>3, <2>4, <2>5, <2>6 DEF Lock!Next, Lock!Join, Line, Inside
<1>2. CASE ~Occupied(c)
  <2>1. /\ current_thread' = c /\ ref' = ref + 1
        /\ frames' = [frames EXCEPT ![c] = @ + 1]
        /\ running = c
        /\ UNCHANGED <<thread_queue, waiting, wakeup_queue, running>>
        /\ current_thread \in {Nil, c}
    BY <1>2 DEF Enter, Entered, Occupied
  <2>2. ~Granted /\ ~Granted' /\ wakeup_queue = <<>>
    BY <2>1 DEF Granted, HandoverReaches, LineOK, TypeOK
  <2>3. TypeOK' /\ Owned'
    BY <2>1 DEF TypeOK, Owned
  <2>4. LineOK' /\ HandoverReaches'
    BY <2>1, <2>2 DEF LineOK, HandoverReaches
  <2>5. Line = thread_queue /\ Line' = thread_queue /\ Inside' = {c}
    BY <2>1, <2>2 DEF Line, Inside, TypeOK, Owned
  <2>6. CASE current_thread = Nil
    <3>1. Inside = {} /\ Line = <<>>
      BY <2>5, <2>6 DEF Inside, Owned, TypeOK
    <3> QED
      BY <2>3, <2>4, <2>5, <3>1 DEF Lock!Next, Lock!Enter, Line, Inside
  <2>7. CASE current_thread = c
    <3>1. Inside = {c}
      BY <2>2, <2>7 DEF Inside, Owned, TypeOK, Granted
    <3> QED
      BY <2>3, <2>4, <2>5, <3>1 DEF Lock!vars, Line, Inside
  <2> QED
    BY <2>1, <2>6, <2>7
<1> QED
  BY <1>1, <1>2

LEMMA WokenStep ==
  ASSUME IInv, NEW c \in Coroutine, Woken(c)
  PROVE  IInv' /\ [Lock!Next]_(Lock!vars)
<1> USE NilAssumption DEF IInv
<1>1. Granted /\ c = current_thread /\ ref = 0 /\ wakeup_queue = <<c>>
  BY DEF Woken, HandoverReaches, Granted
<1>2. /\ current_thread' = c /\ ref' = 1 /\ running' = c
      /\ frames' = [frames EXCEPT ![c] = 1]
      /\ waiting' = waiting \ {c} /\ wakeup_queue' = <<>>
      /\ UNCHANGED thread_queue
  BY <1>1 DEF Woken
<1>3. ~Granted'
  BY <1>2 DEF Granted
<1>4. TypeOK' /\ Owned' /\ HandoverReaches'
  BY <1>1, <1>2, <1>3 DEF TypeOK, Owned, HandoverReaches
<1>5. LineOK'
  BY <1>1, <1>2, <1>3 DEF LineOK
<1>6. Inside = {} /\ Inside' = {c}
  BY <1>1, <1>2 DEF Inside, Owned, TypeOK
<1>7. Line = <<c>> \o thread_queue /\ Line' = thread_queue
  BY <1>1, <1>2, <1>3 DEF Line, TypeOK
<1>8. Line # <<>> /\ Head(Line) = c /\ Tail(Line) = thread_queue
  BY <1>7, GivenAhead DEF TypeOK
<1> QED
  BY <1>4, <1>5, <1>6, <1>7, <1>8 DEF Lock!Next, Lock!Admit, Line, Inside

LEMMA LeaveStep ==
  ASSUME IInv, NEW c \in Coroutine, Leave(c)
  PROVE  IInv' /\ [Lock!Next]_(Lock!vars)
<1> USE NilAssumption DEF IInv
<1>1. /\ c = current_thread /\ frames[c] = ref /\ ref \in Nat /\ ref > 0
      /\ running = c /\ ref' = ref - 1
      /\ frames' = [frames EXCEPT ![c] = @ - 1]
      /\ UNCHANGED <<waiting, running>>
  BY DEF Leave, Owned, TypeOK
<1>2. ~Granted /\ wakeup_queue = <<>> /\ Inside = {c} /\ Line = thread_queue
  BY <1>1 DEF Granted, HandoverReaches, Inside, Line, Owned, TypeOK
<1>3. CASE ref # 1
  <2>1. UNCHANGED <<current_thread, thread_queue, wakeup_queue>>
    BY <1>3 DEF Leave
  <2>2. ~Granted'
    BY <1>1, <1>3 DEF Granted
  <2>3. TypeOK' /\ Owned' /\ LineOK' /\ HandoverReaches'
    BY <1>1, <1>2, <1>3, <2>1, <2>2 DEF TypeOK, Owned, LineOK, HandoverReaches
  <2>4. Inside' = {c} /\ Line' = thread_queue
    BY <1>1, <1>3, <2>1, <2>2 DEF Inside, Line, Owned, TypeOK
  <2> QED
    BY <1>2, <2>3, <2>4 DEF Lock!vars, Inside, Line
<1>4. CASE ref = 1 /\ thread_queue = <<>>
  <2>1. /\ current_thread' = Nil /\ ref' = 0
        /\ UNCHANGED <<thread_queue, wakeup_queue>>
    BY <1>1, <1>2, <1>4 DEF Leave, NextInLine, Rest, TypeOK
  <2>2. ~Granted'
    BY <2>1 DEF Granted
  <2>3. TypeOK' /\ Owned' /\ LineOK' /\ HandoverReaches'
    BY <1>1, <1>2, <1>4, <2>1, <2>2 DEF TypeOK, Owned, LineOK, HandoverReaches
  <2>4. Inside' = {} /\ Line' = thread_queue
    BY <1>1, <1>4, <2>1, <2>2 DEF Inside, Line, Owned, TypeOK
  <2> QED
    BY <1>2, <2>3, <2>4 DEF Lock!Next, Lock!Leave, Inside, Line
<1>5. CASE ref = 1 /\ thread_queue # <<>>
  <2> DEFINE d == Head(thread_queue)
  <2>1. /\ d = thread_queue[1] /\ d \in Coroutine /\ Len(thread_queue) \in Nat \ {0}
        /\ Tail(thread_queue) \in Seq(Coroutine)
        /\ Len(Tail(thread_queue)) = Len(thread_queue) - 1
        /\ \A i \in 1 .. Len(Tail(thread_queue)) : Tail(thread_queue)[i] = thread_queue[i + 1]
        /\ thread_queue = <<d>> \o Tail(thread_queue)
    BY <1>5, TakenFirst DEF TypeOK
  <2>2. d \in waiting
    BY <2>1 DEF LineOK
  <2>3. /\ current_thread' = d /\ thread_queue' = Tail(thread_queue) /\ ref' = 0
        /\ wakeup_queue' = <<d>>
    BY <1>1, <1>2, <1>5, <2>2 DEF Leave, NextInLine, Rest
  <2> HIDE DEF d
  <2>4. Granted'
    BY <2>1, <2>3 DEF Granted
  <2>5. TypeOK' /\ Owned' /\ HandoverReaches'
    BY <1>1, <1>2, <1>5, <2>1, <2>2, <2>3, <2>4 DEF TypeOK, Owned, HandoverReaches
  <2>6. LineOK'
    <3>1. \A i \in 1 .. Len(thread_queue') :
            /\ i + 1 \in 1 .. Len(thread_queue) /\ i + 1 # 1
            /\ thread_queue'[i] = thread_queue[i + 1]
      BY <2>1, <2>3
    <3>2. \A i \in 1 .. Len(thread_queue') :
            /\ thread_queue'[i] \in waiting'
            /\ thread_queue'[i] # current_thread'
      BY <1>1, <2>1, <2>3, <3>1 DEF LineOK
    <3>3. \A i, j \in 1 .. Len(thread_queue') : thread_queue'[i] = thread_queue'[j] => i = j
      BY <2>1, <2>3, <3>1 DEF LineOK
    <3> QED
      BY <1>1, <3>2, <3>3 DEF LineOK
  <2>7. Inside' = {} /\ Line' = thread_queue
    BY <1>1, <1>5, <2>1, <2>3, <2>4 DEF Inside, Line, Owned, TypeOK
  <2> QED
    BY <1>2, <2>5, <2>6, <2>7 DEF Lock!Next, Lock!Leave, Inside, Line
<1> QED
  BY <1>3, <1>4, <1>5

\* The others change who runs, and nothing of the lock.
LEMMA OtherStep ==
  ASSUME IInv, (\E c \in Coroutine : Suspend(c) \/ Resume(c)) \/ UNCHANGED vars
  PROVE  IInv' /\ [Lock!Next]_(Lock!vars)
<1> USE NilAssumption DEF IInv
<1>1. /\ UNCHANGED <<current_thread, ref, thread_queue, frames, waiting, wakeup_queue>>
      /\ running' \in Coroutine \cup {Nil} /\ running' \notin waiting
  BY DEF Suspend, Resume, vars, TypeOK, LineOK
<1>2. Granted' = Granted
  BY <1>1 DEF Granted
<1>3. TypeOK' /\ Owned' /\ LineOK' /\ HandoverReaches'
  BY <1>1, <1>2 DEF TypeOK, Owned, LineOK, HandoverReaches
<1>4. Inside' = Inside /\ Line' = Line
  BY <1>1, <1>2 DEF Inside, Line
<1> QED
  BY <1>3, <1>4 DEF Lock!vars, Inside, Line

LEMMA Step == IInv /\ [Next]_vars => IInv' /\ [Lock!Next]_(Lock!vars)
  BY EnterStep, WokenStep, LeaveStep, OtherStep DEF Next

-----------------------------------------------------------------------------
\* The critical section is a lock that admits in the order of arrival: one
\* coroutine at a time is in f, and nobody overtakes another.
THEOREM LockTheorem == Spec => ImplementsLock
  BY Initially, Step, PTL DEF Spec, ImplementsLock, Lock!Spec

\* The one the section was handed to waits and has been woken up, so the
\* assertion ref == 0 after skynet.wait never fails.
THEOREM HandoverTheorem == Spec => []HandoverReaches
<1>1. IInv => HandoverReaches
  BY DEF IInv
<1> QED
  BY Initially, Step, <1>1, PTL DEF Spec

\* The variables keep their types.
THEOREM TypeOKTheorem == Spec => []TypeOK
<1>1. IInv => TypeOK
  BY DEF IInv
<1> QED
  BY Initially, Step, <1>1, PTL DEF Spec

-----------------------------------------------------------------------------
(***************************************************************************)
(* The launching of unique services, for any names, needs, clients and     *)
(* services.                                                               *)
(***************************************************************************)

\* This module and UniqueService count alike.
LEMMA AtMostOne ==
  ASSUME NEW S, NEW x, S \subseteq {x}
  PROVE  Services!Cardinality(S) <= 1
<1>1. Services!Cardinality(S) = Cardinality(S)
  BY DEF Services!Cardinality, Cardinality
<1>2. S = {} \/ S = {x}
  OBVIOUS
<1> QED BY <1>1, <1>2, FS_EmptySet, FS_Singleton

\* What is left when the first is taken, and what is there when some are sent.
LEMMA Taken ==
  ASSUME NEW S, NEW s \in Seq(S), s # <<>>
  PROVE  /\ 1 \in DOMAIN s /\ Head(s) = s[1] /\ Head(s) \in S /\ Tail(s) \in Seq(S)
         /\ \A k \in DOMAIN Tail(s) : k + 1 \in DOMAIN s \ {1} /\ Tail(s)[k] = s[k + 1]
         /\ \A k \in DOMAIN s \ {1} : k - 1 \in DOMAIN Tail(s) /\ Tail(s)[k - 1] = s[k]
<1>1. DOMAIN s = 1 .. Len(s) /\ DOMAIN Tail(s) = 1 .. Len(Tail(s))
  BY TakenFirst
<1>2. \A k \in 2 .. Len(s) : k - 1 \in 1 .. Len(Tail(s)) /\ Tail(s)[k - 1] = s[(k - 1) + 1]
  BY TakenFirst
<1> QED BY <1>1, <1>2, TakenFirst

LEMMA Sent ==
  ASSUME NEW S, NEW s \in Seq(S), NEW t \in Seq(S)
  PROVE  /\ s \o t \in Seq(S)
         /\ \A k \in DOMAIN s : k \in DOMAIN (s \o t) /\ (s \o t)[k] = s[k]
         /\ \A k \in DOMAIN t : Len(s) + k \in DOMAIN (s \o t) \ DOMAIN s /\ (s \o t)[Len(s) + k] = t[k]
         /\ \A k \in DOMAIN (s \o t) \ DOMAIN s :
              k - Len(s) \in DOMAIN t /\ (s \o t)[k] = t[k - Len(s)]
<1>1. /\ s \o t \in Seq(S) /\ Len(s) \in Nat /\ Len(t) \in Nat
      /\ DOMAIN s = 1 .. Len(s) /\ DOMAIN t = 1 .. Len(t)
      /\ DOMAIN (s \o t) = 1 .. Len(s) + Len(t)
      /\ \A k \in 1 .. Len(s) + Len(t) :
           (s \o t)[k] = IF k <= Len(s) THEN s[k] ELSE t[k - Len(s)]
  BY ConcatProperties
<1> QED BY <1>1

\* Services send messages that are true, some of them when they come to an end.
\* The launcher waits for nobody who does not tell it.
LEMMA Reported ==
  ASSUME Services!IInv, NEW reports \in Seq(Services!Message),
         mailbox' = mailbox \o reports, UNCHANGED <<instance, of>>,
         \A i \in Services!Instance :
           \/ proc'[i] = proc[i]
           \/ proc[i] \in {"init", "asking"} /\ proc'[i] \in {"asking", "ready"}
           \/ /\ proc[i] \in Services!Live /\ proc'[i] \in {"ok", "gone"}
              /\ proc[i] = "ok" => proc'[i] = "gone"
              /\ \E k \in DOMAIN reports : reports[k].cmd # "LAUNCH" /\ reports[k].inst = i,
         \A k \in DOMAIN reports :
           /\ reports[k].cmd = "LAUNCHOK" => proc'[reports[k].inst] \in {"ok", "gone"}
           /\ reports[k].cmd \in {"ERROR", "REMOVE"} => proc'[reports[k].inst] = "gone"
  PROVE  /\ mailbox' \in Seq(Services!Message)
         /\ Services!ReportsTrue' /\ Services!NobodyForgotten'
         /\ \A n \in Name :
              Services!InMailbox(n)' =
                Services!InMailbox(n) \cup {k \in DOMAIN mailbox' \ DOMAIN mailbox :
                  reports[k - Len(mailbox)].cmd = "LAUNCH" /\ reports[k - Len(mailbox)].name = n}
<1>1. mailbox \in Seq(Services!Message) /\ instance \subseteq Services!Instance
  BY DEF Services!IInv, Services!TypeOK
<1>2. /\ mailbox' \in Seq(Services!Message)
      /\ \A k \in DOMAIN mailbox : k \in DOMAIN mailbox' /\ mailbox'[k] = mailbox[k]
      /\ \A k \in DOMAIN reports :
           Len(mailbox) + k \in DOMAIN mailbox' \ DOMAIN mailbox /\ mailbox'[Len(mailbox) + k] = reports[k]
      /\ \A k \in DOMAIN mailbox' \ DOMAIN mailbox :
           k - Len(mailbox) \in DOMAIN reports /\ mailbox'[k] = reports[k - Len(mailbox)]
  BY <1>1, Sent
<1>3. \A k \in DOMAIN mailbox' : mailbox'[k] \in Services!Message
  BY <1>2, ElementOfSeq
<1>4. \A k \in DOMAIN mailbox' :
        mailbox'[k].cmd \in {"LAUNCHOK", "ERROR", "REMOVE"} => mailbox'[k].inst \in Services!Instance
  BY <1>3 DEF Services!Message
<1>5. Services!ReportsTrue'
  <2>1. ASSUME NEW k \in DOMAIN mailbox
        PROVE  /\ mailbox'[k].cmd = "LAUNCHOK" => proc'[mailbox'[k].inst] \in {"ok", "gone"}
               /\ mailbox'[k].cmd \in {"ERROR", "REMOVE"} => proc'[mailbox'[k].inst] = "gone"
    <3>1. /\ mailbox[k].cmd = "LAUNCHOK" => proc[mailbox[k].inst] \in {"ok", "gone"}
          /\ mailbox[k].cmd \in {"ERROR", "REMOVE"} => proc[mailbox[k].inst] = "gone"
      BY DEF Services!IInv, Services!ReportsTrue
    <3>2. mailbox'[k] = mailbox[k] /\ k \in DOMAIN mailbox'
      BY <1>2
    <3> DEFINE i == mailbox'[k].inst
    <3>3. mailbox'[k].cmd \in {"LAUNCHOK", "ERROR", "REMOVE"} => i \in Services!Instance
      BY <1>4, <3>2
    <3>4. /\ mailbox'[k].cmd = "LAUNCHOK" => proc[i] \in {"ok", "gone"}
          /\ mailbox'[k].cmd \in {"ERROR", "REMOVE"} => proc[i] = "gone"
      BY <3>1, <3>2
    <3> HIDE DEF i
    <3>5. /\ i \in Services!Instance /\ proc[i] \in {"ok", "gone"} => proc'[i] \in {"ok", "gone"}
          /\ i \in Services!Instance /\ proc[i] = "gone" => proc'[i] = "gone"
      <4> SUFFICES ASSUME i \in Services!Instance, proc[i] \in {"ok", "gone"}
                   PROVE  proc'[i] \in {"ok", "gone"} /\ (proc[i] = "gone" => proc'[i] = "gone")
        OBVIOUS
      <4>1. \/ proc'[i] = proc[i]
            \/ proc[i] \in {"init", "asking"}
            \/ proc[i] \in Services!Live /\ proc'[i] \in {"ok", "gone"}
        OBVIOUS
      <4>2. "gone" \notin Services!Live
        BY DEF Services!Live
      <4> QED BY <4>1, <4>2
    <3>6. /\ mailbox'[k].cmd = "LAUNCHOK" => proc'[i] \in {"ok", "gone"}
          /\ mailbox'[k].cmd \in {"ERROR", "REMOVE"} => proc'[i] = "gone"
      BY <3>3, <3>4, <3>5
    <3> QED BY <3>6 DEF i
  <2>2. ASSUME NEW k \in DOMAIN mailbox', k \notin DOMAIN mailbox
        PROVE  /\ mailbox'[k].cmd = "LAUNCHOK" => proc'[mailbox'[k].inst] \in {"ok", "gone"}
               /\ mailbox'[k].cmd \in {"ERROR", "REMOVE"} => proc'[mailbox'[k].inst] = "gone"
    BY <1>2, <2>2
  <2> QED BY <2>1, <2>2 DEF Services!ReportsTrue
<1>6. Services!NobodyForgotten'
  <2> SUFFICES ASSUME NEW i \in instance
               PROVE  \/ proc'[i] \in {"init", "asking", "ready"}
                      \/ \E k \in DOMAIN mailbox' : mailbox'[k].cmd # "LAUNCH" /\ mailbox'[k].inst = i
    BY DEF Services!NobodyForgotten
  <2>1. \/ proc[i] \in {"init", "asking", "ready"}
        \/ \E k \in DOMAIN mailbox : mailbox[k].cmd # "LAUNCH" /\ mailbox[k].inst = i
    BY DEF Services!IInv, Services!NobodyForgotten
  <2>2. i \in Services!Instance
    BY <1>1
  <2>3. CASE \E k \in DOMAIN mailbox : mailbox[k].cmd # "LAUNCH" /\ mailbox[k].inst = i
    BY <1>2, <2>3
  <2>4. CASE \E k \in DOMAIN reports : reports[k].cmd # "LAUNCH" /\ reports[k].inst = i
    <3>1. PICK k \in DOMAIN reports : reports[k].cmd # "LAUNCH" /\ reports[k].inst = i
      BY <2>4
    <3>2. Len(mailbox) + k \in DOMAIN mailbox' /\ mailbox'[Len(mailbox) + k] = reports[k]
      BY <1>2
    <3> QED BY <3>1, <3>2
  <2> QED BY <2>1, <2>2, <2>3, <2>4
<1>7. ASSUME NEW n \in Name
      PROVE  Services!InMailbox(n)' =
               Services!InMailbox(n) \cup {k \in DOMAIN mailbox' \ DOMAIN mailbox :
                 reports[k - Len(mailbox)].cmd = "LAUNCH" /\ reports[k - Len(mailbox)].name = n}
  BY <1>2 DEF Services!InMailbox
<1> QED BY <1>2, <1>5, <1>6, <1>7

\* Nothing is asked of the launcher.
LEMMA NoLaunch ==
  ASSUME Services!IInv, NEW reports \in Seq(Services!Message), mailbox' = mailbox \o reports,
         \A n \in Name :
           Services!InMailbox(n)' =
             Services!InMailbox(n) \cup {k \in DOMAIN mailbox' \ DOMAIN mailbox :
               reports[k - Len(mailbox)].cmd = "LAUNCH" /\ reports[k - Len(mailbox)].name = n},
         \A k \in DOMAIN reports : reports[k].cmd # "LAUNCH"
  PROVE  \A n \in Name : Services!InMailbox(n)' = Services!InMailbox(n)
<1>1. \A k \in DOMAIN mailbox' \ DOMAIN mailbox : k - Len(mailbox) \in DOMAIN reports
  BY Sent DEF Services!IInv, Services!TypeOK
<1> QED BY <1>1

\* init is done or fails, or the service exits or is killed.
LEMMA EndStep ==
  ASSUME Services!IInv, NEW i \in Services!Instance,
         \/ Services!InitDone(i) \/ Services!InitFails(i)
         \/ \E kill \in BOOLEAN : Services!Ends(i, kill)
  PROVE  Services!IInv'
<1>1. PICK m \in Services!Message, then \in {"ok", "gone"} :
        /\ Services!Report(i, <<m>>, then) /\ proc[i] \in Services!Live
        /\ m.cmd # "LAUNCH" /\ m.inst = i
        /\ m.cmd = "LAUNCHOK" <=> then = "ok"
        /\ proc[i] = "ok" => then = "gone"
  <2>1. CASE Services!InitDone(i)
    <3> DEFINE m == [cmd |-> "LAUNCHOK", inst |-> i]
    <3>1. m \in Services!Message /\ m.cmd = "LAUNCHOK" /\ m.inst = i
      BY DEF Services!Message
    <3> QED BY <2>1, <3>1 DEF Services!InitDone, Services!MayEnd, Services!Live
  <2>2. CASE Services!InitFails(i)
    <3> DEFINE m == [cmd |-> "ERROR", inst |-> i]
    <3>1. m \in Services!Message /\ m.cmd = "ERROR" /\ m.inst = i
      BY DEF Services!Message
    <3> QED BY <2>2, <3>1 DEF Services!InitFails, Services!MayEnd, Services!Live
  <2>3. ASSUME NEW kill \in BOOLEAN, Services!Ends(i, kill)
        PROVE  \E m \in Services!Message : 
                 /\ Services!Report(i, <<m>>, "gone") /\ proc[i] \in Services!Live
                 /\ m.cmd = "REMOVE" /\ m.inst = i
    <3> DEFINE m == [cmd |-> "REMOVE", inst |-> i, kill |-> kill]
    <3>1. m \in Services!Message /\ m.cmd = "REMOVE" /\ m.inst = i
      BY DEF Services!Message
    <3> QED BY <2>3, <3>1 DEF Services!Ends, Services!Notice
  <2> QED BY <2>1, <2>2, <2>3
<1>2. /\ proc' = [proc EXCEPT ![i] = then] /\ mailbox' = mailbox \o <<m>>
      /\ UNCHANGED <<service, launch, queue, asks, given, instance, services, replies, of>>
  BY <1>1 DEF Services!Report, Services!mgr, Services!launcher
<1>3. /\ proc \in [Services!Instance -> Services!Live \cup {"free", "gone"}]
      /\ proc' \in [Services!Instance -> Services!Live \cup {"free", "gone"}]
      /\ <<m>> \in Seq(Services!Message) /\ DOMAIN <<m>> = {1} /\ <<m>>[1] = m
      /\ proc'[i] = then /\ \A j \in Services!Instance \ {i} : proc'[j] = proc[j]
  BY <1>1, <1>2 DEF Services!IInv, Services!TypeOK, Services!Live
<1>4. /\ mailbox' \in Seq(Services!Message)
      /\ Services!ReportsTrue' /\ Services!NobodyForgotten'
      /\ \A n \in Name : Services!InMailbox(n)' = Services!InMailbox(n)
  <2> DEFINE reports == <<m>>
  <2>1. reports \in Seq(Services!Message) /\ \A k \in DOMAIN reports : k = 1 /\ reports[k] = m
    BY <1>3
  <2>2. 1 \in DOMAIN reports /\ mailbox' = mailbox \o reports
    BY <1>2, <1>3
  <2> HIDE DEF reports
  <2>3. \A k \in DOMAIN reports :
          /\ reports[k].cmd # "LAUNCH"
          /\ reports[k].cmd = "LAUNCHOK" => proc'[reports[k].inst] \in {"ok", "gone"}
          /\ reports[k].cmd \in {"ERROR", "REMOVE"} => proc'[reports[k].inst] = "gone"
    BY <1>1, <1>3, <2>1 DEF Services!Message
  <2>4. \A j \in Services!Instance :
          \/ proc'[j] = proc[j]
          \/ /\ proc[j] \in Services!Live /\ proc'[j] \in {"ok", "gone"}
             /\ proc[j] = "ok" => proc'[j] = "gone"
             /\ \E k \in DOMAIN reports : reports[k].cmd # "LAUNCH" /\ reports[k].inst = j
    BY <1>1, <1>3, <2>1, <2>2
  <2>5. /\ mailbox' \in Seq(Services!Message)
        /\ Services!ReportsTrue' /\ Services!NobodyForgotten'
        /\ \A n \in Name :
             Services!InMailbox(n)' =
               Services!InMailbox(n) \cup {k \in DOMAIN mailbox' \ DOMAIN mailbox :
                 reports[k - Len(mailbox)].cmd = "LAUNCH" /\ reports[k - Len(mailbox)].name = n}
    BY <1>2, <2>1, <2>2, <2>3, <2>4, Reported
  <2> QED BY <2>1, <2>2, <2>3, <2>5, NoLaunch
<1>5. \A n \in Name : UNCHANGED <<Services!InInstance(n), Services!InReplies(n)>>
  BY <1>2 DEF Services!InInstance, Services!InReplies
<1>6. Services!TypeOK'
  BY <1>2, <1>3, <1>4 DEF Services!IInv, Services!TypeOK
<1>7. Services!LaunchInOnePlace'
  BY <1>2, <1>4, <1>5 DEF Services!IInv, Services!LaunchInOnePlace
<1>8. Services!LivesKnown'
  BY <1>1, <1>2, <1>3 DEF Services!IInv, Services!LivesKnown, Services!InReplies
<1>9. Services!GivenKnown'
  BY <1>2 DEF Services!IInv, Services!GivenKnown
<1> QED BY <1>4, <1>6, <1>7, <1>8, <1>9 DEF Services!IInv

LEMMA FailureSeq ==
  ASSUME Services!IInv, NEW W, NEW x,
         NEW reports \in Services!FailureReports(W, x)
  PROVE  /\ reports \in Seq(Services!Message)
         /\ \A k \in DOMAIN reports :
              /\ reports[k].cmd = "ERROR" /\ reports[k].inst \in W \cap Services!Instance
              /\ proc[reports[k].inst] \in {"init", "asking"} /\ x \notin Services!Instance
         /\ x \notin Services!Instance =>
              \A i \in W \cap Services!Instance : proc[i] \in {"init", "asking"} =>
                \E k \in DOMAIN reports : reports[k].inst = i
<1> DEFINE failures == {i \in W \cap Services!Instance :
                          proc[i] \in {"init", "asking"} /\ x \notin Services!Instance}
           Error == [cmd : {"ERROR"}, inst : failures]
<1>1. CASE failures = {}
  <2>1. reports = <<>>
    BY <1>1 DEF Services!FailureReports
  <2> QED BY <1>1, <2>1
<1>2. CASE failures # {}
  <2>1. /\ reports \in [1 .. Services!Cardinality(failures) -> Error]
        /\ \A i \in failures : \E k \in DOMAIN reports : reports[k].inst = i
    BY <1>2 DEF Services!FailureReports
  <2>2. Services!Cardinality(failures) \in Nat
    <3>1. Services!Cardinality(failures) = Cardinality(failures)
      BY DEF Services!Cardinality, Cardinality
    <3>2. failures \subseteq 1 .. MaxInstances /\ MaxInstances \in Int /\ 1 \in Int
      BY UniqueAssumption DEF Services!Instance
    <3>3. IsFiniteSet(failures)
      BY <3>2, FS_Interval, FS_Subset
    <3> QED BY <3>1, <3>3, FS_CardinalityType
  <2>3. Error \subseteq Services!Message
    BY DEF Services!Message
  <2>4. reports \in Seq(Services!Message)
    <3>1. PICK c \in Nat : c = Services!Cardinality(failures)
      BY <2>2
    <3>2. reports \in [1 .. c -> Services!Message]
      BY <2>1, <2>3, <3>1
    <3> QED BY <3>2
  <2>5. \A k \in DOMAIN reports : reports[k] \in Error
    BY <2>1
  <2> QED BY <2>1, <2>4, <2>5
<1> QED BY <1>1, <1>2

\* Those who wait are answered.  The inits that get no address fail and say so.
LEMMA AnsweredStep ==
  ASSUME Services!IInv, NEW W \in SUBSET Services!Requester, NEW n \in Name, NEW x \in Services!Result,
         Services!Answer(W, n, x), proc' = Services!Progress(W, x),
         NEW reports \in Services!FailureReports(W, x), mailbox' = mailbox \o reports,
         UNCHANGED <<instance, of>>
  PROVE  /\ asks' \in [Services!Requester -> Name \cup {Nil}]
         /\ given' \in [Name -> SUBSET (Services!Instance \cup {Failed})]
         /\ proc' \in [Services!Instance -> Services!Live \cup {"free", "gone"}]
         /\ mailbox' \in Seq(Services!Message)
         /\ Services!ReportsTrue' /\ Services!NobodyForgotten'
         /\ \A m \in Name : Services!InMailbox(m)' = Services!InMailbox(m)
         /\ \A i \in Services!Instance : proc'[i] \in Services!Live => proc[i] \in Services!Live
         /\ \A m \in Name \ {n} : given'[m] = given[m]
         /\ given'[n] \cap Services!Instance \subseteq given[n] \cup {x}
<1>1. /\ given' = [given EXCEPT ![n] = @ \cup {IF x \in Services!Instance THEN x ELSE Failed}]
      /\ asks' = [q \in Services!Requester |-> IF q \in W THEN Nil ELSE asks[q]]
  BY DEF Services!Answer
<1>2. /\ asks \in [Services!Requester -> Name \cup {Nil}]
      /\ given \in [Name -> SUBSET (Services!Instance \cup {Failed})]
      /\ proc \in [Services!Instance -> Services!Live \cup {"free", "gone"}]
  BY DEF Services!IInv, Services!TypeOK
<1>3. \A i \in Services!Instance :
        \/ proc'[i] = proc[i]
        \/ /\ proc[i] \in {"init", "asking"} /\ i \in W
           /\ proc'[i] = IF x \in Services!Instance THEN "ready" ELSE "gone"
  BY DEF Services!Progress
<1>4. DOMAIN proc' = Services!Instance /\ proc' = [i \in Services!Instance |-> proc'[i]]
  BY DEF Services!Progress
<1>5. proc' \in [Services!Instance -> Services!Live \cup {"free", "gone"}]
  BY <1>2, <1>3, <1>4 DEF Services!Live
<1>6. /\ reports \in Seq(Services!Message)
      /\ \A k \in DOMAIN reports :
           /\ reports[k].cmd = "ERROR" /\ reports[k].inst \in W \cap Services!Instance
           /\ proc[reports[k].inst] \in {"init", "asking"} /\ x \notin Services!Instance
      /\ x \notin Services!Instance =>
           \A i \in W \cap Services!Instance : proc[i] \in {"init", "asking"} =>
             \E k \in DOMAIN reports : reports[k].inst = i
  BY FailureSeq
<1>7. \A k \in DOMAIN reports : reports[k].cmd = "ERROR" /\ proc'[reports[k].inst] = "gone"
  BY <1>6 DEF Services!Progress
<1>8. \A i \in Services!Instance :
        \/ proc'[i] = proc[i]
        \/ proc[i] \in {"init", "asking"} /\ proc'[i] \in {"asking", "ready"}
        \/ /\ proc[i] \in Services!Live /\ proc'[i] \in {"ok", "gone"}
           /\ proc[i] = "ok" => proc'[i] = "gone"
           /\ \E k \in DOMAIN reports : reports[k].cmd # "LAUNCH" /\ reports[k].inst = i
  BY <1>3, <1>6 DEF Services!Live
<1>9. /\ mailbox' \in Seq(Services!Message)
      /\ Services!ReportsTrue' /\ Services!NobodyForgotten'
      /\ \A m \in Name :
           Services!InMailbox(m)' =
             Services!InMailbox(m) \cup {k \in DOMAIN mailbox' \ DOMAIN mailbox :
               reports[k - Len(mailbox)].cmd = "LAUNCH" /\ reports[k - Len(mailbox)].name = m}
  BY <1>6, <1>7, <1>8, Reported
<1>10. \A m \in Name : Services!InMailbox(m)' = Services!InMailbox(m)
  BY <1>6, <1>9, NoLaunch
<1>11. /\ asks' \in [Services!Requester -> Name \cup {Nil}]
       /\ given' \in [Name -> SUBSET (Services!Instance \cup {Failed})]
       /\ \A m \in Name \ {n} : given'[m] = given[m]
       /\ given'[n] \cap Services!Instance \subseteq given[n] \cup {x}
  BY <1>1, <1>2, UniqueAssumption
<1> QED BY <1>3, <1>5, <1>9, <1>10, <1>11 DEF Services!Live

\* Somebody asks for a service that is not there: for the first who does so the
\* launcher is asked, the others wait for the answer to that.
LEMMA WaitStep ==
  ASSUME Services!IInv, NEW q \in Services!Requester, NEW n \in Name, NEW func \in BOOLEAN,
         Services!Ask(q, n, func), UNCHANGED <<Services!launcher, of>>,
         q \in Client \/ (q \in Services!Instance /\ proc[q] = "init"),
         service[n] \in {Nil, Starting}
  PROVE  Services!IInv'
<1>1. /\ service' = [service EXCEPT ![n] = Starting]
      /\ asks' = [asks EXCEPT ![q] = n]
      /\ proc' = [i \in Services!Instance |-> IF i = q THEN "asking" ELSE proc[i]]
      /\ UNCHANGED <<given, instance, services, replies, of>>
  BY DEF Services!Ask, Services!launcher
<1>2. PICK reports \in Seq(Services!Message) :
        /\ mailbox' = mailbox \o reports
        /\ \A k \in DOMAIN reports : reports[k].cmd = "LAUNCH"
        /\ \/ /\ launch[n] = Nil /\ launch' = [launch EXCEPT ![n] = q] /\ queue' = queue
              /\ \A k \in DOMAIN reports : k = 1 /\ reports[k].name = n
           \/ /\ launch' = launch /\ queue' = [queue EXCEPT ![n] = Append(@, q)]
              /\ DOMAIN reports = {}
  <2>1. mailbox \in Seq(Services!Message)
    BY DEF Services!IInv, Services!TypeOK
  <2>2. CASE func /\ Services!NotLaunching(n)
    <3> DEFINE m == [cmd |-> "LAUNCH", name |-> n]
    <3>1. m \in Services!Message
      BY DEF Services!Message
    <3>2. /\ launch[n] = Nil /\ launch' = [launch EXCEPT ![n] = q] /\ queue' = queue
          /\ mailbox' = Append(mailbox, m)
      BY <2>2 DEF Services!Ask, Services!NotLaunching
    <3>3. m.cmd = "LAUNCH" /\ m.name = n
      OBVIOUS
    <3> HIDE DEF m
    <3>4. /\ <<m>> \in Seq(Services!Message)
          /\ \A k \in DOMAIN <<m>> : k = 1 /\ <<m>>[k] = m
          /\ Append(mailbox, m) = mailbox \o <<m>>
      BY <2>1, <3>1, AppendIsConcat
    <3> QED BY <3>2, <3>3, <3>4
  <2>3. CASE ~(func /\ Services!NotLaunching(n))
    <3>1. /\ launch' = launch /\ queue' = [queue EXCEPT ![n] = Append(@, q)]
          /\ mailbox' = mailbox
      BY <2>3 DEF Services!Ask
    <3>2. <<>> \in Seq(Services!Message) /\ DOMAIN << >> = {} /\ mailbox \o << >> = mailbox
      BY <2>1, ConcatEmptySeq
    <3> QED BY <3>1, <3>2
  <2> QED BY <2>2, <2>3
<1>3. /\ service \in [Name -> Services!Instance \cup {Nil, Starting, Failed}]
      /\ launch \in [Name -> Services!Requester \cup {Nil}]
      /\ queue \in [Name -> Seq(Services!Requester)]
      /\ proc \in [Services!Instance -> Services!Live \cup {"free", "gone"}]
      /\ asks \in [Services!Requester -> Name \cup {Nil}]
  BY DEF Services!IInv, Services!TypeOK
<1>4. /\ service'[n] = Starting /\ \A m \in Name \ {n} : service'[m] = service[m]
      /\ \A i \in Services!Instance : service[n] # i
  BY <1>1, <1>3, UniqueAssumption DEF Services!Requester
<1>5. \A i \in Services!Instance :
        \/ proc'[i] = proc[i]
        \/ proc[i] = "init" /\ proc'[i] = "asking"
  BY <1>1, UniqueAssumption
<1>6. /\ mailbox' \in Seq(Services!Message)
      /\ Services!ReportsTrue' /\ Services!NobodyForgotten'
      /\ \A m \in Name :
           Services!InMailbox(m)' =
             Services!InMailbox(m) \cup {k \in DOMAIN mailbox' \ DOMAIN mailbox :
               reports[k - Len(mailbox)].cmd = "LAUNCH" /\ reports[k - Len(mailbox)].name = m}
  BY <1>1, <1>2, <1>5, Reported
<1>7. \A m \in Name : UNCHANGED <<Services!InInstance(m), Services!InReplies(m)>>
  BY <1>1 DEF Services!InInstance, Services!InReplies
<1>8. Services!LaunchInOnePlace'
  <2>1. \A k \in DOMAIN mailbox' \ DOMAIN mailbox :
          k - Len(mailbox) \in DOMAIN reports /\ k \in Int /\ Len(mailbox) \in Int
    <3>1. mailbox \in Seq(Services!Message)
      BY DEF Services!IInv, Services!TypeOK
    <3> QED BY <1>2, <1>6, <3>1, Sent
  <2>2. CASE launch' = launch /\ DOMAIN reports = {}
    <3>1. \A m \in Name : Services!InMailbox(m)' = Services!InMailbox(m)
      BY <1>6, <2>1, <2>2
    <3> QED BY <1>1, <1>7, <1>4, <2>2, <3>1 DEF Services!IInv, Services!LaunchInOnePlace
  <2>3. CASE /\ launch[n] = Nil /\ launch' = [launch EXCEPT ![n] = q]
             /\ \A k \in DOMAIN reports : k = 1 /\ reports[k].name = n
    <3>1. \A m \in Name \ {n} : Services!InMailbox(m)' = Services!InMailbox(m)
      BY <1>6, <2>1, <2>3
    <3>2. Services!InMailbox(n) = {} /\ Services!InInstance(n) = {} /\ Services!InReplies(n) = {}
      BY <2>3 DEF Services!IInv, Services!LaunchInOnePlace
    <3>3. \A k, l \in Services!InMailbox(n)' : k = l
      <4>1. \A k \in Services!InMailbox(n)' : k - Len(mailbox) = 1 /\ k \in Int /\ Len(mailbox) \in Int
        BY <1>6, <2>1, <2>3, <3>2
      <4> QED BY <4>1
    <3>4. launch'[n] = q /\ q # Nil /\ \A m \in Name \ {n} : launch'[m] = launch[m] /\ service'[m] = service[m]
      BY <1>1, <1>3, <2>3, UniqueAssumption
    <3> QED BY <1>1, <1>7, <1>4, <3>1, <3>2, <3>3, <3>4 DEF Services!IInv, Services!LaunchInOnePlace
  <2> QED BY <1>2, <2>2, <2>3
<1>9. Services!TypeOK'
  <2>1. /\ service' \in [Name -> Services!Instance \cup {Nil, Starting, Failed}]
        /\ launch' \in [Name -> Services!Requester \cup {Nil}]
        /\ asks' \in [Services!Requester -> Name \cup {Nil}]
    BY <1>1, <1>2, <1>3
  <2>2. queue' \in [Name -> Seq(Services!Requester)]
    <3>1. Append(queue[n], q) \in Seq(Services!Requester)
      BY <1>3
    <3> QED BY <1>2, <1>3, <3>1
  <2>3. proc' \in [Services!Instance -> Services!Live \cup {"free", "gone"}]
    BY <1>1, <1>3 DEF Services!Live
  <2> QED BY <1>1, <1>6, <2>1, <2>2, <2>3 DEF Services!IInv, Services!TypeOK
<1>10. Services!LivesKnown'
  <2> SUFFICES ASSUME NEW i \in Services!Instance, proc'[i] \in Services!Live
               PROVE  /\ of[i] \in Name
                      /\ \/ i \in instance
                         \/ \E k \in Services!InReplies(of[i]) : replies[k].result = i
                         \/ service'[of[i]] = i
    BY <1>1 DEF Services!LivesKnown, Services!InReplies
  <2>1. proc[i] \in Services!Live
    BY <1>5 DEF Services!Live
  <2>2. /\ of[i] \in Name
        /\ \/ i \in instance
           \/ \E k \in Services!InReplies(of[i]) : replies[k].result = i
           \/ service[of[i]] = i
    BY <2>1 DEF Services!IInv, Services!LivesKnown
  <2> QED BY <1>4, <2>2
<1>11. Services!GivenKnown'
  <2> SUFFICES ASSUME NEW m \in Name PROVE given[m] \cap Services!Instance \subseteq {service'[m]}
    BY <1>1 DEF Services!GivenKnown
  <2>1. given[m] \cap Services!Instance \subseteq {service[m]}
    BY DEF Services!IInv, Services!GivenKnown
  <2> QED BY <1>4, <2>1
<1> QED BY <1>6, <1>8, <1>9, <1>10, <1>11 DEF Services!IInv

\* Somebody asks for a service that is there, or that could not be launched.
LEMMA AskStep ==
  ASSUME Services!IInv, NEW q \in Services!Requester, NEW n \in Name, NEW func \in BOOLEAN,
         Services!Ask(q, n, func), UNCHANGED <<Services!launcher, of>>,
         q \in Client \/ (q \in Services!Instance /\ proc[q] = "init")
  PROVE  Services!IInv'
<1>1. CASE service[n] \in {Nil, Starting}
  BY <1>1, WaitStep
<1>2. CASE service[n] \notin {Nil, Starting}
  <2> DEFINE x == service[n]
  <2>1. /\ Services!Answer({q}, n, x) /\ proc' = Services!Progress({q}, x)
        /\ UNCHANGED <<service, launch, queue, instance, services, replies, of>>
    BY <1>2 DEF Services!Ask, Services!launcher
  <2>2. PICK reports \in Services!FailureReports({q}, x) : mailbox' = mailbox \o reports
    BY <1>2 DEF Services!Ask
  <2>3. x \in Services!Result
    BY <1>2 DEF Services!IInv, Services!TypeOK, Services!Result
  <2> HIDE DEF x
  <2>4. {q} \in SUBSET Services!Requester
    OBVIOUS
  <2>5. /\ asks' \in [Services!Requester -> Name \cup {Nil}]
        /\ given' \in [Name -> SUBSET (Services!Instance \cup {Failed})]
        /\ proc' \in [Services!Instance -> Services!Live \cup {"free", "gone"}]
        /\ mailbox' \in Seq(Services!Message)
        /\ Services!ReportsTrue' /\ Services!NobodyForgotten'
        /\ \A m \in Name : Services!InMailbox(m)' = Services!InMailbox(m)
        /\ \A i \in Services!Instance : proc'[i] \in Services!Live => proc[i] \in Services!Live
        /\ \A m \in Name \ {n} : given'[m] = given[m]
        /\ given'[n] \cap Services!Instance \subseteq given[n] \cup {x}
    BY <2>1, <2>2, <2>3, <2>4, AnsweredStep
  <2>6. \A m \in Name : UNCHANGED <<Services!InInstance(m), Services!InReplies(m)>>
    BY <2>1 DEF Services!InInstance, Services!InReplies
  <2>7. Services!TypeOK'
    BY <2>1, <2>5 DEF Services!IInv, Services!TypeOK
  <2>8. Services!LaunchInOnePlace'
    BY <2>1, <2>5, <2>6 DEF Services!IInv, Services!LaunchInOnePlace
  <2>9. Services!LivesKnown'
    BY <2>1, <2>5 DEF Services!IInv, Services!LivesKnown, Services!InReplies
  <2>10. Services!GivenKnown'
    <3> SUFFICES ASSUME NEW m \in Name PROVE given'[m] \cap Services!Instance \subseteq {service[m]}
      BY <2>1 DEF Services!GivenKnown
    <3>1. given[m] \cap Services!Instance \subseteq {service[m]}
      BY DEF Services!IInv, Services!GivenKnown
    <3> QED BY <2>5, <3>1 DEF x
  <2> QED BY <2>5, <2>7, <2>8, <2>9, <2>10 DEF Services!IInv
<1> QED BY <1>1, <1>2

\* The answer of the launcher comes: whoever waits is told.
LEMMA LaunchedStep ==
  ASSUME Services!IInv, Services!Launched
  PROVE  Services!IInv'
<1>1. /\ replies \in Seq([name : Name, result : Services!Result]) /\ replies # << >>
      /\ replies' = Tail(replies)
  BY DEF Services!IInv, Services!TypeOK, Services!Launched
<1>2. /\ 1 \in DOMAIN replies /\ Head(replies) = replies[1]
      /\ Head(replies) \in [name : Name, result : Services!Result]
      /\ replies' \in Seq([name : Name, result : Services!Result])
      /\ \A k \in DOMAIN replies' : k + 1 \in DOMAIN replies \ {1} /\ replies'[k] = replies[k + 1]
      /\ \A k \in DOMAIN replies \ {1} : k - 1 \in DOMAIN replies' /\ replies'[k - 1] = replies[k]
  BY <1>1, Taken
<1>3. PICK n \in Name, x \in Services!Result : n = Head(replies).name /\ x = Head(replies).result
  BY <1>2
<1>4. /\ service' = [service EXCEPT ![n] = x]
      /\ launch' = [launch EXCEPT ![n] = Nil]
      /\ queue' = [queue EXCEPT ![n] = << >>]
      /\ Services!Answer(Services!Woken(n), n, x)
      /\ proc' = Services!Progress(Services!Woken(n), x)
      /\ UNCHANGED <<instance, services, of>>
  BY <1>3 DEF Services!Launched
<1>5. PICK reports \in Services!FailureReports(Services!Woken(n), x) : mailbox' = mailbox \o reports
  BY <1>3 DEF Services!Launched
<1>6. /\ 1 \in Services!InReplies(n) /\ replies[1].result = x
      /\ Services!InMailbox(n) = {} /\ Services!InInstance(n) = {}
      /\ \A k \in Services!InReplies(n) : k = 1
      /\ launch[n] # Nil /\ service[n] = Starting
  <2>1. 1 \in Services!InReplies(n) /\ replies[1].result = x
    BY <1>2, <1>3 DEF Services!InReplies
  <2> QED BY <2>1 DEF Services!IInv, Services!LaunchInOnePlace
<1>7. /\ service \in [Name -> Services!Instance \cup {Nil, Starting, Failed}]
      /\ launch \in [Name -> Services!Requester \cup {Nil}]
      /\ queue \in [Name -> Seq(Services!Requester)]
  BY DEF Services!IInv, Services!TypeOK
<1>8. Services!Woken(n) \in SUBSET Services!Requester
  <2>1. launch[n] \in Services!Requester /\ queue[n] \in Seq(Services!Requester)
    BY <1>6, <1>7
  <2>2. \A k \in DOMAIN queue[n] : queue[n][k] \in Services!Requester
    BY <2>1, ElementOfSeq
  <2> QED BY <2>1, <2>2 DEF Services!Woken
<1>9. /\ asks' \in [Services!Requester -> Name \cup {Nil}]
      /\ given' \in [Name -> SUBSET (Services!Instance \cup {Failed})]
      /\ proc' \in [Services!Instance -> Services!Live \cup {"free", "gone"}]
      /\ mailbox' \in Seq(Services!Message)
      /\ Services!ReportsTrue' /\ Services!NobodyForgotten'
      /\ \A m \in Name : Services!InMailbox(m)' = Services!InMailbox(m)
      /\ \A i \in Services!Instance : proc'[i] \in Services!Live => proc[i] \in Services!Live
      /\ \A m \in Name \ {n} : given'[m] = given[m]
      /\ given'[n] \cap Services!Instance \subseteq given[n] \cup {x}
  BY <1>4, <1>5, <1>8, AnsweredStep
<1>10. /\ \A m \in Name : Services!InInstance(m)' = Services!InInstance(m)
       /\ \A m \in Name : \A k \in Services!InReplies(m)' : k \in Int /\ k + 1 \in Services!InReplies(m) \ {1}
       /\ \A m \in Name : \A k \in Services!InReplies(m) \ {1} :
            k - 1 \in Services!InReplies(m)' /\ replies'[k - 1] = replies[k]
       /\ service'[n] = x /\ launch'[n] = Nil
       /\ \A m \in Name \ {n} : service'[m] = service[m] /\ launch'[m] = launch[m]
  <2>1. \A k \in DOMAIN replies' : k \in Int
    BY <1>2
  <2> QED BY <1>2, <1>4, <1>7, <2>1 DEF Services!InInstance, Services!InReplies
<1>11. Services!TypeOK'
  <2>1. /\ service' \in [Name -> Services!Instance \cup {Nil, Starting, Failed}]
        /\ launch' \in [Name -> Services!Requester \cup {Nil}]
        /\ queue' \in [Name -> Seq(Services!Requester)]
    BY <1>4, <1>7 DEF Services!Result
  <2> QED BY <1>2, <1>4, <1>9, <2>1 DEF Services!IInv, Services!TypeOK
<1>12. Services!LaunchInOnePlace'
  <2>1. \A m \in Name : \A k, l \in Services!InReplies(m)' : k = l
    <3> SUFFICES ASSUME NEW m \in Name, NEW k \in Services!InReplies(m)', NEW l \in Services!InReplies(m)'
                 PROVE  k = l
      OBVIOUS
    <3>1. k \in Int /\ l \in Int /\ k + 1 = l + 1
      BY <1>10 DEF Services!IInv, Services!LaunchInOnePlace
    <3> QED BY <3>1
  <2>2. Services!InReplies(n)' = {}
    BY <1>6, <1>10
  <2>3. \A m \in Name : Services!InReplies(m)' # {} => Services!InReplies(m) # {}
    BY <1>10
  <2> QED BY <1>4, <1>6, <1>9, <1>10, <2>1, <2>2, <2>3 DEF Services!IInv, Services!LaunchInOnePlace
<1>13. Services!LivesKnown'
  <2> SUFFICES ASSUME NEW i \in Services!Instance, proc'[i] \in Services!Live
               PROVE  /\ of[i] \in Name
                      /\ \/ i \in instance
                         \/ \E k \in Services!InReplies(of[i])' : replies'[k].result = i
                         \/ service'[of[i]] = i
    BY <1>4 DEF Services!LivesKnown
  <2>1. /\ of[i] \in Name
        /\ \/ i \in instance
           \/ \E k \in Services!InReplies(of[i]) : replies[k].result = i
           \/ service[of[i]] = i
    BY <1>9 DEF Services!IInv, Services!LivesKnown
  <2>2. ASSUME NEW k \in Services!InReplies(of[i]), replies[k].result = i
        PROVE  \/ \E l \in Services!InReplies(of[i])' : replies'[l].result = i
               \/ service'[of[i]] = i
    <3>1. CASE k = 1
      <4>1. of[i] = n
        BY <1>2, <1>3, <3>1 DEF Services!InReplies
      <4> QED BY <1>6, <1>10, <2>2, <3>1, <4>1
    <3>2. CASE k # 1
      <4>1. k - 1 \in Services!InReplies(of[i])' /\ replies'[k - 1] = replies[k]
        <5>1. PICK p \in Name : p = of[i]
          BY <2>1
        <5>2. k \in Services!InReplies(p) \ {1}
          BY <2>2, <3>2, <5>1
        <5>3. k - 1 \in Services!InReplies(p)' /\ replies'[k - 1] = replies[k]
          BY <1>10, <5>2
        <5> QED BY <1>4, <5>1, <5>3
      <4> QED BY <2>2, <4>1
    <3> QED BY <3>1, <3>2
  <2>3. service[n] # i
    BY <1>6, UniqueAssumption
  <2> QED BY <1>10, <2>1, <2>2, <2>3
<1>14. Services!GivenKnown'
  <2> SUFFICES ASSUME NEW m \in Name PROVE given'[m] \cap Services!Instance \subseteq {service'[m]}
    BY DEF Services!GivenKnown
  <2>1. given[m] \cap Services!Instance \subseteq {service[m]}
    BY DEF Services!IInv, Services!GivenKnown
  <2>2. CASE m = n
    <3>1. given[n] \cap Services!Instance = {}
      BY <1>6, <2>1, <2>2, UniqueAssumption
    <3> QED BY <1>9, <1>10, <2>2, <3>1
  <2> QED BY <1>9, <1>10, <2>1, <2>2
<1> QED BY <1>9, <1>11, <1>12, <1>13, <1>14 DEF Services!IInv

\* The launcher takes the next message.  What it does settles a launch or leaves
\* it where it is.
LEMMA DispatchStep ==
  ASSUME Services!IInv, Services!Dispatch
  PROVE  Services!IInv'
<1>1. /\ mailbox \in Seq(Services!Message) /\ mailbox # << >> /\ mailbox' = Tail(mailbox)
      /\ UNCHANGED <<service, launch, queue, asks, given>>
  BY DEF Services!IInv, Services!TypeOK, Services!Dispatch, Services!mgr
<1>2. /\ 1 \in DOMAIN mailbox /\ Head(mailbox) = mailbox[1] /\ Head(mailbox) \in Services!Message
      /\ mailbox' \in Seq(Services!Message)
      /\ \A k \in DOMAIN mailbox' : k + 1 \in DOMAIN mailbox \ {1} /\ mailbox'[k] = mailbox[k + 1]
      /\ \A k \in DOMAIN mailbox \ {1} : k - 1 \in DOMAIN mailbox' /\ mailbox'[k - 1] = mailbox[k]
  BY <1>1, Taken
<1> DEFINE m == Head(mailbox)
<1>3. \A n \in Name : \A k \in Services!InMailbox(n)' : k \in Int /\ k + 1 \in Services!InMailbox(n) \ {1}
  <2>1. \A k \in DOMAIN mailbox' : k \in Int
    BY <1>2
  <2> QED BY <1>2, <2>1 DEF Services!InMailbox
<1>4. \A n \in Name : /\ \A k, l \in Services!InMailbox(n)' : k = l
                      /\ Services!InMailbox(n)' # {} => Services!InMailbox(n) # {}
  <2> SUFFICES ASSUME NEW n \in Name, NEW k \in Services!InMailbox(n)', NEW l \in Services!InMailbox(n)'
               PROVE  k = l
    BY <1>3
  <2>1. k \in Int /\ l \in Int /\ k + 1 = l + 1
    BY <1>3 DEF Services!IInv, Services!LaunchInOnePlace
  <2> QED BY <2>1
<1>5. /\ replies \in Seq([name : Name, result : Services!Result])
      /\ proc \in [Services!Instance -> Services!Live \cup {"free", "gone"}]
      /\ of \in [Services!Instance -> Name \cup {Nil}]
      /\ instance \subseteq services /\ services \subseteq Services!Instance
  BY DEF Services!IInv, Services!TypeOK
\* An answer is sent.
<1>6. ASSUME NEW n \in Name, NEW x \in Services!Result, replies' = Services!Reply(n, x)
      PROVE  /\ replies' \in Seq([name : Name, result : Services!Result])
             /\ \A k \in DOMAIN replies : k \in DOMAIN replies' /\ replies'[k] = replies[k]
             /\ \A p \in Name \ {n} : Services!InReplies(p)' = Services!InReplies(p)
             /\ \E k \in Services!InReplies(n)' : replies'[k].result = x
             /\ Services!InReplies(n) = {} => \A k, l \in Services!InReplies(n)' : k = l
  <2> DEFINE r == [name |-> n, result |-> x]
  <2>1. r \in [name : Name, result : Services!Result] /\ r.name = n /\ r.result = x
    OBVIOUS
  <2>2. replies' = Append(replies, r)
    BY <1>6 DEF Services!Reply
  <2> HIDE DEF r
  <2>3. /\ replies' \in Seq([name : Name, result : Services!Result])
        /\ Len(replies) \in Nat /\ DOMAIN replies = 1 .. Len(replies)
        /\ DOMAIN replies' = 1 .. Len(replies) + 1
        /\ \A k \in 1 .. Len(replies) : replies'[k] = replies[k]
        /\ replies'[Len(replies) + 1] = r
    BY <1>5, <2>1, <2>2
  <2>4. \A k \in DOMAIN replies' : k \in DOMAIN replies \/ k = Len(replies) + 1
    BY <2>3
  <2>5. Len(replies) + 1 \in DOMAIN replies' /\ Len(replies) + 1 \notin DOMAIN replies
    BY <2>3
  <2>6. \A k \in DOMAIN replies : k \in DOMAIN replies' /\ replies'[k] = replies[k]
    BY <2>3
  <2> QED BY <2>1, <2>3, <2>4, <2>5, <2>6 DEF Services!InReplies
<1>7. CASE m.cmd = "LAUNCH" /\ Services!LaunchService(m.name)
  <2>1. PICK n \in Name : n = m.name
    BY <1>2, <1>7 DEF Services!Message
  <2>2. 1 \in Services!InMailbox(n)
    BY <1>2, <1>7, <2>1 DEF Services!InMailbox
  <2>3. /\ Services!InMailbox(n)' = {} /\ Services!InInstance(n) = {} /\ Services!InReplies(n) = {}
        /\ launch[n] # Nil /\ service[n] = Starting
    BY <1>3, <2>2 DEF Services!IInv, Services!LaunchInOnePlace
  <2>4. CASE \E i \in Services!Instance :
                /\ proc[i] = "free" /\ proc' = [proc EXCEPT ![i] = "init"]
                /\ of' = [of EXCEPT ![i] = n]
                /\ services' = services \cup {i} /\ instance' = instance \cup {i}
                /\ UNCHANGED replies
    <3>1. PICK i \in Services!Instance :
            /\ proc[i] = "free" /\ proc' = [proc EXCEPT ![i] = "init"]
            /\ of' = [of EXCEPT ![i] = n]
            /\ services' = services \cup {i} /\ instance' = instance \cup {i}
            /\ UNCHANGED replies
      BY <2>4
    <3>2. /\ proc'[i] = "init" /\ of'[i] = n
          /\ \A j \in Services!Instance \ {i} : proc'[j] = proc[j] /\ of'[j] = of[j]
      BY <1>5, <3>1
    <3>3. Services!TypeOK'
      BY <1>1, <1>2, <1>5, <3>1 DEF Services!IInv, Services!TypeOK, Services!Live
    <3>4. /\ \A p \in Name \ {n} : Services!InInstance(p)' \subseteq Services!InInstance(p)
          /\ Services!InInstance(n)' = {i}
          /\ \A p \in Name : Services!InReplies(p)' = Services!InReplies(p)
          /\ \A j \in instance' : of'[j] \in Name
      BY <1>5, <2>3, <3>1, <3>2
         DEF Services!InInstance, Services!InReplies, Services!IInv, Services!LaunchInOnePlace
    <3>5. Services!LaunchInOnePlace'
      BY <1>1, <1>4, <2>3, <3>4 DEF Services!IInv, Services!LaunchInOnePlace
    <3>6. Services!LivesKnown'
      BY <1>1, <3>1, <3>2 DEF Services!IInv, Services!LivesKnown, Services!InReplies
    <3>7. Services!ReportsTrue'
      BY <1>2, <3>1, <3>2 DEF Services!IInv, Services!ReportsTrue
    <3>8. Services!NobodyForgotten'
      BY <1>2, <1>5, <1>7, <3>1, <3>2 DEF Services!IInv, Services!NobodyForgotten
    <3>9. Services!GivenKnown'
      BY <1>1 DEF Services!IInv, Services!GivenKnown
    <3> QED BY <3>3, <3>5, <3>6, <3>7, <3>8, <3>9 DEF Services!IInv
  <2>5. CASE replies' = Services!Reply(n, Failed) /\ UNCHANGED <<proc, of, services, instance>>
    <3>1. Failed \in Services!Result
      BY DEF Services!Result
    <3>2. /\ replies' \in Seq([name : Name, result : Services!Result])
          /\ \A k \in DOMAIN replies : k \in DOMAIN replies' /\ replies'[k] = replies[k]
          /\ \A p \in Name \ {n} : Services!InReplies(p)' = Services!InReplies(p)
          /\ \A k, l \in Services!InReplies(n)' : k = l
      BY <1>6, <2>3, <2>5, <3>1
    <3>3. Services!TypeOK'
      BY <1>1, <1>2, <2>5, <3>2 DEF Services!IInv, Services!TypeOK
    <3>4. \A p \in Name : Services!InInstance(p)' = Services!InInstance(p)
      BY <2>5 DEF Services!InInstance
    <3>5. Services!LaunchInOnePlace'
      BY <1>1, <1>4, <2>3, <2>5, <3>2, <3>4 DEF Services!IInv, Services!LaunchInOnePlace
    <3>6. Services!LivesKnown'
      BY <1>1, <2>5, <3>2 DEF Services!IInv, Services!LivesKnown, Services!InReplies
    <3>7. Services!ReportsTrue'
      BY <1>2, <2>5 DEF Services!IInv, Services!ReportsTrue
    <3>8. Services!NobodyForgotten'
      BY <1>2, <1>7, <2>5 DEF Services!IInv, Services!NobodyForgotten
    <3>9. Services!GivenKnown'
      BY <1>1 DEF Services!IInv, Services!GivenKnown
    <3> QED BY <3>3, <3>5, <3>6, <3>7, <3>8, <3>9 DEF Services!IInv
  <2> QED BY <1>7, <2>1, <2>4, <2>5 DEF Services!LaunchService
<1>8. ASSUME m.cmd \in {"LAUNCHOK", "ERROR", "REMOVE"}, NEW x \in Services!Result, NEW listed \in BOOLEAN,
             Services!Settle(m.inst, x, listed),
             m.cmd = "LAUNCHOK" => x = m.inst
      PROVE  Services!IInv'
  <2>1. PICK i \in Services!Instance : i = m.inst
    BY <1>2, <1>8 DEF Services!Message
  <2>2. /\ replies' = IF i \in instance THEN Services!Reply(of[i], x) ELSE replies
        /\ instance' = instance \ {i} /\ services' \in {services, services \ {i}}
        /\ i \notin instance' /\ instance' \subseteq services'
        /\ UNCHANGED <<proc, of>>
    BY <1>5, <1>8, <2>1 DEF Services!Settle, Services!Pending, Services!Settled
  <2>3. proc[i] \in Services!Live => x = i
    BY <1>2, <1>8, <2>1 DEF Services!IInv, Services!ReportsTrue, Services!Live
  <2>4. Services!ReportsTrue' /\ Services!GivenKnown'
    BY <1>1, <1>2, <2>2 DEF Services!IInv, Services!ReportsTrue, Services!GivenKnown
  <2>5. Services!NobodyForgotten'
    <3> SUFFICES ASSUME NEW j \in instance', proc[j] \notin {"init", "asking", "ready"}
                 PROVE  \E k \in DOMAIN mailbox' : mailbox'[k].cmd # "LAUNCH" /\ mailbox'[k].inst = j
      BY <2>2 DEF Services!NobodyForgotten
    <3>1. PICK k \in DOMAIN mailbox : mailbox[k].cmd # "LAUNCH" /\ mailbox[k].inst = j
      BY <2>2 DEF Services!IInv, Services!NobodyForgotten
    <3>2. k # 1
      BY <1>2, <2>1, <2>2, <3>1
    <3>3. k - 1 \in DOMAIN mailbox' /\ mailbox'[k - 1] = mailbox[k]
      BY <1>2, <3>2
    <3> QED BY <3>1, <3>3
  <2>6. CASE i \in instance
    <3>1. PICK n \in Name : n = of[i]
      BY <2>6 DEF Services!IInv, Services!LaunchInOnePlace
    <3>2. i \in Services!InInstance(n)
      BY <2>6, <3>1 DEF Services!InInstance
    <3>3. /\ Services!InMailbox(n) = {} /\ Services!InReplies(n) = {}
          /\ \A j \in Services!InInstance(n) : j = i
          /\ launch[n] # Nil /\ service[n] = Starting
      BY <3>2 DEF Services!IInv, Services!LaunchInOnePlace
    <3>4. /\ replies' \in Seq([name : Name, result : Services!Result])
          /\ \A k \in DOMAIN replies : k \in DOMAIN replies' /\ replies'[k] = replies[k]
          /\ \A p \in Name \ {n} : Services!InReplies(p)' = Services!InReplies(p)
          /\ \E k \in Services!InReplies(n)' : replies'[k].result = x
          /\ \A k, l \in Services!InReplies(n)' : k = l
      BY <1>6, <2>2, <2>6, <3>1, <3>3
    <3>5. /\ Services!InInstance(n)' = {}
          /\ \A p \in Name : Services!InInstance(p)' \subseteq Services!InInstance(p)
          /\ \A j \in instance' : of'[j] \in Name
      BY <2>2, <3>3 DEF Services!InInstance, Services!IInv, Services!LaunchInOnePlace
    <3>6. Services!LaunchInOnePlace'
      BY <1>1, <1>4, <3>3, <3>4, <3>5 DEF Services!IInv, Services!LaunchInOnePlace
    <3>7. Services!LivesKnown'
      <4> SUFFICES ASSUME NEW j \in Services!Instance, proc[j] \in Services!Live
                   PROVE  /\ of[j] \in Name
                          /\ \/ j \in instance'
                             \/ \E k \in Services!InReplies(of[j])' : replies'[k].result = j
                             \/ service[of[j]] = j
        BY <1>1, <2>2 DEF Services!LivesKnown
      <4>1. /\ of[j] \in Name
            /\ \/ j \in instance
               \/ \E k \in Services!InReplies(of[j]) : replies[k].result = j
               \/ service[of[j]] = j
        BY DEF Services!IInv, Services!LivesKnown
      <4>2. \A k \in Services!InReplies(of[j]) : k \in Services!InReplies(of[j])' /\ replies'[k] = replies[k]
        BY <2>2, <3>4, <4>1 DEF Services!InReplies
      <4> QED BY <2>2, <2>3, <3>1, <3>4, <4>1, <4>2
    <3>8. Services!TypeOK'
      BY <1>1, <1>2, <1>5, <2>2, <3>4 DEF Services!IInv, Services!TypeOK
    <3> QED BY <2>4, <2>5, <3>6, <3>7, <3>8 DEF Services!IInv
  <2>7. CASE i \notin instance
    <3>1. instance' = instance /\ replies' = replies
      BY <2>2, <2>7
    <3>2. \A p \in Name : UNCHANGED <<Services!InInstance(p), Services!InReplies(p)>>
      BY <2>2, <3>1 DEF Services!InInstance, Services!InReplies
    <3>3. Services!LaunchInOnePlace'
      BY <1>1, <1>4, <2>2, <3>1, <3>2 DEF Services!IInv, Services!LaunchInOnePlace
    <3>4. Services!LivesKnown'
      BY <1>1, <2>2, <3>1 DEF Services!IInv, Services!LivesKnown, Services!InReplies
    <3>5. Services!TypeOK'
      BY <1>1, <1>2, <1>5, <2>2, <3>1 DEF Services!IInv, Services!TypeOK
    <3> QED BY <2>4, <2>5, <3>3, <3>4, <3>5 DEF Services!IInv
  <2> QED BY <2>6, <2>7
<1>9. Services!Instance \cup {Nil, Failed} = Services!Result
  BY DEF Services!Result
<1>10. m.cmd # "LAUNCH" => m.inst \in Services!Instance
  BY <1>2 DEF Services!Message
<1>11. CASE m.cmd = "LAUNCHOK" /\ Services!Settle(m.inst, m.inst, TRUE)
  BY <1>8, <1>9, <1>10, <1>11
<1>12. CASE m.cmd = "ERROR" /\ Services!Settle(m.inst, Failed, FALSE)
  BY <1>8, <1>9, <1>10, <1>12
<1>13. CASE m.cmd = "REMOVE" /\ Services!Settle(m.inst, IF m.kill THEN Failed ELSE Nil, FALSE)
  <2>1. (IF m.kill THEN Failed ELSE Nil) \in Services!Result
    BY <1>9
  <2> QED BY <1>8, <1>13, <2>1
<1> QED BY <1>7, <1>11, <1>12, <1>13 DEF Services!Dispatch

\* A unique service runs once, each launch is answered once, and whoever is
\* being launched ends or tells the launcher, for any services that need each
\* other and fail, exit and are killed at any time.
THEOREM LaunchTheorem == Services!Spec => []LaunchesKeep
<1>1. Services!Init => Services!IInv
  <2> SUFFICES ASSUME Services!Init PROVE Services!IInv
    OBVIOUS
  <2>1. Services!TypeOK
    BY DEF Services!Init, Services!TypeOK, Services!mgr, Services!launcher
  <2>2. \A n \in Name : Services!InMailbox(n) = {} /\ Services!InInstance(n) = {} /\ Services!InReplies(n) = {}
    BY DEF Services!Init, Services!InMailbox, Services!InInstance, Services!InReplies
  <2>3. Services!LaunchInOnePlace
    BY <2>2 DEF Services!Init, Services!LaunchInOnePlace
  <2> QED
    BY <2>1, <2>3
       DEF Services!Init, Services!IInv, Services!LivesKnown, Services!ReportsTrue,
           Services!GivenKnown, Services!NobodyForgotten, Services!Live
<1>2. ASSUME Services!IInv, [Services!Next]_Services!vars PROVE Services!IInv'
  <2>1. ASSUME NEW q \in Client, NEW n \in Name, NEW func \in BOOLEAN, Services!Request(q, n, func)
        PROVE  Services!IInv'
    <3>1. q \in Services!Requester
      BY DEF Services!Requester
    <3> QED BY <1>2, <2>1, <3>1, AskStep DEF Services!Request
  <2>2. ASSUME NEW i \in Services!Instance, Services!InitAsks(i)
        PROVE  Services!IInv'
    <3>1. i \in Services!Requester
      BY DEF Services!Requester
    <3>2. /\ proc[i] = "init" /\ Needs[of[i]] # Nil
          /\ Services!Ask(i, Needs[of[i]], TRUE) /\ UNCHANGED <<Services!launcher, of>>
      BY <2>2 DEF Services!InitAsks
    <3>3. of[i] \in Name
      BY <1>2, <3>2 DEF Services!IInv, Services!LivesKnown, Services!Live
    <3>4. Needs[of[i]] \in Name
      BY <3>2, <3>3, UniqueAssumption
    <3> QED BY <1>2, <3>1, <3>2, <3>4, AskStep
  <2>3. CASE UNCHANGED Services!vars
    <3>1. /\ UNCHANGED <<service, launch, queue, asks, given, mailbox, instance, services, replies, proc, of>>
      BY <2>3 DEF Services!vars, Services!mgr, Services!launcher
    <3>2. \A n \in Name : UNCHANGED <<Services!InMailbox(n), Services!InInstance(n), Services!InReplies(n)>>
      BY <3>1 DEF Services!InMailbox, Services!InInstance, Services!InReplies
    <3>3. Services!TypeOK' /\ Services!LaunchInOnePlace'
      BY ZenonT(60), <1>2, <3>1, <3>2 DEF Services!IInv, Services!TypeOK, Services!LaunchInOnePlace
    <3>4. Services!LivesKnown' /\ Services!ReportsTrue' /\ Services!GivenKnown'
      BY <1>2, <3>1
         DEF Services!IInv, Services!LivesKnown, Services!ReportsTrue, Services!GivenKnown, Services!InReplies
    <3>5. Services!NobodyForgotten'
      BY <1>2, <3>1 DEF Services!IInv, Services!NobodyForgotten
    <3> QED BY <3>3, <3>4, <3>5 DEF Services!IInv
  <2> QED
    BY <1>2, <2>1, <2>2, <2>3, LaunchedStep, DispatchStep, EndStep DEF Services!Next
<1>3. ASSUME Services!IInv PROVE LaunchesKeep
  <2>1. Services!AnsweredOnce
    <3> SUFFICES ASSUME NEW k \in DOMAIN replies
                 PROVE  /\ service[replies[k].name] = Starting /\ launch[replies[k].name] # Nil
                        /\ \A l \in DOMAIN replies : replies[l].name = replies[k].name => l = k
      BY DEF Services!AnsweredOnce
    <3>1. PICK n \in Name : n = replies[k].name
      <4> DEFINE R == [name : Name, result : Services!Result]
      <4>1. replies \in Seq(R)
        BY <1>3 DEF Services!IInv, Services!TypeOK
      <4> HIDE DEF R
      <4>2. DOMAIN replies = 1 .. Len(replies) /\ \A l \in 1 .. Len(replies) : replies[l] \in R
        BY <4>1, ElementOfSeq
      <4> USE DEF R
      <4> QED BY <4>2
    <3>2. k \in Services!InReplies(n)
      BY <3>1 DEF Services!InReplies
    <3> QED BY <1>3, <3>1, <3>2 DEF Services!IInv, Services!LaunchInOnePlace, Services!InReplies
  <2>2. ASSUME NEW n \in Name PROVE Services!Cardinality(given[n] \cap Services!Instance) <= 1
    <3>1. given[n] \cap Services!Instance \subseteq {service[n]}
      BY <1>3 DEF Services!IInv, Services!GivenKnown
    <3> QED BY <3>1, AtMostOne
  <2>3. ASSUME NEW n \in Name
        PROVE  Services!Cardinality({i \in Services!Instance : of[i] = n /\ proc[i] \in Services!Live}) <= 1
    <3> DEFINE living == {i \in Services!Instance : of[i] = n /\ proc[i] \in Services!Live}
    <3>1. ASSUME NEW i \in living, NEW j \in living PROVE i = j
      <4>1. /\ \/ i \in Services!InInstance(n)
               \/ \E k \in Services!InReplies(n) : replies[k].result = i
               \/ service[n] = i
            /\ \/ j \in Services!InInstance(n)
               \/ \E k \in Services!InReplies(n) : replies[k].result = j
               \/ service[n] = j
        BY <1>3 DEF Services!IInv, Services!LivesKnown, Services!InInstance
      <4>2. service[n] \in Services!Instance => launch[n] = Nil
        BY <1>3, UniqueAssumption DEF Services!IInv, Services!LaunchInOnePlace
      <4> QED BY <1>3, <4>1, <4>2 DEF Services!IInv, Services!LaunchInOnePlace
    <3>2. \E x : living \subseteq {x}
      BY <3>1
    <3> QED BY <3>2, AtMostOne
  <2> QED BY <1>3, <2>1, <2>2, <2>3 DEF LaunchesKeep, Services!IInv, Services!Unique
<1> QED BY <1>1, <1>2, <1>3, PTL DEF Services!Spec

-----------------------------------------------------------------------------
(***************************************************************************)
(* The coroutines and sessions of a service, for any coroutines, sessions, *)
(* services and requests.                                                  *)
(***************************************************************************)
RequestInv == Runtime!RequestsHeld /\ Runtime!AnsweredOnce /\ Runtime!ExitAnswersAll

\* The sequences of the runtime, by their indices.
LEMMA Shifted ==
  ASSUME NEW S, NEW s \in Seq(S), s # << >>
  PROVE  /\ Head(s) = s[1] /\ Head(s) \in S /\ Tail(s) \in Seq(S) /\ 1 \in 1 .. Len(s)
         /\ Len(Tail(s)) <= Len(s)
         /\ \A i \in 1 .. Len(Tail(s)) : i \in Int /\ i + 1 \in 1 .. Len(s) /\ i + 1 # 1 /\ Tail(s)[i] = s[i + 1]
         /\ \A i \in 1 .. Len(s) : i # 1 => i - 1 \in 1 .. Len(Tail(s)) /\ Tail(s)[i - 1] = s[i]
<1>1. /\ Head(s) = s[1] /\ Head(s) \in S /\ Len(s) \in Nat \ {0}
      /\ Tail(s) \in Seq(S) /\ Len(Tail(s)) = Len(s) - 1
      /\ \A i \in 1 .. Len(Tail(s)) : Tail(s)[i] = s[i + 1]
  BY TakenFirst
<1>2. ASSUME NEW i \in 1 .. Len(s), i # 1
      PROVE  i - 1 \in 1 .. Len(Tail(s)) /\ Tail(s)[i - 1] = s[i]
  <2>1. i - 1 \in 1 .. Len(Tail(s)) /\ (i - 1) + 1 = i
    BY <1>1, <1>2
  <2> QED BY <1>1, <2>1
<1> QED BY <1>1, <1>2

\* What keeps the requests: they do not change, and no coroutine that holds one
\* is given up.
LEMMA RequestsSame ==
  ASSUME RequestInv, UNCHANGED <<Runtime!requests, exited>>,
         \A c \in Thread : status'[c] \in {"free", "forked"} => status[c] \in {"free", "forked"}
  PROVE  RequestInv'
  BY DEF RequestInv, Runtime!RequestsHeld, Runtime!AnsweredOnce, Runtime!ExitAnswersAll, Runtime!requests

\* What keeps the tables: neither they nor who is suspended change.
LEMMA SessionsSame ==
  ASSUME Runtime!SessionsLead, UNCHANGED <<awaits, Runtime!tables, error_queue>>,
         \A c \in Thread : status'[c] # status[c] =>
           status[c] \notin Runtime!Suspended /\ status'[c] \notin Runtime!Suspended
  PROVE  Runtime!SessionsLead'
<1>1. UNCHANGED <<session_id_coroutine, sleep_session, watching_session>>
  BY DEF Runtime!tables
<1> QED BY <1>1 DEF Runtime!SessionsLead, Runtime!Suspended

\* A coroutine that is suspended runs on.
LEMMA Resumed ==
  ASSUME Runtime!IInv, at # "run", NEW c \in Thread, status[c] \in Runtime!Suspended,
         NEW v \in {Nil, Break},
         Runtime!Resume(c, [session_id_coroutine EXCEPT ![awaits[c]] = v]),
         error_queue' \in Seq(Session),
         \A i, j \in 1 .. Len(error_queue') : error_queue'[i] = error_queue'[j] => i = j,
         \A i \in 1 .. Len(error_queue') :
           watching_session[error_queue'[i]] # Nil /\ error_queue'[i] # awaits[c]
  PROVE  /\ Runtime!SessionsLead' /\ Runtime!RunsOne'
         /\ status' \in [Thread -> Runtime!Suspended \cup {"free", "forked", "run", "quit"}]
         /\ awaits' \in [Thread -> Session \cup {Nil}]
         /\ session_id_coroutine' \in [Session -> Thread \cup {Break, Nil}]
         /\ sleep_session' \in [Thread -> Session \cup {Nil}]
         /\ watching_session' \in [Session -> Peer \cup {Nil}]
         /\ at' = "run" /\ current' = c
         /\ status'[c] = "run" /\ \A d \in Thread \ {c} : status'[d] = status[d]
<1> DEFINE s == awaits[c]
<1>1. /\ status \in [Thread -> Runtime!Suspended \cup {"free", "forked", "run", "quit"}]
      /\ awaits \in [Thread -> Session \cup {Nil}]
      /\ session_id_coroutine \in [Session -> Thread \cup {Break, Nil}]
      /\ sleep_session \in [Thread -> Session \cup {Nil}]
      /\ watching_session \in [Session -> Peer \cup {Nil}]
  BY DEF Runtime!IInv, Runtime!TypeOK
<1>2. s \in Session /\ session_id_coroutine[s] = c
  BY <1>1 DEF Runtime!IInv, Runtime!RunsOne, Runtime!SessionsLead
<1>3. /\ status' = [status EXCEPT ![c] = "run"] /\ awaits' = [awaits EXCEPT ![c] = Nil]
      /\ current' = c /\ at' = "run"
      /\ watching_session' =
           IF status[c] = "call" THEN [watching_session EXCEPT ![s] = Nil] ELSE watching_session
      /\ sleep_session' = IF status[c] = "call" THEN sleep_session ELSE [sleep_session EXCEPT ![c] = Nil]
  BY DEF Runtime!Resume
<1>4. PICK w \in {Nil, Break} : session_id_coroutine' = [session_id_coroutine EXCEPT ![s] = w]
  <2>1. [[session_id_coroutine EXCEPT ![s] = v] EXCEPT ![s] = Nil] = [session_id_coroutine EXCEPT ![s] = Nil]
    BY <1>1, <1>2
  <2> QED BY <2>1 DEF Runtime!Resume
<1>5. /\ status'[c] = "run" /\ awaits'[c] = Nil /\ session_id_coroutine'[s] = w
      /\ \A d \in Thread \ {c} : /\ status'[d] = status[d] /\ awaits'[d] = awaits[d]
                                 /\ sleep_session'[d] = sleep_session[d]
      /\ \A t \in Session \ {s} : /\ session_id_coroutine'[t] = session_id_coroutine[t]
                                  /\ watching_session'[t] = watching_session[t]
  BY <1>1, <1>2, <1>3, <1>4
<1> HIDE DEF s
<1>6. w \notin Thread /\ "run" \notin Runtime!Suspended /\ "call" \in Runtime!Suspended
  BY RuntimeAssumption DEF Runtime!Suspended
<1>7. \A d \in Thread \ {c} : status[d] \in Runtime!Suspended => awaits[d] # s
  BY <1>2 DEF Runtime!IInv, Runtime!SessionsLead
<1>8. \A t \in Session : session_id_coroutine'[t] \in Thread =>
        /\ status'[session_id_coroutine'[t]] \in Runtime!Suspended
        /\ awaits'[session_id_coroutine'[t]] = t
  BY <1>2, <1>5, <1>6 DEF Runtime!IInv, Runtime!SessionsLead, s
<1>9. \A d \in Thread : status'[d] \in Runtime!Suspended => session_id_coroutine'[awaits'[d]] = d
  <2> SUFFICES ASSUME NEW d \in Thread \ {c}, status[d] \in Runtime!Suspended
               PROVE  session_id_coroutine'[awaits[d]] = d
    BY <1>5, <1>6
  <2>1. session_id_coroutine[awaits[d]] = d /\ awaits[d] \in Session
    BY <1>1 DEF Runtime!IInv, Runtime!SessionsLead, Runtime!RunsOne
  <2> QED BY <1>5, <1>7, <2>1
<1>10. \A d \in Thread : sleep_session'[d] = IF status'[d] \in {"sleep", "wait"} THEN awaits'[d] ELSE Nil
  <2>1. \A d \in Thread : sleep_session[d] = IF status[d] \in {"sleep", "wait"} THEN awaits[d] ELSE Nil
    BY DEF Runtime!IInv, Runtime!SessionsLead
  <2>2. sleep_session'[c] = Nil
    BY <1>1, <1>3, <2>1 DEF Runtime!Suspended
  <2> QED BY <1>5, <2>1, <2>2
<1>11. \A t \in Session :
         watching_session'[t] # Nil <=> \E d \in Thread : status'[d] = "call" /\ awaits'[d] = t
  <2> SUFFICES ASSUME NEW t \in Session
               PROVE  watching_session'[t] # Nil <=> \E d \in Thread \ {c} : status[d] = "call" /\ awaits[d] = t
    BY <1>5
  <2>1. watching_session[t] # Nil <=> \E d \in Thread : status[d] = "call" /\ awaits[d] = t
    BY DEF Runtime!IInv, Runtime!SessionsLead
  <2>2. CASE t # s
    BY <1>5, <2>1, <2>2 DEF s
  <2>3. CASE t = s /\ status[c] = "call"
    BY <1>1, <1>2, <1>3, <1>6, <1>7, <2>3
  <2>4. CASE t = s /\ status[c] # "call"
    BY <1>3, <2>1, <2>4
  <2> QED BY <2>2, <2>3, <2>4
<1>12. \A i \in 1 .. Len(error_queue') : watching_session'[error_queue'[i]] # Nil
  <2> SUFFICES ASSUME NEW i \in 1 .. Len(error_queue')
               PROVE  watching_session'[error_queue'[i]] # Nil
    OBVIOUS
  <2>1. error_queue'[i] \in Session
    BY ElementOfSeq
  <2> QED BY <1>5, <2>1 DEF s
<1>13. Runtime!SessionsLead'
  BY <1>8, <1>9, <1>10, <1>11, <1>12 DEF Runtime!SessionsLead
<1>14. Runtime!RunsOne'
  BY <1>3, <1>5, <1>6, RuntimeAssumption DEF Runtime!IInv, Runtime!RunsOne
<1>15. /\ status' \in [Thread -> Runtime!Suspended \cup {"free", "forked", "run", "quit"}]
       /\ awaits' \in [Thread -> Session \cup {Nil}]
       /\ session_id_coroutine' \in [Session -> Thread \cup {Break, Nil}]
       /\ sleep_session' \in [Thread -> Session \cup {Nil}]
       /\ watching_session' \in [Session -> Peer \cup {Nil}]
  BY <1>1, <1>3, <1>4
<1> QED BY <1>3, <1>5, <1>13, <1>14, <1>15

\* The running coroutine blocks on a session that nothing refers to.
LEMMA BlockStep ==
  ASSUME Runtime!IInv, NEW c \in Thread, NEW s \in Session, NEW how \in Runtime!Suspended,
         Runtime!Running(c), Runtime!Unused(s), Runtime!Block(c, s, how),
         \/ how = "call" /\ UNCHANGED sleep_session
              /\ \E p \in Peer : watching_session' = [watching_session EXCEPT ![s] = p]
         \/ how # "call" /\ UNCHANGED watching_session
              /\ sleep_session' = [sleep_session EXCEPT ![c] = s],
         out' \in [Session -> Peer \cup {Timer, Nil}]
  PROVE  Runtime!IInv'
<1>1. /\ status \in [Thread -> Runtime!Suspended \cup {"free", "forked", "run", "quit"}]
      /\ awaits \in [Thread -> Session \cup {Nil}]
      /\ session_id_coroutine \in [Session -> Thread \cup {Break, Nil}]
      /\ sleep_session \in [Thread -> Session \cup {Nil}]
      /\ watching_session \in [Session -> Peer \cup {Nil}]
      /\ error_queue \in Seq(Session)
  BY DEF Runtime!IInv, Runtime!TypeOK
<1>2. /\ status' = [status EXCEPT ![c] = how] /\ awaits' = [awaits EXCEPT ![c] = s]
      /\ session_id_coroutine' = [session_id_coroutine EXCEPT ![s] = c]
      /\ current' = Nil /\ at' = "wake"
      /\ UNCHANGED <<Runtime!requests, failed, wakeups, error_queue, fork_queue, owed, exited, wasted>>
  BY DEF Runtime!Block
<1>3. /\ status'[c] = how /\ awaits'[c] = s /\ session_id_coroutine'[s] = c
      /\ \A d \in Thread \ {c} : /\ status'[d] = status[d] /\ awaits'[d] = awaits[d]
                                 /\ sleep_session'[d] = sleep_session[d]
      /\ \A t \in Session \ {s} : /\ session_id_coroutine'[t] = session_id_coroutine[t]
                                  /\ watching_session'[t] = watching_session[t]
  BY <1>1, <1>2
<1>4. /\ status[c] = "run" /\ awaits[c] = Nil /\ sleep_session[c] = Nil
      /\ \A d \in Thread \ {c} : status[d] # "run"
  BY DEF Runtime!IInv, Runtime!RunsOne, Runtime!Running, Runtime!SessionsLead, Runtime!Suspended
<1>5. /\ session_id_coroutine[s] = Nil /\ watching_session[s] = Nil
      /\ \A i \in 1 .. Len(error_queue) : error_queue[i] # s
      /\ \A d \in Thread : awaits[d] # s
  BY DEF Runtime!Unused, Runtime!InQueue
<1>6. /\ \A t \in Session : session_id_coroutine'[t] \in Thread =>
           /\ status'[session_id_coroutine'[t]] \in Runtime!Suspended
           /\ awaits'[session_id_coroutine'[t]] = t
      /\ \A d \in Thread : status'[d] \in Runtime!Suspended => session_id_coroutine'[awaits'[d]] = d
  <2>1. ASSUME NEW t \in Session \ {s}, session_id_coroutine[t] \in Thread
        PROVE  status[session_id_coroutine[t]] \in Runtime!Suspended /\ awaits[session_id_coroutine[t]] = t
    BY <2>1 DEF Runtime!IInv, Runtime!SessionsLead
  <2>2. ASSUME NEW d \in Thread \ {c}, status[d] \in Runtime!Suspended
        PROVE  session_id_coroutine[awaits[d]] = d /\ awaits[d] \in Session
    BY <1>1, <2>2 DEF Runtime!IInv, Runtime!SessionsLead, Runtime!RunsOne
  <2>3. "run" \notin Runtime!Suspended
    BY DEF Runtime!Suspended
  <2> QED BY <1>3, <1>4, <1>5, <2>1, <2>2, <2>3
<1>7. \A d \in Thread : sleep_session'[d] = IF status'[d] \in {"sleep", "wait"} THEN awaits'[d] ELSE Nil
  <2>1. \A d \in Thread : sleep_session[d] = IF status[d] \in {"sleep", "wait"} THEN awaits[d] ELSE Nil
    BY DEF Runtime!IInv, Runtime!SessionsLead
  <2>2. sleep_session'[c] = IF how \in {"sleep", "wait"} THEN s ELSE Nil
    BY <1>1, <1>4 DEF Runtime!Suspended
  <2> QED BY <1>3, <2>1, <2>2
<1>8. \A t \in Session :
        watching_session'[t] # Nil <=> \E d \in Thread : status'[d] = "call" /\ awaits'[d] = t
  <2> SUFFICES ASSUME NEW t \in Session
               PROVE  watching_session'[t] # Nil <=> \E d \in Thread : status'[d] = "call" /\ awaits'[d] = t
    OBVIOUS
  <2>1. watching_session[t] # Nil <=> \E d \in Thread : status[d] = "call" /\ awaits[d] = t
    BY DEF Runtime!IInv, Runtime!SessionsLead
  <2>2. CASE t # s
    BY <1>3, <1>4, <2>1, <2>2
  <2>3. CASE t = s
    <3>1. watching_session'[s] # Nil <=> how = "call"
      BY <1>1, <1>5, RuntimeAssumption
    <3> QED BY <1>3, <1>5, <2>3, <3>1
  <2> QED BY <2>2, <2>3
<1>9. Runtime!SessionsLead'
  <2>1. \A i \in 1 .. Len(error_queue) : watching_session[error_queue[i]] # Nil /\ error_queue[i] \in Session
    BY <1>1, ElementOfSeq DEF Runtime!IInv, Runtime!SessionsLead
  <2>2. \A i, j \in 1 .. Len(error_queue) : error_queue[i] = error_queue[j] => i = j
    BY DEF Runtime!IInv, Runtime!SessionsLead
  <2>3. \A i \in 1 .. Len(error_queue) : watching_session'[error_queue[i]] # Nil
    BY <1>3, <1>5, <2>1
  <2> QED BY <1>2, <1>6, <1>7, <1>8, <2>2, <2>3 DEF Runtime!SessionsLead
<1>10. Runtime!RunsOne'
  <2>1. s # Nil /\ "run" \notin Runtime!Suspended
    BY RuntimeAssumption DEF Runtime!Suspended
  <2> QED BY <1>2, <1>3, <1>4, <2>1 DEF Runtime!IInv, Runtime!RunsOne
<1>11. RequestInv'
  <2>1. \A d \in Thread : status'[d] \in {"free", "forked"} => status[d] \in {"free", "forked"}
    BY <1>3 DEF Runtime!Suspended
  <2> QED BY <1>2, <2>1, RequestsSame DEF Runtime!IInv, RequestInv
<1>12. Runtime!ForksQueued' /\ Runtime!QueuesServed'
  <2>1. \A d \in Thread : status[d] = "forked" => status'[d] = "forked"
    BY <1>3, <1>4
  <2>2. \A i \in 1 .. Len(fork_queue) : fork_queue[i] # Trigger => fork_queue[i] \in Thread
    BY ElementOfSeq DEF Runtime!IInv, Runtime!TypeOK
  <2> QED BY <1>2, <2>1, <2>2 DEF Runtime!IInv, Runtime!ForksQueued, Runtime!QueuesServed
<1>13. Runtime!TypeOK'
  <2>1. /\ status' \in [Thread -> Runtime!Suspended \cup {"free", "forked", "run", "quit"}]
        /\ awaits' \in [Thread -> Session \cup {Nil}]
        /\ session_id_coroutine' \in [Session -> Thread \cup {Break, Nil}]
        /\ sleep_session' \in [Thread -> Session \cup {Nil}]
        /\ watching_session' \in [Session -> Peer \cup {Nil}]
    BY <1>1, <1>2
  <2> QED BY <1>2, <2>1 DEF Runtime!IInv, Runtime!TypeOK, Runtime!requests
<1> QED BY <1>9, <1>10, <1>11, <1>12, <1>13 DEF Runtime!IInv, RequestInv

\* The running coroutine calls, sleeps or waits.
LEMMA CallStep ==
  ASSUME Runtime!IInv, NEW c \in Thread, Runtime!Sleep(c) \/ \E p \in Peer : Runtime!Call(c, p)
  PROVE  Runtime!IInv'
<1>1. out \in [Session -> Peer \cup {Timer, Nil}]
  BY DEF Runtime!IInv, Runtime!TypeOK
<1>2. ASSUME NEW p \in Peer, Runtime!Call(c, p) PROVE Runtime!IInv'
  <2>1. PICK s \in Session : /\ Runtime!Unused(s) /\ Runtime!Block(c, s, "call")
                             /\ watching_session' = [watching_session EXCEPT ![s] = p]
                             /\ out' = [out EXCEPT ![s] = p]
    BY <1>2 DEF Runtime!Call, Runtime!NewSession
  <2>2. out' \in [Session -> Peer \cup {Timer, Nil}] /\ "call" \in Runtime!Suspended
    BY <1>1, <2>1 DEF Runtime!Suspended
  <2>3. UNCHANGED sleep_session /\ Runtime!Running(c)
    BY <1>2 DEF Runtime!Call
  <2> QED BY <2>1, <2>2, <2>3, BlockStep
<1>3. CASE Runtime!Sleep(c)
  <2>1. PICK s \in Session, how \in {"sleep", "wait"} :
          /\ Runtime!Unused(s) /\ Runtime!Block(c, s, how)
          /\ sleep_session' = [sleep_session EXCEPT ![c] = s]
          /\ out' \in {out, [out EXCEPT ![s] = Timer]}
    BY <1>3 DEF Runtime!Sleep, Runtime!NewSession
  <2>2. out' \in [Session -> Peer \cup {Timer, Nil}] /\ how \in Runtime!Suspended /\ how # "call"
    BY <1>1, <2>1 DEF Runtime!Suspended
  <2>3. UNCHANGED watching_session /\ Runtime!Running(c)
    BY <1>3 DEF Runtime!Sleep
  <2> QED BY <2>1, <2>2, <2>3, BlockStep
<1> QED BY <1>2, <1>3

\* Requests are answered, and whoever held them holds them no more.
LEMMA RepliedStep ==
  ASSUME Runtime!IInv, NEW R \in SUBSET Incoming, \A r \in R : exited \/ request[r] = "open",
         request' = Runtime!Replied(request, R), UNCHANGED exited,
         \A d \in Thread :
           /\ session_coroutine_id'[d] \in {session_coroutine_id[d], Nil} \ R
           /\ session_coroutine_id[d] \in Incoming \ R => session_coroutine_id'[d] = session_coroutine_id[d]
           /\ status'[d] \in {"free", "forked"} => session_coroutine_id'[d] = Nil,
         unresponse' \subseteq unresponse \ R, unresponse \ R \subseteq unresponse'
  PROVE  RequestInv' /\ request' \in [Incoming -> {"new", "open", "answered", "twice", "forgotten", "dropped"}]
<1>1. /\ request \in [Incoming -> {"new", "open", "answered", "twice", "forgotten", "dropped"}]
      /\ unresponse \subseteq Incoming
  BY DEF Runtime!IInv, Runtime!TypeOK
<1>2. request' = [r \in Incoming |-> IF r \notin R THEN request[r]
                                    ELSE IF request[r] = "open" THEN "answered" ELSE "twice"]
  BY DEF Runtime!Replied
<1>3. /\ \A r \in Incoming : r \notin R => request'[r] = request[r]
      /\ \A r \in R : request'[r] # "open" /\ (request'[r] = "twice" => exited)
      /\ request' \in [Incoming -> {"new", "open", "answered", "twice", "forgotten", "dropped"}]
  BY <1>1, <1>2
<1>4. Nil \notin Incoming
  BY RuntimeAssumption
<1>5. Runtime!RequestsHeld'
  BY <1>1, <1>3, <1>4 DEF Runtime!IInv, Runtime!RequestsHeld
<1>6. Runtime!AnsweredOnce'
  <2> SUFFICES ASSUME NEW r \in Incoming
               PROVE  /\ request'[r] = "twice" => exited
                      /\ request'[r] = "open" =>
                           r \in unresponse' \/ \E d \in Thread : session_coroutine_id'[d] = r
    BY DEF Runtime!AnsweredOnce
  <2>1. /\ request[r] = "twice" => exited
        /\ request[r] = "open" => r \in unresponse \/ \E d \in Thread : session_coroutine_id[d] = r
    BY DEF Runtime!IInv, Runtime!AnsweredOnce
  <2> QED BY <1>3, <2>1
<1>7. Runtime!ExitAnswersAll'
  BY <1>3 DEF Runtime!IInv, Runtime!ExitAnswersAll
<1> QED BY <1>3, <1>5, <1>6, <1>7 DEF RequestInv

\* What the running coroutine does without giving up: it wakes up another, forks
\* one, answers its request, keeps it for later, or answers one that was kept.
LEMMA WakeupStep ==
  ASSUME Runtime!IInv, NEW c \in Thread, NEW d \in Thread, Runtime!Wakeup(c, d)
  PROVE  Runtime!IInv'
<1>1. /\ wakeups' = Append(wakeups, d) /\ owed + Len(wakeups) < MaxWakeups /\ at = "run"
      /\ UNCHANGED <<status, awaits, session_id_coroutine, sleep_session, watching_session,
                     session_coroutine_id, unresponse, request, out, failed, error_queue, fork_queue,
                     at, current, owed, exited, wasted>>
  BY DEF Runtime!Wakeup, Runtime!Running, Runtime!tables, Runtime!requests, Runtime!world
<1>2. Runtime!TypeOK'
  <2>1. wakeups \in Seq(Thread) /\ owed \in Nat
    BY DEF Runtime!IInv, Runtime!TypeOK
  <2>2. wakeups' \in Seq(Thread) /\ Len(wakeups') <= MaxWakeups
    BY <1>1, <2>1, RuntimeAssumption
  <2> QED BY <1>1, <2>2 DEF Runtime!IInv, Runtime!TypeOK
<1>3. Runtime!SessionsLead' /\ RequestInv'
  BY <1>1, SessionsSame, RequestsSame DEF Runtime!IInv, RequestInv, Runtime!tables, Runtime!requests
<1>4. Runtime!RunsOne' /\ Runtime!ForksQueued' /\ Runtime!QueuesServed'
  BY <1>1 DEF Runtime!IInv, Runtime!RunsOne, Runtime!ForksQueued, Runtime!QueuesServed
<1> QED BY <1>2, <1>3, <1>4 DEF Runtime!IInv, RequestInv

LEMMA ForkStep ==
  ASSUME Runtime!IInv, NEW c \in Thread, NEW d \in Thread, Runtime!Fork(c, d)
  PROVE  Runtime!IInv'
<1>1. /\ status[d] = "free" /\ at = "run"
      /\ status' = [status EXCEPT ![d] = "forked"] /\ fork_queue' = Append(fork_queue, d)
      /\ UNCHANGED <<awaits, session_id_coroutine, sleep_session, watching_session,
                     session_coroutine_id, unresponse, request, out, failed, wakeups, error_queue,
                     at, current, owed, exited, wasted>>
  BY DEF Runtime!Fork, Runtime!Running, Runtime!tables, Runtime!requests, Runtime!world
<1>2. /\ status \in [Thread -> Runtime!Suspended \cup {"free", "forked", "run", "quit"}]
      /\ fork_queue \in Seq(Thread \cup {Trigger})
  BY DEF Runtime!IInv, Runtime!TypeOK
<1>3. /\ status'[d] = "forked" /\ \A e \in Thread \ {d} : status'[e] = status[e]
      /\ status' \in [Thread -> Runtime!Suspended \cup {"free", "forked", "run", "quit"}]
  BY <1>1, <1>2
<1>4. /\ fork_queue' \in Seq(Thread \cup {Trigger})
      /\ Len(fork_queue) \in Nat /\ Len(fork_queue') = Len(fork_queue) + 1
      /\ \A i \in 1 .. Len(fork_queue) : fork_queue'[i] = fork_queue[i]
      /\ fork_queue'[Len(fork_queue) + 1] = d
  BY <1>1, <1>2
<1>5. Runtime!TypeOK'
  BY <1>1, <1>3, <1>4 DEF Runtime!IInv, Runtime!TypeOK
<1>6. Runtime!SessionsLead' /\ RequestInv'
  BY <1>1, <1>3, SessionsSame, RequestsSame
     DEF Runtime!IInv, RequestInv, Runtime!tables, Runtime!requests, Runtime!Suspended
<1>7. Runtime!RunsOne' /\ Runtime!QueuesServed'
  BY <1>1, <1>3 DEF Runtime!IInv, Runtime!RunsOne, Runtime!QueuesServed, Runtime!Suspended
<1>8. Runtime!ForksQueued'
  <2>1. \A i \in 1 .. Len(fork_queue) : fork_queue[i] # d
    BY <1>1, RuntimeAssumption DEF Runtime!IInv, Runtime!ForksQueued
  <2>2. \A i \in 1 .. Len(fork_queue') : i \in 1 .. Len(fork_queue) \/ i = Len(fork_queue) + 1
    BY <1>4
  <2>3. \A i \in 1 .. Len(fork_queue) : fork_queue[i] # Trigger => fork_queue[i] \in Thread
    BY <1>2, ElementOfSeq
  <2> QED BY <1>3, <1>4, <2>1, <2>2, <2>3 DEF Runtime!IInv, Runtime!ForksQueued
<1> QED BY <1>5, <1>6, <1>7, <1>8 DEF Runtime!IInv, RequestInv

LEMMA AnswerStep ==
  ASSUME Runtime!IInv, NEW c \in Thread,
         Runtime!Ret(c) \/ Runtime!Response(c) \/ \E r \in Incoming : Runtime!Respond(c, r)
  PROVE  Runtime!IInv'
<1>1. /\ at = "run" /\ current = c
      /\ UNCHANGED <<status, awaits, session_id_coroutine, sleep_session, watching_session,
                     out, failed, wakeups, error_queue, fork_queue, at, current, owed, exited, wasted>>
  BY DEF Runtime!Ret, Runtime!Response, Runtime!Respond, Runtime!Running, Runtime!tables,
         Runtime!requests, Runtime!world
<1>2. /\ session_coroutine_id \in [Thread -> Incoming \cup {0, Nil}] /\ unresponse \subseteq Incoming
      /\ request \in [Incoming -> {"new", "open", "answered", "twice", "forgotten", "dropped"}]
  BY DEF Runtime!IInv, Runtime!TypeOK
<1>3. {0, Nil} \cap Incoming = {}
  BY RuntimeAssumption
<1>4. /\ RequestInv' /\ session_coroutine_id' \in [Thread -> Incoming \cup {0, Nil}]
      /\ unresponse' \subseteq Incoming
      /\ request' \in [Incoming -> {"new", "open", "answered", "twice", "forgotten", "dropped"}]
  <2>1. CASE Runtime!Ret(c)
    <3> DEFINE R == {session_coroutine_id[c]} \ {0}
    <3>1. /\ session_coroutine_id' = [session_coroutine_id EXCEPT ![c] = Nil]
          /\ session_coroutine_id[c] # Nil
          /\ request' = Runtime!Replied(request, R) /\ unresponse' = unresponse
      BY <2>1 DEF Runtime!Ret, Runtime!ClearSession
    <3>2. /\ R \in SUBSET Incoming /\ \A r \in R : exited \/ request[r] = "open"
          /\ \A d \in Thread \ {c} : session_coroutine_id[d] \notin R
          /\ R \cap unresponse = {}
      BY <1>2, <3>1 DEF Runtime!IInv, Runtime!RequestsHeld
    <3>3. \A d \in Thread : status[d] \in {"free", "forked"} => session_coroutine_id[d] = Nil
      BY DEF Runtime!IInv, Runtime!RequestsHeld
    <3>4. \A d \in Thread :
            /\ session_coroutine_id'[d] \in {session_coroutine_id[d], Nil} \ R
            /\ session_coroutine_id[d] \in Incoming \ R => session_coroutine_id'[d] = session_coroutine_id[d]
            /\ status'[d] \in {"free", "forked"} => session_coroutine_id'[d] = Nil
      BY <1>1, <1>2, <1>3, <3>1, <3>2, <3>3
    <3> HIDE DEF R
    <3>5. RequestInv' /\ request' \in [Incoming -> {"new", "open", "answered", "twice", "forgotten", "dropped"}]
      BY <1>1, <3>1, <3>2, <3>4, RepliedStep
    <3> QED BY <1>2, <3>1, <3>5
  <2>2. ASSUME NEW r \in Incoming, Runtime!Respond(c, r)
        PROVE  /\ RequestInv' /\ session_coroutine_id' \in [Thread -> Incoming \cup {0, Nil}]
               /\ unresponse' \subseteq Incoming
               /\ request' \in [Incoming -> {"new", "open", "answered", "twice", "forgotten", "dropped"}]
    <3>1. /\ r \in unresponse /\ unresponse' = unresponse \ {r}
          /\ request' = Runtime!Replied(request, {r}) /\ UNCHANGED session_coroutine_id
      BY <2>2 DEF Runtime!Respond
    <3>2. /\ exited \/ request[r] = "open"
          /\ \A d \in Thread : session_coroutine_id[d] # r
          /\ \A d \in Thread : status[d] \in {"free", "forked"} => session_coroutine_id[d] = Nil
      BY <3>1 DEF Runtime!IInv, Runtime!RequestsHeld
    <3>3. RequestInv' /\ request' \in [Incoming -> {"new", "open", "answered", "twice", "forgotten", "dropped"}]
      BY <1>1, <1>3, <3>1, <3>2, RepliedStep
    <3> QED BY <1>2, <3>1, <3>3
  <2>3. CASE Runtime!Response(c)
    <3>1. /\ session_coroutine_id' = [session_coroutine_id EXCEPT ![c] = Nil]
          /\ session_coroutine_id[c] # Nil
          /\ unresponse' = unresponse \cup ({session_coroutine_id[c]} \ {0}) /\ UNCHANGED request
      BY <2>3 DEF Runtime!Response, Runtime!ClearSession
    <3>2. /\ session_coroutine_id'[c] = Nil
          /\ \A d \in Thread \ {c} : session_coroutine_id'[d] = session_coroutine_id[d]
      BY <1>2, <3>1
    <3>3. Runtime!RequestsHeld'
      BY <1>1, <1>2, <1>3, <3>1, <3>2 DEF Runtime!IInv, Runtime!RequestsHeld
    <3>4. Runtime!AnsweredOnce' /\ Runtime!ExitAnswersAll'
      BY <1>1, <1>3, <3>1, <3>2 DEF Runtime!IInv, Runtime!AnsweredOnce, Runtime!ExitAnswersAll
    <3> QED BY <1>2, <3>1, <3>3, <3>4 DEF RequestInv
  <2> QED BY <2>1, <2>2, <2>3
<1>5. Runtime!TypeOK'
  BY <1>1, <1>4 DEF Runtime!IInv, Runtime!TypeOK
<1>6. Runtime!SessionsLead'
  BY <1>1, SessionsSame DEF Runtime!IInv, Runtime!tables
<1>7. Runtime!RunsOne' /\ Runtime!ForksQueued' /\ Runtime!QueuesServed'
  BY <1>1 DEF Runtime!IInv, Runtime!RunsOne, Runtime!ForksQueued, Runtime!QueuesServed
<1> QED BY <1>4, <1>5, <1>6, <1>7 DEF Runtime!IInv, RequestInv

\* Who runs awaits nothing and is in no queue of forks.
LEMMA RunnerFree ==
  ASSUME Runtime!IInv, NEW c \in Thread, Runtime!Running(c)
  PROVE  /\ status[c] = "run" /\ awaits[c] = Nil /\ at = "run"
         /\ \A d \in Thread \ {c} : status[d] # "run"
         /\ \A i \in 1 .. Len(fork_queue) : fork_queue[i] # c
<1>1. c # Trigger
  BY RuntimeAssumption
<1> QED
  BY <1>1 DEF Runtime!IInv, Runtime!RunsOne, Runtime!ForksQueued, Runtime!Running, Runtime!Suspended

\* The function of a coroutine returns, or raises an error, which leaves a
\* Trigger for the queues that were not served.
LEMMA FinishStep ==
  ASSUME Runtime!IInv, NEW c \in Thread, Runtime!Finish(c) \/ Runtime!Throw(c)
  PROVE  Runtime!IInv'
<1>1. /\ Runtime!Running(c)
      /\ status' = [status EXCEPT ![c] = "free"]
      /\ session_coroutine_id' = [session_coroutine_id EXCEPT ![c] = Nil]
      /\ current' = Nil
      /\ \/ at' = "wake" /\ owed' = owed /\ fork_queue' = fork_queue
         \/ at' = "fork" /\ owed' = 0 /\ fork_queue' = Append(fork_queue, Trigger)
      /\ UNCHANGED <<awaits, session_id_coroutine, sleep_session, watching_session, unresponse,
                     out, failed, wakeups, error_queue, exited, wasted>>
  BY DEF Runtime!Finish, Runtime!Throw, Runtime!ForkTrigger, Runtime!tables, Runtime!world
<1>2. /\ status \in [Thread -> Runtime!Suspended \cup {"free", "forked", "run", "quit"}]
      /\ session_coroutine_id \in [Thread -> Incoming \cup {0, Nil}]
      /\ fork_queue \in Seq(Thread \cup {Trigger})
      /\ request \in [Incoming -> {"new", "open", "answered", "twice", "forgotten", "dropped"}]
      /\ unresponse \subseteq Incoming
  BY DEF Runtime!IInv, Runtime!TypeOK
<1>3. /\ status'[c] = "free" /\ session_coroutine_id'[c] = Nil
      /\ \A d \in Thread \ {c} :
           status'[d] = status[d] /\ session_coroutine_id'[d] = session_coroutine_id[d]
      /\ status' \in [Thread -> Runtime!Suspended \cup {"free", "forked", "run", "quit"}]
      /\ session_coroutine_id' \in [Thread -> Incoming \cup {0, Nil}]
  BY <1>1, <1>2
<1>4. /\ status[c] = "run" /\ awaits[c] = Nil /\ at = "run"
      /\ \A d \in Thread \ {c} : status[d] # "run"
      /\ \A i \in 1 .. Len(fork_queue) : fork_queue[i] # c
  BY <1>1, RunnerFree
<1>5. /\ fork_queue' \in Seq(Thread \cup {Trigger})
      /\ Len(fork_queue) \in Nat
      /\ \A i \in 1 .. Len(fork_queue) : i \in 1 .. Len(fork_queue') /\ fork_queue'[i] = fork_queue[i]
      /\ \A i \in 1 .. Len(fork_queue') : i \in 1 .. Len(fork_queue) \/ fork_queue'[i] = Trigger
      /\ at' = "fork" => \E i \in 1 .. Len(fork_queue') : fork_queue'[i] = Trigger
  <2>1. CASE fork_queue' = fork_queue /\ at' = "wake"
    BY <1>2, <2>1
  <2>2. CASE fork_queue' = Append(fork_queue, Trigger)
    <3>1. /\ fork_queue' \in Seq(Thread \cup {Trigger})
          /\ Len(fork_queue) \in Nat /\ Len(fork_queue') = Len(fork_queue) + 1
          /\ \A i \in 1 .. Len(fork_queue) : fork_queue'[i] = fork_queue[i]
          /\ fork_queue'[Len(fork_queue) + 1] = Trigger
      BY <1>2, <2>2
    <3>2. Len(fork_queue) + 1 \in 1 .. Len(fork_queue')
      BY <3>1
    <3> QED BY <3>1, <3>2
  <2> QED BY <1>1, <2>1, <2>2
<1>6. RequestInv' /\ request' \in [Incoming -> {"new", "open", "answered", "twice", "forgotten", "dropped"}]
  <2>1. \A d \in Thread : status[d] \in {"free", "forked"} => session_coroutine_id[d] = Nil
    BY DEF Runtime!IInv, Runtime!RequestsHeld
  <2>2. {0, Nil} \cap Incoming = {}
    BY RuntimeAssumption
  <2>3. CASE Runtime!Throw(c)
    <3> DEFINE R == {session_coroutine_id[c]} \ {0, Nil}
    <3>1. request' = Runtime!Replied(request, R)
      BY <2>3 DEF Runtime!Throw
    <3>2. /\ R \in SUBSET Incoming /\ \A r \in R : exited \/ request[r] = "open"
          /\ \A d \in Thread \ {c} : session_coroutine_id[d] \notin R
          /\ R \cap unresponse = {}
      BY <1>2, <2>2 DEF Runtime!IInv, Runtime!RequestsHeld
    <3>3. \A d \in Thread :
            /\ session_coroutine_id'[d] \in {session_coroutine_id[d], Nil} \ R
            /\ session_coroutine_id[d] \in Incoming \ R => session_coroutine_id'[d] = session_coroutine_id[d]
            /\ status'[d] \in {"free", "forked"} => session_coroutine_id'[d] = Nil
      BY <1>2, <1>3, <2>1, <2>2, <3>2
    <3> HIDE DEF R
    <3> QED BY <1>1, <3>1, <3>2, <3>3, RepliedStep
  <2>4. CASE Runtime!Finish(c)
    <3> DEFINE r == session_coroutine_id[c]
    <3>1. request' = IF r \in Incoming /\ request[r] = "open"
                     THEN [request EXCEPT ![r] = "forgotten"] ELSE request
      BY <2>4 DEF Runtime!Finish
    <3>2. /\ \A q \in Incoming : q # r => request'[q] = request[q]
          /\ r \in Incoming => request'[r] # "open" /\ (request'[r] = "twice" => request[r] = "twice")
          /\ request' \in [Incoming -> {"new", "open", "answered", "twice", "forgotten", "dropped"}]
      BY <1>2, <3>1
    <3>3. \A d \in Thread \ {c} : session_coroutine_id[d] \in Incoming => session_coroutine_id[d] # r
      BY DEF Runtime!IInv, Runtime!RequestsHeld
    <3>4. r \in Incoming => r \notin unresponse
      BY DEF Runtime!IInv, Runtime!RequestsHeld
    <3> HIDE DEF r
    <3>5. Runtime!RequestsHeld'
      BY <1>1, <1>2, <1>3, <2>1, <2>2, <3>2, <3>3, <3>4 DEF Runtime!IInv, Runtime!RequestsHeld
    <3>6. Runtime!AnsweredOnce' /\ Runtime!ExitAnswersAll'
      <4> SUFFICES ASSUME NEW q \in Incoming
                   PROVE  /\ request'[q] = "twice" => exited
                          /\ request'[q] = "open" =>
                               q \in unresponse \/ \E d \in Thread : session_coroutine_id'[d] = q
                          /\ exited => request'[q] # "open"
        BY <1>1 DEF Runtime!AnsweredOnce, Runtime!ExitAnswersAll
      <4>1. /\ request[q] = "twice" => exited
            /\ request[q] = "open" => q \in unresponse \/ \E d \in Thread : session_coroutine_id[d] = q
            /\ exited => request[q] # "open"
        BY DEF Runtime!IInv, Runtime!AnsweredOnce, Runtime!ExitAnswersAll
      <4>2. CASE q = r
        BY <3>2, <4>1, <4>2
      <4>3. CASE q # r
        BY <1>3, <3>2, <4>1, <4>3 DEF r
      <4> QED BY <4>2, <4>3
    <3> QED BY <3>2, <3>5, <3>6 DEF RequestInv
  <2> QED BY <2>3, <2>4
<1>7. Runtime!TypeOK'
  <2>1. owed' \in Nat
    BY <1>1 DEF Runtime!IInv, Runtime!TypeOK
  <2> QED BY <1>1, <1>3, <1>5, <1>6, <2>1 DEF Runtime!IInv, Runtime!TypeOK
<1>8. Runtime!SessionsLead'
  BY <1>1, <1>3, <1>4, SessionsSame DEF Runtime!IInv, Runtime!tables, Runtime!Suspended
<1>9. Runtime!RunsOne'
  BY <1>1, <1>3, <1>4 DEF Runtime!IInv, Runtime!RunsOne, Runtime!Suspended
<1>10. Runtime!ForksQueued'
  <2>1. \A i \in 1 .. Len(fork_queue) : fork_queue[i] # Trigger => fork_queue[i] \in Thread
    BY <1>2, ElementOfSeq
  <2> QED BY <1>3, <1>4, <1>5, <2>1 DEF Runtime!IInv, Runtime!ForksQueued
<1>11. Runtime!QueuesServed'
  BY <1>1, <1>5 DEF Runtime!QueuesServed
<1> QED BY <1>6, <1>7, <1>8, <1>9, <1>10, <1>11 DEF Runtime!IInv, RequestInv

\* skynet.exit tells everybody whose request is here.
LEMMA ExitStep ==
  ASSUME Runtime!IInv, NEW c \in Thread, Runtime!Exit(c)
  PROVE  Runtime!IInv'
<1>1. /\ Runtime!Running(c) /\ ~exited
      /\ status' = [d \in Thread |-> IF d = c THEN "quit"
                                     ELSE IF status[d] = "forked" THEN "free" ELSE status[d]]
      /\ fork_queue' = << >> /\ request' = Runtime!Replied(request, Runtime!Report)
      /\ unresponse' = {} /\ exited' = TRUE /\ current' = Nil
      /\ \/ at' = "errors" /\ owed > 0 /\ owed' = owed - 1
         \/ at' = "fork" /\ owed' = owed
      /\ UNCHANGED <<awaits, session_id_coroutine, sleep_session, watching_session,
                     session_coroutine_id, out, failed, wakeups, error_queue, wasted>>
  BY DEF Runtime!Exit, Runtime!Return, Runtime!tables, Runtime!world
<1>2. /\ status \in [Thread -> Runtime!Suspended \cup {"free", "forked", "run", "quit"}]
      /\ request \in [Incoming -> {"new", "open", "answered", "twice", "forgotten", "dropped"}]
      /\ owed \in Nat
  BY DEF Runtime!IInv, Runtime!TypeOK
<1>3. /\ status[c] = "run" /\ awaits[c] = Nil /\ at = "run"
      /\ \A d \in Thread \ {c} : status[d] # "run"
  BY <1>1, RunnerFree
<1>4. /\ status'[c] = "quit"
      /\ \A d \in Thread \ {c} : status'[d] = IF status[d] = "forked" THEN "free" ELSE status[d]
      /\ status' \in [Thread -> Runtime!Suspended \cup {"free", "forked", "run", "quit"}]
  BY <1>1, <1>2
<1>5. /\ request' \in [Incoming -> {"new", "open", "answered", "twice", "forgotten", "dropped"}]
      /\ \A r \in Incoming : request'[r] = "open" => r \notin Runtime!Report /\ request[r] = "open"
  BY <1>1, <1>2 DEF Runtime!Replied
<1>6. RequestInv'
  <2>1. \A r \in Incoming : request'[r] # "open"
    <3> SUFFICES ASSUME NEW r \in Incoming, request'[r] = "open" PROVE FALSE
      OBVIOUS
    <3>1. r \notin Runtime!Report /\ request[r] = "open"
      BY <1>5
    <3>2. r \in unresponse \/ \E d \in Thread : session_coroutine_id[d] = r
      BY <3>1 DEF Runtime!IInv, Runtime!AnsweredOnce
    <3> QED BY <3>1, <3>2, RuntimeAssumption DEF Runtime!Report
  <2> QED
    BY <1>1, <1>4, <2>1
       DEF Runtime!IInv, RequestInv, Runtime!RequestsHeld, Runtime!AnsweredOnce, Runtime!ExitAnswersAll
<1>7. Runtime!TypeOK'
  <2>1. owed' \in Nat /\ fork_queue' \in Seq(Thread \cup {Trigger})
    BY <1>1, <1>2
  <2> QED BY <1>1, <1>4, <1>5, <2>1 DEF Runtime!IInv, Runtime!TypeOK
<1>8. Runtime!SessionsLead'
  BY <1>1, <1>3, <1>4, SessionsSame DEF Runtime!IInv, Runtime!tables, Runtime!Suspended
<1>9. Runtime!RunsOne'
  BY <1>1, <1>3, <1>4 DEF Runtime!IInv, Runtime!RunsOne, Runtime!Suspended
<1>10. Runtime!ForksQueued' /\ Runtime!QueuesServed'
  BY <1>1 DEF Runtime!ForksQueued, Runtime!QueuesServed
<1> QED BY <1>6, <1>7, <1>8, <1>9, <1>10 DEF Runtime!IInv, RequestInv

\* When a coroutine that is suspended runs on, the rest is as it was.
LEMMA ResumedRest ==
  ASSUME Runtime!IInv, at # "run", NEW c \in Thread, status[c] \in Runtime!Suspended,
         status'[c] = "run", \A d \in Thread \ {c} : status'[d] = status[d],
         at' = "run", UNCHANGED <<Runtime!requests, exited, fork_queue>>
  PROVE  RequestInv' /\ Runtime!ForksQueued' /\ Runtime!QueuesServed'
<1>1. RequestInv'
  BY RequestsSame DEF Runtime!IInv, RequestInv
<1>2. \A i \in 1 .. Len(fork_queue) : fork_queue[i] # Trigger => fork_queue[i] \in Thread \ {c}
  <2>1. \A i \in 1 .. Len(fork_queue) : fork_queue[i] # Trigger => fork_queue[i] \in Thread
    BY ElementOfSeq DEF Runtime!IInv, Runtime!TypeOK
  <2> QED BY <2>1 DEF Runtime!IInv, Runtime!ForksQueued, Runtime!Suspended
<1>3. Runtime!ForksQueued'
  BY <1>2 DEF Runtime!IInv, Runtime!ForksQueued
<1>4. Runtime!QueuesServed'
  BY DEF Runtime!QueuesServed
<1> QED BY <1>1, <1>3, <1>4

\* dispatch_wakeup
LEMMA DispatchWakeupStep ==
  ASSUME Runtime!IInv, Runtime!DispatchWakeup
  PROVE  Runtime!IInv'
<1>1. /\ at = "wake"
      /\ UNCHANGED <<session_coroutine_id, unresponse, request, out, failed, error_queue, fork_queue, exited>>
  BY DEF Runtime!DispatchWakeup, Runtime!requests, Runtime!world
<1>2. /\ sleep_session \in [Thread -> Session \cup {Nil}]
      /\ wakeups \in Seq(Thread) /\ Len(wakeups) <= MaxWakeups /\ owed \in Nat
      /\ error_queue \in Seq(Session)
  BY DEF Runtime!IInv, Runtime!TypeOK
\* Nobody runs on: the queue is empty, or who is in it does not sleep any more.
<1>3. ASSUME /\ at' = "errors" /\ ((wakeups = << >> /\ wasted' = wasted) \/ wasted' = TRUE)
             /\ wakeups' \in Seq(Thread) /\ Len(wakeups') <= MaxWakeups
             /\ wakeups = << >> => wakeups' = wakeups
             /\ UNCHANGED <<status, awaits, Runtime!tables, current, owed>>
      PROVE  Runtime!IInv'
  <2>1. UNCHANGED <<session_id_coroutine, sleep_session, watching_session>>
    BY <1>3 DEF Runtime!tables
  <2>2. Runtime!TypeOK'
    BY <1>1, <1>3, <2>1 DEF Runtime!IInv, Runtime!TypeOK
  <2>3. Runtime!SessionsLead' /\ RequestInv'
    BY <1>1, <1>3, SessionsSame, RequestsSame DEF Runtime!IInv, RequestInv, Runtime!requests
  <2>4. Runtime!RunsOne' /\ Runtime!ForksQueued' /\ Runtime!QueuesServed'
    BY <1>1, <1>3 DEF Runtime!IInv, Runtime!RunsOne, Runtime!ForksQueued, Runtime!QueuesServed
  <2> QED BY <2>2, <2>3, <2>4 DEF Runtime!IInv, RequestInv
<1>4. CASE wakeups = << >>
  BY <1>2, <1>3, <1>4 DEF Runtime!DispatchWakeup
<1>5. CASE wakeups # << >>
  <2> DEFINE c == Head(wakeups)
  <2>1. /\ c \in Thread /\ wakeups' = Tail(wakeups)
        /\ wakeups' \in Seq(Thread) /\ Len(wakeups') <= MaxWakeups
    <3>1. /\ c \in Thread /\ Tail(wakeups) \in Seq(Thread) /\ Len(Tail(wakeups)) <= Len(wakeups)
          /\ Len(wakeups) \in Nat /\ Len(Tail(wakeups)) \in Nat
      BY <1>2, <1>5, Shifted
    <3>2. wakeups' = Tail(wakeups)
      BY <1>5 DEF Runtime!DispatchWakeup
    <3> QED BY <1>2, <3>1, <3>2, RuntimeAssumption
  <2>2. CASE sleep_session[c] = Nil
    BY <1>3, <1>5, <2>1, <2>2 DEF Runtime!DispatchWakeup
  <2>3. CASE sleep_session[c] # Nil
    <3>1. /\ Runtime!Resume(c, [session_id_coroutine EXCEPT ![sleep_session[c]] = Break])
          /\ owed' = owed + 1 /\ wasted' = wasted
      BY <1>5, <2>3 DEF Runtime!DispatchWakeup, Runtime!OnBreak
    <3> HIDE DEF c
    <3>2. /\ status[c] \in {"sleep", "wait"} /\ sleep_session[c] = awaits[c]
          /\ status[c] \in Runtime!Suspended
      BY <2>1, <2>3 DEF Runtime!IInv, Runtime!SessionsLead, Runtime!Suspended
    <3>3. \A i \in 1 .. Len(error_queue) :
            watching_session[error_queue[i]] # Nil /\ error_queue[i] # awaits[c]
      <4> SUFFICES ASSUME NEW i \in 1 .. Len(error_queue)
                   PROVE  watching_session[error_queue[i]] # Nil /\ error_queue[i] # awaits[c]
        OBVIOUS
      <4>1. error_queue[i] \in Session /\ watching_session[error_queue[i]] # Nil
        BY <1>2, ElementOfSeq DEF Runtime!IInv, Runtime!SessionsLead
      <4>2. PICK d \in Thread : status[d] = "call" /\ awaits[d] = error_queue[i]
        BY <4>1 DEF Runtime!IInv, Runtime!SessionsLead
      <4>3. session_id_coroutine[awaits[d]] = d /\ session_id_coroutine[awaits[c]] = c
        BY <2>1, <3>2, <4>2 DEF Runtime!IInv, Runtime!SessionsLead, Runtime!Suspended
      <4> QED BY <3>2, <4>1, <4>2, <4>3
    <3>4. \A i, j \in 1 .. Len(error_queue) : error_queue[i] = error_queue[j] => i = j
      BY DEF Runtime!IInv, Runtime!SessionsLead
    <3>5. /\ Runtime!SessionsLead' /\ Runtime!RunsOne'
          /\ status' \in [Thread -> Runtime!Suspended \cup {"free", "forked", "run", "quit"}]
          /\ awaits' \in [Thread -> Session \cup {Nil}]
          /\ session_id_coroutine' \in [Session -> Thread \cup {Break, Nil}]
          /\ sleep_session' \in [Thread -> Session \cup {Nil}]
          /\ watching_session' \in [Session -> Peer \cup {Nil}]
          /\ at' = "run" /\ current' = c
          /\ status'[c] = "run" /\ \A d \in Thread \ {c} : status'[d] = status[d]
      BY <1>1, <1>2, <2>1, <3>1, <3>2, <3>3, <3>4, Resumed
    <3>6. RequestInv' /\ Runtime!ForksQueued' /\ Runtime!QueuesServed'
      BY <1>1, <2>1, <3>2, <3>5, ResumedRest DEF Runtime!requests
    <3>7. Runtime!TypeOK'
      BY <1>1, <1>2, <2>1, <3>1, <3>5 DEF Runtime!IInv, Runtime!TypeOK
    <3> QED BY <3>5, <3>6, <3>7 DEF Runtime!IInv, RequestInv
  <2> QED BY <2>2, <2>3
<1> QED BY <1>4, <1>5
\* dispatch_error_queue, when nothing is left to fail.
LEMMA NoErrorStep ==
  ASSUME Runtime!IInv, Runtime!NoError
  PROVE  Runtime!IInv'
<1>1. /\ at = "errors" /\ error_queue = << >>
      /\ \/ at' = "errors" /\ owed > 0 /\ owed' = owed - 1
         \/ at' = "fork" /\ owed' = owed
      /\ UNCHANGED <<status, awaits, session_id_coroutine, sleep_session, watching_session,
                     session_coroutine_id, unresponse, request, out, failed, wakeups, error_queue,
                     fork_queue, current, exited, wasted>>
  BY DEF Runtime!NoError, Runtime!Return, Runtime!tables, Runtime!requests, Runtime!world
<1>2. owed' \in Nat
  BY <1>1 DEF Runtime!IInv, Runtime!TypeOK
<1>3. Runtime!TypeOK'
  BY <1>1, <1>2 DEF Runtime!IInv, Runtime!TypeOK
<1>4. Runtime!SessionsLead' /\ RequestInv'
  BY <1>1, SessionsSame, RequestsSame DEF Runtime!IInv, RequestInv, Runtime!requests, Runtime!tables
<1>5. Runtime!RunsOne' /\ Runtime!ForksQueued' /\ Runtime!QueuesServed'
  BY <1>1 DEF Runtime!IInv, Runtime!RunsOne, Runtime!ForksQueued, Runtime!QueuesServed
<1> QED BY <1>3, <1>4, <1>5 DEF Runtime!IInv, RequestInv

\* ... or the next call fails: its coroutine is there, so that the branch that
\* raises an error is never taken.
LEMMA DispatchErrorStep ==
  ASSUME Runtime!IInv, Runtime!DispatchError
  PROVE  Runtime!IInv'
<1> DEFINE s == Head(error_queue)
<1>1. /\ at = "errors" /\ error_queue # << >> /\ error_queue' = Tail(error_queue)
      /\ UNCHANGED <<session_coroutine_id, unresponse, request, out, failed, wakeups, fork_queue,
                     exited, wasted>>
  BY DEF Runtime!DispatchError, Runtime!requests, Runtime!world
<1>2. /\ s = error_queue[1] /\ s \in Session /\ error_queue' \in Seq(Session)
      /\ 1 \in 1 .. Len(error_queue)
      /\ \A i \in 1 .. Len(error_queue') :
           /\ i \in Int /\ i + 1 \in 1 .. Len(error_queue) /\ i + 1 # 1
           /\ error_queue'[i] = error_queue[i + 1]
  <2>1. error_queue \in Seq(Session)
    BY DEF Runtime!IInv, Runtime!TypeOK
  <2> QED BY <1>1, <2>1, Shifted
<1>3. /\ \A i, j \in 1 .. Len(error_queue) : error_queue[i] = error_queue[j] => i = j
      /\ \A i \in 1 .. Len(error_queue) : watching_session[error_queue[i]] # Nil
  BY DEF Runtime!IInv, Runtime!SessionsLead
<1>4. PICK c \in Thread : status[c] = "call" /\ awaits[c] = s
  BY <1>2, <1>3 DEF Runtime!IInv, Runtime!SessionsLead
<1>5. session_id_coroutine[s] = c /\ status[c] \in Runtime!Suspended
  BY <1>4 DEF Runtime!IInv, Runtime!SessionsLead, Runtime!Suspended
<1>6. Runtime!Resume(c, [session_id_coroutine EXCEPT ![awaits[c]] = Nil]) /\ owed' = owed
  BY <1>1, <1>4, <1>5 DEF Runtime!DispatchError
<1> HIDE DEF s
<1>7. \A i, j \in 1 .. Len(error_queue') : error_queue'[i] = error_queue'[j] => i = j
  <2> SUFFICES ASSUME NEW i \in 1 .. Len(error_queue'), NEW j \in 1 .. Len(error_queue'),
                      error_queue'[i] = error_queue'[j]
               PROVE  i = j
    OBVIOUS
  <2>1. i \in Int /\ j \in Int /\ i + 1 = j + 1
    BY <1>2, <1>3
  <2> QED BY <2>1
<1>8. \A i \in 1 .. Len(error_queue') :
        watching_session[error_queue'[i]] # Nil /\ error_queue'[i] # awaits[c]
  BY <1>2, <1>3, <1>4
<1>9. /\ Runtime!SessionsLead' /\ Runtime!RunsOne'
      /\ status' \in [Thread -> Runtime!Suspended \cup {"free", "forked", "run", "quit"}]
      /\ awaits' \in [Thread -> Session \cup {Nil}]
      /\ session_id_coroutine' \in [Session -> Thread \cup {Break, Nil}]
      /\ sleep_session' \in [Thread -> Session \cup {Nil}]
      /\ watching_session' \in [Session -> Peer \cup {Nil}]
      /\ at' = "run" /\ current' = c
      /\ status'[c] = "run" /\ \A d \in Thread \ {c} : status'[d] = status[d]
  BY <1>1, <1>2, <1>5, <1>6, <1>7, <1>8, Resumed
<1>10. RequestInv' /\ Runtime!ForksQueued' /\ Runtime!QueuesServed'
  BY <1>1, <1>5, <1>9, ResumedRest DEF Runtime!requests
<1>11. Runtime!TypeOK'
  BY <1>1, <1>2, <1>6, <1>9 DEF Runtime!IInv, Runtime!TypeOK
<1> QED BY <1>9, <1>10, <1>11 DEF Runtime!IInv, RequestInv

\* dispatch_message after the message: the next coroutine that was forked.
LEMMA NextForkStep ==
  ASSUME Runtime!IInv, Runtime!NextFork
  PROVE  Runtime!IInv'
<1>1. /\ at = "fork"
      /\ UNCHANGED <<awaits, session_id_coroutine, sleep_session, watching_session,
                     session_coroutine_id, unresponse, request, out, failed, wakeups, error_queue,
                     owed, exited, wasted>>
  BY DEF Runtime!NextFork, Runtime!tables, Runtime!requests, Runtime!world
<1>2. /\ status \in [Thread -> Runtime!Suspended \cup {"free", "forked", "run", "quit"}]
      /\ fork_queue \in Seq(Thread \cup {Trigger})
  BY DEF Runtime!IInv, Runtime!TypeOK
<1>3. \A c \in Thread : status[c] # "run"
  BY <1>1 DEF Runtime!IInv, Runtime!RunsOne
<1>4. CASE fork_queue = << >>
  <2>1. at' = "idle" /\ UNCHANGED <<status, current, fork_queue>>
    BY <1>4 DEF Runtime!NextFork
  <2>2. Runtime!TypeOK'
    BY <1>1, <2>1 DEF Runtime!IInv, Runtime!TypeOK
  <2>3. Runtime!SessionsLead' /\ RequestInv'
    BY <1>1, <2>1, SessionsSame, RequestsSame DEF Runtime!IInv, RequestInv, Runtime!requests, Runtime!tables
  <2>4. Runtime!RunsOne' /\ Runtime!ForksQueued' /\ Runtime!QueuesServed'
    BY <1>1, <1>4, <2>1 DEF Runtime!IInv, Runtime!RunsOne, Runtime!ForksQueued, Runtime!QueuesServed
  <2> QED BY <2>2, <2>3, <2>4 DEF Runtime!IInv, RequestInv
<1>5. CASE fork_queue # << >>
  <2> DEFINE c == Head(fork_queue)
  <2>1. /\ c = fork_queue[1] /\ c \in Thread \cup {Trigger} /\ 1 \in 1 .. Len(fork_queue)
        /\ fork_queue' = Tail(fork_queue) /\ fork_queue' \in Seq(Thread \cup {Trigger})
        /\ \A i \in 1 .. Len(fork_queue') :
             /\ i \in Int /\ i + 1 \in 1 .. Len(fork_queue) /\ i + 1 # 1
             /\ fork_queue'[i] = fork_queue[i + 1]
    <3>1. fork_queue' = Tail(fork_queue)
      BY <1>5 DEF Runtime!NextFork
    <3> QED BY <1>2, <1>5, <3>1, Shifted
  <2>2. \A i, j \in 1 .. Len(fork_queue) : fork_queue[i] # Trigger =>
          status[fork_queue[i]] = "forked" /\ (fork_queue[j] = fork_queue[i] => j = i)
    BY DEF Runtime!IInv, Runtime!ForksQueued
  <2>3. \A i \in 1 .. Len(fork_queue') : fork_queue'[i] # Trigger =>
          /\ fork_queue'[i] \in Thread \ {c} /\ status[fork_queue'[i]] = "forked"
          /\ \A j \in 1 .. Len(fork_queue') : fork_queue'[j] = fork_queue'[i] => j = i
    <3> SUFFICES ASSUME NEW i \in 1 .. Len(fork_queue'), fork_queue'[i] # Trigger
                 PROVE  /\ fork_queue'[i] \in Thread \ {c} /\ status[fork_queue'[i]] = "forked"
                        /\ \A j \in 1 .. Len(fork_queue') : fork_queue'[j] = fork_queue'[i] => j = i
      OBVIOUS
    <3>1. fork_queue'[i] \in Thread
      BY <2>1, ElementOfSeq
    <3>2. fork_queue'[i] # c /\ status[fork_queue'[i]] = "forked"
      BY <2>1, <2>2
    <3>3. ASSUME NEW j \in 1 .. Len(fork_queue'), fork_queue'[j] = fork_queue'[i]
          PROVE  j = i
      <4>1. i \in Int /\ j \in Int /\ j + 1 = i + 1
        BY <2>1, <2>2, <3>3
      <4> QED BY <4>1
    <3> QED BY <3>1, <3>2, <3>3
  <2>4. CASE c = Trigger
    <3>1. at' = "wake" /\ UNCHANGED <<status, current>>
      BY <1>5, <2>4 DEF Runtime!NextFork
    <3>2. Runtime!TypeOK'
      BY <1>1, <2>1, <3>1 DEF Runtime!IInv, Runtime!TypeOK
    <3>3. Runtime!SessionsLead' /\ RequestInv'
      BY <1>1, <3>1, SessionsSame, RequestsSame DEF Runtime!IInv, RequestInv, Runtime!requests, Runtime!tables
    <3>4. Runtime!RunsOne' /\ Runtime!QueuesServed'
      BY <1>1, <3>1 DEF Runtime!IInv, Runtime!RunsOne, Runtime!QueuesServed
    <3>5. Runtime!ForksQueued'
      BY <2>3, <3>1 DEF Runtime!ForksQueued
    <3> QED BY <3>2, <3>3, <3>4, <3>5 DEF Runtime!IInv, RequestInv
  <2>5. CASE c # Trigger
    <3>1. status' = [status EXCEPT ![c] = "run"] /\ current' = c /\ at' = "run"
      BY <1>5, <2>5 DEF Runtime!NextFork
    <3>2. c \in Thread /\ status[c] = "forked"
      BY <2>1, <2>2, <2>5
    <3> HIDE DEF c
    <3>3. /\ status'[c] = "run" /\ \A d \in Thread \ {c} : status'[d] = status[d]
          /\ status' \in [Thread -> Runtime!Suspended \cup {"free", "forked", "run", "quit"}]
      BY <1>2, <3>1, <3>2
    <3>4. Runtime!TypeOK'
      BY <1>1, <2>1, <3>1, <3>2, <3>3 DEF Runtime!IInv, Runtime!TypeOK
    <3>5. Runtime!SessionsLead'
      BY <1>1, <3>2, <3>3, SessionsSame DEF Runtime!IInv, Runtime!tables, Runtime!Suspended
    <3>6. RequestInv'
      BY <1>1, <3>3, RequestsSame DEF Runtime!IInv, RequestInv, Runtime!requests
    <3>7. Runtime!RunsOne' /\ Runtime!QueuesServed'
      BY <1>1, <1>3, <3>1, <3>2, <3>3, RuntimeAssumption
         DEF Runtime!IInv, Runtime!RunsOne, Runtime!QueuesServed, Runtime!Suspended
    <3>8. Runtime!ForksQueued'
      BY <2>3, <3>3 DEF Runtime!ForksQueued
    <3> QED BY <3>4, <3>5, <3>6, <3>7, <3>8 DEF Runtime!IInv, RequestInv
  <2> QED BY <2>4, <2>5
<1> QED BY <1>4, <1>5

\* A message comes when the queues are empty.
LEMMA IdleServed ==
  ASSUME Runtime!IInv, Runtime!Idle
  PROVE  /\ fork_queue = << >> /\ error_queue = << >> /\ (wasted \/ wakeups = << >>)
         /\ \A c \in Thread : status[c] # "run"
<1>1. at = "idle" /\ ~exited /\ fork_queue = << >>
  BY DEF Runtime!IInv, Runtime!QueuesServed, Runtime!Idle
<1>2. ~\E i \in 1 .. Len(fork_queue) : fork_queue[i] = Trigger
  BY <1>1
<1> QED BY <1>1, <1>2 DEF Runtime!IInv, Runtime!QueuesServed, Runtime!RunsOne

\* A request begins a coroutine, which holds it.
LEMMA RequestStep ==
  ASSUME Runtime!IInv, NEW c \in Thread, NEW r \in Incoming \cup {0}, Runtime!Dispatch(c, r)
  PROVE  Runtime!IInv'
<1>1. /\ Runtime!Idle /\ status[c] = "free" /\ (r # 0 => request[r] = "new")
      /\ status' = [status EXCEPT ![c] = "run"]
      /\ session_coroutine_id' = [session_coroutine_id EXCEPT ![c] = r]
      /\ request' = IF r = 0 THEN request ELSE [request EXCEPT ![r] = "open"]
      /\ current' = c /\ at' = "run"
      /\ UNCHANGED <<awaits, session_id_coroutine, sleep_session, watching_session, unresponse,
                     out, failed, wakeups, error_queue, fork_queue, owed, exited, wasted>>
  BY DEF Runtime!Dispatch, Runtime!tables, Runtime!world
<1>2. /\ status \in [Thread -> Runtime!Suspended \cup {"free", "forked", "run", "quit"}]
      /\ session_coroutine_id \in [Thread -> Incoming \cup {0, Nil}]
      /\ request \in [Incoming -> {"new", "open", "answered", "twice", "forgotten", "dropped"}]
  BY DEF Runtime!IInv, Runtime!TypeOK
<1>3. /\ status'[c] = "run" /\ session_coroutine_id'[c] = r
      /\ \A d \in Thread \ {c} :
           status'[d] = status[d] /\ session_coroutine_id'[d] = session_coroutine_id[d]
      /\ status' \in [Thread -> Runtime!Suspended \cup {"free", "forked", "run", "quit"}]
      /\ session_coroutine_id' \in [Thread -> Incoming \cup {0, Nil}]
  BY <1>1, <1>2
<1>4. 0 \notin Incoming /\ Nil \notin Incoming /\ Nil \notin Thread
  BY RuntimeAssumption
<1>5. /\ r \in Incoming => request[r] = "new" /\ request'[r] = "open"
      /\ \A q \in Incoming : q # r => request'[q] = request[q]
      /\ request' \in [Incoming -> {"new", "open", "answered", "twice", "forgotten", "dropped"}]
  BY <1>1, <1>2, <1>4
<1>6. ~exited /\ ~exited' /\ unresponse' = unresponse
  BY <1>1 DEF Runtime!Idle
<1>7. \A q \in Incoming : request[q] = "new" =>
        q \notin unresponse /\ \A d \in Thread : session_coroutine_id[d] # q
  BY <1>6 DEF Runtime!IInv, Runtime!RequestsHeld
<1>8. session_coroutine_id[c] = Nil
  BY <1>1 DEF Runtime!IInv, Runtime!RequestsHeld
<1>9. Runtime!RequestsHeld'
  <2>1. \A d \in Thread : status'[d] \in {"free", "forked"} => session_coroutine_id'[d] = Nil
    BY <1>3 DEF Runtime!IInv, Runtime!RequestsHeld
  <2>2. ASSUME NEW d \in Thread, session_coroutine_id'[d] \in Incoming
        PROVE  /\ session_coroutine_id'[d] \notin unresponse'
               /\ \A e \in Thread : session_coroutine_id'[e] = session_coroutine_id'[d] => e = d
               /\ request'[session_coroutine_id'[d]] = "open"
    <3>1. CASE d = c
      BY <1>3, <1>5, <1>6, <1>7, <2>2, <3>1
    <3>2. CASE d # c
      <4>1. /\ session_coroutine_id'[d] = session_coroutine_id[d]
            /\ request[session_coroutine_id[d]] = "open"
            /\ session_coroutine_id[d] \notin unresponse
            /\ \A e \in Thread : session_coroutine_id[e] = session_coroutine_id[d] => e = d
        BY <1>3, <1>6, <2>2, <3>2 DEF Runtime!IInv, Runtime!RequestsHeld
      <4> QED BY <1>3, <1>5, <1>6, <2>2, <3>2, <4>1
    <3> QED BY <3>1, <3>2
  <2>3. \A q \in unresponse' : request'[q] = "open"
    <3>1. \A q \in unresponse : q \in Incoming /\ request[q] = "open"
      BY <1>6 DEF Runtime!IInv, Runtime!RequestsHeld, Runtime!TypeOK
    <3> QED BY <1>5, <1>6, <3>1
  <2> QED BY <2>1, <2>2, <2>3 DEF Runtime!RequestsHeld
<1>10. Runtime!AnsweredOnce' /\ Runtime!ExitAnswersAll'
  <2> SUFFICES ASSUME NEW q \in Incoming
               PROVE  /\ request'[q] # "twice"
                      /\ request'[q] = "open" =>
                           q \in unresponse \/ \E d \in Thread : session_coroutine_id'[d] = q
    BY <1>6 DEF Runtime!AnsweredOnce, Runtime!ExitAnswersAll
  <2>1. /\ request[q] # "twice"
        /\ request[q] = "open" =>
             q \in unresponse \/ \E d \in Thread : session_coroutine_id[d] = q
    BY <1>6 DEF Runtime!IInv, Runtime!AnsweredOnce
  <2>2. CASE q = r
    BY <1>3, <1>5, <2>2
  <2>3. CASE q # r
    BY <1>3, <1>4, <1>5, <1>8, <2>1, <2>3
  <2> QED BY <2>2, <2>3
<1>11. Runtime!TypeOK'
  BY <1>1, <1>3, <1>5 DEF Runtime!IInv, Runtime!TypeOK
<1>12. Runtime!SessionsLead'
  BY <1>1, <1>3, SessionsSame DEF Runtime!IInv, Runtime!tables, Runtime!Suspended
<1>13. \A d \in Thread : status[d] # "run"
  BY <1>1, IdleServed
<1>14. Runtime!RunsOne'
  BY <1>1, <1>3, <1>4, <1>13 DEF Runtime!IInv, Runtime!RunsOne, Runtime!Suspended
<1>15. Runtime!ForksQueued' /\ Runtime!QueuesServed'
  <2>1. fork_queue' = << >>
    BY <1>1, IdleServed
  <2> QED BY <1>1, <2>1 DEF Runtime!ForksQueued, Runtime!QueuesServed
<1> QED BY <1>9, <1>10, <1>11, <1>12, <1>14, <1>15 DEF Runtime!IInv

\* A request of an unknown type is answered at once.
LEMMA RefuseStep ==
  ASSUME Runtime!IInv, NEW r \in Incoming, Runtime!Refuse(r)
  PROVE  Runtime!IInv'
<1>1. /\ Runtime!Idle /\ at = "idle" /\ ~exited /\ request[r] = "new"
      /\ request' = [request EXCEPT ![r] = "answered"] /\ at' = "fork"
      /\ UNCHANGED <<status, awaits, session_id_coroutine, sleep_session, watching_session,
                     session_coroutine_id, unresponse, out, failed, wakeups, error_queue,
                     fork_queue, current, owed, exited, wasted>>
  BY DEF Runtime!Refuse, Runtime!Idle, Runtime!tables, Runtime!world
<1>2. /\ request' \in [Incoming -> {"new", "open", "answered", "twice", "forgotten", "dropped"}]
      /\ request'[r] = "answered" /\ \A q \in Incoming \ {r} : request'[q] = request[q]
  BY <1>1 DEF Runtime!IInv, Runtime!TypeOK
<1>3. Runtime!RequestsHeld'
  <2>1. r \notin unresponse /\ \A d \in Thread : session_coroutine_id[d] # r
    BY <1>1 DEF Runtime!IInv, Runtime!RequestsHeld
  <2>2. unresponse \subseteq Incoming
    BY DEF Runtime!IInv, Runtime!TypeOK
  <2> QED BY <1>1, <1>2, <2>1, <2>2 DEF Runtime!IInv, Runtime!RequestsHeld
<1>4. Runtime!AnsweredOnce' /\ Runtime!ExitAnswersAll'
  BY <1>1, <1>2 DEF Runtime!IInv, Runtime!AnsweredOnce, Runtime!ExitAnswersAll
<1>5. Runtime!TypeOK'
  BY <1>1, <1>2 DEF Runtime!IInv, Runtime!TypeOK
<1>6. Runtime!SessionsLead'
  BY <1>1, SessionsSame DEF Runtime!IInv, Runtime!tables
<1>7. Runtime!RunsOne' /\ Runtime!ForksQueued' /\ Runtime!QueuesServed'
  BY <1>1 DEF Runtime!IInv, Runtime!RunsOne, Runtime!ForksQueued, Runtime!QueuesServed
<1> QED BY <1>3, <1>4, <1>5, <1>6, <1>7 DEF Runtime!IInv

\* A response, or a timer.
LEMMA ResponseStep ==
  ASSUME Runtime!IInv, NEW s \in Session, Runtime!Answer(s)
  PROVE  Runtime!IInv'
<1> DEFINE c == session_id_coroutine[s]
<1>1. /\ Runtime!Idle /\ at = "idle" /\ ~exited
      /\ out' = [out EXCEPT ![s] = Nil]
      /\ UNCHANGED <<session_coroutine_id, unresponse, request, failed, wakeups, error_queue,
                     fork_queue, owed, exited, wasted>>
  BY DEF Runtime!Answer, Runtime!Idle, Runtime!requests
<1>2. /\ fork_queue = << >> /\ error_queue = << >> /\ Len(error_queue) = 0
      /\ wasted \/ wakeups = << >>
  BY <1>1, IdleServed
<1>3. /\ session_id_coroutine \in [Session -> Thread \cup {Break, Nil}]
      /\ awaits \in [Thread -> Session \cup {Nil}]
      /\ out' \in [Session -> Peer \cup {Timer, Nil}] /\ error_queue' \in Seq(Session)
  BY <1>1 DEF Runtime!IInv, Runtime!TypeOK
<1>4. CASE c \in Thread
  <2>1. status[c] \in Runtime!Suspended /\ awaits[c] = s
    BY <1>4 DEF Runtime!IInv, Runtime!SessionsLead
  <2>2. Runtime!Resume(c, [session_id_coroutine EXCEPT ![awaits[c]] = Nil])
    BY <1>4, <2>1 DEF Runtime!Answer
  <2> HIDE DEF c
  <2>3. /\ \A i, j \in 1 .. Len(error_queue') : error_queue'[i] = error_queue'[j] => i = j
        /\ \A i \in 1 .. Len(error_queue') :
             watching_session[error_queue'[i]] # Nil /\ error_queue'[i] # awaits[c]
    BY <1>1, <1>2
  <2>4. /\ Runtime!SessionsLead' /\ Runtime!RunsOne'
        /\ status' \in [Thread -> Runtime!Suspended \cup {"free", "forked", "run", "quit"}]
        /\ awaits' \in [Thread -> Session \cup {Nil}]
        /\ session_id_coroutine' \in [Session -> Thread \cup {Break, Nil}]
        /\ sleep_session' \in [Thread -> Session \cup {Nil}]
        /\ watching_session' \in [Session -> Peer \cup {Nil}]
        /\ at' = "run" /\ current' = c
        /\ status'[c] = "run" /\ \A d \in Thread \ {c} : status'[d] = status[d]
    BY <1>1, <1>3, <1>4, <2>1, <2>2, <2>3, Resumed
  <2>5. RequestInv' /\ Runtime!ForksQueued' /\ Runtime!QueuesServed'
    BY <1>1, <1>4, <2>1, <2>4, ResumedRest DEF Runtime!requests
  <2>6. Runtime!TypeOK'
    BY <1>1, <1>3, <1>4, <2>4 DEF Runtime!IInv, Runtime!TypeOK
  <2> QED BY <2>4, <2>5, <2>6 DEF Runtime!IInv, RequestInv
<1>5. CASE c \notin Thread
  <2>1. /\ session_id_coroutine' = [session_id_coroutine EXCEPT ![s] = Nil] /\ at' = "fork"
        /\ UNCHANGED <<status, awaits, watching_session, sleep_session, current>>
    BY <1>5 DEF Runtime!Answer
  <2>2. /\ session_id_coroutine'[s] = Nil /\ Nil \notin Thread
        /\ \A t \in Session \ {s} : session_id_coroutine'[t] = session_id_coroutine[t]
        /\ session_id_coroutine' \in [Session -> Thread \cup {Break, Nil}]
    BY <1>3, <2>1, RuntimeAssumption
  <2>3. \A d \in Thread : status[d] \in Runtime!Suspended => awaits[d] \in Session \ {s}
    BY <1>3, <1>5 DEF Runtime!IInv, Runtime!SessionsLead, Runtime!RunsOne
  <2>4. Runtime!SessionsLead'
    BY <1>1, <2>1, <2>2, <2>3 DEF Runtime!IInv, Runtime!SessionsLead
  <2>5. Runtime!TypeOK'
    BY <1>1, <1>3, <2>1, <2>2 DEF Runtime!IInv, Runtime!TypeOK
  <2>6. RequestInv'
    BY <1>1, <2>1, RequestsSame DEF Runtime!IInv, RequestInv, Runtime!requests
  <2>7. Runtime!RunsOne' /\ Runtime!ForksQueued' /\ Runtime!QueuesServed'
    BY <1>1, <1>2, <2>1 DEF Runtime!IInv, Runtime!RunsOne, Runtime!ForksQueued, Runtime!QueuesServed
  <2> QED BY <2>4, <2>5, <2>6, <2>7 DEF Runtime!IInv, RequestInv
<1> QED BY <1>4, <1>5

\* An error instead of an answer.
LEMMA ErrorStep ==
  ASSUME Runtime!IInv, NEW s \in Session, Runtime!ErrorOf(s)
  PROVE  Runtime!IInv'
<1>1. /\ Runtime!Idle /\ at = "idle" /\ at' = "wake"
      /\ out' = [out EXCEPT ![s] = Nil]
      /\ \/ watching_session[s] # Nil /\ error_queue' = Append(error_queue, s)
         \/ error_queue' = error_queue
      /\ UNCHANGED <<status, awaits, session_id_coroutine, sleep_session, watching_session,
                     session_coroutine_id, unresponse, request, failed, wakeups, fork_queue,
                     current, owed, exited, wasted>>
  BY DEF Runtime!ErrorOf, Runtime!Watching, Runtime!Idle, Runtime!tables, Runtime!requests
<1>2. error_queue = << >>
  BY <1>1, IdleServed
<1>3. \/ error_queue' = <<s>> /\ watching_session[s] # Nil
      \/ error_queue' = << >>
  BY <1>1, <1>2
<1>4. /\ error_queue' \in Seq(Session)
      /\ \A i, j \in 1 .. Len(error_queue') : error_queue'[i] = error_queue'[j] => i = j
      /\ \A i \in 1 .. Len(error_queue') : watching_session[error_queue'[i]] # Nil
  <2>1. CASE error_queue' = <<s>> /\ watching_session[s] # Nil
    <3>1. 1 .. Len(<<s>>) = {1} /\ <<s>>[1] = s /\ <<s>> \in Seq(Session)
      OBVIOUS
    <3> QED BY <2>1, <3>1
  <2>2. CASE error_queue' = << >>
    BY <2>2
  <2> QED BY <1>3, <2>1, <2>2
<1>5. Runtime!TypeOK'
  BY <1>1, <1>4 DEF Runtime!IInv, Runtime!TypeOK
<1>6. Runtime!SessionsLead'
  BY <1>1, <1>4 DEF Runtime!IInv, Runtime!SessionsLead
<1>7. RequestInv'
  BY <1>1, RequestsSame DEF Runtime!IInv, RequestInv, Runtime!requests
<1>8. Runtime!RunsOne' /\ Runtime!ForksQueued' /\ Runtime!QueuesServed'
  BY <1>1 DEF Runtime!IInv, Runtime!RunsOne, Runtime!ForksQueued, Runtime!QueuesServed
<1> QED BY <1>5, <1>6, <1>7, <1>8 DEF Runtime!IInv, RequestInv

\* Another service is dead, or said to be: each call to it is queued to fail,
\* once, in whatever order.
LEMMA PeerFailsStep ==
  ASSUME Runtime!IInv, NEW p \in Peer, Runtime!PeerFails(p)
  PROVE  Runtime!IInv'
<1> DEFINE lost == {s \in Session : watching_session[s] = p}
           callers == {r \in unresponse : Source[r] = p}
           n == Cardinality(lost)
<1>1. /\ Runtime!Idle /\ at = "idle" /\ ~exited /\ failed.left > 0 /\ at' = "wake"
      /\ \E dead \in SUBSET {p} :
           failed' = [dead |-> failed.dead \cup dead, left |-> failed.left - 1]
      /\ unresponse' = unresponse \ callers
      /\ request' = [r \in Incoming |-> IF r \in callers THEN "dropped" ELSE request[r]]
      /\ UNCHANGED <<status, awaits, session_id_coroutine, sleep_session, watching_session,
                     session_coroutine_id, out, wakeups, fork_queue, current, owed, exited, wasted>>
  BY DEF Runtime!PeerFails, Runtime!Idle, Runtime!tables
<1>2. error_queue = << >>
  BY <1>1, IdleServed
<1>3. Runtime!Cardinality(lost) = n
  BY DEF Runtime!Cardinality, Cardinality
<1>4. PICK order \in [1 .. n -> lost] :
        (\A s \in lost : \E i \in DOMAIN order : order[i] = s) /\ error_queue' = error_queue \o order
  BY <1>3 DEF Runtime!PeerFails
<1>5. IsFiniteSet(lost) /\ n \in Nat
  BY FS_Subset, FS_CardinalityType, RuntimeAssumption
<1>6. \A i, j \in 1 .. n : order[i] = order[j] => i = j
  <2>1. order \in Surjection(1 .. n, lost)
    BY <1>4 DEF Surjection
  <2>2. IsFiniteSet(1 .. n) /\ Cardinality(1 .. n) = n
    BY <1>5, FS_Interval
  <2>3. order \in Injection(1 .. n, lost)
    BY <2>1, <2>2, FS_Surjection
  <2> QED BY <2>3 DEF Injection, IsInjective
<1>7. /\ order \in Seq(Session) /\ Len(order) = n
  <2>1. order \in [1 .. n -> Session]
    BY <1>4
  <2> HIDE DEF n
  <2>2. order \in Seq(Session)
    BY <1>5, <2>1
  <2> QED BY <1>5, <2>1, <2>2
<1> HIDE DEF n
<1>8. error_queue' = order
  BY <1>2, <1>4, <1>7
<1>9. /\ error_queue' \in Seq(Session)
      /\ \A i, j \in 1 .. Len(error_queue') : error_queue'[i] = error_queue'[j] => i = j
      /\ \A i \in 1 .. Len(error_queue') : watching_session[error_queue'[i]] # Nil
  <2>1. \A i \in 1 .. n : watching_session[order[i]] = p
    BY <1>4
  <2> QED BY <1>6, <1>7, <1>8, <2>1, RuntimeAssumption
<1>10. failed' \in [dead : SUBSET Peer, left : 0 .. MaxErrors]
  <2>1. PICK dead \in SUBSET {p} : failed' = [dead |-> failed.dead \cup dead, left |-> failed.left - 1]
    BY <1>1
  <2>2. failed.dead \in SUBSET Peer /\ failed.left \in 0 .. MaxErrors
    BY DEF Runtime!IInv, Runtime!TypeOK
  <2>3. failed.dead \cup dead \in SUBSET Peer /\ failed.left - 1 \in 0 .. MaxErrors
    BY <1>1, <2>2, RuntimeAssumption
  <2> QED BY <2>1, <2>3
<1>11. /\ request' \in [Incoming -> {"new", "open", "answered", "twice", "forgotten", "dropped"}]
       /\ unresponse \subseteq Incoming
       /\ \A r \in Incoming : request'[r] = IF r \in callers THEN "dropped" ELSE request[r]
  BY <1>1 DEF Runtime!IInv, Runtime!TypeOK
<1>12. Runtime!TypeOK'
  <2>1. unresponse' \subseteq Incoming
    BY <1>1, <1>11
  <2> QED BY <1>1, <1>9, <1>10, <1>11, <2>1 DEF Runtime!IInv, Runtime!TypeOK
<1>13. Runtime!SessionsLead'
  BY <1>1, <1>9 DEF Runtime!IInv, Runtime!SessionsLead
<1>14. Runtime!RequestsHeld'
  <2>1. \A c \in Thread : session_coroutine_id[c] \in Incoming => session_coroutine_id[c] \notin unresponse
    BY DEF Runtime!IInv, Runtime!RequestsHeld
  <2> QED BY <1>1, <1>11, <2>1 DEF Runtime!IInv, Runtime!RequestsHeld
<1>15. Runtime!AnsweredOnce' /\ Runtime!ExitAnswersAll'
  BY <1>1, <1>11 DEF Runtime!IInv, Runtime!AnsweredOnce, Runtime!ExitAnswersAll
<1>16. Runtime!RunsOne' /\ Runtime!ForksQueued' /\ Runtime!QueuesServed'
  BY <1>1 DEF Runtime!IInv, Runtime!RunsOne, Runtime!ForksQueued, Runtime!QueuesServed
<1> QED BY <1>12, <1>13, <1>14, <1>15, <1>16 DEF Runtime!IInv

\* The session of an answer leads to the coroutine that waits for it, no failure
\* and no wakeup is left when the callback returns, a request is answered once
\* and skynet.exit tells all who still wait: for any programs of the coroutines,
\* in whatever order answers, errors and the deaths of services come.
THEOREM RuntimeTheorem == Runtime!Spec => []RuntimeKeeps
<1>1. Runtime!Init => Runtime!IInv
  <2> SUFFICES ASSUME Runtime!Init PROVE Runtime!IInv
    OBVIOUS
  <2>1. /\ status = [c \in Thread |-> "free"] /\ awaits = [c \in Thread |-> Nil]
        /\ session_id_coroutine = [s \in Session |-> Nil]
        /\ session_coroutine_id = [c \in Thread |-> Nil]
        /\ sleep_session = [c \in Thread |-> Nil] /\ watching_session = [s \in Session |-> Nil]
        /\ unresponse = {} /\ wakeups = << >> /\ error_queue = << >> /\ fork_queue = << >>
        /\ at = "idle" /\ current = Nil /\ owed = 0 /\ exited = FALSE
        /\ out = [s \in Session |-> Nil] /\ failed = [dead |-> {}, left |-> MaxErrors]
        /\ request = [r \in Incoming |-> "new"] /\ wasted = FALSE
    BY DEF Runtime!Init
  <2>2. /\ wakeups \in Seq(Thread) /\ Len(wakeups) = 0
        /\ error_queue \in Seq(Session) /\ Len(error_queue) = 0
        /\ fork_queue \in Seq(Thread \cup {Trigger}) /\ Len(fork_queue) = 0
    BY <2>1
  <2>3. failed \in [dead : SUBSET Peer, left : 0 .. MaxErrors]
    BY <2>1, RuntimeAssumption
  <2>4. Nil \notin Thread /\ Nil \notin Incoming
    BY RuntimeAssumption
  <2>5. Runtime!TypeOK
    <3>1. /\ status \in [Thread -> Runtime!Suspended \cup {"free", "forked", "run", "quit"}]
          /\ awaits \in [Thread -> Session \cup {Nil}]
          /\ session_id_coroutine \in [Session -> Thread \cup {Break, Nil}]
          /\ session_coroutine_id \in [Thread -> Incoming \cup {0, Nil}]
      BY <2>1
    <3>2. /\ sleep_session \in [Thread -> Session \cup {Nil}]
          /\ watching_session \in [Session -> Peer \cup {Nil}]
          /\ out \in [Session -> Peer \cup {Timer, Nil}]
          /\ request \in [Incoming -> {"new", "open", "answered", "twice", "forgotten", "dropped"}]
      BY <2>1
    <3>3. Len(wakeups) <= MaxWakeups /\ owed \in Nat
      BY <2>1, <2>2, RuntimeAssumption
    <3> QED BY <2>1, <2>2, <2>3, <3>1, <3>2, <3>3 DEF Runtime!TypeOK
  <2>6. Runtime!RunsOne /\ Runtime!ForksQueued /\ Runtime!QueuesServed
    BY <2>1, <2>2 DEF Runtime!RunsOne, Runtime!ForksQueued, Runtime!QueuesServed, Runtime!Suspended
  <2>7. Runtime!SessionsLead
    BY <2>1, <2>2, <2>4 DEF Runtime!SessionsLead, Runtime!Suspended
  <2>8. Runtime!RequestsHeld /\ Runtime!AnsweredOnce /\ Runtime!ExitAnswersAll
    BY <2>1, <2>4 DEF Runtime!RequestsHeld, Runtime!AnsweredOnce, Runtime!ExitAnswersAll
  <2> QED BY <2>5, <2>6, <2>7, <2>8 DEF Runtime!IInv
<1>2. ASSUME Runtime!IInv, [Runtime!Next]_Runtime!vars PROVE Runtime!IInv'
  <2>1. ASSUME Runtime!Serve PROVE Runtime!IInv'
    BY <1>2, <2>1, DispatchWakeupStep, NoErrorStep, DispatchErrorStep, NextForkStep DEF Runtime!Serve
  <2>2. ASSUME Runtime!Message PROVE Runtime!IInv'
    BY <1>2, <2>2, RequestStep, RefuseStep, ResponseStep, ErrorStep, PeerFailsStep DEF Runtime!Message
  <2>3. ASSUME NEW c \in Thread, Runtime!Step(c) PROVE Runtime!IInv'
    BY <1>2, <2>3, CallStep, WakeupStep, ForkStep, AnswerStep, FinishStep, ExitStep DEF Runtime!Step
  <2>4. CASE UNCHANGED Runtime!vars
    <3>1. UNCHANGED <<status, awaits, session_id_coroutine, sleep_session, watching_session,
                      session_coroutine_id, unresponse, request, out, failed, wakeups, error_queue,
                      fork_queue, at, current, owed, exited, wasted>>
      BY <2>4 DEF Runtime!vars, Runtime!tables, Runtime!requests, Runtime!world
    <3>2. Runtime!TypeOK' /\ Runtime!RunsOne' /\ Runtime!ForksQueued' /\ Runtime!QueuesServed'
      BY <1>2, <3>1
         DEF Runtime!IInv, Runtime!TypeOK, Runtime!RunsOne, Runtime!ForksQueued, Runtime!QueuesServed
    <3>3. Runtime!SessionsLead' /\ RequestInv'
      BY <1>2, <3>1, SessionsSame, RequestsSame DEF Runtime!IInv, RequestInv, Runtime!requests, Runtime!tables
    <3> QED BY <3>2, <3>3 DEF Runtime!IInv, RequestInv
  <2> QED BY <1>2, <2>1, <2>2, <2>3, <2>4 DEF Runtime!Next
<1>3. ASSUME Runtime!IInv PROVE RuntimeKeeps
  <2>1. Runtime!FailuresDelivered /\ Runtime!WakeupsServed
    BY <1>3, IdleServed DEF Runtime!FailuresDelivered, Runtime!WakeupsServed
  <2> QED BY <1>3, <2>1 DEF RuntimeKeeps, Runtime!IInv
<1> QED BY <1>1, <1>2, <1>3, PTL DEF Runtime!Spec

=============================================================================
