--------------------------- MODULE UniqueService ---------------------------
(***************************************************************************)
(* How a service that must exist once comes to be: skynet.uniqueservice    *)
(* asks service_mgr, which has the launcher create it and keeps all others *)
(* who ask waiting (service_mgr.lua, launcher.lua, skynet.init_service).   *)
(* The launcher answers when the new service reports that its init is      *)
(* done, that it failed, or that it is gone.  An init may itself ask for   *)
(* another unique service; services fail, exit and are killed at any time. *)
(* Mailboxes are FIFO (SkynetDispatch: ImplementsMailboxes), and whoever   *)
(* service_mgr wakes up runs before its next message (LuaRuntime).         *)
(***************************************************************************)
EXTENDS Integers, Sequences, FiniteSets

CONSTANTS
  Name,           \* of the unique services
  Needs,          \* which service the init of each asks for, or None
  Client,         \* others who ask
  MaxInstances,   \* bound of the model: services created
  None, Starting, Failed

Instance == 1 .. MaxInstances
Requester == Client \cup Instance

VARIABLES
  service,    \* of service_mgr: no entry, a table, an address or an error message
  launch,     \* whose request is in newservice, of each table
  queue,      \* who waits in each table
  asks,       \* which name each requester waits for
  given,      \* history: what was answered for each name
  mailbox,    \* of the launcher
  instance,   \* whose creator the launcher has yet to answer
  services,   \* the launcher's list
  replies,    \* from the launcher to service_mgr
  proc, of    \* the created services: what they do, and their names

mgr == <<service, launch, queue, asks, given>>
launcher == <<instance, services, replies>>
vars == <<mgr, launcher, mailbox, proc, of>>

\* What the launcher is sent, and how it answers.
Message ==
  [cmd : {"LAUNCH"}, name : Name] \cup [cmd : {"LAUNCHOK", "ERROR"}, inst : Instance]
    \cup [cmd : {"REMOVE"}, inst : Instance, kill : BOOLEAN]
Result == Instance \cup {None, Failed}

Live == {"init", "asking", "ready", "ok"}

TypeOK ==
  /\ service \in [Name -> Instance \cup {None, Starting, Failed}]
  /\ launch \in [Name -> Requester \cup {None}]
  /\ queue \in [Name -> Seq(Requester)]
  /\ asks \in [Requester -> Name \cup {None}]
  /\ given \in [Name -> SUBSET (Instance \cup {Failed})]
  /\ mailbox \in Seq(Message)
  /\ instance \subseteq services /\ services \subseteq Instance
  /\ replies \in Seq([name : Name, result : Result])
  /\ proc \in [Instance -> Live \cup {"free", "gone"}]
  /\ of \in [Instance -> Name \cup {None}]

Init ==
  /\ service = [n \in Name |-> None]
  /\ launch = [n \in Name |-> None]
  /\ queue = [n \in Name |-> <<>>]
  /\ asks = [q \in Requester |-> None]
  /\ given = [n \in Name |-> {}]
  /\ mailbox = <<>> /\ replies = <<>>
  /\ instance = {} /\ services = {}
  /\ proc = [i \in Instance |-> "free"]
  /\ of = [i \in Instance |-> None]

-----------------------------------------------------------------------------

\* A fault: nobody is told of the end of a service.
Notice_none(i, kill) == <<>>

-----------------------------------------------------------------------------
(***************************************************************************)
(* service_mgr                                                             *)
(***************************************************************************)
\* Those in W are answered: an address, or no address, which fails the assert
\* in skynet.uniqueservice and with it the init that asked.
Answer(W, n, x) ==
  /\ given' = [given EXCEPT ![n] = @ \cup {IF x \in Instance THEN x ELSE Failed}]
  /\ asks' = [q \in Requester |-> IF q \in W THEN None ELSE asks[q]]

\* What an init that is answered does next.  One that fails reports so.
Progress(W, x) ==
  [i \in Instance |-> IF i \notin W \/ proc[i] \notin {"init", "asking"} THEN proc[i]
                      ELSE IF x \in Instance THEN "ready" ELSE "gone"]
FailureReports(W, x) ==
  LET failed == {i \in W \cap Instance : proc[i] \in {"init", "asking"} /\ x \notin Instance}
  IN IF failed = {} THEN {<<>>}
     ELSE {s \in [1 .. Cardinality(failed) -> [cmd : {"ERROR"}, inst : failed]] :
             \A i \in failed : \E k \in DOMAIN s : s[k].inst = i}

\* s.launch == nil
NotLaunching(n) == launch[n] = None

\* waitfor, for a LAUNCH or for a QUERY, which has no func
Ask(q, n, func) ==
  IF service[n] \notin {None, Starting}
  THEN /\ Answer({q}, n, service[n])
       /\ proc' = Progress({q}, service[n])
       /\ \E reports \in FailureReports({q}, service[n]) : mailbox' = mailbox \o reports
       /\ UNCHANGED <<service, launch, queue>>
  ELSE /\ service' = [service EXCEPT ![n] = Starting]
       /\ asks' = [asks EXCEPT ![q] = n]
       /\ proc' = [i \in Instance |-> IF i = q THEN "asking" ELSE proc[i]]
       /\ IF func /\ NotLaunching(n)
          THEN /\ launch' = [launch EXCEPT ![n] = q]
               /\ mailbox' = Append(mailbox, [cmd |-> "LAUNCH", name |-> n])
               /\ UNCHANGED queue
          ELSE /\ queue' = [queue EXCEPT ![n] = Append(@, q)]
               /\ UNCHANGED <<launch, mailbox>>
       /\ UNCHANGED given

\* cmd.LAUNCH and cmd.QUERY, asked by a client or by an init
Request(q, n, func) ==
  /\ q \in Client /\ asks[q] = None
  /\ Ask(q, n, func)
  /\ UNCHANGED <<launcher, of>>

InitAsks(i) ==
  /\ proc[i] = "init" /\ Needs[of[i]] # None
  /\ Ask(i, Needs[of[i]], TRUE)
  /\ UNCHANGED <<launcher, of>>

\* Who goes on when newservice returns: the one who called it and all whom
\* request wakes up.
Woken(n) == {launch[n]} \cup {queue[n][k] : k \in DOMAIN queue[n]}

\* request, after pcall(func).  A service that exited in its init gives nil,
\* and the next LAUNCH starts anew.
Launched ==
  /\ replies # <<>>
  /\ replies' = Tail(replies)
  /\ LET n == Head(replies).name  x == Head(replies).result
     IN /\ service' = [service EXCEPT ![n] = x]
        /\ launch' = [launch EXCEPT ![n] = None]
        /\ queue' = [queue EXCEPT ![n] = <<>>]
        /\ Answer(Woken(n), n, x)
        /\ proc' = Progress(Woken(n), x)
        /\ \E reports \in FailureReports(Woken(n), x) : mailbox' = mailbox \o reports
  /\ UNCHANGED <<instance, services, of>>

-----------------------------------------------------------------------------
(***************************************************************************)
(* The launcher                                                            *)
(***************************************************************************)
Reply(n, x) == Append(replies, [name |-> n, result |-> x])

\* instance[i], and instance[i] = nil
Pending(i) == i \in instance
Settled(i) == instance \ {i}

\* launch_service: the C code creates the service, or cannot.
LaunchService(n) ==
  \/ \E i \in Instance :
       /\ proc[i] = "free" /\ \A j \in Instance : proc[j] = "free" => i <= j
       /\ proc' = [proc EXCEPT ![i] = "init"]
       /\ of' = [of EXCEPT ![i] = n]
       /\ services' = services \cup {i}
       /\ instance' = instance \cup {i}
       /\ UNCHANGED replies
  \/ replies' = Reply(n, Failed) /\ UNCHANGED <<proc, of, services, instance>>

\* command.LAUNCHOK, command.ERROR and command.REMOVE
Settle(i, result, listed) ==
  /\ replies' = IF Pending(i) THEN Reply(of[i], result) ELSE replies
  /\ instance' = Settled(i)
  /\ services' = IF listed THEN services ELSE services \ {i}
  /\ UNCHANGED <<proc, of>>

Dispatch ==
  /\ mailbox # <<>>
  /\ mailbox' = Tail(mailbox)
  /\ LET m == Head(mailbox)
     IN \/ m.cmd = "LAUNCH" /\ LaunchService(m.name)
        \/ m.cmd = "LAUNCHOK" /\ Settle(m.inst, m.inst, TRUE)
        \/ m.cmd = "ERROR" /\ Settle(m.inst, Failed, FALSE)
        \/ m.cmd = "REMOVE" /\ Settle(m.inst, IF m.kill THEN Failed ELSE None, FALSE)
  /\ UNCHANGED mgr

-----------------------------------------------------------------------------
(***************************************************************************)
(* The new services: skynet.init_service, skynet.exit, skynet.kill         *)
(***************************************************************************)
Report(i, what, then) ==
  /\ proc' = [proc EXCEPT ![i] = then]
  /\ mailbox' = mailbox \o what
  /\ UNCHANGED <<mgr, launcher, of>>

MayEnd(i) == proc[i] = "ready" \/ (proc[i] = "init" /\ Needs[of[i]] = None)

InitDone(i) == MayEnd(i) /\ Report(i, <<[cmd |-> "LAUNCHOK", inst |-> i]>>, "ok")

InitFails(i) == MayEnd(i) /\ Report(i, <<[cmd |-> "ERROR", inst |-> i]>>, "gone")

\* What the launcher is sent when i exits or is killed.
Notice(i, kill) == <<[cmd |-> "REMOVE", inst |-> i, kill |-> kill]>>

Ends(i, kill) == proc[i] \in Live /\ Report(i, Notice(i, kill), "gone")

Next ==
  \/ \E q \in Client, n \in Name, func \in BOOLEAN : Request(q, n, func)
  \/ Launched
  \/ Dispatch
  \/ \E i \in Instance :
       InitAsks(i) \/ InitDone(i) \/ InitFails(i) \/ \E kill \in BOOLEAN : Ends(i, kill)

(***************************************************************************)
(* Fairness: services handle their messages and inits come to their end.   *)
(***************************************************************************)
Fairness ==
  /\ WF_vars(Launched) /\ WF_vars(Dispatch)
  /\ \A i \in Instance : WF_vars(InitAsks(i)) /\ WF_vars(InitDone(i) \/ InitFails(i))

Spec == Init /\ [][Next]_vars
FairSpec == Spec /\ Fairness

-----------------------------------------------------------------------------
(***************************************************************************)
(* Properties.                                                             *)
(***************************************************************************)
\* A unique service is unique: whoever gets an address for a name gets the
\* same one, and no two services of a name live at a time, whatever fails,
\* exits and is started anew.
Unique ==
  \A n \in Name :
    /\ Cardinality(given[n] \cap Instance) <= 1
    /\ Cardinality({i \in Instance : of[i] = n /\ proc[i] \in Live}) <= 1

\* The launcher answers a LAUNCH once: the table that assert(type(s) ==
\* "table") expects in request is there.
AnsweredOnce ==
  \A k \in DOMAIN replies : LET n == replies[k].name IN
    /\ service[n] = Starting /\ launch[n] # None
    /\ \A l \in DOMAIN replies : replies[l].name = n => l = k

\* The launcher never waits for a service that is gone and has not told it.
NobodyForgotten ==
  \A i \in instance :
    \/ proc[i] \in {"init", "asking", "ready"}
    \/ \E k \in DOMAIN mailbox : mailbox[k].cmd # "LAUNCH" /\ mailbox[k].inst = i

(***************************************************************************)
(* What keeps them so.                                                     *)
(***************************************************************************)
\* A launch is in one place: asked for in the mailbox of the launcher, pending
\* in instance, or answered.  Its table of service_mgr is there all the while.
InMailbox(n) == {k \in DOMAIN mailbox : mailbox[k].cmd = "LAUNCH" /\ mailbox[k].name = n}
InInstance(n) == {i \in instance : of[i] = n}
InReplies(n) == {k \in DOMAIN replies : replies[k].name = n}

LaunchInOnePlace ==
  /\ \A i \in instance : of[i] \in Name
  /\ \A n \in Name :
       /\ \A k, l \in InMailbox(n) : k = l
       /\ \A i, j \in InInstance(n) : i = j
       /\ \A k, l \in InReplies(n) : k = l
       /\ InMailbox(n) # {} => InInstance(n) = {} /\ InReplies(n) = {}
       /\ InInstance(n) # {} => InReplies(n) = {}
       /\ launch[n] = None => InMailbox(n) = {} /\ InInstance(n) = {} /\ InReplies(n) = {}
       /\ launch[n] # None => service[n] = Starting

\* A service that lives is pending, is the one of the answer to its launch, or
\* is the one that service_mgr knows.
LivesKnown ==
  \A i \in Instance : proc[i] \in Live =>
    /\ of[i] \in Name
    /\ \/ i \in instance
       \/ \E k \in InReplies(of[i]) : replies[k].result = i
       \/ service[of[i]] = i

\* What a service reports is so.
ReportsTrue ==
  \A k \in DOMAIN mailbox : LET m == mailbox[k] IN
    /\ m.cmd = "LAUNCHOK" => proc[m.inst] \in {"ok", "gone"}
    /\ m.cmd \in {"ERROR", "REMOVE"} => proc[m.inst] = "gone"

\* No address is given out but the one that service_mgr knows.
GivenKnown == \A n \in Name : given[n] \cap Instance \subseteq {service[n]}

IInv == TypeOK /\ LaunchInOnePlace /\ LivesKnown /\ ReportsTrue /\ GivenKnown /\ NobodyForgotten

\* Whoever waits for a service that is being launched is answered, as long as
\* no service waits for itself through the inits of others.
LaunchEnds ==
  \A n \in Name :
    (\E q \in Requester : asks[q] = n /\ launch[n] # None) ~> (\A q \in Requester : asks[q] # n)
=============================================================================
