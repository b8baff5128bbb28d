--------------------------- MODULE MCConnections ----------------------------
(***************************************************************************)
(* Connections: the sockets of the socket thread, the channel that many    *)
(* coroutines share, the message server that answers a client across its   *)
(* reconnections, and the login and gate of the game.  They share no       *)
(* state; on says which of them moves, and in which scenario, while the    *)
(* others rest as they began.                                              *)
(***************************************************************************)
EXTENDS Integers, Sequences, TLC, FiniteSetTheorems, TLAPS

CONSTANTS
  w1, w2, w3, c1, c2, c3, Dispatch, None,
  Session, expired_number, MaxVersion, MaxAsked, MaxSent, MaxPackage,   \* of MsgServer
  Uid, MaxTry, MaxFd                                                    \* of Login

VARIABLES
  on,
  slot, alloc_id, pipe, worker, server, checkctrl, events, peer, wire, told, sent, tries, asked,
  due, ended, broken,
  sock, closed, connecting, auth, queue, disp, serving, result, socket, pc, call, id, fd, after,
  run, ready, bad, moves,
  u, response, package, working, userConnection, userGate, up, down, client, askedIn, ran,
  refused, sentSince,
  try, user_login, online, internal_id, entering, subid, users, pool_id, objs, fds, gate, owner,
  first, handshake, version, connection, starting, afk, served

sockets == <<slot, alloc_id, pipe, worker, server, checkctrl, events, peer, wire, told, sent,
             tries, asked, due, ended, broken>>
channel == <<sock, closed, connecting, auth, queue, disp, serving, result, socket, pc, call, id,
             fd, after, run, ready, bad, moves>>
msgserver == <<u, response, package, working, userConnection, userGate, up, down, client,
               askedIn, ran, refused, sentSince>>
login == <<try, user_login, online, internal_id, entering, subid, users, pool_id, objs, fds,
           gate, owner, first, handshake, version, connection, starting, afk, served>>

\* Two workers send to one connection, in both priorities, and close it.
Sending == INSTANCE SocketServer WITH
  Worker <- {w1, w2}, MAX_SOCKET <- 1, MaxId <- 1, MaxSend <- 2, MaxClose <- 1,
  Openings <- {"O"}, Lows <- {TRUE, FALSE}, Faults <- FALSE

\* The same with messages of one priority, which keep their order.
Sequel == INSTANCE SocketServer WITH
  Worker <- {w1, w2}, MAX_SOCKET <- 1, MaxId <- 1, MaxSend <- 2, MaxClose <- 1,
  Openings <- {"O"}, Lows <- {FALSE}, Faults <- FALSE

\* A listening socket and what it accepts; writes fail and peers leave.
Listening == INSTANCE SocketServer WITH
  Worker <- {w3}, MAX_SOCKET <- 2, MaxId <- 2, MaxSend <- 1, MaxClose <- 2,
  Openings <- {"L", "B"}, Lows <- {FALSE}, Faults <- TRUE

\* A channel in order mode, with answers that cannot be read ...
Ordered == INSTANCE SocketChannel WITH
  Co <- {c1, c2, c3}, BySession <- FALSE, HasAuth <- FALSE,
  MaxConnection <- 3, MaxRequest <- 7, MaxQueue <- 3, MaxBad <- 2, MaxMoves <- 0

\* ... in session mode ...
Matched == INSTANCE SocketChannel WITH
  Co <- {c1, c2, c3}, BySession <- TRUE, HasAuth <- FALSE,
  MaxConnection <- 3, MaxRequest <- 7, MaxQueue <- 3, MaxBad <- 2, MaxMoves <- 0

\* ... one whose connections begin with an authentication ...
Authenticated == INSTANCE SocketChannel WITH
  Co <- {c1, c2, c3}, BySession <- FALSE, HasAuth <- TRUE,
  MaxConnection <- 3, MaxRequest <- 7, MaxQueue <- 3, MaxBad <- 0, MaxMoves <- 0

\* ... and one that is closed and led to other hosts.
Moved == INSTANCE SocketChannel WITH
  Co <- {c1, c2, c3}, BySession <- FALSE, HasAuth <- FALSE,
  MaxConnection <- 3, MaxRequest <- 7, MaxQueue <- 3, MaxBad <- 0, MaxMoves <- 2

\* A client with two sessions that connects three times.
Responses == INSTANCE MsgServer WITH
  Overlap <- FALSE, connection <- userConnection, gate <- userGate, asked <- askedIn,
  sent <- sentSince

\* Two users, two attempts of each to log in, two connections to the gate.
Gate == INSTANCE Login WITH id <- subid

AllInit ==
  /\ on \in {"sending", "sequel", "listening", "ordered", "matched", "authenticated", "moved",
             "responses", "gate"}
  /\ IF on = "listening" THEN Listening!Init ELSE Sending!Init
  /\ Ordered!Init /\ Responses!Init /\ Gate!Init

Channel ==
  \/ on = "ordered" /\ Ordered!Next
  \/ on = "matched" /\ Matched!Next
  \/ on = "authenticated" /\ Authenticated!Next
  \/ on = "moved" /\ Moved!Next

AllNext ==
  \/ on = "sending" /\ Sending!Next /\ UNCHANGED <<on, channel, msgserver, login>>
  \/ on = "sequel" /\ Sequel!Next /\ UNCHANGED <<on, channel, msgserver, login>>
  \/ on = "listening" /\ Listening!Next /\ UNCHANGED <<on, channel, msgserver, login>>
  \/ Channel /\ UNCHANGED <<on, sockets, msgserver, login>>
  \/ on = "responses" /\ Responses!Next /\ UNCHANGED <<on, sockets, channel, login>>
  \/ on = "gate" /\ Gate!Next /\ UNCHANGED <<on, sockets, channel, msgserver>>

AllSpec == AllInit /\ [][AllNext]_<<on, sockets, channel, msgserver, login>>

\* The numbers are numbers, and no user is called nobody.
ASSUME GateAssumption == MaxTry \in Nat /\ MaxFd \in Nat /\ "none" \notin Uid

\* The configured number is positive, and within the bound of what is counted; None
\* is nothing else.
ASSUME MessageAssumption ==
  /\ expired_number \in Nat \ {0} /\ MaxSent \in Nat /\ expired_number <= MaxSent
  /\ MaxVersion \in Nat /\ MaxAsked \in Nat /\ MaxPackage \in Nat
  /\ None \notin Session \cup (1 .. MaxVersion) \cup (1 .. MaxPackage)

\* Workers and coroutines are interchangeable.
Symmetry == Permutations({w1, w2}) \cup Permutations({c1, c2, c3})

-----------------------------------------------------------------------------
\* socket_server.c: what a worker writes itself and what goes through the pipe
\* keep their order and are not torn, all is sent before a socket closes, the
\* references of the slot are counted exactly, and no assertion fails.
SocketsKeep ==
  /\ IF on = "listening" THEN Listening!TypeOK ELSE Sending!TypeOK
  /\ on = "sequel" => Sequel!InOrder
  /\ on \in {"sending", "sequel"} => Sending!SendingCounts
  /\ on = "sending" => Sending!NotTorn /\ Sending!DrainedBeforeClose
  /\ on = "listening" => Listening!AssertsHold

\* socketchannel.lua: an answer goes to the request it belongs to, although
\* connections end and begin between the two; nobody waits for a connection
\* that is gone or for himself; no connection is left open behind.
ChannelKeeps ==
  /\ IF on = "moved" THEN Moved!TypeOK ELSE Ordered!TypeOK
  /\ on \in {"ordered", "authenticated"} => Ordered!AnswerIsMine
  /\ on \in {"ordered", "matched"} => Ordered!NobodyForgotten
  /\ on = "authenticated" => Authenticated!OtherConnects
  /\ on = "moved" => Moved!AssertsHold /\ Moved!NoLeak

\* snax/msgserver.lua: a response is kept until expired_number others were
\* sent, and who asks again after a lost connection is not refused.
ResponsesKept ==
  Responses!TypeOK /\ (on = "responses" => Responses!NoConflict /\ Responses!CachedLongEnough)

\* logind, gated and the agent: login_handler is not entered twice for a user,
\* and the three agree who is online, under which subid and connection,
\* although each tells the others with calls that may overtake each other.
LoginAgrees == Gate!TypeOK /\ Gate!NeverReentered /\ Gate!SubidsAgree /\ Gate!AgentKnows
-----------------------------------------------------------------------------
(***************************************************************************)
(* Login and gate, for any users, attempts and connections.                *)
(***************************************************************************)

\* An attempt is answered at once, or takes the lock of its user.
LEMMA AttemptStep ==
  ASSUME Gate!Inv, NEW who \in Uid, NEW n \in 1 .. MaxTry, Gate!Attempt(who, n)
  PROVE  Gate!Inv'
<1> DEFINE State == {"none", "calling", "200", "403", "406"}
<1>1. <<who, n>> \in Gate!Try /\ try \in [Gate!Try -> State]
  BY DEF Gate!Try, Gate!Inv, Gate!TypeOK
<1>2. PICK s \in State : try' = [try EXCEPT ![<<who, n>>] = s]
  BY DEF Gate!Attempt
<1>3. /\ try' \in [Gate!Try -> State] /\ try'[<<who, n>>] = s
      /\ \A x \in Uid, m \in 1 .. MaxTry : x # who \/ m # n => try'[<<x, m>>] = try[<<x, m>>]
  <2> HIDE DEF State
  <2>1. \A x \in Uid, m \in 1 .. MaxTry : <<x, m>> \in Gate!Try
    BY DEF Gate!Try
  <2> QED BY <1>1, <1>2, <2>1
<1>4. UNCHANGED <<online, internal_id, subid, pool_id, users, objs, fds, gate, owner, first,
                  handshake, version, connection, starting, afk, served>>
  BY DEF Gate!Attempt, Gate!conns
<1>5. \/ s # "calling" /\ UNCHANGED <<user_login, entering>>
      \/ /\ s = "calling" /\ who \notin user_login /\ online[who] = 0
         /\ user_login' = user_login \cup {who}
         /\ entering' = [entering EXCEPT ![who] = "call"]
  BY <1>1, <1>2, <1>3 DEF Gate!Attempt
<1>6. Gate!TypeOK'
  BY <1>3, <1>4, <1>5 DEF Gate!Inv, Gate!TypeOK
<1>7. Gate!LockHeld'
  <2> HIDE DEF State
  <2>1. CASE s # "calling" /\ UNCHANGED <<user_login, entering>>
    BY <1>3, <1>4, <2>1 DEF Gate!Inv, Gate!LockHeld
  <2>2. CASE s = "calling" /\ who \notin user_login /\ online[who] = 0
    BY <1>3, <1>4, <1>5, <2>2 DEF Gate!Inv, Gate!LockHeld, Gate!TypeOK
  <2> QED BY <1>5, <2>1, <2>2
<1>8. Gate!OneNumber' /\ Gate!FdsKnown' /\ Gate!AgentKnows'
  BY <1>4 DEF Gate!Inv, Gate!OneNumber, Gate!FdsKnown, Gate!AgentKnows
<1> QED BY <1>6, <1>7, <1>8 DEF Gate!Inv

\* The gate gives the attempt a number nobody has.
LEMMA HandleStep ==
  ASSUME Gate!Inv, NEW who \in Uid, Gate!Handle(who)
  PROVE  Gate!Inv'
<1> USE DEF Gate!Handle, Gate!conns
<1>1. Gate!TypeOK'
  BY DEF Gate!Inv, Gate!TypeOK
<1>2. Gate!LockHeld' /\ Gate!OneNumber'
  BY DEF Gate!Inv, Gate!TypeOK, Gate!LockHeld, Gate!OneNumber
<1>3. Gate!FdsKnown' /\ Gate!AgentKnows'
  BY DEF Gate!Inv, Gate!FdsKnown, Gate!AgentKnows
<1> QED BY <1>1, <1>2, <1>3 DEF Gate!Inv

\* What the object of a user keeps when one of its fields is assigned.
LEMMA ObjectFacts ==
  ASSUME NEW o \in Gate!Object, NEW i \in Nat
  PROVE  /\ [o EXCEPT !.subid = i] \in Gate!Object
         /\ [o EXCEPT !.subid = i].subid = i
         /\ o.authed => [o EXCEPT !.subid = i].authed
         /\ [o EXCEPT !.authed = TRUE] \in Gate!Object
         /\ [o EXCEPT !.authed = TRUE].subid = o.subid
         /\ [o EXCEPT !.authed = TRUE].authed
  BY DEF Gate!Object

\* discoveryd gives the user an agent, which notes the number; or nobody answers.
LEMMA EnterStep ==
  ASSUME Gate!Inv, NEW who \in Uid, Gate!Enter(who)
  PROVE  Gate!Inv'
<1> USE DEF Gate!Enter, Gate!conns
<1>1. objs \in [Uid -> Gate!Object] /\ subid[who] \in Nat
  BY DEF Gate!Inv, Gate!TypeOK
<1>2. PICK o \in Gate!Object :
        /\ objs' = [objs EXCEPT ![who] = o]
        /\ o.subid = (IF entering'[who] = "login" THEN subid[who] ELSE objs[who].subid)
        /\ objs[who].authed => o.authed
  <2>1. CASE pool_id <= Gate!PoolSize
    <3>1. objs' = [objs EXCEPT ![who] = [objs[who] EXCEPT !.subid = subid[who]]]
      BY <2>1
    <3>2. entering'[who] = "login"
      BY <2>1 DEF Gate!Inv, Gate!TypeOK
    <3>3. objs[who] \in Gate!Object
      BY <1>1
    <3> DEFINE o == [objs[who] EXCEPT !.subid = subid[who]]
    <3>4. o \in Gate!Object /\ o.subid = subid[who] /\ (objs[who].authed => o.authed)
      BY <1>1, <3>3, ObjectFacts
    <3>5. objs' = [objs EXCEPT ![who] = o]
      BY <3>1
    <3> HIDE DEF o
    <3>6. o.subid = (IF entering'[who] = "login" THEN subid[who] ELSE objs[who].subid)
      BY <3>2, <3>4
    <3> QED BY <3>4, <3>5, <3>6
  <2>2. CASE ~ (pool_id <= Gate!PoolSize)
    <3>1. objs' = [objs EXCEPT ![who] = objs[who]]
      BY <1>1, <2>2
    <3>2. entering'[who] = "never"
      BY <2>2 DEF Gate!Inv, Gate!TypeOK
    <3> QED BY <1>1, <3>1, <3>2
  <2> QED BY <2>1, <2>2
<1>3. /\ objs' \in [Uid -> Gate!Object] /\ objs'[who] = o
      /\ \A x \in Uid \ {who} : objs'[x] = objs[x]
  BY <1>1, <1>2
<1>4. \E e \in {"login", "never"} : entering' = [entering EXCEPT ![who] = e]
  OBVIOUS
<1>5. Gate!TypeOK'
  BY <1>3, <1>4 DEF Gate!Inv, Gate!TypeOK
<1>6. Gate!LockHeld' /\ Gate!OneNumber'
  BY <1>2, <1>3, <1>4 DEF Gate!Inv, Gate!TypeOK, Gate!LockHeld, Gate!OneNumber
<1>7. Gate!FdsKnown' /\ Gate!AgentKnows'
  BY <1>2, <1>3 DEF Gate!Inv, Gate!TypeOK, Gate!FdsKnown, Gate!AgentKnows
<1> QED BY <1>5, <1>6, <1>7 DEF Gate!Inv

\* The attempt that holds the lock is answered: the user is known under the number
\* that the agent has.
LEMMA EnteredStep ==
  ASSUME Gate!Inv, NEW who \in Uid, NEW n \in 1 .. MaxTry, Gate!Entered(who, n)
  PROVE  Gate!Inv'
<1> DEFINE State == {"none", "calling", "200", "403", "406"}
           user == [Gate!Absent EXCEPT !.subid = subid[who]]
<1>1. <<who, n>> \in Gate!Try /\ try \in [Gate!Try -> State]
  BY DEF Gate!Try, Gate!Inv, Gate!TypeOK
<1>2. /\ user \in Gate!User /\ user.subid = subid[who] /\ ~ user.online
      /\ subid[who] # 0 /\ subid[who] \in Nat
  <2>1. subid[who] \in Nat /\ subid[who] # 0
    BY DEF Gate!Inv, Gate!TypeOK, Gate!LockHeld, Gate!Entered, Gate!Enters
  <2>2. Gate!Absent \in Gate!User /\ Gate!Absent.online = FALSE
    BY GateAssumption DEF Gate!User, Gate!Absent
  <2>3. ASSUME NEW a \in Gate!User, NEW i \in Nat
        PROVE  /\ [a EXCEPT !.subid = i] \in Gate!User
               /\ [a EXCEPT !.subid = i].subid = i
               /\ [a EXCEPT !.subid = i].online = a.online
    BY DEF Gate!User
  <2> QED BY <2>1, <2>2, <2>3
<1>3. /\ entering[who] = "login" /\ try[<<who, n>>] = "calling"
      /\ entering' = [entering EXCEPT ![who] = "no"]
      /\ users' = [users EXCEPT ![who] = user]
      /\ online' = [online EXCEPT ![who] = subid[who]]
      /\ user_login' = user_login \ {who}
      /\ try' = [try EXCEPT ![<<who, n>>] = "200"]
      /\ UNCHANGED <<internal_id, subid, pool_id, objs, fds, gate, owner, first, handshake,
                     version, connection, starting, afk, served>>
  BY <1>2 DEF Gate!Entered, Gate!Enters, Gate!conns
<1> HIDE DEF user
<1>4. /\ try' \in [Gate!Try -> State] /\ try'[<<who, n>>] = "200"
      /\ \A x \in Uid, m \in 1 .. MaxTry : x # who \/ m # n => try'[<<x, m>>] = try[<<x, m>>]
  <2>1. \A x \in Uid, m \in 1 .. MaxTry : <<x, m>> \in Gate!Try
    BY DEF Gate!Try
  <2> QED BY <1>1, <1>3, <2>1
<1>5. /\ users' \in [Uid -> Gate!User] /\ users'[who] = user
      /\ \A x \in Uid \ {who} : users'[x] = users[x]
  BY <1>2, <1>3 DEF Gate!Inv, Gate!TypeOK
<1>6. Gate!TypeOK'
  BY <1>2, <1>3, <1>4, <1>5 DEF Gate!Inv, Gate!TypeOK
<1>7. Gate!LockHeld'
  <2>1. \A m \in 1 .. MaxTry : try'[<<who, m>>] # "calling"
    BY <1>3, <1>4 DEF Gate!Inv, Gate!LockHeld
  <2>2. \A x \in Uid \ {who}, m \in 1 .. MaxTry : try'[<<x, m>>] = try[<<x, m>>]
    BY <1>4
  <2> HIDE DEF State
  <2>3. \A x \in Uid \ {who} : entering'[x] = entering[x] /\ online'[x] = online[x]
    BY <1>3 DEF Gate!Inv, Gate!TypeOK
  <2>4. entering'[who] = "no"
    BY <1>3 DEF Gate!Inv, Gate!TypeOK
  <2> QED BY <1>3, <2>1, <2>2, <2>3, <2>4 DEF Gate!Inv, Gate!LockHeld
<1>8. Gate!OneNumber'
  BY <1>2, <1>3, <1>5 DEF Gate!Inv, Gate!TypeOK, Gate!LockHeld, Gate!OneNumber
<1>9. Gate!FdsKnown' /\ Gate!AgentKnows'
  BY <1>2, <1>3, <1>5 DEF Gate!Inv, Gate!TypeOK, Gate!FdsKnown, Gate!AgentKnows
<1> QED BY <1>6, <1>7, <1>8, <1>9 DEF Gate!Inv

LEMMA ConnectStep ==
  ASSUME Gate!Inv, NEW who \in Uid, NEW f \in Gate!Fd, Gate!Connect(who, f)
  PROVE  Gate!Inv'
<1> USE DEF Gate!Connect, Gate!login
<1>1. Gate!TypeOK'
  BY DEF Gate!Inv, Gate!TypeOK
<1>2. Gate!LockHeld' /\ Gate!OneNumber' /\ Gate!AgentKnows'
  BY DEF Gate!Inv, Gate!LockHeld, Gate!OneNumber, Gate!AgentKnows
<1>3. Gate!FdsKnown'
  BY DEF Gate!Inv, Gate!TypeOK, Gate!FdsKnown
<1> QED BY <1>1, <1>2, <1>3 DEF Gate!Inv

\* The first package of a connection: refused, or the start of a session.
LEMMA AuthStep ==
  ASSUME Gate!Inv, NEW f \in Gate!Fd, Gate!Auth(f)
  PROVE  Gate!Inv'
<1>1. owner[f] \in Uid /\ gate[f] = "open" /\ version \in [Uid -> 0 .. MaxFd] /\ f \in 0 .. MaxFd
  BY GateAssumption DEF Gate!Inv, Gate!FdsKnown, Gate!TypeOK, Gate!Auth, Gate!Fd
<1>2. UNCHANGED <<try, user_login, online, internal_id, entering, subid, pool_id, users, objs,
                  fds, owner, afk, served>>
  BY DEF Gate!Auth, Gate!login
<1>3. /\ first' = first \cup {f}
      /\ handshake' \subseteq handshake /\ connection' \subseteq connection \cup {f}
      /\ starting' \subseteq starting \cup {f}
      /\ gate' = gate \/ gate' = [gate EXCEPT ![f] = "false"]
      /\ version' = version \/ version' = [version EXCEPT ![owner[f]] = f]
  BY DEF Gate!Auth
<1>4. version' \in [Uid -> 0 .. MaxFd]
  BY <1>1, <1>3
<1>5. Gate!TypeOK'
  BY <1>2, <1>3, <1>4 DEF Gate!Inv, Gate!TypeOK
<1>6. Gate!LockHeld' /\ Gate!OneNumber' /\ Gate!AgentKnows'
  BY <1>2 DEF Gate!Inv, Gate!LockHeld, Gate!OneNumber, Gate!AgentKnows
<1>7. Gate!FdsKnown'
  BY <1>1, <1>2, <1>3 DEF Gate!Inv, Gate!TypeOK, Gate!FdsKnown
<1> QED BY <1>5, <1>6, <1>7 DEF Gate!Inv

\* The agent is told of the connection before the gate notes it.
LEMMA AgentAuthStep ==
  ASSUME Gate!Inv, NEW f \in Gate!Fd, Gate!AgentAuth(f)
  PROVE  Gate!Inv'
<1> USE DEF Gate!AgentAuth, Gate!login, Gate!conns
<1>1. /\ owner[f] \in Uid /\ gate[f] # "none" /\ objs \in [Uid -> Gate!Object]
      /\ owner[f] # "none"
  BY GateAssumption DEF Gate!Inv, Gate!FdsKnown, Gate!TypeOK
<1>2. PICK o \in Gate!Object :
        /\ objs' = [objs EXCEPT ![owner[f]] = o]
        /\ o.subid = objs[owner[f]].subid /\ o.authed
  <2>1. objs[owner[f]] \in Gate!Object
    BY <1>1
  <2> DEFINE o == [objs[owner[f]] EXCEPT !.authed = TRUE]
  <2>2. o \in Gate!Object /\ o.subid = objs[owner[f]].subid /\ o.authed
    BY <2>1, ObjectFacts
  <2>3. objs' = [objs EXCEPT ![owner[f]] = o]
    OBVIOUS
  <2> HIDE DEF o
  <2> QED BY <2>2, <2>3
<1>3. /\ objs' \in [Uid -> Gate!Object] /\ objs'[owner[f]] = o
      /\ \A x \in Uid \ {owner[f]} : objs'[x] = objs[x]
  BY <1>1, <1>2
<1>4. fds' = [fds EXCEPT ![f] = owner[f]] /\ fds' \in [Gate!Fd -> Uid \cup {"none"}]
  BY <1>1 DEF Gate!Inv, Gate!TypeOK
<1>5. Gate!TypeOK'
  BY <1>3, <1>4 DEF Gate!Inv, Gate!TypeOK
<1>6. Gate!LockHeld' /\ Gate!OneNumber'
  BY <1>2, <1>3 DEF Gate!Inv, Gate!TypeOK, Gate!LockHeld, Gate!OneNumber
<1>7. \A x \in Uid : objs[x].authed => objs'[x].authed
  BY <1>2, <1>3
<1>8. Gate!FdsKnown'
  BY <1>1, <1>2, <1>3, <1>4, <1>7 DEF Gate!Inv, Gate!TypeOK, Gate!FdsKnown
<1>9. Gate!AgentKnows'
  BY <1>1, <1>2, <1>3, <1>4, <1>7 DEF Gate!Inv, Gate!TypeOK, Gate!AgentKnows
<1> QED BY <1>5, <1>6, <1>8, <1>9 DEF Gate!Inv

\* Then the gate notes the connection as that of the user.
LEMMA StartedStep ==
  ASSUME Gate!Inv, NEW f \in Gate!Fd, Gate!Started(f)
  PROVE  Gate!Inv'
<1> DEFINE user == [users[owner[f]] EXCEPT !.online = TRUE, !.fd = f]
<1>1. /\ owner[f] \in Uid /\ users \in [Uid -> Gate!User] /\ users[owner[f]].subid # 0
      /\ fds[f] # "none" /\ f \in 0 .. MaxFd /\ f # 0
  BY GateAssumption DEF Gate!Inv, Gate!FdsKnown, Gate!TypeOK, Gate!Started, Gate!Fd
<1>2. /\ user \in Gate!User /\ user.subid = users[owner[f]].subid
      /\ user.online /\ user.fd = f
  BY <1>1 DEF Gate!User
<1>3. /\ users' = [users EXCEPT ![owner[f]] = user]
      /\ starting' = starting \ {f} /\ handshake' = handshake \ {f}
      /\ UNCHANGED <<try, user_login, online, internal_id, entering, subid, pool_id, objs, fds,
                     gate, owner, first, version, connection, afk, served>>
  BY DEF Gate!Started, Gate!login
<1> HIDE DEF user
<1>4. /\ users' \in [Uid -> Gate!User] /\ users'[owner[f]] = user
      /\ \A x \in Uid \ {owner[f]} : users'[x] = users[x]
  BY <1>1, <1>2, <1>3
<1>5. Gate!TypeOK'
  BY <1>1, <1>2, <1>3, <1>4 DEF Gate!Inv, Gate!TypeOK
<1>6. Gate!LockHeld' /\ Gate!AgentKnows'
  BY <1>3 DEF Gate!Inv, Gate!LockHeld, Gate!AgentKnows
<1>7. Gate!OneNumber' /\ Gate!FdsKnown'
  BY <1>1, <1>2, <1>3, <1>4 DEF Gate!Inv, Gate!TypeOK, Gate!OneNumber, Gate!FdsKnown
<1> QED BY <1>5, <1>6, <1>7 DEF Gate!Inv

\* A request is handed over as coming from the connection that the gate has noted.
LEMMA RequestStep ==
  ASSUME Gate!Inv, NEW f \in Gate!Fd, Gate!Request(f)
  PROVE  Gate!Inv'
<1>1. /\ gate' = gate \/ (gate[f] = "open" /\ gate' = [gate EXCEPT ![f] = "false"])
      /\ handshake' \subseteq handshake
      /\ UNCHANGED <<try, user_login, online, internal_id, entering, subid, pool_id, users, objs,
                     fds, owner, first, version, connection, starting, afk>>
  BY DEF Gate!Request, Gate!login
<1>2. owner[f] \in Uid
  BY DEF Gate!Inv, Gate!FdsKnown, Gate!Request
<1>3. \/ served' = served
      \/ served' = served \cup {<<f, users[owner[f]].fd>>} /\ users[owner[f]].online
  BY DEF Gate!Request
<1>4. ASSUME users[owner[f]].online
      PROVE  /\ users[owner[f]].fd \in Gate!Fd /\ fds[users[owner[f]].fd] # "none"
             /\ objs[fds[users[owner[f]].fd]].authed
  <2>1. users[owner[f]] \in Gate!User /\ users[owner[f]].fd # 0
    BY <1>2, <1>4 DEF Gate!Inv, Gate!TypeOK
  <2>2. users[owner[f]].fd \in Gate!Fd
    BY <2>1, GateAssumption DEF Gate!User, Gate!Fd
  <2> QED BY <1>2, <1>4, <2>2 DEF Gate!Inv, Gate!FdsKnown
<1>5. Gate!TypeOK'
  BY <1>1 DEF Gate!Inv, Gate!TypeOK
<1>6. Gate!LockHeld' /\ Gate!OneNumber'
  BY <1>1 DEF Gate!Inv, Gate!LockHeld, Gate!OneNumber
<1>7. Gate!FdsKnown'
  BY <1>1, <1>3, <1>4 DEF Gate!Inv, Gate!TypeOK, Gate!FdsKnown
<1>8. Gate!AgentKnows'
  BY <1>1, <1>3, <1>4 DEF Gate!Inv, Gate!AgentKnows
<1> QED BY <1>5, <1>6, <1>7, <1>8 DEF Gate!Inv

LEMMA DisconnectStep ==
  ASSUME Gate!Inv, NEW f \in Gate!Fd, Gate!Disconnect(f)
  PROVE  Gate!Inv'
<1>1. /\ gate[f] # "none" /\ gate' = [gate EXCEPT ![f] = "closed"]
      /\ handshake' = handshake \ {f} /\ connection' = connection \ {f}
      /\ UNCHANGED <<try, user_login, online, internal_id, entering, subid, pool_id, users, objs,
                     fds, owner, first, version, starting, served>>
      /\ \/ afk' = afk
         \/ afk' = afk \cup {f} /\ users[owner[f]].online /\ users[owner[f]].fd = f
  BY DEF Gate!Disconnect, Gate!login
<1>2. Gate!TypeOK'
  BY <1>1 DEF Gate!Inv, Gate!TypeOK
<1>3. Gate!LockHeld' /\ Gate!OneNumber'
  BY <1>1 DEF Gate!Inv, Gate!LockHeld, Gate!OneNumber
<1>4. Gate!FdsKnown'
  BY <1>1 DEF Gate!Inv, Gate!TypeOK, Gate!FdsKnown
<1>5. Gate!AgentKnows'
  BY <1>1 DEF Gate!Inv, Gate!FdsKnown, Gate!AgentKnows
<1> QED BY <1>2, <1>3, <1>4, <1>5 DEF Gate!Inv

LEMMA LoginStep == Gate!Inv /\ [Gate!Next]_Gate!vars => Gate!Inv'
<1> SUFFICES ASSUME Gate!Inv, [Gate!Next]_Gate!vars PROVE Gate!Inv'
  OBVIOUS
<1>1. CASE UNCHANGED Gate!vars
  BY <1>1 DEF Gate!vars, Gate!login, Gate!conns, Gate!Inv, Gate!TypeOK, Gate!LockHeld,
              Gate!OneNumber, Gate!FdsKnown, Gate!AgentKnows
<1>2. CASE Gate!Next
  BY <1>2, AttemptStep, HandleStep, EnterStep, EnteredStep, ConnectStep, AuthStep, AgentAuthStep,
     StartedStep, RequestStep, DisconnectStep DEF Gate!Next, Gate!LoginStep
<1> QED BY <1>1, <1>2

\* The gate counts as this module does.
LEMMA GateCount == \A S : Gate!Cardinality(S) = Cardinality(S)
  BY DEF Gate!Cardinality, Cardinality

\* One attempt of a user at a time has the lock.
LEMMA OneAttempt ==
  ASSUME Gate!Inv, NEW who \in Uid
  PROVE  Gate!Cardinality({n \in 1 .. MaxTry : try[<<who, n>>] = "calling"}) <= 1
<1> DEFINE S == {n \in 1 .. MaxTry : try[<<who, n>>] = "calling"}
<1>1. \A n \in S : S = {n}
  BY DEF Gate!Inv, Gate!LockHeld
<1> HIDE DEF S
<1>2. S = {} \/ \E n \in S : S = {n}
  BY <1>1
<1>3. Cardinality({}) = 0 /\ \A n : Cardinality({n}) = 1
  BY FS_EmptySet, FS_Singleton
<1>4. Cardinality(S) = 0 \/ Cardinality(S) = 1
  BY <1>2, <1>3
<1>5. Gate!Cardinality(S) <= 1
  BY <1>4, GateCount
<1> QED BY <1>5 DEF S

\* However the attempts of users and their connections interleave, login_handler is
\* entered once at a time for each, the three services agree on who is online, and
\* the agent knows each connection the gate speaks of.
THEOREM LoginTheorem == Gate!Spec => []LoginAgrees
<1>1. Gate!Init => Gate!Inv
  <2> SUFFICES ASSUME Gate!Init PROVE Gate!Inv
    OBVIOUS
  <2>1. Gate!TypeOK
    BY GateAssumption DEF Gate!Init, Gate!TypeOK, Gate!Absent, Gate!User, Gate!Object
  <2>2. Gate!LockHeld
    BY DEF Gate!Init, Gate!LockHeld, Gate!Try
  <2>3. Gate!OneNumber /\ Gate!FdsKnown /\ Gate!AgentKnows
    BY DEF Gate!Init, Gate!OneNumber, Gate!FdsKnown, Gate!AgentKnows, Gate!Absent
  <2> QED BY <2>1, <2>2, <2>3 DEF Gate!Inv
<1>2. Gate!Inv => LoginAgrees
  <2> SUFFICES ASSUME Gate!Inv PROVE Gate!NeverReentered /\ Gate!SubidsAgree
    BY DEF LoginAgrees, Gate!Inv
  <2>1. Gate!NeverReentered
    BY OneAttempt DEF Gate!Inv, Gate!NeverReentered, Gate!LockHeld, Gate!OneNumber
  <2>2. Gate!SubidsAgree
    BY DEF Gate!Inv, Gate!SubidsAgree, Gate!OneNumber
  <2> QED BY <2>1, <2>2
<1> QED BY <1>1, <1>2, LoginStep, PTL DEF Gate!Spec

-----------------------------------------------------------------------------
(***************************************************************************)
(* Requests over reconnections, for any sessions and connections.          *)
(***************************************************************************)

LEMMA PushFacts ==
  ASSUME NEW M, NEW q \in Seq(M), NEW m \in M
  PROVE  /\ Append(q, m) \in Seq(M) /\ Len(q) \in Nat /\ Len(Append(q, m)) = Len(q) + 1
         /\ \A i \in 1 .. Len(q) : Append(q, m)[i] = q[i]
         /\ Append(q, m)[Len(q) + 1] = m
  OBVIOUS

LEMMA PopFacts ==
  ASSUME NEW M, NEW q \in Seq(M), q # <<>>
  PROVE  /\ Tail(q) \in Seq(M) /\ Len(q) \in Nat /\ Len(q) > 0 /\ Len(Tail(q)) = Len(q) - 1
         /\ Head(q) = q[1] /\ Head(q) \in M
         /\ \A i \in 1 .. Len(q) - 1 : Tail(q)[i] = q[i + 1]
  OBVIOUS

\* Which sessions a queue of messages speaks of, when one joins or leaves it.
LEMMA SaysPush ==
  ASSUME NEW M, NEW q \in Seq(M), NEW m \in M, NEW s
  PROVE  /\ Responses!Says(Append(q, m), s) <=> Responses!Says(q, s) \/ m.session = s
         /\ Responses!SaysOnce(q, s) /\ (m.session = s => ~ Responses!Says(q, s))
              => Responses!SaysOnce(Append(q, m), s)
<1> DEFINE r == Append(q, m)
<1>1. /\ Len(q) \in Nat /\ Len(r) = Len(q) + 1
      /\ \A i \in 1 .. Len(q) : r[i] = q[i]
      /\ r[Len(q) + 1] = m
  BY PushFacts
<1> HIDE DEF r
<1>2. \A i \in 1 .. Len(r) : i \in 1 .. Len(q) \/ i = Len(q) + 1
  BY <1>1
<1>3. \A i \in 1 .. Len(q) : i \in 1 .. Len(r)
  BY <1>1
<1>4. Len(q) + 1 \in 1 .. Len(r)
  BY <1>1
<1>5. Responses!Says(r, s) <=> Responses!Says(q, s) \/ m.session = s
  BY <1>1, <1>2, <1>3, <1>4 DEF Responses!Says
<1>6. Responses!SaysOnce(q, s) /\ (m.session = s => ~ Responses!Says(q, s)) => Responses!SaysOnce(r, s)
  BY <1>1, <1>2, <1>3, <1>4 DEF Responses!Says, Responses!SaysOnce
<1> QED BY <1>5, <1>6 DEF r

LEMMA SaysPop ==
  ASSUME NEW M, NEW q \in Seq(M), q # <<>>, NEW s
  PROVE  /\ Responses!Says(Tail(q), s) => Responses!Says(q, s)
         /\ Responses!SaysOnce(q, s) => Responses!SaysOnce(Tail(q), s)
         /\ Head(q).session = s => Responses!Says(q, s)
         /\ Responses!SaysOnce(q, s) /\ Head(q).session = s => ~ Responses!Says(Tail(q), s)
<1> DEFINE r == Tail(q)
<1>1. /\ Len(q) \in Nat /\ Len(q) > 0 /\ Len(r) = Len(q) - 1
      /\ Head(q) = q[1]
      /\ \A i \in 1 .. Len(q) - 1 : r[i] = q[i + 1]
  BY PopFacts
<1> HIDE DEF r
<1>2. \A i \in 1 .. Len(r) : i + 1 \in 1 .. Len(q) /\ r[i] = q[i + 1] /\ i + 1 # 1
  BY <1>1
<1>3. 1 \in 1 .. Len(q)
  BY <1>1
<1>4. Responses!Says(r, s) => Responses!Says(q, s)
  BY <1>2 DEF Responses!Says
<1>5. Responses!SaysOnce(q, s) => Responses!SaysOnce(r, s)
  <2> SUFFICES ASSUME Responses!SaysOnce(q, s), NEW i \in 1 .. Len(r), NEW j \in 1 .. Len(r),
                      r[i].session = s, r[j].session = s
               PROVE  i = j
    BY DEF Responses!SaysOnce
  <2>1. i + 1 = j + 1
    BY <1>2 DEF Responses!SaysOnce
  <2> QED BY <2>1
<1>6. Head(q).session = s => Responses!Says(q, s)
  BY <1>1, <1>3 DEF Responses!Says
<1>7. Responses!SaysOnce(q, s) /\ Head(q).session = s => ~ Responses!Says(r, s)
  BY <1>1, <1>2, <1>3 DEF Responses!Says, Responses!SaysOnce
<1> QED BY <1>4, <1>5, <1>6, <1>7 DEF r

LEMMA SaysNothing ==
  ASSUME NEW s \in Session
  PROVE  /\ ~ Responses!Says(<<>>, s) /\ Responses!SaysOnce(<<>>, s)
         /\ ~ Responses!Says(<<Responses!Auth>>, s) /\ Responses!SaysOnce(<<Responses!Auth>>, s)
<1>1. 1 .. Len(<<>>) = {} /\ 1 .. Len(<<Responses!Auth>>) = {1}
  OBVIOUS
<1>2. <<Responses!Auth>>[1].session = None
  BY DEF Responses!Auth
<1>3. s # None
  BY MessageAssumption
<1> QED BY <1>1, <1>2, <1>3 DEF Responses!Says, Responses!SaysOnce

\* What a struct keeps when its index is set.
LEMMA StructFacts ==
  ASSUME NEW c \in Responses!Struct, NEW i \in 0 .. 2 * expired_number
  PROVE  /\ [c EXCEPT !.index = i] \in Responses!Struct
         /\ [c EXCEPT !.index = i].index = i
         /\ [c EXCEPT !.index = i].fd = c.fd
         /\ [c EXCEPT !.index = i].made = c.made
         /\ [c EXCEPT !.index = i].number = c.number
         /\ [c EXCEPT !.index = i].session = c.session
         /\ [c EXCEPT !.index = i].version = c.version
  BY DEF Responses!Struct

LEMMA GreatestFact ==
  ASSUME NEW S, S \subseteq Int, NEW m \in S, \A x \in S : x <= m
  PROVE  Responses!Max(S) = m
<1>1. m \in S /\ \A y \in S : m >= y
  OBVIOUS
<1>2. Responses!Max(S) \in S /\ \A y \in S : Responses!Max(S) >= y
  BY <1>1, Zenon DEF Responses!Max
<1>3. \A x \in S : (\A y \in S : x >= y) => x = m
  OBVIOUS
<1> QED BY <1>2, <1>3, Zenon

\* The same struct but for its index.
Same(c, d) ==
  /\ c.fd = d.fd /\ c.number = d.number /\ c.session = d.session /\ c.version = d.version
  /\ c.made = d.made

\* As old as responses were sent since, and nothing is older than the index.
Aged(c, t) == c.index < u.index /\ (sentSince[t] < expired_number => u.index <= c.index + 1 + sentSince[t])

\* A response is sent, its struct c is complete, and the old ones are retired: only
\* complete ones to which expired_number others were sent since.
LEMMA RetireStep ==
  ASSUME Responses!TypeOK, Responses!StructsHeld,
         NEW s \in Session, NEW c \in Responses!Struct, response[s] # None,
         c.fd = None, c.index = u.index,
         Responses!Retire([package EXCEPT ![response[s]] = c], u.index + 1),
         sentSince' = [t \in Session |-> IF t = s THEN 0 ELSE IF sentSince[t] < MaxSent
                                                              THEN sentSince[t] + 1 ELSE sentSince[t]]
  PROVE  /\ \E i \in Nat : u' = [u EXCEPT !.index = i] /\ i < 2 * expired_number
         /\ response' \in [Session -> Responses!Package \cup {None}]
         /\ \A t \in Session :
              \/ response'[t] = response[t]
              \/ /\ response'[t] = None /\ response[t] \notin working
                 /\ t # s /\ sentSince'[t] >= expired_number
         /\ package' \in [Responses!Package -> Responses!Struct]
         /\ \A p \in Responses!Package :
              Same(package'[p], IF p = response[s] THEN c ELSE package[p])
         /\ \A t \in Session :
              response'[t] # None /\ (t = s \/ response[t] \notin working)
                => Aged(package[response[t]], t)'
<1> DEFINE p0 == response[s]
           new == [package EXCEPT ![p0] = c]
           E == expired_number
<1>1. /\ response \in [Session -> Responses!Package \cup {None}]
      /\ package \in [Responses!Package -> Responses!Struct]
      /\ u.index \in Nat /\ u.index < 2 * E /\ E \in Nat /\ E > 0 /\ E <= MaxSent /\ MaxSent \in Nat
      /\ sentSince \in [Session -> 0 .. MaxSent]
      /\ u \in [version : 0 .. MaxVersion, index : 0 .. 2 * E, fd : Responses!Fd \cup {None}]
  BY SMTT(30), MessageAssumption DEF Responses!TypeOK, Responses!StructsHeld
<1>2. /\ p0 \in Responses!Package /\ p0 # None
      /\ new \in [Responses!Package -> Responses!Struct] /\ new[p0] = c
      /\ \A p \in Responses!Package \ {p0} : new[p] = package[p]
  BY <1>1
<1>3. \A t \in Session : response[t] # None /\ t # s => response[t] # p0
  BY DEF Responses!StructsHeld
<1>4. \A t \in Session : t # s /\ sentSince'[t] < E => sentSince[t] < E /\ sentSince'[t] = sentSince[t] + 1
  BY <1>1
<1>5. sentSince'[s] = 0
  BY <1>1
<1>6. /\ Responses!Complete(new, response[s])
      /\ \A t \in Session : response[t] # None /\ response[t] \notin working
                              => Responses!Complete(new, response[t])
  BY <1>1, <1>2, <1>3 DEF Responses!Complete, Responses!StructsHeld
<1>7. \A t \in Session : t # s /\ Responses!Complete(new, response[t])
        => /\ response[t] \in Responses!Package /\ response[t] \notin working
           /\ new[response[t]] = package[response[t]]
           /\ package[response[t]].index < u.index
           /\ sentSince[t] < E => u.index <= package[response[t]].index + 1 + sentSince[t]
  BY <1>1, <1>2, <1>3 DEF Responses!Complete, Responses!StructsHeld
<1>8. \A p \in Responses!Package : new[p].index \in Nat /\ new[p].index \in 0 .. 2 * E
  BY <1>2 DEF Responses!Struct
<1>9. \A p \in Responses!Package : Same(new[p], IF p = response[s] THEN c ELSE package[p])
  BY <1>2 DEF Same
<1>10. Responses!Retire(new, u.index + 1)
  OBVIOUS
<1> HIDE DEF p0, new
<1>11. CASE u.index + 1 < 2 * E
  <2>1. /\ response' = response /\ package' = new
        /\ u' = [u EXCEPT !.index = u.index + 1]
    BY <1>1, <1>10, <1>11 DEF Responses!Retire
  <2>2. u'.index = u.index + 1
    BY <1>1, <2>1
  <2>3. ASSUME NEW t \in Session, response[t] # None, t = s \/ response[t] \notin working
        PROVE  /\ new[response[t]].index < u.index + 1
               /\ sentSince'[t] < E => u.index + 1 <= new[response[t]].index + 1 + sentSince'[t]
    <3>1. CASE t = s
      BY <1>1, <1>2, <1>5, <3>1 DEF p0
    <3>2. CASE t # s
      <4>1. response[t] \in Responses!Package
        BY <1>1, <2>3
      <4>2. sentSince[t] \in Nat /\ new[response[t]].index \in Nat
        BY <1>1, <1>8, <4>1
      <4> QED BY <1>1, <1>4, <1>6, <1>7, <2>3, <3>2, <4>2
    <3> QED BY <3>1, <3>2
  <2>4. \A t \in Session : response'[t] # None /\ (t = s \/ response[t] \notin working)
          => Aged(package[response[t]], t)'
    BY <2>1, <2>2, <2>3 DEF Aged
  <2>5. \E i \in Nat : u' = [u EXCEPT !.index = i] /\ i < 2 * E
    BY <1>1, <1>11, <2>1
  <2> QED BY <1>1, <1>2, <1>9, <2>1, <2>4, <2>5
<1>12. CASE ~ (u.index + 1 < 2 * E)
  <2> DEFINE old == {t \in Session : Responses!Complete(new, response[t])
                                     /\ Responses!Expired(new[response[t]].index)}
             kept == {t \in Session \ old : Responses!Complete(new, response[t])}
             moved == [p \in Responses!Package |->
                         IF \E t \in kept : response[t] = p
                         THEN [new[p] EXCEPT !.index = new[p].index - E] ELSE new[p]]
             ages == {0} \cup {moved[response[t]].index : t \in kept}
  <2>1. u.index = 2 * E - 1
    BY <1>1, <1>12
  <2>2. /\ response' = [t \in Session |-> IF t \in old THEN None ELSE response[t]]
        /\ package' = moved
        /\ u' = [u EXCEPT !.index = Responses!Max(ages) + 1]
    <3>1. ~ (u.index + 1 < expired_number * 2)
      BY <1>1, <1>12
    <3> QED BY <1>10, <3>1, Zenon DEF Responses!Retire
  <2>3. s \in kept
    BY <1>1, <1>2, <1>6, <2>1 DEF Responses!Expired, p0
  <2>4. ASSUME NEW t \in kept
        PROVE  /\ response[t] \in Responses!Package
               /\ new[response[t]].index \in Nat /\ new[response[t]].index >= E
               /\ new[response[t]].index <= 2 * E - 1
               /\ t # s => new[response[t]].index < 2 * E - 1
    <3>1. t \in Session /\ Responses!Complete(new, response[t])
          /\ ~ Responses!Expired(new[response[t]].index)
      OBVIOUS
    <3>2. response[t] \in Responses!Package
      BY <1>1, <3>1 DEF Responses!Complete
    <3>3. new[response[t]].index \in Nat
      BY <1>8, <3>2
    <3>4. new[response[t]].index >= E
      BY <1>1, <3>1, <3>3 DEF Responses!Expired
    <3>5. CASE t = s
      BY <1>1, <1>2, <2>1, <3>2, <3>3, <3>4, <3>5 DEF p0
    <3>6. CASE t # s
      BY <1>1, <1>7, <2>1, <3>1, <3>2, <3>3, <3>4, <3>6
    <3> QED BY <3>5, <3>6
  <2>5. ASSUME NEW p \in Responses!Package
        PROVE  moved[p] \in Responses!Struct /\ Same(moved[p], new[p])
    <3>1. CASE \E t \in kept : response[t] = p
      <4>1. new[p] \in Responses!Struct /\ new[p].index - E \in 0 .. 2 * E
        BY <1>1, <1>2, <2>4, <3>1
      <4>2. moved[p] = [new[p] EXCEPT !.index = new[p].index - E]
        BY <3>1
      <4> QED BY <4>1, <4>2, StructFacts DEF Same
    <3>2. CASE ~ \E t \in kept : response[t] = p
      BY <1>2, <3>2 DEF Same
    <3> QED BY <3>1, <3>2
  <2>6. ASSUME NEW t \in kept
        PROVE  moved[response[t]].index = new[response[t]].index - E
    <3>1. new[response[t]] \in Responses!Struct /\ new[response[t]].index - E \in 0 .. 2 * E
      BY <1>1, <1>2, <2>4
    <3>2. moved[response[t]] = [new[response[t]] EXCEPT !.index = new[response[t]].index - E]
      BY <2>4
    <3> HIDE DEF moved
    <3> QED BY <3>1, <3>2, StructFacts
  <2>7. new[response[s]].index = 2 * E - 1
    BY <1>2, <2>1 DEF p0
  <2> HIDE DEF moved
  <2>8. Responses!Max(ages) = E - 1
    <3>1. \A x \in ages : x \in Int /\ x <= E - 1
      BY <1>1, <2>4, <2>6
    <3>2. E - 1 \in ages
      BY <1>1, <2>3, <2>6, <2>7
    <3> HIDE DEF ages
    <3> QED BY <3>1, <3>2, GreatestFact
  <2>9. u' = [u EXCEPT !.index = E] /\ u'.index = E
    BY <1>1, <2>2, <2>8
  <2>10. ASSUME NEW t \in old
         PROVE  t # s /\ response[t] \notin working /\ sentSince'[t] >= E
    <3>1. /\ t \in Session /\ Responses!Complete(new, response[t])
          /\ Responses!Expired(new[response[t]].index)
      OBVIOUS
    <3>2. t # s
      BY <2>3
    <3>3. /\ new[response[t]] = package[response[t]] /\ response[t] \notin working
          /\ response[t] \in Responses!Package
          /\ sentSince[t] < E => u.index <= package[response[t]].index + 1 + sentSince[t]
      BY <1>7, <3>1, <3>2
    <3>4. new[response[t]].index \in Nat /\ sentSince[t] \in Nat /\ sentSince'[t] \in Nat
      BY <1>1, <1>8, <3>1, <3>3
    <3> QED BY <1>1, <1>4, <2>1, <3>1, <3>2, <3>3, <3>4 DEF Responses!Expired
  <2>11. ASSUME NEW t \in Session, t \notin old, response[t] # None,
                t = s \/ response[t] \notin working
         PROVE  /\ moved[response[t]].index < E
                /\ sentSince'[t] < E => E <= moved[response[t]].index + 1 + sentSince'[t]
    <3>1. t \in kept
      BY <1>6, <2>11
    <3>2. CASE t = s
      BY <1>1, <1>5, <2>6, <2>7, <3>1, <3>2
    <3>3. CASE t # s
      <4>1. sentSince[t] \in Nat
        BY <1>1
      <4>2. /\ new[response[t]] = package[response[t]]
            /\ sentSince[t] < E => u.index <= new[response[t]].index + 1 + sentSince[t]
        BY <1>7, <3>1, <3>3
      <4> QED BY <1>1, <1>4, <2>1, <2>4, <2>6, <3>1, <3>3, <4>1, <4>2
    <3> QED BY <3>2, <3>3
  <2>12. \A t \in Session : response'[t] = IF t \in old THEN None ELSE response[t]
    BY <2>2
  <2> HIDE DEF old, kept, ages
  <2>13. \A t \in Session :
           \/ response'[t] = response[t]
           \/ /\ response'[t] = None /\ response[t] \notin working
              /\ t # s /\ sentSince'[t] >= E
    BY <2>10, <2>12
  <2>14. \A t \in Session : response'[t] # None /\ (t = s \/ response[t] \notin working)
           => Aged(package[response[t]], t)'
    BY <2>2, <2>9, <2>11, <2>12 DEF Aged
  <2>15. response' \in [Session -> Responses!Package \cup {None}]
    BY <1>1, <2>2
  <2>16. package' \in [Responses!Package -> Responses!Struct]
    <3>1. package' = [p \in Responses!Package |-> package'[p]]
      BY <2>2 DEF moved
    <3> QED BY <2>2, <2>5, <3>1
  <2>17. \A p \in Responses!Package : Same(package'[p], IF p = response[s] THEN c ELSE package[p])
    BY <1>9, <2>2, <2>5 DEF Same
  <2>18. \E i \in Nat : u' = [u EXCEPT !.index = i] /\ i < 2 * E
    BY <1>1, <2>9
  <2> QED BY <2>13, <2>14, <2>15, <2>16, <2>17, <2>18
<1> QED BY <1>11, <1>12

\* What is on its way to the server, when nothing was added to it.
UpShrinks ==
  /\ up' \in [Responses!Fd -> Seq(Responses!Message)]
  /\ \A e \in Responses!Fd : up[e] = <<>> => up'[e] = <<>>
  /\ \A e \in Responses!Fd, t \in Session :
       (Responses!Says(up'[e], t) => Responses!Says(up[e], t)) /\ Responses!SaysOnce(up'[e], t)
  /\ \A e \in Responses!Fd : \A i \in 1 .. Len(up'[e]) :
       up'[e][i] = Responses!Auth => i = 1 /\ userGate[e] \in {"none", "handshake"}

LEMMA UpKept == Responses!Inv /\ up' = up => UpShrinks
  BY DEF UpShrinks, Responses!Inv, Responses!TypeOK, Responses!InTurn, Responses!OnItsWay

LEMMA UpTaken ==
  ASSUME Responses!Inv, NEW f \in Responses!Fd, up[f] # <<>>,
         up' = [up EXCEPT ![f] = Tail(up[f])]
  PROVE  /\ UpShrinks
         /\ \A i \in 1 .. Len(up'[f]) : up'[f][i] # Responses!Auth
         /\ \A t \in Session : Head(up[f]).session = t
                                 => Responses!Says(up[f], t) /\ ~ Responses!Says(up'[f], t)
<1>1. up \in [Responses!Fd -> Seq(Responses!Message)] /\ up[f] \in Seq(Responses!Message)
  BY DEF Responses!Inv, Responses!TypeOK
<1>2. up'[f] = Tail(up[f]) /\ \A e \in Responses!Fd \ {f} : up'[e] = up[e]
  BY <1>1
<1>3. up' \in [Responses!Fd -> Seq(Responses!Message)]
  BY <1>1, PopFacts
<1>4. \A e \in Responses!Fd : up[e] = <<>> => up'[e] = <<>>
  BY <1>2
<1>5. ASSUME NEW e \in Responses!Fd, NEW t \in Session
      PROVE  (Responses!Says(up'[e], t) => Responses!Says(up[e], t)) /\ Responses!SaysOnce(up'[e], t)
  <2>1. Responses!SaysOnce(up[e], t)
    BY DEF Responses!Inv, Responses!OnItsWay
  <2>2. CASE e = f
    BY <1>1, <1>2, <2>1, <2>2, SaysPop
  <2>3. CASE e # f
    BY <1>2, <2>1, <2>3
  <2> QED BY <2>2, <2>3
<1>6. ASSUME NEW i \in 1 .. Len(up'[f]) PROVE up'[f][i] # Responses!Auth
  <2>1. i + 1 \in 1 .. Len(up[f]) /\ i + 1 # 1 /\ up'[f][i] = up[f][i + 1]
    BY <1>1, <1>2, PopFacts
  <2> QED BY <2>1 DEF Responses!Inv, Responses!InTurn
<1>7. ASSUME NEW e \in Responses!Fd, NEW i \in 1 .. Len(up'[e]), up'[e][i] = Responses!Auth
      PROVE  i = 1 /\ userGate[e] \in {"none", "handshake"}
  BY <1>2, <1>6, <1>7 DEF Responses!Inv, Responses!InTurn
<1>8. ASSUME NEW t \in Session, Head(up[f]).session = t
      PROVE  Responses!Says(up[f], t) /\ ~ Responses!Says(up'[f], t)
  <2>1. Responses!SaysOnce(up[f], t)
    BY DEF Responses!Inv, Responses!OnItsWay
  <2> QED BY <1>1, <1>2, <1>8, <2>1, SaysPop
<1> QED BY <1>3, <1>4, <1>5, <1>6, <1>7, <1>8 DEF UpShrinks

\* A response that is complete goes down to the connection that has asked last.
LEMMA ResponseSent ==
  ASSUME Responses!Inv, NEW s \in Session, response[s] # None,
         NEW c \in Responses!Struct, NEW g \in Responses!Fd,
         c.fd = g, c.session = s, c.number > 0, c.made, c.index = u.index,
         UpShrinks, ~ Responses!Says(up'[g], s), ~ Responses!Says(down[g], s),
         client.fd = g => ~ askedIn[s].answered /\ askedIn[s].on = g,
         working' = working \ {response[s]},
         Responses!Respond(response[s], c),
         UNCHANGED <<userConnection, userGate, client, askedIn, ran, refused>>
  PROVE  Responses!Inv'
<1> DEFINE p == response[s]
           d == [c EXCEPT !.fd = None]
           m == [session |-> s, number |-> c.number]
<1>1. /\ d \in Responses!Struct /\ d.fd = None /\ d.session = s /\ d.number = c.number
      /\ d.made = TRUE /\ d.index = u.index /\ d.version = c.version
  BY DEF Responses!Struct
<1>2. /\ down' = IF g \in userConnection THEN Responses!Sent(g, m) ELSE down
      /\ Responses!Retire([package EXCEPT ![p] = d], u.index + 1)
      /\ sentSince' = [t \in Session |-> IF t = s THEN 0 ELSE IF sentSince[t] < MaxSent
                                                             THEN sentSince[t] + 1 ELSE sentSince[t]]
  BY DEF Responses!Respond
<1>3. Responses!TypeOK /\ Responses!StructsHeld /\ p \in Responses!Package
  BY DEF Responses!Inv, Responses!TypeOK
<1> HIDE DEF d
<1>4. /\ \E i \in Nat : u' = [u EXCEPT !.index = i] /\ i < 2 * expired_number
      /\ response' \in [Session -> Responses!Package \cup {None}]
      /\ \A t \in Session :
           \/ response'[t] = response[t]
           \/ /\ response'[t] = None /\ response[t] \notin working
              /\ t # s /\ sentSince'[t] >= expired_number
      /\ package' \in [Responses!Package -> Responses!Struct]
      /\ \A q \in Responses!Package : Same(package'[q], IF q = p THEN d ELSE package[q])
      /\ \A t \in Session :
           response'[t] # None /\ (t = s \/ response[t] \notin working)
             => Aged(package[response[t]], t)'
  BY <1>1, <1>2, <1>3, RetireStep
<1>5. m \in Responses!Message
  BY MessageAssumption DEF Responses!Message, Responses!Struct
<1>6. /\ down \in [Responses!Fd -> Seq(Responses!Message)]
      /\ \/ down' = down
         \/ client.fd = g /\ down' = [down EXCEPT ![g] = Append(down[g], m)]
  BY <1>2, <1>3 DEF Responses!Sent, Responses!TypeOK
<1>7. /\ u' \in [version : 0 .. MaxVersion, index : 0 .. 2 * expired_number, fd : Responses!Fd \cup {None}]
      /\ u'.version = u.version /\ u'.index < 2 * expired_number
  <2>1. PICK i \in Nat : u' = [u EXCEPT !.index = i] /\ i < 2 * expired_number
    BY <1>4
  <2>2. i \in 0 .. 2 * expired_number
    BY <2>1, MessageAssumption
  <2>3. u \in [version : 0 .. MaxVersion, index : 0 .. 2 * expired_number, fd : Responses!Fd \cup {None}]
    BY <1>3 DEF Responses!TypeOK
  <2> QED BY <2>1, <2>2, <2>3
<1>8. sentSince' \in [Session -> 0 .. MaxSent]
  <2>1. sentSince \in [Session -> 0 .. MaxSent] /\ MaxSent \in Nat
    BY <1>3, MessageAssumption DEF Responses!TypeOK
  <2>2. \A t \in Session : sentSince[t] \in Nat /\ sentSince[t] <= MaxSent
    BY <2>1
  <2>3. \A t \in Session : sentSince'[t] \in 0 .. MaxSent
    BY <1>2, <2>1, <2>2
  <2>4. sentSince' = [t \in Session |-> sentSince'[t]]
    BY <1>2
  <2> QED BY <2>3, <2>4
<1>9. down' \in [Responses!Fd -> Seq(Responses!Message)]
  <2>1. Append(down[g], m) \in Seq(Responses!Message)
    BY <1>5, <1>6, PushFacts
  <2> QED BY <1>6, <2>1
<1>10. Responses!TypeOK'
  BY <1>3, <1>4, <1>7, <1>8, <1>9 DEF Responses!TypeOK, UpShrinks
<1>11. Responses!InTurn'
  <2>1. \A f \in Responses!Fd : f > client.made => down'[f] = <<>>
    <3>1. client.fd = g => g = client.made
      BY MessageAssumption DEF Responses!Inv, Responses!InTurn, Responses!Fd
    <3>2. client.made \in Nat /\ \A f \in Responses!Fd : f \in Nat
      BY <1>3, MessageAssumption DEF Responses!TypeOK, Responses!Fd
    <3> QED BY <1>6, <3>1, <3>2 DEF Responses!Inv, Responses!InTurn
  <2> QED BY <1>7, <2>1 DEF UpShrinks, Responses!Inv, Responses!InTurn
<1>12. Responses!StructsHeld'
  <2>1. ASSUME NEW t \in Session, response'[t] # None
        PROVE  /\ response'[t] = response[t] /\ response[t] \in Responses!Package
               /\ package'[response[t]].session = t /\ package'[response[t]].number > 0
               /\ response[t] \notin working' =>
                    /\ package'[response[t]].made /\ package'[response[t]].fd = None
                    /\ Aged(package[response[t]], t)'
    <3>1. response'[t] = response[t] /\ response[t] \in Responses!Package
      BY <1>3, <1>4, <2>1 DEF Responses!TypeOK
    <3>2. CASE t = s
      <4>1. Same(package'[p], d) /\ Aged(package[p], t)'
        BY <1>3, <1>4, <2>1, <3>1, <3>2
      <4> QED BY <1>1, <3>1, <3>2, <4>1 DEF Same
    <3>3. CASE t # s
      <4>1. response[t] # p
        BY <2>1, <3>1, <3>3 DEF Responses!Inv, Responses!StructsHeld
      <4>2. Same(package'[response[t]], package[response[t]])
        BY <1>4, <3>1, <4>1
      <4>3. response[t] \notin working' => response[t] \notin working
        BY <4>1
      <4>4. response[t] \notin working => Aged(package[response[t]], t)'
        BY <1>4, <2>1
      <4> QED BY <2>1, <3>1, <4>2, <4>3, <4>4 DEF Same, Responses!Inv, Responses!StructsHeld
    <3> QED BY <3>2, <3>3
  <2>2. ASSUME NEW q \in working'
        PROVE  /\ package'[q].session \in Session /\ response'[package'[q].session] = q
               /\ ~ package'[q].made /\ package'[q].fd # None /\ package'[q].fd <= u'.version
               /\ package'[q].version \in {None, package'[q].fd}
    <3>1. q \in working /\ q # p /\ q \in Responses!Package
      BY <1>3 DEF Responses!TypeOK
    <3>2. Same(package'[q], package[q])
      BY <1>4, <3>1
    <3>3. response'[package[q].session] = response[package[q].session]
      BY <1>4, <3>1 DEF Responses!Inv, Responses!StructsHeld
    <3> QED BY <1>7, <3>1, <3>2, <3>3 DEF Same, Responses!Inv, Responses!StructsHeld
  <2> QED BY <1>7, <2>1, <2>2 DEF Aged, Responses!StructsHeld
<1>13. Responses!OnItsWay'
  <2> SUFFICES ASSUME NEW f \in Responses!Fd, NEW t \in Session
               PROVE  /\ Responses!SaysOnce(up'[f], t) /\ Responses!SaysOnce(down'[f], t)
                      /\ ~ (Responses!Says(up'[f], t) /\ Responses!Making(f, t)')
                      /\ ~ (Responses!Says(up'[f], t) /\ Responses!Says(down'[f], t))
                      /\ ~ (Responses!Making(f, t)' /\ Responses!Says(down'[f], t))
                      /\ client'.fd = f /\ (Responses!Says(up'[f], t) \/ Responses!Making(f, t)'
                                            \/ Responses!Says(down'[f], t))
                           => ~ askedIn'[t].answered /\ askedIn'[t].on = f
    BY DEF Responses!OnItsWay
  <2>1. Responses!Making(f, t)' => t # s /\ Responses!Making(f, t)
    <3> SUFFICES ASSUME Responses!Making(f, t)' PROVE t # s /\ Responses!Making(f, t)
      OBVIOUS
    <3>1. /\ response'[t] # None /\ response'[t] \in working /\ response'[t] # p
          /\ package'[response'[t]].fd = f
      BY DEF Responses!Making
    <3>2. response'[t] = response[t] /\ response[t] \in Responses!Package
      BY <1>3, <1>4, <3>1 DEF Responses!TypeOK
    <3>3. Same(package'[response[t]], package[response[t]])
      BY <1>4, <3>1, <3>2
    <3> QED BY <3>1, <3>2, <3>3 DEF Responses!Making, Same
  <2>2. Responses!SaysOnce(up'[f], t) /\ (Responses!Says(up'[f], t) => Responses!Says(up[f], t))
    BY DEF UpShrinks
  <2>3. CASE down'[f] = down[f]
    BY <2>1, <2>2, <2>3 DEF Responses!Inv, Responses!OnItsWay
  <2>4. CASE down'[f] # down[f]
    <3>1. f = g /\ client.fd = g /\ down'[f] = Append(down[g], m) /\ down[g] \in Seq(Responses!Message)
      BY <1>6, <2>4
    <3>2. /\ Responses!Says(down'[f], t) <=> Responses!Says(down[f], t) \/ t = s
          /\ Responses!SaysOnce(down[f], t) => Responses!SaysOnce(down'[f], t)
      BY <1>5, <3>1, SaysPush
    <3> QED BY <2>1, <2>2, <3>1, <3>2 DEF Responses!Inv, Responses!OnItsWay
  <2> QED BY <2>3, <2>4
<1>14. Responses!Kept'
  <2> SUFFICES ASSUME NEW t \in Session, ran[t] > 0, sentSince'[t] < expired_number
               PROVE  response'[t] # None
    BY DEF Responses!Kept, Responses!Inv
  <2>1. CASE t = s
    BY <1>4, <2>1
  <2>2. CASE t # s
    <3>1. sentSince[t] < expired_number
      BY SMTT(30), <1>2, <1>3, <2>2, MessageAssumption DEF Responses!TypeOK
    <3>2. response[t] # None
      BY <3>1 DEF Responses!Inv, Responses!Kept
    <3>3. sentSince'[t] \in Nat /\ ~ (sentSince'[t] >= expired_number)
      BY <1>8, MessageAssumption
    <3> QED BY <1>4, <3>2, <3>3
  <2> QED BY <2>1, <2>2
<1>15. Responses!NoConflict'
  BY DEF Responses!Inv, Responses!NoConflict
<1> QED BY <1>10, <1>11, <1>12, <1>13, <1>14, <1>15 DEF Responses!Inv

\* The kinds of the constants and variables that the steps below depend on.
LEMMA MessageTypes ==
  ASSUME Responses!Inv
  PROVE  /\ up \in [Responses!Fd -> Seq(Responses!Message)]
         /\ down \in [Responses!Fd -> Seq(Responses!Message)]
         /\ client \in [fd : Responses!Fd \cup {None}, made : 0 .. MaxVersion]
         /\ client.made \in Nat /\ u.version \in Nat /\ u.index \in Nat
         /\ askedIn \in [Session -> [number : 0 .. MaxAsked, answered : BOOLEAN, on : 0 .. MaxVersion]]
         /\ \A f \in Responses!Fd : f \in Nat /\ f > 0 /\ f <= MaxVersion /\ f # None
         /\ client.fd # None => client.fd \in Responses!Fd /\ client.fd = client.made
  BY SMTT(30), MessageAssumption DEF Responses!Inv, Responses!TypeOK, Responses!Fd, Responses!InTurn

\* Two steps of the client that add a message to the connection it has.
LEMMA ClientSends ==
  ASSUME Responses!Inv, client.fd # None, NEW s \in Session, NEW n \in 1 .. MaxAsked,
         askedIn[s].answered \/ askedIn[s].on # client.fd,
         NEW a \in [number : 0 .. MaxAsked, answered : BOOLEAN, on : 0 .. MaxVersion],
         askedIn' = [askedIn EXCEPT ![s] = a],
         a.number = n, ~ a.answered, a.on = client.fd,
         up' = [up EXCEPT ![client.fd] = Append(up[client.fd], [session |-> s, number |-> n])],
         ran' = ran \/ ran' = [ran EXCEPT ![s] = 0],
         UNCHANGED <<u, response, package, working, userConnection, userGate, down, client,
                     refused, sentSince>>
  PROVE  Responses!Inv'
<1> DEFINE k == client.fd
           m == [session |-> s, number |-> n]
<1>1. /\ k \in Responses!Fd /\ k = client.made /\ k \in 0 .. MaxVersion
      /\ up[k] \in Seq(Responses!Message) /\ m \in Responses!Message
  BY MessageTypes, MessageAssumption DEF Responses!Message, Responses!Fd
<1>2. m # Responses!Auth
  BY MessageAssumption DEF Responses!Auth
<1>3. m.session = s
  OBVIOUS
<1> HIDE DEF m
<1>4. /\ up'[k] = Append(up[k], m) /\ up'[k] \in Seq(Responses!Message)
      /\ \A f \in Responses!Fd \ {k} : up'[f] = up[f]
  BY <1>1, MessageTypes, PushFacts DEF m
<1>5. /\ askedIn' \in [Session -> [number : 0 .. MaxAsked, answered : BOOLEAN, on : 0 .. MaxVersion]]
      /\ ~ askedIn'[s].answered /\ askedIn'[s].on = k /\ askedIn'[s].number > 0
      /\ \A t \in Session \ {s} : askedIn'[t] = askedIn[t]
  BY MessageTypes
<1>6. Responses!TypeOK'
  <2>1. up' \in [Responses!Fd -> Seq(Responses!Message)]
    BY <1>1, <1>4, MessageTypes
  <2>2. ran' \in [Session -> Nat]
    <3>1. ran \in [Session -> Nat]
      BY DEF Responses!Inv, Responses!TypeOK
    <3> QED BY <3>1
  <2> QED BY <1>5, <2>1, <2>2 DEF Responses!Inv, Responses!TypeOK
<1>7. Responses!InTurn'
  <2>1. \A f \in Responses!Fd : f > client.made => up'[f] = <<>>
    BY <1>1, <1>4, MessageTypes DEF Responses!Inv, Responses!InTurn
  <2>2. ASSUME NEW f \in Responses!Fd, NEW i \in 1 .. Len(up'[f]), up'[f][i] = Responses!Auth
        PROVE  i = 1 /\ userGate[f] \in {"none", "handshake"}
    <3>1. i \in 1 .. Len(up[f]) /\ up[f][i] = Responses!Auth
      <4>1. CASE f = k
        BY <1>1, <1>2, <1>4, <2>2, <4>1, PushFacts
      <4>2. CASE f # k
        BY <1>4, <2>2, <4>2
      <4> QED BY <4>1, <4>2
    <3> QED BY <3>1 DEF Responses!Inv, Responses!InTurn
  <2> QED BY <2>1, <2>2 DEF Responses!Inv, Responses!InTurn
<1>8. Responses!StructsHeld'
  BY DEF Responses!Inv, Responses!StructsHeld
<1>9. Responses!OnItsWay'
  <2> SUFFICES ASSUME NEW f \in Responses!Fd, NEW t \in Session
               PROVE  /\ Responses!SaysOnce(up'[f], t) /\ Responses!SaysOnce(down[f], t)
                      /\ ~ (Responses!Says(up'[f], t) /\ Responses!Making(f, t))
                      /\ ~ (Responses!Says(up'[f], t) /\ Responses!Says(down[f], t))
                      /\ ~ (Responses!Making(f, t) /\ Responses!Says(down[f], t))
                      /\ client.fd = f /\ (Responses!Says(up'[f], t) \/ Responses!Making(f, t)
                                           \/ Responses!Says(down[f], t))
                           => ~ askedIn'[t].answered /\ askedIn'[t].on = f
    BY DEF Responses!OnItsWay, Responses!Making
  <2>1. CASE f # k
    BY <1>4, <2>1 DEF Responses!Inv, Responses!OnItsWay
  <2>2. CASE f = k
    <3>1. /\ Responses!Says(up'[f], t) <=> Responses!Says(up[f], t) \/ s = t
          /\ Responses!SaysOnce(up[f], t) /\ (s = t => ~ Responses!Says(up[f], t))
               => Responses!SaysOnce(up'[f], t)
      BY <1>1, <1>3, <1>4, <2>2, SaysPush
    <3> QED BY <1>5, <2>2, <3>1 DEF Responses!Inv, Responses!OnItsWay
  <2> QED BY <2>1, <2>2
<1>10. Responses!Kept'
  <2> SUFFICES ASSUME NEW t \in Session PROVE ran'[t] > 0 => ran[t] > 0
    BY <1>5 DEF Responses!Inv, Responses!Kept
  <2>1. ran \in [Session -> Nat]
    BY DEF Responses!Inv, Responses!TypeOK
  <2>2. CASE ran' = [ran EXCEPT ![s] = 0] /\ t = s
    BY <2>1, <2>2
  <2>3. CASE ran' = [ran EXCEPT ![s] = 0] /\ t # s
    BY <2>1, <2>3
  <2>4. CASE ran' = ran
    BY <2>4
  <2> QED BY <2>2, <2>3, <2>4
<1> QED BY <1>6, <1>7, <1>8, <1>9, <1>10 DEF Responses!Inv, Responses!NoConflict

LEMMA ClientAsks ==
  ASSUME Responses!Inv, NEW s \in Session, Responses!Ask(s)
  PROVE  Responses!Inv'
<1> DEFINE n == askedIn[s].number + 1
           a == [number |-> n, answered |-> FALSE, on |-> client.fd]
<1>1. n \in 1 .. MaxAsked
  BY MessageTypes, MessageAssumption DEF Responses!Ask
<1>2. /\ client.fd # None /\ askedIn[s].answered
      /\ askedIn' = [askedIn EXCEPT ![s] = a]
      /\ up' = [up EXCEPT ![client.fd] = Append(up[client.fd], [session |-> s, number |-> n])]
      /\ ran' = [ran EXCEPT ![s] = 0]
      /\ UNCHANGED <<u, response, package, working, userConnection, userGate, down, client,
                     refused, sentSince>>
  BY MessageTypes DEF Responses!Ask, Responses!server
<1>3. /\ a \in [number : 0 .. MaxAsked, answered : BOOLEAN, on : 0 .. MaxVersion]
      /\ a.number = n /\ ~ a.answered /\ a.on = client.fd
  <2>1. client.fd \in 0 .. MaxVersion /\ n \in 0 .. MaxAsked
    BY <1>1, <1>2, MessageTypes, MessageAssumption
  <2> QED BY <2>1
<1> HIDE DEF n, a
<1> QED BY <1>1, <1>2, <1>3, ClientSends

LEMMA ClientAsksAgain ==
  ASSUME Responses!Inv, NEW s \in Session, Responses!AskAgain(s)
  PROVE  Responses!Inv'
<1> DEFINE n == askedIn[s].number
<1>1. n \in 1 .. MaxAsked
  BY MessageTypes, MessageAssumption DEF Responses!AskAgain, Responses!Inv, Responses!Kept
<1>2. /\ client.fd # None /\ askedIn[s].on # client.fd
      /\ up' = [up EXCEPT ![client.fd] = Append(up[client.fd], [session |-> s, number |-> n])]
      /\ ran' = ran
      /\ UNCHANGED <<u, response, package, working, userConnection, userGate, down, client,
                     refused, sentSince>>
  BY DEF Responses!AskAgain, Responses!server
<1> DEFINE a == [askedIn[s] EXCEPT !.on = client.fd]
<1>3. /\ a \in [number : 0 .. MaxAsked, answered : BOOLEAN, on : 0 .. MaxVersion]
      /\ a.number = n /\ ~ a.answered /\ a.on = client.fd
      /\ askedIn' = [askedIn EXCEPT ![s] = a]
  <2>1. /\ client.fd \in 0 .. MaxVersion /\ ~ askedIn[s].answered
        /\ askedIn[s] \in [number : 0 .. MaxAsked, answered : BOOLEAN, on : 0 .. MaxVersion]
        /\ askedIn' = [askedIn EXCEPT ![s] = a]
    BY <1>2, MessageTypes, MessageAssumption DEF Responses!AskAgain
  <2> QED BY <2>1
<1> HIDE DEF n, a
<1> QED BY <1>1, <1>2, <1>3, ClientSends

\* A connection that the client opens is new to everybody.
LEMMA ClientConnects ==
  ASSUME Responses!Inv, Responses!Connect
  PROVE  Responses!Inv'
<1> DEFINE k == client.made + 1
<1>1. /\ client.fd = None /\ k \in Responses!Fd /\ k \in 0 .. MaxVersion /\ client.made < k
      /\ client' = [fd |-> k, made |-> k]
      /\ up' = [up EXCEPT ![k] = <<Responses!Auth>>]
      /\ UNCHANGED <<u, response, package, working, userConnection, userGate, down, askedIn, ran,
                     refused, sentSince>>
  BY MessageTypes, MessageAssumption DEF Responses!Connect, Responses!server, Responses!Fd
<1>2. client'.fd = k /\ client'.made = k
  BY <1>1
<1> HIDE DEF k
<1>3. up[k] = <<>> /\ down[k] = <<>> /\ userGate[k] = "none"
  BY <1>1, MessageTypes DEF Responses!Inv, Responses!InTurn
<1>4. up'[k] = <<Responses!Auth>> /\ \A f \in Responses!Fd \ {k} : up'[f] = up[f]
  BY <1>1, MessageTypes
<1>5. <<Responses!Auth>> \in Seq(Responses!Message)
  <2>1. Responses!Auth \in Responses!Message
    BY DEF Responses!Message
  <2> QED BY <2>1
<1>6. Responses!TypeOK'
  <2>1. up' \in [Responses!Fd -> Seq(Responses!Message)]
    BY <1>1, <1>5, MessageTypes
  <2>2. client' \in [fd : Responses!Fd \cup {None}, made : 0 .. MaxVersion]
    BY <1>1
  <2> QED BY <1>1, <2>1, <2>2 DEF Responses!Inv, Responses!TypeOK
<1>7. Responses!InTurn'
  <2>1. \A f \in Responses!Fd : f > k => up'[f] = <<>> /\ down[f] = <<>> /\ userGate[f] = "none"
    BY <1>1, <1>4, MessageTypes DEF Responses!Inv, Responses!InTurn
  <2>2. ASSUME NEW f \in Responses!Fd, NEW i \in 1 .. Len(up'[f]), up'[f][i] = Responses!Auth
        PROVE  i = 1 /\ userGate[f] \in {"none", "handshake"}
    <3>1. CASE f = k
      <4>1. Len(<<Responses!Auth>>) = 1
        OBVIOUS
      <4>2. i \in 1 .. 1
        BY <1>4, <3>1, <4>1
      <4> QED BY <1>3, <3>1, <4>2
    <3>2. CASE f # k
      BY <1>4, <2>2, <3>2 DEF Responses!Inv, Responses!InTurn
    <3> QED BY <3>1, <3>2
  <2>3. u.version <= k /\ k # None
    BY <1>1, MessageTypes DEF Responses!Inv, Responses!InTurn
  <2>4. /\ client'.fd # None => client'.fd = client'.made
        /\ u'.version <= client'.made
        /\ \A f \in Responses!Fd : f > client'.made => up'[f] = <<>> /\ down'[f] = <<>> /\ userGate'[f] = "none"
    BY <1>1, <1>2, <2>1, <2>3
  <2>5. /\ \A e, f \in Responses!Fd : e < f /\ userGate'[f] # "none" => userGate'[e] = "closed"
        /\ \A f \in Responses!Fd :
             /\ userGate'[f] # "false"
             /\ userGate'[f] = "open" => u'.version = f
             /\ userGate'[f] \in {"none", "handshake"} => u'.version < f
        /\ userConnection' = {f \in Responses!Fd : userGate'[f] = "open"}
    BY <1>1 DEF Responses!Inv, Responses!InTurn
  <2>6. \A f \in Responses!Fd : \A i \in 1 .. Len(up'[f]) :
          up'[f][i] = Responses!Auth => i = 1 /\ userGate'[f] \in {"none", "handshake"}
    BY <1>1, <2>2
  <2> QED BY <2>4, <2>5, <2>6 DEF Responses!InTurn
<1>8. Responses!StructsHeld'
  BY <1>1 DEF Responses!Inv, Responses!StructsHeld
<1>9. Responses!OnItsWay'
  <2> SUFFICES ASSUME NEW f \in Responses!Fd, NEW t \in Session
               PROVE  /\ Responses!SaysOnce(up'[f], t) /\ Responses!SaysOnce(down[f], t)
                      /\ ~ (Responses!Says(up'[f], t) /\ Responses!Making(f, t))
                      /\ ~ (Responses!Says(up'[f], t) /\ Responses!Says(down[f], t))
                      /\ ~ (Responses!Making(f, t) /\ Responses!Says(down[f], t))
                      /\ client'.fd = f /\ (Responses!Says(up'[f], t) \/ Responses!Making(f, t)
                                            \/ Responses!Says(down[f], t))
                           => ~ askedIn[t].answered /\ askedIn[t].on = f
    BY <1>1 DEF Responses!OnItsWay, Responses!Making
  <2>1. CASE f # k
    BY <1>2, <1>4, <2>1 DEF Responses!Inv, Responses!OnItsWay
  <2>2. CASE f = k
    <3>1. ~ Responses!Making(f, t)
      BY <1>1, <2>2, MessageTypes DEF Responses!Inv, Responses!StructsHeld, Responses!Making, Responses!InTurn
    <3> QED BY <1>3, <1>4, <2>2, <3>1, SaysNothing
  <2> QED BY <2>1, <2>2
<1>10. Responses!Kept' /\ Responses!NoConflict'
  BY <1>1 DEF Responses!Inv, Responses!Kept, Responses!NoConflict
<1> QED BY <1>6, <1>7, <1>8, <1>9, <1>10 DEF Responses!Inv

\* What has come down answers its session, of which nothing else is on its way.
LEMMA ClientReceives ==
  ASSUME Responses!Inv, Responses!Receive
  PROVE  Responses!Inv'
<1> DEFINE k == client.fd
           s == Head(down[k]).session
<1>1. /\ k # None /\ k \in Responses!Fd /\ down[k] # <<>> /\ down[k] \in Seq(Responses!Message)
      /\ down' = [down EXCEPT ![k] = Tail(down[k])]
      /\ askedIn' = [askedIn EXCEPT ![s] = [askedIn[s] EXCEPT !.answered = TRUE]]
      /\ UNCHANGED <<u, response, package, working, userConnection, userGate, up, client, ran,
                     refused, sentSince>>
  BY MessageTypes DEF Responses!Receive, Responses!server
<1> HIDE DEF s
<1>2. /\ down'[k] = Tail(down[k]) /\ down'[k] \in Seq(Responses!Message)
      /\ \A f \in Responses!Fd \ {k} : down'[f] = down[f]
  BY <1>1, MessageTypes, PopFacts
<1>3. \A t \in Session \ {s} : askedIn'[t] = askedIn[t]
  BY <1>1, MessageTypes
<1>4. askedIn' \in [Session -> [number : 0 .. MaxAsked, answered : BOOLEAN, on : 0 .. MaxVersion]]
  BY <1>1, MessageTypes
<1>5. s \in Session => askedIn'[s].answered
  BY <1>1, MessageTypes
<1>6. Responses!TypeOK'
  <2>1. down' \in [Responses!Fd -> Seq(Responses!Message)]
    BY <1>1, <1>2, MessageTypes
  <2> QED BY <1>1, <1>4, <2>1 DEF Responses!Inv, Responses!TypeOK
<1>7. Responses!InTurn'
  <2>1. \A f \in Responses!Fd : f > client.made => down'[f] = <<>>
    BY <1>1, <1>2, MessageTypes DEF Responses!Inv, Responses!InTurn
  <2> QED BY <1>1, <2>1 DEF Responses!Inv, Responses!InTurn
<1>8. Responses!StructsHeld'
  BY <1>1 DEF Responses!Inv, Responses!StructsHeld
<1>9. Responses!OnItsWay'
  <2> SUFFICES ASSUME NEW f \in Responses!Fd, NEW t \in Session
               PROVE  /\ Responses!SaysOnce(up[f], t) /\ Responses!SaysOnce(down'[f], t)
                      /\ ~ (Responses!Says(up[f], t) /\ Responses!Making(f, t))
                      /\ ~ (Responses!Says(up[f], t) /\ Responses!Says(down'[f], t))
                      /\ ~ (Responses!Making(f, t) /\ Responses!Says(down'[f], t))
                      /\ client.fd = f /\ (Responses!Says(up[f], t) \/ Responses!Making(f, t)
                                           \/ Responses!Says(down'[f], t))
                           => ~ askedIn'[t].answered /\ askedIn'[t].on = f
    BY <1>1 DEF Responses!OnItsWay, Responses!Making
  <2>1. CASE f # k
    BY <1>2, <2>1 DEF Responses!Inv, Responses!OnItsWay
  <2>2. CASE f = k
    <3>1. /\ Responses!Says(down'[f], t) => Responses!Says(down[f], t)
          /\ Responses!SaysOnce(down[f], t) => Responses!SaysOnce(down'[f], t)
          /\ s = t => Responses!Says(down[f], t)
          /\ Responses!SaysOnce(down[f], t) /\ s = t => ~ Responses!Says(down'[f], t)
      BY <1>1, <1>2, <2>2, SaysPop DEF s
    <3> QED BY <1>3, <2>2, <3>1 DEF Responses!Inv, Responses!OnItsWay
  <2> QED BY <2>1, <2>2
<1>10. Responses!Kept' /\ Responses!NoConflict'
  BY <1>1, <1>3, <1>5 DEF Responses!Inv, Responses!Kept, Responses!NoConflict
<1> QED BY <1>6, <1>7, <1>8, <1>9, <1>10 DEF Responses!Inv

LEMMA ClientLoses ==
  ASSUME Responses!Inv, Responses!Lose
  PROVE  Responses!Inv'
<1> DEFINE k == client.fd
<1>1. /\ k # None /\ k \in Responses!Fd
      /\ down' = [down EXCEPT ![k] = <<>>]
      /\ client' = [client EXCEPT !.fd = None]
      /\ UNCHANGED <<u, response, package, working, userConnection, userGate, up, askedIn, ran,
                     refused, sentSince>>
  BY MessageTypes DEF Responses!Lose, Responses!server
<1> HIDE DEF k
<1>2. /\ client'.fd = None /\ client'.made = client.made
      /\ client' \in [fd : Responses!Fd \cup {None}, made : 0 .. MaxVersion]
  BY <1>1, MessageTypes
<1>3. /\ down' \in [Responses!Fd -> Seq(Responses!Message)] /\ down'[k] = <<>>
      /\ \A f \in Responses!Fd \ {k} : down'[f] = down[f]
  BY <1>1, MessageTypes
<1>4. Responses!TypeOK'
  BY <1>1, <1>2, <1>3 DEF Responses!Inv, Responses!TypeOK
<1>5. Responses!InTurn'
  BY <1>1, <1>2, <1>3 DEF Responses!Inv, Responses!InTurn
<1>6. Responses!StructsHeld'
  BY <1>1 DEF Responses!Inv, Responses!StructsHeld
<1>7. Responses!OnItsWay'
  <2> SUFFICES ASSUME NEW f \in Responses!Fd, NEW t \in Session
               PROVE  /\ Responses!SaysOnce(up[f], t) /\ Responses!SaysOnce(down'[f], t)
                      /\ ~ (Responses!Says(up[f], t) /\ Responses!Making(f, t))
                      /\ ~ (Responses!Says(up[f], t) /\ Responses!Says(down'[f], t))
                      /\ ~ (Responses!Making(f, t) /\ Responses!Says(down'[f], t))
                      /\ client'.fd # f
    BY <1>1 DEF Responses!OnItsWay, Responses!Making
  <2>1. client'.fd # f
    BY <1>2, MessageTypes
  <2>2. CASE f # k
    BY <1>3, <2>1, <2>2 DEF Responses!Inv, Responses!OnItsWay
  <2>3. CASE f = k
    BY <1>3, <2>1, <2>3, SaysNothing DEF Responses!Inv, Responses!OnItsWay
  <2> QED BY <2>2, <2>3
<1>8. Responses!Kept' /\ Responses!NoConflict'
  BY <1>1 DEF Responses!Inv, Responses!Kept, Responses!NoConflict
<1> QED BY <1>4, <1>5, <1>6, <1>7, <1>8 DEF Responses!Inv

\* The server hears of a connection when the one before is closed.
LEMMA SocketOpens ==
  ASSUME Responses!Inv, NEW f \in Responses!Fd, Responses!Open(f)
  PROVE  Responses!Inv'
<1>1. /\ userGate[f] = "none" /\ up[f] # <<>> /\ \A e \in 1 .. f - 1 : userGate[e] = "closed"
      /\ userGate' = [userGate EXCEPT ![f] = "handshake"]
      /\ UNCHANGED <<u, response, package, working, userConnection, up, down, client, askedIn, ran,
                     refused, sentSince>>
  BY DEF Responses!Open
<1>2. \A e \in Responses!Fd : e < f => e \in 1 .. f - 1
  BY MessageTypes
<1>3. Responses!TypeOK'
  BY <1>1 DEF Responses!Inv, Responses!TypeOK
<1>4. Responses!InTurn'
  <2>1. userGate'[f] = "handshake" /\ \A e \in Responses!Fd \ {f} : userGate'[e] = userGate[e]
    BY <1>1 DEF Responses!Inv, Responses!TypeOK
  <2>2. f <= client.made
    BY <1>1, MessageTypes DEF Responses!Inv, Responses!InTurn
  <2>3. \A e \in Responses!Fd : e > client.made => userGate'[e] = "none"
    <3>1. \A e \in Responses!Fd : e > client.made => e # f
      BY <2>2, MessageTypes
    <3> QED BY <2>1, <3>1 DEF Responses!Inv, Responses!InTurn
  <2>4. \A d, e \in Responses!Fd : d < e /\ userGate'[e] # "none" => userGate'[d] = "closed"
    BY <1>1, <1>2, <2>1 DEF Responses!Inv, Responses!InTurn
  <2>5. userConnection = {e \in Responses!Fd : userGate'[e] = "open"}
    BY <1>1, <2>1 DEF Responses!Inv, Responses!InTurn
  <2>6. \A e \in Responses!Fd : /\ userGate'[e] # "false"
                                /\ userGate'[e] = "open" => u.version = e
                                /\ userGate'[e] \in {"none", "handshake"} => u.version < e
    BY <1>1, <2>1 DEF Responses!Inv, Responses!InTurn
  <2>7. \A e \in Responses!Fd : \A i \in 1 .. Len(up[e]) :
          up[e][i] = Responses!Auth => i = 1 /\ userGate'[e] \in {"none", "handshake"}
    BY <2>1 DEF Responses!Inv, Responses!InTurn
  <2> QED BY <1>1, <2>3, <2>4, <2>5, <2>6, <2>7 DEF Responses!Inv, Responses!InTurn
<1>5. Responses!StructsHeld'
  BY <1>1 DEF Responses!Inv, Responses!StructsHeld
<1>6. Responses!OnItsWay'
  BY <1>1 DEF Responses!Inv, Responses!OnItsWay, Responses!Making
<1>7. Responses!Kept' /\ Responses!NoConflict'
  BY <1>1 DEF Responses!Inv, Responses!Kept, Responses!NoConflict
<1> QED BY <1>3, <1>4, <1>5, <1>6, <1>7 DEF Responses!Inv

\* The connection becomes that of the user: its index is greater than the last.
LEMMA SocketAuths ==
  ASSUME Responses!Inv, NEW f \in Responses!Fd, Responses!auth(f)
  PROVE  Responses!Inv'
<1>1. userGate[f] = "handshake" /\ u.version < f /\ f <= client.made
  BY MessageTypes DEF Responses!auth, Responses!Inv, Responses!InTurn
<1>2. /\ up[f] # <<>> /\ up' = [up EXCEPT ![f] = Tail(up[f])]
      /\ userGate' = [userGate EXCEPT ![f] = "open"]
      /\ u' = [u EXCEPT !.version = f, !.fd = f]
      /\ userConnection' = userConnection \cup {f}
      /\ UNCHANGED <<response, package, working, down, client, askedIn, ran, refused, sentSince>>
  <2>1. ~ (f <= u.version)
    BY <1>1, MessageTypes
  <2> QED BY <2>1 DEF Responses!auth
<1>3. UpShrinks /\ \A i \in 1 .. Len(up'[f]) : up'[f][i] # Responses!Auth
  BY <1>2, UpTaken
<1>4. u'.version = f /\ u'.index = u.index
      /\ u' \in [version : 0 .. MaxVersion, index : 0 .. 2 * expired_number, fd : Responses!Fd \cup {None}]
  <2>1. f \in 0 .. MaxVersion
    BY MessageTypes, MessageAssumption
  <2> QED BY <1>2, <2>1 DEF Responses!Inv, Responses!TypeOK
<1>5. userGate'[f] = "open" /\ \A e \in Responses!Fd \ {f} : userGate'[e] = userGate[e]
  BY <1>2 DEF Responses!Inv, Responses!TypeOK
<1>6. Responses!TypeOK'
  BY <1>2, <1>3, <1>4 DEF Responses!Inv, Responses!TypeOK, UpShrinks
<1>7. Responses!InTurn'
  <2>0. \A e \in Responses!Fd : e \in Nat
    BY MessageTypes
  <2>1. ASSUME NEW e \in Responses!Fd, e # f
        PROVE  (e < f /\ userGate[e] = "closed") \/ (e > f /\ userGate[e] = "none")
    <3>1. e < f \/ f < e
      BY <2>0, <2>1
    <3>2. e < f => userGate[e] = "closed"
      BY <1>1 DEF Responses!Inv, Responses!InTurn
    <3>3. f < e => userGate[e] = "none"
      BY <1>1 DEF Responses!Inv, Responses!InTurn
    <3> QED BY <2>0, <3>1, <3>2, <3>3
  <2>2. \A e \in Responses!Fd : e > client.made => up'[e] = <<>> /\ down[e] = <<>> /\ userGate'[e] = "none"
    <3>1. \A e \in Responses!Fd : e > client.made => e # f
      BY <1>1, MessageTypes
    <3> QED BY <1>3, <1>5, <3>1 DEF Responses!Inv, Responses!InTurn, UpShrinks
  <2>3. \A d, e \in Responses!Fd : d < e /\ userGate'[e] # "none" => userGate'[d] = "closed"
    <3> SUFFICES ASSUME NEW d \in Responses!Fd, NEW e \in Responses!Fd, d < e, userGate'[e] # "none"
                 PROVE  userGate'[d] = "closed"
      OBVIOUS
    <3>1. e = f \/ e < f
      BY <1>5, <2>0, <2>1
    <3>2. d # f /\ d < f
      BY <2>0, <3>1
    <3> QED BY <1>5, <2>0, <2>1, <3>2
  <2>4. \A e \in Responses!Fd : /\ userGate'[e] # "false"
                                /\ userGate'[e] = "open" => f = e
                                /\ userGate'[e] \in {"none", "handshake"} => f < e
    BY <1>5, <2>1, MessageTypes
  <2>5. userConnection' = {e \in Responses!Fd : userGate'[e] = "open"}
    BY <1>2, <1>5 DEF Responses!Inv, Responses!InTurn
  <2>6. \A e \in Responses!Fd : \A i \in 1 .. Len(up'[e]) :
          up'[e][i] = Responses!Auth => i = 1 /\ userGate'[e] \in {"none", "handshake"}
    BY <1>3, <1>5 DEF UpShrinks
  <2> QED BY <1>1, <1>2, <1>4, <2>2, <2>3, <2>4, <2>5, <2>6 DEF Responses!Inv, Responses!InTurn
<1>8. Responses!StructsHeld'
  <2>1. ASSUME NEW q \in working PROVE package[q].fd <= f
    <3>1. package[q].fd \in Responses!Fd /\ package[q].fd <= u.version
      BY <2>1 DEF Responses!Inv, Responses!StructsHeld, Responses!TypeOK, Responses!Struct
    <3> QED BY <1>1, <3>1, MessageTypes
  <2> QED BY <1>2, <1>4, <2>1 DEF Responses!Inv, Responses!StructsHeld
<1>9. Responses!OnItsWay'
  BY <1>2, <1>3 DEF Responses!Inv, Responses!OnItsWay, Responses!Making, UpShrinks
<1>10. Responses!Kept' /\ Responses!NoConflict'
  BY <1>2 DEF Responses!Inv, Responses!Kept, Responses!NoConflict
<1> QED BY <1>6, <1>7, <1>8, <1>9, <1>10 DEF Responses!Inv

LEMMA SocketCloses ==
  ASSUME Responses!Inv, NEW f \in Responses!Fd, Responses!disconnect(f)
  PROVE  Responses!Inv'
<1>1. /\ userGate[f] \in {"handshake", "open"}
      /\ userGate' = [userGate EXCEPT ![f] = "closed"]
      /\ up' = [up EXCEPT ![f] = <<>>] /\ down' = [down EXCEPT ![f] = <<>>]
      /\ userConnection' = userConnection \ {f}
      /\ u' = IF f \in userConnection THEN [u EXCEPT !.fd = None] ELSE u
      /\ client' = IF client.fd = f THEN [client EXCEPT !.fd = None] ELSE client
      /\ UNCHANGED <<response, package, working, askedIn, ran, refused, sentSince>>
  BY DEF Responses!disconnect, Responses!Inv, Responses!InTurn
<1>2. /\ u'.version = u.version /\ u'.index = u.index
      /\ u' \in [version : 0 .. MaxVersion, index : 0 .. 2 * expired_number, fd : Responses!Fd \cup {None}]
  BY <1>1 DEF Responses!Inv, Responses!TypeOK
<1>3. /\ client'.made = client.made /\ client'.fd # f
      /\ client'.fd # None => client'.fd = client.fd
      /\ client' \in [fd : Responses!Fd \cup {None}, made : 0 .. MaxVersion]
  BY <1>1, MessageTypes
<1>4. /\ userGate'[f] = "closed" /\ up'[f] = <<>> /\ down'[f] = <<>>
      /\ \A e \in Responses!Fd \ {f} :
           userGate'[e] = userGate[e] /\ up'[e] = up[e] /\ down'[e] = down[e]
  BY <1>1 DEF Responses!Inv, Responses!TypeOK
<1>5. /\ up' \in [Responses!Fd -> Seq(Responses!Message)]
      /\ down' \in [Responses!Fd -> Seq(Responses!Message)]
  BY <1>1, MessageTypes
<1>6. Responses!TypeOK'
  BY <1>1, <1>2, <1>3, <1>5 DEF Responses!Inv, Responses!TypeOK
<1>7. Responses!InTurn'
  <2>1. \A e \in Responses!Fd : e > client.made => up'[e] = <<>> /\ down'[e] = <<>> /\ userGate'[e] = "none"
    <3>1. \A e \in Responses!Fd : e > client.made => e # f
      BY <1>1 DEF Responses!Inv, Responses!InTurn
    <3> QED BY <1>4, <3>1 DEF Responses!Inv, Responses!InTurn
  <2>2. \A d, e \in Responses!Fd : d < e /\ userGate'[e] # "none" => userGate'[d] = "closed"
    <3>1. \A e \in Responses!Fd : userGate'[e] # "none" <=> userGate[e] # "none"
      BY <1>1, <1>4
    <3> QED BY <1>4, <3>1 DEF Responses!Inv, Responses!InTurn
  <2>3. \A e \in Responses!Fd : /\ userGate'[e] # "false"
                                /\ userGate'[e] = "open" => u.version = e
                                /\ userGate'[e] \in {"none", "handshake"} => u.version < e
    BY <1>4 DEF Responses!Inv, Responses!InTurn
  <2>4. userConnection' = {e \in Responses!Fd : userGate'[e] = "open"}
    BY <1>1, <1>4 DEF Responses!Inv, Responses!InTurn
  <2>5. ASSUME NEW e \in Responses!Fd, NEW i \in 1 .. Len(up'[e]), up'[e][i] = Responses!Auth
        PROVE  i = 1 /\ userGate'[e] \in {"none", "handshake"}
    <3>1. e # f
      <4>1. 1 .. Len(<<>>) = {}
        OBVIOUS
      <4> QED BY <1>4, <2>5, <4>1
    <3> QED BY <1>4, <2>5, <3>1 DEF Responses!Inv, Responses!InTurn
  <2> QED BY <1>2, <1>3, <2>1, <2>2, <2>3, <2>4, <2>5 DEF Responses!Inv, Responses!InTurn
<1>8. Responses!StructsHeld'
  BY <1>1, <1>2 DEF Responses!Inv, Responses!StructsHeld
<1>9. Responses!OnItsWay'
  <2> SUFFICES ASSUME NEW e \in Responses!Fd, NEW t \in Session
               PROVE  /\ Responses!SaysOnce(up'[e], t) /\ Responses!SaysOnce(down'[e], t)
                      /\ ~ (Responses!Says(up'[e], t) /\ Responses!Making(e, t))
                      /\ ~ (Responses!Says(up'[e], t) /\ Responses!Says(down'[e], t))
                      /\ ~ (Responses!Making(e, t) /\ Responses!Says(down'[e], t))
                      /\ client'.fd = e /\ (Responses!Says(up'[e], t) \/ Responses!Making(e, t)
                                            \/ Responses!Says(down'[e], t))
                           => ~ askedIn[t].answered /\ askedIn[t].on = e
    BY <1>1 DEF Responses!OnItsWay, Responses!Making
  <2>1. client'.fd = e => client.fd = e
    BY <1>3, MessageTypes
  <2>2. CASE e # f
    BY <1>4, <2>1, <2>2 DEF Responses!Inv, Responses!OnItsWay
  <2>3. CASE e = f
    BY <1>3, <1>4, <2>3, SaysNothing
  <2> QED BY <2>2, <2>3
<1>10. Responses!Kept' /\ Responses!NoConflict'
  BY <1>1 DEF Responses!Inv, Responses!Kept, Responses!NoConflict
<1> QED BY <1>6, <1>7, <1>8, <1>9, <1>10 DEF Responses!Inv

\* request_handler returns.
LEMMA RequestHandled ==
  ASSUME Responses!Inv, NEW p \in Responses!Package, Responses!Handled(p)
  PROVE  Responses!Inv'
<1> DEFINE c == Responses!Made(p)
           s == package[p].session
           g == package[p].fd
<1>1. /\ p \in working /\ working' = working \ {p} /\ Responses!Respond(p, c)
      /\ UNCHANGED <<userConnection, userGate, up, client, askedIn, ran, refused>>
  BY DEF Responses!Handled
<1>2. /\ s \in Session /\ response[s] = p /\ p # None /\ package[p] \in Responses!Struct
      /\ package[p].number > 0 /\ g \in Responses!Fd /\ g <= u.version
  <2>1. package[p] \in Responses!Struct /\ p # None
    BY MessageAssumption DEF Responses!Inv, Responses!TypeOK, Responses!Package
  <2> QED BY <1>1, <2>1 DEF Responses!Inv, Responses!StructsHeld, Responses!Struct
<1>3. /\ c \in Responses!Struct /\ c.fd = g /\ c.session = s /\ c.number > 0 /\ c.made
      /\ c.index = u.index
  <2>1. u.version \in Responses!Fd /\ u.index \in 0 .. 2 * expired_number
    <3>1. u.version \in 0 .. MaxVersion /\ u.index \in 0 .. 2 * expired_number
      BY DEF Responses!Inv, Responses!TypeOK
    <3>2. u.version > 0
      BY <1>2, MessageTypes
    <3> QED BY <3>1, <3>2, MessageAssumption DEF Responses!Fd
  <2> QED BY <1>2, <2>1 DEF Responses!Made, Responses!Struct
<1>4. /\ ~ Responses!Says(up[g], s) /\ ~ Responses!Says(down[g], s)
      /\ client.fd = g => ~ askedIn[s].answered /\ askedIn[s].on = g
  <2>1. Responses!Making(g, s)
    BY <1>1, <1>2 DEF Responses!Making
  <2> QED BY <1>2, <2>1 DEF Responses!Inv, Responses!OnItsWay
<1>5. UpShrinks /\ ~ Responses!Says(up'[g], s)
  BY <1>1, <1>4, UpKept
<1> HIDE DEF c, s, g
<1> QED BY <1>1, <1>2, <1>3, <1>4, <1>5, ResponseSent

\* What a request that the server takes up is about: a session, and the connection of
\* the user, in which nothing else is on its way for it.
LEMMA RequestTaken ==
  ASSUME Responses!Inv, NEW f \in Responses!Fd, userGate[f] = "open", up[f] # <<>>,
         up' = [up EXCEPT ![f] = Tail(up[f])]
  PROVE  /\ Head(up[f]).session \in Session /\ Head(up[f]).number \in 1 .. MaxAsked
         /\ u.version = f /\ f \in userConnection /\ UpShrinks
         /\ \A s \in Session : Head(up[f]).session = s
              => /\ ~ Responses!Says(up'[f], s) /\ ~ Responses!Says(down[f], s)
                 /\ ~ Responses!Making(f, s)
                 /\ client.fd = f => ~ askedIn[s].answered /\ askedIn[s].on = f
<1>1. up[f] \in Seq(Responses!Message)
  BY MessageTypes
<1>2. Head(up[f]) \in Responses!Message /\ Head(up[f]) = up[f][1] /\ 1 \in 1 .. Len(up[f])
  <2>1. Head(up[f]) \in Responses!Message /\ Head(up[f]) = up[f][1] /\ Len(up[f]) \in Nat /\ Len(up[f]) > 0
    BY <1>1, PopFacts
  <2> QED BY <2>1
<1>3. Head(up[f]) # Responses!Auth
  BY <1>2 DEF Responses!Inv, Responses!InTurn
<1>4. Head(up[f]).session \in Session /\ Head(up[f]).number \in 1 .. MaxAsked
  BY <1>2, <1>3 DEF Responses!Message
<1>5. u.version = f /\ f \in userConnection
  BY DEF Responses!Inv, Responses!InTurn
<1>6. /\ UpShrinks
      /\ \A s \in Session : Head(up[f]).session = s
           => Responses!Says(up[f], s) /\ ~ Responses!Says(up'[f], s)
  BY UpTaken
<1>7. \A s \in Session : Responses!Says(up[f], s)
        => /\ ~ Responses!Says(down[f], s) /\ ~ Responses!Making(f, s)
           /\ client.fd = f => ~ askedIn[s].answered /\ askedIn[s].on = f
  BY DEF Responses!Inv, Responses!OnItsWay
<1> QED BY <1>4, <1>5, <1>6, <1>7

\* Requests leave the connections, the gates and the client as they are.
LEMMA InTurnKept ==
  ASSUME Responses!Inv, UpShrinks,
         UNCHANGED <<u, userConnection, userGate, down, client>>
  PROVE  Responses!InTurn'
  BY DEF Responses!Inv, Responses!InTurn, UpShrinks

\* A new struct, which nobody holds, for a session that has none or whose last was made.
LEMMA RequestNew ==
  ASSUME Responses!Inv, NEW f \in Responses!Fd, NEW s \in Session, NEW n \in 1 .. MaxAsked,
         NEW p \in Responses!Package,
         u.version = f, UpShrinks, ~ Responses!Says(up'[f], s), ~ Responses!Says(down[f], s),
         client.fd = f => ~ askedIn[s].answered /\ askedIn[s].on = f,
         response[s] \notin working, Responses!Free(p),
         package' = [package EXCEPT ![p] = [Responses!NoPackage EXCEPT !.fd = f, !.session = s, !.number = n]],
         response' = [response EXCEPT ![s] = p],
         working' = working \cup {p},
         ran' = [ran EXCEPT ![s] = @ + 1],
         UNCHANGED <<u, userConnection, userGate, down, client, askedIn, refused, sentSince>>
  PROVE  Responses!Inv'
<1> DEFINE c == [Responses!NoPackage EXCEPT !.fd = f, !.session = s, !.number = n]
<1>1. /\ c \in Responses!Struct /\ c.fd = f /\ c.session = s /\ c.number = n /\ ~ c.made
      /\ c.version = None
  <2>1. n \in 0 .. MaxAsked /\ 0 \in 0 .. MaxAsked /\ 0 \in 0 .. 2 * expired_number
    BY MessageAssumption
  <2>2. /\ Responses!NoPackage \in Responses!Struct
        /\ Responses!NoPackage.made = FALSE /\ Responses!NoPackage.version = None
    BY <2>1 DEF Responses!NoPackage, Responses!Struct
  <2>3. ASSUME NEW r \in Responses!Struct
        PROVE  LET d == [r EXCEPT !.fd = f, !.session = s, !.number = n]
               IN  /\ d \in Responses!Struct /\ d.fd = f /\ d.session = s /\ d.number = n
                   /\ d.made = r.made /\ d.version = r.version
    BY <2>1 DEF Responses!Struct
  <2> QED BY <2>2, <2>3
<1> HIDE DEF c
<1>2. /\ package' = [package EXCEPT ![p] = c]
      /\ package \in [Responses!Package -> Responses!Struct]
      /\ response \in [Session -> Responses!Package \cup {None}]
      /\ working \subseteq Responses!Package
  BY DEF c, Responses!Inv, Responses!TypeOK
<1>3. /\ package'[p] = c /\ \A q \in Responses!Package \ {p} : package'[q] = package[q]
      /\ response'[s] = p /\ \A t \in Session \ {s} : response'[t] = response[t]
  BY <1>2
<1>4. p \notin working /\ \A t \in Session : response[t] # p
  BY DEF Responses!Free
<1>5. p # None /\ f # None /\ n > 0
  BY MessageTypes, MessageAssumption DEF Responses!Package
<1>6. ran \in [Session -> Nat] /\ ran' \in [Session -> Nat] /\ \A t \in Session \ {s} : ran'[t] = ran[t]
  BY DEF Responses!Inv, Responses!TypeOK
<1>7. Responses!TypeOK'
  <2>1. /\ package' \in [Responses!Package -> Responses!Struct]
        /\ response' \in [Session -> Responses!Package \cup {None}]
        /\ working' \subseteq Responses!Package
    BY <1>1, <1>2
  <2> QED BY <1>6, <2>1 DEF Responses!Inv, Responses!TypeOK, UpShrinks
<1>8. Responses!InTurn'
  BY InTurnKept
<1>9. Responses!StructsHeld'
  <2>1. ASSUME NEW t \in Session, response'[t] # None
        PROVE  LET r == package'[response'[t]] IN
               /\ r.session = t /\ r.number > 0
               /\ response'[t] \notin working' =>
                    /\ r.made /\ r.fd = None /\ r.index < u.index
                    /\ (sentSince[t] < expired_number => u.index <= r.index + 1 + sentSince[t])
    <3>1. CASE t = s
      BY <1>1, <1>3, <1>5, <3>1
    <3>2. CASE t # s
      <4>1. response'[t] = response[t] /\ response[t] \in Responses!Package \ {p}
        BY <1>2, <1>3, <1>4, <2>1, <3>2
      <4> QED BY <1>3, <2>1, <4>1 DEF Responses!Inv, Responses!StructsHeld
    <3> QED BY <3>1, <3>2
  <2>2. ASSUME NEW q \in working'
        PROVE  /\ package'[q].session \in Session /\ response'[package'[q].session] = q
               /\ ~ package'[q].made /\ package'[q].fd # None /\ package'[q].fd <= u.version
               /\ package'[q].version \in {None, package'[q].fd}
    <3>1. CASE q = p
      <4>1. package'[q] = c /\ response'[s] = q /\ f <= u.version
        BY <1>3, <3>1, MessageTypes
      <4> QED BY <1>1, <1>5, <4>1
    <3>2. CASE q # p
      <4>1. q \in working /\ package'[q] = package[q]
        BY <1>2, <1>3, <3>2
      <4>2. package[q].session \in Session /\ package[q].session # s
        BY <4>1 DEF Responses!Inv, Responses!StructsHeld
      <4>3. response'[package[q].session] = response[package[q].session]
        BY <1>3, <4>2
      <4>4. /\ response[package[q].session] = q
            /\ ~ package[q].made /\ package[q].fd # None /\ package[q].fd <= u.version
            /\ package[q].version \in {None, package[q].fd}
        BY <4>1 DEF Responses!Inv, Responses!StructsHeld
      <4> QED BY <4>1, <4>2, <4>3, <4>4
    <3> QED BY <3>1, <3>2
  <2> QED BY <2>1, <2>2 DEF Responses!Inv, Responses!StructsHeld
<1>10. Responses!OnItsWay'
  <2> SUFFICES ASSUME NEW e \in Responses!Fd, NEW t \in Session
               PROVE  /\ Responses!SaysOnce(up'[e], t) /\ Responses!SaysOnce(down[e], t)
                      /\ ~ (Responses!Says(up'[e], t) /\ Responses!Making(e, t)')
                      /\ ~ (Responses!Says(up'[e], t) /\ Responses!Says(down[e], t))
                      /\ ~ (Responses!Making(e, t)' /\ Responses!Says(down[e], t))
                      /\ client.fd = e /\ (Responses!Says(up'[e], t) \/ Responses!Making(e, t)'
                                           \/ Responses!Says(down[e], t))
                           => ~ askedIn[t].answered /\ askedIn[t].on = e
    BY DEF Responses!OnItsWay
  <2>1. Responses!Making(e, t)' => (t = s /\ e = f) \/ (t # s /\ Responses!Making(e, t))
    <3>1. CASE t = s
      BY <1>1, <1>3, <3>1 DEF Responses!Making
    <3>2. CASE t # s
      <4>1. response[t] # None => response[t] \in Responses!Package \ {p}
        BY <1>2, <1>4
      <4> QED BY <1>3, <3>2, <4>1 DEF Responses!Making
    <3> QED BY <3>1, <3>2
  <2>2. Responses!SaysOnce(up'[e], t) /\ (Responses!Says(up'[e], t) => Responses!Says(up[e], t))
    BY DEF UpShrinks
  <2> QED BY <2>1, <2>2 DEF Responses!Inv, Responses!OnItsWay
<1>11. Responses!Kept'
  <2>1. \A t \in Session : ran'[t] > 0 /\ sentSince[t] < expired_number => response'[t] # None
    BY <1>3, <1>5, <1>6 DEF Responses!Inv, Responses!Kept
  <2> QED BY <2>1 DEF Responses!Inv, Responses!Kept
<1>12. Responses!NoConflict'
  BY DEF Responses!Inv, Responses!NoConflict
<1> QED BY <1>7, <1>8, <1>9, <1>10, <1>11, <1>12 DEF Responses!Inv

\* The struct is being made: it will go to the connection that asks now.
LEMMA RequestWaits ==
  ASSUME Responses!Inv, NEW f \in Responses!Fd, NEW s \in Session,
         u.version = f, UpShrinks, ~ Responses!Says(up'[f], s), ~ Responses!Says(down[f], s),
         client.fd = f => ~ askedIn[s].answered /\ askedIn[s].on = f,
         response[s] \in working,
         package' = [package EXCEPT ![response[s]] = Responses!Again(response[s], f)],
         UNCHANGED <<u, response, working, userConnection, userGate, down, client, askedIn, ran,
                     refused, sentSince>>
  PROVE  Responses!Inv'
<1> DEFINE p == response[s]
           c == Responses!Again(p, f)
<1>1. /\ package \in [Responses!Package -> Responses!Struct]
      /\ response \in [Session -> Responses!Package \cup {None}]
      /\ working \subseteq Responses!Package /\ p \in Responses!Package
  BY DEF Responses!Inv, Responses!TypeOK
<1>2. /\ package[p] \in Responses!Struct /\ package[p].session = s /\ package[p].number > 0
      /\ ~ package[p].made
  <2>1. response[s] # None
    BY <1>1, MessageAssumption DEF Responses!Package
  <2> QED BY <1>1, <2>1 DEF Responses!Inv, Responses!StructsHeld
<1>3. u.index \in 0 .. 2 * expired_number
  BY DEF Responses!Inv, Responses!TypeOK
<1>4. /\ c \in Responses!Struct /\ c.fd = f /\ c.session = package[p].session
      /\ c.number = package[p].number /\ c.made = package[p].made /\ c.version = f
  BY <1>2, <1>3 DEF Responses!Again, Responses!Struct
<1> HIDE DEF c
<1>5. package'[p] = c /\ \A q \in Responses!Package \ {p} : package'[q] = package[q]
  BY <1>1 DEF c
<1>6. Responses!TypeOK'
  <2>1. package' \in [Responses!Package -> Responses!Struct]
    BY <1>1, <1>4 DEF c
  <2> QED BY <2>1 DEF Responses!Inv, Responses!TypeOK, UpShrinks
<1>7. Responses!InTurn'
  BY InTurnKept
<1>8. Responses!StructsHeld'
  <2>1. ASSUME NEW t \in Session, response[t] # None
        PROVE  LET r == package'[response[t]] IN
               /\ r.session = t /\ r.number > 0
               /\ response[t] \notin working =>
                    /\ r.made /\ r.fd = None /\ r.index < u.index
                    /\ (sentSince[t] < expired_number => u.index <= r.index + 1 + sentSince[t])
    <3>1. response[t] \in Responses!Package
      BY <1>1, <2>1
    <3>2. CASE response[t] = p
      <4>1. package[p].session = t
        BY <2>1, <3>2 DEF Responses!Inv, Responses!StructsHeld
      <4> QED BY <1>2, <1>4, <1>5, <3>2, <4>1
    <3>3. CASE response[t] # p
      BY <1>5, <2>1, <3>1, <3>3 DEF Responses!Inv, Responses!StructsHeld
    <3> QED BY <3>2, <3>3
  <2>2. ASSUME NEW q \in working
        PROVE  /\ package'[q].session \in Session /\ response[package'[q].session] = q
               /\ ~ package'[q].made /\ package'[q].fd # None /\ package'[q].fd <= u.version
               /\ package'[q].version \in {None, package'[q].fd}
    <3>1. CASE q = p
      <4>1. f # None /\ f <= u.version
        BY MessageTypes
      <4> QED BY <1>2, <1>4, <1>5, <3>1, <4>1
    <3>2. CASE q # p
      <4>1. package'[q] = package[q]
        BY <1>1, <1>5, <3>2
      <4>2. /\ package[q].session \in Session /\ response[package[q].session] = q
            /\ ~ package[q].made /\ package[q].fd # None /\ package[q].fd <= u.version
            /\ package[q].version \in {None, package[q].fd}
        BY DEF Responses!Inv, Responses!StructsHeld
      <4> QED BY <4>1, <4>2
    <3> QED BY <3>1, <3>2
  <2> QED BY <2>1, <2>2 DEF Responses!Inv, Responses!StructsHeld
<1>9. Responses!OnItsWay'
  <2> SUFFICES ASSUME NEW e \in Responses!Fd, NEW t \in Session
               PROVE  /\ Responses!SaysOnce(up'[e], t) /\ Responses!SaysOnce(down[e], t)
                      /\ ~ (Responses!Says(up'[e], t) /\ Responses!Making(e, t)')
                      /\ ~ (Responses!Says(up'[e], t) /\ Responses!Says(down[e], t))
                      /\ ~ (Responses!Making(e, t)' /\ Responses!Says(down[e], t))
                      /\ client.fd = e /\ (Responses!Says(up'[e], t) \/ Responses!Making(e, t)'
                                           \/ Responses!Says(down[e], t))
                           => ~ askedIn[t].answered /\ askedIn[t].on = e
    BY DEF Responses!OnItsWay
  <2>1. Responses!Making(e, t)' => (t = s /\ e = f) \/ (t # s /\ Responses!Making(e, t))
    <3>1. CASE t = s
      BY <1>4, <1>5, <3>1 DEF Responses!Making
    <3>2. CASE t # s
      <4>1. response[t] # None => response[t] \in Responses!Package \ {p}
        BY <1>1, <1>2, <3>2 DEF Responses!Inv, Responses!StructsHeld
      <4> QED BY <1>5, <3>2, <4>1 DEF Responses!Making
    <3> QED BY <3>1, <3>2
  <2>2. Responses!SaysOnce(up'[e], t) /\ (Responses!Says(up'[e], t) => Responses!Says(up[e], t))
    BY DEF UpShrinks
  <2> QED BY <2>1, <2>2 DEF Responses!Inv, Responses!OnItsWay
<1>10. Responses!Kept' /\ Responses!NoConflict'
  BY DEF Responses!Inv, Responses!Kept, Responses!NoConflict
<1> QED BY <1>6, <1>7, <1>8, <1>9, <1>10 DEF Responses!Inv

\* The server takes up a request: it is made, waited for or sent again, and never in
\* conflict with another of its session.
LEMMA RequestTakenUp ==
  ASSUME Responses!Inv, NEW f \in Responses!Fd, Responses!do_request(f)
  PROVE  Responses!Inv'
<1> DEFINE s == Head(up[f]).session
           n == Head(up[f]).number
           last == response[s]
<1>1. /\ userGate[f] = "open" /\ up[f] # <<>> /\ up' = [up EXCEPT ![f] = Tail(up[f])]
      /\ UNCHANGED <<userConnection, client, askedIn>>
  BY DEF Responses!do_request
<1>2. /\ s \in Session /\ n \in 1 .. MaxAsked
      /\ u.version = f /\ f \in userConnection /\ UpShrinks
      /\ ~ Responses!Says(up'[f], s) /\ ~ Responses!Says(down[f], s) /\ ~ Responses!Making(f, s)
      /\ client.fd = f => ~ askedIn[s].answered /\ askedIn[s].on = f
  BY <1>1, RequestTaken
<1>3. \/ /\ Responses!Kind(s) = "new"
         /\ \E p \in Responses!Package :
              /\ Responses!Free(p)
              /\ package' = [package EXCEPT ![p] = [Responses!NoPackage EXCEPT !.fd = f, !.session = s, !.number = n]]
              /\ response' = [response EXCEPT ![s] = p]
              /\ working' = working \cup {p}
         /\ ran' = [ran EXCEPT ![s] = ran[s] + 1]
         /\ UNCHANGED <<u, userGate, down, refused, sentSince>>
      \/ Responses!Kind(s) = "conflict"
      \/ /\ Responses!Kind(s) = "wait"
         /\ package' = [package EXCEPT ![last] = Responses!Again(last, f)]
         /\ UNCHANGED <<u, response, working, userGate, down, ran, refused, sentSince>>
      \/ /\ Responses!Kind(s) = "resend"
         /\ Responses!Respond(last, Responses!Again(last, f))
         /\ UNCHANGED <<working, userGate, ran, refused>>
  BY DEF Responses!do_request
<1> HIDE DEF s, n
<1>4. last # None => /\ last \in Responses!Package
                     /\ package[last] \in Responses!Struct
                     /\ package[last].session = s /\ package[last].number > 0
                     /\ last \notin working => package[last].made
                     /\ last \in working => /\ ~ package[last].made
                                            /\ package[last].version \in {None, package[last].fd}
  BY <1>2 DEF Responses!Inv, Responses!TypeOK, Responses!StructsHeld
<1>5. None \notin working
  BY MessageAssumption DEF Responses!Inv, Responses!TypeOK, Responses!Package
<1>6. Responses!Kind(s) # "conflict"
  <2> SUFFICES ASSUME last # None, package[last].version = f, ~ package[last].made
               PROVE  FALSE
    BY <1>2 DEF Responses!Kind, Responses!Fresh
  <2>1. last \in working /\ package[last].fd = f
    BY <1>4, MessageTypes
  <2> QED BY <1>2, <2>1 DEF Responses!Making
<1>7. CASE Responses!Kind(s) = "new"
  <2>1. last \notin working
    BY <1>4, <1>5, <1>7 DEF Responses!Kind
  <2> QED BY <1>1, <1>2, <1>3, <1>7, <2>1, RequestNew
<1>8. CASE Responses!Kind(s) = "wait"
  <2>1. last \in working
    BY <1>4, <1>8 DEF Responses!Kind
  <2> QED BY <1>1, <1>2, <1>3, <1>8, <2>1, RequestWaits
<1>9. CASE Responses!Kind(s) = "resend"
  <2> DEFINE c == Responses!Again(last, f)
  <2>1. last # None /\ package[last].made /\ last \notin working
    BY <1>4, <1>9 DEF Responses!Kind
  <2>2. u.index \in 0 .. 2 * expired_number
    BY DEF Responses!Inv, Responses!TypeOK
  <2>3. /\ c \in Responses!Struct /\ c.fd = f /\ c.session = s /\ c.number > 0 /\ c.made
        /\ c.index = u.index
    BY <1>2, <1>4, <2>1, <2>2 DEF Responses!Again, Responses!Struct
  <2>4. Responses!Respond(last, c) /\ UNCHANGED <<working, userGate, ran, refused>>
    BY <1>3, <1>9
  <2>5. working' = working \ {last}
    BY <2>1, <2>4
  <2> HIDE DEF c
  <2> QED BY <1>1, <1>2, <2>1, <2>3, <2>4, <2>5, ResponseSent
<1> QED BY <1>3, <1>6, <1>7, <1>8, <1>9

LEMMA ResponsesStep == Responses!Inv /\ [Responses!Next]_Responses!vars => Responses!Inv'
<1> SUFFICES ASSUME Responses!Inv, [Responses!Next]_Responses!vars PROVE Responses!Inv'
  OBVIOUS
<1>1. CASE UNCHANGED Responses!vars
  BY <1>1 DEF Responses!vars, Responses!server, Responses!Inv, Responses!TypeOK, Responses!InTurn,
              Responses!StructsHeld, Responses!OnItsWay, Responses!Making, Responses!Kept,
              Responses!NoConflict
<1>2. CASE Responses!Next
  BY <1>2, ClientConnects, ClientReceives, ClientLoses, ClientAsks, ClientAsksAgain, RequestHandled,
     SocketOpens, SocketAuths, SocketCloses, RequestTakenUp DEF Responses!Next
<1> QED BY <1>1, <1>2

\* A client that asks again over a new connection is not refused, and finds what was
\* made for it unless expired_number others were answered since, in whatever order
\* requests, responses and the ends of connections come.
THEOREM ResponsesTheorem == Responses!Spec => []ResponsesKept
<1>1. Responses!Init => Responses!Inv
  <2> SUFFICES ASSUME Responses!Init PROVE Responses!Inv
    OBVIOUS
  <2>1. \A f \in Responses!Fd : up[f] = <<>> /\ down[f] = <<>> /\ userGate[f] = "none"
    BY DEF Responses!Init
  <2>2. Responses!TypeOK
    <3>1. 0 \in 0 .. MaxVersion /\ 0 \in 0 .. MaxAsked /\ 0 \in 0 .. MaxSent /\ 0 \in 0 .. 2 * expired_number
      BY MessageAssumption
    <3>2. Responses!NoPackage \in Responses!Struct
      BY <3>1 DEF Responses!NoPackage, Responses!Struct
    <3>3. <<>> \in Seq(Responses!Message)
      OBVIOUS
    <3>4. /\ u \in [version : 0 .. MaxVersion, index : 0 .. 2 * expired_number, fd : Responses!Fd \cup {None}]
          /\ client \in [fd : Responses!Fd \cup {None}, made : 0 .. MaxVersion]
      BY <3>1 DEF Responses!Init
    <3>5. askedIn \in [Session -> [number : 0 .. MaxAsked, answered : BOOLEAN, on : 0 .. MaxVersion]]
      BY <3>1 DEF Responses!Init
    <3>6. /\ response \in [Session -> Responses!Package \cup {None}]
          /\ package \in [Responses!Package -> Responses!Struct]
          /\ up \in [Responses!Fd -> Seq(Responses!Message)]
          /\ down \in [Responses!Fd -> Seq(Responses!Message)]
      BY <3>2, <3>3 DEF Responses!Init
    <3>7. /\ working \subseteq Responses!Package /\ userConnection \subseteq Responses!Fd
          /\ userGate \in [Responses!Fd -> {"none", "handshake", "open", "false", "closed"}]
          /\ ran \in [Session -> Nat] /\ refused \in BOOLEAN /\ sentSince \in [Session -> 0 .. MaxSent]
      BY <3>1 DEF Responses!Init
    <3> QED BY <3>4, <3>5, <3>6, <3>7 DEF Responses!TypeOK
  <2>3. Responses!InTurn
    <3>1. 1 .. Len(<<>>) = {} /\ \A f \in Responses!Fd : f > 0
      BY DEF Responses!Fd
    <3>2. u.version = 0 /\ client.made = 0 /\ client.fd = None /\ userConnection = {}
      BY DEF Responses!Init
    <3> QED BY <2>1, <3>1, <3>2 DEF Responses!InTurn
  <2>4. Responses!StructsHeld
    BY MessageAssumption DEF Responses!Init, Responses!StructsHeld
  <2>5. Responses!OnItsWay
    <3> SUFFICES ASSUME NEW f \in Responses!Fd, NEW s \in Session
                 PROVE  /\ Responses!SaysOnce(up[f], s) /\ Responses!SaysOnce(down[f], s)
                        /\ ~ Responses!Says(up[f], s) /\ ~ Responses!Says(down[f], s)
                        /\ ~ Responses!Making(f, s)
      BY DEF Responses!OnItsWay
    <3>1. ~ Responses!Making(f, s)
      BY DEF Responses!Making, Responses!Init
    <3> QED BY <2>1, <3>1, SaysNothing
  <2>6. Responses!Kept /\ Responses!NoConflict
    BY DEF Responses!Init, Responses!Kept, Responses!NoConflict
  <2> QED BY <2>2, <2>3, <2>4, <2>5, <2>6 DEF Responses!Inv
<1>2. Responses!Inv => ResponsesKept
  BY DEF Responses!Inv, Responses!Kept, Responses!CachedLongEnough, ResponsesKept
<1> QED BY <1>1, <1>2, ResponsesStep, PTL DEF Responses!Spec

=============================================================================
