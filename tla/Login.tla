------------------------------- MODULE Login -------------------------------
(***************************************************************************)
(* From the login server to the agent: logind (on snax.loginserver), the   *)
(* gate of the game server (gated.lua on msgserver.lua), discoveryd and    *)
(* the agent service, which holds an object for each user.  A user logs in *)
(* at the first, is known to the gate and the agent from then on, and      *)
(* opens connections to the gate, the n-th with index n.                   *)
(*                                                                         *)
(* Services handle one message at a time and yield in their calls.  A      *)
(* command of discoveryd or of the agent that raises an error is logged    *)
(* and never answered (service.lua), so that its caller waits for good.    *)
(***************************************************************************)
EXTENDS Integers, FiniteSets

CONSTANTS Uid,
          MaxTry,   \* bound on the login attempts of a user
          MaxFd     \* bound on the connections to the gate

Fd == 1 .. MaxFd
Try == Uid \X (1 .. MaxTry)
PoolSize == 1      \* discoveryd starts one agent service

VARIABLES
  try,          \* login attempts: none, at logind, or how they were answered
  user_login,   \* loginserver: users locked by an attempt
  online,       \* logind: user_online[uid].subid, 0 if there is none
  internal_id,  \* gated
  entering,     \* gated: login_handler is called, waits for discoveryd or the agent
  id,           \* gated: the subid of the user's login_handler
  users,        \* gated: users[uid]; subid 0 if there is none
  pool_id,      \* discoveryd: agents["agent"].id
  objs,         \* agent: subid of the object of the user, and authed
  fds,          \* agent: fd -> user
  gate,         \* gateserver: state of the socket
  owner,        \* whose connection it is
  first,        \* has the first package of the connection come
  handshake,    \* msgserver: handshake[fd] is set
  version,      \* msgserver: version of the user
  connection,   \* msgserver: connection[fd] is set
  starting,     \* gated: start_handler waits for auth of the agent
  afk,          \* gated: disconnect_handler waits for afk of the agent
  served        \* requests handed to the agent: <<came over, handed over as>>

login == <<try, user_login, online, internal_id, entering, id, pool_id>>
conns == <<gate, owner, first, handshake, version, connection>>
vars == <<login, users, objs, fds, conns, starting, afk, served>>

User == [subid : Nat, online : BOOLEAN, fd : 0 .. MaxFd]
Object == [subid : Nat, authed : BOOLEAN]
Absent == [subid |-> 0, online |-> FALSE, fd |-> 0]

TypeOK ==
  /\ try \in [Try -> {"none", "calling", "200", "403", "406"}]
  /\ user_login \subseteq Uid
  /\ online \in [Uid -> Nat] /\ internal_id \in Nat
  /\ entering \in [Uid -> {"no", "call", "enter", "login", "never"}] /\ id \in [Uid -> Nat]
  /\ users \in [Uid -> User]
  /\ \A u \in Uid : users[u].online => users[u].fd # 0 /\ users[u].subid # 0
  /\ pool_id \in Nat
  /\ objs \in [Uid -> Object]
  /\ fds \in [Fd -> Uid \cup {"none"}]
  /\ gate \in [Fd -> {"none", "open", "false", "closed"}]
  /\ owner \in [Fd -> Uid \cup {"none"}]
  /\ handshake \subseteq Fd /\ connection \subseteq Fd /\ starting \subseteq Fd /\ afk \subseteq Fd
  /\ version \in [Uid -> 0 .. MaxFd]

Init ==
  /\ try = [t \in Try |-> "none"] /\ user_login = {}
  /\ online = [u \in Uid |-> 0] /\ internal_id = 0
  /\ entering = [u \in Uid |-> "no"] /\ id = [u \in Uid |-> 0]
  /\ users = [u \in Uid |-> Absent]
  /\ pool_id = 1
  /\ objs = [u \in Uid |-> [subid |-> 0, authed |-> FALSE]]
  /\ fds = [f \in Fd |-> "none"]
  /\ gate = [f \in Fd |-> "none"] /\ owner = [f \in Fd |-> "none"]
  /\ first = {} /\ handshake = {} /\ version = [u \in Uid |-> 0]
  /\ connection = {} /\ starting = {} /\ afk = {}
  /\ served = {}

\* accept of loginserver once the slave has authenticated the user, and
\* login_handler of logind up to the call of the gate.
Attempt(u, n) ==
  /\ try[<<u, n>>] = "none"
  /\ \/ /\ u \in user_login
        /\ try' = [try EXCEPT ![<<u, n>>] = "406"]
        /\ UNCHANGED <<user_login, entering>>
     \/ /\ u \notin user_login /\ online[u] # 0
        /\ try' = [try EXCEPT ![<<u, n>>] = "403"]
        /\ UNCHANGED <<user_login, entering>>
     \/ /\ u \notin user_login /\ online[u] = 0
        /\ try' = [try EXCEPT ![<<u, n>>] = "calling"]
        /\ user_login' = user_login \cup {u}
        /\ entering' = [entering EXCEPT ![u] = "call"]
  /\ UNCHANGED <<online, internal_id, id, pool_id, users, objs, fds, conns, starting, afk, served>>

\* login_handler of the gate up to its call of discoveryd.  It tests that
\* users[uid] is nil; no attempt gets here for a user who is online.
Handle(u) ==
  /\ entering[u] = "call"
  /\ internal_id' = internal_id + 1
  /\ id' = [id EXCEPT ![u] = internal_id']
  /\ entering' = [entering EXCEPT ![u] = "enter"]
  /\ UNCHANGED <<try, user_login, online, pool_id, users, objs, fds, conns, starting, afk, served>>

\* enter of discoveryd: the next entry of the pool, if there is one, and login of
\* the agent begins; without, the error is logged and nobody answered.
Enter(u) ==
  /\ entering[u] = "enter"
  /\ IF pool_id <= PoolSize
       THEN /\ entering' = [entering EXCEPT ![u] = "login"]
            /\ objs' = [objs EXCEPT ![u].subid = id[u]]
       ELSE /\ entering' = [entering EXCEPT ![u] = "never"]
            /\ UNCHANGED objs
  /\ pool_id' = pool_id + 1
  /\ UNCHANGED <<try, user_login, online, internal_id, id, users, fds, conns, starting, afk, served>>

\* login_handler of the gate, and of logind, go on after their calls.
Enters(u, n, user) ==
  /\ entering[u] = "login" /\ try[<<u, n>>] = "calling"
  /\ entering' = [entering EXCEPT ![u] = "no"]
  /\ users' = [users EXCEPT ![u] = user]
  /\ online' = [online EXCEPT ![u] = user.subid]
  /\ user_login' = user_login \ {u}
  /\ try' = [try EXCEPT ![<<u, n>>] = "200"]
  /\ UNCHANGED <<internal_id, id, pool_id, objs, fds, conns, starting, afk, served>>

\* The agent has loaded the user; gated and logind note him, the lock is taken
\* away and the client told.
Entered(u, n) == Enters(u, n, [Absent EXCEPT !.subid = id[u]])

(***************************************************************************)
(* Connections to the gate                                                 *)
(***************************************************************************)
Connect(u, f) ==
  /\ gate[f] = "none" /\ \A g \in 1 .. f - 1 : gate[g] # "none"
  /\ users[u].subid # 0
  /\ gate' = [gate EXCEPT ![f] = "open"]
  /\ owner' = [owner EXCEPT ![f] = u]
  /\ handshake' = handshake \cup {f}
  /\ UNCHANGED <<login, users, objs, fds, first, version, connection, starting, afk, served>>

\* A fault for mutation: the user is online before the agent has been called.
Auth_online(f) ==
  /\ gate[f] = "open" /\ f \in handshake /\ f \notin first
  /\ first' = first \cup {f}
  /\ f > version[owner[f]]
  /\ version' = [version EXCEPT ![owner[f]] = f]
  /\ connection' = connection \cup {f}
  /\ users' = [users EXCEPT ![owner[f]] = [@ EXCEPT !.online = TRUE, !.fd = f]]
  /\ starting' = starting \cup {f} /\ handshake' = handshake \ {f}
  /\ UNCHANGED <<login, gate, objs, fds, owner, afk, served>>

\* handler.message, auth and do_auth for the first package: accepted if its
\* index is greater than the last; then start_handler, which calls the agent
\* unless the user is online.  handshake[fd] is cleared when it returns.
Auth(f) ==
  /\ gate[f] = "open" /\ f \in handshake /\ f \notin first
  /\ first' = first \cup {f}
  /\ IF f <= version[owner[f]]
       THEN /\ gate' = [gate EXCEPT ![f] = "false"]
            /\ handshake' = handshake \ {f}
            /\ UNCHANGED <<version, connection, starting>>
       ELSE /\ version' = [version EXCEPT ![owner[f]] = f]
            /\ connection' = connection \cup {f}
            /\ IF users[owner[f]].online
                 THEN handshake' = handshake \ {f} /\ UNCHANGED starting
                 ELSE starting' = starting \cup {f} /\ UNCHANGED handshake
            /\ UNCHANGED gate
  /\ UNCHANGED <<login, users, objs, fds, owner, afk, served>>

\* auth of the agent begins: the object gets the connection.
AgentAuth(f) ==
  /\ f \in starting /\ fds[f] = "none"
  /\ fds' = [fds EXCEPT ![f] = owner[f]]
  /\ objs' = [objs EXCEPT ![owner[f]].authed = TRUE]
  /\ UNCHANGED <<login, users, conns, starting, afk, served>>

\* auth of the agent has called its modules and returns, so does start_handler.
Started(f) ==
  /\ f \in starting /\ fds[f] # "none"
  /\ starting' = starting \ {f}
  /\ users' = [users EXCEPT ![owner[f]] = [@ EXCEPT !.online = TRUE, !.fd = f]]
  /\ handshake' = handshake \ {f}
  /\ UNCHANGED <<login, objs, fds, gate, owner, first, version, connection, afk, served>>

\* A request after the first package.  While handshake[fd] is set it is taken
\* for one: 404 or 400, and the connection is closed.  Otherwise msg_handler
\* hands it to the agent as coming from u.fd, or drops it.
Request(f) ==
  /\ gate[f] = "open" /\ f \in first
  /\ IF f \in handshake
       THEN /\ gate' = [gate EXCEPT ![f] = "false"]
            /\ handshake' = handshake \ {f}
            /\ UNCHANGED served
       ELSE /\ served' = IF users[owner[f]].online
                           THEN served \cup {<<f, users[owner[f]].fd>>} ELSE served
            /\ UNCHANGED <<gate, handshake>>
  /\ UNCHANGED <<login, users, objs, fds, owner, first, version, connection, starting, afk>>

\* handler.disconnect and disconnect_handler, whose assert stops it.  afk of
\* the agent fails in save_data of logout.lua and is never answered: the gate
\* keeps the user online.
Disconnect(f) ==
  /\ gate[f] \in {"open", "false"}
  /\ gate' = [gate EXCEPT ![f] = "closed"]
  /\ handshake' = handshake \ {f}
  /\ connection' = connection \ {f}
  /\ LET u == users[owner[f]] IN
       /\ afk' = IF f \in connection /\ u.online /\ u.fd = f THEN afk \cup {f} ELSE afk
  /\ UNCHANGED <<login, users, objs, fds, owner, first, version, starting, served>>

LoginStep == \E u \in Uid : Handle(u) \/ Enter(u) \/ \E n \in 1 .. MaxTry : Entered(u, n)
Next ==
  \/ LoginStep
  \/ \E u \in Uid : \/ \E n \in 1 .. MaxTry : Attempt(u, n)
                    \/ \E f \in Fd : Connect(u, f)
  \/ \E f \in Fd : Auth(f) \/ AgentAuth(f) \/ Started(f) \/ Request(f) \/ Disconnect(f)

\* The services go on; clients do as they like.
Spec == Init /\ [][Next]_vars /\ WF_vars(LoginStep)

(***************************************************************************)
(* Properties                                                              *)
(***************************************************************************)
\* gated.lua:19 "login server disallow multi login, so login_handler never be
\* reentry": the lock of another service keeps a user's logins apart.
NeverReentered ==
  \A u \in Uid : /\ Cardinality({n \in 1 .. MaxTry : try[<<u, n>>] = "calling"}) <= 1
                 /\ entering[u] # "no" => u \in user_login /\ users[u].subid = 0

\* A user the login server has online has the same subid at the gate and in the
\* agent; connections of a user are accepted for that subid only.
SubidsAgree ==
  \A u \in Uid : /\ online[u] # 0 => users[u].subid = online[u] /\ objs[u].subid = online[u]
                 /\ \A v \in Uid : online[u] # 0 /\ online[u] = online[v] => u = v

\* When the gate hands the agent a request or tells it of a lost connection, the
\* agent knows the connection, and its object is authenticated as logout asserts.
AgentKnows ==
  \A f \in afk \cup {s[2] : s \in served} :
     fds[f] # "none" /\ objs[fds[f]].authed
(***************************************************************************)
(* What is inductive                                                       *)
(***************************************************************************)
\* The lock of a user stands for one attempt; while the gate handles it the user
\* is not known there, and has the number the agent is told.
LockHeld ==
  \A u \in Uid :
    /\ \A n, m \in 1 .. MaxTry : try[<<u, n>>] = "calling" /\ try[<<u, m>>] = "calling" => n = m
    /\ \A n \in 1 .. MaxTry : try[<<u, n>>] = "calling" => u \in user_login
    /\ entering[u] # "no" => u \in user_login /\ online[u] = 0
    /\ entering[u] \in {"enter", "login", "never"} => id[u] # 0
    /\ entering[u] = "login" => objs[u].subid = id[u]

\* A number is given to one user, who keeps it once he is online.
OneNumber ==
  \A u \in Uid :
    /\ users[u].subid = online[u]
    /\ online[u] # 0 => online[u] = id[u] /\ objs[u].subid = online[u]
    /\ id[u] <= internal_id
    /\ \A v \in Uid : id[u] # 0 /\ id[u] = id[v] => u = v

\* A connection has the user who opened it; the agent that knows it has his
\* object authenticated, and so has it for the connection the gate has noted.
FdsKnown ==
  /\ \A f \in Fd : gate[f] # "none" => owner[f] \in Uid /\ users[owner[f]].subid # 0
  /\ \A f \in starting \cup connection \cup handshake : gate[f] # "none"
  /\ \A f \in Fd : fds[f] # "none" => gate[f] # "none" /\ fds[f] = owner[f] /\ objs[fds[f]].authed
  /\ \A u \in Uid : users[u].online => fds[users[u].fd] # "none"
  /\ served \subseteq Fd \X Fd

Inv == TypeOK /\ LockHeld /\ OneNumber /\ FdsKnown /\ AgentKnows

=============================================================================
