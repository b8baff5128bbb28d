----------------------------- MODULE MsgServer -----------------------------
(***************************************************************************)
(* Requests of one user over connections that come and go (msgserver.lua,  *)
(* on gateserver.lua).  The user authenticates each connection with a      *)
(* greater index, the version.  The server keeps the response of every     *)
(* request under the number the client gave it, its session: a client that *)
(* has lost its connection asks again over the next one and gets what is   *)
(* kept, or what is still being made.                                      *)
(*                                                                         *)
(* The client is the one of the examples: it asks again what has not been  *)
(* answered, once over each connection, and uses a session for something   *)
(* new only in the connection that has answered it.  The index it sends    *)
(* over its n-th connection is n, and so is here the socket.               *)
(***************************************************************************)
EXTENDS Integers, Sequences, FiniteSets, FiniteSetsExt

CONSTANTS
  Session,
  expired_number,
  Overlap,      \* whether a lost connection may still be open when the next one opens
  MaxVersion,   \* bound of the model: connections
  MaxAsked,     \* bound of the model: requests made in a session
  MaxSent,      \* bound of the model: responses sent
  MaxPackage,   \* bound of the model: structs of responses at a time, numbers
  None

Fd == 1 .. MaxVersion
Package == 1 .. MaxPackage
Auth == [session |-> None, number |-> 0]
Message == [session : Session, number : 1 .. MaxAsked] \cup {Auth}

Struct ==
  [fd : Fd \cup {None}, made : BOOLEAN, number : 0 .. MaxAsked, session : Session \cup {None},
   version : Fd \cup {None}, index : 0 .. 2 * expired_number]

VARIABLES
  u,           \* user_online[username] of this user, but for the responses
  response,    \* u.response
  package,     \* the structs in it, or still held by a request: p
  working,     \* requests in request_handler: the struct of each, and its session
  connection,  \* the sockets of the user, with an entry in connection of msgserver
  gate,        \* connection of gateserver: none, handshake, open, false (closing) or closed
  up, down,    \* what is on its way on each socket
  client,      \* of the client: its connection and how many it has made
  asked,       \* of a session: how often it was used, whether that is answered, and where
  ran,         \* history: how often request_handler was called for the last use
  refused,     \* history: "Conflict session"
  sent         \* history: responses sent since a session's was made, or sent again

server == <<u, response, package, working, connection, gate>>
vars == <<server, up, down, client, asked, ran, refused, sent>>

TypeOK ==
  /\ u \in [version : 0 .. MaxVersion, index : 0 .. 2 * expired_number, fd : Fd \cup {None}]
  /\ response \in [Session -> Package \cup {None}]
  /\ package \in [Package -> Struct]
  /\ working \subseteq Package
  /\ connection \subseteq Fd
  /\ gate \in [Fd -> {"none", "handshake", "open", "false", "closed"}]
  /\ up \in [Fd -> Seq(Message)] /\ down \in [Fd -> Seq(Message)]
  /\ client \in [fd : Fd \cup {None}, made : 0 .. MaxVersion]
  /\ asked \in [Session -> [number : 0 .. MaxAsked, answered : BOOLEAN, on : 0 .. MaxVersion]]
  /\ ran \in [Session -> Nat] /\ refused \in BOOLEAN
  /\ sent \in [Session -> 0 .. MaxSent]

NoPackage == [fd |-> None, made |-> FALSE, number |-> 0, session |-> None, version |-> None, index |-> 0]

Init ==
  /\ u = [version |-> 0, index |-> 0, fd |-> None]
  /\ response = [s \in Session |-> None]
  /\ package = [p \in Package |-> NoPackage]
  /\ working = {} /\ connection = {}
  /\ gate = [f \in Fd |-> "none"]
  /\ up = [f \in Fd |-> <<>>] /\ down = up
  /\ client = [fd |-> None, made |-> 0]
  /\ asked = [s \in Session |-> [number |-> 0, answered |-> TRUE, on |-> 0]]
  /\ ran = [s \in Session |-> 0] /\ refused = FALSE
  /\ sent = [s \in Session |-> 0]

-----------------------------------------------------------------------------

\* A fault: a response expires one response too early.
Expired_more(i) == i <= expired_number

-----------------------------------------------------------------------------
(***************************************************************************)
(* The client.                                                             *)
(***************************************************************************)
Connect ==
  /\ client.fd = None /\ client.made < MaxVersion
  /\ client' = [fd |-> client.made + 1, made |-> client.made + 1]
  /\ up' = [up EXCEPT ![client.made + 1] = <<Auth>>]
  /\ UNCHANGED <<server, down, asked, ran, refused, sent>>

\* A new request: a session never used, or answered in this connection.
Ask(s) ==
  /\ client.fd # None
  /\ asked[s].answered /\ asked[s].number < MaxAsked /\ asked[s].on \in {0, client.fd}
  /\ asked' = [asked EXCEPT ![s] = [number |-> @.number + 1, answered |-> FALSE, on |-> client.fd]]
  /\ up' = [up EXCEPT ![client.fd] = Append(@, [session |-> s, number |-> asked[s].number + 1])]
  /\ ran' = [ran EXCEPT ![s] = 0]
  /\ UNCHANGED <<server, down, client, refused, sent>>

\* "request again", in the next connection.
AskAgain(s) ==
  /\ client.fd # None /\ ~asked[s].answered /\ asked[s].on # client.fd
  /\ asked' = [asked EXCEPT ![s].on = client.fd]
  /\ up' = [up EXCEPT ![client.fd] = Append(@, [session |-> s, number |-> asked[s].number])]
  /\ UNCHANGED <<server, down, client, ran, refused, sent>>

Receive ==
  /\ client.fd # None /\ down[client.fd] # <<>>
  /\ LET m == Head(down[client.fd]) IN
     asked' = [asked EXCEPT ![m.session].answered = TRUE]
  /\ down' = [down EXCEPT ![client.fd] = Tail(@)]
  /\ UNCHANGED <<server, up, client, ran, refused, sent>>

\* The connection is lost, and what is on its way to the client.  What it
\* has sent may still come.
Lose ==
  /\ client.fd # None
  /\ down' = [down EXCEPT ![client.fd] = <<>>]
  /\ client' = [client EXCEPT !.fd = None]
  /\ UNCHANGED <<server, up, asked, ran, refused, sent>>

-----------------------------------------------------------------------------
(***************************************************************************)
(* The server: connecting and leaving.                                     *)
(***************************************************************************)
\* MSG.open and handler.connect.
Open(f) ==
  /\ gate[f] = "none" /\ up[f] # <<>>
  /\ Overlap \/ \A e \in 1 .. f - 1 : gate[e] = "closed"
  /\ gate' = [gate EXCEPT ![f] = "handshake"]
  /\ UNCHANGED <<u, response, package, working, connection, up, down, client, asked, ran,
                 refused, sent>>

\* auth: "403 Index Expired", or the connection becomes that of the user.
auth(f) ==
  /\ gate[f] = "handshake" /\ up[f] # <<>>
  /\ up' = [up EXCEPT ![f] = Tail(@)]
  /\ IF f <= u.version
     THEN gate' = [gate EXCEPT ![f] = "false"] /\ UNCHANGED <<u, connection>>
     ELSE /\ gate' = [gate EXCEPT ![f] = "open"]
          /\ u' = [u EXCEPT !.version = f, !.fd = f]
          /\ connection' = connection \cup {f}
  /\ UNCHANGED <<response, package, working, down, client, asked, ran, refused, sent>>

\* MSG.close of a connection the client has lost, or the server has closed,
\* and handler.disconnect.
disconnect(f) ==
  /\ gate[f] \in {"handshake", "open", "false"} /\ (client.fd # f \/ gate[f] = "false")
  /\ gate' = [gate EXCEPT ![f] = "closed"]
  /\ up' = [up EXCEPT ![f] = <<>>] /\ down' = [down EXCEPT ![f] = <<>>]
  /\ connection' = connection \ {f}
  /\ u' = IF f \in connection THEN [u EXCEPT !.fd = None] ELSE u
  /\ client' = IF client.fd = f THEN [client EXCEPT !.fd = None] ELSE client
  /\ UNCHANGED <<response, package, working, asked, ran, refused, sent>>

-----------------------------------------------------------------------------
(***************************************************************************)
(* The server: requests.                                                   *)
(***************************************************************************)
\* socketdriver.send to f, if the client still listens there.
Sent(f, m) == IF client.fd = f THEN [down EXCEPT ![f] = Append(@, m)] ELSE down

\* A struct nobody holds.
Free(p) == p \notin working /\ \A s \in Session : response[s] # p

Expired(i) == i < expired_number

\* retire_response, when the index was set to i and the struct of session s
\* was made complete: which responses are kept, with what index.
Complete(pk, p) == p # None /\ pk[p].fd = None
Retire(pk, i) ==
  LET old == {s \in Session : Complete(pk, response[s]) /\ Expired(pk[response[s]].index)}
      kept == {s \in Session \ old : Complete(pk, response[s])}
      moved == [p \in Package |-> IF \E s \in kept : response[s] = p
                                  THEN [pk[p] EXCEPT !.index = @ - expired_number] ELSE pk[p]]
  IN IF i < expired_number * 2
     THEN UNCHANGED response /\ package' = pk /\ u' = [u EXCEPT !.index = i]
     ELSE /\ response' = [s \in Session |-> IF s \in old THEN None ELSE response[s]]
          /\ package' = moved
          /\ u' = [u EXCEPT !.index = Max({0} \cup {moved[response[s]].index : s \in kept}) + 1]

\* The end of do_request for the struct p, of which pk is the new contents:
\* the response goes to the connection that has asked last.
Respond(p, pk) ==
  LET fd == pk.fd IN
  /\ down' = IF fd \in connection THEN Sent(fd, [session |-> pk.session, number |-> pk.number]) ELSE down
  /\ Retire([package EXCEPT ![p] = [pk EXCEPT !.fd = None]], u.index + 1)
  /\ sent' = [t \in Session |-> IF t = pk.session THEN 0 ELSE IF sent[t] < MaxSent THEN sent[t] + 1 ELSE sent[t]]

\* "session can be reuse in the same connection"
Fresh(p) == package[p].version = u.version

\* What a request for session s is.
Kind(s) ==
  LET p == response[s] IN
  IF p = None THEN "new"
  ELSE IF Fresh(p) THEN (IF package[p].made THEN "new" ELSE "conflict")
  ELSE IF package[p].made THEN "resend" ELSE "wait"

\* "update version/index, change return fd."
Again(p, fd) == [package[p] EXCEPT !.fd = fd, !.version = u.version, !.index = u.index]

\* do_request up to request_handler, or to its end.
do_request(f) ==
  /\ gate[f] = "open" /\ up[f] # <<>>
  /\ up' = [up EXCEPT ![f] = Tail(@)]
  /\ LET m == Head(up[f])
         s == m.session
         last == response[s]
     IN \/ \* a new request
           /\ Kind(s) = "new"
           /\ \E p \in Package :
                /\ Free(p) /\ \A q \in 1 .. p - 1 : ~Free(q)
                /\ package' = [package EXCEPT ![p] = [NoPackage EXCEPT !.fd = f, !.session = s, !.number = m.number]]
                /\ response' = [response EXCEPT ![s] = p]
                /\ working' = working \cup {p}
           /\ ran' = [ran EXCEPT ![s] = @ + 1]
           /\ UNCHANGED <<u, gate, down, refused, sent>>
        \/ \* "Conflict session"
           /\ Kind(s) = "conflict"
           /\ response' = [response EXCEPT ![s] = None]
           /\ gate' = [gate EXCEPT ![f] = "false"] /\ refused' = TRUE
           /\ UNCHANGED <<u, package, working, down, ran, sent>>
        \/ \* "already request, but response is not ready"
           /\ Kind(s) = "wait"
           /\ package' = [package EXCEPT ![last] = Again(last, f)]
           /\ UNCHANGED <<u, response, working, gate, down, ran, refused, sent>>
        \/ \* "resend response."
           /\ Kind(s) = "resend"
           /\ Respond(last, Again(last, f))
           /\ UNCHANGED <<working, gate, ran, refused>>
  /\ UNCHANGED <<connection, client, asked>>

\* request_handler returns.  "YIELD here, socket may close."
Made(p) == [package[p] EXCEPT !.made = TRUE, !.version = u.version, !.index = u.index]

Handled(p) ==
  /\ p \in working
  /\ working' = working \ {p}
  /\ Respond(p, Made(p))
  /\ UNCHANGED <<connection, gate, up, client, asked, ran, refused>>

Next ==
  \/ Connect \/ Receive \/ Lose
  \/ \E s \in Session : Ask(s) \/ AskAgain(s)
  \/ \E p \in Package : Handled(p)
  \/ \E f \in Fd : Open(f) \/ auth(f) \/ disconnect(f) \/ do_request(f)

Spec == Init /\ [][Next]_vars

\* What is on its way arrives, request_handler returns, and the client asks
\* again when it has a connection.
Fairness ==
  /\ WF_vars(Receive)
  /\ \A s \in Session : WF_vars(AskAgain(s))
  /\ \A p \in Package : WF_vars(Handled(p))
  /\ \A f \in Fd : WF_vars(Open(f)) /\ WF_vars(auth(f)) /\ WF_vars(disconnect(f))
                   /\ WF_vars(do_request(f))
FairSpec == Spec /\ Fairness

-----------------------------------------------------------------------------

\* A client that asks again only in a new connection, after the end of the
\* last one, is never refused.
NoConflict == ~refused

\* "expired_number : the number of the response message cached after sending
\* out": the response to a request is kept until so many others were sent.
CachedLongEnough ==
  \A s \in Session :
    asked[s].number > 0 /\ ran[s] > 0 /\ sent[s] < expired_number => response[s] # None

\* As long as the client stays connected it gets its responses.
Answered ==
  \A s \in Session :
    (client.fd # None /\ ~asked[s].answered) ~> (client.fd = None \/ asked[s].answered)
(***************************************************************************)
(* What is inductive, when a connection ends before the next one opens     *)
(***************************************************************************)
Says(q, s) == \E i \in 1 .. Len(q) : q[i].session = s
SaysOnce(q, s) == \A i, j \in 1 .. Len(q) : q[i].session = s /\ q[j].session = s => i = j
Making(f, s) == response[s] # None /\ response[s] \in working /\ package[response[s]].fd = f

\* The connections open and close in turn, and the version is that of the last.
InTurn ==
  /\ client.fd # None => client.fd = client.made
  /\ u.version <= client.made
  /\ \A f \in Fd : f > client.made => up[f] = <<>> /\ down[f] = <<>> /\ gate[f] = "none"
  /\ \A e, f \in Fd : e < f /\ gate[f] # "none" => gate[e] = "closed"
  /\ \A f \in Fd : /\ gate[f] # "false"
                   /\ gate[f] = "open" => u.version = f
                   /\ gate[f] \in {"none", "handshake"} => u.version < f
  /\ connection = {f \in Fd : gate[f] = "open"}
  /\ \A f \in Fd : \A i \in 1 .. Len(up[f]) :
       up[f][i] = Auth => i = 1 /\ gate[f] \in {"none", "handshake"}

\* A struct is that of one session; it is being made, for a connection that asked
\* last, or complete, and then as old as responses were sent since.
StructsHeld ==
  /\ \A s \in Session : response[s] # None =>
       LET p == package[response[s]] IN
       /\ p.session = s /\ p.number > 0
       /\ response[s] \notin working =>
            p.made /\ p.fd = None /\ p.index < u.index
            /\ (sent[s] < expired_number => u.index <= p.index + 1 + sent[s])
  /\ \A p \in working :
       /\ package[p].session \in Session /\ response[package[p].session] = p
       /\ ~package[p].made /\ package[p].fd # None /\ package[p].fd <= u.version
       /\ package[p].version \in {None, package[p].fd}
  /\ u.index < 2 * expired_number

\* A request is on its way up, being made, or on its way down, once in each
\* connection, and the client waits for it there.
OnItsWay ==
  \A f \in Fd, s \in Session :
    /\ SaysOnce(up[f], s) /\ SaysOnce(down[f], s)
    /\ ~ (Says(up[f], s) /\ Making(f, s)) /\ ~ (Says(up[f], s) /\ Says(down[f], s))
    /\ ~ (Making(f, s) /\ Says(down[f], s))
    /\ client.fd = f /\ (Says(up[f], s) \/ Making(f, s) \/ Says(down[f], s))
         => ~asked[s].answered /\ asked[s].on = f

Kept ==
  /\ \A s \in Session : ran[s] > 0 /\ sent[s] < expired_number => response[s] # None
  /\ \A s \in Session : ~asked[s].answered => asked[s].number > 0

Inv == TypeOK /\ InTurn /\ StructsHeld /\ OnItsWay /\ Kept /\ NoConflict

=============================================================================
