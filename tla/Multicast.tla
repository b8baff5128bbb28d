----------------------------- MODULE Multicast -----------------------------
(***************************************************************************)
(* One multicast channel and its subscribers on several nodes              *)
(* (multicastd.lua, multicast.lua, lua-multicast.c).  The multicastd of    *)
(* the node that has made the channel, the owner, knows the services that  *)
(* subscribe there and the other nodes that have any; every other node     *)
(* knows its own services and tells the owner of the first and the last.   *)
(*                                                                         *)
(* What one multicastd sends to another arrives in order.  A service and   *)
(* the multicastd of its node are taken together, but for the messages     *)
(* that wait in the mailbox of the service.  All subscribers of a node get *)
(* one package, which counts those who have not closed it.                 *)
(***************************************************************************)
EXTENDS Integers, Sequences, FiniteSets, SequencesExt, FiniteSetTheorems, TLAPS

CONSTANTS
  Owner, Remote,  \* nodes
  Service,
  Home,           \* the node of a service
  Publisher,      \* nodes where messages are published
  MaxPublished,   \* bound of the model: messages,
  MaxSubscribed,  \* and subscriptions of a service
  NULL

Node == Remote \cup {Owner}

Message == 1 .. MaxPublished

VARIABLES
  group,     \* channel[c] of each node: the services, or NULL
  remote,    \* channel_remote[c] of the owner: nodes, or NULL
  link,      \* what is under way between the owner and a node, and back
  sub,       \* of a service: out, calling (SUBR is not answered) or in
  inbox,     \* of a service: messages in its mailbox
  reference, \* of the package of a message on a node, 0 when it is free
  deleted,   \* chan:delete was called
  published, \* messages published so far
  got,       \* history: what the dispatch function of a service has got,
  due,       \* and what was published since subscribe has returned
  times      \* history: how often a service has subscribed

vars == <<group, remote, link, sub, inbox, reference, deleted, published, got, due, times>>

TypeOK ==
  /\ \A n \in Node : group[n] = NULL \/ group[n] \subseteq {s \in Service : Home[s] = n}
  /\ remote = NULL \/ remote \subseteq Remote
  /\ \A n \in Remote : group[n] # {}
  /\ reference \in [Node \X Message -> 0 .. Cardinality(Service)]
  /\ sub \in [Service -> {"out", "calling", "in"}]
  /\ deleted \in BOOLEAN /\ published \in 0 .. MaxPublished

To(n) == <<"to", n>>      \* from the owner
From(n) == <<"from", n>>  \* to the owner
Link == {To(n) : n \in Remote} \cup {From(n) : n \in Remote}

Init ==
  /\ group = [n \in Node |-> IF n = Owner THEN {} ELSE NULL] /\ remote = NULL
  /\ link = [l \in Link |-> <<>>]
  /\ sub = [s \in Service |-> "out"]
  /\ inbox = [s \in Service |-> <<>>] /\ got = inbox
  /\ reference = [x \in Node \X Message |-> 0]
  /\ deleted = FALSE /\ published = 0
  /\ due = [s \in Service |-> {}] /\ times = [s \in Service |-> 0]

-----------------------------------------------------------------------------

\* A fault: a node does not tell the owner that it subscribes.
MustAsk_never(n) == FALSE

-----------------------------------------------------------------------------
\* Messages sent on links, given as a set of pairs.
Sends(l, m) == [link EXCEPT ![l] = Append(@, m)]
Command(type, s, p) == [type |-> type, service |-> s, message |-> p]

(***************************************************************************)
(* Subscribing.                                                            *)
(***************************************************************************)
\* A node that is not the owner asks him when it has no group.
MustAsk(n) == n # Owner /\ group[n] = NULL

\* Service s is in the group, if there is one, and its subscribe returns.
Joined(s, g) ==
  /\ group' = [group EXCEPT ![Home[s]] = IF g = NULL THEN NULL ELSE g \cup {s}]
  /\ sub' = [sub EXCEPT ![s] = "in"]

\* chan:subscribe and command.SUB.
SUB(s) ==
  /\ sub[s] = "out" /\ times[s] < MaxSubscribed
  /\ times' = [times EXCEPT ![s] = @ + 1]
  /\ IF MustAsk(Home[s])
     THEN /\ link' = Sends(From(Home[s]), Command("SUBR", s, 0))
          /\ sub' = [sub EXCEPT ![s] = "calling"]
          /\ UNCHANGED group
     ELSE Joined(s, group[Home[s]]) /\ UNCHANGED link
  /\ UNCHANGED <<remote, inbox, reference, deleted, published, got, due>>

\* The answer to SUBR: true when there is no channel, and "other SUB may
\* occur" in between.
Answer(n, s, m) ==
  Joined(s, IF m.message = 1 \/ group[n] # NULL THEN group[n] ELSE {})

\* command.SUBR, at the owner; the answer to service s.
SUBR(n, s) ==
  /\ link' = [link EXCEPT ![From(n)] = Tail(@),
                          ![To(n)] = Append(@, Command("answer", s, IF group[Owner] = NULL THEN 1 ELSE 0))]
  /\ remote' = IF group[Owner] = NULL THEN remote
               ELSE IF remote = NULL THEN {n} ELSE remote \cup {n}
  /\ UNCHANGED <<group, reference, inbox, due>>

\* The last subscriber of a node that is not the owner leaves.
LastOne(s) == Home[s] # Owner /\ group[Home[s]] = {s}

\* chan:unsubscribe and command.USUB.
USUB(s) ==
  LET n == Home[s] IN
  /\ sub[s] = "in"
  /\ sub' = [sub EXCEPT ![s] = "out"] /\ due' = [due EXCEPT ![s] = {}]
  /\ IF group[n] = NULL THEN UNCHANGED <<group, link>>
     ELSE IF LastOne(s)
          THEN group' = [group EXCEPT ![n] = NULL] /\ link' = Sends(From(n), Command("USUBR", s, 0))
          ELSE group' = [group EXCEPT ![n] = @ \ {s}] /\ UNCHANGED link
  /\ UNCHANGED <<remote, inbox, reference, deleted, published, got, times>>

\* command.USUBR, at the owner.
USUBR(n) ==
  /\ link' = [link EXCEPT ![From(n)] = Tail(@)]
  /\ remote' = IF remote = NULL THEN NULL ELSE remote \ {n}
  /\ UNCHANGED <<group, reference, inbox, due>>

(***************************************************************************)
(* Deleting: command.DEL at the owner, and DELR at the nodes.              *)
(***************************************************************************)
Nodes(r) == IF r = NULL THEN {} ELSE r
Deleted(taken) ==
  /\ link' = [l \in Link |-> IF \E n \in Nodes(remote) : l = To(n) THEN Append(taken[l], Command("DELR", NULL, 0))
                             ELSE taken[l]]
  /\ group' = [group EXCEPT ![Owner] = NULL] /\ remote' = NULL

DEL(n) ==
  /\ ~deleted /\ deleted' = TRUE
  /\ IF n = Owner THEN Deleted(link)
     ELSE link' = Sends(From(n), Command("DEL", NULL, 0)) /\ UNCHANGED <<group, remote>>
  /\ UNCHANGED <<sub, inbox, reference, published, got, due, times>>

(***************************************************************************)
(* Publishing.                                                             *)
(***************************************************************************)
\* mc.bind: the subscribers who have to close the package.
Bound(n) == Cardinality(group[n])

\* What publish does on its own node.
Local(n, p) ==
  IF group[n] \in {NULL, {}} THEN UNCHANGED <<reference, inbox>>
  ELSE /\ reference' = [reference EXCEPT ![<<n, p>>] = Bound(n)]
       /\ inbox' = [s \in Service |-> IF s \in group[n] THEN Append(inbox[s], p) ELSE inbox[s]]

\* publish, at the owner: also to every node that has subscribed.
Published(p, taken) ==
  /\ link' = [l \in Link |-> IF \E n \in Nodes(remote) : l = To(n) THEN Append(taken[l], Command("multicast", NULL, p))
                             ELSE taken[l]]
  /\ Local(Owner, p)
  /\ due' = [s \in Service |-> IF sub[s] = "in" THEN due[s] \cup {p} ELSE due[s]]

\* chan:publish and command.PUB.
PUB(n) ==
  /\ published < MaxPublished /\ published' = published + 1
  /\ IF n = Owner THEN Published(published', link)
     ELSE link' = Sends(From(n), Command("multicast", NULL, published')) /\ UNCHANGED <<reference, inbox, due>>
  /\ UNCHANGED <<group, remote, sub, deleted, got, times>>

\* A service gets to a message, and closes the package.
NextMessage(s) == Head(inbox[s])
Dispatch(s) ==
  /\ inbox[s] # <<>>
  /\ reference' = [reference EXCEPT ![<<Home[s], NextMessage(s)>>] = @ - 1]
  /\ got' = IF sub[s] = "in" THEN [got EXCEPT ![s] = Append(@, NextMessage(s))] ELSE got
  /\ inbox' = [inbox EXCEPT ![s] = Tail(@)]
  /\ UNCHANGED <<group, remote, link, sub, deleted, published, due, times>>

-----------------------------------------------------------------------------
\* The owner takes a command from a node.
AtOwner(n) ==
  /\ link[From(n)] # <<>>
  /\ LET m == Head(link[From(n)])
         taken == [link EXCEPT ![From(n)] = Tail(@)] IN
     \/ m.type = "SUBR" /\ SUBR(n, m.service)
     \/ m.type = "USUBR" /\ USUBR(n)
     \/ m.type = "DEL" /\ Deleted(taken) /\ UNCHANGED <<reference, inbox, due>>
     \/ m.type = "multicast" /\ Published(m.message, taken) /\ UNCHANGED <<group, remote>>
  /\ UNCHANGED <<sub, deleted, published, got, times>>

\* A node takes a command or an answer from the owner.
AtNode(n) ==
  /\ link[To(n)] # <<>>
  /\ link' = [link EXCEPT ![To(n)] = Tail(@)]
  /\ LET m == Head(link[To(n)]) IN
     \/ m.type = "answer" /\ Answer(n, m.service, m) /\ UNCHANGED <<reference, inbox>>
     \/ m.type = "DELR" /\ group' = [group EXCEPT ![n] = NULL] /\ UNCHANGED <<sub, reference, inbox>>
     \/ m.type = "multicast" /\ Local(n, m.message) /\ UNCHANGED <<group, sub>>
  /\ UNCHANGED <<remote, deleted, published, got, due, times>>

Next ==
  \/ \E s \in Service : SUB(s) \/ USUB(s) \/ Dispatch(s)
  \/ \E n \in Node : DEL(n)
  \/ \E n \in Publisher : PUB(n)
  \/ \E n \in Remote : AtOwner(n) \/ AtNode(n)

Spec == Init /\ [][Next]_vars

-----------------------------------------------------------------------------
Quiet == (\A l \in Link : link[l] = <<>>) /\ (\A s \in Service : inbox[s] = <<>>)

\* A service gets the messages that one node publishes in the order in which
\* they were published, and none twice, wherever it is.
InOrderOnce ==
  \A s \in Service : \A i, j \in DOMAIN got[s] : i < j => got[s][i] < got[s][j]

\* A package counts the subscribers who still have to close it: it is freed,
\* and not while one of them may read it.
PackageExact ==
  \A n \in Node, p \in Message :
    reference[<<n, p>>] = Cardinality({s \in Service : Home[s] = n /\ Contains(inbox[s], p)})

\* A service whose subscribe has returned gets all that is published while it
\* subscribes: "node subscribe it by send a SUBR to the owner".
Delivered ==
  Quiet /\ ~deleted => \A s \in Service : sub[s] = "in" => due[s] \subseteq ToSet(got[s])

\* The owner knows the nodes that subscribe: none is left behind.
NodesKnown ==
  Quiet /\ group[Owner] # NULL =>
    \A n \in Remote : n \in Nodes(remote) <=> \E s \in Service : Home[s] = n /\ sub[s] = "in"

\* After chan:delete no node keeps a group.
NothingKept == Quiet /\ deleted => \A n \in Node : group[n] = NULL
-----------------------------------------------------------------------------
(***************************************************************************)
(* Proofs: what a channel promises, for any nodes, services and messages.  *)
(***************************************************************************)
\* Where nodes and services are.
Placed ==
  /\ Owner \notin Remote /\ Home \in [Service -> Node] /\ IsFiniteSet(Service)
  /\ Publisher \subseteq Node /\ MaxPublished \in Nat
  /\ NULL \notin Service /\ \A S \in (SUBSET Service) \cup (SUBSET Remote) : S # NULL

\* No two services of another node than the owner.
Sole == \A s, t \in Service : Home[s] = Home[t] /\ Home[s] # Owner => s = t

\* What is said on the links.
At(n) == {s \in Service : Home[s] = n}
Upward(n) ==
  [type : {"SUBR", "USUBR"}, service : At(n), message : {0}]
    \cup [type : {"DEL"}, service : {NULL}, message : {0}]
    \cup [type : {"multicast"}, service : {NULL}, message : Message]
Downward(n) ==
  [type : {"answer"}, service : At(n), message : {0, 1}]
    \cup [type : {"DELR"}, service : {NULL}, message : {0}]
    \cup [type : {"multicast"}, service : {NULL}, message : Message]
Said(l) == UNION {IF l = To(n) THEN Downward(n) ELSE IF l = From(n) THEN Upward(n) ELSE {} : n \in Remote}

Types ==
  /\ DOMAIN group = Node
  /\ \A n \in Node : group[n] = NULL \/ group[n] \subseteq At(n)
  /\ \A n \in Remote : group[n] # {}
  /\ remote = NULL \/ remote \subseteq Remote
  /\ sub \in [Service -> {"out", "calling", "in"}]
  /\ inbox \in [Service -> Seq(Message)] /\ got \in [Service -> Seq(Message)]
  /\ due \in [Service -> SUBSET Message]
  /\ deleted \in BOOLEAN /\ published \in 0 .. MaxPublished

\* Of two messages of a publisher the first is published earlier; of any two they
\* are different ones.
Alone == \E k \in Publisher : Publisher = {k}
Precedes(p, q) == p # q /\ (Alone => p < q)
Ahead(A, B) == \A p \in A, q \in B : Precedes(p, q)

\* The messages in a mailbox, and those that a link carries.
Within(q) == {p \in Message : \E i \in 1 .. Len(q) : q[i] = p}
Carried(q) == {p \in Message : \E i \in 1 .. Len(q) : q[i].type = "multicast" /\ q[i].message = p}
Line(q) == \A i, j \in 1 .. Len(q) : i < j => Precedes(q[i], q[j])
Row(q) == \A i, j \in 1 .. Len(q) :
            i < j /\ q[i].type = "multicast" /\ q[j].type = "multicast" => Precedes(q[i].message, q[j].message)
Linked(f) == DOMAIN f = Link /\ \A l \in Link : f[l] \in Seq(Said(l)) /\ Row(f[l])
Lined == \A s \in Service : Line(inbox[s]) /\ Line(got[s])

\* Messages go from a node to the owner, from him to the nodes, and there to the
\* services: what is further on its way precedes what is not.
OrderOf(U, D, B, G, top) ==
  /\ \A n \in Remote : U[n] # {} => n \in Publisher
  /\ \A n \in Remote : \A p \in U[n] \cup D[n] : p <= top
  /\ \A s \in Service : \A p \in B[s] \cup G[s] : p <= top
  /\ \A n, k \in Remote : n # k => Ahead(U[n], U[k])
  /\ \A n, k \in Remote : Ahead(D[n], U[k])
  /\ \A s \in Service : Ahead(G[s], B[s])
  /\ \A s \in Service, k \in Remote : Ahead(G[s] \cup B[s], U[k])
  /\ \A s \in Service : Home[s] \in Remote => Ahead(G[s] \cup B[s], D[Home[s]])
Up(f) == [n \in Remote |-> Carried(f[From(n)])]
Down(f) == [n \in Remote |-> Carried(f[To(n)])]
Boxes == [s \in Service |-> Within(inbox[s])]
Gotten == [s \in Service |-> Within(got[s])]
Order == Linked(link) /\ Lined /\ OrderOf(Up(link), Down(link), Boxes, Gotten, published)

\* Who has still to close the package of a message.
Holders(n, p, B) == {s \in Service : Home[s] = n /\ p \in B[s]}
Exact == \A n \in Node, p \in Message : reference[<<n, p>>] = Cardinality(Holders(n, p, Boxes))
References == reference \in [Node \X Message -> Nat]

Inv == Types /\ Order /\ References /\ Exact

\* Commands on a link: some of a type, at most one, none behind one of another
\* type; all answers find the channel; behind each that does there is a DELR.
Has(q, t) == \E i \in 1 .. Len(q) : q[i].type = t
Single(q, t) == \A i, j \in 1 .. Len(q) : q[i].type = t /\ q[j].type = t => i = j
Behind(q, t, u) == \A i, j \in 1 .. Len(q) : q[i].type = t /\ q[j].type = u => j < i
Granting(m) == m.type = "answer" /\ m.message = 0
Granted(q) == \A i \in 1 .. Len(q) : q[i].type = "answer" => q[i].message = 0
Settled(q) == \A i \in 1 .. Len(q) : Granting(q[i]) => \E j \in 1 .. Len(q) : i < j /\ q[j].type = "DELR"

Orderly(u) == Single(u, "SUBR") /\ Single(u, "USUBR") /\ Behind(u, "SUBR", "USUBR")

\* The channel is deleted once, and it is the owner who knows.
Deletion ==
  /\ group[Owner] = NULL => remote = NULL /\ deleted
  /\ \A n \in Remote : Has(link[From(n)], "DEL") => deleted
  /\ deleted => group[Owner] = NULL \/ \E n \in Remote : Has(link[From(n)], "DEL")
  /\ \A n \in Nodes(remote) : At(n) # {}
  /\ \A s \in At(Owner) : sub[s] # "calling" /\ (sub[s] = "in" /\ group[Owner] # NULL => s \in group[Owner])

\* What a service of another node, the owner, and the links between them agree on.
Agreed(n, x, g, o, r, u, d) ==
  /\ Orderly(u) /\ Single(d, "answer")
  /\ Has(u, "SUBR") => x = "calling" /\ ~Has(d, "answer")
  /\ Has(d, "answer") => x = "calling" /\ ~Has(u, "USUBR")
  /\ x = "calling" => Has(u, "SUBR") \/ Has(d, "answer")
  /\ Has(u, "USUBR") => x # "in"
  /\ g # NULL => x = "in"
  /\ o # NULL =>
       /\ x = "in" => g # NULL
       /\ n \in Nodes(r) <=> x = "in" \/ Has(u, "USUBR") \/ Has(d, "answer")
       /\ Granted(d) /\ ~Has(d, "DELR")
  /\ o = NULL => (g # NULL => Has(d, "DELR")) /\ Settled(d)
Agreement ==
  \A n \in Remote : \A s \in At(n) :
    Agreed(n, sub[s], group[n], group[Owner], remote, link[From(n)], link[To(n)])

\* What a service has yet to get is on its way to it.
OnTheWay(s) == Gotten[s] \cup Boxes[s] \cup (IF Home[s] = Owner THEN {} ELSE Down(link)[Home[s]])
DueComes == \A s \in Service : /\ sub[s] # "in" => due[s] = {}
                               /\ sub[s] = "in" /\ group[Owner] # NULL => due[s] \subseteq OnTheWay(s)

SoleInv == Deletion /\ Agreement /\ DueComes

-----------------------------------------------------------------------------
\* What appending to a sequence and taking its head do.
LEMMA AppendIs ==
  ASSUME NEW S, NEW q \in Seq(S), NEW m \in S
  PROVE  /\ Append(q, m) \in Seq(S) /\ Len(q) \in Nat /\ Len(Append(q, m)) = Len(q) + 1
         /\ \A i \in 1 .. Len(q) : Append(q, m)[i] = q[i]
         /\ Append(q, m)[Len(q) + 1] = m
  OBVIOUS

LEMMA TailIs ==
  ASSUME NEW S, NEW q \in Seq(S), q # <<>>
  PROVE  /\ Tail(q) \in Seq(S) /\ Head(q) \in S /\ Head(q) = q[1]
         /\ Len(q) \in Nat \ {0} /\ Len(Tail(q)) = Len(q) - 1
         /\ \A i \in 1 .. Len(q) - 1 : Tail(q)[i] = q[i + 1]
  OBVIOUS

LEMMA LineAppend ==
  ASSUME NEW q \in Seq(Message), NEW p \in Message, Line(q), Ahead(Within(q), {p})
  PROVE  Line(Append(q, p)) /\ Within(Append(q, p)) = Within(q) \cup {p}
<1> DEFINE a == Append(q, p)
<1>1. /\ Len(q) \in Nat /\ Len(a) = Len(q) + 1 /\ a[Len(q) + 1] = p
      /\ \A i \in 1 .. Len(q) : a[i] = q[i] /\ q[i] \in Message
  BY AppendIs
<1> HIDE DEF a
<1>2. \A i \in 1 .. Len(q) : Precedes(q[i], p)
  BY <1>1 DEF Ahead, Within
<1>3. Line(a)
  BY <1>1, <1>2 DEF Line
<1>4. Within(a) = Within(q) \cup {p}
  BY <1>1 DEF Within
<1> QED
  BY <1>3, <1>4 DEF a

LEMMA LineTail ==
  ASSUME NEW q \in Seq(Message), q # <<>>, Line(q)
  PROVE  /\ Line(Tail(q)) /\ Head(q) \in Within(q)
         /\ Within(Tail(q)) = Within(q) \ {Head(q)}
         /\ Ahead({Head(q)}, Within(Tail(q)))
<1> DEFINE a == Tail(q)  p == Head(q)
<1>1. /\ Len(q) \in Nat \ {0} /\ Len(a) = Len(q) - 1 /\ p = q[1] /\ p \in Message
      /\ \A i \in 1 .. Len(a) : a[i] = q[i + 1]
  BY TailIs
<1> HIDE DEF a, p
<1>2. Line(a)
  BY <1>1 DEF Line
<1>3. \A i \in 1 .. Len(a) : Precedes(p, a[i])
  BY <1>1 DEF Line
<1>4. Ahead({p}, Within(a))
  BY <1>3 DEF Ahead, Within
<1>5. p \in Within(q)
  BY <1>1 DEF Within
<1>6. Within(a) \subseteq Within(q) /\ p \notin Within(a)
  BY <1>1, <1>4 DEF Within, Ahead, Precedes
<1>7. ASSUME NEW m \in Within(q), m # p PROVE m \in Within(a)
  <2>1. PICK i \in 1 .. Len(q) : q[i] = m
    BY DEF Within
  <2>2. i # 1 /\ i - 1 \in 1 .. Len(a) /\ a[i - 1] = q[(i - 1) + 1] /\ (i - 1) + 1 = i
    BY <1>1, <1>7, <2>1
  <2> QED
    BY <2>1, <2>2 DEF Within
<1> QED
  BY <1>2, <1>4, <1>5, <1>6, <1>7 DEF a, p

LEMMA RowAppend ==
  ASSUME NEW S, NEW q \in Seq(S), NEW m \in S, Row(q),
         m.type = "multicast" => m.message \in Message /\ Ahead(Carried(q), {m.message}),
         \A c \in S : c.type = "multicast" => c.message \in Message
  PROVE  /\ Row(Append(q, m))
         /\ Carried(Append(q, m)) = Carried(q) \cup (IF m.type = "multicast" THEN {m.message} ELSE {})
<1> DEFINE a == Append(q, m)
<1>1. /\ Len(q) \in Nat /\ Len(a) = Len(q) + 1 /\ a[Len(q) + 1] = m
      /\ \A i \in 1 .. Len(q) : a[i] = q[i] /\ q[i] \in S
  BY AppendIs
<1> HIDE DEF a
<1>2. \A i \in 1 .. Len(q) : m.type = "multicast" /\ q[i].type = "multicast" => Precedes(q[i].message, m.message)
  BY <1>1 DEF Ahead, Carried
<1>3. Row(a)
  BY <1>1, <1>2 DEF Row
<1>4. Carried(a) = Carried(q) \cup (IF m.type = "multicast" THEN {m.message} ELSE {})
  BY <1>1 DEF Carried
<1> QED
  BY <1>3, <1>4 DEF a

LEMMA RowTail ==
  ASSUME NEW S, NEW q \in Seq(S), q # <<>>, Row(q),
         \A c \in S : c.type = "multicast" => c.message \in Message
  PROVE  /\ Row(Tail(q))
         /\ Carried(q) = Carried(Tail(q)) \cup (IF Head(q).type = "multicast" THEN {Head(q).message} ELSE {})
         /\ Head(q).type = "multicast" => Ahead({Head(q).message}, Carried(Tail(q)))
<1> DEFINE a == Tail(q)  m == Head(q)
<1>1. /\ Len(q) \in Nat \ {0} /\ Len(a) = Len(q) - 1 /\ m = q[1] /\ m \in S
      /\ \A i \in 1 .. Len(a) : a[i] = q[i + 1]
  BY TailIs
<1> HIDE DEF a, m
<1>2. Row(a)
  BY <1>1 DEF Row
<1>3. m.type = "multicast" => \A i \in 1 .. Len(a) : a[i].type = "multicast" => Precedes(m.message, a[i].message)
  BY <1>1 DEF Row
<1>4. m.type = "multicast" => Ahead({m.message}, Carried(a))
  BY <1>3 DEF Ahead, Carried
<1>5. Carried(a) \cup (IF m.type = "multicast" THEN {m.message} ELSE {}) \subseteq Carried(q)
  BY <1>1 DEF Carried
<1>6. ASSUME NEW p \in Carried(q), ~(m.type = "multicast" /\ p = m.message) PROVE p \in Carried(a)
  <2>1. PICK i \in 1 .. Len(q) : q[i].type = "multicast" /\ q[i].message = p
    BY DEF Carried
  <2>2. i # 1 /\ i - 1 \in 1 .. Len(a) /\ a[i - 1] = q[(i - 1) + 1] /\ (i - 1) + 1 = i
    BY <1>1, <1>6, <2>1
  <2> QED
    BY <2>1, <2>2 DEF Carried
<1> QED
  BY <1>2, <1>4, <1>5, <1>6 DEF a, m
LEMMA HasAppend ==
  ASSUME NEW S, NEW q \in Seq(S), NEW m \in S, NEW t
  PROVE  Has(Append(q, m), t) <=> Has(q, t) \/ m.type = t
<1> DEFINE a == Append(q, m)
<1>1. /\ Len(q) \in Nat /\ Len(a) = Len(q) + 1 /\ a[Len(q) + 1] = m
      /\ \A i \in 1 .. Len(q) : a[i] = q[i]
  BY AppendIs
<1> HIDE DEF a
<1>2. Has(a, t) <=> Has(q, t) \/ m.type = t
  BY <1>1 DEF Has
<1> QED
  BY <1>2 DEF a

LEMMA HasTail ==
  ASSUME NEW S, NEW q \in Seq(S), q # <<>>, NEW t
  PROVE  Has(q, t) <=> Has(Tail(q), t) \/ Head(q).type = t
<1> DEFINE a == Tail(q)  m == Head(q)
<1>1. /\ Len(q) \in Nat \ {0} /\ Len(a) = Len(q) - 1 /\ m = q[1]
      /\ \A i \in 1 .. Len(a) : a[i] = q[i + 1]
  BY TailIs
<1> HIDE DEF a, m
<1>2. Has(a, t) \/ m.type = t => Has(q, t)
  BY <1>1 DEF Has
<1>3. ASSUME Has(q, t), m.type # t PROVE Has(a, t)
  <2>1. PICK i \in 1 .. Len(q) : q[i].type = t
    BY <1>3 DEF Has
  <2>2. i # 1 /\ i - 1 \in 1 .. Len(a) /\ a[i - 1] = q[(i - 1) + 1] /\ (i - 1) + 1 = i
    BY <1>1, <1>3, <2>1
  <2> QED
    BY <2>1, <2>2 DEF Has
<1> QED
  BY <1>2, <1>3 DEF a, m

LEMMA SingleAppend ==
  ASSUME NEW S, NEW q \in Seq(S), NEW m \in S, NEW t, Single(q, t), m.type = t => ~Has(q, t)
  PROVE  Single(Append(q, m), t)
<1> DEFINE a == Append(q, m)
<1>1. /\ Len(q) \in Nat /\ Len(a) = Len(q) + 1 /\ a[Len(q) + 1] = m
      /\ \A i \in 1 .. Len(q) : a[i] = q[i]
  BY AppendIs
<1> HIDE DEF a
<1>2. Single(a, t)
  BY <1>1 DEF Has, Single
<1> QED
  BY <1>2 DEF a

LEMMA SingleTail ==
  ASSUME NEW S, NEW q \in Seq(S), q # <<>>, NEW t, Single(q, t)
  PROVE  Single(Tail(q), t) /\ (Head(q).type = t => ~Has(Tail(q), t))
<1> DEFINE a == Tail(q)  m == Head(q)
<1>1. /\ Len(q) \in Nat \ {0} /\ Len(a) = Len(q) - 1 /\ m = q[1]
      /\ \A i \in 1 .. Len(a) : a[i] = q[i + 1] /\ i + 1 \in 1 .. Len(q) /\ i + 1 # 1
  BY TailIs
<1> HIDE DEF a, m
<1>2. Single(a, t)
  BY <1>1 DEF Single
<1>3. m.type = t => ~Has(a, t)
  BY <1>1 DEF Has, Single
<1> QED
  BY <1>2, <1>3 DEF a, m

LEMMA BehindAppend ==
  ASSUME NEW S, NEW q \in Seq(S), NEW m \in S, NEW t, NEW u, t # u,
         Behind(q, t, u), m.type = u => ~Has(q, t)
  PROVE  Behind(Append(q, m), t, u)
<1> DEFINE a == Append(q, m)
<1>1. /\ Len(q) \in Nat /\ Len(a) = Len(q) + 1 /\ a[Len(q) + 1] = m
      /\ \A i \in 1 .. Len(q) : a[i] = q[i]
  BY AppendIs
<1> HIDE DEF a
<1>2. Behind(a, t, u)
  BY <1>1 DEF Has, Behind
<1> QED
  BY <1>2 DEF a

LEMMA BehindTail ==
  ASSUME NEW S, NEW q \in Seq(S), q # <<>>, NEW t, NEW u, Behind(q, t, u)
  PROVE  Behind(Tail(q), t, u) /\ (Head(q).type = t => ~Has(Tail(q), u))
<1> DEFINE a == Tail(q)  m == Head(q)
<1>1. /\ Len(q) \in Nat \ {0} /\ Len(a) = Len(q) - 1 /\ m = q[1]
      /\ \A i \in 1 .. Len(a) : a[i] = q[i + 1] /\ i + 1 \in 1 .. Len(q) /\ i + 1 > 1
  BY TailIs
<1> HIDE DEF a, m
<1>2. ASSUME NEW i \in 1 .. Len(a), NEW j \in 1 .. Len(a), a[i].type = t, a[j].type = u PROVE j < i
  <2>1. q[i + 1].type = t /\ q[j + 1].type = u /\ i + 1 \in 1 .. Len(q) /\ j + 1 \in 1 .. Len(q)
    BY <1>1, <1>2
  <2>2. j + 1 < i + 1
    BY <2>1 DEF Behind
  <2> QED
    BY <1>1, <2>2
<1>3. m.type = t => ~Has(a, u)
  BY <1>1 DEF Has, Behind
<1>4. Behind(a, t, u)
  BY <1>2 DEF Behind
<1> QED
  BY <1>3, <1>4 DEF a, m

LEMMA GrantedIs ==
  ASSUME NEW S, NEW q \in Seq(S)
  PROVE  /\ \A m \in S : Granted(Append(q, m)) <=> Granted(q) /\ (m.type = "answer" => m.message = 0)
         /\ q # <<>> /\ Granted(q) => Granted(Tail(q)) /\ (Head(q).type = "answer" => Head(q).message = 0)
<1>1. ASSUME NEW m \in S
      PROVE  Granted(Append(q, m)) <=> Granted(q) /\ (m.type = "answer" => m.message = 0)
  <2> DEFINE a == Append(q, m)
  <2>1. /\ Len(q) \in Nat /\ Len(a) = Len(q) + 1 /\ a[Len(q) + 1] = m
        /\ \A i \in 1 .. Len(q) : a[i] = q[i]
    BY AppendIs
  <2> HIDE DEF a
  <2>2. Granted(a) <=> Granted(q) /\ (m.type = "answer" => m.message = 0)
    BY <2>1 DEF Granted
  <2> QED
    BY <2>2 DEF a
<1>2. ASSUME q # <<>>, Granted(q)
      PROVE  Granted(Tail(q)) /\ (Head(q).type = "answer" => Head(q).message = 0)
  <2> DEFINE a == Tail(q)  m == Head(q)
  <2>1. /\ Len(q) \in Nat \ {0} /\ Len(a) = Len(q) - 1 /\ m = q[1]
        /\ \A i \in 1 .. Len(a) : a[i] = q[i + 1] /\ i + 1 \in 1 .. Len(q)
    BY <1>2, TailIs
  <2> HIDE DEF a, m
  <2>2. Granted(a) /\ (m.type = "answer" => m.message = 0)
    BY <1>2, <2>1 DEF Granted
  <2> QED
    BY <2>2 DEF a, m
<1> QED
  BY <1>1, <1>2

LEMMA SettledAppend ==
  ASSUME NEW S, NEW q \in Seq(S), NEW m \in S,
         m.type = "DELR" \/ (Settled(q) /\ ~Granting(m))
  PROVE  Settled(Append(q, m))
<1> DEFINE a == Append(q, m)
<1>1. /\ Len(q) \in Nat /\ Len(a) = Len(q) + 1 /\ a[Len(q) + 1] = m
      /\ \A i \in 1 .. Len(q) : a[i] = q[i] /\ i \in 1 .. Len(a) /\ i < Len(q) + 1
      /\ Len(q) + 1 \in 1 .. Len(a)
  BY AppendIs
<1> HIDE DEF a
<1>2. CASE m.type = "DELR"
  <2>1. ~Granting(m)
    BY <1>2 DEF Granting
  <2>2. \A i \in 1 .. Len(a) : Granting(a[i]) => i < Len(q) + 1
    BY <1>1, <2>1
  <2>3. Settled(a)
    BY <1>1, <1>2, <2>2 DEF Settled
  <2> QED
    BY <2>3 DEF a
<1>3. CASE Settled(q) /\ ~Granting(m)
  <2>1. \A i \in 1 .. Len(a) : Granting(a[i]) => i \in 1 .. Len(q) /\ Granting(q[i])
    BY <1>1, <1>3
  <2>2. Settled(a)
    BY <1>1, <1>3, <2>1 DEF Settled
  <2> QED
    BY <2>2 DEF a
<1> QED
  BY <1>2, <1>3

LEMMA SettledTail ==
  ASSUME NEW S, NEW q \in Seq(S), q # <<>>, Settled(q)
  PROVE  Settled(Tail(q)) /\ (Granting(Head(q)) => Has(Tail(q), "DELR"))
<1> DEFINE a == Tail(q)  m == Head(q)
<1>1. /\ Len(q) \in Nat \ {0} /\ Len(a) = Len(q) - 1 /\ m = q[1]
      /\ \A i \in 1 .. Len(a) : a[i] = q[i + 1] /\ i + 1 \in 1 .. Len(q)
  BY TailIs
<1> HIDE DEF a, m
<1>2. \A j \in 1 .. Len(q) : j > 1 => j - 1 \in 1 .. Len(a) /\ a[j - 1] = q[j]
  <2> TAKE j \in 1 .. Len(q)
  <2> HAVE j > 1
  <2>1. j - 1 \in 1 .. Len(a) /\ (j - 1) + 1 = j
    BY <1>1
  <2> QED
    BY <1>1, <2>1
<1>3. ASSUME NEW i \in 1 .. Len(a), Granting(a[i]) PROVE \E j \in 1 .. Len(a) : i < j /\ a[j].type = "DELR"
  <2>1. PICK j \in 1 .. Len(q) : i + 1 < j /\ q[j].type = "DELR"
    BY <1>1, <1>3 DEF Settled
  <2>2. j > 1 /\ i < j - 1
    BY <2>1, <1>1
  <2> QED
    BY <1>2, <2>1, <2>2
<1>4. ASSUME Granting(m) PROVE Has(a, "DELR")
  <2>1. PICK j \in 1 .. Len(q) : 1 < j /\ q[j].type = "DELR"
    BY <1>1, <1>4 DEF Settled
  <2> QED
    BY <1>2, <2>1 DEF Has
<1>5. Settled(a)
  BY <1>3 DEF Settled
<1> QED
  BY <1>4, <1>5 DEF a, m

-----------------------------------------------------------------------------
\* What links carry when a message is appended or taken.
LEMMA LinkIs ==
  ASSUME Placed
  PROVE  /\ \A n \in Remote : To(n) \in Link /\ From(n) \in Link /\ n # Owner
         /\ \A n, k \in Remote : To(n) # From(k) /\ (To(n) = To(k) => n = k) /\ (From(n) = From(k) => n = k)
         /\ \A l \in Link : \E n \in Remote : l = To(n) \/ l = From(n)
  BY DEF Placed, To, From, Link

LEMMA SaidIs ==
  ASSUME Placed
  PROVE  /\ \A n \in Remote : Said(To(n)) = Downward(n) /\ Said(From(n)) = Upward(n)
         /\ \A l \in Link : \A m \in Said(l) : m.type = "multicast" => m.message \in Message
<1>1. \A n \in Remote : Said(To(n)) = Downward(n)
  BY LinkIs DEF Said
<1>2. \A n \in Remote : Said(From(n)) = Upward(n)
  BY LinkIs DEF Said
<1>3. \A n \in Remote : \A m \in Downward(n) \cup Upward(n) : m.type = "multicast" => m.message \in Message
  BY DEF Downward, Upward
<1> QED
  BY <1>1, <1>2, <1>3, LinkIs

Now(q, m) == Carried(q) \cup (IF m.type = "multicast" THEN {m.message} ELSE {})

Sent(f, l, m) == [f EXCEPT ![l] = Append(@, m)]
Rest(f, l) == [f EXCEPT ![l] = Tail(@)]

LEMMA SendIs ==
  ASSUME Placed, NEW f, Linked(f), NEW l \in Link, NEW m \in Said(l),
         m.type = "multicast" => Ahead(Carried(f[l]), {m.message})
  PROVE  /\ Linked(Sent(f, l, m)) /\ Sent(f, l, m)[l] = Append(f[l], m)
         /\ Carried(Sent(f, l, m)[l]) = Now(f[l], m)
         /\ \A k \in Link : k # l => Sent(f, l, m)[k] = f[k]
<1> DEFINE g == Sent(f, l, m)
<1>1. g[l] = Append(f[l], m) /\ DOMAIN g = Link /\ \A k \in Link : k # l => g[k] = f[k]
  BY DEF Linked, Sent
<1> HIDE DEF g
<1>2. f[l] \in Seq(Said(l)) /\ Row(f[l])
  BY DEF Linked
<1> DEFINE S == Said(l)
<1>0. \A c \in S : c.type = "multicast" => c.message \in Message
  BY SaidIs
<1> HIDE DEF S
<1>3. Row(g[l]) /\ Carried(g[l]) = Now(f[l], m)
  <2>1. m \in S /\ f[l] \in Seq(S)
    BY <1>2 DEF S
  <2>2. m.type = "multicast" => m.message \in Message /\ Ahead(Carried(f[l]), {m.message})
    BY <1>0, <2>1
  <2>3. Row(Append(f[l], m)) /\ Carried(Append(f[l], m)) = Carried(f[l]) \cup (IF m.type = "multicast" THEN {m.message} ELSE {})
    BY <1>0, <1>2, <2>1, <2>2, RowAppend
  <2> QED
    BY ONLY <1>1, <2>3 DEF Now
<1>4. g[l] \in Seq(Said(l))
  BY <1>1, <1>2, AppendIs
<1>5. Linked(g)
  BY <1>1, <1>3, <1>4 DEF Linked
<1> QED
  BY <1>1, <1>3, <1>5 DEF g

LEMMA TakeIs ==
  ASSUME Placed, NEW f, Linked(f), NEW l \in Link, f[l] # <<>>
  PROVE  /\ Linked(Rest(f, l)) /\ Rest(f, l)[l] = Tail(f[l]) /\ Head(f[l]) \in Said(l) /\ f[l] \in Seq(Said(l))
         /\ Carried(f[l]) = Now(Rest(f, l)[l], Head(f[l]))
         /\ Head(f[l]).type = "multicast" => /\ Ahead({Head(f[l]).message}, Carried(Rest(f, l)[l]))
                                             /\ Head(f[l]).message \in Message
         /\ \A k \in Link : k # l => Rest(f, l)[k] = f[k]
<1> DEFINE g == Rest(f, l)
<1>1. g[l] = Tail(f[l]) /\ DOMAIN g = Link /\ \A k \in Link : k # l => g[k] = f[k]
  BY DEF Linked, Rest
<1> HIDE DEF g
<1>2. f[l] \in Seq(Said(l)) /\ Row(f[l])
  BY DEF Linked
<1>3. /\ Row(g[l]) /\ Carried(f[l]) = Now(g[l], Head(f[l]))
      /\ Head(f[l]).type = "multicast" => Ahead({Head(f[l]).message}, Carried(g[l]))
  BY <1>1, <1>2, RowTail, SaidIs DEF Now
<1>4. g[l] \in Seq(Said(l)) /\ Head(f[l]) \in Said(l)
  BY <1>1, <1>2, TailIs
<1>5. Linked(g)
  BY <1>1, <1>3, <1>4 DEF Linked
<1> QED
  BY <1>1, <1>2, <1>3, <1>4, <1>5, SaidIs DEF g

\* The same message to some of the nodes.
Spread(f, N, m) == [l \in Link |-> IF \E n \in N : l = To(n) THEN Append(f[l], m) ELSE f[l]]

LEMMA SpreadIs ==
  ASSUME Placed, NEW f, Linked(f), NEW N \in SUBSET Remote, NEW m, \A n \in N : m \in Downward(n),
         m.type = "multicast" => \A n \in N : Ahead(Carried(f[To(n)]), {m.message})
  PROVE  /\ Linked(Spread(f, N, m))
         /\ \A n \in N : /\ Spread(f, N, m)[To(n)] = Append(f[To(n)], m)
                         /\ Carried(Spread(f, N, m)[To(n)]) = Now(f[To(n)], m)
         /\ \A n \in Remote \ N : Spread(f, N, m)[To(n)] = f[To(n)]
         /\ \A n \in Remote : Spread(f, N, m)[From(n)] = f[From(n)]
<1> DEFINE g == Spread(f, N, m)
<1>1. /\ DOMAIN g = Link
      /\ \A n \in N : g[To(n)] = Append(f[To(n)], m)
      /\ \A n \in Remote \ N : g[To(n)] = f[To(n)]
      /\ \A n \in Remote : g[From(n)] = f[From(n)]
  BY LinkIs DEF Spread
<1> HIDE DEF g
<1>4. m.type = "multicast" => \A n \in N : Ahead(Carried(f[To(n)]), {m.message})
  OBVIOUS
<1>2. ASSUME NEW n \in N
      PROVE  g[To(n)] \in Seq(Said(To(n))) /\ Row(g[To(n)]) /\ Carried(g[To(n)]) = Now(f[To(n)], m)
  <2>1. To(n) \in Link /\ m \in Said(To(n)) /\ g[To(n)] = Append(f[To(n)], m)
    BY <1>1, LinkIs, SaidIs
  <2>2. f[To(n)] \in Seq(Said(To(n))) /\ Row(f[To(n)])
    BY <2>1 DEF Linked
  <2> DEFINE S == Said(To(n))
  <2>3. \A c \in S : c.type = "multicast" => c.message \in Message
    BY <2>1, SaidIs
  <2> HIDE DEF S
  <2>4. m \in S /\ f[To(n)] \in Seq(S)
    BY <2>1, <2>2 DEF S
  <2>5. Row(g[To(n)]) /\ Carried(g[To(n)]) = Now(f[To(n)], m)
    BY <1>4, <2>1, <2>2, <2>3, <2>4, RowAppend DEF Now
  <2> QED
    BY <2>1, <2>4, <2>5, AppendIs DEF S
<1>3. Linked(g)
  BY <1>1, <1>2, LinkIs DEF Linked
<1> QED
  BY <1>1, <1>2, <1>3 DEF g

-----------------------------------------------------------------------------
\* The order in which messages are under way, in terms of sets.
Sets(U, D, B, G) == /\ U \in [Remote -> SUBSET Message] /\ D \in [Remote -> SUBSET Message]
                    /\ B \in [Service -> SUBSET Message] /\ G \in [Service -> SUBSET Message]

\* Message p is next to be published by the owner.
Fits(U, D, B, G, top, p) ==
  /\ p \in Message /\ p <= top
  /\ \A n \in Remote : Ahead(D[n], {p}) /\ Ahead({p}, U[n])
  /\ \A s \in Service : Ahead(G[s] \cup B[s], {p})

LEMMA SetsAre == ASSUME Types PROVE \A f : Sets(Up(f), Down(f), Boxes, Gotten)
  BY DEF Sets, Up, Down, Boxes, Gotten, Carried, Within

LEMMA AloneIs == ASSUME Alone PROVE \A k, n \in Publisher : k = n
  BY DEF Alone

\* A node that is not the owner publishes.
LEMMA NodeFirst ==
  ASSUME NEW U, NEW D, NEW B, NEW G, NEW top \in Nat, Sets(U, D, B, G), OrderOf(U, D, B, G, top),
         NEW k \in Remote, k \in Publisher, NEW V, V \in [Remote -> SUBSET Message],
         V[k] = U[k] \cup {top + 1}, \A n \in Remote : n # k => V[n] = U[n]
  PROVE  OrderOf(V, D, B, G, top + 1)
<1> DEFINE q == top + 1
<1>1. \A n \in Remote : \A p \in U[n] \cup D[n] : p \in Nat /\ p <= top /\ Precedes(p, q)
  BY DEF OrderOf, Precedes, Sets, Message
<1>2. \A s \in Service : \A p \in G[s] \cup B[s] : p \in Nat /\ p <= top /\ Precedes(p, q)
  BY DEF OrderOf, Precedes, Sets, Message
<1>3. \A n \in Remote : \A p \in U[n] : n # k => Precedes(q, p)
  <2> TAKE n \in Remote
  <2> TAKE p \in U[n]
  <2> HAVE n # k
  <2>1. n \in Publisher
    BY DEF OrderOf
  <2>2. ~Alone
    BY <2>1, AloneIs
  <2> QED
    BY <1>1, <2>2 DEF Precedes
<1>4. \A n \in Remote : \A p \in V[n] : p \in U[n] \/ (n = k /\ p = q)
  BY DEF Sets
<1> HIDE DEF q
<1>5. \A n \in Remote : V[n] # {} => n \in Publisher
  BY <1>4 DEF OrderOf
<1>6. \A n, j \in Remote : n # j => Ahead(V[n], V[j])
  BY <1>1, <1>3, <1>4 DEF OrderOf, Ahead
<1>7. \A n, j \in Remote : Ahead(D[n], V[j])
  BY <1>1, <1>4 DEF OrderOf, Ahead
<1>8. \A s \in Service, j \in Remote : Ahead(G[s] \cup B[s], V[j])
  BY <1>2, <1>4 DEF OrderOf, Ahead
<1>9. /\ \A n \in Remote : \A p \in V[n] \cup D[n] : p <= q
      /\ \A s \in Service : \A p \in B[s] \cup G[s] : p <= q
  BY <1>1, <1>2, <1>4 DEF q
<1> QED
  BY <1>5, <1>6, <1>7, <1>8, <1>9 DEF OrderOf, q

\* The owner publishes one of his own.
LEMMA OwnerFirst ==
  ASSUME Placed, NEW U, NEW D, NEW B, NEW G, NEW top \in Nat, Sets(U, D, B, G), OrderOf(U, D, B, G, top),
         Owner \in Publisher, top + 1 \in Message
  PROVE  OrderOf(U, D, B, G, top + 1) /\ Fits(U, D, B, G, top + 1, top + 1)
<1> DEFINE q == top + 1
<1>1. \A n \in Remote : \A p \in U[n] \cup D[n] : p \in Nat /\ p <= top /\ p <= q /\ Precedes(p, q)
  BY DEF OrderOf, Precedes, Sets, Message
<1>2. \A s \in Service : \A p \in G[s] \cup B[s] : p \in Nat /\ p <= top /\ p <= q /\ Precedes(p, q)
  BY DEF OrderOf, Precedes, Sets, Message
<1>3. \A n \in Remote : \A p \in U[n] : Precedes(q, p)
  <2> TAKE n \in Remote
  <2> TAKE p \in U[n]
  <2>1. n \in Publisher /\ n # Owner
    BY LinkIs DEF OrderOf
  <2>2. ~Alone
    BY <2>1, AloneIs
  <2> QED
    BY <1>1, <2>2 DEF Precedes
<1>4. q \in Message /\ q <= q
  BY DEF Message
<1> HIDE DEF q
<1>5. OrderOf(U, D, B, G, q)
  BY <1>1, <1>2 DEF OrderOf
<1>6. Fits(U, D, B, G, q, q)
  BY <1>1, <1>2, <1>3, <1>4 DEF Fits, Ahead
<1> QED
  BY <1>5, <1>6 DEF q

\* The owner takes one of another node.
LEMMA OwnerNext ==
  ASSUME NEW U, NEW D, NEW B, NEW G, NEW top, OrderOf(U, D, B, G, top),
         NEW k \in Remote, NEW V, NEW p \in Message, U[k] = V[k] \cup {p}, Ahead({p}, V[k]),
         \A n \in Remote : n # k => V[n] = U[n]
  PROVE  OrderOf(V, D, B, G, top) /\ Fits(V, D, B, G, top, p)
<1>1. \A n \in Remote : V[n] \subseteq U[n]
  OBVIOUS
<1>2. \A n \in Remote : Ahead({p}, V[n])
  BY DEF OrderOf, Ahead
<1>3. OrderOf(V, D, B, G, top)
  BY <1>1 DEF OrderOf, Ahead
<1>4. Fits(V, D, B, G, top, p)
  BY <1>2 DEF OrderOf, Ahead, Fits
<1> QED
  BY <1>3, <1>4

\* The owner publishes, to some of the nodes and some of his services.
LEMMA OwnerSends ==
  ASSUME Placed, NEW U, NEW D, NEW B, NEW G, NEW top, OrderOf(U, D, B, G, top),
         NEW p, Fits(U, D, B, G, top, p), NEW E, NEW C,
         \A n \in Remote : E[n] \subseteq D[n] \cup {p},
         \A s \in Service : C[s] \subseteq B[s] \cup {p},
         \A s \in Service : Home[s] \in Remote => C[s] = B[s]
  PROVE  OrderOf(U, E, C, G, top)
<1>1. \A n, k \in Remote : Ahead(E[n], U[k])
  BY DEF OrderOf, Ahead, Fits
<1>2. \A s \in Service : Ahead(G[s], C[s])
  BY DEF OrderOf, Ahead, Fits
<1>3. \A s \in Service, k \in Remote : Ahead(G[s] \cup C[s], U[k])
  BY DEF OrderOf, Ahead, Fits
<1>4. \A s \in Service : Home[s] \in Remote => Ahead(G[s] \cup C[s], E[Home[s]])
  BY DEF OrderOf, Ahead, Fits
<1>5. /\ \A n \in Remote : \A q \in U[n] \cup E[n] : q <= top
      /\ \A s \in Service : \A q \in C[s] \cup G[s] : q <= top
  BY DEF OrderOf, Fits
<1> QED
  BY <1>1, <1>2, <1>3, <1>4, <1>5 DEF OrderOf

\* A node gives a message to its services.
Gives(k, D, E, B, C, P) ==
  /\ D[k] = E[k] \cup P /\ Ahead(P, E[k])
  /\ \A n \in Remote : n # k => E[n] = D[n]
  /\ \A s \in Service : C[s] \subseteq B[s] \cup P
  /\ \A s \in Service : Home[s] # k => C[s] = B[s]

LEMMA NodeGives ==
  ASSUME NEW U, NEW D, NEW B, NEW G, NEW top, OrderOf(U, D, B, G, top),
         NEW k \in Remote, NEW E, NEW P, NEW C, Gives(k, D, E, B, C, P)
  PROVE  OrderOf(U, E, C, G, top) /\ \A s \in Service : Home[s] = k => Ahead(G[s] \cup B[s], P)
<1>7. /\ D[k] = E[k] \cup P /\ Ahead(P, E[k])
      /\ \A n \in Remote : n # k => E[n] = D[n]
      /\ \A s \in Service : C[s] \subseteq B[s] \cup P
      /\ \A s \in Service : Home[s] # k => C[s] = B[s]
  BY DEF Gives
<1>0. \A n \in Remote : E[n] \subseteq D[n]
  BY <1>7
<1>6. /\ \A s \in Service : Home[s] = k => Ahead(G[s] \cup B[s], P)
      /\ \A n \in Remote : Ahead(P, U[n])
  BY <1>7 DEF OrderOf, Ahead
<1>1. \A n, j \in Remote : Ahead(E[n], U[j])
  BY <1>0, <1>7 DEF OrderOf, Ahead
<1>2. \A s \in Service : Ahead(G[s], C[s])
  BY <1>6, <1>7 DEF OrderOf, Ahead
<1>3. \A s \in Service, n \in Remote : Ahead(G[s] \cup C[s], U[n])
  BY <1>6, <1>7 DEF OrderOf, Ahead
<1>4. \A s \in Service : Home[s] \in Remote => Ahead(G[s] \cup C[s], E[Home[s]])
  BY <1>0, <1>6, <1>7 DEF OrderOf, Ahead
<1>5. /\ \A n \in Remote : \A q \in U[n] \cup E[n] : q <= top
      /\ \A s \in Service : \A q \in C[s] \cup G[s] : q <= top
  BY <1>0, <1>7 DEF OrderOf
<1> QED
  BY <1>1, <1>2, <1>3, <1>4, <1>5, <1>6 DEF OrderOf

\* Service t takes p, the first of its mailbox: what is waiting and what was got.
Taken(B, G, C, H, t, p) ==
  /\ B[t] = C[t] \cup {p} /\ Ahead({p}, C[t]) /\ H[t] \subseteq G[t] \cup {p}
  /\ \A s \in Service : s # t => C[s] = B[s] /\ H[s] = G[s]

\* A service takes a message from its mailbox, to dispatch it or not.
LEMMA ServiceTakes ==
  ASSUME NEW U, NEW D, NEW B, NEW G, NEW top, OrderOf(U, D, B, G, top),
         NEW t \in Service, NEW C, NEW p, NEW H, Taken(B, G, C, H, t, p)
  PROVE  OrderOf(U, D, C, H, top) /\ Ahead(G[t], {p})
<1> USE DEF Taken
<1>0. \A s \in Service : C[s] \subseteq B[s] /\ H[s] \cup C[s] \subseteq G[s] \cup B[s]
  OBVIOUS
<1>1. Ahead(G[t], {p})
  BY DEF OrderOf, Ahead
<1>2. \A s \in Service : Ahead(H[s], C[s])
  BY <1>0, <1>1 DEF OrderOf, Ahead
<1>3. \A s \in Service, n \in Remote : Ahead(H[s] \cup C[s], U[n])
  BY <1>0 DEF OrderOf, Ahead
<1>4. \A s \in Service : Home[s] \in Remote => Ahead(H[s] \cup C[s], D[Home[s]])
  BY <1>0 DEF OrderOf, Ahead
<1>5. \A s \in Service : \A q \in C[s] \cup H[s] : q <= top
  BY <1>0 DEF OrderOf
<1> QED
  BY <1>1, <1>2, <1>3, <1>4, <1>5 DEF OrderOf

-----------------------------------------------------------------------------
\* What the handlers do to mailboxes and packages.
LEMMA HoldersFinite ==
  ASSUME Placed
  PROVE  \A n, p, B : IsFiniteSet(Holders(n, p, B)) /\ Cardinality(Holders(n, p, B)) \in Nat
<1> TAKE n, p, B
<1>1. Holders(n, p, B) \subseteq Service
  BY DEF Holders
<1> QED
  BY <1>1, FS_Subset, FS_CardinalityType DEF Placed

LEMMA LocalIs ==
  ASSUME Placed, Types, Lined, References, Exact, NEW n \in Node, NEW p \in Message, Local(n, p),
         \A s \in At(n) : Ahead(Boxes[s], {p}), UNCHANGED got
  PROVE  /\ inbox' \in [Service -> Seq(Message)] /\ Lined' /\ References' /\ Exact'
         /\ \A s \in Service : Boxes'[s] = Boxes[s] \/ (s \in At(n) /\ Boxes'[s] = Boxes[s] \cup {p})
         /\ group[n] # NULL => \A s \in group[n] : Boxes'[s] = Boxes[s] \cup {p}
<1>1. CASE group[n] \in {NULL, {}}
  <2>1. UNCHANGED <<reference, inbox>>
    BY <1>1 DEF Local
  <2> QED
    BY <1>1, <2>1 DEF Types, Lined, References, Exact, Boxes
<1>2. CASE group[n] \notin {NULL, {}}
  <2>1. group[n] \subseteq At(n) /\ group[n] \subseteq Service /\ n \in Node
    BY <1>2 DEF Types, At
  <2>2. /\ reference' = [reference EXCEPT ![<<n, p>>] = Cardinality(group[n])]
        /\ inbox' = [s \in Service |-> IF s \in group[n] THEN Append(inbox[s], p) ELSE inbox[s]]
    BY <1>2 DEF Local, Bound
  <2>3. ASSUME NEW s \in Service, s \in group[n]
        PROVE  inbox'[s] \in Seq(Message) /\ Line(inbox'[s]) /\ Within(inbox'[s]) = Within(inbox[s]) \cup {p}
    <3>1. inbox[s] \in Seq(Message) /\ Line(inbox[s]) /\ Ahead(Within(inbox[s]), {p}) /\ inbox'[s] = Append(inbox[s], p)
      BY <2>1, <2>2, <2>3 DEF Types, Lined, Boxes
    <3> QED
      BY <3>1, LineAppend, AppendIs
  <2>4. ASSUME NEW s \in Service, s \notin group[n]
        PROVE  inbox'[s] = inbox[s]
    BY <2>2, <2>4
  <2>5. inbox' \in [Service -> Seq(Message)]
    <3>1. DOMAIN inbox' = Service /\ \A s \in Service : inbox'[s] \in Seq(Message)
      BY <2>2, <2>3, <2>4 DEF Types
    <3>2. inbox' = [s \in Service |-> inbox'[s]]
      BY <2>2
    <3> QED
      BY <3>1, <3>2
  <2>6. Lined'
    BY <2>3, <2>4 DEF Lined
  <2>7. \A s \in Service : Boxes'[s] = IF s \in group[n] THEN Boxes[s] \cup {p} ELSE Boxes[s]
    BY <2>3, <2>4 DEF Boxes
  <2>8. References' /\ Exact'
    <3>1. IsFiniteSet(group[n]) /\ Cardinality(group[n]) \in Nat
      BY <2>1, FS_Subset, FS_CardinalityType DEF Placed
    <3>2. References'
      BY <2>2, <3>1 DEF References
    <3>3. Holders(n, p, Boxes') = group[n]
      BY <2>1, <2>7 DEF Holders, At, Ahead, Precedes
    <3>4. ASSUME NEW k \in Node, NEW q \in Message, <<k, q>> # <<n, p>>
          PROVE  Holders(k, q, Boxes') = Holders(k, q, Boxes)
      BY <2>1, <2>7, <3>4 DEF Holders, At
    <3>5. ASSUME NEW k \in Node, NEW q \in Message
          PROVE  reference'[<<k, q>>] = Cardinality(Holders(k, q, Boxes'))
      <4>1. CASE <<k, q>> = <<n, p>>
        BY <2>2, <3>3, <4>1 DEF References
      <4>2. CASE <<k, q>> # <<n, p>>
        BY <2>2, <3>4, <4>2 DEF References, Exact
      <4> QED
        BY <4>1, <4>2
    <3>6. Exact'
      BY <3>5 DEF Exact
    <3> QED
      BY <3>2, <3>6
  <2>9. \A s \in Service : Boxes'[s] = Boxes[s] \/ (s \in At(n) /\ Boxes'[s] = Boxes[s] \cup {p})
    BY <2>1, <2>7
  <2>10. \A s \in group[n] : Boxes'[s] = Boxes[s] \cup {p}
    BY <2>1, <2>7
  <2> QED
    BY <2>5, <2>6, <2>8, <2>9, <2>10
<1> QED
  BY <1>1, <1>2

LEMMA DispatchIs ==
  ASSUME Placed, Types, Lined, References, Exact, NEW t \in Service, Dispatch(t),
         Ahead(Gotten[t], Boxes[t])
  PROVE  /\ NextMessage(t) \in Message /\ NextMessage(t) \notin Boxes'[t]
         /\ Boxes[t] = Boxes'[t] \cup {NextMessage(t)} /\ Ahead({NextMessage(t)}, Boxes'[t])
         /\ Gotten'[t] = IF sub[t] = "in" THEN Gotten[t] \cup {NextMessage(t)} ELSE Gotten[t]
         /\ \A s \in Service : s # t => Boxes'[s] = Boxes[s] /\ Gotten'[s] = Gotten[s]
         /\ inbox' \in [Service -> Seq(Message)] /\ got' \in [Service -> Seq(Message)]
         /\ Lined' /\ References' /\ Exact'
<1> DEFINE p == NextMessage(t)  k == Home[t]
<1>1. /\ inbox[t] # <<>> /\ inbox[t] \in Seq(Message) /\ Line(inbox[t]) /\ p = Head(inbox[t])
      /\ got[t] \in Seq(Message) /\ Line(got[t]) /\ k \in Node
  BY DEF Dispatch, Types, Lined, NextMessage, Placed
<1>2. /\ inbox' = [inbox EXCEPT ![t] = Tail(@)]
      /\ reference' = [reference EXCEPT ![<<k, p>>] = @ - 1]
      /\ got' = IF sub[t] = "in" THEN [got EXCEPT ![t] = Append(@, p)] ELSE got
  BY DEF Dispatch
<1>3. /\ inbox'[t] = Tail(inbox[t]) /\ \A s \in Service : s # t => inbox'[s] = inbox[s] /\ got'[s] = got[s]
      /\ got'[t] = IF sub[t] = "in" THEN Append(got[t], p) ELSE got[t]
  BY <1>2 DEF Types
<1>4. /\ p \in Message /\ inbox'[t] \in Seq(Message) /\ Line(inbox'[t]) /\ p \in Within(inbox[t])
      /\ Within(inbox'[t]) = Within(inbox[t]) \ {p} /\ Ahead({p}, Within(inbox'[t]))
  BY <1>1, <1>3, LineTail, TailIs
<1> HIDE DEF p, k
<1>5. /\ got'[t] \in Seq(Message) /\ Line(got'[t])
      /\ Within(got'[t]) = IF sub[t] = "in" THEN Within(got[t]) \cup {p} ELSE Within(got[t])
  <2>1. Ahead(Within(got[t]), {p})
    BY <1>4 DEF Ahead, Gotten, Boxes
  <2>2. /\ Append(got[t], p) \in Seq(Message) /\ Line(Append(got[t], p))
        /\ Within(Append(got[t], p)) = Within(got[t]) \cup {p}
    BY <1>1, <1>4, <2>1, LineAppend, AppendIs
  <2> QED
    BY <1>1, <1>3, <2>2
<1>6. inbox' \in [Service -> Seq(Message)] /\ got' \in [Service -> Seq(Message)]
  BY <1>1, <1>2, <1>4, <1>5, AppendIs DEF Types
<1>7. Lined'
  BY <1>3, <1>4, <1>5 DEF Lined
<1>8. /\ \A s \in Service : s # t => Boxes'[s] = Boxes[s] /\ Gotten'[s] = Gotten[s]
      /\ p \notin Boxes'[t] /\ Boxes[t] = Boxes'[t] \cup {p} /\ Ahead({p}, Boxes'[t])
      /\ Gotten'[t] = IF sub[t] = "in" THEN Gotten[t] \cup {p} ELSE Gotten[t]
  BY <1>3, <1>4, <1>5 DEF Boxes, Gotten
<1>9. /\ Holders(k, p, Boxes') = Holders(k, p, Boxes) \ {t} /\ t \in Holders(k, p, Boxes)
      /\ \A n \in Node, q \in Message : <<n, q>> # <<k, p>> => Holders(n, q, Boxes') = Holders(n, q, Boxes)
  <2>1. t \in Holders(k, p, Boxes)
    BY <1>8 DEF Holders, k
  <2>2. Holders(k, p, Boxes') = Holders(k, p, Boxes) \ {t}
    BY <1>8 DEF Holders
  <2>3. \A n \in Node, q \in Message : <<n, q>> # <<k, p>> => Holders(n, q, Boxes') = Holders(n, q, Boxes)
    BY <1>8 DEF Holders, k
  <2> QED
    BY <2>1, <2>2, <2>3
<1>10. Cardinality(Holders(k, p, Boxes')) = Cardinality(Holders(k, p, Boxes)) - 1
  BY <1>9, HoldersFinite, FS_RemoveElement
<1>11. reference'[<<k, p>>] = Cardinality(Holders(k, p, Boxes'))
  BY <1>1, <1>2, <1>4, <1>10 DEF References, Exact
<1>12. \A n \in Node, q \in Message : <<n, q>> # <<k, p>> => reference'[<<n, q>>] = Cardinality(Holders(n, q, Boxes'))
  BY <1>2, <1>9 DEF References, Exact
<1>13. Exact'
  BY <1>11, <1>12 DEF Exact
<1>14. References'
  BY <1>1, <1>2, <1>4, <1>11, HoldersFinite DEF References
<1> QED
  BY <1>4, <1>6, <1>7, <1>8, <1>13, <1>14 DEF p

-----------------------------------------------------------------------------
\* Steps that send and take commands leave messages where they are.
Unmoved == \A n \in Remote : /\ Carried(link'[From(n)]) = Carried(link[From(n)])
                             /\ Carried(link'[To(n)]) = Carried(link[To(n)])

LEMMA CommandsKeep ==
  ASSUME Inv, Linked(link'), Unmoved, UNCHANGED <<inbox, got, reference, published>>
  PROVE  Order' /\ References' /\ Exact'
<1>1. Up(link') = Up(link) /\ Down(link') = Down(link) /\ Boxes' = Boxes /\ Gotten' = Gotten
  BY DEF Unmoved, Up, Down, Boxes, Gotten
<1>2. Order'
  BY <1>1 DEF Inv, Order, Lined
<1> QED
  BY <1>1, <1>2 DEF Inv, References, Exact

\* A command behind the others of a link.
LEMMA CommandSent ==
  ASSUME Placed, NEW f, Linked(f), NEW l \in Link, NEW m \in Said(l), m.type # "multicast"
  PROVE  /\ Linked(Sent(f, l, m)) /\ Sent(f, l, m)[l] = Append(f[l], m)
         /\ \A k \in Link : /\ Carried(Sent(f, l, m)[k]) = Carried(f[k])
                            /\ k # l => Sent(f, l, m)[k] = f[k]
<1>1. Now(f[l], m) = Carried(f[l])
  BY DEF Now
<1>2. /\ Linked(Sent(f, l, m)) /\ Sent(f, l, m)[l] = Append(f[l], m)
      /\ Carried(Sent(f, l, m)[l]) = Now(f[l], m)
      /\ \A k \in Link : k # l => Sent(f, l, m)[k] = f[k]
  BY SendIs
<1> QED
  BY <1>1, <1>2

LEMMA CommandTaken ==
  ASSUME Placed, NEW f, Linked(f), NEW l \in Link, f[l] # <<>>, Head(f[l]).type # "multicast"
  PROVE  /\ Linked(Rest(f, l)) /\ Rest(f, l)[l] = Tail(f[l])
         /\ \A k \in Link : /\ Carried(Rest(f, l)[k]) = Carried(f[k])
                            /\ k # l => Rest(f, l)[k] = f[k]
<1>1. Now(Rest(f, l)[l], Head(f[l])) = Carried(Rest(f, l)[l])
  BY DEF Now
<1> QED
  BY <1>1, TakeIs

LEMMA JoinedIs ==
  ASSUME Placed, Types, NEW s \in Service, NEW g, g = NULL \/ g \subseteq At(Home[s]), Joined(s, g)
  PROVE  /\ DOMAIN group' = Node
         /\ \A n \in Node : group'[n] = NULL \/ group'[n] \subseteq At(n)
         /\ \A n \in Remote : group'[n] # {}
         /\ sub' \in [Service -> {"out", "calling", "in"}]
<1>1. s \in At(Home[s]) /\ Home[s] \in Node
  BY DEF At, Placed
<1>2. \A n \in Node : group'[n] = IF n = Home[s] THEN IF g = NULL THEN NULL ELSE g \cup {s} ELSE group[n]
  BY DEF Joined, Types
<1>3. NULL # {} /\ \A n \in Remote : n \in Node
  BY DEF Placed, Node
<1>4. \A n \in Node : group'[n] = NULL \/ group'[n] \subseteq At(n)
  BY <1>1, <1>2 DEF Types
<1>5. \A n \in Remote : group'[n] # {}
  BY <1>2, <1>3 DEF Types
<1> QED
  BY <1>4, <1>5 DEF Joined, Types

LEMMA SaidCommands ==
  ASSUME Placed
  PROVE  /\ \A s \in Service : Home[s] # Owner =>
              /\ Home[s] \in Remote
              /\ Command("SUBR", s, 0) \in Said(From(Home[s])) /\ Command("USUBR", s, 0) \in Said(From(Home[s]))
         /\ \A n \in Remote : Command("DEL", NULL, 0) \in Said(From(n)) /\ Command("DELR", NULL, 0) \in Said(To(n))
         /\ \A n \in Remote, p \in Message : /\ Command("multicast", NULL, p) \in Said(From(n))
                                             /\ Command("multicast", NULL, p) \in Said(To(n))
         /\ \A n \in Remote : \A s \in At(n) : \A x \in {0, 1} : Command("answer", s, x) \in Said(To(n))
<1>1. \A s \in Service : Home[s] \in Node /\ s \in At(Home[s])
  BY DEF Placed, At
<1>2. \A s \in Service : Home[s] # Owner => Home[s] \in Remote
  BY <1>1 DEF Node
<1> QED
  BY <1>1, <1>2, SaidIs DEF Command, Upward, Downward

LEMMA InitInv == Placed /\ Init => Inv
<1> SUFFICES ASSUME Placed, Init PROVE Inv
  OBVIOUS
<1>1. 0 \in 0 .. MaxPublished /\ MaxPublished \in Nat
  BY DEF Placed
<1>2. Owner \notin Remote /\ NULL # {}
  BY DEF Placed
<1>3. Types
  <2>1. DOMAIN group = Node /\ \A n \in Node : group[n] = IF n = Owner THEN {} ELSE NULL
    BY DEF Init
  <2>2. /\ DOMAIN group = Node /\ \A n \in Node : group[n] = NULL \/ group[n] \subseteq At(n)
        /\ \A n \in Remote : group[n] # {}
    BY <1>2, <2>1 DEF Node
  <2>3. inbox \in [Service -> Seq(Message)] /\ got \in [Service -> Seq(Message)]
    <3>1. <<>> \in Seq(Message)
      OBVIOUS
    <3> QED
      BY <3>1 DEF Init
  <2>4. sub \in [Service -> {"out", "calling", "in"}] /\ due \in [Service -> SUBSET Message]
    BY DEF Init
  <2> QED
    BY <1>1, <2>2, <2>3, <2>4 DEF Init, Types
<1>4. Linked(link)
  BY DEF Init, Linked, Row
<1>5. Lined
  BY DEF Init, Lined, Line
<1>6. Boxes = [s \in Service |-> {}] /\ Gotten = [s \in Service |-> {}]
  BY DEF Init, Boxes, Gotten, Within
<1>7. \A n \in Remote : Up(link)[n] = {} /\ Down(link)[n] = {}
  BY LinkIs DEF Init, Up, Down, Carried
<1>8. OrderOf(Up(link), Down(link), Boxes, Gotten, published)
  BY <1>6, <1>7 DEF OrderOf, Ahead
<1>9. References
  BY DEF Init, References
<1>10. \A n, p : Holders(n, p, Boxes) = {}
  BY <1>6 DEF Holders
<1>11. Exact
  BY <1>10, FS_EmptySet DEF Init, Exact
<1> QED
  BY <1>3, <1>4, <1>5, <1>8, <1>9, <1>11 DEF Inv, Order

LEMMA SUBInv ==
  ASSUME Placed, Inv, NEW s \in Service, SUB(s)
  PROVE  Inv'
<1> DEFINE n == Home[s]
<1>1. UNCHANGED <<remote, inbox, reference, deleted, published, got, due>> /\ n \in Node /\ Types /\ Linked(link)
  BY DEF SUB, Inv, Order, Placed
<1>2. CASE MustAsk(n)
  <2> DEFINE m == Command("SUBR", s, 0)
  <2>1. /\ link' = Sent(link, From(n), m)
        /\ sub' = [sub EXCEPT ![s] = "calling"] /\ UNCHANGED group
    BY <1>2 DEF SUB, Sends, Sent
  <2>2. n \in Remote /\ m \in Said(From(n)) /\ m.type # "multicast" /\ From(n) \in Link
    BY <1>2, SaidCommands, LinkIs DEF MustAsk, Command
  <2> HIDE DEF m
  <2>3. Linked(link') /\ Unmoved
    <3>1. Linked(link') /\ \A k \in Link : Carried(link'[k]) = Carried(link[k])
      BY <1>1, <2>1, <2>2, CommandSent
    <3> QED
      BY <3>1, LinkIs DEF Unmoved
  <2>4. Types'
    BY <1>1, <2>1 DEF Types
  <2> QED
    BY <1>1, <2>3, <2>4, CommandsKeep DEF Inv
<1>3. CASE ~MustAsk(n)
  <2>1. Joined(s, group[n]) /\ UNCHANGED link
    BY <1>3 DEF SUB
  <2>2. Types'
    BY <1>1, <2>1, JoinedIs DEF Types
  <2>3. Linked(link') /\ Unmoved
    BY <1>1, <2>1 DEF Unmoved
  <2> QED
    BY <1>1, <2>2, <2>3, CommandsKeep DEF Inv
<1> QED
  BY <1>2, <1>3

LEMMA USUBInv ==
  ASSUME Placed, Inv, NEW s \in Service, USUB(s)
  PROVE  Inv'
<1> DEFINE n == Home[s]
<1>1. /\ UNCHANGED <<remote, inbox, reference, deleted, published, got>> /\ n \in Node /\ Types /\ Linked(link)
      /\ sub' = [sub EXCEPT ![s] = "out"] /\ due' = [due EXCEPT ![s] = {}]
  BY DEF USUB, Inv, Order, Placed
<1>2. /\ sub' \in [Service -> {"out", "calling", "in"}] /\ due' \in [Service -> SUBSET Message]
  BY <1>1 DEF Types
<1>3. CASE group[n] = NULL \/ ~LastOne(s)
  <2>1. UNCHANGED link /\ (UNCHANGED group \/ (group[n] # NULL /\ group' = [group EXCEPT ![n] = @ \ {s}]))
    BY <1>3 DEF USUB
  <2>2. Types'
    <3>1. CASE UNCHANGED group
      BY <1>1, <1>2, <3>1 DEF Types
    <3>2. CASE group[n] # NULL /\ group' = [group EXCEPT ![n] = @ \ {s}]
      <4>1. n \in Remote => group[n] \ {s} # {}
        <5>1. n \in Remote => n # Owner /\ group[n] # {} /\ group[n] # {s}
          BY <1>1, <1>3, <3>2, LinkIs DEF LastOne, Types
        <5> QED
          BY <5>1
      <4>2. \A k \in Node : group'[k] = IF k = n THEN group[n] \ {s} ELSE group[k]
        BY <1>1, <3>2 DEF Types
      <4>3. group[n] \subseteq At(n)
        BY <1>1, <3>2 DEF Types
      <4>4. \A k \in Node : group'[k] = NULL \/ group'[k] \subseteq At(k)
        BY <1>1, <4>2, <4>3 DEF Types
      <4>5. \A k \in Remote : group'[k] # {}
        BY <1>1, <4>1, <4>2 DEF Types, Node
      <4>6. DOMAIN group' = Node
        BY <1>1, <3>2 DEF Types
      <4> QED
        BY <1>1, <1>2, <4>4, <4>5, <4>6 DEF Types
    <3> QED
      BY <2>1, <3>1, <3>2
  <2>3. Linked(link') /\ Unmoved
    BY <1>1, <2>1 DEF Unmoved
  <2> QED
    BY <1>1, <2>2, <2>3, CommandsKeep DEF Inv
<1>4. CASE group[n] # NULL /\ LastOne(s)
  <2> DEFINE m == Command("USUBR", s, 0)
  <2>1. link' = Sent(link, From(n), m) /\ group' = [group EXCEPT ![n] = NULL]
    BY <1>4 DEF USUB, Sends, Sent
  <2>2. n \in Remote /\ m \in Said(From(n)) /\ m.type # "multicast" /\ From(n) \in Link
    BY <1>4, SaidCommands, LinkIs DEF LastOne, Command
  <2> HIDE DEF m
  <2>3. Linked(link') /\ Unmoved
    <3>1. Linked(link') /\ \A k \in Link : Carried(link'[k]) = Carried(link[k])
      BY <1>1, <2>1, <2>2, CommandSent
    <3> QED
      BY <3>1, LinkIs DEF Unmoved
  <2>4. NULL # {} /\ \A k \in Node : group'[k] = IF k = n THEN NULL ELSE group[k]
    BY <1>1, <2>1 DEF Types, Placed
  <2>5. Types'
    BY <1>1, <1>2, <2>1, <2>4 DEF Types, Node
  <2> QED
    BY <1>1, <2>3, <2>5, CommandsKeep DEF Inv
<1> QED
  BY <1>3, <1>4

LEMMA NodesAre == ASSUME Types PROVE Nodes(remote) \subseteq Remote
  BY DEF Types, Nodes

LEMMA DeletedIs ==
  ASSUME Placed, Types, NEW f, Linked(f), Deleted(f)
  PROVE  /\ link' = Spread(f, Nodes(remote), Command("DELR", NULL, 0))
         /\ Linked(link') /\ \A l \in Link : Carried(link'[l]) = Carried(f[l])
         /\ \A n \in Remote : link'[From(n)] = f[From(n)]
         /\ \A n \in Nodes(remote) : link'[To(n)] = Append(f[To(n)], Command("DELR", NULL, 0))
         /\ \A n \in Remote \ Nodes(remote) : link'[To(n)] = f[To(n)]
         /\ DOMAIN group' = Node /\ remote' = NULL
         /\ \A n \in Node : group'[n] = IF n = Owner THEN NULL ELSE group[n]
<1> DEFINE m == Command("DELR", NULL, 0)
<1>1. link' = Spread(f, Nodes(remote), m) /\ remote' = NULL
  BY DEF Deleted, Spread
<1>2. \A n \in Nodes(remote) : m \in Downward(n) /\ n \in Remote
  BY NodesAre, SaidCommands, SaidIs
<1>3. m.type # "multicast"
  BY DEF Command
<1>4. DOMAIN group' = Node /\ \A n \in Node : group'[n] = IF n = Owner THEN NULL ELSE group[n]
  BY DEF Deleted, Types
<1> HIDE DEF m
<1>5. /\ Linked(link') /\ \A n \in Remote : link'[From(n)] = f[From(n)]
      /\ \A n \in Nodes(remote) : link'[To(n)] = Append(f[To(n)], m) /\ Carried(link'[To(n)]) = Now(f[To(n)], m)
      /\ \A n \in Remote \ Nodes(remote) : link'[To(n)] = f[To(n)]
  <2> DEFINE N == Nodes(remote)
  <2>1. N \in SUBSET Remote /\ (\A n \in N : m \in Downward(n)) /\ link' = Spread(f, N, m)
    BY <1>1, <1>2
  <2> HIDE DEF N
  <2>2. /\ Linked(Spread(f, N, m)) /\ \A n \in Remote : Spread(f, N, m)[From(n)] = f[From(n)]
        /\ \A n \in N : Spread(f, N, m)[To(n)] = Append(f[To(n)], m) /\ Carried(Spread(f, N, m)[To(n)]) = Now(f[To(n)], m)
        /\ \A n \in Remote \ N : Spread(f, N, m)[To(n)] = f[To(n)]
    BY <1>3, <2>1, SpreadIs, ZenonT(60)
  <2> QED
    BY <2>1, <2>2 DEF N
<1>6. \A n \in Remote : Now(f[To(n)], m) = Carried(f[To(n)])
  BY <1>3 DEF Now
<1>7. \A l \in Link : Carried(link'[l]) = Carried(f[l])
  BY <1>2, <1>5, <1>6, LinkIs
<1> QED
  BY <1>1, <1>4, <1>5, <1>7 DEF m

LEMMA DeletedTypes ==
  ASSUME Placed, Types, NEW f, Linked(f), Deleted(f)
  PROVE  /\ DOMAIN group' = Node /\ \A n \in Node : group'[n] = NULL \/ group'[n] \subseteq At(n)
         /\ \A n \in Remote : group'[n] # {}
         /\ remote' = NULL \/ remote' \subseteq Remote
<1>1. /\ DOMAIN group' = Node /\ remote' = NULL
      /\ \A n \in Node : group'[n] = IF n = Owner THEN NULL ELSE group[n]
  BY DeletedIs
<1> QED
  BY <1>1 DEF Types, Placed, Node

LEMMA DELInv ==
  ASSUME Placed, Inv, NEW n \in Node, DEL(n)
  PROVE  Inv'
<1>1. /\ UNCHANGED <<sub, inbox, reference, published, got, due, times>> /\ deleted' = TRUE
      /\ Types /\ Linked(link)
  BY DEF DEL, Inv, Order
<1>2. CASE n = Owner
  <2>1. Deleted(link)
    BY <1>2 DEF DEL
  <2>2. Linked(link') /\ Unmoved
    BY <1>1, <2>1, DeletedIs, LinkIs DEF Unmoved
  <2>3. Types'
    BY <1>1, <2>1, DeletedTypes DEF Types
  <2> QED
    BY <1>1, <2>2, <2>3, CommandsKeep DEF Inv
<1>3. CASE n # Owner
  <2> DEFINE m == Command("DEL", NULL, 0)
  <2>1. link' = Sent(link, From(n), m) /\ UNCHANGED <<group, remote>>
    BY <1>3 DEF DEL, Sends, Sent
  <2>2. n \in Remote /\ m \in Said(From(n)) /\ m.type # "multicast" /\ From(n) \in Link
    BY <1>3, SaidCommands, LinkIs DEF Node, Command
  <2> HIDE DEF m
  <2>3. Linked(link') /\ Unmoved
    <3>1. Linked(link') /\ \A k \in Link : Carried(link'[k]) = Carried(link[k])
      BY <1>1, <2>1, <2>2, CommandSent
    <3> QED
      BY <3>1, LinkIs DEF Unmoved
  <2>4. Types'
    BY <1>1, <2>1 DEF Types
  <2> QED
    BY <1>1, <2>3, <2>4, CommandsKeep DEF Inv
<1> QED
  BY <1>2, <1>3

\* Publishing at the owner.
LEMMA PublishedIs ==
  ASSUME Placed, Types, Lined, References, Exact, NEW f, Linked(f), NEW top, NEW p,
         OrderOf(Up(f), Down(f), Boxes, Gotten, top), Fits(Up(f), Down(f), Boxes, Gotten, top, p),
         Published(p, f), UNCHANGED got
  PROVE  /\ Linked(link') /\ Lined' /\ OrderOf(Up(link'), Down(link'), Boxes', Gotten', top)
         /\ inbox' \in [Service -> Seq(Message)] /\ due' \in [Service -> SUBSET Message]
         /\ References' /\ Exact'
         /\ \A n \in Remote : link'[From(n)] = f[From(n)]
         /\ \A n \in Nodes(remote) : /\ link'[To(n)] = Append(f[To(n)], Command("multicast", NULL, p))
                                     /\ p \in Carried(link'[To(n)])
         /\ \A n \in Remote \ Nodes(remote) : link'[To(n)] = f[To(n)]
         /\ \A n \in Remote : Carried(f[To(n)]) \subseteq Carried(link'[To(n)])
         /\ \A s \in Service : Boxes[s] \subseteq Boxes'[s]
         /\ group[Owner] # NULL => \A s \in group[Owner] : p \in Boxes'[s]
         /\ Gotten' = Gotten
         /\ due' = [s \in Service |-> IF sub[s] = "in" THEN due[s] \cup {p} ELSE due[s]]
<1> DEFINE m == Command("multicast", NULL, p)
<1>1. /\ link' = Spread(f, Nodes(remote), m) /\ Local(Owner, p)
      /\ due' = [s \in Service |-> IF sub[s] = "in" THEN due[s] \cup {p} ELSE due[s]]
  BY DEF Published, Spread
<1>2. p \in Message /\ Nodes(remote) \subseteq Remote /\ Gotten' = Gotten /\ Owner \in Node
  BY NodesAre DEF Fits, Gotten, Node
<1>3. m.type = "multicast" /\ m.message = p
  BY DEF Command
<1>4. \A n \in Nodes(remote) : m \in Downward(n) /\ Ahead(Carried(f[To(n)]), {m.message})
  BY <1>2, <1>3, SaidCommands, SaidIs DEF Fits, Down
<1>5. \A s \in Service : Ahead(Boxes[s], {p})
  BY DEF Fits, Ahead
<1>6. /\ inbox' \in [Service -> Seq(Message)] /\ Lined' /\ References' /\ Exact'
      /\ \A s \in Service : Boxes'[s] = Boxes[s] \/ (s \in At(Owner) /\ Boxes'[s] = Boxes[s] \cup {p})
      /\ group[Owner] # NULL => \A s \in group[Owner] : Boxes'[s] = Boxes[s] \cup {p}
  BY <1>1, <1>2, <1>5, LocalIs DEF At
<1> HIDE DEF m
<1>7. /\ Linked(link') /\ \A n \in Remote : link'[From(n)] = f[From(n)]
      /\ \A n \in Nodes(remote) : link'[To(n)] = Append(f[To(n)], m) /\ Carried(link'[To(n)]) = Now(f[To(n)], m)
      /\ \A n \in Remote \ Nodes(remote) : link'[To(n)] = f[To(n)]
  <2> DEFINE N == Nodes(remote)
  <2>1. /\ N \in SUBSET Remote /\ link' = Spread(f, N, m)
        /\ \A n \in N : m \in Downward(n) /\ Ahead(Carried(f[To(n)]), {m.message})
    BY <1>1, <1>2, <1>4
  <2> HIDE DEF N
  <2>2. /\ Linked(Spread(f, N, m)) /\ \A n \in Remote : Spread(f, N, m)[From(n)] = f[From(n)]
        /\ \A n \in N : Spread(f, N, m)[To(n)] = Append(f[To(n)], m) /\ Carried(Spread(f, N, m)[To(n)]) = Now(f[To(n)], m)
        /\ \A n \in Remote \ N : Spread(f, N, m)[To(n)] = f[To(n)]
    BY <2>1, SpreadIs, ZenonT(60)
  <2> QED
    BY <2>1, <2>2 DEF N
<1>8. \A n \in Remote : Now(f[To(n)], m) = Carried(f[To(n)]) \cup {p}
  BY <1>3 DEF Now
<1>9. Up(link') = Up(f) /\ \A n \in Remote : Down(link')[n] \subseteq Down(f)[n] \cup {p}
  BY <1>7, <1>8 DEF Up, Down
<1>10. OrderOf(Up(link'), Down(link'), Boxes', Gotten', top)
  <2>1. \A s \in Service : Boxes'[s] \subseteq Boxes[s] \cup {p} /\ (Home[s] \in Remote => Boxes'[s] = Boxes[s])
    BY <1>6, LinkIs DEF At
  <2> QED
    BY <1>2, <1>9, <2>1, OwnerSends
<1>11. due' \in [Service -> SUBSET Message]
  BY <1>1, <1>2 DEF Types
<1>12. /\ \A s \in Service : Boxes[s] \subseteq Boxes'[s]
       /\ group[Owner] # NULL => \A s \in group[Owner] : p \in Boxes'[s]
  BY <1>6
<1>13. /\ \A n \in Nodes(remote) : p \in Carried(link'[To(n)])
       /\ \A n \in Remote : Carried(f[To(n)]) \subseteq Carried(link'[To(n)])
  <2>1. \A n \in Nodes(remote) : Carried(link'[To(n)]) = Carried(f[To(n)]) \cup {p}
    BY <1>2, <1>7, <1>8
  <2>2. \A n \in Remote : n \in Nodes(remote) \/ link'[To(n)] = f[To(n)]
    BY <1>7
  <2> QED
    BY <2>1, <2>2
<1> QED
  BY <1>1, <1>2, <1>6, <1>7, <1>10, <1>11, <1>12, <1>13 DEF m

LEMMA PUBInv ==
  ASSUME Placed, Inv, NEW n \in Publisher, PUB(n)
  PROVE  Inv'
<1> DEFINE p == published + 1
<1>1. /\ published' = p /\ p \in Message /\ published \in Nat /\ p \in 0 .. MaxPublished /\ n \in Node
      /\ UNCHANGED <<group, remote, sub, deleted, got, times>>
  BY DEF PUB, Inv, Types, Message, Placed
<1>2. /\ Types /\ Lined /\ References /\ Exact /\ Linked(link)
      /\ OrderOf(Up(link), Down(link), Boxes, Gotten, published)
      /\ Sets(Up(link), Down(link), Boxes, Gotten)
  BY SetsAre DEF Inv, Order
<1>3. CASE n = Owner
  <2>1. Published(p, link)
    BY <1>1, <1>3 DEF PUB
  <2>2. OrderOf(Up(link), Down(link), Boxes, Gotten, p) /\ Fits(Up(link), Down(link), Boxes, Gotten, p, p)
    BY <1>1, <1>2, <1>3, OwnerFirst
  <2> HIDE DEF p
  <2>3. /\ Linked(link') /\ Lined' /\ OrderOf(Up(link'), Down(link'), Boxes', Gotten', p)
        /\ inbox' \in [Service -> Seq(Message)] /\ due' \in [Service -> SUBSET Message]
        /\ References' /\ Exact'
    BY <1>1, <1>2, <2>1, <2>2, PublishedIs
  <2>4. Types'
    BY <1>1, <1>2, <2>3 DEF Types
  <2> QED
    BY <1>1, <2>3, <2>4 DEF Inv, Order
<1>4. CASE n # Owner
  <2> DEFINE m == Command("multicast", NULL, p)
  <2>1. link' = Sent(link, From(n), m) /\ UNCHANGED <<reference, inbox, due>>
    BY <1>1, <1>4 DEF PUB, Sends, Sent
  <2>2. n \in Remote /\ m \in Said(From(n)) /\ m.type = "multicast" /\ m.message = p /\ From(n) \in Link
    BY <1>1, <1>4, SaidCommands, LinkIs DEF Node, Command
  <2> HIDE DEF m
  <2>3. Ahead(Carried(link[From(n)]), {p})
    <3>1. \A q \in Carried(link[From(n)]) : q \in Nat /\ q <= published
      BY <1>2, <2>2 DEF OrderOf, Up, Carried, Message
    <3> QED
      BY <1>1, <3>1 DEF Ahead, Precedes
  <2>4. /\ Linked(link') /\ Carried(link'[From(n)]) = Now(link[From(n)], m)
        /\ \A k \in Link : k # From(n) => link'[k] = link[k]
    BY <1>2, <2>1, <2>2, <2>3, SendIs
  <2>5. /\ Up(link')[n] = Up(link)[n] \cup {p} /\ Down(link') = Down(link)
        /\ \A k \in Remote : k # n => Up(link')[k] = Up(link)[k]
    BY <2>2, <2>4, LinkIs DEF Up, Down, Now
  <2>6. Up(link') \in [Remote -> SUBSET Message]
    BY DEF Up, Carried
  <2>7. OrderOf(Up(link'), Down(link), Boxes, Gotten, published + 1)
    BY <1>1, <1>2, <2>2, <2>5, <2>6, NodeFirst
  <2>8. Boxes' = Boxes /\ Gotten' = Gotten
    BY <1>1, <2>1 DEF Boxes, Gotten
  <2>9. Types'
    BY <1>1, <1>2, <2>1 DEF Types
  <2>10. Order'
    BY <1>1, <1>2, <2>1, <2>4, <2>5, <2>7, <2>8 DEF Order, Lined
  <2>11. References' /\ Exact'
    BY <1>2, <2>1, <2>8 DEF References, Exact
  <2> QED
    BY <2>9, <2>10, <2>11 DEF Inv
<1> QED
  BY <1>3, <1>4

LEMMA DispatchInv ==
  ASSUME Placed, Inv, NEW t \in Service, Dispatch(t)
  PROVE  Inv'
<1> DEFINE p == NextMessage(t)
<1>1. UNCHANGED <<group, remote, link, sub, deleted, published, due, times>>
  BY DEF Dispatch
<1>2. /\ Types /\ Lined /\ References /\ Exact /\ Linked(link)
      /\ OrderOf(Up(link), Down(link), Boxes, Gotten, published)
  BY DEF Inv, Order
<1>3. Ahead(Gotten[t], Boxes[t])
  BY <1>2 DEF OrderOf
<1>4. /\ Boxes[t] = Boxes'[t] \cup {p} /\ Ahead({p}, Boxes'[t]) /\ Gotten'[t] \subseteq Gotten[t] \cup {p}
      /\ \A s \in Service : s # t => Boxes'[s] = Boxes[s] /\ Gotten'[s] = Gotten[s]
      /\ inbox' \in [Service -> Seq(Message)] /\ got' \in [Service -> Seq(Message)]
      /\ Lined' /\ References' /\ Exact'
  BY <1>2, <1>3, DispatchIs
<1> HIDE DEF p
<1>5. OrderOf(Up(link), Down(link), Boxes', Gotten', published)
  <2> DEFINE B == Boxes  C == Boxes'  G == Gotten  H == Gotten'  U == Up(link)  D == Down(link)
  <2>1. OrderOf(U, D, B, G, published) /\ Taken(B, G, C, H, t, p)
    BY <1>2, <1>4 DEF Taken
  <2> HIDE DEF B, C, G, H, U, D
  <2>2. OrderOf(U, D, C, H, published)
    BY <2>1, ServiceTakes
  <2> QED
    BY <2>2 DEF C, H, U, D
<1>6. Types'
  BY <1>1, <1>2, <1>4 DEF Types
<1>7. Up(link') = Up(link) /\ Down(link') = Down(link)
  BY <1>1
<1> QED
  BY <1>1, <1>2, <1>4, <1>5, <1>6, <1>7 DEF Inv, Order

\* The owner takes what a node has sent.
LEMMA SUBRLinks ==
  ASSUME Placed, NEW n \in Remote, Linked(link), NEW m,
         link' = [link EXCEPT ![From(n)] = Tail(@), ![To(n)] = Append(@, m)]
  PROVE  link' = Sent(Rest(link, From(n)), To(n), m)
<1>1. From(n) # To(n) /\ From(n) \in Link /\ To(n) \in Link /\ DOMAIN link = Link
  BY LinkIs DEF Linked
<1> DEFINE a == From(n)  b == To(n)
<1> HIDE DEF a, b
<1>2. a # b /\ a \in Link /\ b \in Link /\ link' = [link EXCEPT ![a] = Tail(@), ![b] = Append(@, m)]
  BY <1>1 DEF a, b
<1>3. link' = Sent(Rest(link, a), b, m)
  BY <1>1, <1>2 DEF Sent, Rest
<1> QED
  BY <1>3 DEF a, b

LEMMA AtOwnerIs ==
  ASSUME Placed, Inv, NEW n \in Remote, AtOwner(n)
  PROVE  /\ link[From(n)] # <<>> /\ Head(link[From(n)]) \in Upward(n) /\ link[From(n)] \in Seq(Upward(n))
         /\ Linked(Rest(link, From(n)))
         /\ Rest(link, From(n))[From(n)] = Tail(link[From(n)])
         /\ \A k \in Link : k # From(n) => Rest(link, From(n))[k] = link[k]
         /\ Head(link[From(n)]).type # "multicast" =>
              \A k \in Link : Carried(Rest(link, From(n))[k]) = Carried(link[k])
         /\ UNCHANGED <<sub, deleted, published, got, times>>
<1>1. link[From(n)] # <<>> /\ From(n) \in Link /\ Linked(link) /\ UNCHANGED <<sub, deleted, published, got, times>>
  BY LinkIs DEF AtOwner, Inv, Order
<1>2. /\ Linked(Rest(link, From(n))) /\ Rest(link, From(n))[From(n)] = Tail(link[From(n)])
      /\ Head(link[From(n)]) \in Said(From(n)) /\ link[From(n)] \in Seq(Said(From(n)))
      /\ \A k \in Link : k # From(n) => Rest(link, From(n))[k] = link[k]
  BY <1>1, TakeIs
<1>3. Said(From(n)) = Upward(n)
  BY SaidIs
<1>4. Head(link[From(n)]).type # "multicast" =>
        \A k \in Link : Carried(Rest(link, From(n))[k]) = Carried(link[k])
  BY <1>1, CommandTaken
<1> QED
  BY <1>1, <1>2, <1>3, <1>4

\* The owner takes a message of a node.
LEMMA OwnerTakes ==
  ASSUME Placed, Inv, NEW n \in Remote, AtOwner(n), Head(link[From(n)]).type = "multicast"
  PROVE  LET p == Head(link[From(n)]).message  f == Rest(link, From(n)) IN
         /\ OrderOf(Up(f), Down(f), Boxes, Gotten, published)
         /\ Fits(Up(f), Down(f), Boxes, Gotten, published, p)
<1> DEFINE m == Head(link[From(n)])  f == Rest(link, From(n))  p == m.message
<1>1. /\ Linked(f) /\ f[From(n)] = Tail(link[From(n)]) /\ m.type = "multicast"
      /\ \A k \in Link : k # From(n) => f[k] = link[k]
  BY AtOwnerIs
<1>2. /\ Types /\ Linked(link)
      /\ OrderOf(Up(link), Down(link), Boxes, Gotten, published)
  BY DEF Inv, Order
<1>3. /\ p \in Message /\ Carried(link[From(n)]) = Carried(f[From(n)]) \cup {p}
      /\ Ahead({p}, Carried(f[From(n)]))
  <2>1. Carried(link[From(n)]) = Now(f[From(n)], m)
    BY <1>2, LinkIs, AtOwnerIs, TakeIs
  <2>2. p \in Message /\ Ahead({p}, Carried(f[From(n)]))
    BY <1>1, <1>2, LinkIs, AtOwnerIs, TakeIs
  <2> QED
    BY <1>1, <2>1, <2>2 DEF Now
<1> HIDE DEF f, p
<1>4. Down(f) = Down(link)
  BY <1>1, LinkIs DEF Down
<1>5. Up(link)[n] = Up(f)[n] \cup {p} /\ Ahead({p}, Up(f)[n]) /\ \A k \in Remote : k # n => Up(f)[k] = Up(link)[k]
  BY <1>1, <1>3, LinkIs DEF Up
<1>6. /\ OrderOf(Up(f), Down(f), Boxes, Gotten, published)
      /\ Fits(Up(f), Down(f), Boxes, Gotten, published, p)
  <2> DEFINE U == Up(link)  V == Up(f)  D == Down(f)
  <2>1. /\ OrderOf(U, D, Boxes, Gotten, published) /\ U[n] = V[n] \cup {p} /\ Ahead({p}, V[n])
        /\ \A k \in Remote : k # n => V[k] = U[k]
    BY <1>2, <1>4, <1>5
  <2> HIDE DEF U, V, D
  <2>2. OrderOf(V, D, Boxes, Gotten, published) /\ Fits(V, D, Boxes, Gotten, published, p)
    BY <1>3, <2>1, OwnerNext, ZenonT(60)
  <2> QED
    BY <2>2 DEF V, D
<1> QED
  BY <1>6 DEF f, p, m

LEMMA AtOwnerInv ==
  ASSUME Placed, Inv, NEW n \in Remote, AtOwner(n)
  PROVE  Inv'
<1> DEFINE m == Head(link[From(n)])  f == Rest(link, From(n))
<1>1. /\ m \in Upward(n) /\ Linked(f) /\ f[From(n)] = Tail(link[From(n)])
      /\ \A k \in Link : k # From(n) => f[k] = link[k]
      /\ m.type # "multicast" => \A k \in Link : Carried(f[k]) = Carried(link[k])
      /\ UNCHANGED <<sub, deleted, published, got, times>>
  BY AtOwnerIs
<1>2. /\ Types /\ Lined /\ References /\ Exact /\ Linked(link)
      /\ OrderOf(Up(link), Down(link), Boxes, Gotten, published)
  BY DEF Inv, Order
<1>3. CASE m.type = "SUBR" /\ SUBR(n, m.service)
  <2> DEFINE x == IF group[Owner] = NULL THEN 1 ELSE 0  c == Command("answer", m.service, x)
  <2>1. /\ link' = [link EXCEPT ![From(n)] = Tail(@), ![To(n)] = Append(@, c)]
        /\ UNCHANGED <<group, reference, inbox, due>>
    BY <1>3 DEF SUBR
  <2>2. c \in Said(To(n)) /\ c.type # "multicast"
    <3>1. m.service \in At(n) /\ x \in {0, 1}
      BY <1>1, <1>3 DEF Upward
    <3> QED
      BY <3>1, SaidCommands DEF Command
  <2> HIDE DEF c, x
  <2>3. link' = Sent(f, To(n), c)
    BY <1>2, <2>1, SUBRLinks
  <2> HIDE DEF f, m
  <2>4. Linked(link') /\ \A k \in Link : Carried(link'[k]) = Carried(f[k])
    BY <1>1, <2>2, <2>3, CommandSent, LinkIs
  <2>5. Linked(link') /\ Unmoved
    BY <1>1, <1>3, <2>4, LinkIs DEF Unmoved
  <2>6. remote' = NULL \/ remote' \subseteq Remote
    BY <1>2, <1>3 DEF SUBR, Types
  <2>7. Types'
    BY <1>1, <1>2, <2>1, <2>6 DEF Types
  <2> QED
    BY <1>1, <2>1, <2>5, <2>7, CommandsKeep DEF Inv
<1>4. CASE m.type = "USUBR" /\ USUBR(n)
  <2>1. /\ link' = f /\ remote' = (IF remote = NULL THEN NULL ELSE remote \ {n})
        /\ UNCHANGED <<group, reference, inbox, due>>
    BY <1>4 DEF USUBR, Rest
  <2>2. Linked(link') /\ Unmoved
    BY <1>1, <1>4, <2>1, LinkIs DEF Unmoved
  <2>3. Types'
    BY <1>1, <1>2, <2>1 DEF Types
  <2> QED
    BY <1>1, <2>1, <2>2, <2>3, CommandsKeep DEF Inv
<1>5. CASE m.type = "DEL" /\ Deleted(f) /\ UNCHANGED <<reference, inbox, due>>
  <2> HIDE DEF f, m
  <2>1. Linked(link') /\ \A k \in Link : Carried(link'[k]) = Carried(f[k])
    BY <1>1, <1>2, <1>5, DeletedIs
  <2>2. Linked(link') /\ Unmoved
    BY <1>1, <1>5, <2>1, LinkIs DEF Unmoved
  <2>3. /\ DOMAIN group' = Node /\ \A k \in Node : group'[k] = NULL \/ group'[k] \subseteq At(k)
        /\ \A k \in Remote : group'[k] # {}
        /\ remote' = NULL \/ remote' \subseteq Remote
    BY <1>1, <1>2, <1>5, DeletedTypes
  <2>4. Types'
    BY <1>1, <1>2, <1>5, <2>3 DEF Types
  <2> QED
    BY <1>1, <1>5, <2>2, <2>4, CommandsKeep DEF Inv
<1>6. CASE m.type = "multicast" /\ Published(m.message, f) /\ UNCHANGED <<group, remote>>
  <2> DEFINE p == m.message
  <2>4. /\ OrderOf(Up(f), Down(f), Boxes, Gotten, published)
        /\ Fits(Up(f), Down(f), Boxes, Gotten, published, p)
    BY <1>6, OwnerTakes
  <2> HIDE DEF f, p
  <2>5. Published(p, f) /\ UNCHANGED <<group, remote, sub, deleted, published, got>>
    BY <1>1, <1>6 DEF p
  <2>6. /\ Linked(link') /\ Lined' /\ OrderOf(Up(link'), Down(link'), Boxes', Gotten', published)
        /\ inbox' \in [Service -> Seq(Message)] /\ due' \in [Service -> SUBSET Message]
        /\ References' /\ Exact'
    BY <1>1, <1>2, <2>4, <2>5, PublishedIs
  <2>7. Types'
    BY <1>2, <2>5, <2>6 DEF Types
  <2> QED
    BY <2>5, <2>6, <2>7 DEF Inv, Order
<1> QED
  BY <1>3, <1>4, <1>5, <1>6 DEF AtOwner, Rest

\* A node takes what the owner has sent.
LEMMA AtNodeIs ==
  ASSUME Placed, Inv, NEW n \in Remote, AtNode(n)
  PROVE  /\ link[To(n)] # <<>> /\ Head(link[To(n)]) \in Downward(n) /\ link[To(n)] \in Seq(Downward(n))
         /\ Linked(link') /\ link'[To(n)] = Tail(link[To(n)])
         /\ \A k \in Link : k # To(n) => link'[k] = link[k]
         /\ Head(link[To(n)]).type # "multicast" => Unmoved
         /\ UNCHANGED <<remote, deleted, published, got, due, times>>
<1>1. /\ link[To(n)] # <<>> /\ To(n) \in Link /\ Linked(link) /\ link' = Rest(link, To(n))
      /\ UNCHANGED <<remote, deleted, published, got, due, times>>
  BY LinkIs DEF AtNode, Inv, Order, Rest
<1>2. /\ Linked(link') /\ link'[To(n)] = Tail(link[To(n)])
      /\ Head(link[To(n)]) \in Said(To(n)) /\ link[To(n)] \in Seq(Said(To(n)))
      /\ \A k \in Link : k # To(n) => link'[k] = link[k]
  BY <1>1, TakeIs
<1>3. Said(To(n)) = Downward(n)
  BY SaidIs
<1>4. Head(link[To(n)]).type # "multicast" => \A k \in Link : Carried(link'[k]) = Carried(link[k])
  BY <1>1, CommandTaken
<1> QED
  BY <1>1, <1>2, <1>3, <1>4, LinkIs DEF Unmoved

\* What a node's services get of a message.
LEMMA NodeGets ==
  ASSUME Placed, Inv, NEW n \in Remote, AtNode(n), Head(link[To(n)]).type = "multicast"
  PROVE  LET p == Head(link[To(n)]).message IN
         /\ p \in Message /\ Local(n, p) /\ UNCHANGED <<group, sub>>
         /\ Down(link)[n] = Down(link')[n] \cup {p} /\ Ahead({p}, Down(link')[n])
         /\ Up(link') = Up(link) /\ \A k \in Remote : k # n => Down(link')[k] = Down(link)[k]
         /\ \A s \in At(n) : Ahead(Gotten[s] \cup Boxes[s], {p})
<1> DEFINE m == Head(link[To(n)])  p == m.message
<1>1. /\ link[To(n)] # <<>> /\ To(n) \in Link /\ Linked(link) /\ link' = Rest(link, To(n)) /\ m.type = "multicast"
  BY LinkIs DEF AtNode, Inv, Order, Rest
<1>2. Local(n, p) /\ UNCHANGED <<group, sub>>
  BY <1>1 DEF AtNode
<1>3. /\ p \in Message /\ Carried(link[To(n)]) = Now(link'[To(n)], m) /\ Ahead({p}, Carried(link'[To(n)]))
      /\ \A k \in Link : k # To(n) => link'[k] = link[k]
  BY <1>1, TakeIs
<1>4. Carried(link[To(n)]) = Carried(link'[To(n)]) \cup {p}
  BY <1>1, <1>3 DEF Now
<1> HIDE DEF m, p
<1>5. /\ Down(link)[n] = Down(link')[n] \cup {p} /\ Ahead({p}, Down(link')[n])
      /\ Up(link') = Up(link) /\ \A k \in Remote : k # n => Down(link')[k] = Down(link)[k]
  BY <1>3, <1>4, LinkIs DEF Up, Down
<1>6. \A s \in At(n) : Ahead(Gotten[s] \cup Boxes[s], Down(link)[n])
  BY DEF Inv, Order, OrderOf, At
<1>7. \A s \in At(n) : Ahead(Gotten[s] \cup Boxes[s], {p})
  BY <1>5, <1>6 DEF Ahead
<1> QED
  BY <1>2, <1>3, <1>5, <1>7 DEF m, p

LEMMA AtNodeInv ==
  ASSUME Placed, Inv, NEW n \in Remote, AtNode(n)
  PROVE  Inv'
<1> DEFINE m == Head(link[To(n)])
<1>1. /\ m \in Downward(n) /\ Linked(link') /\ link'[To(n)] = Tail(link[To(n)])
      /\ m.type # "multicast" => Unmoved
      /\ UNCHANGED <<remote, deleted, published, got, due, times>>
  BY AtNodeIs
<1>2. /\ Types /\ Lined /\ References /\ Exact /\ Linked(link) /\ n \in Node
      /\ OrderOf(Up(link), Down(link), Boxes, Gotten, published)
  BY DEF Inv, Order, Node
<1>3. CASE m.type = "answer" /\ Answer(n, m.service, m) /\ UNCHANGED <<reference, inbox>>
  <2> DEFINE g == IF m.message = 1 \/ group[n] # NULL THEN group[n] ELSE {}
  <2>1. Joined(m.service, g) /\ m.service \in At(n)
    BY <1>1, <1>3 DEF Answer, Downward
  <2>2. g = NULL \/ g \subseteq At(Home[m.service])
    BY <1>2, <2>1 DEF Types, At
  <2> HIDE DEF g
  <2>3. /\ DOMAIN group' = Node /\ \A k \in Node : group'[k] = NULL \/ group'[k] \subseteq At(k)
        /\ \A k \in Remote : group'[k] # {}
        /\ sub' \in [Service -> {"out", "calling", "in"}]
    BY <1>2, <2>1, <2>2, JoinedIs DEF At
  <2>4. Types'
    BY <1>1, <1>2, <1>3, <2>3 DEF Types
  <2> QED
    BY <1>1, <1>3, <2>4, CommandsKeep DEF Inv
<1>4. CASE m.type = "DELR" /\ group' = [group EXCEPT ![n] = NULL] /\ UNCHANGED <<sub, reference, inbox>>
  <2>1. NULL # {} /\ \A k \in Node : group'[k] = IF k = n THEN NULL ELSE group[k]
    BY <1>2, <1>4 DEF Types, Placed
  <2>2. Types'
    BY <1>1, <1>2, <1>4, <2>1 DEF Types, Node
  <2> QED
    BY <1>1, <1>4, <2>2, CommandsKeep DEF Inv
<1>5. CASE m.type = "multicast"
  <2> DEFINE p == m.message
  <2>1. /\ p \in Message /\ Local(n, p) /\ UNCHANGED <<group, sub>>
        /\ Down(link)[n] = Down(link')[n] \cup {p} /\ Ahead({p}, Down(link')[n])
        /\ Up(link') = Up(link) /\ \A k \in Remote : k # n => Down(link')[k] = Down(link)[k]
        /\ \A s \in At(n) : Ahead(Gotten[s] \cup Boxes[s], {p})
    BY <1>5, NodeGets
  <2> HIDE DEF m, p
  <2>2. \A s \in At(n) : Ahead(Boxes[s], {p})
    BY <2>1 DEF Ahead
  <2>3. /\ inbox' \in [Service -> Seq(Message)] /\ Lined' /\ References' /\ Exact'
        /\ \A s \in Service : Boxes'[s] = Boxes[s] \/ (s \in At(n) /\ Boxes'[s] = Boxes[s] \cup {p})
    BY <1>1, <1>2, <2>1, <2>2, LocalIs
  <2>4. OrderOf(Up(link'), Down(link'), Boxes', Gotten', published)
    <3> DEFINE U == Up(link)  D == Down(link)  E == Down(link')  B == Boxes  C == Boxes'  G == Gotten  P == {p}
    <3>1. OrderOf(U, D, B, G, published) /\ Gives(n, D, E, B, C, P)
      BY <1>2, <2>1, <2>3 DEF At, Gives
    <3> HIDE DEF U, D, E, B, C, G, P
    <3>2. OrderOf(U, E, C, G, published)
      BY <3>1, NodeGives
    <3>3. Gotten' = Gotten
      BY <1>1 DEF Gotten
    <3> QED
      BY <2>1, <3>2, <3>3 DEF U, E, C, G
  <2>5. Types'
    BY <1>1, <1>2, <2>1, <2>3 DEF Types
  <2> QED
    BY <1>1, <2>3, <2>4, <2>5 DEF Inv, Order
<1> QED
  BY <1>3, <1>4, <1>5 DEF AtNode

LEMMA InvStep == Placed /\ Inv /\ [Next]_vars => Inv'
<1> SUFFICES ASSUME Placed, Inv, [Next]_vars PROVE Inv'
  OBVIOUS
<1>1. CASE UNCHANGED vars
  <2>1. /\ UNCHANGED <<group, remote, link, sub, inbox, reference>>
        /\ UNCHANGED <<deleted, published, got, due, times>>
    BY <1>1 DEF vars
  <2>2. Boxes' = Boxes /\ Gotten' = Gotten /\ Up(link') = Up(link) /\ Down(link') = Down(link)
    BY <2>1 DEF Boxes, Gotten
  <2>3. Types'
    BY <2>1 DEF Inv, Types
  <2>4. Order'
    BY <2>1, <2>2 DEF Inv, Order, Lined
  <2>5. References' /\ Exact'
    BY <2>1, <2>2 DEF Inv, References, Exact
  <2> QED
    BY <2>3, <2>4, <2>5 DEF Inv
<1>2. CASE Next
  BY <1>2, SUBInv, USUBInv, DispatchInv, DELInv, PUBInv, AtOwnerInv, AtNodeInv DEF Next
<1> QED
  BY <1>1, <1>2

-----------------------------------------------------------------------------
\* What the invariant says.
LEMMA BoxesContain ==
  ASSUME Types
  PROVE  \A s \in Service, p \in Message : Contains(inbox[s], p) <=> p \in Boxes[s]
  BY DEF Contains, Boxes, Within, Types

LEMMA InvTypes == Placed /\ Inv => TypeOK /\ PackageExact
<1> SUFFICES ASSUME Placed, Inv PROVE TypeOK /\ PackageExact
  OBVIOUS
<1>1. Types /\ References /\ Exact
  BY DEF Inv
<1>2. \A n \in Node, p \in Message :
        /\ {s \in Service : Home[s] = n /\ Contains(inbox[s], p)} = Holders(n, p, Boxes)
        /\ Holders(n, p, Boxes) \subseteq Service
  BY <1>1, BoxesContain DEF Holders
<1>3. PackageExact
  <2> SUFFICES ASSUME NEW n \in Node, NEW p \in Message
               PROVE  reference[<<n, p>>] = Cardinality({s \in Service : Home[s] = n /\ Contains(inbox[s], p)})
    BY DEF PackageExact
  <2>1. {s \in Service : Home[s] = n /\ Contains(inbox[s], p)} = Holders(n, p, Boxes)
    BY <1>2
  <2>2. reference[<<n, p>>] = Cardinality(Holders(n, p, Boxes))
    BY <1>1 DEF Exact
  <2> QED
    BY <2>1, <2>2
<1>4. \A n \in Node, p \in Message : reference[<<n, p>>] \in 0 .. Cardinality(Service)
  <2> TAKE n \in Node, p \in Message
  <2>1. Cardinality(Holders(n, p, Boxes)) <= Cardinality(Service) /\ Cardinality(Service) \in Nat
    BY <1>2, FS_Subset, FS_CardinalityType DEF Placed
  <2> QED
    BY <1>1, <2>1, HoldersFinite DEF Exact
<1>5. reference \in [Node \X Message -> 0 .. Cardinality(Service)]
  BY <1>1, <1>4 DEF References
<1>6. TypeOK
  BY <1>1, <1>5 DEF Types, TypeOK, At
<1> QED
  BY <1>3, <1>6

LEMMA InvOrders == Inv /\ Alone => InOrderOnce
<1> SUFFICES ASSUME Inv, Alone, NEW s \in Service, NEW i \in DOMAIN got[s], NEW j \in DOMAIN got[s], i < j
             PROVE  got[s][i] < got[s][j]
  BY DEF InOrderOnce
<1>1. got[s] \in Seq(Message) /\ Line(got[s])
  BY DEF Inv, Types, Order, Lined
<1>2. i \in 1 .. Len(got[s]) /\ j \in 1 .. Len(got[s])
  BY <1>1
<1> QED
  BY <1>1, <1>2 DEF Line, Precedes

-----------------------------------------------------------------------------
\* What appending and taking do to the commands on a link.
LEMMA UpAppend ==
  ASSUME NEW S, NEW u \in Seq(S), NEW m \in S
  PROVE  /\ \A t : Has(Append(u, m), t) <=> Has(u, t) \/ m.type = t
         /\ Orderly(u) /\ (m.type = "SUBR" => ~Has(u, "SUBR"))
                       /\ (m.type = "USUBR" => ~Has(u, "SUBR") /\ ~Has(u, "USUBR"))
              => Orderly(Append(u, m))
<1>1. \A t : Has(Append(u, m), t) <=> Has(u, t) \/ m.type = t
  BY HasAppend
<1>2. ASSUME Orderly(u), m.type = "SUBR" => ~Has(u, "SUBR"),
             m.type = "USUBR" => ~Has(u, "SUBR") /\ ~Has(u, "USUBR")
      PROVE  Orderly(Append(u, m))
  <2>1. Single(Append(u, m), "SUBR") /\ Single(Append(u, m), "USUBR")
    BY <1>2, SingleAppend DEF Orderly
  <2>2. Behind(Append(u, m), "SUBR", "USUBR")
    BY <1>2, BehindAppend DEF Orderly
  <2> QED
    BY <2>1, <2>2 DEF Orderly
<1> QED
  BY <1>1, <1>2

LEMMA UpTail ==
  ASSUME NEW S, NEW u \in Seq(S), u # <<>>
  PROVE  /\ \A t : Has(u, t) <=> Has(Tail(u), t) \/ Head(u).type = t
         /\ Orderly(u) => /\ Orderly(Tail(u))
                          /\ Head(u).type = "SUBR" => ~Has(Tail(u), "SUBR") /\ ~Has(Tail(u), "USUBR")
                          /\ Head(u).type = "USUBR" => ~Has(Tail(u), "USUBR")
<1>1. \A t : Has(u, t) <=> Has(Tail(u), t) \/ Head(u).type = t
  BY HasTail
<1>2. ASSUME Orderly(u)
      PROVE  /\ Orderly(Tail(u))
             /\ Head(u).type = "SUBR" => ~Has(Tail(u), "SUBR") /\ ~Has(Tail(u), "USUBR")
             /\ Head(u).type = "USUBR" => ~Has(Tail(u), "USUBR")
  <2>1. /\ Single(Tail(u), "SUBR") /\ Single(Tail(u), "USUBR")
        /\ Head(u).type = "SUBR" => ~Has(Tail(u), "SUBR")
        /\ Head(u).type = "USUBR" => ~Has(Tail(u), "USUBR")
    BY <1>2, SingleTail DEF Orderly
  <2>2. /\ Behind(Tail(u), "SUBR", "USUBR")
        /\ Head(u).type = "SUBR" => ~Has(Tail(u), "USUBR")
    BY <1>2, BehindTail DEF Orderly
  <2> QED
    BY <2>1, <2>2 DEF Orderly
<1> QED
  BY <1>1, <1>2

LEMMA DownAppend ==
  ASSUME NEW S, NEW d \in Seq(S), NEW m \in S
  PROVE  /\ \A t : Has(Append(d, m), t) <=> Has(d, t) \/ m.type = t
         /\ Single(d, "answer") /\ (m.type = "answer" => ~Has(d, "answer")) => Single(Append(d, m), "answer")
         /\ Granted(Append(d, m)) <=> Granted(d) /\ (m.type = "answer" => m.message = 0)
         /\ m.type = "DELR" \/ (Settled(d) /\ ~Granting(m)) => Settled(Append(d, m))
  BY HasAppend, SingleAppend, GrantedIs, SettledAppend

LEMMA DownTail ==
  ASSUME NEW S, NEW d \in Seq(S), d # <<>>
  PROVE  /\ \A t : Has(d, t) <=> Has(Tail(d), t) \/ Head(d).type = t
         /\ Single(d, "answer") => Single(Tail(d), "answer") /\ (Head(d).type = "answer" => ~Has(Tail(d), "answer"))
         /\ Granted(d) => Granted(Tail(d)) /\ (Head(d).type = "answer" => Head(d).message = 0)
         /\ Settled(d) => Settled(Tail(d)) /\ (Granting(Head(d)) => Has(Tail(d), "DELR"))
  BY HasTail, SingleTail, GrantedIs, SettledTail

LEMMA NoneSettled == ASSUME NEW d, ~Has(d, "answer") PROVE Settled(d)
  BY DEF Has, Settled, Granting

\* Nothing has changed for a service of another node.
SameUp(u, v) == /\ Orderly(u) => Orderly(v)
                /\ Has(v, "SUBR") <=> Has(u, "SUBR")
                /\ Has(v, "USUBR") <=> Has(u, "USUBR")
SameDown(d, e) == /\ Single(d, "answer") => Single(e, "answer")
                  /\ Has(e, "answer") <=> Has(d, "answer")
                  /\ Has(e, "DELR") <=> Has(d, "DELR")
                  /\ Granted(d) => Granted(e)
                  /\ Settled(d) => Settled(e)

LEMMA SameAgreed ==
  ASSUME NEW n, NEW x, NEW g, NEW o, NEW r, NEW u, NEW d, Agreed(n, x, g, o, r, u, d),
         NEW h, NEW q, NEW w, NEW v, NEW e, SameUp(u, v), SameDown(d, e),
         h = NULL <=> g = NULL, q = NULL <=> o = NULL, n \in Nodes(w) <=> n \in Nodes(r)
  PROVE  Agreed(n, x, h, q, w, v, e)
  BY DEF Agreed, SameUp, SameDown

LEMMA SameItself == \A u : SameUp(u, u) /\ SameDown(u, u)
  BY DEF SameUp, SameDown

\* Messages and the deletion are none of its business.
LEMMA SameAppend ==
  ASSUME NEW S, NEW u \in Seq(S), NEW m \in S, m.type \in {"multicast", "DEL"}
  PROVE  SameUp(u, Append(u, m)) /\ SameDown(u, Append(u, m))
<1>1. m.type # "SUBR" /\ m.type # "USUBR" /\ m.type # "answer" /\ m.type # "DELR" /\ ~Granting(m)
  BY DEF Granting
<1>2. SameUp(u, Append(u, m))
  BY <1>1, UpAppend DEF SameUp
<1>3. SameDown(u, Append(u, m))
  BY <1>1, DownAppend DEF SameDown
<1> QED
  BY <1>2, <1>3

LEMMA SameTail ==
  ASSUME NEW S, NEW u \in Seq(S), u # <<>>, Head(u).type \in {"multicast", "DEL"}
  PROVE  SameUp(u, Tail(u)) /\ SameDown(u, Tail(u))
<1>1. /\ Head(u).type # "SUBR" /\ Head(u).type # "USUBR" /\ Head(u).type # "answer" /\ Head(u).type # "DELR"
  OBVIOUS
<1>2. SameUp(u, Tail(u))
  BY <1>1, UpTail DEF SameUp
<1>3. SameDown(u, Tail(u))
  BY <1>1, DownTail DEF SameDown
<1> QED
  BY <1>2, <1>3

-----------------------------------------------------------------------------
(***************************************************************************)
(* What the nodes agree on, when no two services share a node other than   *)
(* the owner.                                                              *)
(***************************************************************************)
LEMMA InitSole == Placed /\ Init => SoleInv
<1> SUFFICES ASSUME Placed, Init PROVE SoleInv
  OBVIOUS
<1>1. /\ \A n \in Remote : link[From(n)] = <<>> /\ link[To(n)] = <<>> /\ group[n] = NULL
      /\ group[Owner] = {} /\ {} # NULL /\ remote = NULL /\ deleted = FALSE
      /\ \A s \in Service : sub[s] = "out" /\ due[s] = {}
  BY LinkIs DEF Init, Placed, Node
<1>2. /\ \A t : ~Has(<<>>, t)
      /\ Orderly(<<>>) /\ Single(<<>>, "answer") /\ Granted(<<>>)
  BY DEF Has, Orderly, Single, Behind, Granted
<1>3. Nodes(remote) = {}
  BY <1>1 DEF Nodes
<1>4. Deletion
  BY <1>1, <1>2, <1>3 DEF Deletion, At
<1>5. Agreement
  BY <1>1, <1>2, <1>3 DEF Agreement, Agreed, At
<1>6. DueComes
  BY <1>1 DEF DueComes
<1> QED
  BY <1>4, <1>5, <1>6 DEF SoleInv

\* The one service of a node.
LEMMA SoleIs ==
  ASSUME Placed, Sole
  PROVE  \A s \in Service : Home[s] # Owner => Home[s] \in Remote /\ At(Home[s]) = {s}
  BY DEF Placed, Sole, At, Node

\* Links in the form that the lemmas about sequences ask for.
LEMMA LinkSeqs ==
  ASSUME Placed, Inv
  PROVE  \A n \in Remote : link[From(n)] \in Seq(Upward(n)) /\ link[To(n)] \in Seq(Downward(n))
  BY LinkIs, SaidIs DEF Inv, Order, Linked

\* Where nothing moves but links, and of those only messages and the deletion.
LEMMA AgreementKeeps ==
  ASSUME Agreement, UNCHANGED sub, group'[Owner] = NULL <=> group[Owner] = NULL,
         \A n \in Remote : /\ SameUp(link[From(n)], link'[From(n)]) /\ SameDown(link[To(n)], link'[To(n)])
                           /\ group'[n] = NULL <=> group[n] = NULL
                           /\ n \in Nodes(remote') <=> n \in Nodes(remote)
  PROVE  Agreement'
<1> SUFFICES ASSUME NEW n \in Remote, NEW s \in At(n)
             PROVE  Agreed(n, sub'[s], group'[n], group'[Owner], remote', link'[From(n)], link'[To(n)])
  BY DEF Agreement, At
<1>1. Agreed(n, sub[s], group[n], group[Owner], remote, link[From(n)], link[To(n)])
  BY DEF Agreement
<1>2. Agreed(n, sub[s], group'[n], group'[Owner], remote', link'[From(n)], link'[To(n)])
  BY <1>1, SameAgreed
<1> QED
  BY <1>2

LEMMA DueKeeps ==
  ASSUME DueComes, UNCHANGED <<sub, due>>, group'[Owner] # NULL => group[Owner] # NULL,
         \A s \in Service : OnTheWay(s) \subseteq OnTheWay(s)'
  PROVE  DueComes'
<1>1. \A s \in Service : due[s] \subseteq OnTheWay(s) => due[s] \subseteq OnTheWay(s)'
  OBVIOUS
<1> QED
  BY <1>1 DEF DueComes

\* Where only one node and its service change.
LEMMA AgreementAt ==
  ASSUME Agreement, NEW n \in Remote, NEW s \in Service, At(n) = {s},
         Agreed(n, sub'[s], group'[n], group'[Owner], remote', link'[From(n)], link'[To(n)]),
         group'[Owner] = NULL <=> group[Owner] = NULL,
         \A t \in Service : t # s => sub'[t] = sub[t],
         \A k \in Remote : k # n => /\ link'[From(k)] = link[From(k)] /\ link'[To(k)] = link[To(k)]
                                    /\ group'[k] = group[k] /\ (k \in Nodes(remote') <=> k \in Nodes(remote))
  PROVE  Agreement'
<1> SUFFICES ASSUME NEW k \in Remote, NEW t \in At(k)
             PROVE  Agreed(k, sub'[t], group'[k], group'[Owner], remote', link'[From(k)], link'[To(k)])
  BY DEF Agreement, At
<1>1. CASE k = n
  BY <1>1
<1>2. CASE k # n
  <2>1. t \in Service /\ t # s
    BY <1>2 DEF At
  <2>2. Agreed(k, sub[t], group[k], group[Owner], remote, link[From(k)], link[To(k)])
    BY DEF Agreement
  <2>3. SameUp(link[From(k)], link[From(k)]) /\ SameDown(link[To(k)], link[To(k)])
    BY SameItself
  <2>4. Agreed(k, sub[t], group[k], group'[Owner], remote', link[From(k)], link[To(k)])
    BY <1>2, <2>2, <2>3, SameAgreed
  <2> QED
    BY <1>2, <2>1, <2>4
<1> QED
  BY <1>1, <1>2

LEMMA SUBSole ==
  ASSUME Placed, Sole, Inv, SoleInv, NEW s \in Service, SUB(s)
  PROVE  SoleInv'
<1> DEFINE n == Home[s]
<1>1. /\ UNCHANGED <<remote, inbox, reference, deleted, published, got, due>> /\ sub[s] = "out"
      /\ n \in Node /\ Types /\ Linked(link) /\ Deletion /\ Agreement /\ DueComes /\ due[s] = {}
  BY DEF SUB, Inv, Order, Placed, SoleInv, DueComes
<1>2. CASE MustAsk(n)
  <2> DEFINE m == Command("SUBR", s, 0)  u == link[From(n)]  d == link[To(n)]
  <2>1. /\ link' = Sent(link, From(n), m)
        /\ sub' = [sub EXCEPT ![s] = "calling"] /\ UNCHANGED group
    BY <1>2 DEF SUB, Sends, Sent
  <2>2. /\ n \in Remote /\ m \in Said(From(n)) /\ m.type = "SUBR" /\ From(n) \in Link /\ At(n) = {s}
        /\ group[n] = NULL /\ n # Owner
    BY <1>2, SaidCommands, LinkIs, SoleIs DEF MustAsk, Command
  <2> HIDE DEF m
  <2>3. /\ link'[From(n)] = Append(u, m) /\ \A k \in Link : k # From(n) => link'[k] = link[k]
        /\ \A k \in Link : Carried(link'[k]) = Carried(link[k])
    BY <1>1, <2>1, <2>2, CommandSent
  <2>4. /\ sub'[s] = "calling" /\ \A t \in Service : t # s => sub'[t] = sub[t]
    BY <1>1, <2>1 DEF Types
  <2>5. Agreed(n, "out", NULL, group[Owner], remote, u, d)
    BY <1>1, <2>2 DEF Agreement
  <2>6. u \in Seq(Upward(n)) /\ m \in Upward(n)
    BY <2>2, SaidIs, LinkSeqs
  <2> HIDE DEF u, d
  <2>7. /\ \A t : Has(Append(u, m), t) <=> Has(u, t) \/ m.type = t
        /\ Orderly(u) /\ ~Has(u, "SUBR") => Orderly(Append(u, m))
    BY <2>2, <2>6, UpAppend
  <2>8. Agreed(n, "calling", NULL, group[Owner], remote, Append(u, m), d)
    BY <2>2, <2>5, <2>7 DEF Agreed
  <2>9. Agreement'
    <3>1. link'[To(n)] = d
      BY <2>2, <2>3, LinkIs DEF d
    <3>2. \A k \in Remote : k # n => link'[From(k)] = link[From(k)] /\ link'[To(k)] = link[To(k)]
      BY <2>2, <2>3, LinkIs
    <3> QED
      BY <1>1, <2>1, <2>2, <2>3, <2>4, <2>8, <3>1, <3>2, AgreementAt
  <2>10. Deletion'
    <3>1. \A k \in Remote : Has(link'[From(k)], "DEL") <=> Has(link[From(k)], "DEL")
      BY <2>2, <2>3, <2>7, LinkIs DEF u
    <3>2. \A t \in At(Owner) : sub'[t] = sub[t]
      BY <2>2, <2>4 DEF At
    <3> QED
      BY <1>1, <2>1, <3>1, <3>2 DEF Deletion
  <2>11. DueComes'
    <3>1. \A t \in Service : OnTheWay(t)' = OnTheWay(t)
      <4>1. Down(link') = Down(link) /\ Boxes' = Boxes /\ Gotten' = Gotten
        BY <1>1, <2>3, LinkIs DEF Down, Boxes, Gotten
      <4> QED
        BY <4>1 DEF OnTheWay
    <3> QED
      BY <1>1, <2>1, <2>4, <3>1 DEF DueComes
  <2> QED
    BY <2>9, <2>10, <2>11 DEF SoleInv
<1>3. CASE ~MustAsk(n)
  <2>1. Joined(s, group[n]) /\ UNCHANGED link
    BY <1>3 DEF SUB
  <2>2. n = Owner
    <3> SUFFICES ASSUME n # Owner PROVE FALSE
      OBVIOUS
    <3>1. n \in Remote /\ s \in At(n) /\ group[n] # NULL
      BY <1>3, SoleIs DEF MustAsk
    <3> QED
      BY <1>1, <3>1 DEF Agreement, Agreed
  <2>3. /\ \A k \in Node : k # Owner => group'[k] = group[k]
        /\ group[Owner] = NULL => group'[Owner] = NULL
        /\ group[Owner] # NULL => group'[Owner] = group[Owner] \cup {s} /\ group'[Owner] # NULL
        /\ sub'[s] = "in" /\ \A t \in Service : t # s => sub'[t] = sub[t]
    <3>1. \A k \in Node : group'[k] = IF k = n THEN IF group[n] = NULL THEN NULL ELSE group[n] \cup {s} ELSE group[k]
      BY <1>1, <2>1 DEF Joined, Types
    <3>2. group[Owner] # NULL => group[Owner] \cup {s} \in SUBSET Service
      BY <1>1, <2>2 DEF Types, At
    <3>3. sub'[s] = "in" /\ \A t \in Service : t # s => sub'[t] = sub[t]
      BY <1>1, <2>1 DEF Joined, Types
    <3> QED
      BY <1>1, <2>2, <3>1, <3>2, <3>3 DEF Placed
  <2>4. Agreement'
    <3> SUFFICES ASSUME NEW k \in Remote, NEW t \in At(k)
                 PROVE  Agreed(k, sub'[t], group'[k], group'[Owner], remote', link'[From(k)], link'[To(k)])
      BY DEF Agreement, At
    <3>1. Agreed(k, sub[t], group[k], group[Owner], remote, link[From(k)], link[To(k)])
      BY <1>1 DEF Agreement
    <3>2. k \in Node /\ k # Owner /\ t \in Service /\ t # s
      BY <2>2, LinkIs DEF Node, At
    <3>3. Agreed(k, sub[t], group[k], group'[Owner], remote, link[From(k)], link[To(k)])
      BY <2>3, <3>1, SameAgreed, SameItself
    <3> QED
      BY <1>1, <2>1, <2>3, <3>2, <3>3
  <2>5. Deletion'
    BY <1>1, <2>1, <2>2, <2>3 DEF Deletion, At
  <2>6. DueComes'
    <3>1. \A t \in Service : OnTheWay(t)' = OnTheWay(t)
      <4>1. Down(link') = Down(link) /\ Boxes' = Boxes /\ Gotten' = Gotten
        BY <1>1, <2>1 DEF Boxes, Gotten
      <4> QED
        BY <4>1 DEF OnTheWay
    <3> QED
      BY <1>1, <2>3, <3>1 DEF DueComes
  <2> QED
    BY <2>4, <2>5, <2>6 DEF SoleInv
<1> QED
  BY <1>2, <1>3

LEMMA USUBSole ==
  ASSUME Placed, Sole, Inv, SoleInv, NEW s \in Service, USUB(s)
  PROVE  SoleInv'
<1> DEFINE n == Home[s]
<1>1. /\ UNCHANGED <<remote, inbox, reference, deleted, published, got>> /\ sub[s] = "in"
      /\ n \in Node /\ Types /\ Linked(link) /\ Deletion /\ Agreement /\ DueComes
      /\ sub' = [sub EXCEPT ![s] = "out"] /\ due' = [due EXCEPT ![s] = {}]
  BY DEF USUB, Inv, Order, Placed, SoleInv
<1>2. /\ sub'[s] = "out" /\ due'[s] = {}
      /\ \A t \in Service : t # s => sub'[t] = sub[t] /\ due'[t] = due[t]
  BY <1>1 DEF Types
<1>3. CASE n = Owner
  <2>1. /\ UNCHANGED link /\ \A k \in Node : k # Owner => group'[k] = group[k]
        /\ group[Owner] = NULL => group'[Owner] = NULL
        /\ group[Owner] # NULL => group'[Owner] = group[Owner] \ {s} /\ group'[Owner] # NULL
    <3>1. ~LastOne(s)
      BY <1>3 DEF LastOne
    <3>2. /\ UNCHANGED link
          /\ group' = IF group[n] = NULL THEN group ELSE [group EXCEPT ![n] = @ \ {s}]
      BY <3>1 DEF USUB
    <3>3. group[Owner] # NULL => group[Owner] \ {s} \in SUBSET Service
      BY <1>1, <1>3 DEF Types, At
    <3> QED
      BY <1>1, <1>3, <3>2, <3>3 DEF Types, Placed
  <2>2. Agreement'
    <3> SUFFICES ASSUME NEW k \in Remote, NEW t \in At(k)
                 PROVE  Agreed(k, sub'[t], group'[k], group'[Owner], remote', link'[From(k)], link'[To(k)])
      BY DEF Agreement, At
    <3>1. Agreed(k, sub[t], group[k], group[Owner], remote, link[From(k)], link[To(k)])
      BY <1>1 DEF Agreement
    <3>2. k \in Node /\ k # Owner /\ t \in Service /\ t # s
      BY <1>3, LinkIs DEF Node, At
    <3>3. Agreed(k, sub[t], group[k], group'[Owner], remote, link[From(k)], link[To(k)])
      BY <2>1, <3>1, SameAgreed, SameItself
    <3> QED
      BY <1>1, <1>2, <2>1, <3>2, <3>3
  <2>3. Deletion'
    BY <1>1, <1>2, <2>1 DEF Deletion, At
  <2>4. DueComes'
    <3>1. \A t \in Service : OnTheWay(t)' = OnTheWay(t)
      <4>1. Down(link') = Down(link) /\ Boxes' = Boxes /\ Gotten' = Gotten
        BY <1>1, <2>1 DEF Boxes, Gotten
      <4> QED
        BY <4>1 DEF OnTheWay
    <3> QED
      BY <1>1, <1>2, <2>1, <3>1 DEF DueComes
  <2> QED
    BY <2>2, <2>3, <2>4 DEF SoleInv
<1>4. CASE n # Owner
  <2> DEFINE m == Command("USUBR", s, 0)  u == link[From(n)]  d == link[To(n)]
  <2>1. n \in Remote /\ At(n) = {s} /\ From(n) \in Link /\ To(n) \in Link
    BY <1>4, SoleIs, LinkIs
  <2>2. group[n] = NULL \/ group[n] = {s}
    BY <1>1, <2>1 DEF Types
  <2>3. /\ group[n] = NULL => UNCHANGED <<group, link>>
        /\ group[n] # NULL => group' = [group EXCEPT ![n] = NULL] /\ link' = Sent(link, From(n), m)
    BY <1>4, <2>2 DEF USUB, LastOne, Sends, Sent
  <2>4. m \in Said(From(n)) /\ m \in Upward(n) /\ m.type = "USUBR" /\ u \in Seq(Upward(n))
    BY <1>4, <2>1, SaidCommands, SaidIs, LinkSeqs DEF Command
  <2> HIDE DEF m
  <2>5. /\ group'[n] = NULL /\ \A k \in Node : k # n => group'[k] = group[k]
    BY <1>1, <2>3 DEF Types
  <2>6. /\ link'[From(n)] = IF group[n] = NULL THEN u ELSE Append(u, m)
        /\ \A k \in Link : k # From(n) => link'[k] = link[k]
        /\ \A k \in Link : Carried(link'[k]) = Carried(link[k])
    <3>1. CASE group[n] = NULL
      BY <2>3, <3>1
    <3>2. CASE group[n] # NULL
      BY <1>1, <2>1, <2>3, <2>4, <3>2, CommandSent
    <3> QED
      BY <3>1, <3>2
  <2>7. Agreed(n, "in", group[n], group[Owner], remote, u, d)
    BY <1>1, <2>1 DEF Agreement
  <2> DEFINE v == link'[From(n)]
  <2>8. /\ \A t : Has(Append(u, m), t) <=> Has(u, t) \/ m.type = t
        /\ Orderly(u) /\ ~Has(u, "SUBR") /\ ~Has(u, "USUBR") => Orderly(Append(u, m))
    BY <2>4, UpAppend
  <2>9. /\ Has(v, "USUBR") <=> Has(u, "USUBR") \/ group[n] # NULL
        /\ Has(v, "SUBR") <=> Has(u, "SUBR")
        /\ Has(v, "DEL") <=> Has(u, "DEL")
        /\ Orderly(u) /\ ~Has(u, "SUBR") /\ ~Has(u, "USUBR") => Orderly(v)
    BY <2>4, <2>6, <2>8
  <2> HIDE DEF u, d, v
  <2>10. Agreed(n, "out", NULL, group[Owner], remote, v, d)
    BY <2>7, <2>9 DEF Agreed
  <2>11. Agreement'
    <3>1. link'[To(n)] = d
      BY <2>1, <2>6, LinkIs DEF d
    <3>2. \A k \in Remote : k # n => link'[From(k)] = link[From(k)] /\ link'[To(k)] = link[To(k)]
      BY <2>1, <2>6, LinkIs
    <3>3. group'[Owner] = group[Owner] /\ \A k \in Remote : k # n => group'[k] = group[k]
      BY <1>4, <2>5 DEF Node
    <3> QED
      BY <1>1, <1>2, <2>1, <2>5, <2>10, <3>1, <3>2, <3>3, AgreementAt DEF v
  <2>12. Deletion'
    <3>1. \A k \in Remote : Has(link'[From(k)], "DEL") <=> Has(link[From(k)], "DEL")
      BY <2>1, <2>6, <2>9, LinkIs DEF u, v
    <3>2. group'[Owner] = group[Owner] /\ \A t \in At(Owner) : sub'[t] = sub[t]
      BY <1>2, <1>4, <2>5 DEF At, Node
    <3> QED
      BY <1>1, <3>1, <3>2 DEF Deletion
  <2>13. DueComes'
    <3>1. \A t \in Service : OnTheWay(t)' = OnTheWay(t)
      <4>1. Down(link') = Down(link) /\ Boxes' = Boxes /\ Gotten' = Gotten
        BY <1>1, <2>6, LinkIs DEF Down, Boxes, Gotten
      <4> QED
        BY <4>1 DEF OnTheWay
    <3>2. group'[Owner] = group[Owner]
      BY <1>4, <2>5 DEF Node
    <3> QED
      BY <1>1, <1>2, <3>1, <3>2 DEF DueComes
  <2> QED
    BY <2>11, <2>12, <2>13 DEF SoleInv
<1> QED
  BY <1>3, <1>4

\* The owner deletes the channel.
LEMMA DeletedSole ==
  ASSUME Placed, Sole, Inv, SoleInv, NEW f, Linked(f), Deleted(f), deleted', UNCHANGED <<sub, inbox, got, due>>,
         \A n \in Remote : SameUp(link[From(n)], f[From(n)]) /\ f[To(n)] = link[To(n)]
  PROVE  SoleInv'
<1> DEFINE m == Command("DELR", NULL, 0)
<1>1. Types /\ Deletion /\ Agreement /\ DueComes
  BY DEF Inv, SoleInv
<1>2. /\ \A n \in Remote : link'[From(n)] = f[From(n)]
      /\ \A n \in Nodes(remote) : link'[To(n)] = Append(f[To(n)], m)
      /\ \A n \in Remote \ Nodes(remote) : link'[To(n)] = f[To(n)]
      /\ remote' = NULL /\ \A n \in Node : group'[n] = IF n = Owner THEN NULL ELSE group[n]
  BY <1>1, DeletedIs
<1>3. /\ m.type = "DELR" /\ \A n \in Remote : m \in Downward(n)
      /\ Nodes(remote) \subseteq Remote /\ Nodes(remote') = {}
      /\ group'[Owner] = NULL /\ \A n \in Remote : group'[n] = group[n]
  BY <1>1, <1>2, NodesAre, SaidCommands, SaidIs, LinkIs DEF Command, Nodes, Node
<1> HIDE DEF m
<1>4. ASSUME NEW n \in Remote, NEW s \in At(n)
      PROVE  Agreed(n, sub'[s], group'[n], group'[Owner], remote', link'[From(n)], link'[To(n)])
  <2> DEFINE u == link[From(n)]  d == link[To(n)]  x == sub[s]  g == group[n]  v == f[From(n)]
  <2>1. Agreed(n, x, g, group[Owner], remote, u, d) /\ SameUp(u, v) /\ d \in Seq(Downward(n))
    BY <1>1, LinkSeqs DEF Agreement
  <2>2. /\ link'[From(n)] = v
        /\ n \in Nodes(remote) => link'[To(n)] = Append(d, m)
        /\ n \notin Nodes(remote) => link'[To(n)] = d
        /\ group'[n] = g /\ sub'[s] = x /\ group'[Owner] = NULL /\ n \notin Nodes(remote')
    BY <1>2, <1>3
  <2> HIDE DEF u, d, x, g, v
  <2>3. CASE n \in Nodes(remote)
    <3>1. /\ \A t : Has(Append(d, m), t) <=> Has(d, t) \/ m.type = t
          /\ Single(d, "answer") => Single(Append(d, m), "answer")
          /\ Settled(Append(d, m))
      BY <1>3, <2>1, DownAppend
    <3>2. /\ Has(Append(d, m), "DELR") /\ (Has(Append(d, m), "answer") <=> Has(d, "answer"))
      BY <1>3, <3>1
    <3>3. Agreed(n, x, g, NULL, remote', v, Append(d, m))
      BY <2>1, <3>1, <3>2 DEF Agreed, SameUp
    <3> QED
      BY <2>2, <2>3, <3>3
  <2>4. CASE n \notin Nodes(remote)
    <3>1. CASE group[Owner] = NULL
      <4>1. Agreed(n, x, g, NULL, remote', v, d)
        BY <2>1, <3>1 DEF Agreed, SameUp
      <4> QED
        BY <2>2, <2>4, <4>1
    <3>2. CASE group[Owner] # NULL
      <4>1. ~Has(d, "answer") /\ g = NULL
        BY <2>1, <2>4, <3>2 DEF Agreed
      <4>2. Settled(d)
        BY <4>1, NoneSettled
      <4>3. Agreed(n, x, g, NULL, remote', v, d)
        BY <2>1, <4>1, <4>2 DEF Agreed, SameUp
      <4> QED
        BY <2>2, <2>4, <4>3
    <3> QED
      BY <3>1, <3>2
  <2> QED
    BY <2>3, <2>4
<1>5. Agreement'
  BY <1>4 DEF Agreement, At
<1>6. Deletion'
  BY <1>1, <1>2, <1>3 DEF Deletion, At
<1>7. DueComes'
  BY <1>1, <1>3 DEF DueComes
<1> QED
  BY <1>5, <1>6, <1>7 DEF SoleInv

LEMMA DELSole ==
  ASSUME Placed, Sole, Inv, SoleInv, NEW n \in Node, DEL(n)
  PROVE  SoleInv'
<1>1. /\ UNCHANGED <<sub, inbox, reference, published, got, due, times>> /\ deleted' = TRUE
      /\ Types /\ Linked(link) /\ Deletion /\ Agreement /\ DueComes
  BY DEF DEL, Inv, Order, SoleInv
<1>2. CASE n = Owner
  <2>1. Deleted(link)
    BY <1>2 DEF DEL
  <2> QED
    BY <1>1, <2>1, SameItself, DeletedSole
<1>3. CASE n # Owner
  <2> DEFINE m == Command("DEL", NULL, 0)
  <2>1. link' = Sent(link, From(n), m) /\ UNCHANGED <<group, remote>>
    BY <1>3 DEF DEL, Sends, Sent
  <2>2. n \in Remote /\ m \in Said(From(n)) /\ m.type = "DEL" /\ From(n) \in Link /\ m \in Upward(n)
    BY <1>3, SaidCommands, SaidIs, LinkIs DEF Node, Command
  <2> HIDE DEF m
  <2>3. /\ link'[From(n)] = Append(link[From(n)], m) /\ \A k \in Link : k # From(n) => link'[k] = link[k]
        /\ \A k \in Link : Carried(link'[k]) = Carried(link[k])
    BY <1>1, <2>1, <2>2, CommandSent
  <2>4. SameUp(link[From(n)], link'[From(n)]) /\ Has(link'[From(n)], "DEL")
    <3>1. link[From(n)] \in Seq(Upward(n))
      BY <2>2, LinkSeqs
    <3> QED
      BY <2>2, <2>3, <3>1, SameAppend, UpAppend
  <2>5. Agreement'
    <3>1. \A k \in Remote : SameUp(link[From(k)], link'[From(k)]) /\ SameDown(link[To(k)], link'[To(k)])
      BY <2>2, <2>3, <2>4, SameItself, LinkIs
    <3> QED
      BY <1>1, <2>1, <3>1, AgreementKeeps
  <2>6. Deletion'
    BY <1>1, <2>1, <2>2, <2>4 DEF Deletion, At
  <2>7. DueComes'
    <3>1. Down(link') = Down(link) /\ Boxes' = Boxes /\ Gotten' = Gotten
      BY <1>1, <2>3, LinkIs DEF Down, Boxes, Gotten
    <3>2. \A t \in Service : OnTheWay(t)' = OnTheWay(t)
      BY <3>1 DEF OnTheWay
    <3> QED
      BY <1>1, <2>1, <3>2 DEF DueComes
  <2> QED
    BY <2>5, <2>6, <2>7 DEF SoleInv
<1> QED
  BY <1>2, <1>3

\* The owner publishes.
LEMMA PublishedSole ==
  ASSUME Placed, Sole, Inv, SoleInv, NEW f, Linked(f), NEW top, NEW p,
         OrderOf(Up(f), Down(f), Boxes, Gotten, top), Fits(Up(f), Down(f), Boxes, Gotten, top, p),
         Published(p, f), UNCHANGED <<group, remote, sub, deleted, got>>,
         \A n \in Remote : /\ SameUp(link[From(n)], f[From(n)]) /\ f[To(n)] = link[To(n)]
                           /\ Has(f[From(n)], "DEL") <=> Has(link[From(n)], "DEL")
  PROVE  SoleInv'
<1> DEFINE m == Command("multicast", NULL, p)
<1>1. Types /\ Lined /\ References /\ Exact /\ Deletion /\ Agreement /\ DueComes
  BY DEF Inv, Order, SoleInv
<1>2. /\ \A n \in Remote : link'[From(n)] = f[From(n)]
      /\ \A n \in Nodes(remote) : link'[To(n)] = Append(f[To(n)], m) /\ p \in Carried(link'[To(n)])
      /\ \A n \in Remote \ Nodes(remote) : link'[To(n)] = f[To(n)]
      /\ \A n \in Remote : Carried(f[To(n)]) \subseteq Carried(link'[To(n)])
      /\ \A s \in Service : Boxes[s] \subseteq Boxes'[s]
      /\ group[Owner] # NULL => \A s \in group[Owner] : p \in Boxes'[s]
      /\ Gotten' = Gotten
      /\ due' = [s \in Service |-> IF sub[s] = "in" THEN due[s] \cup {p} ELSE due[s]]
  <2>1. /\ OrderOf(Up(f), Down(f), Boxes, Gotten, top) /\ Fits(Up(f), Down(f), Boxes, Gotten, top, p)
        /\ Published(p, f) /\ UNCHANGED got
    OBVIOUS
  <2>2. due' = [s \in Service |-> IF sub[s] = "in" THEN due[s] \cup {p} ELSE due[s]]
    BY <2>1 DEF Published
  <2>3. Gotten' = Gotten
    BY <2>1 DEF Gotten
  <2>4. /\ \A s \in Service : Boxes[s] \subseteq Boxes'[s]
        /\ group[Owner] # NULL => \A s \in group[Owner] : p \in Boxes'[s]
    BY <1>1, <2>1, PublishedIs
  <2>5. /\ \A n \in Remote : link'[From(n)] = f[From(n)]
        /\ \A n \in Remote : Carried(f[To(n)]) \subseteq Carried(link'[To(n)])
        /\ \A n \in Remote \ Nodes(remote) : link'[To(n)] = f[To(n)]
    BY <1>1, <2>1, PublishedIs
  <2>6. \A n \in Nodes(remote) : link'[To(n)] = Append(f[To(n)], m) /\ p \in Carried(link'[To(n)])
    BY <1>1, <2>1, PublishedIs
  <2> QED
    BY <2>2, <2>3, <2>4, <2>5, <2>6
<1>3. m.type = "multicast" /\ \A n \in Remote : m \in Downward(n) /\ link[To(n)] \in Seq(Downward(n))
  BY SaidCommands, SaidIs, LinkSeqs DEF Command, Fits
<1> HIDE DEF m
<1>4. ASSUME NEW n \in Remote PROVE SameDown(link[To(n)], link'[To(n)])
  <2>1. SameDown(link[To(n)], Append(link[To(n)], m)) /\ SameDown(link[To(n)], link[To(n)])
    BY <1>3, SameAppend, SameItself
  <2> QED
    BY <1>2, <2>1
<1>5. Agreement'
  BY <1>1, <1>2, <1>4, AgreementKeeps
<1>6. Deletion'
  BY <1>1, <1>2 DEF Deletion, At
<1>7. DueComes'
  <2>1. ASSUME NEW s \in Service, sub[s] = "in", group[Owner] # NULL
        PROVE  due'[s] \subseteq OnTheWay(s)'
    <3>1. due[s] \subseteq OnTheWay(s) /\ due'[s] = due[s] \cup {p}
      BY <1>1, <1>2, <2>1 DEF DueComes
    <3>2. CASE Home[s] = Owner
      <4>1. s \in group[Owner]
        BY <1>1, <2>1, <3>2 DEF Deletion, At
      <4> QED
        BY <1>2, <2>1, <3>1, <3>2, <4>1 DEF OnTheWay
    <3>3. CASE Home[s] # Owner
      <4>1. Home[s] \in Remote /\ s \in At(Home[s])
        BY <3>3, SoleIs
      <4>2. Home[s] \in Nodes(remote)
        BY <1>1, <2>1, <4>1 DEF Agreement, Agreed
      <4>3. p \in Down(link')[Home[s]] /\ Down(link)[Home[s]] \subseteq Down(link')[Home[s]]
        BY <1>2, <4>1, <4>2 DEF Down
      <4> QED
        BY <1>2, <3>1, <3>3, <4>3 DEF OnTheWay
    <3> QED
      BY <3>2, <3>3
  <2>2. ASSUME NEW s \in Service, sub[s] # "in" PROVE due'[s] = {}
    BY <1>1, <1>2, <2>2 DEF DueComes
  <2> QED
    BY <2>1, <2>2 DEF DueComes
<1> QED
  BY <1>5, <1>6, <1>7 DEF SoleInv

LEMMA PUBSole ==
  ASSUME Placed, Sole, Inv, SoleInv, NEW n \in Publisher, PUB(n)
  PROVE  SoleInv'
<1> DEFINE p == published + 1
<1>1. /\ published' = p /\ p \in Message /\ published \in Nat /\ n \in Node
      /\ UNCHANGED <<group, remote, sub, deleted, got, times>>
  BY DEF PUB, Inv, Types, Message, Placed
<1>2. /\ Types /\ Linked(link) /\ OrderOf(Up(link), Down(link), Boxes, Gotten, published)
      /\ Sets(Up(link), Down(link), Boxes, Gotten) /\ Deletion /\ Agreement /\ DueComes
  BY SetsAre DEF Inv, Order, SoleInv
<1>3. CASE n = Owner
  <2>1. Published(p, link)
    BY <1>1, <1>3 DEF PUB
  <2>2. OrderOf(Up(link), Down(link), Boxes, Gotten, p) /\ Fits(Up(link), Down(link), Boxes, Gotten, p, p)
    BY <1>1, <1>2, <1>3, OwnerFirst
  <2> HIDE DEF p
  <2> QED
    BY <1>1, <1>2, <2>1, <2>2, SameItself, PublishedSole
<1>4. CASE n # Owner
  <2> DEFINE m == Command("multicast", NULL, p)
  <2>1. link' = Sent(link, From(n), m) /\ UNCHANGED <<reference, inbox, due>>
    BY <1>1, <1>4 DEF PUB, Sends, Sent
  <2>2. n \in Remote /\ m.type = "multicast" /\ From(n) \in Link /\ m \in Upward(n) /\ link[From(n)] \in Seq(Upward(n))
    BY <1>1, <1>4, SaidCommands, SaidIs, LinkIs, LinkSeqs DEF Node, Command
  <2> HIDE DEF m
  <2>3. /\ link'[From(n)] = Append(link[From(n)], m) /\ \A k \in Link : k # From(n) => link'[k] = link[k]
    BY <1>2, <2>1, <2>2 DEF Linked, Sent
  <2>4. SameUp(link[From(n)], link'[From(n)]) /\ (Has(link'[From(n)], "DEL") <=> Has(link[From(n)], "DEL"))
    BY <2>2, <2>3, SameAppend, UpAppend
  <2>5. Agreement'
    <3>1. \A k \in Remote : SameUp(link[From(k)], link'[From(k)]) /\ SameDown(link[To(k)], link'[To(k)])
      BY <2>2, <2>3, <2>4, SameItself, LinkIs
    <3> QED
      BY <1>1, <1>2, <3>1, AgreementKeeps
  <2>6. Deletion'
    <3>1. \A k \in Remote : Has(link'[From(k)], "DEL") <=> Has(link[From(k)], "DEL")
      BY <2>2, <2>3, <2>4, LinkIs
    <3> QED
      BY <1>1, <1>2, <3>1 DEF Deletion, At
  <2>7. DueComes'
    <3>1. Down(link') = Down(link) /\ Boxes' = Boxes /\ Gotten' = Gotten
      BY <1>1, <2>1, <2>2, <2>3, LinkIs DEF Down, Boxes, Gotten
    <3>2. \A t \in Service : OnTheWay(t)' = OnTheWay(t)
      BY <3>1 DEF OnTheWay
    <3> QED
      BY <1>1, <1>2, <2>1, <3>2 DEF DueComes
  <2> QED
    BY <2>5, <2>6, <2>7 DEF SoleInv
<1> QED
  BY <1>3, <1>4

LEMMA DispatchSole ==
  ASSUME Placed, Sole, Inv, SoleInv, NEW t \in Service, Dispatch(t)
  PROVE  SoleInv'
<1>1. UNCHANGED <<group, remote, link, sub, deleted, published, due, times>>
  BY DEF Dispatch
<1>2. Types /\ Lined /\ References /\ Exact /\ Ahead(Gotten[t], Boxes[t]) /\ Deletion /\ Agreement /\ DueComes
  BY DEF Inv, Order, OrderOf, SoleInv
<1>3. /\ Boxes[t] = Boxes'[t] \cup {NextMessage(t)}
      /\ Gotten'[t] = IF sub[t] = "in" THEN Gotten[t] \cup {NextMessage(t)} ELSE Gotten[t]
      /\ \A s \in Service : s # t => Boxes'[s] = Boxes[s] /\ Gotten'[s] = Gotten[s]
  BY <1>2, DispatchIs
<1>4. Down(link') = Down(link)
  BY <1>1
<1>5. \A s \in Service : sub[s] = "in" => OnTheWay(s)' = OnTheWay(s)
  BY <1>3, <1>4 DEF OnTheWay
<1>6. DueComes'
  BY <1>1, <1>2, <1>5 DEF DueComes
<1>7. Agreement' /\ Deletion'
  BY <1>1, <1>2 DEF Agreement, Deletion
<1> QED
  BY <1>6, <1>7 DEF SoleInv

\* The owner has been told that a service of another node subscribes, or leaves.
LEMMA AskedAgreed ==
  ASSUME NEW S, NEW u \in Seq(S), u # <<>>, Head(u).type = "SUBR",
         NEW T, NEW d \in Seq(T), NEW c \in T, c.type = "answer",
         NEW n, NEW x, NEW g, NEW o, NEW r, NEW q, Agreed(n, x, g, o, r, u, d),
         o # NULL => n \in Nodes(q) /\ c.message = 0,
         o = NULL => c.message # 0
  PROVE  Agreed(n, x, g, o, q, Tail(u), Append(d, c))
<1> DEFINE v == Tail(u)  e == Append(d, c)
<1>1. /\ Has(u, "SUBR") /\ Orderly(v) /\ ~Has(v, "SUBR") /\ ~Has(v, "USUBR")
  BY UpTail DEF Agreed
<1>2. x = "calling" /\ ~Has(d, "answer") /\ g = NULL
  BY <1>1 DEF Agreed
<1>3. /\ Single(e, "answer") /\ Has(e, "answer")
      /\ Has(e, "DELR") <=> Has(d, "DELR")
      /\ Granted(e) <=> Granted(d) /\ c.message = 0
      /\ Settled(d) /\ ~Granting(c) => Settled(e)
  <2>1. Single(d, "answer")
    BY DEF Agreed
  <2> QED
    BY <1>2, <2>1, DownAppend
<1>4. o = NULL => Settled(e)
  BY <1>3 DEF Agreed, Granting
<1> HIDE DEF v, e
<1>5. o # NULL => Granted(e) /\ ~Has(e, "DELR") /\ n \in Nodes(q)
  BY <1>3 DEF Agreed
<1>6. Agreed(n, x, g, o, q, v, e)
  BY <1>1, <1>2, <1>3, <1>4, <1>5 DEF Agreed
<1> QED
  BY <1>6 DEF v, e

LEMMA LeftAgreed ==
  ASSUME NEW S, NEW u \in Seq(S), u # <<>>, Head(u).type = "USUBR",
         NEW n, NEW x, NEW g, NEW o, NEW r, NEW q, NEW d, Agreed(n, x, g, o, r, u, d),
         n \notin Nodes(q)
  PROVE  Agreed(n, x, g, o, q, Tail(u), d)
<1> DEFINE v == Tail(u)
<1>1. /\ Has(u, "USUBR") /\ Orderly(v) /\ (Has(v, "SUBR") <=> Has(u, "SUBR")) /\ ~Has(v, "USUBR")
  BY UpTail DEF Agreed
<1>2. x # "in" /\ ~Has(d, "answer")
  BY <1>1 DEF Agreed
<1> HIDE DEF v
<1>3. Agreed(n, x, g, o, q, v, d)
  BY <1>1, <1>2 DEF Agreed
<1> QED
  BY <1>3 DEF v

\* A command that carries no message leaves what is on its way there.
LEMMA UnmovedOnTheWay ==
  ASSUME Placed, Unmoved, UNCHANGED <<inbox, got>>
  PROVE  \A s \in Service : OnTheWay(s)' = OnTheWay(s)
<1>1. Down(link') = Down(link) /\ Boxes' = Boxes /\ Gotten' = Gotten
  BY DEF Unmoved, Down, Boxes, Gotten
<1> QED
  BY <1>1 DEF OnTheWay

LEMMA NodesNot == ASSUME Placed PROVE \A S \in SUBSET Remote : S # NULL
  BY DEF Placed

LEMMA AskedSole ==
  ASSUME Placed, Sole, Inv, SoleInv, NEW n \in Remote, AtOwner(n),
         Head(link[From(n)]).type = "SUBR", SUBR(n, Head(link[From(n)]).service)
  PROVE  SoleInv'
<1> DEFINE u == link[From(n)]  d == link[To(n)]  m == Head(u)  s == m.service  f == Rest(link, From(n))
           c == Command("answer", s, IF group[Owner] = NULL THEN 1 ELSE 0)
<1>1. /\ m \in Upward(n) /\ u # <<>> /\ Linked(f) /\ f[From(n)] = Tail(u) /\ u \in Seq(Upward(n)) /\ d \in Seq(Downward(n))
      /\ \A k \in Link : k # From(n) => f[k] = link[k]
      /\ \A k \in Link : Carried(f[k]) = Carried(link[k])
      /\ UNCHANGED <<sub, deleted, published, got, times>>
  BY AtOwnerIs, LinkSeqs
<1>2. Types /\ Linked(link) /\ Deletion /\ Agreement /\ DueComes
  BY DEF Inv, Order, SoleInv
<1>3. /\ link' = [link EXCEPT ![From(n)] = Tail(@), ![To(n)] = Append(@, c)]
      /\ remote' = (IF group[Owner] = NULL THEN remote ELSE IF remote = NULL THEN {n} ELSE remote \cup {n})
      /\ UNCHANGED <<group, reference, inbox, due>>
  BY DEF SUBR
<1>4. s \in At(n) /\ s \in Service /\ At(n) = {s} /\ n # Owner
  <2>1. s \in At(n)
    BY <1>1 DEF Upward
  <2> QED
    BY <2>1, SoleIs, LinkIs DEF At
<1>5. /\ c \in Downward(n) /\ c \in Said(To(n)) /\ c.type = "answer"
      /\ group[Owner] # NULL => c.message = 0
      /\ group[Owner] = NULL => c.message # 0
  <2>1. c \in Downward(n)
    BY <1>4 DEF Downward, Command
  <2> QED
    BY <2>1, SaidIs DEF Command
<1> HIDE DEF c
<1>6. link' = Sent(f, To(n), c)
  BY <1>2, <1>3, SUBRLinks
<1> HIDE DEF m, s, f
<1>7. /\ link'[To(n)] = Append(f[To(n)], c)
      /\ \A k \in Link : Carried(link'[k]) = Carried(f[k])
      /\ \A k \in Link : k # To(n) => link'[k] = f[k]
  BY <1>1, <1>5, <1>6, CommandSent, LinkIs
<1>8. /\ link'[From(n)] = Tail(u) /\ link'[To(n)] = Append(d, c) /\ Unmoved
      /\ \A k \in Remote : k # n => link'[From(k)] = link[From(k)] /\ link'[To(k)] = link[To(k)]
  BY <1>1, <1>7, LinkIs DEF Unmoved
<1>9. /\ group[Owner] # NULL => Nodes(remote') = Nodes(remote) \cup {n}
      /\ group[Owner] = NULL => remote' = remote
      /\ \A k \in Remote : k # n => (k \in Nodes(remote') <=> k \in Nodes(remote))
  <2>1. \A S \in SUBSET Remote : S # NULL
    BY NodesNot
  <2>2. remote = NULL \/ remote \subseteq Remote
    BY <1>2 DEF Types
  <2>3. CASE group[Owner] = NULL
    BY <1>3, <2>3
  <2>4. CASE group[Owner] # NULL
    <3>1. CASE remote = NULL
      BY <1>3, <2>1, <2>4, <3>1 DEF Nodes
    <3>2. CASE remote # NULL
      <4>1. remote' = remote \cup {n} /\ remote' # NULL
        BY <1>3, <2>1, <2>2, <2>4, <3>2
      <4> QED
        BY <2>4, <3>2, <4>1 DEF Nodes
    <3> QED
      BY <3>1, <3>2
  <2> QED
    BY <2>3, <2>4
<1>10. Agreed(n, sub[s], group[n], group[Owner], remote', Tail(u), Append(d, c))
  <2>1. Agreed(n, sub[s], group[n], group[Owner], remote, u, d)
    BY <1>2, <1>4 DEF Agreement
  <2>2. Head(u).type = "SUBR"
    BY DEF m
  <2> HIDE DEF u, d
  <2>3. group[Owner] # NULL => n \in Nodes(remote')
    BY <1>9
  <2> QED
    BY <1>1, <1>5, <2>1, <2>2, <2>3, AskedAgreed
<1>11. Agreement'
  <2>1. group' = group /\ sub' = sub
    BY <1>1, <1>3
  <2>2. Agreed(n, sub'[s], group'[n], group'[Owner], remote', link'[From(n)], link'[To(n)])
    BY <1>8, <1>10, <2>1
  <2>3. \A k \in Remote : k # n => /\ link'[From(k)] = link[From(k)] /\ link'[To(k)] = link[To(k)]
                                   /\ group'[k] = group[k] /\ (k \in Nodes(remote') <=> k \in Nodes(remote))
    BY <1>8, <1>9, <2>1
  <2> QED
    BY <1>2, <1>4, <2>1, <2>2, <2>3, AgreementAt
<1>12. Deletion'
  <2>1. \A k \in Remote : Has(link'[From(k)], "DEL") <=> Has(link[From(k)], "DEL")
    <3>1. Has(Tail(u), "DEL") <=> Has(u, "DEL")
      BY <1>1, UpTail DEF m
    <3> QED
      BY <1>8, <3>1
  <2>2. \A k \in Nodes(remote') : At(k) # {}
    BY <1>2, <1>4, <1>9 DEF Deletion
  <2>3. group[Owner] = NULL => remote' = NULL
    BY <1>2, <1>9 DEF Deletion
  <2> QED
    BY <1>1, <1>2, <1>3, <2>1, <2>2, <2>3 DEF Deletion
<1>13. DueComes'
  BY <1>1, <1>2, <1>3, <1>8, UnmovedOnTheWay, DueKeeps
<1> QED
  BY <1>11, <1>12, <1>13 DEF SoleInv

LEMMA LeftSole ==
  ASSUME Placed, Sole, Inv, SoleInv, NEW n \in Remote, AtOwner(n),
         Head(link[From(n)]).type = "USUBR", USUBR(n)
  PROVE  SoleInv'
<1> DEFINE u == link[From(n)]  d == link[To(n)]  m == Head(u)  f == Rest(link, From(n))
<1>1. /\ m \in Upward(n) /\ u # <<>> /\ f[From(n)] = Tail(u) /\ u \in Seq(Upward(n))
      /\ \A k \in Link : k # From(n) => f[k] = link[k]
      /\ \A k \in Link : Carried(f[k]) = Carried(link[k])
      /\ UNCHANGED <<sub, deleted, published, got, times>>
  BY AtOwnerIs
<1>2. Types /\ Linked(link) /\ Deletion /\ Agreement /\ DueComes
  BY DEF Inv, Order, SoleInv
<1>3. /\ link' = f /\ remote' = (IF remote = NULL THEN NULL ELSE remote \ {n})
      /\ UNCHANGED <<group, reference, inbox, due>>
  BY DEF USUBR, Rest
<1>4. m.service \in At(n) /\ m.service \in Service /\ At(n) = {m.service} /\ n # Owner
  <2>1. m.service \in At(n)
    BY <1>1 DEF Upward
  <2> QED
    BY <2>1, SoleIs, LinkIs DEF At
<1> HIDE DEF f
<1>5. /\ link'[From(n)] = Tail(u) /\ link'[To(n)] = d /\ Unmoved
      /\ \A k \in Remote : k # n => link'[From(k)] = link[From(k)] /\ link'[To(k)] = link[To(k)]
  BY <1>1, <1>3, LinkIs DEF Unmoved
<1>6. Nodes(remote') = Nodes(remote) \ {n}
  <2>1. remote # NULL => remote \ {n} \in SUBSET Remote
    BY <1>2 DEF Types
  <2>2. remote # NULL => remote \ {n} # NULL
    BY <2>1, NodesNot
  <2> QED
    BY <1>3, <2>2 DEF Nodes
<1>7. Agreed(n, sub[m.service], group[n], group[Owner], remote', Tail(u), d)
  <2>1. Agreed(n, sub[m.service], group[n], group[Owner], remote, u, d)
    BY <1>2, <1>4 DEF Agreement
  <2> HIDE DEF u, d
  <2> QED
    BY <1>1, <1>6, <2>1, LeftAgreed DEF m, u
<1>8. Agreement'
  BY <1>1, <1>2, <1>3, <1>4, <1>5, <1>6, <1>7, AgreementAt
<1>9. Deletion'
  <2>1. \A k \in Remote : Has(link'[From(k)], "DEL") <=> Has(link[From(k)], "DEL")
    <3>1. Has(Tail(u), "DEL") <=> Has(u, "DEL")
      BY <1>1, UpTail DEF m
    <3> QED
      BY <1>5, <3>1
  <2>2. group[Owner] = NULL => remote' = NULL
    BY <1>2, <1>3 DEF Deletion
  <2> QED
    BY <1>1, <1>2, <1>3, <1>6, <2>1, <2>2 DEF Deletion
<1>10. DueComes'
  BY <1>1, <1>2, <1>3, <1>5, UnmovedOnTheWay, DueKeeps
<1> QED
  BY <1>8, <1>9, <1>10 DEF SoleInv

LEMMA AtOwnerSole ==
  ASSUME Placed, Sole, Inv, SoleInv, NEW n \in Remote, AtOwner(n)
  PROVE  SoleInv'
<1> DEFINE u == link[From(n)]  m == Head(u)  f == Rest(link, From(n))
<1>1. /\ m \in Upward(n) /\ u # <<>> /\ Linked(f) /\ f[From(n)] = Tail(u) /\ u \in Seq(Upward(n))
      /\ \A k \in Link : k # From(n) => f[k] = link[k]
      /\ UNCHANGED <<sub, deleted, published, got, times>>
  BY AtOwnerIs
<1>2. Types /\ Deletion
  BY DEF Inv, SoleInv
<1>3. CASE m.type = "SUBR" /\ SUBR(n, m.service)
  BY <1>3, AskedSole
<1>4. CASE m.type = "USUBR" /\ USUBR(n)
  BY <1>4, LeftSole
<1>5. ASSUME m.type \in {"multicast", "DEL"}
      PROVE  \A k \in Remote : SameUp(link[From(k)], f[From(k)]) /\ f[To(k)] = link[To(k)]
  <2>1. SameUp(u, Tail(u))
    BY <1>1, <1>5, SameTail
  <2> HIDE DEF f
  <2> QED
    BY <1>1, <2>1, SameItself, LinkIs
<1>6. CASE m.type = "DEL" /\ Deleted(f) /\ UNCHANGED <<reference, inbox, due>>
  <2>1. deleted'
    <3>1. Has(u, "DEL")
      BY <1>1, <1>6, UpTail
    <3> QED
      BY <1>1, <1>2, <3>1 DEF Deletion
  <2> HIDE DEF f, m
  <2> QED
    BY <1>1, <1>5, <1>6, <2>1, DeletedSole
<1>7. CASE m.type = "multicast" /\ Published(m.message, f) /\ UNCHANGED <<group, remote>>
  <2> DEFINE p == m.message
  <2>1. /\ OrderOf(Up(f), Down(f), Boxes, Gotten, published)
        /\ Fits(Up(f), Down(f), Boxes, Gotten, published, p)
    BY <1>7, OwnerTakes
  <2>2. \A k \in Remote : Has(f[From(k)], "DEL") <=> Has(link[From(k)], "DEL")
    <3>1. Has(Tail(u), "DEL") <=> Has(u, "DEL")
      BY <1>1, <1>7, UpTail
    <3> HIDE DEF f
    <3> QED
      BY <1>1, <3>1, LinkIs
  <2> HIDE DEF f, m
  <2> QED
    BY <1>1, <1>5, <1>7, <2>1, <2>2, PublishedSole DEF p
<1> QED
  BY <1>3, <1>4, <1>6, <1>7 DEF AtOwner, Rest

\* A node has had the answer to SUBR.
LEMMA AnsweredAgreed ==
  ASSUME NEW T, NEW d \in Seq(T), d # <<>>, Head(d).type = "answer", Head(d).message \in {0, 1},
         NEW n, NEW g, NEW o, NEW r, NEW u, NEW x, Agreed(n, x, g, o, r, u, d),
         NEW h, h = NULL <=> Head(d).message = 1
  PROVE  Agreed(n, "in", h, o, r, u, Tail(d))
<1> DEFINE e == Tail(d)
<1>1. /\ Has(d, "answer") /\ ~Has(e, "answer") /\ Single(e, "answer")
      /\ Has(e, "DELR") <=> Has(d, "DELR")
      /\ Granted(d) => Granted(e) /\ Head(d).message = 0
      /\ Settled(d) => Settled(e) /\ (Head(d).message = 0 => Has(e, "DELR"))
  <2>1. Single(d, "answer")
    BY DEF Agreed
  <2> QED
    BY <2>1, DownTail DEF Granting
<1> HIDE DEF e
<1>2. x = "calling" /\ ~Has(u, "USUBR") /\ ~Has(u, "SUBR") /\ g = NULL
  BY <1>1 DEF Agreed
<1>3. o # NULL => h # NULL
  BY <1>1 DEF Agreed
<1>4. o = NULL => (h # NULL => Has(e, "DELR")) /\ Settled(e)
  BY <1>1 DEF Agreed
<1>5. Agreed(n, "in", h, o, r, u, e)
  BY <1>1, <1>2, <1>3, <1>4 DEF Agreed
<1> QED
  BY <1>5 DEF e

\* A node has heard that the channel is deleted.
LEMMA HeardAgreed ==
  ASSUME NEW T, NEW d \in Seq(T), d # <<>>, Head(d).type = "DELR",
         NEW n, NEW g, NEW o, NEW r, NEW u, NEW x, Agreed(n, x, g, o, r, u, d)
  PROVE  Agreed(n, x, NULL, o, r, u, Tail(d)) /\ o = NULL
<1> DEFINE e == Tail(d)
<1>1. /\ Has(d, "DELR") /\ Single(e, "answer")
      /\ Has(e, "answer") <=> Has(d, "answer")
      /\ Settled(d) => Settled(e)
  <2>1. Single(d, "answer")
    BY DEF Agreed
  <2> QED
    BY <2>1, DownTail
<1> HIDE DEF e
<1>2. o = NULL
  BY <1>1 DEF Agreed
<1>3. Agreed(n, x, NULL, o, r, u, e)
  BY <1>1, <1>2 DEF Agreed
<1> QED
  BY <1>2, <1>3 DEF e

LEMMA AtNodeSole ==
  ASSUME Placed, Sole, Inv, SoleInv, NEW n \in Remote, AtNode(n)
  PROVE  SoleInv'
<1> DEFINE d == link[To(n)]  m == Head(d)
<1>1. /\ m \in Downward(n) /\ d # <<>> /\ d \in Seq(Downward(n)) /\ link'[To(n)] = Tail(d)
      /\ \A k \in Link : k # To(n) => link'[k] = link[k]
      /\ m.type # "multicast" => Unmoved
      /\ UNCHANGED <<remote, deleted, published, got, due, times>>
  BY AtNodeIs
<1>2. Types /\ Lined /\ References /\ Exact /\ Deletion /\ Agreement /\ DueComes /\ n \in Node /\ n # Owner
  BY LinkIs DEF Inv, Order, SoleInv, Node
<1>3. \A k \in Remote : /\ link'[From(k)] = link[From(k)]
                        /\ k # n => link'[To(k)] = link[To(k)]
  BY <1>1, LinkIs
<1>4. CASE m.type = "answer" /\ Answer(n, m.service, m) /\ UNCHANGED <<reference, inbox>>
  <2> DEFINE s == m.service  g == IF m.message = 1 \/ group[n] # NULL THEN group[n] ELSE {}
             x == sub[s]  o == group[Owner]  u == link[From(n)]
  <2>1. s \in At(n) /\ m.message \in {0, 1} /\ Joined(s, g)
    BY <1>1, <1>4 DEF Downward, Answer
  <2>2. s \in Service /\ Home[s] = n /\ At(n) = {s}
    BY <1>2, <2>1, SoleIs DEF At
  <2>3. Agreed(n, x, group[n], o, remote, u, d)
    BY <1>2, <2>1 DEF Agreement
  <2>4. Has(d, "answer")
    BY <1>1, <1>4, DownTail
  <2>5. x = "calling" /\ group[n] = NULL
    BY <2>3, <2>4 DEF Agreed
  <2>6. {} # NULL /\ {s} # NULL
    <3>1. {} \in SUBSET Service /\ {s} \in SUBSET Service
      BY <2>2
    <3> QED
      BY <3>1 DEF Placed
  <2>7. /\ sub'[s] = "in" /\ \A t \in Service : t # s => sub'[t] = sub[t]
        /\ \A k \in Node : k # n => group'[k] = group[k]
        /\ group'[n] = IF g = NULL THEN NULL ELSE g \cup {s}
    BY <1>2, <2>1, <2>2 DEF Joined, Types
  <2>8. group'[n] = NULL <=> m.message = 1
    BY <2>1, <2>5, <2>6, <2>7
  <2>9. Agreed(n, "in", group'[n], o, remote, u, Tail(d))
    <3> HIDE DEF x, o, u, d
    <3> QED
      BY <1>1, <1>4, <2>1, <2>3, <2>8, AnsweredAgreed DEF m
  <2> HIDE DEF s, m, g
  <2>10. group'[Owner] = group[Owner]
    BY <1>2, <2>7 DEF Node
  <2>11. Agreement'
    <3>1. Agreed(n, sub'[s], group'[n], group'[Owner], remote', link'[From(n)], link'[To(n)])
      BY <1>1, <1>3, <2>7, <2>9, <2>10
    <3>2. \A k \in Remote : k # n => group'[k] = group[k]
      BY <2>7 DEF Node
    <3> QED
      BY <1>1, <1>2, <1>3, <2>2, <2>7, <2>10, <3>1, <3>2, AgreementAt
  <2>12. Deletion'
    <3>1. \A t \in At(Owner) : sub'[t] = sub[t]
      BY <1>2, <2>2, <2>7 DEF At
    <3> QED
      BY <1>1, <1>2, <1>3, <2>10, <3>1 DEF Deletion
  <2>13. DueComes'
    <3>1. \A t \in Service : OnTheWay(t)' = OnTheWay(t)
      BY <1>1, <1>4, UnmovedOnTheWay
    <3>2. due'[s] = {} /\ UNCHANGED due
      BY <1>1, <1>2, <2>2, <2>5 DEF DueComes
    <3> QED
      BY <1>2, <2>7, <2>10, <3>1, <3>2 DEF DueComes
  <2> QED
    BY <2>11, <2>12, <2>13 DEF SoleInv
<1>5. CASE m.type = "DELR" /\ group' = [group EXCEPT ![n] = NULL] /\ UNCHANGED <<sub, reference, inbox>>
  <2>1. /\ group'[n] = NULL /\ \A k \in Node : k # n => group'[k] = group[k]
        /\ group'[Owner] = group[Owner] /\ \A k \in Remote : k # n => group'[k] = group[k]
    BY <1>2, <1>5 DEF Types, Node
  <2>2. Agreement'
    <3> SUFFICES ASSUME NEW k \in Remote, NEW t \in At(k)
                 PROVE  Agreed(k, sub'[t], group'[k], group'[Owner], remote', link'[From(k)], link'[To(k)])
      BY DEF Agreement, At
    <3>1. Agreed(k, sub[t], group[k], group[Owner], remote, link[From(k)], link[To(k)])
      BY <1>2 DEF Agreement
    <3>2. CASE k = n
      <4>1. Agreed(n, sub[t], NULL, group[Owner], remote, link[From(n)], Tail(d))
        BY <1>1, <1>5, <3>1, <3>2, HeardAgreed
      <4> QED
        BY <1>1, <1>3, <1>5, <2>1, <3>2, <4>1
    <3>3. CASE k # n
      BY <1>1, <1>3, <1>5, <2>1, <3>1, <3>3
    <3> QED
      BY <3>2, <3>3
  <2>3. Deletion'
    BY <1>1, <1>2, <1>3, <1>5, <2>1 DEF Deletion
  <2>4. DueComes'
    <3>1. \A t \in Service : OnTheWay(t)' = OnTheWay(t)
      BY <1>1, <1>5, UnmovedOnTheWay
    <3> QED
      BY <1>1, <1>2, <1>5, <2>1, <3>1 DEF DueComes
  <2> QED
    BY <2>2, <2>3, <2>4 DEF SoleInv
<1>6. CASE m.type = "multicast"
  <2> DEFINE p == m.message
  <2>1. /\ p \in Message /\ Local(n, p) /\ UNCHANGED <<group, sub>>
        /\ Down(link)[n] = Down(link')[n] \cup {p}
        /\ \A k \in Remote : k # n => Down(link')[k] = Down(link)[k]
        /\ \A s \in At(n) : Ahead(Gotten[s] \cup Boxes[s], {p})
    BY <1>6, NodeGets
  <2> HIDE DEF p
  <2>2. \A s \in At(n) : Ahead(Boxes[s], {p})
    BY <2>1 DEF Ahead
  <2>3. /\ \A s \in Service : Boxes[s] \subseteq Boxes'[s]
        /\ group[n] # NULL => \A s \in group[n] : p \in Boxes'[s]
    <3>1. UNCHANGED got
      BY <1>1
    <3>2. \A s \in Service : Boxes'[s] = Boxes[s] \/ (s \in At(n) /\ Boxes'[s] = Boxes[s] \cup {p})
      BY <1>2, <2>1, <2>2, <3>1, LocalIs
    <3>3. group[n] # NULL => \A s \in group[n] : Boxes'[s] = Boxes[s] \cup {p}
      BY <1>2, <2>1, <2>2, <3>1, LocalIs
    <3> QED
      BY <3>2, <3>3
  <2>4. Gotten' = Gotten
    BY <1>1 DEF Gotten
  <2>5. Agreement'
    <3>1. SameDown(link[To(n)], link'[To(n)])
      BY <1>1, <1>6, SameTail
    <3>2. \A k \in Remote : SameUp(link[From(k)], link'[From(k)]) /\ SameDown(link[To(k)], link'[To(k)])
      BY <1>3, <3>1, SameItself
    <3> QED
      BY <1>1, <1>2, <2>1, <3>2, AgreementKeeps
  <2>6. Deletion'
    BY <1>1, <1>2, <1>3, <2>1 DEF Deletion
  <2>7. DueComes'
    <3>1. ASSUME NEW s \in Service, sub[s] = "in", group[Owner] # NULL
          PROVE  due[s] \subseteq OnTheWay(s)'
      <4>1. due[s] \subseteq OnTheWay(s)
        BY <1>2, <3>1 DEF DueComes
      <4>2. CASE Home[s] = n
        <5>1. s \in At(n) /\ At(n) = {s}
          BY <1>2, <4>2, SoleIs DEF At
        <5>2. group[n] # NULL
          BY <1>2, <3>1, <5>1 DEF Agreement, Agreed
        <5>3. s \in group[n]
          BY <1>2, <5>1, <5>2 DEF Types
        <5>4. OnTheWay(s) \subseteq OnTheWay(s)'
          BY <1>2, <2>1, <2>3, <2>4, <4>2, <5>2, <5>3 DEF OnTheWay
        <5> QED
          BY <4>1, <5>4
      <4>3. CASE Home[s] # n
        <5>1. Home[s] # Owner => Home[s] \in Remote
          BY SoleIs
        <5>2. OnTheWay(s) \subseteq OnTheWay(s)'
          BY <2>1, <2>3, <2>4, <4>3, <5>1 DEF OnTheWay
        <5> QED
          BY <4>1, <5>2
      <4> QED
        BY <4>2, <4>3
    <3> QED
      BY <1>1, <1>2, <2>1, <3>1 DEF DueComes
  <2> QED
    BY <2>5, <2>6, <2>7 DEF SoleInv
<1> QED
  BY <1>4, <1>5, <1>6 DEF AtNode

LEMMA SoleStep == Placed /\ Sole /\ Inv /\ SoleInv /\ [Next]_vars => SoleInv'
<1> SUFFICES ASSUME Placed, Sole, Inv, SoleInv, [Next]_vars PROVE SoleInv'
  OBVIOUS
<1>1. CASE UNCHANGED vars
  <2>1. UNCHANGED <<group, remote, link, sub, inbox, deleted, got, due>>
    BY <1>1 DEF vars
  <2>2. Down(link') = Down(link) /\ Boxes' = Boxes /\ Gotten' = Gotten
    BY <2>1 DEF Boxes, Gotten
  <2>3. \A s \in Service : OnTheWay(s)' = OnTheWay(s)
    BY <2>2 DEF OnTheWay
  <2>4. Deletion' /\ Agreement'
    BY <2>1 DEF SoleInv, Deletion, Agreement
  <2>5. DueComes'
    BY <2>1, <2>3 DEF SoleInv, DueComes
  <2> QED
    BY <2>4, <2>5 DEF SoleInv
<1>2. CASE Next
  BY <1>2, SUBSole, USUBSole, DispatchSole, DELSole, PUBSole, AtOwnerSole, AtNodeSole DEF Next
<1> QED
  BY <1>1, <1>2

\* When all has arrived.
LEMMA SoleSound == Placed /\ Sole /\ Inv /\ SoleInv => Delivered /\ NodesKnown /\ NothingKept
<1> SUFFICES ASSUME Placed, Sole, Inv, SoleInv PROVE Delivered /\ NodesKnown /\ NothingKept
  OBVIOUS
<1>1. Types /\ Deletion /\ Agreement /\ DueComes
  BY DEF Inv, SoleInv
<1>2. ASSUME Quiet
      PROVE  /\ \A n \in Remote : link[From(n)] = <<>> /\ link[To(n)] = <<>>
             /\ \A s \in Service : Boxes[s] = {} /\ (Home[s] # Owner => Down(link)[Home[s]] = {})
             /\ \A t : ~Has(<<>>, t)
  <2>1. \A n \in Remote : link[From(n)] = <<>> /\ link[To(n)] = <<>>
    BY <1>2, LinkIs DEF Quiet
  <2>2. Within(<<>>) = {} /\ Carried(<<>>) = {} /\ \A t : ~Has(<<>>, t)
    BY DEF Within, Carried, Has
  <2>3. \A s \in Service : Boxes[s] = {}
    BY <1>2, <2>2 DEF Quiet, Boxes
  <2>4. \A s \in Service : Home[s] # Owner => Down(link)[Home[s]] = {}
    BY <2>1, <2>2, SoleIs DEF Down
  <2> QED
    BY <2>1, <2>2, <2>3, <2>4
<1>3. Delivered
  <2> SUFFICES ASSUME Quiet, ~deleted, NEW s \in Service, sub[s] = "in" PROVE due[s] \subseteq ToSet(got[s])
    BY DEF Delivered
  <2>1. group[Owner] # NULL
    BY <1>1 DEF Deletion
  <2>2. due[s] \subseteq Gotten[s]
    BY <1>1, <1>2, <2>1 DEF DueComes, OnTheWay
  <2>3. Gotten[s] \subseteq ToSet(got[s])
    BY <1>1 DEF Types, Gotten, Within, ToSet
  <2> QED
    BY <2>2, <2>3
<1>4. NodesKnown
  <2> SUFFICES ASSUME Quiet, group[Owner] # NULL, NEW n \in Remote
               PROVE  n \in Nodes(remote) <=> \E s \in Service : Home[s] = n /\ sub[s] = "in"
    BY DEF NodesKnown
  <2>1. \A s \in At(n) : n \in Nodes(remote) <=> sub[s] = "in"
    BY <1>1, <1>2 DEF Agreement, Agreed
  <2>2. n \in Nodes(remote) => At(n) # {}
    BY <1>1 DEF Deletion
  <2> QED
    BY <2>1, <2>2 DEF At
<1>5. NothingKept
  <2> SUFFICES ASSUME Quiet, deleted, NEW n \in Node PROVE group[n] = NULL
    BY DEF NothingKept
  <2>1. group[Owner] = NULL
    BY <1>1, <1>2 DEF Deletion
  <2>2. CASE n \in Remote
    <3>1. \A s \in At(n) : group[n] = NULL
      BY <1>1, <1>2, <2>1, <2>2 DEF Agreement, Agreed
    <3> QED
      BY <1>1, <2>2, <3>1 DEF Types, Node
  <2> QED
    BY <2>1, <2>2 DEF Node
<1> QED
  BY <1>3, <1>4, <1>5

=============================================================================
