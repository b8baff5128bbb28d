----------------------------- MODULE HarborMesh -----------------------------
(***************************************************************************)
(* The nodes of a skynet cluster: cmaster.lua, the one service every node  *)
(* registers with, and cslave.lua, the service of each node.  A new slave  *)
(* is told how many nodes to wait for, the nodes that are there are told   *)
(* to connect to it, and names given on one node are told to all.          *)
(*                                                                         *)
(* Both are Lua services: what they do between two reads of a socket is a  *)
(* single step.  connect_slave yields inside socket.open, and the          *)
(* coroutines monitor_master and ready of a slave interleave there.        *)
(* A node that stops is not started again here: the master would refuse    *)
(* it, since slave_node[id] is kept.                                       *)
(***************************************************************************)
EXTENDS Integers, Sequences, FiniteSets

CONSTANTS Slave,     \* ids of the nodes
          Name,      \* global names
          Giver,     \* <<i, n>>: a service of node i registers the name n
          Sender,    \* <<i, n>>: a service of node i sends to, or asks for, n
          MaxCrash   \* bound on the number of nodes that stop

NoOne == "noone"

VARIABLES
  slave_node,   \* master: id -> is it unknown, has it a connection, had it one
  global_name,  \* master: name -> address
  toMaster,     \* what slave i has written to the master
  toSlave,      \* what the master has written to slave i
  phase,        \* how far start of cslave is
  need,         \* n of "W n"
  slaves,       \* slave i: what it holds of node j
  connect_queue,\* slave i: nodes to connect to when the others have come
  todo,         \* slave i: what ready has still to connect to
  opening,      \* slave i: <<coroutine, j>> inside socket.open
  knocking,     \* slave j: connections whose id accept_slave has not read
  globalname,   \* slave i: name -> address
  queryname,    \* slave i: has QUERYNAME a caller waiting
  known,        \* harbor service of i: address it has for the name
  held          \* harbor service of i: has it messages queued for the name

master == <<slave_node, global_name>>
joining == <<phase, need>>
mesh == <<slaves, connect_queue, todo, opening, knocking>>
names == <<globalname, queryname, known, held>>
vars == <<master, toMaster, toSlave, joining, mesh, names>>

Address == Slave \cup {NoOne}

TypeOK ==
  /\ slave_node \in [Slave -> {"nil", "fd", "zero"}]
  /\ global_name \in [Name -> Address]
  /\ phase \in [Slave -> {"off", "shaking", "waiting", "woken", "ready", "up", "dead"}]
  /\ need \in [Slave -> 0 .. Cardinality(Slave) - 1]
  /\ slaves \in [Slave -> [Slave -> {"nil", "fd", "false"}]]
  /\ connect_queue \in [Slave -> SUBSET Slave]
  /\ todo \in [Slave -> SUBSET Slave]
  /\ opening \in [Slave -> SUBSET ({"master", "ready"} \X Slave)]
  /\ knocking \in [Slave -> SUBSET Slave]
  /\ globalname \in [Slave -> [Name -> Address]]
  /\ queryname \in [Slave -> [Name -> BOOLEAN]]
  /\ known \in [Slave -> [Name -> Address]]
  /\ held \in [Slave -> [Name -> BOOLEAN]]

Init ==
  /\ slave_node = [i \in Slave |-> "nil"]
  /\ global_name = [n \in Name |-> NoOne]
  /\ toMaster = [i \in Slave |-> <<>>]
  /\ toSlave = [i \in Slave |-> <<>>]
  /\ phase = [i \in Slave |-> "off"]
  /\ need = [i \in Slave |-> 0]
  /\ slaves = [i \in Slave |-> [j \in Slave |-> "nil"]]
  /\ connect_queue = [i \in Slave |-> {}]
  /\ todo = [i \in Slave |-> {}]
  /\ opening = [i \in Slave |-> {}]
  /\ knocking = [i \in Slave |-> {}]
  /\ globalname = [i \in Slave |-> [n \in Name |-> NoOne]]
  /\ queryname = [i \in Slave |-> [n \in Name |-> FALSE]]
  /\ known = [i \in Slave |-> [n \in Name |-> NoOne]]
  /\ held = [i \in Slave |-> [n \in Name |-> FALSE]]

Alive(i) == phase[i] \notin {"off", "dead"}
Connected == {i \in Slave : slave_node[i] = "fd"}

\* socket.write to each connection of Who; a stopped node reads nothing.
Tell(Who, msg) ==
  [i \in Slave |-> IF i \in Who /\ Alive(i) THEN Append(toSlave[i], msg)
                                            ELSE toSlave[i]]

(***************************************************************************)
(* cmaster.lua                                                             *)
(***************************************************************************)
Heard(i) == toMaster' = [toMaster EXCEPT ![i] = Tail(@)]

\* handshake and report_slave: those that are there are told of the new one,
\* and the new one is told how many they are.
Handshake(i) ==
  /\ toMaster[i] # <<>> /\ Head(toMaster[i]).t = "H" /\ slave_node[i] = "nil"
  /\ toSlave' = [Tell(Connected, [t |-> "C", id |-> i]) EXCEPT
                   ![i] = IF Alive(i)
                            THEN Append(@, [t |-> "W", n |-> Cardinality(Connected)])
                            ELSE @]
  /\ slave_node' = [slave_node EXCEPT ![i] = "fd"]
  /\ Heard(i)
  /\ UNCHANGED <<global_name, joining, mesh, names>>

\* dispatch_slave, R: the first address stays, the new one is told to all.
Registered(i) ==
  /\ toMaster[i] # <<>> /\ Head(toMaster[i]).t = "R" /\ slave_node[i] = "fd"
  /\ LET r == Head(toMaster[i]) IN
       /\ global_name' = [global_name EXCEPT
                            ![r.name] = IF @ = NoOne THEN r.at ELSE @]
       /\ toSlave' = Tell(Connected, [t |-> "N", name |-> r.name, at |-> r.at])
  /\ Heard(i)
  /\ UNCHANGED <<slave_node, joining, mesh, names>>

\* dispatch_slave, Q: answered if the name is known, else forgotten.
Queried(i) ==
  /\ toMaster[i] # <<>> /\ Head(toMaster[i]).t = "Q" /\ slave_node[i] = "fd"
  /\ LET n == Head(toMaster[i]).name IN
       toSlave' = IF global_name[n] = NoOne THEN toSlave
                  ELSE Tell({i}, [t |-> "N", name |-> n, at |-> global_name[n]])
  /\ Heard(i)
  /\ UNCHANGED <<master, joining, mesh, names>>

\* monitor_slave after the last package of a node that stopped.
Lost(i) ==
  /\ phase[i] = "dead" /\ slave_node[i] = "fd" /\ toMaster[i] = <<>>
  /\ slave_node' = [slave_node EXCEPT ![i] = "zero"]
  /\ toSlave' = Tell(Connected \ {i}, [t |-> "D", id |-> i])
  /\ UNCHANGED <<global_name, toMaster, joining, mesh, names>>

(***************************************************************************)
(* cslave.lua: joining                                                     *)
(***************************************************************************)
Say(i, msg) == toMaster' = [toMaster EXCEPT ![i] = Append(@, msg)]
Next1(i, t) == toSlave[i] # <<>> /\ Head(toSlave[i]).t = t
Took(i) == toSlave' = [toSlave EXCEPT ![i] = Tail(@)]

Start(i) ==
  /\ phase[i] = "off"
  /\ phase' = [phase EXCEPT ![i] = "shaking"]
  /\ Say(i, [t |-> "H"])
  /\ UNCHANGED <<master, toSlave, need, mesh, names>>

\* "W n": with nobody to wait for, start goes on to fork ready.
Wait(i) ==
  /\ phase[i] = "shaking" /\ Next1(i, "W")
  /\ need' = [need EXCEPT ![i] = Head(toSlave[i]).n]
  /\ phase' = [phase EXCEPT ![i] = IF need'[i] > 0 THEN "waiting" ELSE "woken"]
  /\ Took(i)
  /\ UNCHANGED <<master, toMaster, mesh, names>>

\* accept_slave and the count after it.  A node that has stopped may not have
\* sent its id; a connection without id or not wanted is closed.  The entries
\* are counted in any case, those that are false too.
Accept(i) ==
  \E j \in knocking[i] :
    /\ phase[i] \in {"waiting", "woken"}
    /\ knocking' = [knocking EXCEPT ![i] = @ \ {j}]
    /\ \/ slaves' = [slaves EXCEPT ![i][j] = IF @ = "nil" THEN "fd" ELSE @]
       \/ phase[j] = "dead" /\ UNCHANGED slaves
    /\ LET s == Cardinality({k \in Slave : slaves'[i][k] # "nil"}) IN
         phase' = [phase EXCEPT ![i] = IF s >= need[i] THEN "woken" ELSE @]
    /\ UNCHANGED <<master, toMaster, toSlave, need, connect_queue, todo, opening, names>>

\* ready begins: connect_queue = nil, its nodes are connected to in turn.
Ready(i) ==
  /\ phase[i] = "woken"
  /\ phase' = [phase EXCEPT ![i] = "ready"]
  /\ todo' = [todo EXCEPT ![i] = connect_queue[i]]
  /\ connect_queue' = [connect_queue EXCEPT ![i] = {}]
  /\ UNCHANGED <<master, toMaster, toSlave, need, slaves, opening, knocking, names>>

Ran(i) == phase[i] \in {"ready", "up"}      \* connect_queue is nil

\* The coroutine monitor_master is not inside socket.open.
Reads(i) == /\ phase[i] \in {"waiting", "woken", "ready", "up"}
            /\ \A j \in Slave : <<"master", j>> \notin opening[i]

\* monitor_master, C: kept until ready, else connect_slave begins.
ToldOf(i) ==
  /\ Reads(i) /\ Next1(i, "C")
  /\ LET j == Head(toSlave[i]).id IN
       IF ~ Ran(i)
         THEN /\ connect_queue' = [connect_queue EXCEPT ![i] = @ \cup {j}]
              /\ UNCHANGED opening
         ELSE /\ opening' = [opening EXCEPT ![i] = IF slaves[i][j] = "nil"
                                THEN @ \cup {<<"master", j>>} ELSE @]
              /\ UNCHANGED connect_queue
  /\ Took(i)
  /\ UNCHANGED <<master, toMaster, joining, slaves, todo, knocking, names>>

\* The loop of ready: one connect_slave after the other.
ReadyConnects(i, j) ==
  /\ phase[i] = "ready" /\ j \in todo[i] /\ \A k \in Slave : <<"ready", k>> \notin opening[i]
  /\ todo' = [todo EXCEPT ![i] = @ \ {j}]
  /\ opening' = [opening EXCEPT ![i] = IF slaves[i][j] = "nil"
                                         THEN @ \cup {<<"ready", j>>} ELSE @]
  /\ UNCHANGED <<master, toMaster, toSlave, joining, slaves, connect_queue, knocking, names>>

\* A fault for mutation: the names that came meanwhile are forgotten.
ReadyEnds_silent(i) ==
  /\ phase[i] = "ready" /\ todo[i] = {} /\ \A k \in Slave : <<"ready", k>> \notin opening[i]
  /\ phase' = [phase EXCEPT ![i] = "up"]
  /\ UNCHANGED <<master, toMaster, toSlave, need, mesh, names>>

\* The rest of ready: the names that came meanwhile go to the harbor service,
\* which sends what it has queued for them.
ReadyEnds(i) ==
  /\ phase[i] = "ready" /\ todo[i] = {} /\ \A k \in Slave : <<"ready", k>> \notin opening[i]
  /\ phase' = [phase EXCEPT ![i] = "up"]
  /\ known' = [known EXCEPT ![i] = [n \in Name |->
                  IF globalname[i][n] = NoOne THEN @[n] ELSE globalname[i][n]]]
  /\ held' = [held EXCEPT ![i] = [n \in Name |-> @[n] /\ globalname[i][n] = NoOne]]
  /\ UNCHANGED <<master, toMaster, toSlave, need, mesh, globalname, queryname>>

\* socket.open returns; the harbor service gets the socket and sends its id.
\* The other node may have stopped since it was connected.
Opened(i) ==
  \E w \in {"master", "ready"}, j \in Slave :
    /\ <<w, j>> \in opening[i]
    /\ opening' = [opening EXCEPT ![i] = @ \ {<<w, j>>}]
    /\ slaves' = [slaves EXCEPT ![i][j] = "fd"]
    /\ knocking' = [knocking EXCEPT ![j] = IF Alive(j) THEN @ \cup {i} ELSE @]
    /\ UNCHANGED <<master, toMaster, toSlave, joining, connect_queue, todo, names>>

\* socket.open fails: the error is logged, the node is never tried again.
OpenFails(i) ==
  \E w \in {"master", "ready"}, j \in Slave :
    /\ <<w, j>> \in opening[i] /\ phase[j] = "dead"
    /\ opening' = [opening EXCEPT ![i] = @ \ {<<w, j>>}]
    /\ UNCHANGED <<master, toMaster, toSlave, joining, slaves, connect_queue, todo, knocking, names>>

\* monitor_master, D; the socket is not closed: it was abandoned before.
ToldDown(i) ==
  /\ Reads(i) /\ Next1(i, "D")
  /\ slaves' = [slaves EXCEPT ![i][Head(toSlave[i]).id] = "false"]
  /\ Took(i)
  /\ UNCHANGED <<master, toMaster, joining, connect_queue, todo, opening, knocking, names>>

\* The harbor service sees its socket closed and sends "D id".
HarborDown(i) ==
  \E j \in Slave :
    /\ Alive(i) /\ phase[j] = "dead" /\ slaves[i][j] = "fd"
    /\ slaves' = [slaves EXCEPT ![i][j] = "false"]
    /\ UNCHANGED <<master, toMaster, toSlave, joining, connect_queue, todo, opening, knocking, names>>

(***************************************************************************)
(* cslave.lua: names                                                       *)
(***************************************************************************)
\* "N name" to the harbor service: update_name sends what is queued.
Redirect(i, n, at) ==
  /\ known' = [known EXCEPT ![i][n] = at]
  /\ held' = [held EXCEPT ![i][n] = FALSE]

\* globalname[name] = address, response_name
Learn(i, n, at) ==
  /\ globalname' = [globalname EXCEPT ![i][n] = at]
  /\ queryname' = [queryname EXCEPT ![i][n] = FALSE]

\* monitor_master, N: the harbor service is told once ready has begun.
ToldName(i) ==
  /\ Reads(i) /\ Next1(i, "N")
  /\ LET m == Head(toSlave[i]) IN
       /\ Learn(i, m.name, m.at)
       /\ IF Ran(i) THEN Redirect(i, m.name, m.at) ELSE UNCHANGED <<known, held>>
  /\ Took(i)
  /\ UNCHANGED <<master, toMaster, joining, mesh>>

\* harbor.REGISTER by a service of the node: its assert refuses a known name.
Register(i, n) ==
  /\ Ran(i) /\ <<i, n>> \in Giver /\ globalname[i][n] = NoOne
  /\ Learn(i, n, i)
  /\ Redirect(i, n, i)
  /\ Say(i, [t |-> "R", name |-> n, at |-> i])
  /\ UNCHANGED <<master, toSlave, joining, mesh>>

\* harbor.QUERYNAME, its first caller
Query(i, n) ==
  /\ Ran(i) /\ <<i, n>> \in Sender /\ globalname[i][n] = NoOne /\ ~ queryname[i][n]
  /\ queryname' = [queryname EXCEPT ![i][n] = TRUE]
  /\ Say(i, [t |-> "Q", name |-> n])
  /\ UNCHANGED <<master, toSlave, joining, mesh, globalname, known, held>>

\* A message to a name the harbor service does not know (remote_send_name), and
\* "Q name" in cslave: it answers if it knows the name, else asks the master.
SendToName(i, n) ==
  /\ Ran(i) /\ <<i, n>> \in Sender /\ known[i][n] = NoOne /\ ~ held[i][n]
  /\ IF globalname[i][n] # NoOne
       THEN Redirect(i, n, globalname[i][n]) /\ UNCHANGED toMaster
       ELSE /\ held' = [held EXCEPT ![i][n] = TRUE]
            /\ Say(i, [t |-> "Q", name |-> n])
            /\ UNCHANGED known
  /\ UNCHANGED <<master, toSlave, joining, mesh, globalname, queryname>>

\* A node stops; its connections break, nobody reads what was sent to it.
Crash(i) ==
  /\ Alive(i) /\ Cardinality({j \in Slave : phase[j] = "dead"}) < MaxCrash
  /\ phase' = [phase EXCEPT ![i] = "dead"]
  /\ toSlave' = [toSlave EXCEPT ![i] = <<>>]
  /\ knocking' = [knocking EXCEPT ![i] = {}]
  /\ opening' = [opening EXCEPT ![i] = {}]
  /\ UNCHANGED <<master, toMaster, need, slaves, connect_queue, todo, names>>

MasterStep(i) == Handshake(i) \/ Registered(i) \/ Queried(i) \/ Lost(i)
SlaveStep(i) ==
  \/ Start(i) \/ Wait(i) \/ Accept(i) \/ Ready(i) \/ ReadyEnds(i)
  \/ ToldOf(i) \/ Opened(i) \/ OpenFails(i) \/ ToldDown(i) \/ HarborDown(i)
  \/ ToldName(i)
  \/ \E j \in Slave : ReadyConnects(i, j)
  \/ \E n \in Name : Register(i, n)

Next == \E i \in Slave :
  \/ MasterStep(i) \/ SlaveStep(i) \/ Crash(i)
  \/ \E n \in Name : Query(i, n) \/ SendToName(i, n)

\* Both services go on as long as there is something to read; nodes start and
\* give their names.
Spec == /\ Init /\ [][Next]_vars
        /\ \A i \in Slave : WF_vars(MasterStep(i)) /\ WF_vars(SlaveStep(i))

(***************************************************************************)
(* Properties                                                              *)
(***************************************************************************)
\* A connection that reaches accept_slave is the only one between the two
\* nodes, in either direction, so it is not refused with "Slave exist", where
\* nobody has stopped: only older nodes connect to newer ones.
KnockIsNew == \A i, j \in Slave : i \in knocking[j] => i # j /\ slaves[j][i] = "nil"

\* When ready is over, what cslave knows of the names is what its harbor
\* service knows: names may come before ready, while it yields, and after.
HarborKnows == \A i \in Slave : phase[i] = "up" => known[i] = globalname[i]

\* Every node comes up and is connected to every other one, whatever the order
\* they shake hands in, and though each waits for those before it.
MeshComplete ==
  <>[](\A i, j \in Slave : phase[i] = "up" /\ (i # j => slaves[i][j] = "fd"))

\* A query and the messages queued for a name some node gives are answered,
\* though the master forgets a query for a name it does not know yet.
NameFound ==
  \A i \in Slave, n \in {g[2] : g \in Giver} :
     (held[i][n] \/ queryname[i][n]) ~> ~ (held[i][n] \/ queryname[i][n])

\* No node that goes on holds a connection to one that stopped forever.
DownForgotten ==
  \A j \in Slave : phase[j] = "dead" ~>
     [](\A i \in Slave : Alive(i) => slaves[i][j] # "fd")
=============================================================================
