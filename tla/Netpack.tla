------------------------------ MODULE Netpack ------------------------------
(***************************************************************************)
(* A gate server and the packages of its clients (lua-netpack.c,           *)
(* gateserver.lua).  What a client sends arrives in pieces that know       *)
(* nothing of packages, each a size of two bytes and its data: an          *)
(* unfinished package waits in a hash table for the rest, and when a piece *)
(* ends more than one they go through a ring.  Handlers may block in the   *)
(* middle of the loop that takes them out; others then go on.              *)
(*                                                                         *)
(* The service takes one socket message, or one answer that wakes a        *)
(* handler, at a time, and runs all it has forked before the next one.     *)
(***************************************************************************)
EXTENDS Integers, Sequences, FiniteSets, SequencesExt

CONSTANTS
  Fd,
  Lengths(_),   \* of the packages that a client sends
  HashOf(_),    \* hash_fd
  QUEUESIZE,
  Base,         \* values of a byte
  maxclient,
  MaxBlocked,   \* bound of the model: handlers that wait
  NULL

VARIABLES
  uncomplete,  \* the chains of the hash table
  queue,       \* the ring; version counts how often it was replaced
  forks,       \* dispatch_queue that have been forked and have not begun
  active,      \* version of the ring over which the running loop goes, or NULL
  blocked,     \* the same for loops whose handler waits
  connection,  \* TRUE, FALSE after closeclient, or NULL
  client_number,
  socket,      \* of a client: new, up, refused or gone
  arrived,     \* number of bytes of a client that have arrived
  handled      \* history: the packages of a client given to the handler

vars == <<uncomplete, queue, forks, active, blocked, connection, client_number, socket, arrived, handled>>

Content(i, n) == [j \in 1 .. n |-> 10 * i + j]
Packages(fd) == [i \in DOMAIN Lengths(fd) |-> Content(i, Lengths(fd)[i])]
Bytes(fd) == FlattenSeq([i \in DOMAIN Lengths(fd) |->
               <<Lengths(fd)[i] \div Base, Lengths(fd)[i] % Base>> \o Packages(fd)[i]])

Chain == {HashOf(fd) : fd \in Fd}

TypeOK ==
  /\ queue.head \in 0 .. queue.cap - 1 /\ queue.tail \in 0 .. queue.cap - 1
  /\ DOMAIN queue.slot = 0 .. queue.cap - 1
  /\ forks \in 0 .. 1 /\ (active = NULL \/ active <= queue.version)
  /\ connection \in [Fd -> BOOLEAN \cup {NULL}]
  /\ socket \in [Fd -> {"new", "up", "refused", "gone"}]
  /\ \A fd \in Fd : arrived[fd] \in 0 .. Len(Bytes(fd))

Init ==
  /\ uncomplete = [h \in Chain |-> <<>>]
  /\ queue = [cap |-> QUEUESIZE, head |-> 0, tail |-> 0, version |-> 0,
              slot |-> [i \in 0 .. QUEUESIZE - 1 |-> NULL]]
  /\ forks = 0 /\ active = NULL /\ blocked = <<>>
  /\ connection = [fd \in Fd |-> NULL] /\ client_number = 0
  /\ socket = [fd \in Fd |-> "new"] /\ arrived = [fd \in Fd |-> 0]
  /\ handled = [fd \in Fd |-> <<>>]

Idle == forks = 0 /\ active = NULL

-----------------------------------------------------------------------------

\* A fault: nobody goes on with the queue when a handler blocks.
ForksAgain_not == 0

-----------------------------------------------------------------------------
(***************************************************************************)
(* Unfinished packages.  Of one whose size has come by half only the first *)
(* byte is there: its size is -1 and this byte its data.                   *)
(***************************************************************************)
read_size(b) == b[1] * Base + b[2]

Suffix(b, n) == SubSeq(b, n + 1, Len(b))

\* The place of fd in its chain, 0 when it is not there (find_uncomplete).
Waiting(fd) ==
  LET chain == uncomplete[HashOf(fd)]
      at == {i \in DOMAIN chain : chain[i].id = fd} IN
  IF at = {} THEN 0 ELSE CHOOSE i \in at : \A j \in at : i <= j

\* What bytes b make: the packages that are whole, and what is left.
RECURSIVE push_more(_)
push_more(b) ==
  IF b = <<>> THEN [packs |-> <<>>, left |-> NULL]
  ELSE IF Len(b) = 1 THEN [packs |-> <<>>, left |-> [size |-> -1, data |-> b]]
  ELSE IF Len(b) - 2 < read_size(b)
       THEN [packs |-> <<>>, left |-> [size |-> read_size(b), data |-> Suffix(b, 2)]]
  ELSE LET more == push_more(Suffix(b, read_size(b) + 2)) IN
       [more EXCEPT !.packs = <<SubSeq(b, 3, read_size(b) + 2)>> \o @]

\* The same for an unfinished package u, which b fills first.
Fill(u, b) ==
  LET half == u.size = -1
      size == IF half THEN read_size(<<u.data[1], b[1]>>) ELSE u.size
      all == IF half THEN Tail(b) ELSE u.data \o b IN
  IF Len(all) < size THEN [packs |-> <<>>, left |-> [size |-> size, data |-> all]]
  ELSE LET more == push_more(Suffix(all, size)) IN
       [more EXCEPT !.packs = <<SubSeq(all, 1, size)>> \o @]

\* What was waiting for fd is gone, and what is left now waits first.
Wait(fd, left) ==
  LET h == HashOf(fd)
      others == IF Waiting(fd) = 0 THEN uncomplete[h] ELSE RemoveAt(uncomplete[h], Waiting(fd)) IN
  uncomplete' = [uncomplete EXCEPT ![h] =
    IF left = NULL THEN others ELSE <<[id |-> fd, size |-> left.size, data |-> left.data]>> \o others]

(***************************************************************************)
(* The ring.                                                               *)
(***************************************************************************)
\* Where the i-th of q's packages is.
Slot(q, i) == q.slot[(q.head + i) % q.cap]

expand_queue(q) ==
  [cap |-> q.cap + QUEUESIZE, head |-> 0, tail |-> q.cap, version |-> q.version + 1,
   slot |-> [i \in 0 .. q.cap + QUEUESIZE - 1 |-> IF i < q.cap THEN Slot(q, i) ELSE NULL]]

push_data(q, x) ==
  LET pushed == [q EXCEPT !.slot[q.tail] = x, !.tail = (@ + 1) % q.cap] IN
  IF pushed.head = pushed.tail THEN expand_queue(pushed) ELSE pushed

\* A ring that was replaced is empty.
Empty(version) == version # queue.version \/ queue.head = queue.tail

lpop == queue' = [queue EXCEPT !.head = (@ + 1) % queue.cap]

-----------------------------------------------------------------------------
(***************************************************************************)
(* The gate server.                                                        *)
(***************************************************************************)
\* dispatch_msg: the handler begins, or the package is dropped.
dispatch_msg(fd, pack) ==
  handled' = IF connection[fd] = TRUE THEN [handled EXCEPT ![fd] = Append(@, pack)] ELSE handled

\* k bytes of fd arrive: filter_data, and MSG.data for one package or
\* MSG.more for several.
Data(fd, k) ==
  /\ Idle /\ socket[fd] = "up"
  /\ arrived' = [arrived EXCEPT ![fd] = @ + k]
  /\ \E b \in {SubSeq(Bytes(fd), arrived[fd] + 1, arrived[fd] + k)} :
     \E r \in {IF Waiting(fd) = 0 THEN push_more(b) ELSE Fill(uncomplete[HashOf(fd)][Waiting(fd)], b)} :
       /\ Wait(fd, r.left)
       /\ IF Len(r.packs) = 1 /\ r.left = NULL
          THEN dispatch_msg(fd, r.packs[1]) /\ UNCHANGED <<queue, forks>>
          ELSE /\ queue' = FoldLeft(LAMBDA q, p : push_data(q, [id |-> fd, data |-> p]), queue, r.packs)
               /\ forks' = IF r.packs = <<>> THEN 0 ELSE 1
               /\ UNCHANGED handled
  /\ UNCHANGED <<active, blocked, connection, client_number, socket>>

\* The handler returns to its loop, blocks in it, or fails.
Handler(version) ==
  \/ active' = version /\ UNCHANGED blocked
  \/ active' = NULL /\ Len(blocked) < MaxBlocked /\ blocked' = Append(blocked, version)
  \/ active' = NULL /\ UNCHANGED blocked

NextPack == queue.slot[queue.head]
Take(version) == lpop /\ dispatch_msg(NextPack.id, NextPack.data) /\ Handler(version)

\* "may dispatch even the handler.message blocked"
ForksAgain == 1

\* dispatch_queue begins.
dispatch_queue ==
  /\ active = NULL /\ forks = 1
  /\ IF Empty(queue.version) THEN forks' = 0 /\ UNCHANGED <<queue, handled, active, blocked>>
     ELSE forks' = ForksAgain /\ Take(queue.version)
  /\ UNCHANGED <<uncomplete, connection, client_number, socket, arrived>>

\* The loop of dispatch_queue goes on.
Loop ==
  /\ active # NULL
  /\ IF Empty(active) THEN active' = NULL /\ UNCHANGED <<queue, handled, blocked>> ELSE Take(active)
  /\ UNCHANGED <<uncomplete, forks, connection, client_number, socket, arrived>>

\* A handler that has blocked gets its answer.
Wakeup(i) ==
  /\ Idle /\ active' = blocked[i] /\ blocked' = RemoveAt(blocked, i)
  /\ UNCHANGED <<uncomplete, queue, forks, connection, client_number, socket, arrived, handled>>

\* MSG.open
Open(fd) ==
  /\ Idle /\ socket[fd] = "new"
  /\ \/ /\ client_number >= maxclient
        /\ socket' = [socket EXCEPT ![fd] = "refused"] /\ UNCHANGED <<connection, client_number>>
     \/ /\ client_number < maxclient
        /\ socket' = [socket EXCEPT ![fd] = "up"]
        /\ connection' = [connection EXCEPT ![fd] = TRUE] /\ client_number' = client_number + 1
  /\ UNCHANGED <<uncomplete, queue, forks, active, blocked, arrived, handled>>

\* close_uncomplete
Forget(fd) == Wait(fd, NULL)

Counted(fd) == connection[fd] # NULL

\* MSG.close and MSG.error, with close_fd.
Close(fd) ==
  /\ Idle /\ socket[fd] \in {"up", "refused"}
  /\ socket' = [socket EXCEPT ![fd] = "gone"]
  /\ Forget(fd)
  /\ connection' = [connection EXCEPT ![fd] = NULL]
  /\ client_number' = IF Counted(fd) THEN client_number - 1 ELSE client_number
  /\ UNCHANGED <<queue, forks, active, blocked, arrived, handled>>

\* gateserver.closeclient, by a handler or a command.
closeclient(fd) ==
  /\ connection[fd] = TRUE /\ connection' = [connection EXCEPT ![fd] = FALSE]
  /\ UNCHANGED <<uncomplete, queue, forks, active, blocked, client_number, socket, arrived, handled>>

Next ==
  \/ \E fd \in Fd :
       \/ Open(fd) \/ Close(fd) \/ closeclient(fd)
       \/ \E k \in 1 .. Len(Bytes(fd)) - arrived[fd] : Data(fd, k)
  \/ dispatch_queue \/ Loop
  \/ \E i \in DOMAIN blocked : Wakeup(i)

Spec == Init /\ [][Next]_vars

-----------------------------------------------------------------------------
\* The bytes up to the end of the first n packages of fd.
EndOf(fd, n) == Len(FlattenSeq(SubSeq(Packages(fd), 1, n))) + 2 * n
Complete(fd) == CHOOSE n \in 0 .. Len(Packages(fd)) :
  EndOf(fd, n) <= arrived[fd] /\ (n < Len(Packages(fd)) => EndOf(fd, n + 1) > arrived[fd])

\* However a client's bytes are cut, its packages are handled as they were
\* sent: in their order, none twice, none torn or mixed with another client's.
AsSent == \A fd \in Fd : IsPrefix(handled[fd], Packages(fd))

\* When the service is done with a socket message, every package that is
\* complete has been given to the handler, though others may be blocked.
AllHandled == Idle => \A fd \in Fd : connection[fd] = TRUE => Len(handled[fd]) = Complete(fd)

\* What waits for the rest of a package is of a client that may still send it.
NoneForgotten == \A h \in Chain : \A i \in DOMAIN uncomplete[h] :
  /\ socket[uncomplete[h][i].id] = "up"
  /\ \A j \in DOMAIN uncomplete[h] : uncomplete[h][i].id = uncomplete[h][j].id => i = j

\* Clients are counted once each, those that were refused not at all.
ClientsCounted ==
  /\ client_number = Cardinality({fd \in Fd : connection[fd] # NULL})
  /\ client_number <= maxclient
=============================================================================
