---------------------------- MODULE MCTransport -----------------------------
(***************************************************************************)
(* Messages over connections that do not keep them whole: the reliable     *)
(* datagrams of rudp and the packages that netpack puts together.  They    *)
(* share no state; on says which of them moves, and in which scenario,     *)
(* while the other rests as it began.                                      *)
(***************************************************************************)
EXTENDS Naturals

CONSTANTS A, B, f1, f2, f3, NULL

VARIABLES
  on,
  U, net, got, aborted, lost, doubled,
  uncomplete, queue, forks, active, blocked, connection, client_number, socket, arrived, handled

rudp == <<U, net, got, aborted, lost, doubled>>
netpack == <<uncomplete, queue, forks, active, blocked, connection, client_number, socket,
             arrived, handled>>

\* A network that loses, doubles and reorders, and messages that expire.
Expiring == INSTANCE Rudp WITH
  GENERAL_PACKAGE <- 2, send_delay <- 1, expired <- 2, Wide <- 65536, Heartbeats <- FALSE,
  Reorder <- TRUE, Drained <- FALSE, SendsA <- 2, SendsB <- 1,
  MaxNet <- 2, MaxLoss <- 1, MaxDouble <- 1

\* Heartbeats and messages that overtake each other.
Beating == INSTANCE Rudp WITH
  GENERAL_PACKAGE <- 2, send_delay <- 1, expired <- 1, Wide <- 65536, Heartbeats <- TRUE,
  Reorder <- TRUE, Drained <- TRUE, SendsA <- 2, SendsB <- 0,
  MaxNet <- 2, MaxLoss <- 0, MaxDouble <- 0

\* Ids of two bits, which wrap around.
Wrapping == INSTANCE Rudp WITH
  GENERAL_PACKAGE <- 1, send_delay <- 2, expired <- 2, Wide <- 4, Heartbeats <- FALSE,
  Reorder <- FALSE, Drained <- TRUE, SendsA <- 6, SendsB <- 0,
  MaxNet <- 2, MaxLoss <- 1, MaxDouble <- 0

\* One direction, and packages of one message.
Losing == INSTANCE Rudp WITH
  GENERAL_PACKAGE <- 1, send_delay <- 1, expired <- 2, Wide <- 65536, Heartbeats <- FALSE,
  Reorder <- FALSE, Drained <- TRUE, SendsA <- 3, SendsB <- 0,
  MaxNet <- 3, MaxLoss <- 1, MaxDouble <- 0

\* Packages without data, of one byte and of more than a byte can count.
Mixed(fd) == IF fd = f1 THEN <<0, 3, 1, 1>> ELSE <<1, 2>>
Short(fd) == IF fd = f1 THEN <<1, 2>> ELSE <<2>>
OneChain(fd) == 0   \* all clients are in one chain of the hash table

Packages == INSTANCE Netpack WITH
  Fd <- {f1, f2}, Lengths <- Mixed, HashOf <- OneChain, QUEUESIZE <- 2, Base <- 2,
  maxclient <- 2, MaxBlocked <- 1

\* Three clients where two are allowed.
Clients == INSTANCE Netpack WITH
  Fd <- {f1, f2, f3}, Lengths <- Short, HashOf <- OneChain, QUEUESIZE <- 1, Base <- 2,
  maxclient <- 2, MaxBlocked <- 1

AllInit ==
  /\ on \in {"expiring", "beating", "wrapping", "losing", "packages", "clients"}
  /\ Expiring!Init
  /\ IF on = "clients" THEN Clients!Init ELSE Packages!Init

Datagrams ==
  \/ on = "expiring" /\ Expiring!Next
  \/ on = "beating" /\ Beating!Next
  \/ on = "wrapping" /\ Wrapping!Next
  \/ on = "losing" /\ Losing!Next

AllNext ==
  \/ Datagrams /\ UNCHANGED <<on, netpack>>
  \/ on = "packages" /\ Packages!Next /\ UNCHANGED <<on, rudp>>
  \/ on = "clients" /\ Clients!Next /\ UNCHANGED <<on, rudp>>

AllSpec == AllInit /\ [][AllNext]_<<on, rudp, netpack>>

-----------------------------------------------------------------------------
\* rudp.c: messages are handed over in order and once, a message is reported
\* missing only when the other end no longer has it, and no assertion fails,
\* whatever the network loses, doubles and reorders and the ids wrap.
DatagramsKeep ==
  /\ on = "expiring" => Expiring!TypeOK /\ Expiring!MissingExpired
  /\ Expiring!InOrder
  /\ on = "losing" => Losing!AssertHolds

\* netpack and gateserver.lua: wherever the stream is cut and whichever handler
\* blocks, each client's packages are handled whole, in order and all of them,
\* and a client that leaves takes his half package and his place with him.
PackagesKeep ==
  /\ on = "packages" => Packages!TypeOK /\ Packages!AllHandled
  /\ IF on = "clients" THEN Clients!AsSent /\ Clients!NoneForgotten /\ Clients!ClientsCounted
     ELSE Packages!AsSent /\ Packages!NoneForgotten
=============================================================================
