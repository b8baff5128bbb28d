-------------------------------- MODULE Rudp --------------------------------
(***************************************************************************)
(* Messages in order over a network that loses, doubles and reorders       *)
(* packages (rudp.c).  There are no acknowledgements: the receiver asks    *)
(* for the ids it misses below one it has, and the sender keeps what it    *)
(* has sent for some ticks and answers with it, or says that it is missing.*)
(*                                                                         *)
(* A message is known by its number at its sender; its id on the way is    *)
(* that number in sixteen bits.  Times are kept as what has passed since   *)
(* then.  How long a message is matters only for the packages it fits in:  *)
(* a package holds up to GENERAL_PACKAGE items.                            *)
(***************************************************************************)
EXTENDS Integers, Sequences, FiniteSets, SequencesExt

CONSTANTS
  GENERAL_PACKAGE, send_delay, expired,
  Wide,         \* an id on the way is below it: 2^16
  Heartbeats,   \* whether packages of nothing but a heartbeat are sent on
  Reorder,      \* whether packages overtake one another
  Drained,      \* whether the user takes all there is before the next update
  SendsA, SendsB, \* bounds of the model: messages of each end,
  MaxNet,       \* packages under way to an end at a time,
  MaxLoss,      \* packages lost,
  MaxDouble     \* packages doubled

CONSTANTS A, B

End == {A, B}
Peer(e) == IF e = A THEN B ELSE A
MaxSend(e) == IF e = A THEN SendsA ELSE SendsB

Missing == -1

MaxGot == SendsA + SendsB   \* bound of the model: messages received, where heartbeats bring more

VARIABLES
  U,      \* struct rudp of each end
  net,    \* packages under way to each end
  got,    \* what the user of each end has received, Missing for what will never come
  aborted,\* the assertion of request_missing has failed
  lost, doubled

vars == <<U, net, got, aborted, lost, doubled>>

New == [send_queue |-> <<>>, recv_queue |-> <<>>, send_history |-> <<>>, send_again |-> {},
        delay |-> 0, kept |-> 0,   \* since last_send_tick and last_expired_tick
        send_id |-> 0, recv_id_min |-> 0, recv_id_max |-> 0]

Init ==
  /\ U = [e \in End |-> New]
  /\ net = [e \in End |-> <<>>] /\ got = net
  /\ aborted = FALSE /\ lost = 0 /\ doubled = 0

-----------------------------------------------------------------------------

\* Faults: every message asked for is said to be missing; gaps are not asked for.
Reply_none(u, id) == [kind |-> "missing", id |-> id % Wide, val |-> Missing]

Gaps_none(u) == {}

-----------------------------------------------------------------------------
(***************************************************************************)
(* Receiving.                                                              *)
(***************************************************************************)
\* get_id: the id nearest to what was received last.
GetId(u, id16) ==
  LET id == (u.recv_id_max \div Wide) * Wide + id16
      half == Wide \div 2 IN
  IF id < u.recv_id_max - half THEN id + Wide
  ELSE IF id > u.recv_id_max + half THEN id - Wide ELSE id

\* insert_message: at the end, or before the first with a greater id.
Insert(u, id, val) ==
  LET m == [id |-> id, val |-> val]
      greater == {i \in DOMAIN u.recv_queue : u.recv_queue[i].id > id} IN
  IF id < u.recv_id_min THEN u
  ELSE IF id > u.recv_id_max \/ u.recv_queue = <<>>
       THEN [u EXCEPT !.recv_queue = Append(@, m), !.recv_id_max = id]
  ELSE IF greater = {} THEN u
  ELSE [u EXCEPT !.recv_queue = InsertAt(@, CHOOSE i \in greater : \A j \in greater : i <= j, m)]

Item(u, it) ==
  LET id == GetId(u, it.id) IN
  CASE it.kind = "ignore"  -> [u EXCEPT !.send_again = IF @ = {} THEN {u.recv_id_min} ELSE @]
    [] it.kind = "request" -> [u EXCEPT !.send_again = @ \cup {id}]
    [] it.kind \in {"missing", "normal"} -> Insert(u, id, it.val)

Extract(u, package) == FoldLeft(Item, u, package)

-----------------------------------------------------------------------------
(***************************************************************************)
(* Sending.                                                                *)
(***************************************************************************)
\* clear_send_expired, when it is time: what was sent before the last time.
Expire(u) ==
  LET young(m) == m.age <= u.kept IN
  [u EXCEPT !.send_history = SelectSeq(@, young), !.kept = 0]

\* The loop of request_missing, and its assertion.
Sorted(u) ==
  /\ u.recv_queue # <<>> => u.recv_queue[1].id >= u.recv_id_min
  /\ \A i \in 1 .. Len(u.recv_queue) - 1 : u.recv_queue[i + 1].id > u.recv_queue[i].id
Gaps(u) ==
  {id \in u.recv_id_min .. u.recv_id_max :
     /\ \E m \in ToSet(u.recv_queue) : id < m.id
     /\ \A m \in ToSet(u.recv_queue) : id # m.id}

\* The answer of reply_request for an id.
Normal(m) == [kind |-> "normal", id |-> m.id % Wide, val |-> m.id]
Reply(u, id) ==
  IF \E m \in ToSet(u.send_history) : m.id = id
  THEN Normal([id |-> id])
  ELSE [kind |-> "missing", id |-> id % Wide, val |-> Missing]
\* "alreay recv, ignore"
Answered(u) == {id \in u.send_again : id >= u.recv_id_min}

\* One item for each id, in order.
EachUp(item(_), S) == LET ids == SetToSortSeq(S, <) IN [i \in DOMAIN ids |-> item(ids[i])]
Items(u) ==
  LET request(id) == [kind |-> "request", id |-> id % Wide, val |-> Missing]
      reply(id) == Reply(u, id) IN
  EachUp(request, Gaps(u)) \o EachUp(reply, Answered(u)) \o [i \in DOMAIN u.send_queue |-> Normal(u.send_queue[i])]

\* The items in packages.
Packages(s) ==
  [i \in 1 .. (Len(s) + GENERAL_PACKAGE - 1) \div GENERAL_PACKAGE |->
     SubSeq(s, (i - 1) * GENERAL_PACKAGE + 1, Min({i * GENERAL_PACKAGE, Len(s)}))]
Heartbeat == <<<<[kind |-> "ignore", id |-> 0, val |-> Missing]>>>>
OutPackages(u) ==
  IF Items(u) # <<>> THEN Packages(Items(u)) ELSE IF Heartbeats THEN Heartbeat ELSE <<>>

Sent(u) == [u EXCEPT !.send_history = @ \o u.send_queue, !.send_queue = <<>>, !.send_again = {}, !.delay = 0]

-----------------------------------------------------------------------------
(***************************************************************************)
(* rudp_send, rudp_recv and rudp_update.                                   *)
(***************************************************************************)
Send(e) ==
  /\ ~aborted /\ U[e].send_id < MaxSend(e)
  /\ U' = [U EXCEPT ![e].send_id = @ + 1,
                    ![e].send_queue = Append(@, [id |-> U[e].send_id, age |-> 0])]
  /\ UNCHANGED <<net, got, aborted, lost, doubled>>

Popable(u) == u.recv_queue # <<>> /\ Head(u.recv_queue).id = u.recv_id_min

Recv(e) ==
  /\ ~aborted /\ Popable(U[e]) /\ Len(got[e]) < MaxGot
  /\ got' = [got EXCEPT ![e] = Append(@, Head(U[e].recv_queue).val)]
  /\ U' = [U EXCEPT ![e].recv_queue = Tail(@), ![e].recv_id_min = @ + 1]
  /\ UNCHANGED <<net, aborted, lost, doubled>>

Aged(u, tick) ==
  LET older(m) == [m EXCEPT !.age = @ + tick] IN
  [u EXCEPT !.kept = @ + tick, !.delay = IF @ < send_delay THEN @ + tick ELSE @,
            !.send_queue = [i \in DOMAIN @ |-> older(@[i])],
            !.send_history = [i \in DOMAIN @ |-> older(@[i])]]

\* rudp_update with a package, or none; left is what stays under way to e.
Update(e, package, tick, left) ==
  /\ ~aborted /\ (Drained => ~Popable(U[e]))
  /\ \E taken \in {Extract(Aged(U[e], tick), package)} :
     \E u \in {IF taken.kept >= expired THEN Expire(taken) ELSE taken} :
       IF u.delay >= send_delay
       THEN /\ aborted' = ~Sorted(u)
            /\ U' = [U EXCEPT ![e] = Sent(u)]
            /\ \E out \in {IF Sorted(u) THEN OutPackages(u) ELSE <<>>} :
                 /\ Len(net[Peer(e)]) + Len(out) <= MaxNet
                 /\ net' = [net EXCEPT ![e] = left, ![Peer(e)] = @ \o out]
       ELSE /\ U' = [U EXCEPT ![e] = u]
            /\ net' = [net EXCEPT ![e] = left] /\ UNCHANGED aborted
  /\ UNCHANGED <<got, lost, doubled>>

\* Every frame.
Tick(e) == Update(e, <<>>, 1, net[e])

\* "or a new package is coming"
Arrive(e) ==
  \E i \in DOMAIN net[e] :
    /\ Reorder \/ i = 1
    /\ Update(e, net[e][i], 0, RemoveAt(net[e], i))

Lose(e) ==
  /\ lost < MaxLoss /\ net[e] # <<>>
  /\ \E i \in DOMAIN net[e] : net' = [net EXCEPT ![e] = RemoveAt(@, i)]
  /\ lost' = lost + 1
  /\ UNCHANGED <<U, got, aborted, doubled>>

Double(e) ==
  /\ doubled < MaxDouble /\ net[e] # <<>> /\ Len(net[e]) < MaxNet
  /\ \E i \in DOMAIN net[e] : net' = [net EXCEPT ![e] = Append(@, net[e][i])]
  /\ doubled' = doubled + 1
  /\ UNCHANGED <<U, got, aborted, lost>>

Next == \E e \in End : Send(e) \/ Recv(e) \/ Tick(e) \/ Arrive(e) \/ Lose(e) \/ Double(e)

Spec == Init /\ [][Next]_vars

\* Frames go on, the user looks, and what is not lost arrives.
Fairness == \A e \in End : WF_vars(Recv(e)) /\ WF_vars(Tick(e)) /\ SF_vars(Arrive(e))

-----------------------------------------------------------------------------
Entry == [id : 0 .. 2 * Wide, val : Int]
TypeOK ==
  /\ \A e \in End :
       /\ U[e].recv_queue \in Seq(Entry)
       /\ U[e].kept \in 0 .. expired - 1 /\ U[e].delay \in 0 .. send_delay - 1
       /\ \A m \in ToSet(U[e].send_history) : m.age \in 0 .. 2 * expired - 1
       /\ U[e].recv_id_min = Len(got[e])
       /\ Len(net[e]) <= MaxNet
  /\ aborted \in BOOLEAN

\* Whatever the network does, the user gets message after message, each once
\* and none out of its place, but for those that are reported missing.
InOrder == \A e \in End : \A i \in DOMAIN got[e] : got[e][i] \in {i - 1, Missing}

\* "expired": only what the peer has thrown away after its time is reported
\* missing.
MissingExpired ==
  \A e \in End : \A i \in DOMAIN got[e] :
    got[e][i] = Missing =>
      /\ i - 1 < U[Peer(e)].send_id
      /\ \A m \in ToSet(U[Peer(e)].send_queue \o U[Peer(e)].send_history) : m.id # i - 1

\* The assertion of request_missing: the queue is in order, without doubles.
AssertHolds == ~aborted

\* What an end has received gets to its user: the gap before it is closed.
GapCloses ==
  \A e \in End : \A n \in 0 .. MaxSend(Peer(e)) - 1 :
    (\E m \in ToSet(U[e].recv_queue) : m.id = n) ~> U[e].recv_id_min > n

\* A message that was sent reaches the other user, or is reported missing.
Arrives ==
  \A e \in End : \A n \in 1 .. MaxSend(Peer(e)) :
    U[Peer(e)].send_id = n ~> Len(got[e]) >= n
=============================================================================
