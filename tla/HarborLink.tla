----------------------------- MODULE HarborLink -----------------------------
(***************************************************************************)
(* service_harbor.c at both ends of the connection between two nodes.  The *)
(* opener's cslave hands it the socket with "S", the acceptor's with "A",  *)
(* after it has read the opener's id.  Each end sends its id first; the    *)
(* opener waits for the acceptor's.  Until then, and while the receiver of *)
(* a name is not known, messages are queued.                               *)
(*                                                                         *)
(* A message is an item of the stream here; how it is cut into pieces is   *)
(* the subject of HarborStream.                                            *)
(***************************************************************************)
EXTENDS Integers, Sequences, FiniteSets, SequencesExt

CONSTANTS MaxSend,   \* bound on the messages of an end
          Kinds,     \* messages to a "handle" of the other node, to a "name"
          MayBreak,  \* may the connection break
          Ids        \* {TRUE}: the acceptor is the node asked for; FALSE: another

End == {"opener", "acceptor"}
Other(e) == IF e = "opener" THEN "acceptor" ELSE "opener"

VARIABLES
  fd,      \* has slave.fd been set
  status,  \* slave.status; HEADER stands for CONTENT as well
  queue,   \* slave.queue
  value,   \* keyvalue.value of the name: unknown, at the peer, or here
  nameq,   \* keyvalue.queue
  sent,    \* messages of the services of this end, in their order
  wire,    \* written by this end and not read by the other
  got,     \* forwarded to services of this end
  lost,    \* dropped by this end
  errors,  \* PTYPE_ERROR to senders of this end
  broken,  \* is the connection closed
  rightId  \* does the acceptor have the id the opener expects

vars == <<fd, status, queue, value, nameq, sent, wire, got, lost, errors, broken, rightId>>

\* to: is there a handle in the low 24 bits of the destination.
Msg == [from : End, k : 1 .. MaxSend, by : {"handle", "name"}, to : BOOLEAN]
Id == [from |-> "opener", k |-> 0, by |-> "id", to |-> FALSE]

TypeOK ==
  /\ fd \in [End -> BOOLEAN]
  /\ status \in [End -> {"WAIT", "HANDSHAKE", "HEADER", "DOWN"}]
  /\ queue \in [End -> Seq(Msg)] /\ nameq \in [End -> Seq(Msg)]
  /\ value \in [End -> {"unknown", "peer", "self"}]
  /\ wire \in [End -> Seq(Msg \cup {Id})]
  /\ got \in [End -> Seq(Msg)]
  /\ lost \in [End -> SUBSET Msg] /\ errors \in [End -> SUBSET Msg]
  /\ sent \in [End -> Seq({"handle", "name"})]
  /\ broken \in BOOLEAN /\ rightId \in BOOLEAN

Init ==
  /\ fd = [e \in End |-> FALSE] /\ status = [e \in End |-> "WAIT"]
  /\ queue = [e \in End |-> <<>>] /\ nameq = [e \in End |-> <<>>]
  /\ value = [e \in End |-> "unknown"]
  /\ sent = [e \in End |-> <<>>] /\ wire = [e \in End |-> <<>>]
  /\ got = [e \in End |-> <<>>]
  /\ lost = [e \in End |-> {}] /\ errors = [e \in End |-> {}]
  /\ broken = FALSE /\ rightId \in Ids

\* send_remote of several messages: a closed socket takes nothing.
Write(e, items) ==
  IF broken THEN /\ lost' = [lost EXCEPT ![e] = @ \cup (ToSet(items) \ {Id})]
                 /\ UNCHANGED wire
            ELSE /\ wire' = [wire EXCEPT ![e] = @ \o items]
                 /\ UNCHANGED lost

WithHandle(items) == [i \in DOMAIN items |-> [items[i] EXCEPT !.to = TRUE]]
Taken(e) == wire' = [wire EXCEPT ![Other(e)] = Tail(@)]

\* The connection ends; what is on its way is lost, and some of the opener.
Cut(some) ==
  /\ broken' = TRUE
  /\ lost' = [e \in End |-> lost[e] \cup (ToSet(wire[e]) \ {Id})
                                   \cup (IF e = "opener" THEN some ELSE {})]
  /\ wire' = [e \in End |-> <<>>]

(***************************************************************************)
(* Commands of cslave                                                      *)
(***************************************************************************)
\* 'S': the id is sent, the answer awaited.
Open ==
  /\ ~ fd["opener"]
  /\ fd' = [fd EXCEPT !["opener"] = TRUE]
  /\ status' = [status EXCEPT !["opener"] = "HANDSHAKE"]
  /\ Write("opener", <<Id>>)
  /\ UNCHANGED <<queue, value, nameq, sent, got, errors, broken, rightId>>

\* accept_slave has read the id and abandons the socket: what comes before the
\* harbor service starts it is dropped.  'A': id and queue are sent.
Accept ==
  /\ ~ fd["acceptor"] /\ wire["opener"] # <<>>
  /\ fd' = [fd EXCEPT !["acceptor"] = TRUE]
  /\ status' = [status EXCEPT !["acceptor"] = "HEADER"]
  /\ queue' = [queue EXCEPT !["acceptor"] = <<>>]
  /\ \E n \in 1 .. Len(wire["opener"]) :
       /\ wire' = [wire EXCEPT !["opener"] = SubSeq(@, n + 1, Len(@)),
                               !["acceptor"] = @ \o <<Id>> \o queue["acceptor"]]
       /\ lost' = [lost EXCEPT !["opener"] = @ \cup ToSet(SubSeq(wire["opener"], 2, n))]
  /\ UNCHANGED <<value, nameq, sent, got, errors, broken, rightId>>

\* 'N', update_name and dispatch_name_queue, for a name at the other node.  On
\* an opener it may come before the socket does: while ready of cslave connects,
\* services run, and their queries are answered.
NameAtPeer(e) ==
  /\ value[e] = "unknown" /\ (e = "acceptor" => fd[e])
  /\ value' = [value EXCEPT ![e] = "peer"]
  /\ nameq' = [nameq EXCEPT ![e] = <<>>]
  /\ IF ~ fd[e]
       THEN /\ queue' = [queue EXCEPT ![e] = @ \o nameq[e]]
            /\ UNCHANGED <<wire, lost>>
       ELSE /\ Write(e, WithHandle(nameq[e]))
            /\ UNCHANGED queue
  /\ UNCHANGED <<fd, status, sent, got, errors, broken, rightId>>

\* 'N' for a name of this node: the queue goes to the handle.
NameHere(e) ==
  /\ value[e] = "unknown"
  /\ value' = [value EXCEPT ![e] = "self"]
  /\ nameq' = [nameq EXCEPT ![e] = <<>>]
  /\ got' = [got EXCEPT ![e] = @ \o WithHandle(nameq[e])]
  /\ UNCHANGED <<fd, status, queue, sent, wire, lost, errors, broken, rightId>>

(***************************************************************************)
(* Messages of the services                                                *)
(***************************************************************************)
\* A fault for mutation: the handshake is not waited for.
ToPeer_soon(e, m) ==
  IF ~ fd[e]
    THEN queue' = [queue EXCEPT ![e] = Append(@, m)] /\ UNCHANGED <<wire, lost, errors>>
    ELSE Write(e, <<m>>) /\ UNCHANGED <<queue, errors>>

\* remote_send_handle to the other node; STATUS_DOWN is looked at only where
\* there is no socket.
ToPeer(e, m) ==
  IF ~ fd[e] \/ status[e] = "HANDSHAKE"
    THEN IF status[e] = "DOWN"
           THEN /\ errors' = [errors EXCEPT ![e] = @ \cup {m}]
                /\ lost' = [lost EXCEPT ![e] = @ \cup {m}]
                /\ UNCHANGED <<queue, wire>>
           ELSE /\ queue' = [queue EXCEPT ![e] = Append(@, m)]
                /\ UNCHANGED <<wire, lost, errors>>
    ELSE Write(e, <<m>>) /\ UNCHANGED <<queue, errors>>

Sends(e, kind) ==
  /\ kind \in Kinds /\ Len(sent[e]) < MaxSend
  /\ sent' = [sent EXCEPT ![e] = Append(@, kind)]
NextMsg(e, kind, to) == [from |-> e, k |-> Len(sent[e]) + 1, by |-> kind, to |-> to]

SendHandle(e) ==
  /\ Sends(e, "handle")
  /\ ToPeer(e, NextMsg(e, "handle", TRUE))
  /\ UNCHANGED <<fd, status, value, nameq, got, broken, rightId>>

\* remote_send_name
SendName(e) ==
  /\ Sends(e, "name")
  /\ \/ /\ value[e] = "unknown"
        /\ nameq' = [nameq EXCEPT ![e] = Append(@, NextMsg(e, "name", FALSE))]
        /\ UNCHANGED <<queue, wire, got, lost, errors>>
     \/ /\ value[e] = "peer"
        /\ ToPeer(e, NextMsg(e, "name", TRUE))
        /\ UNCHANGED <<nameq, got>>
     \/ /\ value[e] = "self"
        /\ got' = [got EXCEPT ![e] = Append(@, NextMsg(e, "name", TRUE))]
        /\ UNCHANGED <<nameq, queue, wire, lost, errors>>
  /\ UNCHANGED <<fd, status, value, broken, rightId>>

\* STATUS_HANDSHAKE: the id is the one expected, and the queue is sent.
Shaken ==
  /\ status["opener"] = "HANDSHAKE" /\ wire["acceptor"] # <<>> /\ rightId
  /\ status' = [status EXCEPT !["opener"] = "HEADER"]
  /\ queue' = [queue EXCEPT !["opener"] = <<>>]
  /\ wire' = [wire EXCEPT !["acceptor"] = Tail(@), !["opener"] = @ \o queue["opener"]]
  /\ UNCHANGED <<fd, value, nameq, sent, got, lost, errors, broken, rightId>>

\* STATUS_HANDSHAKE: it is not; close_harbor.  The fd stays.
WrongId ==
  /\ status["opener"] = "HANDSHAKE" /\ wire["acceptor"] # <<>> /\ ~ rightId
  /\ status' = [status EXCEPT !["opener"] = "DOWN"]
  /\ queue' = [queue EXCEPT !["opener"] = <<>>]
  /\ Cut(ToSet(queue["opener"]))
  /\ UNCHANGED <<fd, value, nameq, sent, got, errors, rightId>>

\* forward_local_messsage
Receive(e) ==
  /\ fd[e] /\ status[e] = "HEADER" /\ wire[Other(e)] # <<>>
  /\ got' = [got EXCEPT ![e] = Append(@, Head(wire[Other(e)]))]
  /\ Taken(e)
  /\ UNCHANGED <<fd, status, queue, value, nameq, sent, lost, errors, broken, rightId>>

\* The connection breaks: report_harbor_down changes nothing here.
Break ==
  /\ MayBreak /\ ~ broken /\ fd["opener"]
  /\ Cut({})
  /\ UNCHANGED <<fd, status, queue, value, nameq, sent, got, errors, rightId>>

Deliver == Accept \/ Shaken \/ WrongId \/ \E e \in End : Receive(e)
Next ==
  \/ Open \/ Deliver \/ Break
  \/ \E e \in End : NameAtPeer(e) \/ NameHere(e) \/ SendHandle(e) \/ SendName(e)

\* cslave hands over the socket, and what is written is read.
Spec == Init /\ [][Next]_vars /\ WF_vars(Open) /\ WF_vars(Deliver)

(***************************************************************************)
(* Properties                                                              *)
(***************************************************************************)
HandleAt(s, i) == s[i].by = "handle"
Handles(s) == {s[i].k : i \in {j \in DOMAIN s : HandleAt(s, j)}}
Ascending(s) ==
  \A i, j \in DOMAIN s : i < j /\ HandleAt(s, i) /\ HandleAt(s, j) => s[i].k < s[j].k

\* Messages sent to a handle arrive once and in their order, across the queue,
\* the two handshakes and the hand-over of the socket from cslave, as long as
\* the connection holds.
HandleOrder ==
  ~ broken => \A e \in End :
    LET way == got[Other(e)] \o wire[e] \o queue[e]
    IN Ascending(way) /\ Handles(way) = {k \in DOMAIN sent[e] : sent[e][k] = "handle"}

\* No message is twice in the queues, on the way or received, and one that is
\* nowhere there has been counted as lost or was lost with the connection.
NoneForgotten ==
  \A e \in End, k \in 1 .. MaxSend :
    LET where == queue[e] \o nameq[e] \o wire[e] \o got[e] \o got[Other(e)]
    IN k <= Len(sent[e]) =>
         Cardinality({i \in DOMAIN where : where[i].from = e /\ where[i].k = k})
           = IF \E m \in lost[e] : m.k = k THEN 0 ELSE 1

\* Once the connection is up nothing stays in its queue.
UpMeansSent == \A e \in End : status[e] = "HEADER" => queue[e] = <<>>

\* Every message to a handle arrives, if the connection holds.
Arrives ==
  \A k \in 1 .. MaxSend :
    (Len(sent["opener"]) >= k /\ sent["opener"][k] = "handle")
      ~> \E i \in DOMAIN got["acceptor"] : got["acceptor"][i].k = k
=============================================================================
