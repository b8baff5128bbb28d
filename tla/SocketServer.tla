---------------------------- MODULE SocketServer ----------------------------
(***************************************************************************)
(* The TCP sockets of skynet-src/socket_server.c.  Worker threads reserve  *)
(* slots, put requests into a pipe, and write to a connected socket        *)
(* themselves when they find nothing queued before them; the socket thread *)
(* handles the requests and the events of epoll, and is the only one that  *)
(* frees a slot.  The fields of a slot are read by the workers one by one, *)
(* without the lock (dw_lock) or with it: the reads of can_direct_write    *)
(* are taken in two steps, in the order of the code.                       *)
(*   A message is [id, by, no] and has two bytes, written <<m, 1>> and     *)
(* <<m, 2>>; the lists of buffers are sequences of the bytes not yet sent. *)
(* The peer and the kernel are external: writing takes any part of what is *)
(* offered, or fails, and a peer may leave.                                *)
(*   The 16 bits of tag in s->sending are the whole id here.               *)
(***************************************************************************)
EXTENDS Integers, Sequences, FiniteSets

CONSTANTS
  Worker,
  MAX_SOCKET,
  MaxId,         \* bound of the model: ids ever reserved
  MaxSend,       \* bound of the model: messages of each worker
  MaxClose,      \* bound of the model: close requests of each worker
  Openings,      \* bound of the model: what slots are reserved for
  Lows,          \* bound of the model: the priorities of messages, as booleans (low)
  Faults,        \* whether writes fail and peers leave
  None

Id == 1 .. MaxId
Slot == 0 .. MAX_SOCKET - 1
HASH_ID(id) == id % MAX_SOCKET

Message == [id : Id, by : Worker, no : 1 .. MaxSend]
Byte == Message \X {1, 2}
Bytes(m) == <<<<m, 1>>, <<m, 2>>>>

VARIABLES
  slot,        \* struct socket
  alloc_id,
  pipe,
  worker,      \* what each worker thread is doing
  server,      \* what the socket thread is doing
  checkctrl,
  events,      \* ev[event_index .. event_n)
  peer,        \* of each id: whether the other side is gone
  wire,        \* of each id: the bytes that its file descriptor accepted
  told,        \* of each id: the messages about it that services got
  sent,        \* of each worker: the messages of which send returned 0
  tries, asked, \* of each worker: the messages and closes it began
  due,         \* of each id: what its first closer had sent before, or None
  ended,       \* of each id: how its connection ended
  broken       \* the function of which an assert failed, or None

vars == <<slot, alloc_id, pipe, worker, server, checkctrl, events, peer, wire, told, sent,
          tries, asked, due, ended, broken>>
outside == <<peer, sent, tries, asked, due>>

Type == {"INVALID", "RESERVE", "PLISTEN", "LISTEN", "CONNECTING", "CONNECTED",
         "HALFCLOSE", "PACCEPT", "BIND"}
Request == [op : {"O", "L", "B", "S", "K", "D", "P"}, id : Id, m : Message \cup {None},
            shutdown : BOOLEAN]

TypeOK ==
  /\ \A s \in Slot : LET r == slot[s] IN
       /\ r.type \in Type /\ r.id \in Id \cup {0} /\ r.fd \in Id \cup {None}
       /\ r.tag \in Id \cup {0} /\ r.sending \in 0 .. Cardinality(Worker) * MaxSend
       /\ r.high \in Seq(Byte) /\ r.low \in Seq(Byte) /\ r.dw \in Seq(Byte)
       /\ r.lock \in Worker \cup {None}
       /\ r.tcp \in BOOLEAN /\ r.polled \in BOOLEAN /\ r.watch \in BOOLEAN
  /\ alloc_id \in 0 .. MaxId
  /\ pipe \in Seq(Request)
  /\ \A e \in 1 .. Len(events) : events[e] \in [slot : Slot, read : BOOLEAN, write : BOOLEAN]
  /\ peer \in [Id -> {"here", "gone"}]
  /\ \A id \in Id : wire[id] \in Seq(Byte) /\ told[id] \subseteq {"open", "accept", "listen", "bind", "close", "err"}
  /\ ended \in [Id -> {"no", "drained", "cut"}]
  /\ broken \in {None, "force_close", "new_fd", "dec_sending_ref"}

Idle == [pc |-> "idle"]
Poll == [pc |-> "poll"]

Init ==
  /\ slot = [s \in Slot |->
       [type |-> "INVALID", id |-> 0, tcp |-> FALSE, fd |-> None, tag |-> 0, sending |-> 0,
        high |-> <<>>, low |-> <<>>, dw |-> <<>>, lock |-> None, polled |-> FALSE, watch |-> FALSE]]
  /\ alloc_id = 0 /\ pipe = <<>>
  /\ worker = [w \in Worker |-> Idle]
  /\ server = Poll /\ checkctrl = TRUE /\ events = <<>>
  /\ peer = [id \in Id |-> "here"]
  /\ wire = [id \in Id |-> <<>>]
  /\ told = [id \in Id |-> {}]
  /\ sent = [w \in Worker |-> {}]
  /\ tries = [w \in Worker |-> 0] /\ asked = [w \in Worker |-> 0]
  /\ due = [id \in Id |-> None]
  /\ ended = [id \in Id |-> "no"]
  /\ broken = None

-----------------------------------------------------------------------------
Empty(r) == r.high = <<>> /\ r.low = <<>>
nomore_sending_data(r) == Empty(r) /\ r.dw = <<>> /\ r.sending = 0

\* The reads of can_direct_write, in the order of the code.
LooksIdle(r, id) == r.id = id /\ Empty(r) /\ r.dw = <<>>
LooksReady(r) == r.sending = 0 /\ r.type = "CONNECTED"

Prefix(q, n) == SubSeq(q, 1, n)
Rest(q, n) == SubSeq(q, n + 1, Len(q))
AtMost(n, k) == IF n < k THEN n ELSE k

(***************************************************************************)
(* Faults: forms that definitions below might have had.                    *)
(***************************************************************************)
MustWait_not(r) == FALSE
Watched_not(r) == r

-----------------------------------------------------------------------------
(***************************************************************************)
(* Worker threads.                                                         *)
(***************************************************************************)
ServerAt(pc) == server.pc = pc /\ broken = None
Known(id) == told[id] # {}
At(w, pc) == worker[w].pc = pc /\ broken = None
Goto(w, pc) == worker' = [worker EXCEPT ![w].pc = pc]
Post(req) == pipe' = Append(pipe, req)
Req(op, id) == [op |-> op, id |-> id, m |-> None, shutdown |-> FALSE]

NextFree == {id \in alloc_id + 1 .. alloc_id + MAX_SOCKET : slot[HASH_ID(id)].type = "INVALID"}
Least(S) == CHOOSE x \in S : \A y \in S : x <= y

\* reserve_id marks the slot, and names it afterwards.  op: what it is for.
Reserve(w, op) ==
  /\ At(w, "idle") /\ NextFree # {} /\ Least(NextFree) <= MaxId
  /\ LET id == Least(NextFree) IN
       /\ alloc_id' = id
       /\ slot' = [slot EXCEPT ![HASH_ID(id)].type = "RESERVE"]
       /\ worker' = [worker EXCEPT ![w] = [pc |-> "reserved", id |-> id, op |-> op]]
  /\ UNCHANGED <<pipe, server, checkctrl, events, wire, told, ended, broken, outside>>

Reserved(r, id) == [r EXCEPT !.id = id, !.tcp = FALSE, !.fd = None]

\* The rest of reserve_id, and the request of connect, listen or bind.
Named(w) ==
  /\ At(w, "reserved")
  /\ LET id == worker[w].id IN
       slot' = [slot EXCEPT ![HASH_ID(id)] = Reserved(slot[HASH_ID(id)], id)]
  /\ Goto(w, "request")
  /\ UNCHANGED <<alloc_id, pipe, server, checkctrl, events, wire, told, ended, broken, outside>>

Open(w) ==
  /\ At(w, "request")
  /\ Post(Req(worker[w].op, worker[w].id))
  /\ IF worker[w].op = "L" THEN told' = [told EXCEPT ![worker[w].id] = {"accept"}]
     ELSE UNCHANGED told
  /\ worker' = [worker EXCEPT ![w] = Idle]
  /\ UNCHANGED <<slot, alloc_id, server, checkctrl, events, wire, ended, broken, outside>>

\* socket_server_start: of what was accepted, or listens, or was opened.
Start(w, id) ==
  /\ At(w, "idle") /\ told[id] = {"accept"}
  /\ \A i \in 1 .. Len(pipe) : ~(pipe[i].op = "S" /\ pipe[i].id = id)
  /\ Post(Req("S", id))
  /\ UNCHANGED <<slot, alloc_id, worker, server, checkctrl, events, wire, told, ended, broken, outside>>

\* socket_server_close and socket_server_shutdown.
Close(w, id, shutdown) ==
  /\ At(w, "idle") /\ Known(id) /\ asked[w] < MaxClose
  /\ Post([Req("K", id) EXCEPT !.shutdown = shutdown])
  /\ asked' = [asked EXCEPT ![w] = @ + 1]
  /\ due' = [due EXCEPT ![id] =
       IF @ = None THEN {m \in sent[w] : m.id = id} ELSE @]
  /\ UNCHANGED <<slot, alloc_id, worker, server, checkctrl, events, peer, wire, told, sent, tries,
                 ended, broken>>

MessageOf(w) == [id |-> worker[w].id, by |-> w, no |-> tries[w]]
Accepted(w) == sent' = [sent EXCEPT ![w] = @ \cup {MessageOf(w)}]

\* socket_server_send and socket_server_send_lowpriority, up to the first return.
Send(w, id, low) ==
  /\ At(w, "idle") /\ "open" \in told[id] /\ tries[w] < MaxSend
  /\ tries' = [tries EXCEPT ![w] = @ + 1]
  /\ LET r == slot[HASH_ID(id)] IN
       IF r.id # id \/ r.type = "INVALID" THEN UNCHANGED worker
       ELSE worker' = [worker EXCEPT ![w] =
              [pc |-> IF low THEN "refer" ELSE "look", id |-> id, low |-> low]]
  /\ UNCHANGED <<slot, alloc_id, pipe, server, checkctrl, events, peer, wire, told, sent, asked, due,
                 ended, broken>>

Mine(w) == slot[HASH_ID(worker[w].id)]
SetMine(w, r) == slot' = [slot EXCEPT ![HASH_ID(worker[w].id)] = r]
quiet == <<alloc_id, server, checkctrl, events, told, ended, broken, peer, tries, asked, due>>

Look(w) ==
  /\ At(w, "look")
  /\ Goto(w, IF LooksIdle(Mine(w), worker[w].id) THEN "look2" ELSE "refer")
  /\ UNCHANGED <<slot, pipe, wire, sent, quiet>>
Look2(w) ==
  /\ At(w, "look2")
  /\ Goto(w, IF LooksReady(Mine(w)) THEN "trylock" ELSE "refer")
  /\ UNCHANGED <<slot, pipe, wire, sent, quiet>>

\* trylock, and the first reads of the second check.
TryLock(w) ==
  /\ At(w, "trylock")
  /\ IF Mine(w).lock = None /\ LooksIdle(Mine(w), worker[w].id)
     THEN SetMine(w, [Mine(w) EXCEPT !.lock = w]) /\ Goto(w, "check2")
     ELSE UNCHANGED slot /\ Goto(w, "refer")
  /\ UNCHANGED <<pipe, wire, sent, quiet>>
Check2(w) ==
  /\ At(w, "check2")
  /\ IF LooksReady(Mine(w)) THEN Goto(w, "write") /\ UNCHANGED slot
     ELSE SetMine(w, [Mine(w) EXCEPT !.lock = None]) /\ Goto(w, "refer")
  /\ UNCHANGED <<pipe, wire, sent, quiet>>

Watched(r) == [r EXCEPT !.watch = TRUE]

\* The direct write: an error counts as nothing written.
DirectWrite(w) ==
  /\ At(w, "write")
  /\ \E n \in 0 .. 2 :
       LET all == Bytes(MessageOf(w))
           r == [Mine(w) EXCEPT !.lock = None] IN
       /\ wire' = [wire EXCEPT ![Mine(w).fd] = @ \o Prefix(all, n)]
       /\ SetMine(w, IF n = 2 THEN r ELSE Watched([r EXCEPT !.dw = Rest(all, n)]))
  /\ Accepted(w)
  /\ worker' = [worker EXCEPT ![w] = Idle]
  /\ UNCHANGED <<pipe, quiet>>

Referred(r, id) == IF r.tcp /\ r.tag = id THEN [r EXCEPT !.sending = @ + 1] ELSE r

\* inc_sending_ref, and then the request.
Refer(w) ==
  /\ At(w, "refer")
  /\ SetMine(w, Referred(Mine(w), worker[w].id))
  /\ Goto(w, "post")
  /\ UNCHANGED <<pipe, wire, sent, quiet>>
PostSend(w) ==
  /\ At(w, "post")
  /\ Post([op |-> IF worker[w].low THEN "P" ELSE "D", id |-> worker[w].id, m |-> MessageOf(w),
           shutdown |-> FALSE])
  /\ Accepted(w)
  /\ worker' = [worker EXCEPT ![w] = Idle]
  /\ UNCHANGED <<slot, wire, quiet>>

-----------------------------------------------------------------------------
(***************************************************************************)
(* The socket thread.                                                      *)
(***************************************************************************)
Tell(id, what) == told' = [told EXCEPT ![id] = @ \cup {what}]
Set(s, r) == slot' = [slot EXCEPT ![s] = r]
Closed(r) == [r EXCEPT !.type = "INVALID", !.high = <<>>, !.low = <<>>, !.dw = <<>>,
                       !.polled = FALSE, !.watch = FALSE]

\* force_close up to the lock.  What is INVALID already is left alone.
ForceClose(s, r, id, what, how, ctrl) ==
  IF r.type = "RESERVE"
  THEN broken' = "force_close" /\ UNCHANGED <<slot, server>>
  ELSE /\ Set(s, [r EXCEPT !.high = <<>>, !.low = <<>>, !.polled = FALSE, !.watch = FALSE])
       /\ server' = [pc |-> "closing", slot |-> s, id |-> id, what |-> what, how |-> how, ctrl |-> ctrl]
       /\ UNCHANGED broken

After(s, id, ctrl) ==
  server' = IF ctrl THEN [pc |-> "clear", slot |-> s, id |-> id] ELSE Poll

\* The rest of force_close, under the lock.
FinishClose ==
  /\ ServerAt("closing")
  /\ slot[server.slot].lock = None
  /\ Set(server.slot, Closed(slot[server.slot]))
  /\ Tell(server.id, server.what)
  /\ ended' = [ended EXCEPT ![slot[server.slot].id] = server.how]
  /\ After(server.slot, server.id, server.ctrl)
  /\ UNCHANGED <<alloc_id, pipe, worker, checkctrl, events, wire, broken, outside>>

Stale(e) == e.slot = server.slot /\ slot[e.slot].type = "INVALID" /\ slot[e.slot].id = server.id

clear_closed_event ==
  /\ ServerAt("clear")
  /\ events' = SelectSeq(events, LAMBDA e : ~Stale(e))
  /\ server' = Poll
  /\ UNCHANGED <<slot, alloc_id, pipe, worker, checkctrl, wire, told, ended, broken, outside>>

(***************************************************************************)
(* send_buffer when the lock is free: the direct write's rest is put first *)
(* and the kernel takes n bytes of the high list and then of the low one.  *)
(***************************************************************************)
Spliced(r) == [r EXCEPT !.high = r.dw \o r.high, !.dw = <<>>]

\* Step 3: what is begun of the low list moves to the empty high list.
Raised(r) ==
  IF r.low # <<>> /\ r.low[1][2] = 2
  THEN [r EXCEPT !.high = <<r.low[1]>>, !.low = Tail(@)] ELSE r

Taken(r, n) ==
  LET k == AtMost(n, Len(r.high))
      q == [r EXCEPT !.high = Rest(@, k), !.low = Rest(@, n - k)] IN
  IF q.high = <<>> THEN Raised(q) ELSE q

\* What a send_buffer may do: the slot after it, what was written, whether it closed, and how.
SendBuffer(r) ==
  IF r.lock # None THEN {[r |-> r, out |-> <<>>, how |-> "no"]}
  ELSE LET q == Spliced(r)
           all == q.high \o q.low
           outcome(n) ==
             LET t == Taken(q, n) IN
             IF ~Empty(t) THEN [r |-> t, out |-> Prefix(all, n), how |-> "no"]
             ELSE IF t.type = "HALFCLOSE"
                  THEN [r |-> Closed(t), out |-> all, how |-> "drained"]
                  ELSE [r |-> [t EXCEPT !.watch = FALSE], out |-> all, how |-> "no"]
       IN {outcome(n) : n \in 0 .. Len(all)}
          \cup {[r |-> Closed(q), out |-> Prefix(all, n), how |-> "cut"] :
                  n \in IF Faults THEN 0 .. Len(all) - 1 ELSE {}}

\* A slot that was reserved has no descriptor yet, or one that is closed: using it fails.
NoFd(r) == IF r.fd = None THEN TRUE ELSE ended[r.fd] # "no"
Sends(r) ==
  IF NoFd(r) /\ ~Empty(r) THEN {[r |-> r, out |-> <<>>, how |-> "cut"]} ELSE SendBuffer(r)

\* force_close inside send_buffer, which has the lock.
EndedBy(s, o) ==
  IF slot[s].type = "RESERVE" THEN broken' = "force_close" /\ UNCHANGED <<slot, told, ended>>
  ELSE /\ Set(s, Closed(o.r)) /\ Tell(slot[s].id, "close")
       /\ ended' = [ended EXCEPT ![slot[s].id] = o.how]
       /\ UNCHANGED broken

Written(r, out) ==
  IF out = <<>> THEN UNCHANGED wire ELSE wire' = [wire EXCEPT ![r.fd] = @ \o out]

-----------------------------------------------------------------------------
\* The next request, which applies to the slot of its id.
Ctrl(op) ==
  /\ ServerAt("poll") /\ checkctrl /\ pipe # <<>> /\ Head(pipe).op = op
  /\ pipe' = Tail(pipe)
  /\ UNCHANGED <<alloc_id, worker, checkctrl, events, outside>>
cid == Head(pipe).id
cs == HASH_ID(cid)
Gone(r) == r.type = "INVALID" \/ r.id # cid
still == <<server, wire, ended>>

\* new_fd, for a type: what it asserts, and what it sets.
NewFd(r, id, type, polled) ==
  [r EXCEPT !.type = type, !.id = id, !.fd = id, !.tcp = TRUE, !.tag = id, !.sending = 0,
            !.dw = <<>>, !.polled = polled, !.watch = (type = "CONNECTING")]
NewFdHolds(r) == r.type = "RESERVE" /\ Empty(r)
BreakNewFd == broken' = "new_fd" /\ UNCHANGED <<slot, told>>

\* open_socket: it fails, is connected at once or later; so do listen_socket and bind_socket.
open_socket ==
  /\ Ctrl("O") /\ UNCHANGED still
  /\ \/ NewFdHolds(slot[cs]) /\ UNCHANGED broken
        /\ \/ Set(cs, NewFd(slot[cs], cid, "CONNECTED", TRUE)) /\ Tell(cid, "open")
           \/ Set(cs, NewFd(slot[cs], cid, "CONNECTING", TRUE)) /\ UNCHANGED told
     \/ ~NewFdHolds(slot[cs]) /\ BreakNewFd
     \/ Faults /\ Set(cs, [slot[cs] EXCEPT !.type = "INVALID"]) /\ Tell(cid, "err") /\ UNCHANGED broken

listen_socket ==
  /\ Ctrl("L") /\ UNCHANGED still
  /\ IF NewFdHolds(slot[cs])
     THEN Set(cs, NewFd(slot[cs], cid, "PLISTEN", FALSE)) /\ UNCHANGED <<told, broken>>
     ELSE BreakNewFd

bind_socket ==
  /\ Ctrl("B") /\ UNCHANGED still
  /\ IF NewFdHolds(slot[cs])
     THEN Set(cs, NewFd(slot[cs], cid, "BIND", TRUE)) /\ Tell(cid, "bind") /\ UNCHANGED broken
     ELSE BreakNewFd

start_socket ==
  /\ Ctrl("S") /\ UNCHANGED <<wire, ended>>
  /\ LET r == slot[cs] IN
     IF Gone(r) THEN Tell(cid, "err") /\ UNCHANGED <<slot, server, broken>>
     ELSE IF r.type \in {"PACCEPT", "PLISTEN"}
     THEN \/ /\ Set(cs, [r EXCEPT !.polled = TRUE,
                           !.type = IF r.type = "PACCEPT" THEN "CONNECTED" ELSE "LISTEN"])
             /\ Tell(cid, IF r.type = "PACCEPT" THEN "open" ELSE "listen")
             /\ UNCHANGED <<server, broken>>
          \/ Faults /\ ForceClose(cs, r, cid, "err", "cut", TRUE) /\ UNCHANGED told
     ELSE /\ IF r.type = "CONNECTED" THEN Tell(cid, "open") ELSE UNCHANGED told
          /\ UNCHANGED <<slot, server, broken>>

MustWait(r) == ~nomore_sending_data(r)

close_socket ==
  /\ Ctrl("K")
  /\ LET r == slot[cs] IN
     IF Gone(r) THEN /\ Tell(cid, "close") /\ UNCHANGED <<slot, wire, ended, broken>>
                     /\ After(cs, cid, TRUE)
     ELSE \E o \in IF MustWait(r) THEN Sends(r) ELSE {[r |-> r, out |-> <<>>, how |-> "no"]} :
       /\ Written(r, o.out)
       /\ IF o.how # "no"
          THEN EndedBy(cs, o) /\ After(cs, cid, TRUE)
          ELSE /\ UNCHANGED <<told, ended>>
               /\ IF Head(pipe).shutdown \/ ~MustWait(o.r)
                  THEN ForceClose(cs, o.r, cid, "close",
                                  IF Head(pipe).shutdown THEN "cut" ELSE "drained", TRUE)
                  ELSE Set(cs, [o.r EXCEPT !.type = "HALFCLOSE"]) /\ UNCHANGED <<server, broken>>

\* send_socket: what is sent goes to a list, or is dropped.
Queued(r, m, low) ==
  IF Empty(r) /\ r.type = "CONNECTED" THEN Watched([r EXCEPT !.high = Bytes(m)])
  ELSE IF low THEN [r EXCEPT !.low = @ \o Bytes(m)]
  ELSE [r EXCEPT !.high = @ \o Bytes(m)]

Dropped(r) == Gone(r) \/ r.type \in {"HALFCLOSE", "PACCEPT", "PLISTEN", "LISTEN"}

\* send_socket, and then dec_sending_ref.
send_socket ==
  /\ Ctrl("D") \/ Ctrl("P")
  /\ LET req == Head(pipe)
         r == IF Dropped(slot[cs]) THEN slot[cs] ELSE Queued(slot[cs], req.m, req.op = "P") IN
     IF r.id = cid /\ r.tcp
     THEN IF r.sending = 0 THEN Set(cs, r) /\ broken' = "dec_sending_ref"
          ELSE Set(cs, [r EXCEPT !.sending = @ - 1]) /\ UNCHANGED broken
     ELSE Set(cs, r) /\ UNCHANGED broken
  /\ UNCHANGED <<told, still>>

NoMoreCtrl ==
  /\ ServerAt("poll") /\ checkctrl /\ pipe = <<>>
  /\ checkctrl' = FALSE
  /\ UNCHANGED <<slot, alloc_id, pipe, worker, server, events, wire, told, ended, broken, outside>>

-----------------------------------------------------------------------------
\* The events of epoll: who left can be read, and what is watched can be written.
Readable(s) == slot[s].polled /\ slot[s].type # "CONNECTING" /\ slot[s].fd # None
               /\ (peer[slot[s].fd] = "gone" \/ slot[s].type = "LISTEN")
Writable(s) == slot[s].polled /\ slot[s].watch
Event(s, R, W) == [slot |-> s, read |-> s \in R, write |-> s \in W]

\* sp_wait: it sees a subset of what can be read and written, or only the pipe.
sp_wait(R, W) ==
  /\ ServerAt("poll") /\ ~checkctrl /\ events = <<>>
  /\ R \cup W # {} \/ pipe # <<>>
  /\ checkctrl' = TRUE
  /\ \E order \in [1 .. Cardinality(R \cup W) -> R \cup W] :
       /\ \A i, j \in DOMAIN order : order[i] = order[j] => i = j
       /\ events' = [i \in DOMAIN order |-> Event(order[i], R, W)]
  /\ UNCHANGED <<slot, alloc_id, pipe, worker, server, wire, told, ended, broken, outside>>

Wait == \E R \in SUBSET {s \in Slot : Readable(s)}, W \in SUBSET {s \in Slot : Writable(s)} : sp_wait(R, W)

Handle == /\ ServerAt("poll") /\ ~checkctrl /\ events # <<>>
          /\ UNCHANGED <<alloc_id, pipe, worker, checkctrl, outside>>
es == Head(events).slot
Consume == events' = Tail(events)

\* Who waits in the backlog of a listening socket connects: external.
MayConnect == NextFree # {} /\ Least(NextFree) <= MaxId

IgnoreEvent ==
  /\ Handle /\ slot[es].type = "INVALID" /\ Consume
  /\ UNCHANGED <<slot, alloc_id, server, wire, told, ended, broken>>

report_connect ==
  /\ ServerAt("poll") /\ ~checkctrl /\ events # <<>> /\ slot[es].type = "CONNECTING" /\ Consume
  /\ LET r == slot[es] IN
     \/ /\ Set(es, [r EXCEPT !.type = "CONNECTED", !.watch = @ /\ ~nomore_sending_data(r)])
        /\ Tell(r.id, "open") /\ UNCHANGED <<server, broken>>
     \/ Faults /\ ForceClose(es, r, r.id, "err", "cut", FALSE) /\ UNCHANGED told
  /\ UNCHANGED <<alloc_id, pipe, worker, checkctrl, wire, ended, outside>>

\* report_accept: the new socket is reserved and set up by the socket thread itself.
report_accept ==
  /\ ServerAt("poll") /\ ~checkctrl /\ events # <<>> /\ slot[es].type = "LISTEN" /\ Consume
  /\ \/ /\ MayConnect
        /\ LET id == Least(NextFree)
               r == slot[HASH_ID(id)] IN
           /\ alloc_id' = id
           /\ Set(HASH_ID(id), NewFd(Reserved(r, id), id, "PACCEPT", FALSE))
           /\ Tell(id, "accept")
     \/ UNCHANGED <<alloc_id, slot, told>>
  /\ UNCHANGED <<pipe, worker, server, checkctrl, wire, ended, broken, outside>>

Dispatched(r) == r.type \notin {"INVALID", "CONNECTING", "LISTEN"}

ReadFails(r) == IF NoFd(r) THEN TRUE ELSE peer[r.fd] = "gone"

\* forward_message_tcp when the other side is gone, or the descriptor is none.
ReadEnds ==
  /\ Handle /\ Dispatched(slot[es]) /\ Head(events).read /\ Consume
  /\ LET r == slot[es] IN
     /\ ReadFails(r)
     /\ \E what \in {"close", "err"} : ForceClose(es, r, r.id, what, "cut", FALSE)
  /\ UNCHANGED <<wire, told, ended>>

\* Nothing to read after all (EAGAIN): a late event.
ReadNothing ==
  /\ Handle /\ Dispatched(slot[es]) /\ Head(events).read
  /\ ~ReadFails(slot[es])
  /\ events' = IF Head(events).write THEN [events EXCEPT ![1].read = FALSE] ELSE Tail(events)
  /\ UNCHANGED <<slot, server, wire, told, ended, broken>>

send_buffer(o) ==
  /\ Handle /\ Dispatched(slot[es]) /\ ~Head(events).read /\ Head(events).write /\ Consume
  /\ Written(slot[es], o.out)
  /\ IF o.how = "no" THEN Set(es, o.r) /\ UNCHANGED <<told, ended, broken>> ELSE EndedBy(es, o)
  /\ UNCHANGED server

\* The kernel takes all that there is, or something else.
SendEvent == events # <<>> /\ \E o \in Sends(slot[es]) : send_buffer(o)
SendAll == events # <<>> /\ \E o \in Sends(slot[es]) :
             o.how # "cut" /\ Len(o.out) = Len(slot[es].dw \o slot[es].high \o slot[es].low) /\ send_buffer(o)

PeerLeaves(id) ==
  /\ broken = None /\ Faults /\ peer[id] = "here" /\ "open" \in told[id]
  /\ peer' = [peer EXCEPT ![id] = "gone"]
  /\ UNCHANGED <<slot, alloc_id, pipe, worker, server, checkctrl, events, wire, told, sent, tries,
                 asked, due, ended, broken>>

-----------------------------------------------------------------------------
SendStep(w) == Look(w) \/ Look2(w) \/ TryLock(w) \/ Check2(w) \/ DirectWrite(w) \/ Refer(w) \/ PostSend(w)
OpenStep(w) == Named(w) \/ Open(w)
Control == \/ open_socket \/ listen_socket \/ bind_socket \/ start_socket \/ close_socket
           \/ send_socket \/ NoMoreCtrl
Events == \/ Wait \/ IgnoreEvent \/ report_connect \/ report_accept \/ ReadEnds \/ ReadNothing
          \/ SendEvent
Server == FinishClose \/ clear_closed_event \/ Control \/ Events

Begin(w) ==
  \/ \E op \in Openings : Reserve(w, op)
  \/ \E id \in Id : \/ Start(w, id)
                    \/ \E shutdown \in {FALSE, Faults} : Close(w, id, shutdown)
                    \/ \E low \in Lows : Send(w, id, low)

Next ==
  \/ \E w \in Worker : Begin(w) \/ OpenStep(w) \/ SendStep(w)
  \/ Server
  \/ \E id \in Id : PeerLeaves(id)

Spec == Init /\ [][Next]_vars

-----------------------------------------------------------------------------
(***************************************************************************)
(* Every descriptor carries whole messages: whoever writes, and however    *)
(* little the kernel takes, no byte comes between the two of a message.    *)
(* (But when a failure or a shutdown cuts a connection, the lists are      *)
(* freed first, and a worker may still find them empty and write after     *)
(* half a message.)                                                        *)
(***************************************************************************)
Cutting(id) == ended[id] = "cut" \/ (server.pc = "closing" /\ server.id = id /\ server.how = "cut")

NotTorn ==
  \A id \in Id : ~Cutting(id) => \A i \in 1 .. Len(wire[id]) :
    LET q == wire[id] IN
    /\ q[i][2] = 2 => i > 1 /\ q[i - 1] = <<q[i][1], 1>>
    /\ q[i][2] = 1 /\ i < Len(q) => q[i + 1] = <<q[i][1], 2>>

(***************************************************************************)
(* The messages of one sender are written in the order it sent them, if    *)
(* Lows has one element, so that they have the same priority: a direct     *)
(* write never overtakes what the sender gave to the socket thread.        *)
(***************************************************************************)
InOrder ==
  \A id \in Id : \A i, j \in 1 .. Len(wire[id]) :
    LET a == wire[id][i][1]
        b == wire[id][j][1] IN
    a.by = b.by /\ a.no < b.no => i < j

(***************************************************************************)
(* A socket that is closed with socket_server_close has written all that   *)
(* the one who closed it first had sent before, unless it failed.          *)
(***************************************************************************)
DrainedBeforeClose ==
  \A id \in Id : ended[id] = "drained" =>
    \A m \in due[id] : \E i \in 1 .. Len(wire[id]) : wire[id][i] = <<m, 2>>

(***************************************************************************)
(* s->sending counts the messages that are in the pipe for this socket, or *)
(* about to be: close_socket and the direct write rely on it.              *)
(***************************************************************************)
SendingCounts ==
  broken = None =>
    \A s \in Slot : slot[s].type \notin {"INVALID", "RESERVE"} /\ slot[s].tag = slot[s].id =>
      slot[s].sending
        = Cardinality({i \in 1 .. Len(pipe) : pipe[i].op \in {"D", "P"} /\ pipe[i].id = slot[s].id})
          + Cardinality({w \in Worker : At(w, "post") /\ worker[w].id = slot[s].id})

(***************************************************************************)
(* What the asserts of new_fd, force_close and dec_sending_ref say.        *)
(***************************************************************************)
AssertsHold == broken = None

(***************************************************************************)
(* The threads run, epoll shows what can be done again and again, and the  *)
(* kernel takes all that it is offered again and again.                    *)
(***************************************************************************)
Ready == Wait /\ Len(events') = Cardinality({s \in Slot : Readable(s) \/ Writable(s)})

Fairness ==
  /\ \A w \in Worker : WF_vars(OpenStep(w) \/ SendStep(w))
  /\ WF_vars(Server)
  /\ SF_vars(Ready)
  /\ SF_vars(SendAll)

FairSpec == Spec /\ Fairness

\* Nobody begins to send after somebody has asked to close (one id).
Polite == tries' # tries => \A id \in Id : due[id] = None

(***************************************************************************)
(* A close request leads to the end of the connection, though not at once: *)
(* "if s->type == SOCKET_TYPE_HALFCLOSE , SOCKET_CLOSE message will send   *)
(* later".                                                                 *)
(***************************************************************************)
HalfCloseEnds ==
  \A id \in Id : (slot[HASH_ID(id)].type = "HALFCLOSE" /\ slot[HASH_ID(id)].id = id)
                   ~> (ended[id] # "no")
=============================================================================
