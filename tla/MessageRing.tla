---------------------------- MODULE MessageRing ----------------------------
(***************************************************************************)
(* The ring buffer of a message queue (skynet_mq.c): SkynetDispatch takes  *)
(* it for a sequence, this module shows that it is one, through every wrap *)
(* and every expansion, and models the overload warning that goes with it. *)
(* Everything here happens under the queue's lock, except the worker's     *)
(* skynet_mq_overload; only the worker that has the queue calls that or    *)
(* pops, while any thread pushes.                                          *)
(***************************************************************************)
EXTENDS Integers, Sequences

CONSTANTS Msg,           \* messages
          DefaultSize,   \* DEFAULT_QUEUE_SIZE
          Overload,      \* MQ_OVERLOAD
          Garbage,       \* what skynet_malloc leaves in a slot
          MaxLength      \* a bound of the model: the longest backlog

ASSUME SizeAssumption ==
  /\ DefaultSize \in Nat /\ DefaultSize >= 2
  /\ Overload \in Nat /\ Overload >= 1
  /\ MaxLength \in Nat

VARIABLES
  cap, head, tail,       \* the ring is queue[0 .. cap - 1]
  queue,
  overload,              \* a length to warn of, or 0
  threshold,             \* overload_threshold
  warned,                \* the length last warned of since the queue was empty
  pc                     \* the worker, after a pop that took a message:
                         \* "popped" until it has called skynet_mq_overload

ring == <<cap, head, tail, queue>>
vars == <<ring, overload, threshold, warned, pc>>

Init ==
  /\ cap = DefaultSize
  /\ head = 0
  /\ tail = 0
  /\ queue = [i \in 0 .. DefaultSize - 1 |-> Garbage]
  /\ overload = 0
  /\ threshold = Overload
  /\ warned = 0
  /\ pc = "idle"

\* The number of messages between h and t in a ring of n slots, as
\* skynet_mq_length computes it.
Between(h, t, n) == IF h <= t THEN t - h ELSE t + n - h
Length == Between(head, tail, cap)

-----------------------------------------------------------------------------

\* Faults: the copy does not start at the head; a pop that finds the ring empty
\* keeps the threshold.
Expanded_straight(buf, h, n) ==
  [i \in 0 .. 2 * n - 1 |-> IF i < n THEN buf[i] ELSE Garbage]

PopEmpty_kept ==
  /\ pc = "idle"
  /\ head = tail
  /\ warned' = 0
  /\ UNCHANGED <<ring, overload, threshold, pc>>

-----------------------------------------------------------------------------
\* The index after i in a ring of n slots.
After(i, n) == IF i + 1 >= n THEN 0 ELSE i + 1

Store(buf, t, m) == [buf EXCEPT ![t] = m]

\* expand_queue, of a ring that has just become full: the messages in order,
\* from slot 0.
Expanded(buf, h, n) ==
  [i \in 0 .. 2 * n - 1 |-> IF i < n THEN buf[(h + i) % n] ELSE Garbage]

\* skynet_mq_push.
Push(m) ==
  LET stored == Store(queue, tail, m)
      full == After(tail, cap) = head
  IN
  /\ Length < MaxLength
  /\ queue' = IF full THEN Expanded(stored, head, cap) ELSE stored
  /\ head' = IF full THEN 0 ELSE head
  /\ tail' = IF full THEN cap ELSE After(tail, cap)
  /\ cap' = IF full THEN 2 * cap ELSE cap
  /\ UNCHANGED <<overload, threshold, warned, pc>>

\* The threshold doubles until the length n is within it.
Raised(n) ==
  LET double[k \in 0 .. n] ==
        IF k = 0 THEN threshold
        ELSE IF n > double[k - 1] THEN 2 * double[k - 1] ELSE double[k - 1]
  IN double[n]

\* skynet_mq_pop takes a message.
Pop ==
  LET n == Between(After(head, cap), tail, cap) IN
  /\ pc = "idle"
  /\ head # tail
  /\ head' = After(head, cap)
  /\ threshold' = Raised(n)
  /\ overload' = IF n > threshold THEN n ELSE overload
  /\ pc' = "popped"
  /\ UNCHANGED <<cap, tail, queue, warned>>

\* skynet_mq_pop finds the queue empty.
PopEmpty ==
  /\ pc = "idle"
  /\ head = tail
  /\ threshold' = Overload
  /\ warned' = 0
  /\ UNCHANGED <<ring, overload, pc>>

\* skynet_mq_overload, with the warning skynet_context_message_dispatch makes
\* of its result.
ReadOverload ==
  /\ pc = "popped"
  /\ warned' = IF overload # 0 THEN overload ELSE warned
  /\ overload' = 0
  /\ pc' = "idle"
  /\ UNCHANGED <<ring, threshold>>

Next ==
  \/ Pop \/ PopEmpty \/ ReadOverload
  \/ \E m \in Msg : Push(m)

Spec == Init /\ [][Next]_vars

-----------------------------------------------------------------------------
TypeOK ==
  /\ cap \in Nat \ {0, 1}
  /\ head \in 0 .. cap - 1
  /\ tail \in 0 .. cap - 1
  /\ queue \in [0 .. cap - 1 -> Msg \cup {Garbage}]
  /\ overload \in Nat
  /\ threshold \in Nat \ {0}
  /\ warned \in Nat
  /\ pc \in {"idle", "popped"}

\* The messages in a ring of n slots between h and t, oldest first.
Slot(i, h, n) == IF h + i - 1 < n THEN h + i - 1 ELSE h + i - 1 - n
Messages(buf, h, t, n) == [i \in 1 .. Between(h, t, n) |-> buf[Slot(i, h, n)]]

Content == Messages(queue, head, tail, cap)

Queue == INSTANCE Fifo WITH items <- Content

\* Pushes and pops are those of an unbounded FIFO queue: a wrap or an
\* expansion loses, repeats or reorders nothing, and no slot is read that
\* was not written.
ImplementsFifo == Queue!Spec

\* A backlog is announced each time it doubles: when a pop leaves more than
\* MQ_OVERLOAD messages, a length of more than half of that was warned of
\* since the queue was last found empty, or is about to be.
BacklogAnnounced ==
  [][Pop =>
       LET n == Between(head', tail, cap)
           announced == IF overload' # 0 THEN overload' ELSE warned
       IN n > Overload => 2 * announced > n]_vars

\* ... and no more often: a length is warned of only when it exceeds all
\* those warned of since the queue was last found empty.
NoWarningTwice ==
  [][pc = "popped" /\ overload # 0 => overload > warned]_vars
=============================================================================
