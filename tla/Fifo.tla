-------------------------------- MODULE Fifo --------------------------------
(***************************************************************************)
(* A queue of unbounded length: what a service's message queue promises to *)
(* its senders and to the worker that dispatches it.                       *)
(***************************************************************************)
EXTENDS Sequences

CONSTANT Msg

VARIABLE items   \* the messages in the queue, oldest first

Init == items = <<>>

Push(m) == items' = Append(items, m)

Pop == items # <<>> /\ items' = Tail(items)

Next == Pop \/ \E m \in Msg : Push(m)

Spec == Init /\ [][Next]_items
=============================================================================
