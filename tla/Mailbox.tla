------------------------------ MODULE Mailbox ------------------------------
(***************************************************************************)
(* What the runtime promises to a service (an actor): a FIFO mailbox, at   *)
(* most one message being handled at any moment, and, once the service is  *)
(* gone, an error sent back to the source of every message that was        *)
(* accepted and never handled.  Nothing here knows of worker threads,      *)
(* reference counts or the global queue: SkynetDispatch implements this.   *)
(***************************************************************************)
EXTENDS Sequences

CONSTANTS Handle,   \* the addresses services may be given
          Msg,      \* the messages that may be in flight at a time
          System,   \* the source of a message sent by no service (source 0)
          Unused,   \* the source of a message that is not in flight
          None

VARIABLES
  status,    \* the life of a service
  mailbox,   \* messages accepted and not yet handled
  current,   \* the message its handler is working on
  source,    \* the sender of each message in flight
  transit    \* the destination of a message on its way to a mailbox

vars == <<status, mailbox, current, source, transit>>

Init ==
  /\ status = [h \in Handle |-> "none"]
  /\ mailbox = [h \in Handle |-> <<>>]
  /\ current = [h \in Handle |-> None]
  /\ source = [m \in Msg |-> Unused]
  /\ transit = [m \in Msg |-> None]

Open(h) ==
  /\ status[h] = "none"
  /\ status' = [status EXCEPT ![h] = "open"]
  /\ UNCHANGED <<mailbox, current, source, transit>>

\* A message can be addressed to an open service only.
Send(m, from, h) ==
  /\ source[m] = Unused
  /\ status[h] = "open"
  /\ source' = [source EXCEPT ![m] = from]
  /\ transit' = [transit EXCEPT ![m] = h]
  /\ UNCHANGED <<status, mailbox, current>>

\* It may arrive after the service has been retired, never after it closed.
Arrive(m) ==
  LET h == transit[m] IN
  /\ h # None
  /\ status[h] \in {"open", "retired"}
  /\ mailbox' = [mailbox EXCEPT ![h] = Append(@, m)]
  /\ transit' = [transit EXCEPT ![m] = None]
  /\ UNCHANGED <<status, current, source>>

\* The handler takes the oldest message, and only when it is not busy.
Deliver(h) ==
  /\ status[h] \in {"open", "retired"}
  /\ current[h] = None
  /\ mailbox[h] # <<>>
  /\ current' = [current EXCEPT ![h] = Head(mailbox[h])]
  /\ mailbox' = [mailbox EXCEPT ![h] = Tail(@)]
  /\ UNCHANGED <<status, source, transit>>

Finish(h) ==
  /\ current[h] # None
  /\ source' = [source EXCEPT ![current[h]] = Unused]
  /\ current' = [current EXCEPT ![h] = None]
  /\ UNCHANGED <<status, mailbox, transit>>

Retire(h) ==
  /\ status[h] = "open"
  /\ status' = [status EXCEPT ![h] = "retired"]
  /\ UNCHANGED <<mailbox, current, source, transit>>

\* The service is destroyed: not while it handles a message, nor while one
\* is on its way to it.
Close(h) ==
  /\ status[h] = "retired"
  /\ current[h] = None
  /\ \A m \in Msg : transit[m] # h
  /\ status' = [status EXCEPT ![h] = "closed"]
  /\ UNCHANGED <<mailbox, current, source, transit>>

\* A message left in a closed mailbox turns into an error from the dead
\* service to the message's source, or is forgotten if that is not open.
Bounce(h) ==
  LET m == Head(mailbox[h]) IN
  /\ status[h] = "closed"
  /\ mailbox[h] # <<>>
  /\ mailbox' = [mailbox EXCEPT ![h] = Tail(@)]
  /\ \/ /\ source[m] \in Handle
        /\ status[source[m]] = "open"
        /\ transit' = [transit EXCEPT ![m] = source[m]]
        /\ source' = [source EXCEPT ![m] = h]
     \/ /\ source[m] \in Handle => status[source[m]] # "open"
        /\ source' = [source EXCEPT ![m] = Unused]
        /\ UNCHANGED transit
  /\ UNCHANGED <<status, current>>

Forget(h) ==
  /\ status[h] = "closed"
  /\ mailbox[h] = <<>>
  /\ status' = [status EXCEPT ![h] = "gone"]
  /\ UNCHANGED <<mailbox, current, source, transit>>

Next ==
  \/ \E h \in Handle :
       \/ Open(h) \/ Deliver(h) \/ Finish(h) \/ Retire(h)
       \/ Close(h) \/ Bounce(h) \/ Forget(h)
  \/ \E m \in Msg : Arrive(m)
  \/ \E m \in Msg, h \in Handle, from \in Handle \cup {System} : Send(m, from, h)

Spec == Init /\ [][Next]_vars
=============================================================================
