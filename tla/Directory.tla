----------------------------- MODULE Directory -----------------------------
(***************************************************************************)
(* What the handle storage promises: an address book of services.  An      *)
(* address leads to the service it was given to for as long as the service *)
(* is registered, a name to the address it was bound to until the service  *)
(* at that address is retired.                                             *)
(***************************************************************************)
CONSTANTS Address, Name, Context,
          NoContext,   \* what an address not in use leads to
          NoAddress    \* what an unbound name leads to

VARIABLES service,   \* the service at each address
          bound      \* the address of each name

vars == <<service, bound>>

Init ==
  /\ service = [a \in Address |-> NoContext]
  /\ bound = [n \in Name |-> NoAddress]

Register(a, c) ==
  /\ service[a] = NoContext
  /\ \A b \in Address : service[b] # c
  /\ service' = [service EXCEPT ![a] = c]
  /\ UNCHANGED bound

Retire(a) ==
  /\ service[a] # NoContext
  /\ service' = [service EXCEPT ![a] = NoContext]
  /\ bound' = [n \in Name |-> IF bound[n] = a THEN NoAddress ELSE bound[n]]

Bind(n, a) ==
  /\ bound[n] = NoAddress
  /\ bound' = [bound EXCEPT ![n] = a]
  /\ UNCHANGED service

Next ==
  \E a \in Address :
    \/ Retire(a)
    \/ \E c \in Context : Register(a, c)
    \/ \E n \in Name : Bind(n, a)

Spec == Init /\ [][Next]_vars
=============================================================================
