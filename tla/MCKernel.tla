------------------------------ MODULE MCKernel ------------------------------
(***************************************************************************)
(* The data structures of the skynet kernel: the ring of a message queue,  *)
(* the handle storage and the timer wheel.  They share no state; on says   *)
(* which of them moves, while the others rest as they began.               *)
(***************************************************************************)
EXTENDS MessageRing, TLC

CONSTANTS
  Context, Event, Null,
  DefaultSlots, HandleMask, FewHandles, Name, OneName,  \* of SkynetHandle
  TIME_NEAR, TIME_LEVEL                                 \* of TimerWheel

VARIABLES
  on,
  slotSize, slot, handleIndex, handle, given, names, status, scan, victim, retired, doomed,
  near, t, time, expire, firing, timerPc

storage == <<slotSize, slot, handleIndex, handle, given, names, status, scan, victim, retired,
             doomed>>
wheel == <<near, t, time, expire, firing, timerPc>>

\* Three services and seven handles: the table grows from two slots to four,
\* in the middle of an ABORT too, and the handles wrap around.
Table == INSTANCE SkynetHandle WITH
  DefaultSize <- DefaultSlots, Launchers <- 1, Name <- OneName

\* Two names of three handles, for services that come and go.
Names == INSTANCE SkynetHandle WITH
  HandleMask <- FewHandles, DefaultSize <- DefaultSlots, Launchers <- 1

\* The storage, with the handles and the names of both.
Handles == INSTANCE SkynetHandle WITH
  DefaultSize <- DefaultSlots, Launchers <- 1

\* Two timeouts in a wheel; with two lists per level a time has five bits.
Wheel == INSTANCE TimerWheel WITH pc <- timerPc

AllInit ==
  /\ on \in {"ring", "table", "names", "wheel"}
  /\ Init /\ Handles!Init /\ Wheel!Init

AllNext ==
  \/ on = "ring" /\ Next /\ UNCHANGED <<on, storage, wheel>>
  \/ on = "table" /\ Table!Next /\ UNCHANGED <<on, vars, wheel>>
  \/ on = "names" /\ Names!Next /\ UNCHANGED <<on, vars, wheel>>
  \/ on = "wheel" /\ Wheel!Next /\ UNCHANGED <<on, vars, storage>>

AllSpec == AllInit /\ [][AllNext]_<<on, vars, storage, wheel>>

\* A handle has 24 bits beside those of the harbor; names are compared.
ASSUME HandleAssumption ==
  /\ HandleMask \in 1 .. 2 ^ 24 - 1 /\ FewHandles \in 1 .. HandleMask
  /\ DefaultSlots \in Handles!PowersOfTwo
  /\ Name \subseteq Int /\ OneName \subseteq Name
  /\ Null \notin Context

\* A digit of the time has at least two values.
ASSUME WheelAssumption == TIME_NEAR \in Nat \ {0} /\ TIME_LEVEL \in Nat \ {0, 1}

\* Messages, services and timeouts are interchangeable among themselves.
Symmetry == Permutations(Msg) \cup Permutations(Context) \cup Permutations(Event)

-----------------------------------------------------------------------------
\* skynet_mq.c: each time the backlog doubles it is announced, once, with the
\* length it has, and no announcement is left over for an empty queue.
BacklogToldOnce == []TypeOK /\ BacklogAnnounced /\ NoWarningTwice

\* skynet_handle.c: a registration fails only when the handles have wrapped
\* around, and a pass of skynet_handle_retireall comes to every service that was
\* there when it began, though the table may grow under it.
StorageHolds ==
  []Handles!TypeOK /\ [](on = "table" => Table!FailsOnlyWrapping) /\ Handles!PassCovers

\* Handles and names lead to the services a directory would give.
ImplementsDirectory == Handles!ImplementsDirectory

\* skynet_timer.c: every timeout fires in its tick, in order, also where the
\* time wraps around; none is left in a slot the wheel has passed.
ImplementsTimer == [](Wheel!TypeOK /\ Wheel!NothingLeftBehind) /\ Wheel!ImplementsTimer
=============================================================================
