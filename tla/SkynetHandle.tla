---------------------------- MODULE SkynetHandle ----------------------------
(***************************************************************************)
(* The handle storage (skynet_handle.c): an open table of contexts indexed *)
(* by the low bits of their handles, a sorted array of names, and the      *)
(* retirement of all services (the ABORT command).  Each function runs     *)
(* under the storage's write or read lock, but a context gets to know its  *)
(* own handle only after skynet_handle_register has returned               *)
(* (skynet_context_new), and skynet_handle_retireall locks a slot at a     *)
(* time.  Handles are those of harbor 0; one ABORT runs at a time.         *)
(***************************************************************************)
EXTENDS Integers, Sequences, FiniteSets, SequencesExt

CONSTANTS Context,      \* services, one after the other in the same memory
          HandleMask,   \* HANDLE_MASK
          DefaultSize,  \* DEFAULT_SLOT_SIZE
          Launchers,    \* threads that may be in skynet_context_new at a time
          Name,         \* names, as numbers in the order of strcmp
          Null

PowersOfTwo == {2 ^ k : k \in 1 .. 24}

VARIABLES
  slotSize, slot,   \* the table: slot[0 .. slotSize - 1]
  handleIndex,      \* the next handle to try
  handle,           \* ctx->handle, 0 until it is assigned
  given,            \* the handle skynet_handle_register returns, 0 outside it
  names,            \* sorted array of names and handles
  status,           \* "running", or how the process died: see Failure
  scan,             \* retireall: the slot it is at, -1 outside the call,
  victim, retired,  \* the handle it read there, what it retired in this pass
  doomed            \* services that had their handle when the pass began,
                    \* and have not been retired since

table == <<slotSize, slot, handleIndex>>
abort == <<scan, victim, retired>>
vars == <<table, handle, given, names, status, abort, doomed>>

Entry == [name : Name, handle : 1 .. HandleMask]

TypeOK ==
  /\ slotSize \in PowersOfTwo
  /\ slot \in [0 .. slotSize - 1 -> Context \cup {Null}]
  /\ handleIndex \in 1 .. HandleMask + 1
  /\ handle \in [Context -> 0 .. HandleMask]
  /\ given \in [Context -> 0 .. HandleMask]
  /\ names \in Seq(Entry)
  /\ status \in {"running", "full", "unfilled", "collision"}
  /\ scan \in -1 .. slotSize
  /\ victim \in 0 .. HandleMask
  /\ retired \in BOOLEAN
  /\ doomed \subseteq Context

\* skynet_handle_init.
Init ==
  /\ slotSize = DefaultSize
  /\ slot = [i \in 0 .. DefaultSize - 1 |-> Null]
  /\ handleIndex = 1
  /\ handle = [c \in Context |-> 0]
  /\ given = [c \in Context |-> 0]
  /\ names = <<>>
  /\ status = "running"
  /\ scan = -1
  /\ victim = 0
  /\ retired = FALSE
  /\ doomed = {}

\* handle & (size - 1)
Hash(h, size) == h % size

-----------------------------------------------------------------------------

\* Faults: a name is put last, not where it belongs in the order; the pass ends
\* with the size the table had at first.
InsertName_last(n, h) == Append(names, [name |-> n, handle |-> h])

InTable_initial(i) == i < DefaultSize

-----------------------------------------------------------------------------
\* The context skynet_handle_grab and skynet_handle_retire find for h.
Lookup(h) ==
  LET c == slot[Hash(h, slotSize)]
  IN IF c # Null /\ handle[c] = h THEN c ELSE Null

\* The i-th handle that skynet_handle_register tries: 0 is reserved.
Probe(i) == ((handleIndex + i - 1) % HandleMask) + 1

\* The least index in binary search, and whether the name is there: the loop
\* of skynet_handle_findname and of _insert_name.
Search(n) ==
  LET search[window \in (0 .. Len(names)) \X (-1 .. Len(names) - 1)] ==
        LET begin == window[1]
            last == window[2]
            mid == (begin + last) \div 2
            at == names[mid + 1].name
        IN IF begin > last THEN [found |-> FALSE, at |-> begin]
           ELSE IF at = n THEN [found |-> TRUE, at |-> mid]
           ELSE IF at < n THEN search[<<mid + 1, last>>]
           ELSE search[<<begin, mid - 1>>]
  IN search[<<0, Len(names) - 1>>]

\* skynet_handle_findname.
FindName(n) ==
  LET s == Search(n) IN IF s.found THEN names[s.at + 1].handle ELSE 0

-----------------------------------------------------------------------------
(***************************************************************************)
(* skynet_handle_register.                                                 *)
(***************************************************************************)
Occupied == {i \in 0 .. slotSize - 1 : slot[i] # Null}

\* The slot of a context in the table of twice the size.
NewHash(c) == Hash(handle[c], 2 * slotSize)

NewTable ==
  [k \in 0 .. 2 * slotSize - 1 |->
     LET from == {i \in Occupied : NewHash(slot[i]) = k}
     IN IF from = {} THEN Null ELSE slot[CHOOSE i \in from : TRUE]]

\* The sweep over the handles finds no free slot.
NoneFree == \A i \in 0 .. slotSize - 1 : slot[Hash(Probe(i), slotSize)] # Null

\* How growing the table fails: the assertion that it can, the read of a
\* slot that the sweep skipped and that is free, the assertion that a new
\* slot is.
Failure ==
  IF 2 * slotSize - 1 > HandleMask THEN "full"
  ELSE IF Occupied # 0 .. slotSize - 1 THEN "unfilled"
  ELSE IF \E i, j \in Occupied : i # j /\ NewHash(slot[i]) = NewHash(slot[j])
       THEN "collision"
  ELSE "running"

\* In a table of the given size, the context goes into the first free slot
\* that the handles lead to.
Place(c, tab, size) ==
  \E i \in 0 .. size - 1 :
    /\ tab[Hash(Probe(i), size)] = Null
    /\ \A j \in 0 .. i - 1 : tab[Hash(Probe(j), size)] # Null
    /\ slot' = [tab EXCEPT ![Hash(Probe(i), size)] = c]
    /\ slotSize' = size
    /\ handleIndex' = Probe(i) + 1
    /\ given' = [given EXCEPT ![c] = Probe(i)]

Register(c) ==
  /\ status = "running"
  /\ handle[c] = 0 /\ given[c] = 0
  /\ Cardinality({d \in Context : given[d] # 0}) < Launchers
  /\ \/ ~NoneFree /\ Place(c, slot, slotSize) /\ UNCHANGED status
     \/ NoneFree /\ Failure = "running" /\ Place(c, NewTable, 2 * slotSize) /\ UNCHANGED status
     \/ NoneFree /\ Failure # "running" /\ status' = Failure /\ UNCHANGED <<table, given>>
  /\ UNCHANGED <<handle, names, abort, doomed>>

\* ctx->handle = skynet_handle_register(ctx).
Assign(c) ==
  /\ status = "running"
  /\ given[c] # 0
  /\ handle' = [handle EXCEPT ![c] = given[c]]
  /\ given' = [given EXCEPT ![c] = 0]
  /\ UNCHANGED <<table, names, status, abort, doomed>>

-----------------------------------------------------------------------------
\* The names that are left when h is retired: of the first i, those kept.
Forget(h) ==
  LET kept[i \in 0 .. Len(names)] ==
        IF i = 0 THEN <<>>
        ELSE IF names[i].handle = h THEN kept[i - 1] ELSE Append(kept[i - 1], names[i])
  IN kept[Len(names)]

\* skynet_handle_retire of a registered handle.  The context is released and
\* its memory may serve for another.
Unregister(h) ==
  /\ Lookup(h) # Null
  /\ slot' = [slot EXCEPT ![Hash(h, slotSize)] = Null]
  /\ names' = Forget(h)
  /\ handle' = [handle EXCEPT ![Lookup(h)] = 0]
  /\ doomed' = doomed \ {Lookup(h)}
  /\ UNCHANGED <<slotSize, handleIndex, given, status>>

\* A service exits, is killed or has failed to start.
Retire(h) ==
  /\ status = "running"
  /\ Unregister(h)
  /\ UNCHANGED abort

\* _insert_name_before, at the place where the search ended.
InsertName(n, h) == InsertAt(names, Search(n).at + 1, [name |-> n, handle |-> h])

\* skynet_handle_namehandle, of a name that is free.  The handle is not
\* looked up: REG and NAME may come from, or name, a service just retired.
NameHandle(n, h) ==
  /\ status = "running"
  /\ ~Search(n).found
  /\ names' = InsertName(n, h)
  /\ UNCHANGED <<table, handle, given, status, abort, doomed>>

-----------------------------------------------------------------------------
(***************************************************************************)
(* skynet_handle_retireall.                                                *)
(***************************************************************************)
\* A pass begins.
BeginPass ==
  /\ scan' = 0
  /\ retired' = FALSE
  /\ doomed' = {c \in Context : handle[c] # 0}
  /\ UNCHANGED <<table, handle, given, names, status, victim>>

AbortCall ==
  /\ status = "running"
  /\ scan = -1
  /\ BeginPass

\* The loop condition of a pass, which reads slot_size without the lock.
InTable(i) == i < slotSize

\* Under the read lock: the handle of the context in the slot, if any.
AbortRead ==
  /\ status = "running"
  /\ scan # -1 /\ InTable(scan) /\ victim = 0
  /\ LET c == slot[scan] IN
     IF c # Null /\ handle[c] # 0
     THEN victim' = handle[c] /\ UNCHANGED scan
     ELSE scan' = scan + 1 /\ UNCHANGED victim
  /\ UNCHANGED <<table, handle, given, names, status, retired, doomed>>

\* skynet_handle_retire of the handle it read: someone else may have been
\* faster.
AbortRetire ==
  /\ status = "running"
  /\ victim # 0
  /\ victim' = 0
  /\ scan' = scan + 1
  /\ \/ Unregister(victim) /\ retired' = TRUE
     \/ /\ Lookup(victim) = Null
        /\ UNCHANGED <<table, handle, given, names, status, retired, doomed>>

PassOver == status = "running" /\ scan # -1 /\ ~InTable(scan)

\* After a pass that retired something, another one.
AbortAgain == PassOver /\ retired /\ BeginPass

AbortReturn ==
  /\ PassOver /\ ~retired
  /\ scan' = -1
  /\ UNCHANGED <<table, handle, given, names, status, victim, retired, doomed>>

-----------------------------------------------------------------------------
Next ==
  \/ \E c \in Context : Register(c) \/ Assign(c)
  \/ \E h \in 1 .. HandleMask : Retire(h) \/ \E n \in Name : NameHandle(n, h)
  \/ AbortCall \/ AbortRead \/ AbortRetire \/ AbortAgain \/ AbortReturn

Spec == Init /\ [][Next]_vars

-----------------------------------------------------------------------------
(***************************************************************************)
(* Properties.                                                             *)
(***************************************************************************)
Book == INSTANCE Directory WITH
  Address <- 1 .. HandleMask, NoContext <- Null, NoAddress <- 0,
  service <- [h \in 1 .. HandleMask |-> Lookup(h)],
  bound <- [n \in Name |-> FindName(n)]

\* Through every growth of the table, every reuse of a slot, a handle or a
\* context's memory and every change of the array of names,
\* skynet_handle_grab and skynet_handle_findname find what was registered
\* and not retired, and nothing else.
ImplementsDirectory == Book!Spec

\* skynet_handle_retireall, which gives up its lock between any two slots
\* while services come, go and make the table grow, does not end a pass
\* before every service that was there when the pass began is retired.
PassCovers == [][AbortAgain \/ AbortReturn => doomed = {}]_vars

\* The storage fails for want of handles, or when the handles wrap around:
\* then the sweep skips the slots whose handle would be 0, and the growth
\* that follows takes a free slot for a context.
FailsOnlyWrapping ==
  status = "unfilled" => handleIndex + slotSize > HandleMask + 1

\* The assertion of skynet_handle_register that no two contexts move into the
\* same slot of a larger table.
NewSlotsDistinct == status # "collision"
=============================================================================
