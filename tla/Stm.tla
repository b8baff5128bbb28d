-------------------------------- MODULE Stm --------------------------------
(***************************************************************************)
(* One object shared by the service that writes it and services that read  *)
(* it, without messages (lua-stm.c).  The object points to the last copy;  *)
(* a reader keeps the copy it has read last; the object and each copy are  *)
(* freed with the last reference.                                          *)
(*                                                                         *)
(* The lock of the object is the one of RWLock, which excludes: what the   *)
(* writer does under it is one step, while readers may be inside together, *)
(* so that getting out is a step of its own, and one more access to the    *)
(* object.  Addresses of copies are used again when they are free.         *)
(***************************************************************************)
EXTENDS Integers, FiniteSets

CONSTANTS
  Reader,
  Address,    \* bound of the model: copies at a time
  MaxVersion, \* bound of the model: updates, and the first value
  NULL

VARIABLES
  obj,     \* the stm_object: whether it is alive, reference, copy
  copy,    \* the stm_copy at each address: reference, and which value; free with 0
  version, \* the values written so far
  writer,  \* where the writer is: idle, update or gone
  old,     \* the copy it has taken out
  box,     \* of a reader, its boxreader: none, given, open or gone
  pc,      \* where it is in read and delete
  lastcopy,
  taken,   \* the copy it has just taken
  seen     \* history: the value it has read last, 0 for none

\* struct stm_object and struct stm_copy
StmObject == [alive : BOOLEAN, reference : 0 .. Cardinality(Reader) + 1, copy : Address \cup {NULL}]
StmCopy == [reference : 0 .. 2 * Cardinality(Reader) + 1, version : 0 .. MaxVersion]

vars == <<obj, copy, version, writer, old, box, pc, lastcopy, taken, seen>>

TypeOK ==
  /\ obj \in StmObject
  /\ copy \in [Address -> StmCopy]
  /\ version \in 1 .. MaxVersion
  /\ writer \in {"idle", "update", "gone"} /\ old \in Address \cup {NULL}
  /\ box \in [Reader -> {"none", "given", "open", "gone"}]
  /\ pc \in [Reader -> {"idle", "taken", "compare", "dec", "unlock", "drop"}]
  /\ lastcopy \in [Reader -> Address \cup {NULL}] /\ taken \in [Reader -> Address \cup {NULL}]
  /\ seen \in [Reader -> 0 .. MaxVersion]

\* stm_newcopy
NewCopy(a, v) == [reference |-> 1, version |-> v]

Init ==
  /\ \E a \in Address :
       /\ obj = [alive |-> TRUE, reference |-> 1, copy |-> a]
       /\ copy = [x \in Address |-> IF x = a THEN NewCopy(a, 1) ELSE [reference |-> 0, version |-> 0]]
  /\ version = 1 /\ writer = "idle" /\ old = NULL
  /\ box = [r \in Reader |-> "none"] /\ pc = [r \in Reader |-> "idle"]
  /\ lastcopy = [r \in Reader |-> NULL] /\ taken = lastcopy
  /\ seen = [r \in Reader |-> 0]

-----------------------------------------------------------------------------
\* stm_releasecopy of the copy at a, if there is one: it is free with 0.
Released(a) == IF a = NULL THEN copy ELSE [copy EXCEPT ![a].reference = @ - 1]

\* stm_copy: one more reference to what the object points to.
Grabbed(a) == IF a = NULL THEN copy ELSE [copy EXCEPT ![a].reference = @ + 1]

(***************************************************************************)
(* Faults: forms that definitions below might have had.                    *)
(***************************************************************************)
Kept_freed(r) == Released(taken[r])

(***************************************************************************)
(* The writer.                                                             *)
(***************************************************************************)
\* A reader is under the lock.
Inside == \E r \in Reader : pc[r] \in {"taken", "dec", "unlock"}

\* lcopy: stm_grab for a reader, which is told the address of the object.
Give(r) ==
  /\ writer = "idle" /\ box[r] = "none"
  /\ obj' = [obj EXCEPT !.reference = @ + 1]
  /\ box' = [box EXCEPT ![r] = "given"]
  /\ UNCHANGED <<copy, version, writer, old, pc, lastcopy, taken, seen>>

\* stm_update, up to the end of the lock.
Update(a) ==
  /\ writer = "idle" /\ version < MaxVersion /\ copy[a].reference = 0
  /\ ~Inside
  /\ version' = version + 1
  /\ copy' = [copy EXCEPT ![a] = NewCopy(a, version')]
  /\ old' = obj.copy
  /\ obj' = [obj EXCEPT !.copy = a]
  /\ writer' = "update"
  /\ UNCHANGED <<box, pc, lastcopy, taken, seen>>

ReleaseOld ==
  /\ writer = "update"
  /\ copy' = Released(old)
  /\ old' = NULL /\ writer' = "idle"
  /\ UNCHANGED <<obj, version, box, pc, lastcopy, taken, seen>>

\* stm_release
DeleteWriter ==
  /\ writer = "idle" /\ ~Inside
  /\ copy' = Released(obj.copy)
  /\ obj' = [alive |-> obj.reference > 1, reference |-> obj.reference - 1, copy |-> NULL]
  /\ writer' = "gone"
  /\ UNCHANGED <<version, old, box, pc, lastcopy, taken, seen>>

(***************************************************************************)
(* A reader.                                                               *)
(***************************************************************************)
Goto(r, from, to) == pc[r] = from /\ pc' = [pc EXCEPT ![r] = to]

NewReader(r) ==
  /\ box[r] = "given"
  /\ box' = [box EXCEPT ![r] = "open"]
  /\ UNCHANGED <<obj, copy, version, writer, old, pc, lastcopy, taken, seen>>

\* lread: stm_copy.
Take(r) ==
  /\ box[r] = "open" /\ Goto(r, "idle", "taken")
  /\ taken' = [taken EXCEPT ![r] = obj.copy]
  /\ copy' = Grabbed(obj.copy)
  /\ UNCHANGED <<obj, version, writer, old, box, lastcopy, seen>>

Unlock(r) ==
  /\ Goto(r, "taken", "compare")
  /\ UNCHANGED <<obj, copy, version, writer, old, box, lastcopy, taken, seen>>

\* lread: which of the two copies is kept.
Kept(r) == Released(lastcopy[r])
Compare(r) ==
  /\ Goto(r, "compare", "idle")
  /\ taken' = [taken EXCEPT ![r] = NULL]
  /\ IF taken[r] = lastcopy[r]
     THEN copy' = Released(taken[r]) /\ UNCHANGED <<lastcopy, seen>>
     ELSE /\ copy' = Kept(r)
          /\ lastcopy' = [lastcopy EXCEPT ![r] = taken[r]]
          /\ seen' = [seen EXCEPT ![r] = IF taken[r] = NULL THEN 0 ELSE copy[taken[r]].version]
  /\ UNCHANGED <<obj, version, writer, old, box>>

\* stm_releasereader: the lock.
Delete(r) ==
  /\ box[r] = "open" /\ Goto(r, "idle", "dec")
  /\ box' = [box EXCEPT ![r] = "gone"]
  /\ UNCHANGED <<obj, copy, version, writer, old, lastcopy, taken, seen>>

\* "last reader, no writer. so no need to unlock"
LastHolder(r) == obj.reference = 1
Dec(r) ==
  /\ pc[r] = "dec"
  /\ obj' = [obj EXCEPT !.reference = @ - 1, !.alive = @ /\ ~LastHolder(r)]
  /\ pc' = [pc EXCEPT ![r] = IF obj.reference = 1 THEN "drop" ELSE "unlock"]
  /\ UNCHANGED <<copy, version, writer, old, box, lastcopy, taken, seen>>

UnlockDelete(r) ==
  /\ Goto(r, "unlock", "drop")
  /\ UNCHANGED <<obj, copy, version, writer, old, box, lastcopy, taken, seen>>

\* ldeletereader: the last copy.
Drop(r) ==
  /\ Goto(r, "drop", "idle")
  /\ copy' = Released(lastcopy[r])
  /\ lastcopy' = [lastcopy EXCEPT ![r] = NULL]
  /\ UNCHANGED <<obj, version, writer, old, box, taken, seen>>

Next ==
  \/ ReleaseOld \/ DeleteWriter
  \/ \E a \in Address : Update(a)
  \/ \E r \in Reader : Give(r) \/ NewReader(r) \/ Take(r) \/ Unlock(r) \/ Compare(r)
                       \/ Delete(r) \/ Dec(r) \/ UnlockDelete(r) \/ Drop(r)

Spec == Init /\ [][Next]_vars

-----------------------------------------------------------------------------
\* What refers to the copy at an address.
Holders(a) ==
  {<<"reader", r>> : r \in {x \in Reader : lastcopy[x] = a}}
  \cup {<<"taken", r>> : r \in {x \in Reader : taken[x] = a}}
  \cup (IF obj.copy = a THEN {<<"object", NULL>>} ELSE {})
  \cup (IF old = a THEN {<<"writer", NULL>>} ELSE {})

\* A copy is freed with its last reference: neither while something still
\* points to it ("assert(ref > 0)"), nor never.
CountsExact == \A a \in Address : copy[a].reference = Cardinality(Holders(a))

\* A reader that is told "not update" has read the value the object has: the
\* address it compares with is not that of an older copy, freed and used again.
NotUpdateTrue ==
  \A r \in Reader :
    pc[r] = "compare" /\ taken[r] = lastcopy[r] /\ taken[r] # NULL => copy[taken[r]].version = seen[r]

\* When all have let go, the object is freed too.
ObjectFreed ==
  writer = "gone" /\ (\A r \in Reader : box[r] \in {"none", "gone"} /\ pc[r] \in {"idle", "drop"})
    => ~obj.alive
(***************************************************************************)
(* What is inductive                                                       *)
(***************************************************************************)
\* Who may still release the object: the writer, and readers with a box.
Holding == {r \in Reader : box[r] \in {"given", "open"} \/ pc[r] = "dec"}
ObjectCounted ==
  /\ obj.reference = Cardinality(Holding) + (IF writer = "gone" THEN 0 ELSE 1)
  /\ obj.alive <=> obj.reference > 0

\* The object has a copy as long as the writer is there, and it is not the one that
\* the writer has taken out.
WriterHolds ==
  /\ obj.copy = NULL <=> writer = "gone"
  /\ old # NULL => writer = "update" /\ old # obj.copy

\* A reader is where its box lets it be, and takes a copy between two of its reads.
ReadersPlaced ==
  \A r \in Reader :
    /\ pc[r] \in {"taken", "compare"} => box[r] = "open"
    /\ pc[r] \in {"dec", "unlock", "drop"} => box[r] = "gone"
    /\ taken[r] # NULL => pc[r] \in {"taken", "compare"}

\* The copy a reader has kept still has the value it has read.
SeenKept == \A r \in Reader : lastcopy[r] # NULL => copy[lastcopy[r]].version = seen[r]

Inv == TypeOK /\ CountsExact /\ ObjectCounted /\ WriterHolds /\ ReadersPlaced /\ SeenKept

=============================================================================
