------------------------------ MODULE MCShared ------------------------------
(***************************************************************************)
(* What threads, services and nodes share: the readers-writer lock, the    *)
(* objects of stm, the channels of multicast, the data center and the      *)
(* sorted set.  They share no state with each other; on says which of them *)
(* moves, and in which scenario, while the others rest as they began.      *)
(***************************************************************************)
EXTENDS RWLock, TLC, SequenceTheorems, FiniteSetTheorems, TLAPS

CONSTANTS
  Reader, Address, MaxVersion,   \* of Stm
  Key, Flat, Deep, FlatLeaf, DeepLeaf, Asker, Caller, TABLE, FAILED,   \* of Datacenter
  here, Others, Listener, SoleHome, SharedHome, Speaker, MaxPublished, MaxSubscribed,   \* of Multicast
  there, s1, HEADER, NULL

VARIABLES
  on,
  obj, copy, version, writer, old, box, reader, lastcopy, taken, seen,
  group, remote, link, sub, inbox, reference, deleted, published, got, due, times,
  database, wait_queue, waiting, answer,
  tree, tree_queue, tree_waiting, tree_answer,
  sl, tbl

stm == <<obj, copy, version, writer, old, box, reader, lastcopy, taken, seen>>
multicast == <<group, remote, link, sub, inbox, reference, deleted, published, got, due, times>>
names == <<database, wait_queue, waiting, answer>>
paths == <<tree, tree_queue, tree_waiting, tree_answer>>
list == <<sl, tbl>>
datacenter == <<names, paths>>

\* Two readers, three updates, room for four copies.
Object == INSTANCE Stm WITH pc <- reader

\* At most one service on each node but the owner; every node publishes.
Mixed == INSTANCE Multicast WITH
  Owner <- here, Remote <- Others, Service <- Listener, Home <- SoleHome,
  Publisher <- Others \cup {here}

\* Services anywhere; one node publishes.
Abroad == INSTANCE Multicast WITH
  Owner <- here, Remote <- Others, Service <- Listener, Home <- SharedHome,
  Publisher <- {Speaker}

\* A service of the owner and one of another node; two services of the other node.
OneAbroad == [s \in Listener |-> IF s = s1 THEN there ELSE here]
BothAbroad == [s \in Listener |-> there]

\* Paths for the instances below.
TwoKeys == {<<1, 1>>, <<1, 2>>, <<2, 1>>}
OneAndTwoKeys == {<<1>>, <<1, 1>>, <<1, 2>>}

\* Names of at most two keys, none of which leads through another.
Names == INSTANCE Datacenter WITH
  Path <- Flat, Leaf <- FlatLeaf, Caller <- Asker, got <- answer

\* Any paths.
Paths == INSTANCE Datacenter WITH
  Path <- Deep, Leaf <- DeepLeaf, database <- tree, wait_queue <- tree_queue,
  waiting <- tree_waiting, got <- tree_answer

\* Four members, two scores, three levels.
List == INSTANCE SkipList WITH Member <- 1 .. 4, Score <- {5, 6}, SKIPLIST_MAXLEVEL <- 3

AllInit ==
  /\ on \in {"lock", "stm", "mixed", "abroad", "names", "paths", "list"}
  /\ Init /\ Object!Init /\ Mixed!Init /\ Names!Init /\ Paths!Init /\ List!Init

AllNext ==
  \/ on = "lock" /\ Next /\ UNCHANGED <<on, stm, multicast, datacenter, list>>
  \/ on = "stm" /\ Object!Next /\ UNCHANGED <<on, vars, multicast, datacenter, list>>
  \/ on = "mixed" /\ Mixed!Next /\ UNCHANGED <<on, vars, stm, datacenter, list>>
  \/ on = "abroad" /\ Abroad!Next /\ UNCHANGED <<on, vars, stm, datacenter, list>>
  \/ on = "names" /\ Names!Next /\ UNCHANGED <<on, vars, stm, multicast, paths, list>>
  \/ on = "paths" /\ Paths!Next /\ UNCHANGED <<on, vars, stm, multicast, names, list>>
  \/ on = "list" /\ List!Next /\ UNCHANGED <<on, vars, stm, multicast, datacenter>>

AllSpec == AllInit /\ [][AllNext]_<<on, vars, stm, multicast, datacenter, list>>

\* Finitely many readers, and NULL is no address.
ASSUME ObjectAssumption == IsFiniteSet(Reader) /\ MaxVersion \in Nat \ {0} /\ NULL \notin Address

\* Paths are of one key or more; those of Names of one or two, and none of them leads
\* through another.  Values are neither tables nor errors.
ASSUME PathAssumption ==
  /\ Flat \subseteq Seq(Key) /\ Deep \subseteq Seq(Key) /\ <<>> \notin Flat \cup Deep
  /\ \A p \in Flat : Len(p) <= 2 /\ \A q \in Flat : ~Names!IsStrictPrefix(p, q)
  /\ NULL \notin Names!Node \cup Paths!Node
  /\ {NULL, TABLE, FAILED} \cap (FlatLeaf \cup DeepLeaf) = {}
  /\ Cardinality({NULL, TABLE, FAILED}) = 3

\* Where the nodes and services of a channel are.
ASSUME ChannelAssumption == Mixed!Placed /\ Mixed!Sole /\ Abroad!Placed

Symmetry == Permutations(Reader) \cup Permutations(Address)

-----------------------------------------------------------------------------
\* lua-stm.c: a copy is freed with its last reference and not before, "not
\* update" is told only to who has read the newest one, and the object goes
\* with the last who held it.
ObjectKept ==
  Object!TypeOK /\ Object!CountsExact /\ Object!NotUpdateTrue /\ Object!ObjectFreed

\* multicastd.lua: a subscriber gets all that is published while he subscribes,
\* in order and once; packages count who has still to close them; the owner
\* knows just the nodes that subscribe, and a deleted channel leaves nothing.
ChannelDelivers ==
  /\ IF on = "abroad" THEN Abroad!TypeOK /\ Abroad!PackageExact /\ Abroad!InOrderOnce
                      ELSE Mixed!TypeOK /\ Mixed!PackageExact
  /\ on = "mixed" => Mixed!Delivered /\ Mixed!NodesKnown /\ Mixed!NothingKept

\* datacenterd.lua: names with a tree and queues behave like a table of names,
\* no update passes one by who waits for it, and on paths that lead through each
\* other whoever is woken gets the value his own path has, or an error.
ImplementsRegistry ==
  /\ [](Names!TypeOK /\ Names!NoneInVain /\ Paths!TypeOK) /\ Names!ImplementsRegistry
  /\ Paths!RightValue

\* skiplist.c: the list with its levels and spans, and the table of zset.lua
\* beside it, are a sorted set; every rank and range that is asked for by way
\* of the spans is the one that counting would give.
ImplementsSortedSet ==
  /\ [](List!TypeOK /\ List!LevelsAgree)
  /\ [](on = "list" => List!RanksExact /\ List!RangesExact)
  /\ List!ImplementsSortedSet
-----------------------------------------------------------------------------
(***************************************************************************)
(* The object of stm, for any readers and any addresses of copies.         *)
(***************************************************************************)
LEMMA ObjectCount == \A S : Object!Cardinality(S) = Cardinality(S)
  BY DEF Object!Cardinality, Cardinality

\* How many readers a function of the readers takes to a, and one more or less.
Number(f, a) == Cardinality({r \in Reader : f[r] = a})
Same(x, y) == IF x = y THEN 1 ELSE 0
Somewhere == Address \cup {NULL}

LEMMA NumberFinite ==
  ASSUME NEW f, NEW a
  PROVE  IsFiniteSet({r \in Reader : f[r] = a}) /\ Number(f, a) \in 0 .. Cardinality(Reader)
         /\ Number(f, a) \in Nat
<1>1. {r \in Reader : f[r] = a} \subseteq Reader
  OBVIOUS
<1> QED BY <1>1, ObjectAssumption, FS_Subset, FS_CardinalityType DEF Number

\* A reader that moves from one copy to another changes the numbers of both.
LEMMA NumberMoves ==
  \A f \in [Reader -> Somewhere] : \A who \in Reader : \A v \in Somewhere : \A a :
     Number([f EXCEPT ![who] = v], a) = Number(f, a) + Same(v, a) - Same(f[who], a)
<1> SUFFICES ASSUME NEW f \in [Reader -> Somewhere], NEW who \in Reader, NEW v \in Somewhere, NEW a
    PROVE Number([f EXCEPT ![who] = v], a) = Number(f, a) + Same(v, a) - Same(f[who], a)
  OBVIOUS
<1> DEFINE A == {r \in Reader : f[r] = a}
           g == [f EXCEPT ![who] = v]
           B == {r \in Reader : g[r] = a}
<1>1. IsFiniteSet(A) /\ Cardinality(A) \in Nat
  BY NumberFinite, FS_CardinalityType
<1>2. CASE v = a /\ f[who] # a
  <2>1. B = A \cup {who} /\ who \notin A
    BY <1>2
  <2> QED BY <1>1, <1>2, <2>1, FS_AddElement DEF Number, Same
<1>3. CASE v # a /\ f[who] = a
  <2>1. B = A \ {who} /\ who \in A
    BY <1>3
  <2> QED BY <1>1, <1>3, <2>1, FS_RemoveElement DEF Number, Same
<1>4. CASE v = a <=> f[who] = a
  <2>1. B = A
    BY <1>4
  <2> QED BY <1>1, <1>4, <2>1 DEF Number, Same
<1> QED BY <1>2, <1>3, <1>4

\* The holders of a copy are of four kinds.
Kinds(f, g, o, w, a) ==
  {<<"reader", r>> : r \in {x \in Reader : f[x] = a}}
  \cup {<<"taken", r>> : r \in {x \in Reader : g[x] = a}}
  \cup (IF o = a THEN {<<"object", NULL>>} ELSE {})
  \cup (IF w = a THEN {<<"writer", NULL>>} ELSE {})

LEMMA FourKinds ==
  ASSUME NEW f, NEW g, NEW o, NEW w, NEW a
  PROVE  Cardinality(Kinds(f, g, o, w, a)) = Number(f, a) + Number(g, a) + Same(o, a) + Same(w, a)
<1> DEFINE F == {x \in Reader : f[x] = a}
           G == {x \in Reader : g[x] = a}
           A == {<<"reader", r>> : r \in F}
           B == {<<"taken", r>> : r \in G}
           C == IF o = a THEN {<<"object", NULL>>} ELSE {}
           D == IF w = a THEN {<<"writer", NULL>>} ELSE {}
<1>1. IsFiniteSet(F) /\ IsFiniteSet(G) /\ Number(f, a) = Cardinality(F) /\ Number(g, a) = Cardinality(G)
  BY NumberFinite DEF Number
<1> HIDE DEF F, G
<1>2. IsFiniteSet(A) /\ Cardinality(A) = Cardinality(F)
  <2> DEFINE tag == [r \in F |-> <<"reader", r>>]
  <2>1. tag \in [F -> A]
    OBVIOUS
  <2>2. \A x, y \in F : tag[x] = tag[y] => x = y
    OBVIOUS
  <2>3. \A z \in A : \E x \in F : tag[x] = z
    OBVIOUS
  <2> HIDE DEF tag, A
  <2>4. tag \in Bijection(F, A)
    BY <2>1, <2>2, <2>3, Zenon DEF Bijection, Injection, Surjection, IsInjective
  <2> QED BY <1>1, <2>4, FS_Bijection DEF ExistsBijection
<1>3. IsFiniteSet(B) /\ Cardinality(B) = Cardinality(G)
  <2> DEFINE tag == [r \in G |-> <<"taken", r>>]
  <2>1. tag \in [G -> B]
    OBVIOUS
  <2>2. \A x, y \in G : tag[x] = tag[y] => x = y
    OBVIOUS
  <2>3. \A z \in B : \E x \in G : tag[x] = z
    OBVIOUS
  <2> HIDE DEF tag, B
  <2>4. tag \in Bijection(G, B)
    BY <2>1, <2>2, <2>3, Zenon DEF Bijection, Injection, Surjection, IsInjective
  <2> QED BY <1>1, <2>4, FS_Bijection DEF ExistsBijection
<1>4. IsFiniteSet(C) /\ Cardinality(C) = Same(o, a)
  BY FS_EmptySet, FS_Singleton DEF Same
<1>5. IsFiniteSet(D) /\ Cardinality(D) = Same(w, a)
  BY FS_EmptySet, FS_Singleton DEF Same
<1>6. A \cap B = {} /\ (A \cup B) \cap C = {} /\ (A \cup B \cup C) \cap D = {}
  <2>1. \A x \in A : x[1] = "reader"
    OBVIOUS
  <2>2. \A x \in B : x[1] = "taken"
    OBVIOUS
  <2>3. \A x \in C : x[1] = "object"
    OBVIOUS
  <2>4. \A x \in D : x[1] = "writer"
    OBVIOUS
  <2> HIDE DEF A, B, C, D
  <2> QED BY <2>1, <2>2, <2>3, <2>4
<1> HIDE DEF A, B, C, D
<1>7. /\ IsFiniteSet(A \cup B) /\ IsFiniteSet(A \cup B \cup C)
      /\ Cardinality({}) = 0
  BY <1>2, <1>3, <1>4, FS_Union, FS_EmptySet
<1>8. Cardinality(A \cup B) = Cardinality(A) + Cardinality(B) - Cardinality(A \cap B)
  BY <1>2, <1>3, FS_Union
<1>9. Cardinality(A \cup B \cup C) = Cardinality(A \cup B) + Cardinality(C) - Cardinality((A \cup B) \cap C)
  BY <1>4, <1>7, FS_Union
<1>10. Cardinality(A \cup B \cup C \cup D)
         = Cardinality(A \cup B \cup C) + Cardinality(D) - Cardinality((A \cup B \cup C) \cap D)
  BY <1>5, <1>7, FS_Union
<1>11. /\ Cardinality(A) \in Nat /\ Cardinality(B) \in Nat /\ Cardinality(C) \in Nat
       /\ Cardinality(D) \in Nat
  BY <1>2, <1>3, <1>4, <1>5, FS_CardinalityType
<1>12. /\ Cardinality(A \cap B) = 0 /\ Cardinality((A \cup B) \cap C) = 0
       /\ Cardinality((A \cup B \cup C) \cap D) = 0
  BY <1>6, <1>7
<1>13. Cardinality(A \cup B \cup C \cup D) = Cardinality(A) + Cardinality(B) + Cardinality(C) + Cardinality(D)
  BY <1>8, <1>9, <1>10, <1>11, <1>12
<1>14. Cardinality(A \cup B \cup C \cup D) = Number(f, a) + Number(g, a) + Same(o, a) + Same(w, a)
  BY <1>1, <1>2, <1>3, <1>4, <1>5, <1>13
<1> QED BY <1>14 DEF A, B, C, D, F, G, Kinds

\* The invariant, with the references as sums and their bounds left to follow.
Copies == [Address -> [reference : Int, version : 0 .. MaxVersion]]
Objects == [alive : BOOLEAN, reference : Int, copy : Somewhere]
ObjectTypes ==
  /\ obj \in Objects /\ copy \in Copies
  /\ version \in 1 .. MaxVersion
  /\ writer \in {"idle", "update", "gone"} /\ old \in Somewhere
  /\ box \in [Reader -> {"none", "given", "open", "gone"}]
  /\ reader \in [Reader -> {"idle", "taken", "compare", "dec", "unlock", "drop"}]
  /\ lastcopy \in [Reader -> Somewhere] /\ taken \in [Reader -> Somewhere]
  /\ seen \in [Reader -> 0 .. MaxVersion]

Summed ==
  \A a \in Address :
    copy[a].reference = Number(lastcopy, a) + Number(taken, a) + Same(obj.copy, a) + Same(old, a)

ObjectInv ==
  /\ ObjectTypes /\ Summed
  /\ Object!ObjectCounted /\ Object!WriterHolds /\ Object!ReadersPlaced /\ Object!SeenKept

LEMMA SumsAreCounts == Object!CountsExact <=> Summed
<1>1. \A a \in Address : Cardinality(Object!Holders(a))
        = Number(lastcopy, a) + Number(taken, a) + Same(obj.copy, a) + Same(old, a)
  <2>1. \A a : Object!Holders(a) = Kinds(lastcopy, taken, obj.copy, old, a)
    BY Zenon DEF Object!Holders, Kinds
  <2> QED BY <2>1, FourKinds
<1> QED BY <1>1, ObjectCount DEF Object!CountsExact, Summed

LEMMA HoldingFinite == IsFiniteSet(Object!Holding) /\ Cardinality(Object!Holding) \in 0 .. Cardinality(Reader)
<1>1. Object!Holding \subseteq Reader
  BY DEF Object!Holding
<1> QED BY <1>1, ObjectAssumption, FS_Subset, FS_CardinalityType

LEMMA ObjectInvIs == ObjectInv => Object!Inv
<1> SUFFICES ASSUME ObjectInv PROVE Object!TypeOK
  BY SumsAreCounts DEF ObjectInv, Object!Inv
<1>1. Cardinality(Reader) \in Nat
  BY ObjectAssumption, FS_CardinalityType
<1>2. obj.reference \in 0 .. Cardinality(Reader) + 1
  BY <1>1, HoldingFinite, ObjectCount DEF ObjectInv, Object!ObjectCounted
<1>3. ASSUME NEW a \in Address PROVE copy[a].reference \in 0 .. 2 * Cardinality(Reader) + 1
  <2>1. Number(lastcopy, a) \in 0 .. Cardinality(Reader) /\ Number(taken, a) \in 0 .. Cardinality(Reader)
    BY NumberFinite
  <2>2. Same(obj.copy, a) + Same(old, a) \in 0 .. 1
    BY ObjectAssumption DEF ObjectInv, Object!WriterHolds, Same
  <2>3. Same(obj.copy, a) \in 0 .. 1 /\ Same(old, a) \in 0 .. 1
    BY DEF Same
  <2> HIDE DEF Number, Same
  <2> QED BY <1>1, <2>1, <2>2, <2>3 DEF ObjectInv, Summed
<1>4. obj \in Object!StmObject
  BY <1>2, ObjectCount DEF ObjectInv, ObjectTypes, Objects, Object!StmObject, Somewhere
<1>5. copy \in [Address -> Object!StmCopy]
  BY <1>3, ObjectCount DEF ObjectInv, ObjectTypes, Copies, Object!StmCopy
<1> QED BY <1>4, <1>5 DEF ObjectInv, ObjectTypes, Object!TypeOK, Somewhere

\* A release and a grab change the references of one copy.
LEMMA ReleasedFacts ==
  ASSUME copy \in Copies, NEW x \in Somewhere
  PROVE  /\ Object!Released(x) \in Copies
         /\ \A b \in Address : /\ Object!Released(x)[b].reference = copy[b].reference - Same(x, b)
                               /\ Object!Released(x)[b].version = copy[b].version
<1>1. CASE x = NULL
  BY <1>1, ObjectAssumption DEF Object!Released, Same, Copies
<1>2. CASE x # NULL
  <2>1. x \in Address /\ Object!Released(x) = [copy EXCEPT ![x].reference = @ - 1]
    BY <1>2 DEF Object!Released, Somewhere
  <2>2. [copy[x] EXCEPT !.reference = @ - 1] \in [reference : Int, version : 0 .. MaxVersion]
    BY <2>1 DEF Copies
  <2> QED BY <2>1, <2>2 DEF Same, Copies
<1> QED BY <1>1, <1>2

LEMMA GrabbedFacts ==
  ASSUME copy \in Copies, NEW x \in Somewhere
  PROVE  /\ Object!Grabbed(x) \in Copies
         /\ \A b \in Address : /\ Object!Grabbed(x)[b].reference = copy[b].reference + Same(x, b)
                               /\ Object!Grabbed(x)[b].version = copy[b].version
<1>1. CASE x = NULL
  BY <1>1, ObjectAssumption DEF Object!Grabbed, Same, Copies
<1>2. CASE x # NULL
  <2>1. x \in Address /\ Object!Grabbed(x) = [copy EXCEPT ![x].reference = @ + 1]
    BY <1>2 DEF Object!Grabbed, Somewhere
  <2>2. [copy[x] EXCEPT !.reference = @ + 1] \in [reference : Int, version : 0 .. MaxVersion]
    BY <2>1 DEF Copies
  <2> QED BY <2>1, <2>2 DEF Same, Copies
<1> QED BY <1>1, <1>2

\* What is held of the object and of its places is not touched by steps that leave them.
LEMMA GiveStep == ASSUME ObjectInv, NEW r \in Reader, Object!Give(r) PROVE ObjectInv'
<1>1. /\ writer = "idle" /\ box[r] = "none"
      /\ obj' = [obj EXCEPT !.reference = @ + 1] /\ box' = [box EXCEPT ![r] = "given"]
      /\ UNCHANGED <<copy, version, writer, old, reader, lastcopy, taken, seen>>
  BY DEF Object!Give
<1>2. obj' \in Objects /\ obj'.reference = obj.reference + 1 /\ obj'.copy = obj.copy /\ obj'.alive = obj.alive
  BY <1>1 DEF ObjectInv, ObjectTypes, Objects
<1>3. ObjectTypes'
  BY <1>1, <1>2 DEF ObjectInv, ObjectTypes
<1>4. Summed'
  BY <1>1, <1>2 DEF ObjectInv, Summed
<1>5. Object!ObjectCounted'
  <2>1. r \notin Object!Holding /\ Object!Holding' = Object!Holding \cup {r}
    BY <1>1 DEF Object!Holding, ObjectInv, ObjectTypes, Object!ReadersPlaced
  <2>2. Cardinality(Object!Holding') = Cardinality(Object!Holding) + 1
    BY <2>1, HoldingFinite, FS_AddElement
  <2>3. obj.reference = Cardinality(Object!Holding) + 1 /\ (obj.alive <=> obj.reference > 0)
    BY <1>1, ObjectCount DEF ObjectInv, Object!ObjectCounted
  <2>4. obj'.reference = Cardinality(Object!Holding') + 1 /\ (obj'.alive <=> obj'.reference > 0)
    BY <1>2, <2>2, <2>3, HoldingFinite
  <2> QED BY <1>1, <2>4, ObjectCount DEF Object!ObjectCounted
<1>6. Object!WriterHolds'
  BY <1>1, <1>2 DEF ObjectInv, Object!WriterHolds
<1>7. Object!ReadersPlaced' /\ Object!SeenKept'
  BY <1>1 DEF ObjectInv, ObjectTypes, Object!ReadersPlaced, Object!SeenKept
<1> QED BY <1>3, <1>4, <1>5, <1>6, <1>7 DEF ObjectInv

\* The address of a new copy has no holders.
LEMMA UpdateStep == ASSUME ObjectInv, NEW a \in Address, Object!Update(a) PROVE ObjectInv'
<1>1. /\ writer = "idle" /\ version < MaxVersion /\ copy[a].reference = 0
      /\ version' = version + 1 /\ copy' = [copy EXCEPT ![a] = Object!NewCopy(a, version')]
      /\ old' = obj.copy /\ obj' = [obj EXCEPT !.copy = a] /\ writer' = "update"
      /\ UNCHANGED <<box, reader, lastcopy, taken, seen>>
  BY DEF Object!Update
<1>2. obj' \in Objects /\ obj'.reference = obj.reference /\ obj'.copy = a /\ obj'.alive = obj.alive
  BY <1>1 DEF ObjectInv, ObjectTypes, Objects, Somewhere
<1>3. /\ copy' \in Copies /\ copy'[a].reference = 1
      /\ \A b \in Address \ {a} : copy'[b] = copy[b]
  <2>1. version' \in 1 .. MaxVersion
    BY <1>1, ObjectAssumption DEF ObjectInv, ObjectTypes
  <2>2. /\ Object!NewCopy(a, version') \in [reference : Int, version : 0 .. MaxVersion]
        /\ Object!NewCopy(a, version').reference = 1
    BY <2>1 DEF Object!NewCopy
  <2> QED BY <1>1, <2>2 DEF ObjectInv, ObjectTypes, Copies
<1>4. old = NULL /\ obj.copy # NULL /\ obj.copy \in Address
  BY <1>1 DEF ObjectInv, ObjectTypes, Objects, Object!WriterHolds, Somewhere
<1>5. /\ Number(lastcopy, a) = 0 /\ Number(taken, a) = 0 /\ obj.copy # a
  <2>1. Number(lastcopy, a) \in Nat /\ Number(taken, a) \in Nat
    BY NumberFinite
  <2>2. 0 = Number(lastcopy, a) + Number(taken, a) + Same(obj.copy, a) + Same(old, a)
    BY <1>1 DEF ObjectInv, Summed
  <2>3. Same(old, a) \in {0, 1}
    BY DEF Same
  <2> QED BY <2>1, <2>2, <2>3 DEF Same
<1>6. ObjectTypes'
  BY <1>1, <1>2, <1>3, <1>4, ObjectAssumption DEF ObjectInv, ObjectTypes, Somewhere
<1>7. Summed'
  <2> SUFFICES ASSUME NEW b \in Address
      PROVE copy'[b].reference = Number(lastcopy, b) + Number(taken, b) + Same(a, b) + Same(obj.copy, b)
    BY <1>1, <1>2 DEF Summed
  <2>1. CASE b = a
    BY <1>3, <1>5, <2>1 DEF Same
  <2>2. CASE b # a
    <3>1. copy[b].reference = Number(lastcopy, b) + Number(taken, b) + Same(obj.copy, b) + Same(old, b)
      BY DEF ObjectInv, Summed
    <3>2. Number(lastcopy, b) \in Nat /\ Number(taken, b) \in Nat
      BY NumberFinite
    <3>3. Same(a, b) = 0 /\ Same(old, b) = 0 /\ Same(obj.copy, b) \in Nat
      BY <1>4, <2>2, ObjectAssumption DEF Same
    <3> HIDE DEF Same, Number
    <3> QED BY <1>3, <2>2, <3>1, <3>2, <3>3
  <2> QED BY <2>1, <2>2
<1>8. Object!ObjectCounted'
  <2>1. Object!Holding' = Object!Holding
    BY <1>1 DEF Object!Holding
  <2> QED BY <1>1, <1>2, <2>1 DEF ObjectInv, Object!ObjectCounted
<1>9. Object!WriterHolds'
  BY <1>1, <1>2, <1>4, <1>5, ObjectAssumption DEF Object!WriterHolds
<1>10. Object!ReadersPlaced'
  BY <1>1 DEF ObjectInv, Object!ReadersPlaced
<1>11. Object!SeenKept'
  <2> SUFFICES ASSUME NEW r \in Reader, lastcopy[r] # NULL PROVE copy'[lastcopy[r]].version = seen[r]
    BY <1>1 DEF Object!SeenKept
  <2>1. lastcopy[r] # a
    <3> DEFINE S == {x \in Reader : lastcopy[x] = a}
    <3>1. IsFiniteSet(S) /\ Cardinality(S) = 0
      BY <1>5, NumberFinite DEF Number
    <3>2. S = {}
      BY <3>1, FS_EmptySet
    <3> QED BY <3>2
  <2> QED BY <1>3, <2>1 DEF ObjectInv, ObjectTypes, Somewhere, Object!SeenKept
<1> QED BY <1>6, <1>7, <1>8, <1>9, <1>10, <1>11 DEF ObjectInv

\* The writer releases what it has taken out.
LEMMA ReleaseOldStep == ASSUME ObjectInv, Object!ReleaseOld PROVE ObjectInv'
<1>1. /\ writer = "update" /\ copy' = Object!Released(old) /\ old' = NULL /\ writer' = "idle"
      /\ UNCHANGED <<obj, version, box, reader, lastcopy, taken, seen>>
  BY DEF Object!ReleaseOld
<1>2. /\ copy' \in Copies
      /\ \A b \in Address : /\ copy'[b].reference = copy[b].reference - Same(old, b)
                            /\ copy'[b].version = copy[b].version
  BY <1>1, ReleasedFacts DEF ObjectInv, ObjectTypes
<1>3. ObjectTypes'
  BY <1>1, <1>2 DEF ObjectInv, ObjectTypes, Somewhere
<1>4. Summed'
  <2> SUFFICES ASSUME NEW b \in Address
      PROVE copy'[b].reference = Number(lastcopy, b) + Number(taken, b) + Same(obj.copy, b) + Same(NULL, b)
    BY <1>1 DEF Summed
  <2>1. copy[b].reference = Number(lastcopy, b) + Number(taken, b) + Same(obj.copy, b) + Same(old, b)
    BY DEF ObjectInv, Summed
  <2>2. Number(lastcopy, b) \in Nat /\ Number(taken, b) \in Nat
    BY NumberFinite
  <2>3. Same(NULL, b) = 0 /\ Same(old, b) \in Nat /\ Same(obj.copy, b) \in Nat
    BY ObjectAssumption DEF Same
  <2> HIDE DEF Same, Number
  <2> QED BY <1>2, <2>1, <2>2, <2>3
<1>5. Object!ObjectCounted'
  <2>1. Object!Holding' = Object!Holding
    BY <1>1 DEF Object!Holding
  <2> QED BY <1>1, <2>1 DEF ObjectInv, Object!ObjectCounted
<1>6. Object!WriterHolds'
  BY <1>1 DEF ObjectInv, Object!WriterHolds
<1>7. Object!ReadersPlaced'
  BY <1>1 DEF ObjectInv, Object!ReadersPlaced
<1>8. Object!SeenKept'
  BY <1>1, <1>2 DEF ObjectInv, ObjectTypes, Somewhere, Object!SeenKept
<1> QED BY <1>3, <1>4, <1>5, <1>6, <1>7, <1>8 DEF ObjectInv

LEMMA DeleteWriterStep == ASSUME ObjectInv, Object!DeleteWriter PROVE ObjectInv'
<1>1. /\ writer = "idle" /\ copy' = Object!Released(obj.copy) /\ writer' = "gone"
      /\ obj' = [alive |-> obj.reference > 1, reference |-> obj.reference - 1, copy |-> NULL]
      /\ UNCHANGED <<version, old, box, reader, lastcopy, taken, seen>>
  BY DEF Object!DeleteWriter
<1>2. obj.copy \in Somewhere /\ obj.reference \in Int /\ obj.copy # NULL /\ old = NULL
  BY <1>1 DEF ObjectInv, ObjectTypes, Objects, Object!WriterHolds
<1>3. obj' \in Objects /\ obj'.reference = obj.reference - 1 /\ obj'.copy = NULL
  BY <1>1, <1>2 DEF Objects, Somewhere
<1>4. obj'.alive <=> obj.reference > 1
  BY <1>1
<1>5. /\ copy' \in Copies
      /\ \A b \in Address : /\ copy'[b].reference = copy[b].reference - Same(obj.copy, b)
                            /\ copy'[b].version = copy[b].version
  BY <1>1, <1>2, ReleasedFacts DEF ObjectInv, ObjectTypes
<1>6. ObjectTypes'
  BY <1>1, <1>3, <1>5 DEF ObjectInv, ObjectTypes
<1>7. Summed'
  <2> SUFFICES ASSUME NEW b \in Address
      PROVE copy'[b].reference = Number(lastcopy, b) + Number(taken, b) + Same(NULL, b) + Same(old, b)
    BY <1>1, <1>3 DEF Summed
  <2>1. copy[b].reference = Number(lastcopy, b) + Number(taken, b) + Same(obj.copy, b) + Same(old, b)
    BY DEF ObjectInv, Summed
  <2>2. Number(lastcopy, b) \in Nat /\ Number(taken, b) \in Nat
    BY NumberFinite
  <2>3. Same(NULL, b) = 0 /\ Same(old, b) \in Nat /\ Same(obj.copy, b) \in Nat
    BY ObjectAssumption DEF Same
  <2> HIDE DEF Same, Number
  <2> QED BY <1>5, <2>1, <2>2, <2>3
<1>8. Object!ObjectCounted'
  <2>1. Object!Holding' = Object!Holding
    BY <1>1 DEF Object!Holding
  <2>2. obj.reference = Cardinality(Object!Holding) + 1
    BY <1>1, ObjectCount DEF ObjectInv, Object!ObjectCounted
  <2>3. obj'.reference = Cardinality(Object!Holding') /\ (obj'.alive <=> obj'.reference > 0)
    BY <1>2, <1>3, <1>4, <2>1, <2>2, HoldingFinite
  <2>4. Cardinality(Object!Holding') + 0 = Cardinality(Object!Holding')
    BY <2>1, HoldingFinite
  <2> QED BY <1>1, <2>3, <2>4, ObjectCount DEF Object!ObjectCounted
<1>9. Object!WriterHolds'
  BY <1>1, <1>2, <1>3 DEF Object!WriterHolds
<1>10. Object!ReadersPlaced'
  BY <1>1 DEF ObjectInv, Object!ReadersPlaced
<1>11. Object!SeenKept'
  BY <1>1, <1>5 DEF ObjectInv, ObjectTypes, Somewhere, Object!SeenKept
<1> QED BY <1>6, <1>7, <1>8, <1>9, <1>10, <1>11 DEF ObjectInv

\* A reader goes on, and leaves object and copies as they are.
LEMMA ReaderMoves ==
  ASSUME ObjectInv, UNCHANGED <<obj, copy, version, writer, old, lastcopy, taken, seen>>,
         NEW r \in Reader, NEW b \in {"none", "given", "open", "gone"},
         NEW at \in {"idle", "taken", "compare", "dec", "unlock", "drop"},
         box' = [box EXCEPT ![r] = b], reader' = [reader EXCEPT ![r] = at],
         (box[r] \in {"given", "open"} \/ reader[r] = "dec") <=> (b \in {"given", "open"} \/ at = "dec"),
         at \in {"taken", "compare"} => b = "open",
         at \in {"dec", "unlock", "drop"} => b = "gone",
         taken[r] # NULL => at \in {"taken", "compare"}
  PROVE  ObjectInv'
<1>1. ObjectTypes'
  BY DEF ObjectInv, ObjectTypes
<1>2. Summed'
  BY DEF ObjectInv, Summed
<1>3. Object!Holding' = Object!Holding
  BY DEF ObjectInv, ObjectTypes, Object!Holding
<1>4. Object!ObjectCounted' /\ Object!WriterHolds'
  BY <1>3 DEF ObjectInv, Object!ObjectCounted, Object!WriterHolds
<1>5. Object!ReadersPlaced' /\ Object!SeenKept'
  BY DEF ObjectInv, ObjectTypes, Object!ReadersPlaced, Object!SeenKept
<1> QED BY <1>1, <1>2, <1>4, <1>5 DEF ObjectInv

LEMMA ReaderSteps ==
  ASSUME ObjectInv, NEW r \in Reader,
         Object!NewReader(r) \/ Object!Unlock(r) \/ Object!Delete(r) \/ Object!UnlockDelete(r)
  PROVE  ObjectInv'
<1>1. /\ reader[r] \in {"idle", "taken", "compare", "dec", "unlock", "drop"}
      /\ box[r] \in {"none", "given", "open", "gone"}
      /\ box = [box EXCEPT ![r] = box[r]] /\ reader = [reader EXCEPT ![r] = reader[r]]
      /\ reader[r] \in {"taken", "compare"} => box[r] = "open"
      /\ reader[r] \in {"dec", "unlock", "drop"} => box[r] = "gone"
      /\ taken[r] # NULL => reader[r] \in {"taken", "compare"}
  BY DEF ObjectInv, ObjectTypes, Object!ReadersPlaced
<1>2. CASE Object!NewReader(r)
  <2>1. box[r] = "given" /\ box' = [box EXCEPT ![r] = "open"] /\ reader' = [reader EXCEPT ![r] = reader[r]]
        /\ UNCHANGED <<obj, copy, version, writer, old, lastcopy, taken, seen>>
    BY <1>1, <1>2 DEF Object!NewReader
  <2> QED BY <1>1, <2>1, ReaderMoves
<1>3. CASE Object!Unlock(r)
  <2>1. reader[r] = "taken" /\ box' = [box EXCEPT ![r] = box[r]] /\ reader' = [reader EXCEPT ![r] = "compare"]
        /\ UNCHANGED <<obj, copy, version, writer, old, lastcopy, taken, seen>>
    BY <1>1, <1>3 DEF Object!Unlock, Object!Goto
  <2> QED BY <1>1, <2>1, ReaderMoves
<1>4. CASE Object!Delete(r)
  <2>1. reader[r] = "idle" /\ box[r] = "open" /\ box' = [box EXCEPT ![r] = "gone"]
        /\ reader' = [reader EXCEPT ![r] = "dec"]
        /\ UNCHANGED <<obj, copy, version, writer, old, lastcopy, taken, seen>>
    BY <1>4 DEF Object!Delete, Object!Goto
  <2> QED BY <1>1, <2>1, ReaderMoves
<1>5. CASE Object!UnlockDelete(r)
  <2>1. reader[r] = "unlock" /\ box' = [box EXCEPT ![r] = box[r]] /\ reader' = [reader EXCEPT ![r] = "drop"]
        /\ UNCHANGED <<obj, copy, version, writer, old, lastcopy, taken, seen>>
    BY <1>1, <1>5 DEF Object!UnlockDelete, Object!Goto
  <2> QED BY <1>1, <2>1, ReaderMoves
<1> QED BY <1>2, <1>3, <1>4, <1>5

\* What stays when neither object nor boxes change.
LEMMA CopiesMove ==
  ASSUME ObjectInv, UNCHANGED <<obj, version, writer, old, box>>,
         NEW r \in Reader, NEW at \in {"idle", "taken", "compare"},
         reader' = [reader EXCEPT ![r] = at], reader[r] # "dec",
         at # "idle" => box[r] = "open",
         copy' \in Copies, \A b \in Address : copy'[b].version = copy[b].version,
         lastcopy' \in [Reader -> Somewhere], taken' \in [Reader -> Somewhere],
         seen' \in [Reader -> 0 .. MaxVersion], Summed',
         \A x \in Reader \ {r} : taken'[x] = taken[x] /\ lastcopy'[x] = lastcopy[x] /\ seen'[x] = seen[x],
         taken'[r] # NULL => at # "idle",
         lastcopy'[r] # NULL => copy[lastcopy'[r]].version = seen'[r]
  PROVE  ObjectInv'
<1>1. ObjectTypes'
  BY DEF ObjectInv, ObjectTypes
<1>2. Object!Holding' = Object!Holding
  BY DEF ObjectInv, ObjectTypes, Object!Holding
<1>3. Object!ObjectCounted' /\ Object!WriterHolds'
  BY <1>2 DEF ObjectInv, Object!ObjectCounted, Object!WriterHolds
<1>4. Object!ReadersPlaced'
  BY DEF ObjectInv, ObjectTypes, Object!ReadersPlaced
<1>5. Object!SeenKept'
  <2> SUFFICES ASSUME NEW x \in Reader, lastcopy'[x] # NULL PROVE copy'[lastcopy'[x]].version = seen'[x]
    BY DEF Object!SeenKept
  <2>1. lastcopy'[x] \in Address
    BY DEF Somewhere
  <2>2. copy[lastcopy'[x]].version = seen'[x]
    BY DEF ObjectInv, Object!SeenKept
  <2> QED BY <2>1, <2>2
<1> QED BY <1>1, <1>3, <1>4, <1>5 DEF ObjectInv

LEMMA TakeStep == ASSUME ObjectInv, NEW r \in Reader, Object!Take(r) PROVE ObjectInv'
<1>1. /\ box[r] = "open" /\ reader[r] = "idle" /\ reader' = [reader EXCEPT ![r] = "taken"]
      /\ taken' = [taken EXCEPT ![r] = obj.copy] /\ copy' = Object!Grabbed(obj.copy)
      /\ UNCHANGED <<obj, version, writer, old, box, lastcopy, seen>>
  BY DEF Object!Take, Object!Goto
<1>2. obj.copy \in Somewhere /\ taken[r] = NULL /\ taken \in [Reader -> Somewhere]
  BY <1>1 DEF ObjectInv, ObjectTypes, Objects, Object!ReadersPlaced
<1>3. /\ copy' \in Copies
      /\ \A b \in Address : /\ copy'[b].reference = copy[b].reference + Same(obj.copy, b)
                            /\ copy'[b].version = copy[b].version
  BY <1>1, <1>2, GrabbedFacts DEF ObjectInv, ObjectTypes
<1>4. Summed'
  <2> SUFFICES ASSUME NEW b \in Address
      PROVE copy'[b].reference = Number(lastcopy, b) + Number(taken', b) + Same(obj.copy, b) + Same(old, b)
    BY <1>1 DEF Summed
  <2>1. copy[b].reference = Number(lastcopy, b) + Number(taken, b) + Same(obj.copy, b) + Same(old, b)
    BY DEF ObjectInv, Summed
  <2>2. Number(taken', b) = Number(taken, b) + Same(obj.copy, b) - Same(taken[r], b)
    <3>1. Number([taken EXCEPT ![r] = obj.copy], b) = Number(taken, b) + Same(obj.copy, b) - Same(taken[r], b)
      BY <1>2, NumberMoves, Zenon
    <3> QED BY <1>1, <3>1
  <2>3. Number(lastcopy, b) \in Nat /\ Number(taken, b) \in Nat
    BY NumberFinite
  <2>4. Same(taken[r], b) = 0 /\ Same(old, b) \in Nat /\ Same(obj.copy, b) \in Nat
    BY <1>2, ObjectAssumption DEF Same
  <2> HIDE DEF Same, Number
  <2> QED BY <1>3, <2>1, <2>2, <2>3, <2>4
<1>5. taken' \in [Reader -> Somewhere] /\ \A x \in Reader \ {r} : taken'[x] = taken[x]
  BY <1>1, <1>2
<1>6. lastcopy[r] # NULL => copy[lastcopy[r]].version = seen[r]
  BY DEF ObjectInv, Object!SeenKept
<1>7. lastcopy \in [Reader -> Somewhere] /\ seen \in [Reader -> 0 .. MaxVersion]
  BY DEF ObjectInv, ObjectTypes
<1> QED BY <1>1, <1>3, <1>4, <1>5, <1>6, <1>7, CopiesMove

\* "not update": one of two references to the same copy is released; else what was
\* kept before.
LEMMA CompareStep == ASSUME ObjectInv, NEW r \in Reader, Object!Compare(r) PROVE ObjectInv'
<1>1. /\ reader[r] = "compare" /\ reader' = [reader EXCEPT ![r] = "idle"]
      /\ taken' = [taken EXCEPT ![r] = NULL]
      /\ UNCHANGED <<obj, version, writer, old, box>>
  BY DEF Object!Compare, Object!Goto
<1>2. /\ taken \in [Reader -> Somewhere] /\ lastcopy \in [Reader -> Somewhere]
      /\ seen \in [Reader -> 0 .. MaxVersion] /\ copy \in Copies
      /\ taken[r] \in Somewhere /\ lastcopy[r] \in Somewhere /\ NULL \in Somewhere
  BY DEF ObjectInv, ObjectTypes, Somewhere
<1>3. taken' \in [Reader -> Somewhere] /\ taken'[r] = NULL /\ \A x \in Reader \ {r} : taken'[x] = taken[x]
  BY <1>1, <1>2
<1>4. ASSUME NEW b \in Address
      PROVE /\ copy[b].reference = Number(lastcopy, b) + Number(taken, b) + Same(obj.copy, b) + Same(old, b)
            /\ Number(taken', b) = Number(taken, b) - Same(taken[r], b)
            /\ Number(lastcopy, b) \in Nat /\ Number(taken, b) \in Nat
            /\ Same(taken[r], b) \in Nat /\ Same(lastcopy[r], b) \in Nat
            /\ Same(old, b) \in Nat /\ Same(obj.copy, b) \in Nat
  <2>1. Number(taken', b) = Number(taken, b) + Same(NULL, b) - Same(taken[r], b)
    <3>1. taken \in [Reader -> Somewhere] /\ NULL \in Somewhere
      BY <1>2
    <3>2. Number([taken EXCEPT ![r] = NULL], b) = Number(taken, b) + Same(NULL, b) - Same(taken[r], b)
      BY <3>1, NumberMoves, Zenon
    <3> QED BY <1>1, <3>2
  <2>2. Same(NULL, b) = 0
    BY ObjectAssumption DEF Same
  <2>3. Number(lastcopy, b) \in Nat /\ Number(taken, b) \in Nat
    BY NumberFinite
  <2>4. Same(taken[r], b) \in Nat /\ Same(lastcopy[r], b) \in Nat /\ Same(old, b) \in Nat /\ Same(obj.copy, b) \in Nat
    BY DEF Same
  <2>5. copy[b].reference = Number(lastcopy, b) + Number(taken, b) + Same(obj.copy, b) + Same(old, b)
    BY DEF ObjectInv, Summed
  <2> HIDE DEF Same, Number
  <2> QED BY <2>1, <2>2, <2>3, <2>4, <2>5
<1>5. CASE taken[r] = lastcopy[r]
  <2>1. copy' = Object!Released(taken[r]) /\ UNCHANGED <<lastcopy, seen>>
    BY <1>5 DEF Object!Compare
  <2>2. /\ copy' \in Copies
        /\ \A b \in Address : /\ copy'[b].reference = copy[b].reference - Same(taken[r], b)
                              /\ copy'[b].version = copy[b].version
    BY <1>2, <2>1, ReleasedFacts
  <2>3. Summed'
    <3> SUFFICES ASSUME NEW b \in Address
        PROVE copy'[b].reference = Number(lastcopy, b) + Number(taken', b) + Same(obj.copy, b) + Same(old, b)
      BY <1>1, <2>1 DEF Summed
    <3> HIDE DEF Same, Number
    <3> QED BY <1>4, <2>2
  <2>4. lastcopy[r] # NULL => copy[lastcopy[r]].version = seen[r]
    BY DEF ObjectInv, Object!SeenKept
  <2> QED BY <1>1, <1>2, <1>3, <2>1, <2>2, <2>3, <2>4, CopiesMove
<1>6. CASE taken[r] # lastcopy[r]
  <2>1. /\ copy' = Object!Released(lastcopy[r])
        /\ lastcopy' = [lastcopy EXCEPT ![r] = taken[r]]
        /\ seen' = [seen EXCEPT ![r] = IF taken[r] = NULL THEN 0 ELSE copy[taken[r]].version]
    BY <1>6 DEF Object!Compare, Object!Kept
  <2>2. /\ copy' \in Copies
        /\ \A b \in Address : /\ copy'[b].reference = copy[b].reference - Same(lastcopy[r], b)
                              /\ copy'[b].version = copy[b].version
    BY <1>2, <2>1, ReleasedFacts
  <2>3. Summed'
    <3> SUFFICES ASSUME NEW b \in Address
        PROVE copy'[b].reference = Number(lastcopy', b) + Number(taken', b) + Same(obj.copy, b) + Same(old, b)
      BY <1>1 DEF Summed
    <3>1. Number(lastcopy', b) = Number(lastcopy, b) + Same(taken[r], b) - Same(lastcopy[r], b)
      <4>1. Number([lastcopy EXCEPT ![r] = taken[r]], b) = Number(lastcopy, b) + Same(taken[r], b) - Same(lastcopy[r], b)
        BY <1>2, NumberMoves, Zenon
      <4> QED BY <2>1, <4>1
    <3> HIDE DEF Same, Number
    <3> QED BY <1>4, <2>2, <3>1
  <2>4. /\ lastcopy' \in [Reader -> Somewhere] /\ lastcopy'[r] = taken[r]
        /\ \A x \in Reader \ {r} : lastcopy'[x] = lastcopy[x]
    BY <1>2, <2>1
  <2>5. (IF taken[r] = NULL THEN 0 ELSE copy[taken[r]].version) \in 0 .. MaxVersion
    BY <1>2, ObjectAssumption DEF Copies, Somewhere
  <2>6. /\ seen' \in [Reader -> 0 .. MaxVersion] /\ \A x \in Reader \ {r} : seen'[x] = seen[x]
        /\ taken[r] # NULL => seen'[r] = copy[taken[r]].version
    BY <1>2, <2>1, <2>5
  <2> QED BY <1>1, <1>3, <2>2, <2>3, <2>4, <2>6, CopiesMove
<1> QED BY <1>5, <1>6

LEMMA DropStep == ASSUME ObjectInv, NEW r \in Reader, Object!Drop(r) PROVE ObjectInv'
<1>1. /\ reader[r] = "drop" /\ reader' = [reader EXCEPT ![r] = "idle"]
      /\ copy' = Object!Released(lastcopy[r]) /\ lastcopy' = [lastcopy EXCEPT ![r] = NULL]
      /\ UNCHANGED <<obj, version, writer, old, box, taken, seen>>
  BY DEF Object!Drop, Object!Goto
<1>2. /\ taken \in [Reader -> Somewhere] /\ lastcopy \in [Reader -> Somewhere]
      /\ seen \in [Reader -> 0 .. MaxVersion] /\ copy \in Copies
      /\ lastcopy[r] \in Somewhere /\ NULL \in Somewhere /\ taken[r] = NULL
  BY <1>1 DEF ObjectInv, ObjectTypes, Somewhere, Object!ReadersPlaced
<1>3. /\ copy' \in Copies
      /\ \A b \in Address : /\ copy'[b].reference = copy[b].reference - Same(lastcopy[r], b)
                            /\ copy'[b].version = copy[b].version
  BY <1>1, <1>2, ReleasedFacts
<1>4. Summed'
  <2> SUFFICES ASSUME NEW b \in Address
      PROVE copy'[b].reference = Number(lastcopy', b) + Number(taken, b) + Same(obj.copy, b) + Same(old, b)
    BY <1>1 DEF Summed
  <2>1. copy[b].reference = Number(lastcopy, b) + Number(taken, b) + Same(obj.copy, b) + Same(old, b)
    BY DEF ObjectInv, Summed
  <2>2. Number(lastcopy', b) = Number(lastcopy, b) + Same(NULL, b) - Same(lastcopy[r], b)
    <3>1. Number([lastcopy EXCEPT ![r] = NULL], b) = Number(lastcopy, b) + Same(NULL, b) - Same(lastcopy[r], b)
      BY <1>2, NumberMoves, Zenon
    <3> QED BY <1>1, <3>1
  <2>3. Number(lastcopy, b) \in Nat /\ Number(taken, b) \in Nat
    BY NumberFinite
  <2>4. Same(NULL, b) = 0 /\ Same(old, b) \in Nat /\ Same(obj.copy, b) \in Nat /\ Same(lastcopy[r], b) \in Nat
    BY ObjectAssumption DEF Same
  <2> HIDE DEF Same, Number
  <2> QED BY <1>3, <2>1, <2>2, <2>3, <2>4
<1>5. /\ lastcopy' \in [Reader -> Somewhere] /\ lastcopy'[r] = NULL
      /\ \A x \in Reader \ {r} : lastcopy'[x] = lastcopy[x]
  BY <1>1, <1>2
<1> QED BY <1>1, <1>2, <1>3, <1>4, <1>5, CopiesMove

LEMMA ObjectFacts ==
  ASSUME NEW o \in Objects, NEW n \in Int, NEW v \in BOOLEAN
  PROVE  [o EXCEPT !.reference = n, !.alive = v] \in Objects
  BY DEF Objects

LEMMA DecStep == ASSUME ObjectInv, NEW r \in Reader, Object!Dec(r) PROVE ObjectInv'
<1>1. /\ reader[r] = "dec"
      /\ obj' = [obj EXCEPT !.reference = @ - 1, !.alive = @ /\ ~(obj.reference = 1)]
      /\ UNCHANGED <<copy, version, writer, old, box, lastcopy, taken, seen>>
  BY DEF Object!Dec, Object!LastHolder
<1>2. PICK at \in {"drop", "unlock"} : reader' = [reader EXCEPT ![r] = at]
  BY DEF Object!Dec
<1>3. obj \in Objects /\ obj.reference \in Int /\ obj.alive \in BOOLEAN
  BY DEF ObjectInv, ObjectTypes, Objects
<1>4. obj'.reference = obj.reference - 1 /\ obj'.copy = obj.copy
  BY <1>1, <1>3 DEF Objects
<1>5. obj'.alive <=> obj.alive /\ obj.reference # 1
  BY <1>1, <1>3, Zenon DEF Objects
<1>6. obj' \in Objects
  <2> DEFINE v == obj.alive /\ ~(obj.reference = 1)
  <2>1. v \in BOOLEAN /\ obj' = [obj EXCEPT !.reference = @ - 1, !.alive = v]
    BY <1>1, <1>3
  <2>2. obj.reference - 1 \in Int
    BY <1>3
  <2> HIDE DEF v
  <2> QED BY <1>3, <2>1, <2>2, ObjectFacts
<1>7. box[r] = "gone" /\ taken[r] = NULL
  BY <1>1 DEF ObjectInv, Object!ReadersPlaced
<1>8. ObjectTypes'
  BY <1>1, <1>2, <1>6 DEF ObjectInv, ObjectTypes
<1>9. Summed'
  BY <1>1, <1>4 DEF ObjectInv, Summed
<1>10. Object!ObjectCounted'
  <2> DEFINE w == IF writer = "gone" THEN 0 ELSE 1
  <2>1. r \in Object!Holding /\ Object!Holding' = Object!Holding \ {r}
    BY <1>1, <1>2, <1>7 DEF Object!Holding, ObjectInv, ObjectTypes
  <2>2. Cardinality(Object!Holding') = Cardinality(Object!Holding) - 1
    BY <2>1, HoldingFinite, FS_RemoveElement
  <2>3. obj.reference = Cardinality(Object!Holding) + w /\ (obj.alive <=> obj.reference > 0)
    BY ObjectCount DEF ObjectInv, Object!ObjectCounted
  <2>4. w \in {0, 1}
    OBVIOUS
  <2> HIDE DEF w
  <2>5. obj'.reference = Cardinality(Object!Holding') + w
    BY <1>3, <1>4, <2>2, <2>3, <2>4, HoldingFinite
  <2>6. obj.reference > 0 /\ (obj.reference # 1 <=> obj'.reference > 0)
    BY <1>3, <1>4, <2>1, <2>2, <2>3, <2>4, HoldingFinite, FS_EmptySet
  <2>7. obj'.alive <=> obj'.reference > 0
    BY <1>5, <2>3, <2>6
  <2> QED BY <1>1, <2>5, <2>7, ObjectCount DEF Object!ObjectCounted, w
<1>11. Object!WriterHolds'
  BY <1>1, <1>4 DEF ObjectInv, Object!WriterHolds
<1>12. Object!ReadersPlaced' /\ Object!SeenKept'
  BY <1>1, <1>2, <1>7 DEF ObjectInv, ObjectTypes, Object!ReadersPlaced, Object!SeenKept
<1> QED BY <1>8, <1>9, <1>10, <1>11, <1>12 DEF ObjectInv


LEMMA ObjectStep == ObjectInv /\ [Object!Next]_Object!vars => ObjectInv'
<1> SUFFICES ASSUME ObjectInv, [Object!Next]_Object!vars PROVE ObjectInv'
  OBVIOUS
<1>1. CASE UNCHANGED Object!vars
  BY <1>1 DEF Object!vars, ObjectInv, ObjectTypes, Summed, Object!ObjectCounted, Object!WriterHolds,
              Object!ReadersPlaced, Object!SeenKept, Object!Holding
<1>2. CASE Object!Next
  BY <1>2, GiveStep, UpdateStep, ReleaseOldStep, DeleteWriterStep, ReaderSteps, TakeStep, CompareStep,
     DropStep, DecStep DEF Object!Next
<1> QED BY <1>1, <1>2

LEMMA ObjectInit == Object!Init => ObjectInv
<1> SUFFICES ASSUME Object!Init PROVE ObjectInv
  OBVIOUS
<1>1. PICK a \in Address :
        /\ obj = [alive |-> TRUE, reference |-> 1, copy |-> a]
        /\ copy = [x \in Address |-> IF x = a THEN Object!NewCopy(a, 1) ELSE [reference |-> 0, version |-> 0]]
  BY DEF Object!Init
<1>2. ObjectTypes
  BY <1>1, ObjectAssumption
     DEF Object!Init, ObjectTypes, Objects, Copies, Object!NewCopy, Somewhere
<1>3. \A b : Number(lastcopy, b) = (IF b = NULL THEN Cardinality(Reader) ELSE 0)
  <2> SUFFICES ASSUME NEW b PROVE Number(lastcopy, b) = (IF b = NULL THEN Cardinality(Reader) ELSE 0)
    OBVIOUS
  <2>1. {r \in Reader : lastcopy[r] = b} = IF b = NULL THEN Reader ELSE {}
    BY DEF Object!Init
  <2> QED BY <2>1, FS_EmptySet DEF Number
<1>4. Summed
  <2> SUFFICES ASSUME NEW b \in Address
      PROVE copy[b].reference = Number(lastcopy, b) + Number(taken, b) + Same(obj.copy, b) + Same(old, b)
    BY DEF Summed
  <2>1. Number(lastcopy, b) = 0 /\ Number(taken, b) = 0 /\ Same(old, b) = 0
    BY <1>3, ObjectAssumption DEF Object!Init, Same
  <2>2. copy[b].reference = Same(obj.copy, b)
    BY <1>1 DEF Same, Object!NewCopy
  <2>3. Same(obj.copy, b) \in Nat
    BY DEF Same
  <2> QED BY <2>1, <2>2, <2>3
<1>5. Object!ObjectCounted
  <2>1. Object!Holding = {}
    BY DEF Object!Init, Object!Holding
  <2> QED BY <1>1, <2>1, FS_EmptySet, ObjectCount DEF Object!Init, Object!ObjectCounted
<1>6. Object!WriterHolds /\ Object!ReadersPlaced /\ Object!SeenKept
  BY <1>1, ObjectAssumption DEF Object!Init, Object!WriterHolds, Object!ReadersPlaced, Object!SeenKept
<1> QED BY <1>2, <1>4, <1>5, <1>6 DEF ObjectInv

\* A copy is freed with its last reference and not before, a reader that is told "not
\* update" has the value the object has, and the object goes with the last who held
\* it: for any readers, addresses and number of updates.
THEOREM ObjectTheorem == Object!Spec => []ObjectKept
<1>1. ObjectInv => ObjectKept
  <2> SUFFICES ASSUME ObjectInv PROVE Object!NotUpdateTrue /\ Object!ObjectFreed
    BY ObjectInvIs DEF ObjectKept, Object!Inv
  <2>1. Object!NotUpdateTrue
    BY DEF ObjectInv, Object!NotUpdateTrue, Object!SeenKept
  <2>2. Object!ObjectFreed
    <3> SUFFICES ASSUME writer = "gone",
                        \A r \in Reader : box[r] \in {"none", "gone"} /\ reader[r] \in {"idle", "drop"}
        PROVE ~obj.alive
      BY DEF Object!ObjectFreed
    <3>1. Object!Holding = {}
      BY DEF Object!Holding
    <3> QED BY <3>1, FS_EmptySet, ObjectCount DEF ObjectInv, Object!ObjectCounted
  <2> QED BY <2>1, <2>2
<1> QED BY <1>1, ObjectInit, ObjectStep, PTL DEF Object!Spec

-----------------------------------------------------------------------------
(***************************************************************************)
(* The data center: what holds of prefixes, and of trees over any order.   *)
(***************************************************************************)
\* A prefix agrees in each key.
Begins(s, t) == Len(s) <= Len(t) /\ \A i \in 1 .. Len(s) : s[i] = t[i]

LEMMA FirstKeys ==
  ASSUME NEW S, NEW t \in Seq(S), NEW n \in 0 .. Len(t)
  PROVE  /\ SubSeq(t, 1, n) \in Seq(S) /\ Len(SubSeq(t, 1, n)) = n
         /\ \A i \in 1 .. n : SubSeq(t, 1, n)[i] = t[i]
<1>1. Len(t) \in Nat /\ \A i \in 1 .. Len(t) : t[i] \in S
  BY LenProperties, ElementOfSeq
<1>2. n \in Int /\ 1 \in Int /\ \A i \in 1 .. n : t[i] \in S
  BY <1>1
<1>3. /\ SubSeq(t, 1, n) \in Seq(S)
      /\ Len(SubSeq(t, 1, n)) = IF 1 <= n THEN n - 1 + 1 ELSE 0
      /\ \A i \in 1 .. n - 1 + 1 : SubSeq(t, 1, n)[i] = t[1 + i - 1]
  BY <1>2, SubSeqProperties
<1> QED BY <1>1, <1>3

LEMMA PrefixIs ==
  ASSUME NEW S, NEW s \in Seq(S), NEW t \in Seq(S)
  PROVE  Len(s) <= Len(t) /\ SubSeq(s, 1, Len(s)) = SubSeq(t, 1, Len(s)) <=> Begins(s, t)
<1>1. Len(s) \in Nat /\ Len(t) \in Nat /\ SubSeq(s, 1, Len(s)) = s
  BY LenProperties, SubSeqFull
<1>2. ASSUME Len(s) <= Len(t) PROVE s = SubSeq(t, 1, Len(s)) <=> \A i \in 1 .. Len(s) : s[i] = t[i]
  <2> DEFINE r == SubSeq(t, 1, Len(s))
  <2>1. r \in Seq(S) /\ Len(r) = Len(s) /\ \A i \in 1 .. Len(s) : r[i] = t[i]
    BY <1>1, <1>2, FirstKeys
  <2> HIDE DEF r
  <2>2. ASSUME \A i \in 1 .. Len(s) : s[i] = t[i] PROVE s = r
    <3>1. Len(s) = Len(r) /\ \A i \in 1 .. Len(s) : s[i] = r[i]
      BY <2>1, <2>2
    <3> QED BY <2>1, <3>1, SeqEqual
  <2>3. s = r => \A i \in 1 .. Len(s) : s[i] = t[i]
    BY <2>1
  <2>4. s = r <=> \A i \in 1 .. Len(s) : s[i] = t[i]
    BY <2>2, <2>3
  <2> QED BY <2>4 DEF r
<1> QED BY <1>1, <1>2 DEF Begins

LEMMA BeginsOrder ==
  ASSUME NEW S, NEW r \in Seq(S), NEW s \in Seq(S), NEW t \in Seq(S)
  PROVE  /\ Begins(s, s)
         /\ Begins(r, s) /\ Begins(s, t) => Begins(r, t)
         /\ Begins(s, t) /\ Len(s) = Len(t) => s = t
<1>1. Len(r) \in Nat /\ Len(s) \in Nat /\ Len(t) \in Nat
  BY LenProperties
<1>2. Begins(s, t) /\ Len(s) = Len(t) => s = t
  BY SeqEqual DEF Begins
<1> QED BY <1>1, <1>2 DEF Begins

LEMMA BeginsAppend ==
  ASSUME NEW S, NEW s \in Seq(S), NEW t \in Seq(S), NEW v \in S
  PROVE  /\ Begins(s, Append(t, v)) <=> Begins(s, t) \/ s = Append(t, v)
         /\ Len(Append(t, v)) = Len(t) + 1
<1>1. /\ Append(t, v) \in Seq(S) /\ Len(Append(t, v)) = Len(t) + 1
      /\ \A i \in 1 .. Len(t) : Append(t, v)[i] = t[i]
  BY AppendProperties
<1>2. Len(s) \in Nat /\ Len(t) \in Nat
  BY LenProperties
<1>3. CASE Len(s) <= Len(t)
  <2>1. s # Append(t, v)
    BY <1>1, <1>2, <1>3
  <2> QED BY <1>1, <1>2, <1>3, <2>1 DEF Begins
<1>4. CASE ~ (Len(s) <= Len(t))
  <2>1. ~Begins(s, t)
    BY <1>4 DEF Begins
  <2>2. Begins(s, Append(t, v)) => s = Append(t, v)
    <3>1. Begins(s, Append(t, v)) => Len(s) = Len(Append(t, v))
      BY <1>1, <1>2, <1>4 DEF Begins
    <3> QED BY <1>1, <3>1, BeginsOrder
  <2>3. s = Append(t, v) => Begins(s, Append(t, v))
    BY <1>1, BeginsOrder
  <2> QED BY <1>1, <2>1, <2>2, <2>3
<1> QED BY <1>3, <1>4

(***************************************************************************)
(* A tree over an order: A gives the nodes above one.  What an update does *)
(* to the values, what a wait and a wakeup do to the queues.               *)
(***************************************************************************)
Order(N, A) ==
  /\ A \in [N -> SUBSET N]
  /\ \A x \in N : x \notin A[x]
  /\ \A x, y, z \in N : x \in A[y] /\ y \in A[z] => x \in A[z]

Tables(N, A, d) == \A x \in N : d[x] # NULL => \A y \in A[x] : d[y] = TABLE
Branched(N, A, q) == \A x \in N : q[x] # "none" => \A y \in A[x] : q[y] = "branch"

LEMMA UpdateTree ==
  ASSUME NEW N, NEW A, Order(N, A), NEW d, NEW p \in N, NEW v, Tables(N, A, d)
  PROVE  Tables(N, A, [x \in N |-> IF x = p THEN v ELSE IF x \in A[p] THEN TABLE
                                    ELSE IF p \in A[x] THEN NULL ELSE d[x]])
<1> DEFINE e == [x \in N |-> IF x = p THEN v ELSE IF x \in A[p] THEN TABLE
                             ELSE IF p \in A[x] THEN NULL ELSE d[x]]
<1> SUFFICES ASSUME NEW x \in N, e[x] # NULL, NEW y \in A[x] PROVE e[y] = TABLE
  BY DEF Tables
<1>1. y \in N /\ x # y
  BY DEF Order
<1>2. CASE x = p \/ x \in A[p]
  <2>1. y \in A[p] /\ y # p
    BY <1>1, <1>2 DEF Order
  <2> QED BY <1>1, <2>1
<1>3. CASE x # p /\ x \notin A[p]
  <2>1. p \notin A[x] /\ d[x] # NULL
    BY <1>3
  <2>2. y # p /\ p \notin A[y] /\ d[y] = TABLE
    BY <1>1, <2>1 DEF Order, Tables
  <2> QED BY <1>1, <2>2
<1> QED BY <1>2, <1>3

LEMMA WaitTree ==
  ASSUME NEW N, NEW A, Order(N, A), NEW q, NEW p \in N, Branched(N, A, q), q[p] # "branch"
  PROVE  Branched(N, A, [x \in N |-> IF x = p THEN "queue" ELSE IF x \in A[p] THEN "branch" ELSE q[x]])
<1> DEFINE e == [x \in N |-> IF x = p THEN "queue" ELSE IF x \in A[p] THEN "branch" ELSE q[x]]
<1> SUFFICES ASSUME NEW x \in N, e[x] # "none", NEW y \in A[x] PROVE e[y] = "branch"
  BY DEF Branched
<1>1. y \in N /\ x # y
  BY DEF Order
<1>2. CASE x = p \/ x \in A[p]
  <2>1. y \in A[p] /\ y # p
    BY <1>1, <1>2 DEF Order
  <2> QED BY <1>1, <2>1
<1>3. CASE x # p /\ x \notin A[p]
  <2>1. q[x] # "none"
    BY <1>3
  <2>2. q[y] = "branch" /\ y # p
    BY <2>1 DEF Branched
  <2> QED BY <1>1, <2>2
<1> QED BY <1>2, <1>3

LEMMA WakeTree ==
  ASSUME NEW N, NEW A, Order(N, A), NEW q \in [N -> {"queue", "branch", "none"}], NEW p \in N,
         Branched(N, A, q), q[p] = "queue"
  PROVE  Branched(N, A, [q EXCEPT ![p] = "none"])
<1> SUFFICES ASSUME NEW x \in N, x # p, q[x] # "none", NEW y \in A[x] PROVE y # p /\ q[y] = "branch" /\ y \in N
  BY DEF Branched
<1> QED BY DEF Branched, Order

\* The nodes of a set of paths, and those above each.
FirstKeysOf(s) == {SubSeq(s, 1, l) : l \in 0 .. Len(s)}
NodesOf(P) == (UNION {FirstKeysOf(s) : s \in P}) \ {<<>>}
AboveIn(N) == [x \in N |-> {y \in N : Begins(y, x) /\ y # x}]

LEMMA NodesOfPaths ==
  ASSUME NEW K, NEW P \in SUBSET Seq(K), <<>> \notin P
  PROVE  /\ NodesOf(P) \subseteq Seq(K) /\ P \subseteq NodesOf(P)
         /\ \A x \in NodesOf(P) : Len(x) > 0 /\ \E s \in P : Begins(x, s)
         /\ \A s \in P : SubSeq(s, 1, 1) \in NodesOf(P) /\ Len(SubSeq(s, 1, 1)) = 1 /\ Begins(SubSeq(s, 1, 1), s)
<1>1. ASSUME NEW s \in P, NEW l \in 0 .. Len(s)
      PROVE  SubSeq(s, 1, l) \in Seq(K) /\ Len(SubSeq(s, 1, l)) = l /\ Begins(SubSeq(s, 1, l), s)
  <2>1. s \in Seq(K) /\ Len(s) \in Nat
    BY LenProperties
  <2> QED BY <2>1, FirstKeys DEF Begins
<1>2. \A x \in NodesOf(P) : x \in Seq(K) /\ x # <<>> /\ \E s \in P : Begins(x, s)
  <2> SUFFICES ASSUME NEW x \in NodesOf(P) PROVE x \in Seq(K) /\ x # <<>> /\ \E s \in P : Begins(x, s)
    OBVIOUS
  <2>1. x # <<>> /\ \E s \in P : \E l \in 0 .. Len(s) : x = SubSeq(s, 1, l)
    BY DEF NodesOf, FirstKeysOf
  <2>2. PICK s \in P : \E l \in 0 .. Len(s) : x = SubSeq(s, 1, l)
    BY <2>1
  <2>3. PICK l \in 0 .. Len(s) : x = SubSeq(s, 1, l)
    BY <2>2
  <2> QED BY <1>1, <2>1, <2>3
<1>0. ASSUME NEW s \in P, NEW l \in 0 .. Len(s), SubSeq(s, 1, l) # <<>> PROVE SubSeq(s, 1, l) \in NodesOf(P)
  <2>1. SubSeq(s, 1, l) \in FirstKeysOf(s)
    BY DEF FirstKeysOf
  <2>2. SubSeq(s, 1, l) \in UNION {FirstKeysOf(r) : r \in P}
    BY <2>1
  <2> QED BY <1>0, <2>2 DEF NodesOf
<1>3. \A x \in NodesOf(P) : Len(x) > 0
  <2> SUFFICES ASSUME NEW x \in NodesOf(P) PROVE Len(x) > 0
    OBVIOUS
  <2>1. x \in Seq(K) /\ x # <<>>
    BY <1>2
  <2>2. Len(x) \in Nat \ {0}
    BY <2>1, EmptySeq
  <2> QED BY <2>2
<1>4. P \subseteq NodesOf(P)
  <2> SUFFICES ASSUME NEW s \in P PROVE s \in NodesOf(P)
    OBVIOUS
  <2>1. s \in Seq(K) /\ Len(s) \in Nat /\ SubSeq(s, 1, Len(s)) = s
    BY LenProperties, SubSeqFull
  <2>2. s # <<>> /\ Len(s) \in 0 .. Len(s)
    BY <2>1
  <2> QED BY <1>0, <2>1, <2>2
<1>5. ASSUME NEW s \in P PROVE SubSeq(s, 1, 1) \in NodesOf(P) /\ 1 \in 0 .. Len(s)
  <2>1. Len(s) \in Nat /\ Len(s) > 0
    BY <1>3, <1>4, LenProperties
  <2>2. Len(SubSeq(s, 1, 1)) = 1
    BY <1>1, <2>1
  <2>3. SubSeq(s, 1, 1) # <<>>
    BY <2>2, EmptySeq
  <2> QED BY <1>0, <2>1, <2>3
<1> QED BY <1>1, <1>2, <1>3, <1>4, <1>5

LEMMA NodesOrdered ==
  ASSUME NEW K, NEW N \in SUBSET Seq(K)
  PROVE  Order(N, AboveIn(N))
<1>1. AboveIn(N) \in [N -> SUBSET N]
  BY DEF AboveIn
<1>2. \A x \in N : x \notin AboveIn(N)[x]
  BY DEF AboveIn
<1>3. ASSUME NEW x \in N, NEW y \in N, NEW z \in N, x \in AboveIn(N)[y], y \in AboveIn(N)[z]
      PROVE  x \in AboveIn(N)[z]
  <2>1. Begins(x, y) /\ Begins(y, z) /\ x # y /\ y # z
    BY <1>3 DEF AboveIn
  <2>2. Begins(x, z)
    BY <2>1, BeginsOrder
  <2>3. x # z
    <3> SUFFICES ASSUME x = z PROVE FALSE
      OBVIOUS
    <3>1. Len(x) = Len(y)
      BY <2>1, LenProperties DEF Begins
    <3> QED BY <2>1, <3>1, BeginsOrder
  <2> QED BY <2>2, <2>3 DEF AboveIn
<1> QED BY <1>1, <1>2, <1>3 DEF Order

\* The nodes of the two data centers, with what the code says of them.
LEMMA DeepNodes ==
  /\ Paths!Node \subseteq Seq(Key) /\ Deep \subseteq Paths!Node
  /\ Order(Paths!Node, AboveIn(Paths!Node))
  /\ \A x \in Paths!Node : Paths!Above(x) = AboveIn(Paths!Node)[x]
  /\ \A x, p \in Paths!Node : x \in Paths!Below(p) <=> p \in AboveIn(Paths!Node)[x]
  /\ NULL \notin Paths!Node
<1>1. Paths!Node = NodesOf(Deep)
  BY DEF Paths!Node, Paths!Prefixes, NodesOf, FirstKeysOf
<1>2. Paths!Node \subseteq Seq(Key) /\ Deep \subseteq Paths!Node
  BY <1>1, NodesOfPaths, PathAssumption
<1>3. \A s, t \in Paths!Node : Paths!IsStrictPrefix(s, t) <=> Begins(s, t) /\ s # t
  BY <1>2, PrefixIs DEF Paths!IsStrictPrefix, Paths!IsPrefix
<1>4. \A x \in Paths!Node : Paths!Above(x) = AboveIn(Paths!Node)[x]
  BY <1>3 DEF Paths!Above, AboveIn
<1>5. \A x, p \in Paths!Node : x \in Paths!Below(p) <=> p \in AboveIn(Paths!Node)[x]
  BY <1>3 DEF Paths!Below, AboveIn
<1> QED BY <1>2, <1>4, <1>5, NodesOrdered, PathAssumption

LEMMA FlatNodes ==
  /\ Names!Node \subseteq Seq(Key) /\ Flat \subseteq Names!Node
  /\ Order(Names!Node, AboveIn(Names!Node))
  /\ \A x \in Names!Node : Names!Above(x) = AboveIn(Names!Node)[x]
  /\ \A x, p \in Names!Node : x \in Names!Below(p) <=> p \in AboveIn(Names!Node)[x]
  /\ NULL \notin Names!Node
  /\ \A p \in Flat : Names!Below(p) = {} /\ Names!Above(p) \cap Flat = {}
  /\ \A p \in Flat : SubSeq(p, 1, 1) \in Names!Above(p) \cup {p} /\ Names!Above(p) \subseteq {SubSeq(p, 1, 1)}
<1>1. Names!Node = NodesOf(Flat)
  BY DEF Names!Node, Names!Prefixes, NodesOf, FirstKeysOf
<1>2. Names!Node \subseteq Seq(Key) /\ Flat \subseteq Names!Node
  BY <1>1, NodesOfPaths, PathAssumption
<1>3. \A s, t \in Names!Node : Names!IsStrictPrefix(s, t) <=> Begins(s, t) /\ s # t
  BY <1>2, PrefixIs DEF Names!IsStrictPrefix, Names!IsPrefix
<1>4. \A x \in Names!Node : Names!Above(x) = AboveIn(Names!Node)[x]
  BY <1>3 DEF Names!Above, AboveIn
<1>5. \A x, p \in Names!Node : x \in Names!Below(p) <=> p \in AboveIn(Names!Node)[x]
  BY <1>3 DEF Names!Below, AboveIn
<1>6. \A p, q \in Flat : ~ (Begins(p, q) /\ p # q)
  BY <1>2, <1>3, PathAssumption
<1>7. ASSUME NEW p \in Flat PROVE Names!Below(p) = {} /\ Names!Above(p) \cap Flat = {}
  <2>1. Names!Above(p) \cap Flat = {}
    BY <1>2, <1>3, <1>6 DEF Names!Above
  <2>2. ASSUME NEW x \in Names!Below(p) PROVE FALSE
    <3>1. x \in Names!Node /\ Begins(p, x) /\ p # x
      BY <1>2, <1>3 DEF Names!Below
    <3>2. PICK s \in Flat : Begins(x, s)
      BY <1>1, <3>1, NodesOfPaths, PathAssumption
    <3>3. p \in Seq(Key) /\ x \in Seq(Key) /\ s \in Seq(Key)
      BY <1>2, <3>1
    <3>4. Begins(p, s) /\ p = s
      BY <1>6, <3>1, <3>2, <3>3, BeginsOrder
    <3>5. Len(p) = Len(x)
      BY <3>1, <3>2, <3>3, <3>4, LenProperties DEF Begins
    <3> QED BY <3>1, <3>3, <3>5, BeginsOrder
  <2> QED BY <2>1, <2>2
<1>8. ASSUME NEW p \in Flat
      PROVE  SubSeq(p, 1, 1) \in Names!Above(p) \cup {p} /\ Names!Above(p) \subseteq {SubSeq(p, 1, 1)}
  <2> DEFINE h == SubSeq(p, 1, 1)
  <2>1. h \in Names!Node /\ Len(h) = 1 /\ Begins(h, p)
    BY <1>1, NodesOfPaths, PathAssumption
  <2> HIDE DEF h
  <2>2. h \in Names!Above(p) \cup {p}
    BY <1>2, <1>3, <2>1 DEF Names!Above
  <2>3. ASSUME NEW x \in Names!Above(p) PROVE x = h
    <3>1. x \in Names!Node /\ Begins(x, p) /\ x # p
      BY <1>2, <1>3 DEF Names!Above
    <3>2. x \in Seq(Key) /\ p \in Seq(Key) /\ h \in Seq(Key)
      BY <1>2, <2>1, <3>1
    <3>3. Len(x) \in Nat /\ Len(p) \in Nat /\ Len(x) > 0 /\ Len(p) <= 2
      BY <1>1, <3>1, <3>2, LenProperties, NodesOfPaths, PathAssumption
    <3>4. Len(x) # Len(p)
      BY <3>1, <3>2, BeginsOrder
    <3>5. Len(x) = 1 /\ Len(x) = Len(h)
      BY SMTT(30), <2>1, <3>1, <3>3, <3>4 DEF Begins
    <3>6. \A i \in 1 .. Len(x) : x[i] = h[i]
      BY <2>1, <3>1, <3>5 DEF Begins
    <3> QED BY <3>2, <3>5, <3>6, SeqEqual
  <2> QED BY <2>2, <2>3 DEF h
<1> QED BY <1>2, <1>4, <1>5, <1>7, <1>8, NodesOrdered, PathAssumption

\* Of the prefixes of a path with a value after it, the one before the value is the path.
LEMMA LastBefore ==
  ASSUME NEW p \in Seq(Key), NEW q \in Seq(Key), NEW v,
         Len(q) <= Len(Append(p, v)), SubSeq(q, 1, Len(q)) = SubSeq(Append(p, v), 1, Len(q))
  PROVE  /\ Len(Append(p, v)) = Len(q) + 1 <=> q = p
         /\ Begins(q, p) \/ q = Append(p, v)
<1> DEFINE S == Key \cup {v}
<1>1. p \in Seq(S) /\ q \in Seq(S) /\ v \in S
  BY SeqMonotonic
<1> HIDE DEF S
<1>2. Len(p) \in Nat /\ Len(q) \in Nat /\ Append(p, v) \in Seq(S) /\ Len(Append(p, v)) = Len(p) + 1
  BY <1>1, LenProperties, AppendProperties
<1>3. Begins(q, Append(p, v))
  BY <1>1, <1>2, PrefixIs
<1>4. Begins(q, p) \/ q = Append(p, v)
  BY <1>1, <1>3, BeginsAppend
<1>5. Begins(q, p) /\ Len(q) = Len(p) => q = p
  BY <1>1, BeginsOrder
<1> QED BY <1>2, <1>4, <1>5

-----------------------------------------------------------------------------
(***************************************************************************)
(* Any paths.                                                              *)
(***************************************************************************)
LEMMA PathTrees ==
  ASSUME Paths!Typed
  PROVE  Paths!TypeOK <=> /\ Tables(Paths!Node, AboveIn(Paths!Node), tree)
                          /\ Branched(Paths!Node, AboveIn(Paths!Node), tree_queue)
                          /\ \A c \in Caller : tree_waiting[c] # NULL => tree_queue[tree_waiting[c]] = "queue"
  BY DeepNodes DEF Paths!TypeOK, Tables, Branched

LEMMA PathTreesAfter ==
  ASSUME Paths!Typed'
  PROVE  Paths!TypeOK' <=> /\ Tables(Paths!Node, AboveIn(Paths!Node), tree')
                           /\ Branched(Paths!Node, AboveIn(Paths!Node), tree_queue')
                           /\ \A c \in Caller : tree_waiting'[c] # NULL => tree_queue'[tree_waiting'[c]] = "queue"
  BY DeepNodes DEF Paths!TypeOK, Tables, Branched

\* A wakeup empties one queue at most.
LEMMA PathWakeup ==
  ASSUME Paths!Inv, NEW p \in Deep, NEW v \in DeepLeaf, Paths!wakeup(Append(p, v), v)
  PROVE  /\ tree_queue' \in [Paths!Node -> {"queue", "branch", "none"}]
         /\ tree_waiting' \in [Caller -> Paths!Node \cup {NULL}]
         /\ tree_answer' \in [Caller -> DeepLeaf \cup {NULL, TABLE, FAILED}]
         /\ Branched(Paths!Node, AboveIn(Paths!Node), tree_queue')
         /\ \A c \in Caller : tree_waiting'[c] # NULL => tree_queue'[tree_waiting'[c]] = "queue"
         /\ \A c \in Caller : tree_waiting[c] # NULL /\ tree_waiting'[c] = NULL =>
              tree_answer'[c] = FAILED \/ (tree_answer'[c] = v /\ tree_waiting[c] = p)
<1>1. /\ tree_queue \in [Paths!Node -> {"queue", "branch", "none"}]
      /\ tree_waiting \in [Caller -> Paths!Node \cup {NULL}]
      /\ tree_answer \in [Caller -> DeepLeaf \cup {NULL, TABLE, FAILED}]
      /\ Branched(Paths!Node, AboveIn(Paths!Node), tree_queue)
      /\ \A c \in Caller : tree_waiting[c] # NULL => tree_queue[tree_waiting[c]] = "queue"
  BY PathTrees DEF Paths!Inv, Paths!Typed
<1>2. CASE UNCHANGED <<tree_queue, tree_waiting, tree_answer>>
  BY <1>1, <1>2
<1>3. CASE ~ UNCHANGED <<tree_queue, tree_waiting, tree_answer>>
  <2>1. PICK q \in Paths!Queue(Append(p, v)) :
          /\ tree_queue' = [tree_queue EXCEPT ![q] = "none"]
          /\ tree_waiting' = [c \in Caller |-> IF c \in Paths!Woken(q) THEN NULL ELSE tree_waiting[c]]
          /\ tree_answer' = [c \in Caller |-> IF c \notin Paths!Woken(q) THEN tree_answer[c]
                                              ELSE IF Paths!IsLast(Append(p, v), q) THEN v ELSE FAILED]
    BY <1>3 DEF Paths!wakeup
  <2>2. q \in Paths!Node /\ tree_queue[q] = "queue" /\ Paths!IsPrefix(q, Append(p, v))
    BY DEF Paths!Queue
  <2>3. Paths!IsLast(Append(p, v), q) => q = p
    <3>1. p \in Seq(Key) /\ q \in Seq(Key)
      BY <2>2, DeepNodes
    <3> QED BY <2>2, <3>1, LastBefore DEF Paths!IsLast, Paths!IsPrefix
  <2>4. Branched(Paths!Node, AboveIn(Paths!Node), tree_queue')
    BY <1>1, <2>1, <2>2, WakeTree, DeepNodes
  <2>5. \A c \in Caller : tree_waiting'[c] # NULL => tree_waiting'[c] = tree_waiting[c] /\ tree_waiting[c] # q
    BY <2>1 DEF Paths!Woken
  <2>6. \A c \in Caller : tree_waiting'[c] # NULL => tree_queue'[tree_waiting'[c]] = "queue"
    BY <1>1, <2>1, <2>5
  <2>7. /\ tree_queue' \in [Paths!Node -> {"queue", "branch", "none"}]
        /\ tree_waiting' \in [Caller -> Paths!Node \cup {NULL}]
        /\ tree_answer' \in [Caller -> DeepLeaf \cup {NULL, TABLE, FAILED}]
    BY <1>1, <2>1
  <2>8. \A c \in Caller : tree_waiting[c] # NULL /\ tree_waiting'[c] = NULL =>
          tree_answer'[c] = FAILED \/ (tree_answer'[c] = v /\ tree_waiting[c] = p)
    BY <2>1, <2>3 DEF Paths!Woken
  <2> QED BY <2>4, <2>6, <2>7, <2>8
<1> QED BY <1>2, <1>3

LEMMA PathUpdate ==
  ASSUME Paths!Inv, NEW p \in Deep, NEW v \in DeepLeaf \cup {NULL}, Paths!UPDATE(p, v)
  PROVE  /\ Paths!Inv'
         /\ \A c \in Caller : tree_waiting[c] # NULL /\ tree_waiting'[c] = NULL =>
              tree_answer'[c] \in {FAILED, tree'[tree_waiting[c]]}
<1> DEFINE N == Paths!Node
           A == AboveIn(Paths!Node)
<1>1. p \in N /\ Order(N, A) /\ NULL \notin N
  BY DeepNodes
<1>2. tree' = [x \in N |-> IF x = p THEN v ELSE IF x \in A[p] THEN TABLE ELSE IF p \in A[x] THEN NULL ELSE tree[x]]
  BY <1>1, DeepNodes DEF Paths!UPDATE
<1>3. /\ tree \in [N -> DeepLeaf \cup {NULL, TABLE}] /\ Tables(N, A, tree)
      /\ tree_queue \in [N -> {"queue", "branch", "none"}]
      /\ tree_waiting \in [Caller -> N \cup {NULL}]
      /\ tree_answer \in [Caller -> DeepLeaf \cup {NULL, TABLE, FAILED}]
      /\ Branched(N, A, tree_queue)
      /\ \A c \in Caller : tree_waiting[c] # NULL => tree_queue[tree_waiting[c]] = "queue"
  BY PathTrees DEF Paths!Inv, Paths!Typed
<1>4. \/ UNCHANGED <<tree_queue, tree_waiting, tree_answer>>
      \/ v \in DeepLeaf /\ Paths!wakeup(Append(p, v), v)
  BY DEF Paths!UPDATE
<1>5. /\ tree_queue' \in [N -> {"queue", "branch", "none"}]
      /\ tree_waiting' \in [Caller -> N \cup {NULL}]
      /\ tree_answer' \in [Caller -> DeepLeaf \cup {NULL, TABLE, FAILED}]
      /\ Branched(N, A, tree_queue')
      /\ \A c \in Caller : tree_waiting'[c] # NULL => tree_queue'[tree_waiting'[c]] = "queue"
      /\ \A c \in Caller : tree_waiting[c] # NULL /\ tree_waiting'[c] = NULL =>
           tree_answer'[c] = FAILED \/ (tree_answer'[c] = v /\ tree_waiting[c] = p)
  BY <1>3, <1>4, PathWakeup
<1>6. tree' \in [N -> DeepLeaf \cup {NULL, TABLE}]
  BY <1>2, <1>3
<1>7. Tables(N, A, tree')
  BY <1>1, <1>2, <1>3, UpdateTree
<1>8. tree'[p] = v
  BY <1>1, <1>2
<1>9. Paths!Typed'
  BY <1>5, <1>6 DEF Paths!Typed
<1>10. Paths!TypeOK'
  BY <1>5, <1>7, <1>9, PathTreesAfter
<1> QED BY <1>5, <1>8, <1>9, <1>10 DEF Paths!Inv

LEMMA PathWait ==
  ASSUME Paths!Inv, NEW p \in Deep, NEW c \in Caller, Paths!WAIT(c, p)
  PROVE  /\ Paths!Inv'
         /\ \A d \in Caller : ~ (tree_waiting[d] # NULL /\ tree_waiting'[d] = NULL)
<1> DEFINE N == Paths!Node
           A == AboveIn(Paths!Node)
<1>1. p \in N /\ Order(N, A) /\ NULL \notin N
  BY DeepNodes
<1>2. /\ tree \in [N -> DeepLeaf \cup {NULL, TABLE}] /\ Tables(N, A, tree)
      /\ tree_queue \in [N -> {"queue", "branch", "none"}]
      /\ tree_waiting \in [Caller -> N \cup {NULL}]
      /\ tree_answer \in [Caller -> DeepLeaf \cup {NULL, TABLE, FAILED}]
      /\ Branched(N, A, tree_queue)
      /\ \A d \in Caller : tree_waiting[d] # NULL => tree_queue[tree_waiting[d]] = "queue"
  BY PathTrees DEF Paths!Inv, Paths!Typed
<1>3. tree' = tree /\ Tables(N, A, tree')
  BY <1>2 DEF Paths!WAIT
<1>4. Paths!QUERY(p) \in DeepLeaf \cup {NULL, TABLE, FAILED}
  BY <1>1, <1>2 DEF Paths!QUERY
<1>5. CASE UNCHANGED <<tree_queue, tree_waiting>> /\ tree_answer' \in [Caller -> DeepLeaf \cup {NULL, TABLE, FAILED}]
  <2>1. Paths!Typed'
    BY <1>2, <1>3, <1>5 DEF Paths!Typed
  <2>2. /\ Branched(N, A, tree_queue')
        /\ \A d \in Caller : tree_waiting'[d] # NULL => tree_queue'[tree_waiting'[d]] = "queue"
    BY <1>2, <1>5
  <2>3. Paths!TypeOK'
    BY <1>3, <2>1, <2>2, PathTreesAfter
  <2> QED BY <1>5, <2>1, <2>3 DEF Paths!Inv
<1>6. CASE /\ ~Paths!Refused(p) /\ UNCHANGED tree_answer
           /\ tree_queue' = [q \in N |-> IF q = p THEN "queue" ELSE IF q \in A[p] THEN "branch" ELSE tree_queue[q]]
           /\ tree_waiting' = [tree_waiting EXCEPT ![c] = p]
  <2>1. tree_queue[p] # "branch" /\ \A q \in A[p] : tree_queue[q] # "queue"
    BY <1>1, <1>6, DeepNodes DEF Paths!Refused
  <2>2. Branched(N, A, tree_queue')
    BY <1>1, <1>2, <1>6, <2>1, WaitTree
  <2>3. \A d \in Caller : tree_waiting'[d] # NULL => tree_queue'[tree_waiting'[d]] = "queue"
    BY <1>1, <1>2, <1>6, <2>1
  <2>4. Paths!Typed'
    BY <1>1, <1>2, <1>3, <1>6 DEF Paths!Typed
  <2>5. Paths!TypeOK'
    BY <1>3, <2>2, <2>3, <2>4, PathTreesAfter
  <2>6. \A d \in Caller : ~ (tree_waiting[d] # NULL /\ tree_waiting'[d] = NULL)
    BY <1>1, <1>2, <1>6
  <2> QED BY <2>4, <2>5, <2>6 DEF Paths!Inv
<1>7. \/ UNCHANGED <<tree_queue, tree_waiting>> /\ tree_answer' \in [Caller -> DeepLeaf \cup {NULL, TABLE, FAILED}]
      \/ /\ ~Paths!Refused(p) /\ UNCHANGED tree_answer
         /\ tree_queue' = [q \in N |-> IF q = p THEN "queue" ELSE IF q \in A[p] THEN "branch" ELSE tree_queue[q]]
         /\ tree_waiting' = [tree_waiting EXCEPT ![c] = p]
  BY <1>1, <1>2, <1>4, DeepNodes DEF Paths!WAIT, Paths!Fails, Paths!Branches
<1> QED BY <1>5, <1>6, <1>7

LEMMA PathInit == Paths!Init => Paths!Inv
<1> SUFFICES ASSUME Paths!Init PROVE Paths!Inv
  OBVIOUS
<1>1. Paths!Typed
  BY DEF Paths!Init, Paths!Typed
<1>2. Paths!TypeOK
  BY DEF Paths!Init, Paths!TypeOK
<1> QED BY <1>1, <1>2 DEF Paths!Inv

LEMMA PathStep ==
  ASSUME Paths!Inv, [Paths!Next]_paths
  PROVE  /\ Paths!Inv'
         /\ [\A c \in Caller : tree_waiting[c] # NULL /\ tree_waiting'[c] = NULL =>
               tree_answer'[c] \in {FAILED, tree'[tree_waiting[c]]}]_paths
<1>1. CASE Paths!Next
  <2>1. ASSUME NEW p \in Deep, NEW v \in DeepLeaf \cup {NULL}, Paths!UPDATE(p, v)
        PROVE  /\ Paths!Inv'
               /\ \A c \in Caller : tree_waiting[c] # NULL /\ tree_waiting'[c] = NULL =>
                    tree_answer'[c] \in {FAILED, tree'[tree_waiting[c]]}
    BY <2>1, PathUpdate
  <2>2. ASSUME NEW p \in Deep, NEW c \in Caller, Paths!WAIT(c, p)
        PROVE  /\ Paths!Inv'
               /\ \A d \in Caller : ~ (tree_waiting[d] # NULL /\ tree_waiting'[d] = NULL)
    BY <2>2, PathWait
  <2> QED BY <1>1, <2>1, <2>2 DEF Paths!Next
<1>2. CASE UNCHANGED paths
  BY <1>2 DEF paths, Paths!Inv, Paths!Typed, Paths!TypeOK
<1> QED BY <1>1, <1>2

LEMMA PathTheorem == Paths!Spec => []Paths!TypeOK /\ Paths!RightValue
<1>1. Paths!Inv => Paths!TypeOK
  BY DEF Paths!Inv
<1>2. Paths!Inv /\ [Paths!Next]_Paths!vars =>
        /\ Paths!Inv'
        /\ [\A c \in Caller : tree_waiting[c] # NULL /\ tree_waiting'[c] = NULL =>
              tree_answer'[c] \in {FAILED, tree'[tree_waiting[c]]}]_Paths!vars
  BY PathStep DEF Paths!vars, paths
<1> QED BY <1>1, <1>2, PathInit, PTL DEF Paths!Spec, Paths!RightValue

-----------------------------------------------------------------------------
(***************************************************************************)
(* Names: what the tree and its queues do is what a table of names does.   *)
(***************************************************************************)
LEMMA NameTrees ==
  ASSUME Names!Typed
  PROVE  Names!TypeOK <=> /\ Tables(Names!Node, AboveIn(Names!Node), database)
                          /\ Branched(Names!Node, AboveIn(Names!Node), wait_queue)
                          /\ \A c \in Asker : waiting[c] # NULL => wait_queue[waiting[c]] = "queue"
  BY FlatNodes DEF Names!TypeOK, Tables, Branched

LEMMA NameTreesAfter ==
  ASSUME Names!Typed'
  PROVE  Names!TypeOK' <=> /\ Tables(Names!Node, AboveIn(Names!Node), database')
                           /\ Branched(Names!Node, AboveIn(Names!Node), wait_queue')
                           /\ \A c \in Asker : waiting'[c] # NULL => wait_queue'[waiting'[c]] = "queue"
  BY FlatNodes DEF Names!TypeOK, Tables, Branched

\* NULL, TABLE and FAILED are three values.
LEMMA NoValues ==
  NULL # TABLE /\ NULL # FAILED /\ TABLE # FAILED /\ {NULL, TABLE, FAILED} \cap (FlatLeaf \cup DeepLeaf) = {}
<1>1. ASSUME NEW x, NEW y PROVE Cardinality({x, y, y}) # 3 /\ Cardinality({x, x, y}) # 3 /\ Cardinality({x, y, x}) # 3
  <2>1. IsFiniteSet({y}) /\ Cardinality({y}) = 1
    BY FS_Singleton
  <2>2. Cardinality({y} \cup {x}) \in {1, 2}
    BY <2>1, FS_AddElement
  <2>3. {x, y, y} = {y} \cup {x} /\ {x, x, y} = {y} \cup {x} /\ {x, y, x} = {y} \cup {x}
    OBVIOUS
  <2> QED BY <2>2, <2>3
<1>2. {NULL, TABLE, FAILED} \cap (FlatLeaf \cup DeepLeaf) = {} /\ Cardinality({NULL, TABLE, FAILED}) = 3
  BY PathAssumption
<1> QED BY <1>1, <1>2

\* Of a name the query finds just what is there.
LEMMA NameQuery ==
  ASSUME Names!Inv, Names!NamesApart, NEW p \in Flat
  PROVE  /\ Names!QUERY(p) = database[p] /\ database[p] \in FlatLeaf \cup {NULL}
         /\ ~Names!Refused(p)
<1> DEFINE h == SubSeq(p, 1, 1)
<1>1. /\ p \in Names!Node /\ h \in Names!Above(p) \cup {p} /\ Names!Above(p) \subseteq {h}
      /\ database[p] \in FlatLeaf \cup {NULL, TABLE}
      /\ database[p] # TABLE
      /\ \A q \in Names!Above(p) : database[q] \in {NULL, TABLE} /\ wait_queue[q] # "queue"
      /\ wait_queue[p] # "branch"
      /\ database[p] # NULL => \A q \in Names!Above(p) : database[q] = TABLE
  BY FlatNodes DEF Names!Inv, Names!Typed, Names!TypeOK, Names!NamesApart
<1> HIDE DEF h
<1>2. Names!QUERY(p) = IF database[h] = NULL THEN NULL
                       ELSE IF \E q \in Names!Above(p) : database[q] # TABLE THEN FAILED
                       ELSE database[p]
  BY DEF Names!QUERY, h
<1>3. CASE database[h] = NULL
  <2>1. database[p] = NULL
    BY <1>1, <1>3, NoValues
  <2> QED BY <1>1, <1>2, <1>3, <2>1 DEF Names!Refused
<1>4. CASE database[h] # NULL
  <2>1. \A q \in Names!Above(p) : database[q] = TABLE
    BY <1>1, <1>4
  <2> QED BY <1>1, <1>2, <1>4, <2>1 DEF Names!Refused
<1> QED BY <1>3, <1>4

\* Only the queue of the name itself is found by a wakeup.
LEMMA NameQueue ==
  ASSUME Names!Inv, Names!NamesApart, NEW p \in Flat, NEW v
  PROVE  /\ Names!Queue(Append(p, v)) = {q \in {p} : wait_queue[q] = "queue"}
         /\ Names!IsLast(Append(p, v), p)
<1> DEFINE S == Key \cup {v}
<1>1. p \in Names!Node /\ p \in Seq(Key) /\ Names!Below(p) = {} /\ \A q \in Names!Above(p) : wait_queue[q] # "queue"
  BY FlatNodes DEF Names!NamesApart
<1>2. \A q \in Names!Node : q \in Names!Above(p) <=> Begins(q, p) /\ q # p
  BY <1>1, FlatNodes DEF AboveIn
<1>3. p \in Seq(S) /\ v \in S /\ \A q \in Names!Node : q \in Seq(S)
  BY <1>1, FlatNodes, SeqMonotonic
<1> HIDE DEF S
<1>4. Append(p, v) \in Seq(S) /\ Len(Append(p, v)) = Len(p) + 1
  BY <1>3, AppendProperties
<1>5. \A q \in Names!Node : Names!IsPrefix(q, Append(p, v)) <=> Begins(q, p) \/ q = Append(p, v)
  BY <1>3, <1>4, PrefixIs, BeginsAppend DEF Names!IsPrefix
<1>6. Names!IsLast(Append(p, v), p)
  BY <1>4 DEF Names!IsLast
<1>7. \A q \in Names!Node : q # Append(p, v)
  <2> SUFFICES ASSUME NEW q \in Names!Node, q = Append(p, v) PROVE FALSE
    OBVIOUS
  <2>1. Len(p) \in Nat
    BY <1>3, LenProperties
  <2>2. Begins(p, p) /\ Begins(p, q)
    BY <1>3, BeginsAppend, BeginsOrder
  <2>3. p # q
    BY <1>4, <2>1
  <2>4. p \in AboveIn(Names!Node)[q]
    BY <1>1, <2>2, <2>3 DEF AboveIn
  <2> QED BY <1>1, <2>4, FlatNodes
<1>8. Begins(p, p)
  BY <1>1, BeginsOrder
<1>9. ASSUME NEW q PROVE q \in Names!Queue(Append(p, v)) <=> q = p /\ wait_queue[q] = "queue"
  BY <1>1, <1>2, <1>5, <1>7, <1>8 DEF Names!Queue
<1> QED BY <1>6, <1>9

\* What an update of a name does: just that, and it wakes those who wait for it.
LEMMA NameUpdateIs ==
  ASSUME Names!Inv, Names!NamesApart, NEW p \in Flat, NEW v \in FlatLeaf \cup {NULL}, Names!UPDATE(p, v)
  PROVE  /\ database' = [x \in Names!Node |-> IF x = p THEN v ELSE IF x \in Names!Above(p) THEN TABLE ELSE database[x]]
         /\ IF v = NULL \/ database[p] # NULL
              THEN UNCHANGED <<wait_queue, waiting, answer>>
              ELSE /\ wait_queue' = [wait_queue EXCEPT ![p] = IF wait_queue[p] = "queue" THEN "none" ELSE wait_queue[p]]
                   /\ waiting' = [c \in Asker |-> IF waiting[c] = p THEN NULL ELSE waiting[c]]
                   /\ answer' = [c \in Asker |-> IF waiting[c] = p THEN v ELSE answer[c]]
<1>1. /\ p \in Names!Node /\ Names!Below(p) = {} /\ NULL \notin Names!Node
      /\ wait_queue \in [Names!Node -> {"queue", "branch", "none"}]
      /\ waiting \in [Asker -> Names!Node \cup {NULL}]
      /\ answer \in [Asker -> FlatLeaf \cup {NULL, TABLE, FAILED}]
      /\ \A c \in Asker : waiting[c] # NULL => wait_queue[waiting[c]] = "queue"
  BY FlatNodes DEF Names!Inv, Names!Typed, Names!TypeOK
<1>2. database' = [x \in Names!Node |-> IF x = p THEN v ELSE IF x \in Names!Above(p) THEN TABLE ELSE database[x]]
  BY <1>1 DEF Names!UPDATE
<1>3. CASE v = NULL \/ database[p] # NULL
  BY <1>2, <1>3 DEF Names!UPDATE
<1>4. CASE v # NULL /\ database[p] = NULL
  <2>1. Names!wakeup(Append(p, v), v)
    BY <1>4 DEF Names!UPDATE
  <2>2. Names!Queue(Append(p, v)) = {q \in {p} : wait_queue[q] = "queue"} /\ Names!IsLast(Append(p, v), p)
    BY NameQueue
  <2>3. CASE wait_queue[p] = "queue"
    <3>1. Names!Queue(Append(p, v)) = {p}
      BY <2>2, <2>3
    <3>2. /\ wait_queue' = [wait_queue EXCEPT ![p] = "none"]
          /\ waiting' = [c \in Asker |-> IF c \in Names!Woken(p) THEN NULL ELSE waiting[c]]
          /\ answer' = [c \in Asker |-> IF c \notin Names!Woken(p) THEN answer[c] ELSE v]
      BY <2>1, <2>2, <3>1 DEF Names!wakeup
    <3> QED BY <1>2, <1>4, <2>3, <3>2 DEF Names!Woken
  <2>4. CASE wait_queue[p] # "queue"
    <3>1. UNCHANGED <<wait_queue, waiting, answer>>
      BY <2>1, <2>2, <2>4 DEF Names!wakeup
    <3>2. \A c \in Asker : waiting[c] # p
      BY <1>1, <2>4
    <3> QED BY <1>1, <1>2, <1>4, <2>4, <3>1, <3>2
  <2> QED BY <2>3, <2>4
<1> QED BY <1>3, <1>4

LEMMA NameUpdate ==
  ASSUME Names!Inv, Names!NamesApart, NEW p \in Flat, NEW v \in FlatLeaf \cup {NULL}, Names!UPDATE(p, v)
  PROVE  Names!Inv' /\ Names!NamesApart' /\ Names!Names!Set(p, v)
<1> DEFINE N == Names!Node
           A == AboveIn(Names!Node)
<1>1. p \in N /\ Order(N, A) /\ NULL \notin N /\ Flat \subseteq N
  BY FlatNodes
<1>2. /\ database \in [N -> FlatLeaf \cup {NULL, TABLE}] /\ Tables(N, A, database)
      /\ wait_queue \in [N -> {"queue", "branch", "none"}]
      /\ waiting \in [Asker -> N \cup {NULL}]
      /\ answer \in [Asker -> FlatLeaf \cup {NULL, TABLE, FAILED}]
      /\ Branched(N, A, wait_queue)
      /\ \A c \in Asker : waiting[c] # NULL => wait_queue[waiting[c]] = "queue"
  BY NameTrees DEF Names!Inv, Names!Typed
<1>3. /\ \A r \in Flat : database[r] # TABLE /\ wait_queue[r] # "branch"
      /\ \A r \in Flat : \A q \in A[r] : database[q] \in {NULL, TABLE} /\ wait_queue[q] # "queue"
      /\ \A c \in Asker : waiting[c] # NULL => waiting[c] \in Flat /\ database[waiting[c]] = NULL
  BY <1>1, FlatNodes DEF Names!NamesApart
<1>4. /\ database' = [x \in N |-> IF x = p THEN v ELSE IF x \in A[p] THEN TABLE ELSE database[x]]
      /\ IF v = NULL \/ database[p] # NULL
           THEN UNCHANGED <<wait_queue, waiting, answer>>
           ELSE /\ wait_queue' = [wait_queue EXCEPT ![p] = IF wait_queue[p] = "queue" THEN "none" ELSE wait_queue[p]]
                /\ waiting' = [c \in Asker |-> IF waiting[c] = p THEN NULL ELSE waiting[c]]
                /\ answer' = [c \in Asker |-> IF waiting[c] = p THEN v ELSE answer[c]]
  BY <1>1, NameUpdateIs, FlatNodes
<1>5. \A r \in Flat : A[r] \subseteq N /\ A[r] \cap Flat = {} /\ \A q \in A[r] : q # p
  BY <1>1, FlatNodes DEF Order
<1>6. \A x \in N : p \notin A[x]
  BY <1>1, FlatNodes
<1>7. database' \in [N -> FlatLeaf \cup {NULL, TABLE}]
  BY <1>2, <1>4
<1>8. Tables(N, A, database')
  <2>1. database' = [x \in N |-> IF x = p THEN v ELSE IF x \in A[p] THEN TABLE
                                 ELSE IF p \in A[x] THEN NULL ELSE database[x]]
    BY <1>4, <1>6
  <2> QED BY <1>1, <1>2, <2>1, UpdateTree
<1>9. /\ wait_queue' \in [N -> {"queue", "branch", "none"}]
      /\ waiting' \in [Asker -> N \cup {NULL}]
      /\ answer' \in [Asker -> FlatLeaf \cup {NULL, TABLE, FAILED}]
  BY <1>1, <1>2, <1>4
<1>10. Branched(N, A, wait_queue')
  <2>1. CASE UNCHANGED wait_queue
    BY <1>2, <2>1
  <2>2. CASE wait_queue[p] = "queue" /\ wait_queue' = [wait_queue EXCEPT ![p] = "none"]
    BY <1>1, <1>2, <2>2, WakeTree
  <2> QED BY <1>1, <1>2, <1>4, <2>1, <2>2
<1>11. \A c \in Asker : waiting'[c] # NULL => wait_queue'[waiting'[c]] = "queue"
  <2> SUFFICES ASSUME NEW c \in Asker, waiting'[c] # NULL PROVE wait_queue'[waiting'[c]] = "queue"
    OBVIOUS
  <2>1. waiting'[c] = waiting[c] /\ waiting[c] \in N
    BY <1>2, <1>4
  <2>2. CASE UNCHANGED wait_queue
    BY <1>2, <2>1, <2>2
  <2>3. CASE waiting[c] # p
    BY <1>2, <1>4, <2>1, <2>3
  <2> QED BY <1>4, <2>1, <2>2, <2>3
<1>12. Names!Inv'
  <2>1. Names!Typed'
    BY <1>7, <1>9 DEF Names!Typed
  <2>2. Names!TypeOK'
    BY <1>8, <1>10, <1>11, <2>1, NameTreesAfter
  <2> QED BY <2>1, <2>2 DEF Names!Inv
<1>13. \A r \in Flat : database'[r] # TABLE /\ wait_queue'[r] # "branch"
  <2> SUFFICES ASSUME NEW r \in Flat PROVE database'[r] # TABLE /\ wait_queue'[r] # "branch"
    OBVIOUS
  <2>1. r \in N /\ r \notin A[p]
    BY <1>1, <1>5
  <2>2. database'[r] # TABLE
    BY <1>3, <1>4, <2>1, NoValues
  <2>3. wait_queue'[r] # "branch"
    BY <1>2, <1>3, <1>4, <2>1
  <2> QED BY <2>2, <2>3
<1>14. \A r \in Flat : \A q \in A[r] : database'[q] \in {NULL, TABLE} /\ wait_queue'[q] # "queue"
  <2> SUFFICES ASSUME NEW r \in Flat, NEW q \in A[r] PROVE database'[q] \in {NULL, TABLE} /\ wait_queue'[q] # "queue"
    OBVIOUS
  <2>1. q \in N /\ q # p
    BY <1>5
  <2>2. database'[q] \in {NULL, TABLE}
    BY <1>3, <1>4, <2>1
  <2>3. wait_queue'[q] # "queue"
    BY <1>2, <1>3, <1>4, <2>1
  <2> QED BY <2>2, <2>3
<1>15. \A c \in Asker : waiting'[c] # NULL => waiting'[c] \in Flat /\ database'[waiting'[c]] = NULL
  <2> SUFFICES ASSUME NEW c \in Asker, waiting'[c] # NULL PROVE waiting'[c] \in Flat /\ database'[waiting'[c]] = NULL
    OBVIOUS
  <2>1. waiting'[c] = waiting[c] /\ waiting[c] \in Flat /\ database[waiting[c]] = NULL
    BY <1>2, <1>3, <1>4
  <2>2. waiting[c] \in N /\ waiting[c] \notin A[p]
    BY <1>1, <1>5, <2>1
  <2>3. waiting[c] = p => v = NULL
    BY <1>2, <1>4, <2>1
  <2>4. database'[waiting[c]] = NULL
    BY <1>4, <2>1, <2>2, <2>3
  <2> QED BY <2>1, <2>4
<1>16. Names!NamesApart'
  BY <1>1, <1>13, <1>14, <1>15, FlatNodes DEF Names!NamesApart
<1>17. Names!Names!Set(p, v)
  <2> DEFINE value == [r \in Flat |-> database[r]]
  <2>1. [r \in Flat |-> database'[r]] = [value EXCEPT ![p] = v]
    <3>1. \A r \in Flat : database'[r] = IF r = p THEN v ELSE database[r]
      BY <1>1, <1>4, <1>5
    <3> QED BY <3>1
  <2>2. value[p] = database[p]
    OBVIOUS
  <2> QED BY <1>4, <2>1, <2>2 DEF Names!Names!Set
<1> QED BY <1>12, <1>16, <1>17

LEMMA NameWait ==
  ASSUME Names!Inv, Names!NamesApart, NEW p \in Flat, NEW c \in Asker, Names!WAIT(c, p)
  PROVE  Names!Inv' /\ Names!NamesApart' /\ Names!Names!Wait(c, p)
<1> DEFINE N == Names!Node
           A == AboveIn(Names!Node)
<1>1. p \in N /\ Order(N, A) /\ NULL \notin N /\ Flat \subseteq N
  BY FlatNodes
<1>2. /\ database \in [N -> FlatLeaf \cup {NULL, TABLE}] /\ Tables(N, A, database)
      /\ wait_queue \in [N -> {"queue", "branch", "none"}]
      /\ waiting \in [Asker -> N \cup {NULL}]
      /\ answer \in [Asker -> FlatLeaf \cup {NULL, TABLE, FAILED}]
      /\ Branched(N, A, wait_queue)
      /\ \A d \in Asker : waiting[d] # NULL => wait_queue[waiting[d]] = "queue"
  BY NameTrees DEF Names!Inv, Names!Typed
<1>3. /\ \A r \in Flat : database[r] # TABLE /\ wait_queue[r] # "branch"
      /\ \A r \in Flat : \A q \in A[r] : database[q] \in {NULL, TABLE} /\ wait_queue[q] # "queue"
      /\ \A d \in Asker : waiting[d] # NULL => waiting[d] \in Flat /\ database[waiting[d]] = NULL
  BY <1>1, FlatNodes DEF Names!NamesApart
<1>4. /\ Names!QUERY(p) = database[p] /\ database[p] \in FlatLeaf \cup {NULL} /\ ~Names!Refused(p)
      /\ FAILED \notin FlatLeaf \cup {NULL}
  BY NameQuery, NoValues
<1>5. /\ waiting[c] = NULL /\ database' = database
      /\ \/ database[p] # NULL /\ answer' = [answer EXCEPT ![c] = database[p]] /\ UNCHANGED <<wait_queue, waiting>>
         \/ /\ database[p] = NULL
            /\ wait_queue' = [q \in N |-> IF q = p THEN "queue" ELSE IF q \in A[p] THEN "branch" ELSE wait_queue[q]]
            /\ waiting' = [waiting EXCEPT ![c] = p]
            /\ UNCHANGED answer
  BY <1>1, <1>4, FlatNodes DEF Names!WAIT, Names!Branches
<1>6. \A r \in Flat : A[r] \subseteq N /\ A[r] \cap Flat = {}
  BY <1>1, FlatNodes DEF Order
<1>7. Names!Names!Wait(c, p)
  <2> DEFINE value == [r \in Flat |-> database[r]]
  <2>1. value[p] = database[p] /\ [r \in Flat |-> database'[r]] = value
    BY <1>5
  <2> QED BY <1>5, <2>1 DEF Names!Names!Wait
<1>8. CASE database[p] # NULL /\ answer' = [answer EXCEPT ![c] = database[p]] /\ UNCHANGED <<wait_queue, waiting>>
  <2>1. Names!Typed'
    BY <1>2, <1>4, <1>5, <1>8 DEF Names!Typed
  <2>2. Names!TypeOK'
    BY <1>2, <1>5, <1>8, <2>1, NameTreesAfter
  <2>3. Names!NamesApart'
    BY <1>5, <1>8 DEF Names!NamesApart
  <2> QED BY <1>7, <2>1, <2>2, <2>3 DEF Names!Inv
<1>9. CASE /\ database[p] = NULL /\ UNCHANGED answer
           /\ wait_queue' = [q \in N |-> IF q = p THEN "queue" ELSE IF q \in A[p] THEN "branch" ELSE wait_queue[q]]
           /\ waiting' = [waiting EXCEPT ![c] = p]
  <2>1. Branched(N, A, wait_queue')
    BY <1>1, <1>2, <1>3, <1>9, WaitTree
  <2>2. \A d \in Asker : waiting'[d] # NULL => wait_queue'[waiting'[d]] = "queue"
    BY <1>1, <1>2, <1>3, <1>9
  <2>3. Names!Typed'
    BY <1>1, <1>2, <1>5, <1>9 DEF Names!Typed
  <2>4. Names!TypeOK'
    BY <1>2, <1>5, <2>1, <2>2, <2>3, NameTreesAfter
  <2>5. \A r \in Flat : database'[r] # TABLE /\ wait_queue'[r] # "branch"
    BY <1>1, <1>3, <1>5, <1>6, <1>9
  <2>6. \A r \in Flat : \A q \in A[r] : database'[q] \in {NULL, TABLE} /\ wait_queue'[q] # "queue"
    BY <1>1, <1>3, <1>5, <1>6, <1>9
  <2>7. \A d \in Asker : waiting'[d] # NULL => waiting'[d] \in Flat /\ database'[waiting'[d]] = NULL
    BY <1>2, <1>3, <1>5, <1>9
  <2>8. Names!NamesApart'
    BY <1>1, <2>5, <2>6, <2>7, FlatNodes DEF Names!NamesApart
  <2> QED BY <1>7, <2>3, <2>4, <2>8 DEF Names!Inv
<1> QED BY <1>5, <1>8, <1>9

LEMMA NameInit == Names!Init => Names!Inv /\ Names!NamesApart /\ Names!Names!Init
<1> SUFFICES ASSUME Names!Init PROVE Names!Inv /\ Names!NamesApart /\ Names!Names!Init
  OBVIOUS
<1>1. Flat \subseteq Names!Node /\ \A p \in Flat : Names!Above(p) \subseteq Names!Node
  BY FlatNodes DEF Names!Above
<1>2. Names!Typed
  BY DEF Names!Init, Names!Typed
<1>3. Names!TypeOK
  BY DEF Names!Init, Names!TypeOK
<1>4. Names!NamesApart
  BY <1>1, NoValues DEF Names!Init, Names!NamesApart
<1>5. Names!Names!Init
  BY <1>1 DEF Names!Init, Names!Names!Init
<1> QED BY <1>2, <1>3, <1>4, <1>5 DEF Names!Inv

LEMMA NameStep ==
  ASSUME Names!Inv, Names!NamesApart, [Names!Next]_names
  PROVE  /\ Names!Inv' /\ Names!NamesApart'
         /\ Names!Names!Next \/ UNCHANGED <<[p \in Flat |-> database[p]], waiting, answer>>
<1>1. CASE Names!Next
  <2>1. ASSUME NEW p \in Flat, NEW v \in FlatLeaf \cup {NULL}, Names!UPDATE(p, v)
        PROVE  Names!Inv' /\ Names!NamesApart' /\ Names!Names!Next
    BY <2>1, NameUpdate DEF Names!Names!Next
  <2>2. ASSUME NEW p \in Flat, NEW c \in Asker, Names!WAIT(c, p)
        PROVE  Names!Inv' /\ Names!NamesApart' /\ Names!Names!Next
    BY <2>2, NameWait DEF Names!Names!Next
  <2> QED BY <1>1, <2>1, <2>2 DEF Names!Next
<1>2. CASE UNCHANGED names
  BY <1>2 DEF names, Names!Inv, Names!Typed, Names!TypeOK, Names!NamesApart
<1> QED BY <1>1, <1>2

LEMMA NamesSound == Names!Inv /\ Names!NamesApart => Names!TypeOK /\ Names!NoneInVain
<1> SUFFICES ASSUME Names!Inv, Names!NamesApart PROVE Names!TypeOK /\ Names!NoneInVain
  OBVIOUS
<1>1. Names!TypeOK
  BY DEF Names!Inv
<1>2. ASSUME NEW c \in Asker, waiting[c] # NULL PROVE Names!QUERY(waiting[c]) \notin FlatLeaf
  <2>1. waiting[c] \in Flat /\ database[waiting[c]] = NULL
    BY <1>2 DEF Names!NamesApart
  <2> QED BY <2>1, NameQuery, NoValues
<1> QED BY <1>1, <1>2 DEF Names!NoneInVain

LEMMA NameTheorem == Names!Spec => [](Names!TypeOK /\ Names!NoneInVain) /\ Names!ImplementsRegistry
<1>1. Names!Inv /\ Names!NamesApart /\ [Names!Next]_Names!vars =>
        Names!Inv' /\ Names!NamesApart' /\ [Names!Names!Next]_Names!Names!vars
  BY NameStep DEF Names!vars, names, Names!Names!vars
<1> QED BY <1>1, NameInit, NamesSound, PTL DEF Names!Spec, Names!ImplementsRegistry, Names!Names!Spec

\* What the data center does with names is what a table of names does, with the
\* callers who wait for each: none is passed by and each gets the value that woke
\* him.  On any paths, whoever is woken gets the value of his own path, or an error:
\* command.UPDATE, wakeup and waitfor of datacenterd.lua.
THEOREM RegistryTheorem == Names!Spec /\ Paths!Spec => ImplementsRegistry
BY NameTheorem, PathTheorem, PTL DEF ImplementsRegistry

-----------------------------------------------------------------------------
(***************************************************************************)
(* Proofs: the lock excludes, for any finite set of threads.               *)
(*                                                                         *)
(* Exclusion rests on the order of the two accesses of each side: a reader *)
(* is counted before it looks at the flag, a writer sets the flag before   *)
(* it looks at the count.  So while a thread writes every counted reader   *)
(* still has to look, or has looked and goes back; that is Exclusion       *)
(* itself, and it is inductive together with the meaning of the two words, *)
(* WordsTell, from which the count of none and the one flag follow.        *)
(***************************************************************************)
PcOK == pc \in [Thread -> {"idle", "rlock", "seen", "added", "back", "reading", "wlock", "drain", "writing"}]

WordsOK == /\ write \in {0, 1} /\ read \in Nat
           /\ WordsTell

IInv == PcOK /\ WordsOK /\ Exclusion

LEMMA CountedFinite == IsFiniteSet(Counted) /\ IsFiniteSet(Flagged)
  BY ThreadAssumption, FS_Subset DEF Counted, Flagged

-----------------------------------------------------------------------------
(***************************************************************************)
(* What the words say: none counted means none reading, the flag not set   *)
(* means no thread has set it, and at most one has.                        *)
(***************************************************************************)
LEMMA NoneCounted == ASSUME WordsOK, read = 0 PROVE Counted = {}
  BY CountedFinite, FS_EmptySet DEF WordsOK, WordsTell

LEMMA NoneFlagged == ASSUME WordsOK, write = 0 PROVE Flagged = {}
  BY CountedFinite, FS_EmptySet DEF WordsOK, WordsTell

LEMMA OneFlagged ==
  ASSUME WordsOK, NEW t \in Flagged PROVE write = 1 /\ Flagged = {t}
<1>1. Cardinality(Flagged) \in {0, 1}
  BY DEF WordsOK, WordsTell
<1>2. Cardinality(Flagged) # 0
  BY CountedFinite, FS_EmptySet
<1>3. PICK x : Flagged = {x}
  BY <1>1, <1>2, CountedFinite, FS_Singleton
<1> QED
  BY <1>1, <1>2, <1>3 DEF WordsOK, WordsTell

(***************************************************************************)
(* How the number of counted and of flagged threads changes when one moves.*)
(***************************************************************************)
CountedAt == {"added", "reading", "back"}
FlaggedAt == {"drain", "writing"}

LEMMA Moves ==
  ASSUME PcOK, NEW t \in Thread, NEW at, pc' = [pc EXCEPT ![t] = at]
  PROVE  /\ Cardinality(Counted)' = IF at \in CountedAt
                                    THEN IF pc[t] \in CountedAt THEN Cardinality(Counted) ELSE Cardinality(Counted) + 1
                                    ELSE IF pc[t] \in CountedAt THEN Cardinality(Counted) - 1 ELSE Cardinality(Counted)
         /\ Cardinality(Flagged)' = IF at \in FlaggedAt
                                    THEN IF pc[t] \in FlaggedAt THEN Cardinality(Flagged) ELSE Cardinality(Flagged) + 1
                                    ELSE IF pc[t] \in FlaggedAt THEN Cardinality(Flagged) - 1 ELSE Cardinality(Flagged)
<1>1. /\ t \in Counted <=> pc[t] \in CountedAt
      /\ t \in Flagged <=> pc[t] \in FlaggedAt
  BY DEF Counted, Flagged, CountedAt, FlaggedAt
<1>2. /\ Counted' = IF at \in CountedAt THEN Counted \cup {t} ELSE Counted \ {t}
      /\ Flagged' = IF at \in FlaggedAt THEN Flagged \cup {t} ELSE Flagged \ {t}
  BY DEF PcOK, Counted, Flagged, CountedAt, FlaggedAt
<1>3. ASSUME NEW S, IsFiniteSet(S)
      PROVE  /\ t \in S => S \cup {t} = S
             /\ t \notin S => S \ {t} = S
             /\ t \notin S => Cardinality(S \cup {t}) = Cardinality(S) + 1
             /\ t \in S => Cardinality(S \ {t}) = Cardinality(S) - 1
  BY <1>3, FS_AddElement, FS_RemoveElement
<1>4. Cardinality(Counted)' = Cardinality(Counted') /\ Cardinality(Flagged)' = Cardinality(Flagged')
  OBVIOUS
<1>5. CASE at \in CountedAt
  BY <1>1, <1>2, <1>3, <1>4, <1>5, CountedFinite DEF CountedAt, FlaggedAt
<1>6. CASE at \in FlaggedAt
  BY <1>1, <1>2, <1>3, <1>4, <1>6, CountedFinite DEF CountedAt, FlaggedAt
<1>7. CASE at \notin CountedAt /\ at \notin FlaggedAt
  BY <1>1, <1>2, <1>3, <1>4, <1>7, CountedFinite
<1> QED
  BY <1>5, <1>6, <1>7

-----------------------------------------------------------------------------
LEMMA InitOK == Init => IInv
<1> SUFFICES ASSUME Init PROVE IInv
  OBVIOUS
<1>1. Counted = {} /\ Flagged = {}
  BY DEF Init, Counted, Flagged
<1> QED
  BY <1>1, FS_EmptySet DEF Init, IInv, PcOK, WordsOK, WordsTell, Exclusion

LEMMA PcStep ==
  ASSUME PcOK, NEW t \in Thread, Want(t) \/ Step(t)
  PROVE  PcOK'
  BY DEF PcOK, Want, Step, See, Add, Look, Back, TestAndSet, Drained, wunlock, runlock

LEMMA WordsStep ==
  ASSUME PcOK, WordsOK, NEW t \in Thread, Want(t) \/ Step(t)
  PROVE  WordsOK'
<1> USE DEF WordsOK, WordsTell, CountedAt, FlaggedAt
<1>0. /\ Cardinality(Counted) \in Nat /\ Cardinality(Flagged) \in Nat
      /\ t \in Counted => Cardinality(Counted) # 0
      /\ t \in Flagged => Cardinality(Flagged) = 1
  BY CountedFinite, FS_CardinalityType, FS_EmptySet, OneFlagged
<1>1. CASE Want(t)
  <2>1. PICK at \in {"rlock", "wlock"} : pc' = [pc EXCEPT ![t] = at]
    BY <1>1 DEF Want
  <2>2. Cardinality(Counted)' = Cardinality(Counted) /\ Cardinality(Flagged)' = Cardinality(Flagged)
    BY <1>1, <2>1, Moves DEF Want
  <2>3. read' = read /\ write' = write
    BY <1>1 DEF Want
  <2> QED
    BY <2>2, <2>3
<1>2. CASE Add(t)
  <2>1. Cardinality(Counted)' = Cardinality(Counted) + 1 /\ Cardinality(Flagged)' = Cardinality(Flagged)
    BY <1>2, Moves DEF Add
  <2>2. read' = read + 1 /\ write' = write
    BY <1>2 DEF Add
  <2> QED
    BY <1>0, <2>1, <2>2
<1>3. CASE Look(t)
  <2>1. \E at \in {"reading", "back"} : pc' = [pc EXCEPT ![t] = at]
    BY <1>3 DEF Look
  <2> QED
    BY <1>3, <2>1, Moves DEF Look
<1>4. CASE Back(t)
  <2>1. t \in Counted
    BY <1>4 DEF Back, Counted
  <2>2. Cardinality(Counted)' = Cardinality(Counted) - 1 /\ Cardinality(Flagged)' = Cardinality(Flagged)
    BY <1>4, Moves DEF Back
  <2> QED
    BY <1>0, <1>4, <2>1, <2>2 DEF Back
<1>5. CASE TestAndSet(t)
  <2>1. Cardinality(Counted)' = Cardinality(Counted) /\ Cardinality(Flagged)' = Cardinality(Flagged) + 1
    BY <1>5, Moves DEF TestAndSet
  <2>2. write = 0 /\ write' = 1 /\ read' = read
    BY <1>5 DEF TestAndSet
  <2> QED
    BY <1>0, <2>1, <2>2
<1>6. CASE Drained(t)
  BY <1>6, Moves DEF Drained
<1>7. CASE wunlock(t)
  <2>1. t \in Flagged
    BY <1>7 DEF wunlock, Flagged
  <2>2. Cardinality(Counted)' = Cardinality(Counted) /\ Cardinality(Flagged)' = Cardinality(Flagged) - 1
    BY ZenonT(60), <1>7, Moves DEF wunlock
  <2> QED
    BY <1>0, <1>7, <2>1, <2>2 DEF wunlock
<1>8. CASE runlock(t)
  <2>1. t \in Counted
    BY <1>8 DEF runlock, Counted
  <2>2. Cardinality(Counted)' = Cardinality(Counted) - 1 /\ Cardinality(Flagged)' = Cardinality(Flagged)
    BY <1>8, Moves DEF runlock
  <2> QED
    BY <1>0, <1>8, <2>1, <2>2 DEF runlock
<1>9. CASE See(t)
  <2>1. Cardinality(Counted)' = Cardinality(Counted) /\ Cardinality(Flagged)' = Cardinality(Flagged)
    <3>1. pc' = [pc EXCEPT ![t] = "seen"] /\ pc[t] \notin CountedAt /\ pc[t] \notin FlaggedAt
      BY <1>9 DEF See
    <3>2. "seen" \notin CountedAt /\ "seen" \notin FlaggedAt
      OBVIOUS
    <3> QED
      BY <3>1, <3>2, Moves
  <2>2. read' = read /\ write' = write
    BY <1>9 DEF See
  <2> QED
    BY <2>1, <2>2
<1> QED
  BY <1>1, <1>2, <1>3, <1>4, <1>5, <1>6, <1>7, <1>8, <1>9 DEF Step

LEMMA ExclusionStep ==
  ASSUME IInv, NEW t \in Thread, Want(t) \/ Step(t)
  PROVE  Exclusion'
<1> USE DEF IInv, PcOK, Exclusion
<1>1. CASE Want(t) \/ See(t) \/ Add(t) \/ Back(t) \/ TestAndSet(t) \/ wunlock(t) \/ runlock(t)
  BY <1>1 DEF Want, See, Add, Back, TestAndSet, wunlock, runlock
<1>2. CASE Look(t)
  \* A writer has set the flag, so the reader that looks now goes back.
  <2>1. CASE write = 0
    <3>1. \A o \in Thread : pc[o] # "writing"
      BY <2>1, NoneFlagged DEF Flagged
    <3> QED
      BY <1>2, <3>1 DEF Look
  <2>2. CASE write # 0
    BY <1>2, <2>2 DEF Look, NoWriter
  <2> QED
    BY <2>1, <2>2
<1>3. CASE Drained(t)
  \* The count is zero, so nobody reads, and the flag has one owner.
  <2>1. \A o \in Thread : pc[o] # "reading"
    BY <1>3, NoneCounted DEF Drained, Counted
  <2>2. \A o \in Thread \ {t} : pc[o] # "writing"
    <3>1. t \in Flagged
      BY <1>3 DEF Drained, Flagged
    <3>2. Flagged = {t}
      BY <3>1, OneFlagged
    <3> QED
      BY <3>2 DEF Flagged
  <2> QED
    BY <1>3, <2>1, <2>2 DEF Drained
<1> QED
  BY <1>1, <1>2, <1>3 DEF Step

LEMMA Inductive == IInv /\ [Next]_vars => IInv'
<1> SUFFICES ASSUME IInv, [Next]_vars PROVE IInv'
  OBVIOUS
<1>1. CASE UNCHANGED vars
  BY <1>1 DEF vars, IInv, PcOK, WordsOK, WordsTell, Exclusion, Counted, Flagged
<1>2. CASE Next
  <2>1. PICK t \in Thread : Want(t) \/ Step(t)
    BY <1>2 DEF Next
  <2> QED
    BY <2>1, PcStep, WordsStep, ExclusionStep DEF IInv
<1> QED
  BY <1>1, <1>2

LEMMA Invariant == Spec => []IInv
  BY InitOK, Inductive, PTL DEF Spec

-----------------------------------------------------------------------------
\* No thread reads or writes what another one is writing, no path through the
\* functions of rwlock.h forgets to undo what it has added, and the count of
\* the readers cannot overflow, for any number of threads.
THEOREM LockSoundTheorem == Spec => []LockSound
<1>1. IInv => TypeOK
  <2> SUFFICES ASSUME IInv PROVE TypeOK
    OBVIOUS
  <2>1. Cardinality(Counted) <= Cardinality(Thread)
    <3>1. Counted \subseteq Thread
      BY DEF Counted
    <3> QED
      BY <3>1, ThreadAssumption, FS_Subset
  <2>2. Cardinality(Thread) \in Nat
    BY ThreadAssumption, FS_CardinalityType
  <2> QED
    BY <2>1, <2>2 DEF IInv, PcOK, WordsOK, WordsTell, TypeOK
<1>2. IInv => LockSound
  BY <1>1 DEF IInv, WordsOK, LockSound
<1> QED
  BY Invariant, <1>2, PTL

-----------------------------------------------------------------------------
(***************************************************************************)
(* Channels, for any nodes, services and messages: what is proved of them  *)
(* in Multicast holds in both scenarios.                                   *)
(***************************************************************************)
ChannelInv == IF on = "abroad" THEN Abroad!Inv ELSE Mixed!Inv /\ Mixed!SoleInv

LEMMA SpeakerAlone == Abroad!Alone
  BY DEF Abroad!Alone

LEMMA SameInit == Mixed!Init => Abroad!Init
  BY DEF Mixed!Init, Abroad!Init, Mixed!Node, Abroad!Node, Mixed!Link, Abroad!Link,
         Mixed!To, Abroad!To, Mixed!From, Abroad!From, Mixed!Message, Abroad!Message

LEMMA ChannelBegins == AllInit => ChannelInv
<1> SUFFICES ASSUME AllInit PROVE ChannelInv
  OBVIOUS
<1>1. Mixed!Init /\ Abroad!Init
  BY SameInit DEF AllInit
<1>2. Mixed!Inv /\ Mixed!SoleInv
  BY <1>1, ChannelAssumption, Mixed!InitInv, Mixed!InitSole
<1>3. Abroad!Inv
  BY <1>1, ChannelAssumption, Abroad!InitInv
<1> QED BY <1>2, <1>3 DEF ChannelInv

LEMMA ChannelStep == ChannelInv /\ [AllNext]_<<on, vars, stm, multicast, datacenter, list>> => ChannelInv'
<1> SUFFICES ASSUME ChannelInv, [AllNext]_<<on, vars, stm, multicast, datacenter, list>> PROVE ChannelInv'
  OBVIOUS
<1>1. on' = on
  BY DEF AllNext
<1>2. CASE on = "abroad"
  <2>1. [Abroad!Next]_(Abroad!vars)
    BY <1>2 DEF AllNext, multicast, Abroad!vars
  <2>2. Abroad!Inv'
    BY <1>2, <2>1, ChannelAssumption, Abroad!InvStep DEF ChannelInv
  <2> QED BY <1>1, <1>2, <2>2 DEF ChannelInv
<1>3. CASE on # "abroad"
  <2>1. [Mixed!Next]_(Mixed!vars)
    BY <1>3 DEF AllNext, multicast, Mixed!vars
  <2>2. Mixed!Inv' /\ Mixed!SoleInv'
    BY <1>3, <2>1, ChannelAssumption, Mixed!InvStep, Mixed!SoleStep DEF ChannelInv
  <2> QED BY <1>1, <1>3, <2>2 DEF ChannelInv
<1> QED BY <1>2, <1>3

LEMMA ChannelSound == ChannelInv => ChannelDelivers
<1> SUFFICES ASSUME ChannelInv PROVE ChannelDelivers
  OBVIOUS
<1>1. CASE on = "abroad"
  <2>1. Abroad!Inv
    BY <1>1 DEF ChannelInv
  <2>2. Abroad!TypeOK /\ Abroad!PackageExact
    BY <2>1, ChannelAssumption, Abroad!InvTypes
  <2>3. Abroad!InOrderOnce
    BY <2>1, SpeakerAlone, Abroad!InvOrders
  <2> QED BY <1>1, <2>2, <2>3 DEF ChannelDelivers
<1>2. CASE on # "abroad"
  <2>1. Mixed!Inv /\ Mixed!SoleInv
    BY <1>2 DEF ChannelInv
  <2>2. Mixed!TypeOK /\ Mixed!PackageExact
    BY <2>1, ChannelAssumption, Mixed!InvTypes
  <2>3. Mixed!Delivered /\ Mixed!NodesKnown /\ Mixed!NothingKept
    BY <2>1, ChannelAssumption, Mixed!SoleSound
  <2> QED BY <1>2, <2>2, <2>3 DEF ChannelDelivers
<1> QED BY <1>1, <1>2

\* In every channel a package counts those who have still to close it.  With one
\* publisher each service gets the messages in order and once; with at most one
\* service on each node but the owner it gets all that is published while it
\* subscribes, and the owner knows just the nodes that subscribe.
THEOREM ChannelTheorem == AllSpec => []ChannelDelivers
<1> QED BY ChannelBegins, ChannelStep, ChannelSound, PTL DEF AllSpec

=============================================================================
