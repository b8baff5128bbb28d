------------------------------ MODULE MCHarbor ------------------------------
(***************************************************************************)
(* The harbor: how three nodes join, give a name and lose a node, the      *)
(* connection of two of them, and its stream.  The parts share no state;   *)
(* on says which of them moves, and with which constants.                  *)
(***************************************************************************)
EXTENDS Integers, Sequences, SequenceTheorems, FiniteSetTheorems, WellFoundedInduction, TLAPS

CONSTANTS
  s1, s2, s3, x,
  MaxSend,         \* of HarborLink
  Base, Contents   \* of HarborStream

VARIABLES
  on,
  slave_node, global_name, toMaster, toSlave, phase, need, slaves, connect_queue,
  todo, opening, knocking, globalname, queryname, known, held,
  fd, linkStatus, queue, value, nameq, sent, wire, got, lost, errors, broken, rightId,
  wrong, status, rest, buf, size, content, length, messages

mesh == <<slave_node, global_name, toMaster, toSlave, phase, need, slaves, connect_queue,
          todo, opening, knocking, globalname, queryname, known, held>>
link == <<fd, linkStatus, queue, value, nameq, sent, wire, got, lost, errors, broken, rightId>>
stream == <<wrong, status, rest, buf, size, content, length, messages>>

\* s1 gives the name and s2 sends to it.
Names == INSTANCE HarborMesh WITH
  Slave <- {s1, s2, s3}, Name <- {x}, Giver <- {<<s1, x>>}, Sender <- {<<s2, x>>}, MaxCrash <- 0
\* One of the three dies.
Crashes == INSTANCE HarborMesh WITH
  Slave <- {s1, s2, s3}, Name <- {x}, Giver <- {}, Sender <- {}, MaxCrash <- 1
\* Two messages each way, every way to go wrong.
Link == INSTANCE HarborLink WITH
  status <- linkStatus, MaxSend <- 2, Kinds <- {"handle", "name"}, MayBreak <- TRUE,
  Ids <- {TRUE, FALSE}
\* MaxSend messages, and the connection holds.
Holds == INSTANCE HarborLink WITH
  status <- linkStatus, Kinds <- {"handle"}, MayBreak <- FALSE, Ids <- {TRUE}
\* MaxSend messages, and all that either of the two may do.
Either == INSTANCE HarborLink WITH
  status <- linkStatus, Kinds <- {"handle", "name"}, MayBreak <- TRUE, Ids <- {TRUE, FALSE}
\* Eight bytes in place of 16 MB are too much.
FourMessages == <<<<11>>, <<21, 22, 23>>, <<31>>, <<41, 42, 43, 44, 45, 46, 47, 48>>>>
Stream == INSTANCE HarborStream

AllInit ==
  /\ on \in {"names", "crashes", "link", "holds", "stream"}
  /\ Names!Init
  /\ Link!Init /\ (on # "link" => rightId)
  /\ Stream!Init /\ (on # "stream" => status = "HEADER")

AllNext ==
  \/ on = "names" /\ Names!Next /\ UNCHANGED <<on, link, stream>>
  \/ on = "crashes" /\ Crashes!Next /\ UNCHANGED <<on, link, stream>>
  \/ on = "link" /\ Link!Next /\ UNCHANGED <<on, mesh, stream>>
  \/ on = "holds" /\ Holds!Next /\ UNCHANGED <<on, mesh, stream>>
  \/ on = "stream" /\ Stream!Next /\ UNCHANGED <<on, mesh, link>>

\* The fairness of HarborMesh and of HarborLink.
AllSpec ==
  /\ AllInit /\ [][AllNext]_<<on, mesh, link, stream>>
  /\ \A i \in {s1, s2, s3} :
       /\ WF_mesh(on = "names" /\ Names!MasterStep(i))
       /\ WF_mesh(on = "names" /\ Names!SlaveStep(i))
       /\ WF_mesh(on = "crashes" /\ Crashes!MasterStep(i))
       /\ WF_mesh(on = "crashes" /\ Crashes!SlaveStep(i))
  /\ WF_link(on = "holds" /\ Holds!Open)
  /\ WF_link(on = "holds" /\ Holds!Deliver)

ASSUME LinkAssumption == MaxSend \in Nat

\* A message has a header of its own besides what was sent, and is never empty.
ASSUME StreamAssumption == Base \in Nat \ {0, 1} /\ Contents \in Seq(Seq(Nat) \ {<<>>})

-----------------------------------------------------------------------------
\* cmaster.lua and cslave.lua: in whatever order nodes join, each knocks once
\* at those that were there and all get connected; the harbor service knows the
\* names its slave knows, a name asked for before it was given is found, no
\* node keeps a connection to one that died, and on a connection that holds
\* all messages to a handle arrive (service_harbor.c).
HarborSettles ==
  /\ [](on = "names" => Names!TypeOK /\ Names!KnockIsNew /\ Names!HarborKnows)
  /\ [](on = "crashes" => Crashes!TypeOK)
  /\ on = "names" => Names!MeshComplete /\ Names!NameFound
  /\ on = "crashes" => Crashes!DownForgotten
  /\ on = "holds" => Holds!Arrives

\* service_harbor.c: messages to a handle arrive in the order sent as long as
\* the connection holds; those queued during the handshake or before the name
\* was known are sent, and each message is in one place or was lost.
LinkDelivers ==
  Either!TypeOK /\ Either!HandleOrder /\ Either!NoneForgotten /\ Either!UpMeansSent

\* push_socket_data: however the stream is cut, messages are forwarded whole
\* and in order, and the connection is closed for a wrong id or length only.
StreamExact == Stream!TypeOK /\ Stream!ForwardsWhole /\ Stream!ClosesForCause
-----------------------------------------------------------------------------
(***************************************************************************)
(* The stream, for any contents and any size of a byte.                    *)
(***************************************************************************)
LEMMA AllNumbers ==
  ASSUME NEW T, 0 \in T, \A n \in Nat : n \in T => n + 1 \in T
  PROVE  Nat \subseteq T
<1> DEFINE R == OpToRel(<, Nat)
           U == Nat \ T
<1> SUFFICES ASSUME U # {} PROVE FALSE
  OBVIOUS
<1>1. IsWellFoundedOn(R, Nat)
  BY NatLessThanWellFounded
<1>2. \A i, j \in Nat : i < j => <<i, j>> \in R
  BY DEF OpToRel
<1>3. U \subseteq Nat
  OBVIOUS
<1> HIDE DEF R, U
<1>4. PICK i \in U : \A j \in U : ~ (<<j, i>> \in R)
  BY <1>1, <1>3, WFMin
<1>5. i \in Nat /\ i # 0 /\ i - 1 \in Nat /\ ~ (i - 1 \in U)
  <2>1. i \in Nat /\ i \notin T
    BY DEF U
  <2>2. i # 0 /\ i - 1 \in Nat /\ i - 1 < i
    BY <2>1
  <2>3. <<i - 1, i>> \in R
    BY <1>2, <2>1, <2>2
  <2> QED BY <1>4, <2>1, <2>2, <2>3
<1>6. i - 1 \in T /\ (i - 1) + 1 = i
  BY <1>5 DEF U
<1> QED BY <1>5, <1>6 DEF U

\* Sequences with the same join and the same length of the first are the same.
LEMMA Cancel ==
  ASSUME NEW S, NEW p \in Seq(S), NEW q \in Seq(S), NEW r \in Seq(S), NEW s \in Seq(S),
         p \o q = r \o s, Len(p) = Len(r)
  PROVE  p = r /\ q = s
<1>1. Len(p) + Len(q) = Len(r) + Len(s)
  <2>1. Len(p \o q) = Len(p) + Len(q)
    BY ConcatProperties
  <2>2. Len(r \o s) = Len(r) + Len(s)
    BY ConcatProperties
  <2> QED BY <2>1, <2>2
<1>2. \A i \in 1 .. Len(p) : p[i] = r[i]
  <2>1. \A i \in 1 .. Len(p) + Len(q) : (p \o q)[i] = IF i <= Len(p) THEN p[i] ELSE q[i - Len(p)]
    BY ConcatProperties
  <2>2. \A i \in 1 .. Len(r) + Len(s) : (r \o s)[i] = IF i <= Len(r) THEN r[i] ELSE s[i - Len(r)]
    BY ConcatProperties
  <2>3. \A i \in 1 .. Len(p) : i \in 1 .. Len(p) + Len(q) /\ i <= Len(p)
    OBVIOUS
  <2> QED BY <1>1, <2>1, <2>2, <2>3
<1>3. \A i \in 1 .. Len(q) : q[i] = s[i]
  <2>1. \A i \in 1 .. Len(p) + Len(q) : (p \o q)[i] = IF i <= Len(p) THEN p[i] ELSE q[i - Len(p)]
    BY ConcatProperties
  <2>2. \A i \in 1 .. Len(r) + Len(s) : (r \o s)[i] = IF i <= Len(r) THEN r[i] ELSE s[i - Len(r)]
    BY ConcatProperties
  <2>3. ASSUME NEW i \in 1 .. Len(q) PROVE q[i] = s[i]
    <3>1. Len(p) + i \in 1 .. Len(p) + Len(q) /\ ~ (Len(p) + i <= Len(p)) /\ (Len(p) + i) - Len(p) = i
      OBVIOUS
    <3> QED BY <1>1, <2>1, <2>2, <3>1
  <2> QED BY <2>3
<1> QED BY <1>1, <1>2, <1>3, SeqEqual

\* A sequence is what its parts join to.
LEMMA Parts ==
  ASSUME NEW S, NEW s \in Seq(S), NEW n \in 0 .. Len(s)
  PROVE  /\ SubSeq(s, 1, n) \in Seq(S) /\ Len(SubSeq(s, 1, n)) = n
         /\ SubSeq(s, n + 1, Len(s)) \in Seq(S) /\ Len(SubSeq(s, n + 1, Len(s))) = Len(s) - n
         /\ s = SubSeq(s, 1, n) \o SubSeq(s, n + 1, Len(s))
<1>1. /\ SubSeq(s, 1, n) \in Seq(S) /\ Len(SubSeq(s, 1, n)) = n
      /\ SubSeq(s, n + 1, Len(s)) \in Seq(S) /\ Len(SubSeq(s, n + 1, Len(s))) = Len(s) - n
  BY SubSeqProperties
<1>2. SubSeq(s, 1, n) \o SubSeq(s, n + 1, Len(s)) = SubSeq(s, 1, Len(s))
  <2>1. /\ 1 \in 1 .. Len(s) + 1 /\ n \in 1 - 1 .. Len(s)
        /\ Len(s) \in n .. Len(s)
    OBVIOUS
  <2> QED BY <2>1, ConcatAdjacentSubSeq
<1> QED BY <1>1, <1>2, SubSeqFull

LEMMA Associative ==
  ASSUME NEW S, NEW p \in Seq(S), NEW q \in Seq(S), NEW r \in Seq(S)
  PROVE  (p \o q) \o r = p \o (q \o r)
BY ConcatAssociative

\* What push_socket_data does to sequences of bytes, with names of its own.
Wire == Seq(Nat)
Join(p, q) == p \o q
Before(s, n) == SubSeq(s, 1, n)
Beyond(s, n) == SubSeq(s, n + 1, Len(s))

LEMMA Joined ==
  \A p, q \in Wire : /\ Join(p, q) \in Wire /\ Len(Join(p, q)) = Len(p) + Len(q)
                     /\ Len(p) \in Nat /\ Len(q) \in Nat
BY ConcatProperties, LenProperties DEF Wire, Join

LEMMA Assoc ==
  \A p, q, r \in Wire : Join(Join(p, q), r) = Join(p, Join(q, r))
<1> TAKE p, q, r \in Wire
<1>1. p \in Seq(Nat) /\ q \in Seq(Nat) /\ r \in Seq(Nat)
  BY DEF Wire
<1>2. (p \o q) \o r = p \o (q \o r)
  BY ONLY SMTT(30), <1>1, Associative
<1> QED BY <1>2 DEF Join

LEMMA SameParts ==
  \A p, q, r, s \in Wire : Join(p, q) = Join(r, s) /\ Len(p) = Len(r) => p = r /\ q = s
BY Cancel DEF Wire, Join

LEMMA Split ==
  \A s \in Wire : \A n \in 0 .. Len(s) :
    /\ Before(s, n) \in Wire /\ Len(Before(s, n)) = n
    /\ Beyond(s, n) \in Wire /\ Len(Beyond(s, n)) = Len(s) - n
    /\ s = Join(Before(s, n), Beyond(s, n))
BY Parts DEF Wire, Join, Before, Beyond

LEMMA Empty ==
  /\ <<>> \in Wire /\ Len(<<>>) = 0
  /\ \A s \in Wire : Join(s, <<>>) = s /\ Join(<<>>, s) = s /\ Len(s) \in Nat
  /\ \A s \in Wire : Len(s) = 0 <=> s = <<>>
<1>1. <<>> \in Wire /\ Len(<<>>) = 0
  BY DEF Wire
<1>2. ASSUME NEW s \in Wire PROVE Join(s, <<>>) = s /\ Join(<<>>, s) = s /\ Len(s) \in Nat
  BY ConcatEmptySeq, LenProperties DEF Wire, Join
<1>3. ASSUME NEW s \in Wire, Len(s) = 0 PROVE s = <<>>
  BY <1>3, EmptySeq DEF Wire
<1> QED BY <1>1, <1>2, <1>3

\* The first part of a join, and what it leaves.
LEMMA FirstOf ==
  \A p, q \in Wire : Before(Join(p, q), Len(p)) = p /\ Beyond(Join(p, q), Len(p)) = q
<1> TAKE p, q \in Wire
<1>1. Join(p, q) \in Wire /\ Len(Join(p, q)) = Len(p) + Len(q) /\ Len(p) \in Nat /\ Len(q) \in Nat
  BY Joined
<1>2. PICK w \in Wire : w = Join(p, q)
  BY <1>1
<1>3. PICK n \in 0 .. Len(w) : n = Len(p)
  BY <1>1, <1>2
<1>4. /\ Before(w, n) \in Wire /\ Len(Before(w, n)) = Len(p) /\ Beyond(w, n) \in Wire
      /\ Join(p, q) = Join(Before(w, n), Beyond(w, n))
  BY <1>2, <1>3, Split
<1>5. Before(w, n) = p /\ Beyond(w, n) = q
  BY <1>4, SameParts
<1> QED BY <1>2, <1>3, <1>5

\* The loop of push_socket_data takes what it needs from what it has and the
\* piece: those are the first of the stream, and the others are left.
LEMMA Cut ==
  ASSUME NEW have \in Wire, NEW piece \in Wire, NEW later \in Wire,
         NEW p \in Wire, NEW q \in Wire,
         Join(Join(have, piece), later) = Join(p, q),
         Len(have) <= Len(p), Len(piece) >= Len(p) - Len(have)
  PROVE  LET left == Beyond(piece, Len(p) - Len(have))
         IN /\ Before(Join(have, piece), Len(p)) = p
            /\ left \in Wire /\ Join(left, later) = q
<1>1. PICK n \in 0 .. Len(piece) : n = Len(p) - Len(have)
  <2>1. Len(p) \in Nat /\ Len(have) \in Nat /\ Len(piece) \in Nat
    BY Empty
  <2> QED BY <2>1
<1>2. PICK begin \in Wire : begin = Before(piece, n)
  BY Split
<1>3. PICK left \in Wire : left = Beyond(piece, n)
  BY Split
<1>4. Len(begin) = n /\ piece = Join(begin, left)
  BY <1>2, <1>3, Split
<1>5. PICK first \in Wire : first = Join(have, begin)
  BY Joined
<1>6. Len(first) = Len(p)
  <2>1. Len(p) \in Nat /\ Len(have) \in Nat /\ Len(first) = Len(have) + Len(begin)
    BY <1>5, Joined
  <2> QED BY <1>1, <1>4, <2>1
<1>7. Join(have, piece) = Join(first, left)
  BY <1>4, <1>5, Assoc
<1>8. Join(first, Join(left, later)) = Join(p, q) /\ Join(left, later) \in Wire
  BY <1>7, Assoc, Joined
<1>9. first = p /\ Join(left, later) = q
  BY <1>6, <1>8, SameParts
<1>10. Before(Join(have, piece), Len(p)) = p
  BY <1>7, <1>9, FirstOf
<1> QED BY <1>1, <1>3, <1>9, <1>10

(***************************************************************************)
(* The four bytes of length.                                               *)
(***************************************************************************)
LEMMA Division ==
  ASSUME NEW d \in Nat \ {0}, NEW n \in Nat
  PROVE  n \div d \in Nat /\ n % d \in 0 .. d - 1 /\ n = d * (n \div d) + (n % d)
OBVIOUS

LEMMA Digits ==
  ASSUME NEW n \in Nat
  PROVE  n \div Base \in Nat /\ n % Base \in 0 .. Base - 1 /\ n = Base * (n \div Base) + (n % Base)
<1>1. Base \in Nat \ {0}
  BY StreamAssumption
<1> QED BY <1>1, Division

LEMMA Below ==
  ASSUME NEW v \in Nat, NEW r \in 0 .. Base - 1, NEW y \in Nat
  PROVE  Base * v + r < Base * y <=> v < y
<1>1. Base \in Nat /\ Base > 1
  BY StreamAssumption
<1>2. CASE v < y
  <2>1. v + 1 <= y
    BY <1>2
  <2>2. Base * (v + 1) <= Base * y
    BY <1>1, <2>1
  <2>3. Base * (v + 1) = Base * v + Base
    BY <1>1
  <2> QED BY <1>1, <1>2, <2>2, <2>3
<1>3. CASE ~ (v < y)
  <2>1. Base * y <= Base * v
    BY <1>1, <1>3
  <2> QED BY <1>1, <1>3, <2>1
<1> QED BY <1>2, <1>3

\* to_bigendian, read back: if the first byte is 0 the others say the length.
LEMMA LengthRead ==
  ASSUME NEW n \in Nat
  PROVE  /\ Stream!Encoded(n) \in Wire /\ Len(Stream!Encoded(n)) = 4
         /\ Stream!Encoded(n)[1] = 0 <=> n < Base * Base * Base
         /\ Stream!Encoded(n)[1] = 0 => Stream!Decoded(Stream!Encoded(n)) = n
<1> DEFINE h == n \div Base
           g == h \div Base
           e == g \div Base
           a == n % Base
           b == h % Base
           c == g % Base
<1>1. h \in Nat /\ a \in 0 .. Base - 1 /\ n = Base * h + a
  BY Digits, Zenon
<1>2. g \in Nat /\ b \in 0 .. Base - 1 /\ h = Base * g + b
  BY <1>1, Digits, Zenon
<1>3. e \in Nat /\ c \in 0 .. Base - 1 /\ g = Base * e + c
  BY <1>2, Digits, Zenon
<1>4. Stream!Encoded(n) = <<e, c, b, a>>
  BY DEF Stream!Encoded
<1>5. Base \in Nat /\ Base > 1
  BY StreamAssumption
<1> HIDE DEF h, g, e, a, b, c
<1>6. n < Base * (Base * Base) <=> h < Base * Base
  BY <1>1, <1>5, Below
<1>7. h < Base * Base <=> g < Base
  BY <1>2, <1>5, Below
<1>8. g < Base <=> e < 1
  <2>1. Base * e + c < Base * 1 <=> e < 1
    BY <1>3, Below
  <2> QED BY <1>3, <1>5, <2>1
<1>9. Base * (Base * Base) = Base * Base * Base
  BY <1>5
<1>10. e = 0 <=> n < Base * Base * Base
  BY <1>3, <1>6, <1>7, <1>8, <1>9
<1>11. Stream!Encoded(n) \in Wire /\ Len(Stream!Encoded(n)) = 4
  <2>1. e \in Nat /\ c \in Nat /\ b \in Nat /\ a \in Nat
    BY <1>1, <1>2, <1>3, <1>5
  <2> QED BY <1>4, <2>1 DEF Wire
<1>12. e = 0 => Base * (Base * c + b) + a = n
  <2>1. e = 0 => g = c
    BY <1>3, <1>5
  <2> QED BY <1>1, <1>2, <2>1
<1>13. Stream!Decoded(<<e, c, b, a>>) = Base * (Base * c + b) + a /\ <<e, c, b, a>>[1] = e
  BY DEF Stream!Decoded
<1> QED BY <1>4, <1>10, <1>11, <1>12, <1>13

(***************************************************************************)
(* What FlattenSeq returns: its recursive function exists, only once.      *)
(***************************************************************************)
Joins(f, ms, n) ==
  f = [i \in 1 .. n |-> IF i = 1 THEN ms[i] ELSE f[i-1] \o ms[i]]

LEMMA JoinsExist ==
  ASSUME NEW ms, NEW n \in Nat
  PROVE  \E f : Joins(f, ms, n)
<1> DEFINE T == {k \in Nat : \E f : Joins(f, ms, k)}
<1>1. 0 \in T
  <2>1. Joins(<<>>, ms, 0)
    BY DEF Joins
  <2> QED BY <2>1
<1>2. ASSUME NEW k \in Nat, k \in T PROVE k + 1 \in T
  <2>1. PICK f : Joins(f, ms, k)
    BY <1>2
  <2> DEFINE g == [i \in 1 .. k + 1 |-> IF i = 1 THEN ms[i] ELSE f[i-1] \o ms[i]]
  <2>2. \A i \in 1 .. k : f[i] = IF i = 1 THEN ms[i] ELSE f[i-1] \o ms[i]
    BY <2>1, ZenonT(30) DEF Joins
  <2>3. \A i \in 1 .. k : i \in 1 .. k + 1 /\ g[i] = f[i]
    BY <2>2
  <2>4. ASSUME NEW i \in 1 .. k + 1
        PROVE  (IF i = 1 THEN ms[i] ELSE f[i-1] \o ms[i]) = (IF i = 1 THEN ms[i] ELSE g[i-1] \o ms[i])
    <3>1. i # 1 => i - 1 \in 1 .. k
      OBVIOUS
    <3> HIDE DEF g
    <3>2. i # 1 => g[i-1] = f[i-1]
      BY <2>3, <3>1
    <3> QED BY <3>2
  <2>5. Joins(g, ms, k + 1)
    <3>1. g = [i \in 1 .. k + 1 |-> IF i = 1 THEN ms[i] ELSE g[i-1] \o ms[i]]
      BY <2>4, Zenon
    <3> HIDE DEF g
    <3> QED BY <3>1 DEF Joins
  <2> QED BY <2>5
<1> HIDE DEF T
<1>3. Nat \subseteq T
  BY <1>1, <1>2, AllNumbers
<1> QED BY <1>3 DEF T

LEMMA JoinsOnce ==
  ASSUME NEW ms, NEW n \in Nat, NEW f, NEW g, Joins(f, ms, n), Joins(g, ms, n)
  PROVE  f = g
<1> DEFINE T == {k \in Nat : k \in 1 .. n => f[k] = g[k]}
<1>1. \A i \in 1 .. n : f[i] = IF i = 1 THEN ms[i] ELSE f[i-1] \o ms[i]
  BY ZenonT(30) DEF Joins
<1>2. \A i \in 1 .. n : g[i] = IF i = 1 THEN ms[i] ELSE g[i-1] \o ms[i]
  BY ZenonT(30) DEF Joins
<1>3. 0 \in T
  OBVIOUS
<1>4. ASSUME NEW k \in Nat, k \in T PROVE k + 1 \in T
  <2>1. ASSUME k + 1 \in 1 .. n PROVE f[k+1] = g[k+1]
    <3>1. CASE k = 0
      <4>1. k + 1 = 1 /\ 1 \in 1 .. n
        BY <2>1, <3>1
      <4> QED BY <1>1, <1>2, <4>1
    <3>2. CASE k # 0
      <4>1. k \in 1 .. n /\ k + 1 # 1 /\ (k + 1) - 1 = k
        BY <2>1, <3>2
      <4>2. f[k] = g[k]
        BY <1>4, <4>1
      <4> QED BY <1>1, <1>2, <2>1, <4>1, <4>2
    <3> QED BY <3>1, <3>2
  <2> QED BY <2>1
<1>5. \A k \in 1 .. n : f[k] = g[k]
  <2> HIDE DEF T
  <2>1. Nat \subseteq T
    BY <1>3, <1>4, AllNumbers
  <2> QED BY <2>1 DEF T
<1>6. f = [k \in 1 .. n |-> f[k]] /\ g = [k \in 1 .. n |-> g[k]]
  BY ZenonT(30) DEF Joins
<1> QED BY <1>5, <1>6, Zenon

LEMMA FlattenJoins ==
  ASSUME NEW n \in Nat \ {0}, NEW ms, Len(ms) = n, NEW f, Joins(f, ms, n)
  PROVE  Stream!FlattenSeq(ms) = f[n]
<1> DEFINE P(g) == g = [i \in 1 .. Len(ms) |-> IF i = 1 THEN ms[i] ELSE g[i-1] \o ms[i]]
           c == CHOOSE g : P(g)
<1>1. P(f)
  BY DEF Joins
<1>2. P(c)
  BY <1>1, Zenon
<1>3. Joins(c, ms, n)
  <2> HIDE DEF c
  <2> QED BY <1>2 DEF Joins
<1>4. c = f
  <2> HIDE DEF c
  <2> QED BY <1>3, JoinsOnce
<1>5. Stream!FlattenSeq(ms) = c[Len(ms)]
  BY DEF Stream!FlattenSeq
<1> HIDE DEF c
<1> QED BY <1>4, <1>5

\* What the first k of some sequences join to.
Front(ms, k) == [i \in 1 .. k |-> ms[i]]
Flat(ms, k) == Stream!FlattenSeq(Front(ms, k))

LEMMA FlatGrows ==
  ASSUME NEW ms
  PROVE  /\ Flat(ms, 0) = <<>>
         /\ \A k \in Nat : k # 0 => Flat(ms, k + 1) = Flat(ms, k) \o ms[k + 1]
         /\ Flat(ms, 1) = ms[1]
<1>1. Flat(ms, 0) = <<>>
  <2>1. Front(ms, 0) = <<>> /\ Len(<<>>) = 0
    BY DEF Front
  <2> QED BY <2>1 DEF Flat, Stream!FlattenSeq
<1>2. ASSUME NEW k \in Nat, NEW f, Joins(f, ms, k), k # 0
      PROVE  Flat(ms, k) = f[k]
  <2>1. Len(Front(ms, k)) = k
    BY DEF Front
  <2>2. \A i \in 1 .. k : Front(ms, k)[i] = ms[i]
    BY DEF Front
  <2>3. Joins(f, Front(ms, k), k)
    BY <1>2, <2>2, Zenon DEF Joins
  <2> QED BY <1>2, <2>1, <2>3, FlattenJoins DEF Flat
<1>3. ASSUME NEW k \in Nat, k # 0 PROVE Flat(ms, k + 1) = Flat(ms, k) \o ms[k + 1]
  <2>1. PICK f : Joins(f, ms, k + 1)
    BY JoinsExist
  <2> DEFINE g == [i \in 1 .. k |-> f[i]]
  <2>2. \A i \in 1 .. k + 1 : f[i] = IF i = 1 THEN ms[i] ELSE f[i-1] \o ms[i]
    BY <2>1, ZenonT(30) DEF Joins
  <2>3. \A i \in 1 .. k : i \in 1 .. k + 1 /\ g[i] = f[i]
    OBVIOUS
  <2>4. ASSUME NEW i \in 1 .. k
        PROVE  f[i] = (IF i = 1 THEN ms[i] ELSE g[i-1] \o ms[i])
    <3>1. i # 1 => i - 1 \in 1 .. k
      OBVIOUS
    <3> HIDE DEF g
    <3>2. i # 1 => g[i-1] = f[i-1]
      BY <2>3, <3>1
    <3> QED BY <2>2, <2>3, <3>2
  <2>5. Joins(g, ms, k)
    <3>1. g = [i \in 1 .. k |-> IF i = 1 THEN ms[i] ELSE g[i-1] \o ms[i]]
      BY <2>4, Zenon
    <3> HIDE DEF g
    <3> QED BY <3>1 DEF Joins
  <2>6. k \in 1 .. k /\ g[k] = f[k]
    BY <1>3
  <2> HIDE DEF g
  <2>7. Flat(ms, k) = g[k]
    BY <1>2, <1>3, <2>5
  <2>8. Flat(ms, k + 1) = f[k + 1]
    BY <1>2, <2>1
  <2>9. k + 1 \in 1 .. k + 1 /\ k + 1 # 1 /\ (k + 1) - 1 = k
    BY <1>3
  <2> QED BY <2>2, <2>6, <2>7, <2>8, <2>9
<1>4. Flat(ms, 1) = ms[1]
  <2>1. PICK f : Joins(f, ms, 1)
    BY JoinsExist
  <2>2. \A i \in 1 .. 1 : f[i] = IF i = 1 THEN ms[i] ELSE f[i-1] \o ms[i]
    BY <2>1, ZenonT(30) DEF Joins
  <2>3. f[1] = ms[1]
    BY <2>2
  <2> QED BY <1>2, <2>1, <2>3
<1> QED BY <1>1, <1>3, <1>4

-----------------------------------------------------------------------------
\* All messages in the stream, the first k of them, and what is behind those.
Count == Len(Contents)
Sent == [m \in DOMAIN Contents |-> Stream!Bytes(m)]
Upto(k) == Flat(Sent, k)
All == Stream!Stream
Ahead(k) == Beyond(All, Len(Upto(k)))

LEMMA Messages ==
  /\ Count \in Nat
  /\ \A m \in 1 .. Count :
       /\ Contents[m] \in Wire /\ Len(Contents[m]) \in Nat \ {0}
       /\ Stream!Encoded(Len(Contents[m])) \in Wire /\ Len(Stream!Encoded(Len(Contents[m]))) = 4
       /\ Stream!Bytes(m) = Join(Stream!Encoded(Len(Contents[m])), Contents[m])
       /\ Sent[m] = Stream!Bytes(m) /\ Sent[m] \in Wire /\ Len(Sent[m]) = 4 + Len(Contents[m])
<1>1. Contents \in Seq(Wire \ {<<>>})
  BY StreamAssumption DEF Wire
<1>2. Count \in Nat /\ DOMAIN Contents = 1 .. Count
  BY <1>1, LenProperties DEF Count
<1>3. ASSUME NEW m \in 1 .. Count
      PROVE  /\ Contents[m] \in Wire /\ Len(Contents[m]) \in Nat \ {0}
             /\ Stream!Encoded(Len(Contents[m])) \in Wire /\ Len(Stream!Encoded(Len(Contents[m]))) = 4
             /\ Stream!Bytes(m) = Join(Stream!Encoded(Len(Contents[m])), Contents[m])
             /\ Sent[m] = Stream!Bytes(m) /\ Sent[m] \in Wire /\ Len(Sent[m]) = 4 + Len(Contents[m])
  <2>1. Contents[m] \in Wire \ {<<>>}
    BY <1>1, <1>2, ElementOfSeq DEF Count
  <2>2. Contents[m] \in Wire /\ Len(Contents[m]) \in Nat \ {0}
    BY <2>1, Empty
  <2>3. PICK n \in Nat : n = Len(Contents[m])
    BY <2>2
  <2>4. Stream!Encoded(n) \in Wire /\ Len(Stream!Encoded(n)) = 4
    BY LengthRead
  <2>5. Stream!Bytes(m) = Join(Stream!Encoded(n), Contents[m])
    BY <2>3 DEF Join, Stream!Bytes
  <2>6. Sent[m] = Stream!Bytes(m)
    BY <1>2 DEF Sent
  <2>7. Join(Stream!Encoded(n), Contents[m]) \in Wire
        /\ Len(Join(Stream!Encoded(n), Contents[m])) = 4 + n
    BY <2>2, <2>3, <2>4, Joined
  <2> QED BY <2>2, <2>3, <2>4, <2>5, <2>6, <2>7
<1> QED BY <1>2, <1>3

LEMMA UptoGrows ==
  /\ Upto(0) = <<>>
  /\ \A k \in 0 .. Count : Upto(k) \in Wire
  /\ \A k \in 0 .. Count : k # Count => Upto(k + 1) = Join(Upto(k), Sent[k + 1])
  /\ Upto(Count) = All
<1> DEFINE T == {k \in Nat : k <= Count => Upto(k) \in Wire}
<1>1. Upto(0) = <<>> /\ Upto(0) \in Wire
  BY FlatGrows, Empty DEF Upto
<1>2. ASSUME NEW k \in 0 .. Count, k # Count, Upto(k) \in Wire
      PROVE  Upto(k + 1) = Join(Upto(k), Sent[k + 1]) /\ Upto(k + 1) \in Wire
  <2>1. Sent[k + 1] \in Wire
    BY <1>2, Messages
  <2>2. CASE k = 0
    <3>1. Upto(1) = Sent[1] /\ k + 1 = 1
      BY <2>2, FlatGrows DEF Upto
    <3> QED BY <1>1, <2>1, <2>2, <3>1, Empty
  <2>3. CASE k # 0
    <3>1. k \in Nat
      BY Messages
    <3>2. Upto(k + 1) = Join(Upto(k), Sent[k + 1])
      BY <2>3, <3>1, FlatGrows DEF Upto, Join
    <3> QED BY <1>2, <2>1, <3>2, Joined
  <2> QED BY <2>2, <2>3
<1>3. 0 \in T
  BY <1>1
<1>4. ASSUME NEW k \in Nat, k \in T PROVE k + 1 \in T
  <2>1. ASSUME k + 1 <= Count PROVE Upto(k + 1) \in Wire
    <3>1. k \in 0 .. Count /\ k # Count
      BY <2>1, Messages
    <3>2. Upto(k) \in Wire
      BY <1>4, <3>1
    <3> QED BY <1>2, <3>1, <3>2
  <2> QED BY <2>1
<1>5. \A k \in 0 .. Count : Upto(k) \in Wire
  <2> HIDE DEF T
  <2>1. Nat \subseteq T
    BY <1>3, <1>4, AllNumbers
  <2>2. \A k \in 0 .. Count : k \in Nat /\ k <= Count
    BY Messages
  <2> QED BY <2>1, <2>2 DEF T
<1>6. Upto(Count) = All
  <2>1. DOMAIN Contents = 1 .. Count
    BY StreamAssumption, LenProperties DEF Count
  <2>2. Front(Sent, Count) = Sent
    BY <2>1 DEF Front, Sent
  <2> QED BY <2>2 DEF Upto, Flat, All, Stream!Stream, Sent
<1> QED BY <1>1, <1>2, <1>5, <1>6

\* The stream is the first k messages, the next one and the others.
LEMMA AheadIs ==
  /\ \A k \in 0 .. Count : Ahead(k) \in Wire /\ All = Join(Upto(k), Ahead(k))
  /\ \A k \in 0 .. Count : k # Count => Ahead(k) = Join(Sent[k + 1], Ahead(k + 1))
  /\ Ahead(0) = All /\ Ahead(Count) = <<>>
<1> DEFINE T == {j \in Nat : j <= Count => \E t \in Wire : All = Join(Upto(Count - j), t)}
<1>1. 0 \in T
  <2>1. Count - 0 = Count /\ Count \in 0 .. Count
    BY Messages
  <2>2. All = Join(Upto(Count), <<>>)
    BY <2>1, UptoGrows, Empty
  <2> QED BY <2>1, <2>2, Empty
<1>2. ASSUME NEW j \in Nat, j \in T PROVE j + 1 \in T
  <2>1. ASSUME j + 1 <= Count PROVE \E t \in Wire : All = Join(Upto(Count - (j + 1)), t)
    <3>1. PICK k \in 0 .. Count : k = Count - (j + 1) /\ k # Count /\ k + 1 = Count - j
      BY <2>1, Messages
    <3>2. PICK t \in Wire : All = Join(Upto(k + 1), t)
      <4>1. j <= Count
        BY <2>1, Messages
      <4> QED BY <1>2, <3>1, <4>1
    <3>3. Upto(k) \in Wire /\ Sent[k + 1] \in Wire /\ Upto(k + 1) = Join(Upto(k), Sent[k + 1])
      BY <3>1, UptoGrows, Messages
    <3>4. PICK u \in Wire, m \in Wire : u = Upto(k) /\ m = Sent[k + 1]
      BY <3>3
    <3>5. All = Join(Join(u, m), t)
      BY <3>2, <3>3, <3>4
    <3>6. All = Join(u, Join(m, t)) /\ Join(m, t) \in Wire
      BY <3>5, Assoc, Joined
    <3> QED BY <3>1, <3>4, <3>6
  <2> QED BY <2>1
<1>3. ASSUME NEW k \in 0 .. Count PROVE Ahead(k) \in Wire /\ All = Join(Upto(k), Ahead(k))
  <2>1. PICK j \in Nat : j = Count - k /\ j <= Count /\ Count - j = k
    BY Messages
  <2>2. j \in T
    <3> HIDE DEF T
    <3> QED BY <1>1, <1>2, AllNumbers
  <2>3. PICK t \in Wire : All = Join(Upto(k), t)
    BY <2>1, <2>2
  <2>4. Ahead(k) = t
    BY <2>3, UptoGrows, FirstOf DEF Ahead
  <2> QED BY <2>3, <2>4
<1>4. ASSUME NEW k \in 0 .. Count, k # Count PROVE Ahead(k) = Join(Sent[k + 1], Ahead(k + 1))
  <2>1. k + 1 \in 0 .. Count /\ k + 1 \in 1 .. Count
    BY <1>4, Messages
  <2>2. /\ Upto(k) \in Wire /\ Sent[k + 1] \in Wire /\ Upto(k + 1) = Join(Upto(k), Sent[k + 1])
        /\ Ahead(k + 1) \in Wire /\ All = Join(Upto(k + 1), Ahead(k + 1))
        /\ Ahead(k) \in Wire /\ All = Join(Upto(k), Ahead(k))
    BY <1>3, <1>4, <2>1, UptoGrows, Messages
  <2>3. PICK u \in Wire, m \in Wire, a \in Wire, b \in Wire :
          u = Upto(k) /\ m = Sent[k + 1] /\ a = Ahead(k) /\ b = Ahead(k + 1)
    BY <2>2
  <2>4. Join(u, a) = Join(Join(u, m), b)
    BY <2>2, <2>3
  <2>5. Join(u, a) = Join(u, Join(m, b)) /\ Join(m, b) \in Wire
    BY <2>4, Assoc, Joined
  <2>6. a = Join(m, b)
    BY <2>5, SameParts
  <2> QED BY <2>3, <2>6
<1>5. Ahead(0) = All
  <2>1. 0 \in 0 .. Count
    BY Messages
  <2> QED BY <1>3, <2>1, UptoGrows, Empty
<1>6. Ahead(Count) = <<>>
  <2>1. Count \in 0 .. Count
    BY Messages
  <2>2. All \in Wire /\ All = Join(All, Ahead(Count)) /\ All = Join(All, <<>>) /\ Ahead(Count) \in Wire
    BY <1>3, <2>1, UptoGrows, Empty
  <2> QED BY <2>2, SameParts, Empty
<1> QED BY <1>3, <1>4, <1>5, <1>6

\* Where the messages end.
LEMMA Ends ==
  /\ \A k \in 0 .. Count : Stream!EndOf(k) = Len(Upto(k)) /\ Stream!EndOf(k) \in Nat
                           /\ Len(All) = Stream!EndOf(k) + Len(Ahead(k)) /\ Len(Ahead(k)) \in Nat
  /\ \A k \in 0 .. Count : k # Count =>
       Stream!EndOf(k + 1) = Stream!EndOf(k) + 4 + Len(Contents[k + 1])
  /\ \A i, k \in 0 .. Count : i <= k => Stream!EndOf(i) <= Stream!EndOf(k)
<1>1. ASSUME NEW k \in 0 .. Count
      PROVE  /\ Stream!EndOf(k) = Len(Upto(k)) /\ Stream!EndOf(k) \in Nat
             /\ Len(All) = Stream!EndOf(k) + Len(Ahead(k)) /\ Len(Ahead(k)) \in Nat
  <2>1. \A i \in 1 .. k : Stream!Bytes(i) = Sent[i]
    BY Messages
  <2>2. [i \in 1 .. k |-> Stream!Bytes(i)] = Front(Sent, k)
    BY <2>1 DEF Front
  <2>3. Stream!EndOf(k) = Len(Upto(k))
    BY <2>2 DEF Stream!EndOf, Upto, Flat
  <2>4. Upto(k) \in Wire /\ Ahead(k) \in Wire /\ All = Join(Upto(k), Ahead(k))
    BY UptoGrows, AheadIs
  <2> QED BY <2>3, <2>4, Joined
<1>2. ASSUME NEW k \in 0 .. Count, k # Count
      PROVE  Stream!EndOf(k + 1) = Stream!EndOf(k) + 4 + Len(Contents[k + 1])
  <2>1. k + 1 \in 0 .. Count /\ k + 1 \in 1 .. Count
    BY <1>2, Messages
  <2>2. /\ Upto(k) \in Wire /\ Upto(k + 1) = Join(Upto(k), Sent[k + 1])
        /\ Sent[k + 1] \in Wire /\ Len(Sent[k + 1]) = 4 + Len(Contents[k + 1])
        /\ Len(Contents[k + 1]) \in Nat
    BY <1>2, <2>1, UptoGrows, Messages
  <2>3. PICK u \in Wire, m \in Wire :
          /\ u = Upto(k) /\ Len(u) = Stream!EndOf(k)
          /\ m = Sent[k + 1] /\ Len(m) = 4 + Len(Contents[k + 1])
    BY <1>1, <2>2
  <2>4. Len(Join(u, m)) = Len(u) + Len(m) /\ Len(u) \in Nat
    BY Joined
  <2>5. Len(Upto(k + 1)) = Len(Join(u, m))
    BY <2>2, <2>3, Zenon
  <2>6. Stream!EndOf(k + 1) = Len(Upto(k + 1))
    BY <1>1, <2>1
  <2>7. Stream!EndOf(k + 1) = Len(u) + Len(m)
    BY <2>4, <2>5, <2>6
  <2>8. Len(m) = 4 + Len(Contents[k + 1]) /\ Len(u) = Stream!EndOf(k)
    BY <2>3
  <2>9. Len(u) \in Nat /\ Len(Contents[k + 1]) \in Nat
    BY <2>2, <2>4
  <2> QED BY ONLY <2>7, <2>8, <2>9
<1>3. ASSUME NEW i \in 0 .. Count
      PROVE  \A k \in 0 .. Count : i <= k => Stream!EndOf(i) <= Stream!EndOf(k)
  <2> DEFINE T == {k \in Nat : k \in i .. Count => Stream!EndOf(i) <= Stream!EndOf(k)}
  <2>1. 0 \in T
    <3>1. 0 \in i .. Count => i = 0
      BY Messages
    <3> QED BY <1>1, <3>1
  <2>2. ASSUME NEW k \in Nat, k \in T PROVE k + 1 \in T
    <3>1. CASE k + 1 \in i .. Count /\ i # k + 1
      <4>1. k \in 0 .. Count /\ k # Count /\ k \in i .. Count /\ k + 1 \in 1 .. Count /\ k + 1 \in 0 .. Count
        BY <3>1, Messages
      <4>2. Stream!EndOf(i) <= Stream!EndOf(k) /\ Stream!EndOf(i) \in Nat /\ Stream!EndOf(k) \in Nat
        BY <1>1, <2>2, <4>1
      <4>3. Stream!EndOf(k + 1) = Stream!EndOf(k) + 4 + Len(Contents[k + 1]) /\ Len(Contents[k + 1]) \in Nat
        BY <1>2, <4>1, Messages
      <4> QED BY <4>2, <4>3
    <3>2. CASE i = k + 1
      BY <1>1, <3>2
    <3> QED BY <3>1, <3>2
  <2> HIDE DEF T
  <2>3. Nat \subseteq T
    BY <2>1, <2>2, AllNumbers
  <2>4. \A k \in 0 .. Count : i <= k => k \in Nat /\ k \in i .. Count
    BY Messages
  <2> QED BY <2>3, <2>4 DEF T
<1> QED BY <1>1, <1>2, <1>3

-----------------------------------------------------------------------------
(***************************************************************************)
(* The inductive invariant: in every status, what has been kept of the     *)
(* message that is arriving, the rest of the piece and what has not        *)
(* arrived are what is behind the first k messages, or behind the length   *)
(* of the next one, and those k have been forwarded.                       *)
(***************************************************************************)
Id == <<IF wrong THEN Stream!WrongId ELSE Stream!OwnId>>
Forwarded(k) ==
  /\ messages = [m \in 1 .. k |-> Contents[m]]
  /\ \A m \in 1 .. k : ~ Stream!TooLong(m)

BytesTyped ==
  wrong \in BOOLEAN /\ buf \in Wire /\ rest \in Wire /\ size \in Wire /\ content \in Wire
AtHandshake ==
  /\ status = "HANDSHAKE"
  /\ messages = <<>> /\ size = <<>> /\ content = <<>>
  /\ Join(buf, rest) = Join(Id, All)
AtHeader(k) ==
  /\ status = "HEADER"
  /\ wrong = FALSE /\ content = <<>> /\ Len(size) < 4 /\ Forwarded(k)
  /\ Join(Join(size, buf), rest) = Ahead(k)
AtContent(k) ==
  /\ status = "CONTENT"
  /\ wrong = FALSE /\ size = <<>> /\ k # Count /\ Forwarded(k) /\ ~ Stream!TooLong(k + 1)
  /\ length = Len(Contents[k + 1]) /\ Len(content) < length
  /\ Join(Join(content, buf), rest) = Join(Contents[k + 1], Ahead(k + 1))
AtTooLong(k) ==
  /\ status = "DOWN"
  /\ wrong = FALSE /\ buf = <<>> /\ Len(size) < 4 /\ k # Count /\ Forwarded(k) /\ Stream!TooLong(k + 1)
  /\ Len(rest) + 4 <= Len(Ahead(k))
Refused ==
  /\ status = "DOWN"
  /\ wrong = TRUE /\ buf = <<>> /\ size = <<>> /\ messages = <<>>
  /\ Len(rest) <= Len(All)
StreamInv ==
  /\ BytesTyped
  /\ \/ AtHandshake \/ Refused
     \/ \E k \in 0 .. Count : AtHeader(k) \/ AtContent(k) \/ AtTooLong(k)

\* Between two pieces, what the invariant says is what the properties say.
LEMMA Exactly ==
  ASSUME NEW k \in 0 .. Count, Forwarded(k), wrong = FALSE, rest \in Wire,
         Stream!EndOf(k) <= Stream!Arrived,
         k # Count => Stream!Arrived < Stream!EndOf(k + 1) \/ Stream!TooLong(k + 1)
  PROVE  Stream!ForwardsWhole
<1> DEFINE whole == {m \in DOMAIN Contents :
                       /\ ~ wrong /\ Stream!EndOf(m) <= Stream!Arrived
                       /\ \A i \in 1 .. m : ~ Stream!TooLong(i)}
<1>1. DOMAIN Contents = 1 .. Count /\ Count \in Nat
  BY StreamAssumption, LenProperties DEF Count
<1>2. Len(rest) \in Nat /\ Len(All) \in Nat
  BY Empty, UptoGrows, <1>1
<1>3. Stream!Arrived = Len(All) - Len(rest)
  BY DEF Stream!Arrived, All
<1>4. ASSUME NEW m \in 1 .. Count PROVE m \in whole <=> m <= k
  <2>1. CASE m <= k
    <3>1. m \in 0 .. Count /\ Stream!EndOf(m) <= Stream!EndOf(k)
      BY <2>1, <1>1, Ends
    <3>2. Stream!EndOf(m) \in Nat /\ Stream!EndOf(k) \in Nat
      BY <3>1, Ends
    <3>3. Stream!EndOf(m) <= Stream!Arrived
      BY <1>2, <1>3, <3>1, <3>2
    <3>4. \A i \in 1 .. m : i \in 1 .. k
      BY <2>1
    <3>5. \A i \in 1 .. m : ~ Stream!TooLong(i)
      BY <3>4 DEF Forwarded
    <3> QED BY <1>1, <2>1, <3>3, <3>5
  <2>2. CASE ~ (m <= k)
    <3>1. k # Count /\ k + 1 \in 0 .. Count /\ m \in 0 .. Count /\ k + 1 <= m /\ k + 1 \in 1 .. m
      BY <2>2, <1>1
    <3>2. Stream!EndOf(k + 1) <= Stream!EndOf(m) /\ Stream!EndOf(k + 1) \in Nat /\ Stream!EndOf(m) \in Nat
      BY <3>1, Ends
    <3>3. CASE Stream!TooLong(k + 1)
      BY <2>2, <3>1, <3>3
    <3>4. CASE Stream!Arrived < Stream!EndOf(k + 1)
      <4>1. ~ (Stream!EndOf(m) <= Stream!Arrived)
        BY <1>2, <1>3, <3>2, <3>4
      <4> QED BY <2>2, <4>1
    <3> QED BY <3>1, <3>3, <3>4
  <2> QED BY <2>1, <2>2
<1>5. whole = 1 .. k
  <2>1. whole \subseteq 1 .. Count
    BY <1>1
  <2> HIDE DEF whole
  <2>2. 1 .. k \subseteq 1 .. Count /\ \A m \in 1 .. Count : m \in 1 .. k <=> m <= k
    BY <1>1
  <2> QED BY <1>4, <2>1, <2>2
<1> HIDE DEF whole
<1>6. messages = [m \in whole |-> Contents[m]]
  BY <1>5 DEF Forwarded
<1> QED BY <1>6 DEF Stream!ForwardsWhole, whole

\* No length before the one of the message k is too great.
LEMMA NoneYet ==
  ASSUME NEW k \in 0 .. Count, \A m \in 1 .. k : ~ Stream!TooLong(m), wrong = FALSE, rest \in Wire,
         k # Count => Stream!Arrived < Stream!EndOf(k) + 4,
         status # "DOWN"
  PROVE  Stream!ClosesForCause
<1>1. DOMAIN Contents = 1 .. Count /\ Count \in Nat
  BY StreamAssumption, LenProperties DEF Count
<1>2. Len(rest) \in Nat /\ Len(All) \in Nat
  BY Empty, UptoGrows, <1>1
<1>3. Stream!Arrived = Len(All) - Len(rest)
  BY DEF Stream!Arrived, All
<1>4. ASSUME NEW m \in 1 .. Count, Stream!TooLong(m)
      PROVE  ~ (Stream!Arrived >= Stream!EndOf(m - 1) + 4)
  <2>1. ~ (m \in 1 .. k)
    BY <1>4
  <2>2. k # Count /\ m - 1 \in 0 .. Count /\ k <= m - 1
    BY <2>1, <1>1
  <2>3. Stream!EndOf(k) <= Stream!EndOf(m - 1) /\ Stream!EndOf(k) \in Nat /\ Stream!EndOf(m - 1) \in Nat
    BY <2>2, Ends
  <2> QED BY <1>2, <1>3, <2>2, <2>3
<1> QED BY <1>1, <1>4 DEF Stream!ClosesForCause, Stream!Header

LEMMA StreamInvShows ==
  ASSUME StreamInv
  PROVE  StreamExact
<1>1. buf \in Wire /\ rest \in Wire /\ size \in Wire /\ content \in Wire /\ wrong \in BOOLEAN
  BY DEF StreamInv, BytesTyped
<1>2. Count \in Nat /\ 0 \in 0 .. Count /\ DOMAIN Contents = 1 .. Count
  BY StreamAssumption, LenProperties, Messages DEF Count
<1>3. /\ Len(rest) \in Nat /\ Len(All) \in Nat /\ Stream!Arrived = Len(All) - Len(rest)
      /\ All \in Wire
  BY <1>1, <1>2, Empty, UptoGrows DEF Stream!Arrived, All
<1>4. Len(size) \in Nat /\ Len(content) \in Nat
  BY <1>1, Empty
<1>5. CASE AtHandshake
  <2>1. Stream!TypeOK
    BY <1>5, Empty DEF AtHandshake, Stream!TypeOK, Stream!Header
  <2>2. ASSUME buf = <<>> PROVE Stream!ForwardsWhole /\ Stream!ClosesForCause
    <3>1. Id \in Wire /\ Len(Id) = 1
      BY <1>1 DEF Id, Wire, Stream!WrongId, Stream!OwnId
    <3>2. rest = Join(Id, All)
      BY <1>1, <1>5, <2>2, Empty DEF AtHandshake
    <3>3. Len(rest) = 1 + Len(All)
      BY <1>3, <3>1, <3>2, Joined
    <3>4. Stream!Arrived < 0
      BY <1>3, <3>3
    <3>5. \A m \in 1 .. Count : ~ (Stream!EndOf(m) <= Stream!Arrived)
                                /\ ~ (Stream!Arrived >= Stream!EndOf(m - 1) + 4)
      <4> TAKE m \in 1 .. Count
      <4>1. m \in 0 .. Count /\ m - 1 \in 0 .. Count
        BY <1>2
      <4>2. Stream!EndOf(m) \in Nat /\ Stream!EndOf(m - 1) \in Nat
        BY <4>1, Ends
      <4> QED BY <1>3, <3>4, <4>2
    <3>6. Stream!ForwardsWhole
      <4> DEFINE whole == {m \in DOMAIN Contents :
                             /\ ~ wrong /\ Stream!EndOf(m) <= Stream!Arrived
                             /\ \A i \in 1 .. m : ~ Stream!TooLong(i)}
      <4>1. whole = {}
        BY <1>2, <3>5
      <4> HIDE DEF whole
      <4>2. messages = [m \in whole |-> Contents[m]]
        BY <1>5, <4>1 DEF AtHandshake
      <4> QED BY <4>2 DEF Stream!ForwardsWhole, whole
    <3>7. status # "DOWN" /\ ~ (Stream!Arrived >= 0)
      BY <1>3, <1>5, <3>4 DEF AtHandshake
    <3>8. Stream!ClosesForCause
      BY <1>2, <3>5, <3>7 DEF Stream!ClosesForCause, Stream!Header
    <3> QED BY <3>6, <3>8
  <2>3. buf # <<>> => Stream!ForwardsWhole /\ Stream!ClosesForCause
    BY DEF Stream!ForwardsWhole, Stream!ClosesForCause
  <2> QED BY <2>1, <2>2, <2>3 DEF StreamExact
<1>6. CASE Refused
  <2>1. Stream!TypeOK
    BY <1>6, Empty DEF Refused, Stream!TypeOK, Stream!Header
  <2>2. Stream!Arrived >= 0 /\ status = "DOWN" /\ wrong
    BY <1>3, <1>6 DEF Refused
  <2>3. Stream!ClosesForCause
    BY <2>2 DEF Stream!ClosesForCause
  <2>4. Stream!ForwardsWhole
    <3> DEFINE whole == {m \in DOMAIN Contents :
                           /\ ~ wrong /\ Stream!EndOf(m) <= Stream!Arrived
                           /\ \A i \in 1 .. m : ~ Stream!TooLong(i)}
    <3>1. whole = {}
      BY <2>2
    <3> HIDE DEF whole
    <3>2. messages = [m \in whole |-> Contents[m]]
      BY <1>6, <3>1 DEF Refused
    <3> QED BY <3>2 DEF Stream!ForwardsWhole, whole
  <2> QED BY <2>1, <2>3, <2>4 DEF StreamExact
<1>7. ASSUME NEW k \in 0 .. Count, AtHeader(k) PROVE StreamExact
  <2>1. Stream!TypeOK
    BY <1>7 DEF AtHeader, Stream!TypeOK, Stream!Header
  <2>2. buf # <<>> => Stream!ForwardsWhole /\ Stream!ClosesForCause
    BY DEF Stream!ForwardsWhole, Stream!ClosesForCause
  <2>3. ASSUME buf = <<>> PROVE Stream!ForwardsWhole /\ Stream!ClosesForCause
    <3>1. Join(size, rest) = Ahead(k)
      BY <1>1, <1>7, <2>3, Empty DEF AtHeader
    <3>2. Len(Ahead(k)) = Len(size) + Len(rest)
      BY <1>1, <3>1, Joined
    <3>3. Len(All) = Stream!EndOf(k) + Len(Ahead(k)) /\ Stream!EndOf(k) \in Nat
      BY Ends
    <3>4. Len(size) < 4
      BY <1>7 DEF AtHeader
    <3>5. Stream!EndOf(k) <= Stream!Arrived /\ Stream!Arrived < Stream!EndOf(k) + 4
      BY <1>3, <1>4, <3>2, <3>3, <3>4
    <3>6. ASSUME k # Count PROVE Stream!Arrived < Stream!EndOf(k + 1)
      <4>1. k + 1 \in 1 .. Count
        BY <1>2, <3>6
      <4>2. Stream!EndOf(k + 1) = Stream!EndOf(k) + 4 + Len(Contents[k + 1]) /\ Len(Contents[k + 1]) \in Nat
        BY <3>6, <4>1, Ends, Messages
      <4> QED BY <1>3, <3>3, <3>5, <4>2
    <3>7. Forwarded(k) /\ wrong = FALSE /\ status # "DOWN"
      BY <1>7 DEF AtHeader
    <3>8. Stream!ForwardsWhole
      BY <1>1, <3>5, <3>6, <3>7, Exactly
    <3>9. Stream!ClosesForCause
      BY <1>1, <3>5, <3>7, NoneYet DEF Forwarded
    <3> QED BY <3>8, <3>9
  <2> QED BY <2>1, <2>2, <2>3 DEF StreamExact
<1>8. ASSUME NEW k \in 0 .. Count, AtContent(k) PROVE StreamExact
  <2>1. k + 1 \in 1 .. Count /\ k # Count /\ k + 1 \in 0 .. Count
    BY <1>2, <1>8 DEF AtContent
  <2>2. length = Len(Contents[k + 1]) /\ length \in Nat \ {0} /\ Contents[k + 1] \in Wire
    BY <1>8, <2>1, Messages DEF AtContent
  <2>3. Stream!TypeOK
    BY <1>8, <2>2, Empty DEF AtContent, Stream!TypeOK, Stream!Header
  <2>4. buf # <<>> => Stream!ForwardsWhole /\ Stream!ClosesForCause
    BY DEF Stream!ForwardsWhole, Stream!ClosesForCause
  <2>5. ASSUME buf = <<>> PROVE Stream!ForwardsWhole /\ Stream!ClosesForCause
    <3>1. PICK c \in Wire, a \in Wire : c = Contents[k + 1] /\ a = Ahead(k + 1)
      BY <2>1, <2>2, AheadIs
    <3>2. Join(content, rest) = Join(c, a)
      BY <1>1, <1>8, <2>5, <3>1, Empty DEF AtContent
    <3>3. Len(content) + Len(rest) = Len(c) + Len(a) /\ Len(c) \in Nat /\ Len(a) \in Nat
      <4>1. Len(Join(content, rest)) = Len(content) + Len(rest)
        BY <1>1, Joined
      <4>2. Len(Join(c, a)) = Len(c) + Len(a) /\ Len(c) \in Nat /\ Len(a) \in Nat
        BY Joined
      <4> QED BY <3>2, <4>1, <4>2
    <3>4. /\ Len(All) = Stream!EndOf(k + 1) + Len(a) /\ Stream!EndOf(k + 1) \in Nat
          /\ Stream!EndOf(k) \in Nat /\ Stream!EndOf(k + 1) = Stream!EndOf(k) + 4 + length
      BY <2>1, <2>2, <3>1, Ends
    <3>5. Len(content) < length /\ length = Len(c)
      BY <1>8, <2>2, <3>1 DEF AtContent
    <3>6. Stream!EndOf(k) <= Stream!Arrived /\ Stream!Arrived < Stream!EndOf(k + 1)
      <4>1. Stream!Arrived = Stream!EndOf(k + 1) + Len(a) - Len(rest)
        BY <1>3, <3>4
      <4>2. Len(a) < Len(rest) /\ Len(rest) <= Len(c) + Len(a)
        BY <1>3, <1>4, <3>3, <3>5
      <4>3. Stream!EndOf(k + 1) = Stream!EndOf(k) + 4 + Len(c)
        BY <3>4, <3>5
      <4> QED BY SMTT(30), <1>3, <3>3, <3>4, <4>1, <4>2, <4>3
    <3>7. Forwarded(k) /\ wrong = FALSE /\ status # "DOWN" /\ ~ Stream!TooLong(k + 1)
      BY <1>8 DEF AtContent
    <3>8. Stream!ForwardsWhole
      BY <1>1, <3>6, <3>7, Exactly
    <3>9. \A m \in 1 .. k + 1 : ~ Stream!TooLong(m)
      BY <3>7 DEF Forwarded
    <3>10. Stream!Arrived < Stream!EndOf(k + 1) + 4
      BY <1>3, <3>4, <3>6
    <3>11. Stream!ClosesForCause
      BY <1>1, <2>1, <3>7, <3>9, <3>10, NoneYet
    <3> QED BY <3>8, <3>11
  <2> QED BY <2>3, <2>4, <2>5 DEF StreamExact
<1>9. ASSUME NEW k \in 0 .. Count, AtTooLong(k) PROVE StreamExact
  <2>1. k + 1 \in 1 .. Count /\ k # Count /\ Stream!TooLong(k + 1) /\ (k + 1) - 1 = k
    BY <1>2, <1>9 DEF AtTooLong
  <2>2. Stream!TypeOK
    BY <1>9 DEF AtTooLong, Stream!TypeOK, Stream!Header
  <2>3. Len(All) = Stream!EndOf(k) + Len(Ahead(k)) /\ Stream!EndOf(k) \in Nat /\ Len(Ahead(k)) \in Nat
    BY Ends
  <2>4. Len(rest) + 4 <= Len(Ahead(k)) /\ Forwarded(k) /\ wrong = FALSE /\ status = "DOWN"
    BY <1>9 DEF AtTooLong
  <2>5. Stream!Arrived >= Stream!EndOf(k) + 4 /\ Stream!EndOf(k) <= Stream!Arrived
    BY <1>3, <2>3, <2>4
  <2>6. Stream!ForwardsWhole
    BY <1>1, <2>1, <2>4, <2>5, Exactly
  <2>7. Stream!ClosesForCause
    <3>1. k + 1 \in DOMAIN Contents
      BY <1>2, <2>1
    <3>2. Stream!Arrived >= Stream!EndOf((k + 1) - 1) + 4
      BY <2>1, <2>5
    <3> QED BY <2>1, <2>4, <3>1, <3>2 DEF Stream!ClosesForCause, Stream!Header
  <2> QED BY <2>2, <2>6, <2>7 DEF StreamExact
<1> QED BY <1>5, <1>6, <1>7, <1>8, <1>9 DEF StreamInv

LEMMA NoMessages == [m \in 1 .. 0 |-> Contents[m]] = <<>>
OBVIOUS

LEMMA StreamInit == Stream!Init => StreamInv
<1> SUFFICES ASSUME Stream!Init PROVE StreamInv
  OBVIOUS
<1>1. All \in Wire /\ 0 \in 0 .. Count
  BY Messages, UptoGrows
<1>2. wrong \in BOOLEAN /\ buf = <<>> /\ size = <<>> /\ content = <<>> /\ messages = <<>>
  BY DEF Stream!Init
<1>3. Id \in Wire
  BY DEF Id, Wire, Stream!WrongId, Stream!OwnId
<1>4. CASE status = "HANDSHAKE" /\ rest = Id \o Stream!Stream
  <2>1. rest = Join(Id, All)
    BY <1>4 DEF Join, All
  <2>2. rest \in Wire
    BY <1>1, <1>3, <2>1, Joined
  <2>3. AtHandshake
    BY <1>2, <1>4, <2>1, <2>2, Empty DEF AtHandshake
  <2> QED BY <1>2, <2>2, <2>3, Empty DEF StreamInv, BytesTyped
<1>5. CASE status = "HEADER" /\ ~ wrong /\ rest = Stream!Stream
  <2>1. rest \in Wire /\ rest = Ahead(0)
    BY <1>1, <1>5, AheadIs DEF All
  <2>2. Forwarded(0)
    BY <1>2, NoMessages DEF Forwarded
  <2>3. wrong = FALSE
    BY <1>2, <1>5
  <2>4. Join(Join(size, buf), rest) = Ahead(0)
    BY <1>2, <2>1, Empty
  <2>5. AtHeader(0)
    BY <1>2, <1>5, <2>2, <2>3, <2>4, Empty DEF AtHeader
  <2> QED BY <1>1, <1>2, <2>1, <2>5, Empty DEF StreamInv, BytesTyped
<1> QED BY <1>4, <1>5, Zenon DEF Stream!Init, Id

\* A piece and what has not arrived are what had not arrived before.
LEMMA Arrives ==
  ASSUME NEW have \in Wire, NEW r \in Wire, NEW n \in 1 .. Len(r)
  PROVE  /\ Before(r, n) \in Wire /\ Beyond(r, n) \in Wire
         /\ Join(Join(have, Before(r, n)), Beyond(r, n)) = Join(Join(have, <<>>), r)
         /\ Join(Before(r, n), Beyond(r, n)) = Join(<<>>, r)
<1>1. n \in 0 .. Len(r)
  OBVIOUS
<1>2. Before(r, n) \in Wire /\ Beyond(r, n) \in Wire /\ r = Join(Before(r, n), Beyond(r, n))
  BY <1>1, Split
<1>3. PICK b \in Wire, e \in Wire : b = Before(r, n) /\ e = Beyond(r, n)
  BY <1>2
<1>4. Join(Join(have, b), e) = Join(have, Join(b, e)) /\ r = Join(b, e)
  BY <1>2, <1>3, Assoc
<1>5. Join(have, <<>>) = have /\ Join(<<>>, r) = r
  BY Empty
<1> QED BY <1>2, <1>3, <1>4, <1>5

LEMMA ArriveStep == StreamInv /\ Stream!Arrive => StreamInv'
<1> SUFFICES ASSUME StreamInv, Stream!Arrive PROVE StreamInv'
  OBVIOUS
<1>1. /\ buf = <<>> /\ status # "DOWN"
      /\ wrong' = wrong /\ status' = status /\ size' = size /\ content' = content
      /\ length' = length /\ messages' = messages
  BY DEF Stream!Arrive
<1>2. PICK n \in 1 .. Len(rest) : buf' = Before(rest, n) /\ rest' = Beyond(rest, n)
  BY DEF Stream!Arrive, Before, Beyond
<1>3. /\ rest \in Wire /\ size \in Wire /\ content \in Wire /\ wrong \in BOOLEAN
  BY DEF StreamInv, BytesTyped
<1>4. buf' \in Wire /\ rest' \in Wire
  BY <1>2, <1>3, Arrives
<1>5. BytesTyped'
  BY <1>1, <1>3, <1>4 DEF BytesTyped
<1>6. \A have \in Wire : Join(Join(have, buf'), rest') = Join(Join(have, buf), rest)
  BY <1>1, <1>2, <1>3, Arrives
<1>7. Join(buf', rest') = Join(buf, rest)
  <2>1. <<>> \in Wire
    BY Empty
  <2> QED BY <1>1, <1>2, <1>3, <2>1, Arrives
<1>8. AtHandshake => AtHandshake'
  BY <1>1, <1>7 DEF AtHandshake, Id
<1>9. ASSUME NEW k \in 0 .. Count, AtHeader(k) PROVE AtHeader(k)'
  <2>1. Join(Join(size', buf'), rest') = Ahead(k)
    BY <1>1, <1>3, <1>6, <1>9 DEF AtHeader
  <2> QED BY <1>1, <1>9, <2>1 DEF AtHeader, Forwarded
<1>10. ASSUME NEW k \in 0 .. Count, AtContent(k) PROVE AtContent(k)'
  <2>1. Join(Join(content', buf'), rest') = Join(Contents[k + 1], Ahead(k + 1))
    BY <1>1, <1>3, <1>6, <1>10 DEF AtContent
  <2> QED BY <1>1, <1>10, <2>1 DEF AtContent, Forwarded
<1> QED BY <1>1, <1>5, <1>8, <1>9, <1>10 DEF StreamInv, Refused, AtTooLong

LEMMA HandshakeStep == StreamInv /\ Stream!Handshake => StreamInv'
<1> SUFFICES ASSUME StreamInv, Stream!Handshake PROVE StreamInv'
  OBVIOUS
<1>1. /\ buf # <<>> /\ status = "HANDSHAKE"
      /\ wrong' = wrong /\ rest' = rest /\ size' = size /\ content' = content
      /\ length' = length /\ messages' = messages
  BY DEF Stream!Handshake
<1>2. /\ buf \in Wire /\ rest \in Wire /\ size \in Wire /\ content \in Wire /\ wrong \in BOOLEAN
  BY DEF StreamInv, BytesTyped
<1>3. AtHandshake
  BY <1>1 DEF StreamInv, Refused, AtHeader, AtContent, AtTooLong
<1>4. All \in Wire /\ 0 \in 0 .. Count
  BY Messages, UptoGrows
<1>5. Id \in Wire /\ Len(Id) = 1 /\ Id = <<Id[1]>>
  BY DEF Id, Wire, Stream!WrongId, Stream!OwnId
<1>6. /\ Before(buf, 1) = Id
      /\ Beyond(buf, 1) \in Wire /\ Join(Beyond(buf, 1), rest) = All
  <2>1. Len(buf) \in Nat /\ Len(buf) # 0
    BY <1>1, <1>2, Empty
  <2>2. 1 \in 0 .. Len(buf)
    BY <2>1
  <2>3. PICK b \in Wire, e \in Wire : b = Before(buf, 1) /\ e = Beyond(buf, 1)
    BY <1>2, <2>2, Split
  <2>4. Len(b) = 1 /\ buf = Join(b, e)
    BY <1>2, <2>2, <2>3, Split
  <2>5. Join(Join(b, e), rest) = Join(Id, All)
    BY <1>3, <2>4 DEF AtHandshake
  <2>6. Join(b, Join(e, rest)) = Join(Id, All) /\ Join(e, rest) \in Wire
    BY <1>2, <2>5, Assoc, Joined
  <2>7. b = Id /\ Join(e, rest) = All
    BY <1>4, <1>5, <2>4, <2>6, SameParts
  <2> QED BY <2>3, <2>7
<1>7. Head(buf) = Id[1] /\ Tail(buf) = Beyond(buf, 1)
  <2>1. Before(buf, 1)[1] = buf[1]
    <3>1. 1 \in 1 .. Len(buf)
      BY <1>1, <1>2, EmptySeq, LenProperties DEF Wire
    <3> QED BY <1>2, <3>1 DEF Before, Wire
  <2>2. Head(buf) = buf[1]
    BY <1>1, <1>2 DEF Wire
  <2>3. Tail(buf) = SubSeq(buf, 2, Len(buf))
    BY <1>1, <1>2, TailIsSubSeq DEF Wire
  <2> QED BY <1>6, <2>1, <2>2, <2>3 DEF Beyond
<1>8. CASE wrong = FALSE
  <2>1. Head(buf) = Stream!OwnId
    BY <1>7, <1>8 DEF Id
  <2>2. status' = "HEADER" /\ buf' = Beyond(buf, 1)
    BY <1>7, <2>1 DEF Stream!Handshake
  <2>3. Forwarded(0)'
    BY <1>1, <1>3, NoMessages DEF Forwarded, AtHandshake
  <2>4. Join(Join(size', buf'), rest') = Ahead(0)
    BY <1>1, <1>3, <1>6, <2>2, Empty, AheadIs DEF AtHandshake
  <2>5. AtHeader(0)'
    BY <1>1, <1>3, <1>8, <2>2, <2>3, <2>4, Empty DEF AtHeader, AtHandshake
  <2>6. BytesTyped'
    BY <1>1, <1>2, <1>6, <2>2 DEF BytesTyped
  <2> QED BY <1>4, <2>5, <2>6 DEF StreamInv
<1>9. CASE wrong = TRUE
  <2>1. Head(buf) # Stream!OwnId
    BY <1>7, <1>9 DEF Id, Stream!WrongId, Stream!OwnId
  <2>2. status' = "DOWN" /\ buf' = <<>>
    BY <2>1 DEF Stream!Handshake, Stream!Close
  <2>3. Len(rest) <= Len(All)
    <3>1. PICK e \in Wire : e = Beyond(buf, 1)
      BY <1>6
    <3>2. Len(All) = Len(e) + Len(rest) /\ Len(e) \in Nat /\ Len(rest) \in Nat
      BY <1>2, <1>6, <3>1, Joined
    <3> QED BY <3>2
  <2>4. Refused'
    BY <1>1, <1>3, <1>9, <2>2, <2>3 DEF Refused, AtHandshake
  <2>5. BytesTyped'
    BY <1>1, <1>2, <2>2, Empty DEF BytesTyped
  <2> QED BY <2>4, <2>5 DEF StreamInv
<1> QED BY <1>2, <1>8, <1>9

LEMMA PartOfHeaderStep == StreamInv /\ Stream!PartOfHeader => StreamInv'
<1> SUFFICES ASSUME StreamInv, Stream!PartOfHeader PROVE StreamInv'
  OBVIOUS
<1>1. /\ status = "HEADER" /\ buf' = <<>> /\ size' = Join(size, buf) /\ Len(buf) < 4 - Len(size)
      /\ wrong' = wrong /\ status' = status /\ rest' = rest /\ content' = content
      /\ length' = length /\ messages' = messages
  BY DEF Stream!PartOfHeader, Stream!Part, Stream!Header, Join
<1>2. /\ buf \in Wire /\ rest \in Wire /\ size \in Wire /\ content \in Wire /\ wrong \in BOOLEAN
  BY DEF StreamInv, BytesTyped
<1>3. PICK k \in 0 .. Count : AtHeader(k)
  BY <1>1 DEF StreamInv, AtHandshake, Refused, AtContent, AtTooLong
<1>4. size' \in Wire /\ Len(size') < 4
  <2>1. /\ Join(size, buf) \in Wire /\ Len(Join(size, buf)) = Len(size) + Len(buf)
        /\ Len(size) \in Nat /\ Len(buf) \in Nat
    BY <1>2, Joined
  <2> QED BY <1>1, <2>1
<1>5. Join(Join(size', buf'), rest') = Ahead(k)
  BY <1>1, <1>3, <1>4, Empty DEF AtHeader
<1>6. AtHeader(k)'
  BY <1>1, <1>3, <1>4, <1>5 DEF AtHeader, Forwarded
<1>7. BytesTyped'
  BY <1>1, <1>2, <1>4, Empty DEF BytesTyped
<1> QED BY <1>6, <1>7 DEF StreamInv

LEMMA PartOfContentStep == StreamInv /\ Stream!PartOfContent => StreamInv'
<1> SUFFICES ASSUME StreamInv, Stream!PartOfContent PROVE StreamInv'
  OBVIOUS
<1>1. /\ status = "CONTENT" /\ buf' = <<>> /\ content' = Join(content, buf) /\ Len(buf) < length - Len(content)
      /\ wrong' = wrong /\ status' = status /\ rest' = rest /\ size' = size
      /\ length' = length /\ messages' = messages
  BY DEF Stream!PartOfContent, Stream!Part, Join
<1>2. /\ buf \in Wire /\ rest \in Wire /\ size \in Wire /\ content \in Wire /\ wrong \in BOOLEAN
  BY DEF StreamInv, BytesTyped
<1>3. PICK k \in 0 .. Count : AtContent(k)
  BY <1>1 DEF StreamInv, AtHandshake, Refused, AtHeader, AtTooLong
<1>4. length \in Nat
  <2>1. k + 1 \in 1 .. Count
    BY <1>3, Messages DEF AtContent
  <2> QED BY <1>3, <2>1, Messages DEF AtContent
<1>5. content' \in Wire /\ Len(content') < length
  <2>1. /\ Join(content, buf) \in Wire /\ Len(Join(content, buf)) = Len(content) + Len(buf)
        /\ Len(content) \in Nat /\ Len(buf) \in Nat
    BY <1>2, Joined
  <2> QED BY <1>1, <1>4, <2>1
<1>6. Join(Join(content', buf'), rest') = Join(Contents[k + 1], Ahead(k + 1))
  BY <1>1, <1>3, <1>5, Empty DEF AtContent
<1>7. AtContent(k)'
  BY <1>1, <1>3, <1>5, <1>6 DEF AtContent, Forwarded
<1>8. BytesTyped'
  BY <1>1, <1>2, <1>5, Empty DEF BytesTyped
<1> QED BY <1>7, <1>8 DEF StreamInv

LEMMA EndOfHeaderStep == StreamInv /\ Stream!EndOfHeader => StreamInv'
<1> SUFFICES ASSUME StreamInv, Stream!EndOfHeader PROVE StreamInv'
  OBVIOUS
<1> DEFINE s == Before(Join(size, buf), 4)
<1>1. /\ status = "HEADER" /\ buf # <<>> /\ Len(buf) >= 4 - Len(size)
      /\ wrong' = wrong /\ rest' = rest /\ content' = content /\ messages' = messages
      /\ IF s[1] # 0
           THEN status' = "DOWN" /\ buf' = <<>> /\ size' = size /\ length' = length
           ELSE /\ buf' = Beyond(buf, 4 - Len(size)) /\ length' = Stream!Decoded(s)
                /\ size' = <<>> /\ status' = "CONTENT"
  BY DEF Stream!EndOfHeader, Stream!Whole, Stream!With, Stream!After, Stream!Close, Stream!Header,
         Join, Before, Beyond
<1> HIDE DEF s
<1>2. /\ buf \in Wire /\ rest \in Wire /\ size \in Wire /\ content \in Wire /\ wrong \in BOOLEAN
  BY DEF StreamInv, BytesTyped
<1>3. PICK k \in 0 .. Count : AtHeader(k)
  BY <1>1 DEF StreamInv, AtHandshake, Refused, AtContent, AtTooLong
<1>4. Len(size) \in Nat /\ Len(buf) \in Nat /\ Len(rest) \in Nat /\ Len(size) < 4 /\ Len(buf) # 0
  BY <1>1, <1>2, <1>3, Empty DEF AtHeader
<1>5. k # Count
  <2>1. ASSUME k = Count PROVE FALSE
    <3>1. Join(Join(size, buf), rest) = <<>>
      BY <1>3, <2>1, AheadIs DEF AtHeader
    <3>2. PICK w \in Wire : w = Join(size, buf) /\ Len(w) = Len(size) + Len(buf)
      BY <1>2, Joined
    <3>3. PICK t \in Wire : t = Join(w, rest) /\ Len(t) = Len(w) + Len(rest)
      BY <1>2, Joined
    <3>4. t = <<>>
      BY <3>1, <3>2, <3>3
    <3>5. Len(t) = 0
      BY <3>4, Empty
    <3>6. Len(w) + Len(rest) = 0
      BY <3>3, <3>5
    <3>7. Len(w) = Len(size) + Len(buf)
      BY <3>2
    <3> QED BY ONLY <1>4, <3>6, <3>7
  <2> QED BY <2>1
<1>6. k + 1 \in 1 .. Count /\ k + 1 \in 0 .. Count
  BY <1>5, Messages
<1>7. PICK n \in Nat \ {0} : n = Len(Contents[k + 1])
  BY <1>6, Messages
<1>8. PICK c \in Wire, a \in Wire, p \in Wire, q \in Wire :
        /\ c = Contents[k + 1] /\ a = Ahead(k + 1) /\ p = Stream!Encoded(n) /\ q = Join(c, a)
  <2>1. Contents[k + 1] \in Wire /\ Ahead(k + 1) \in Wire /\ Stream!Encoded(n) \in Wire
    BY <1>6, <1>7, Messages, AheadIs
  <2> QED BY <2>1, Joined
<1>9. Len(p) = 4 /\ (p[1] = 0 <=> n < Base * Base * Base) /\ (p[1] = 0 => Stream!Decoded(p) = n)
  BY <1>8, LengthRead
<1>10. Ahead(k) = Join(p, q)
  <2>1. Ahead(k) = Join(Join(p, c), a)
    BY <1>5, <1>6, <1>7, <1>8, AheadIs, Messages
  <2> QED BY <1>8, <2>1, Assoc
<1>11. Stream!TooLong(k + 1) <=> n >= Base * Base * Base
  BY <1>7 DEF Stream!TooLong
<1>12. Join(Join(size, buf), rest) = Join(p, q)
  BY <1>3, <1>10 DEF AtHeader
<1>13. Base * Base * Base \in Nat
  BY StreamAssumption
<1>14. /\ s = p /\ Beyond(buf, 4 - Len(size)) \in Wire
       /\ Join(Beyond(buf, 4 - Len(size)), rest) = q
  <2>1. Len(size) <= Len(p) /\ Len(buf) >= Len(p) - Len(size)
    BY <1>1, <1>4, <1>9
  <2>2. /\ Before(Join(size, buf), Len(p)) = p
        /\ Beyond(buf, Len(p) - Len(size)) \in Wire
        /\ Join(Beyond(buf, Len(p) - Len(size)), rest) = q
    BY <1>2, <1>12, <2>1, Cut
  <2> QED BY <1>9, <2>2 DEF s
<1>15. CASE s[1] # 0
  <2>1. Stream!TooLong(k + 1)
    BY <1>9, <1>11, <1>13, <1>14, <1>15
  <2>2. Len(rest) + 4 <= Len(Ahead(k))
    <3>1. Len(Ahead(k)) = Len(p) + Len(q) /\ Len(q) \in Nat
      BY <1>10, Joined
    <3>2. PICK left \in Wire : left = Beyond(buf, 4 - Len(size))
      BY <1>14
    <3>3. Len(q) = Len(left) + Len(rest) /\ Len(left) \in Nat
      BY <1>2, <1>14, <3>2, Joined
    <3> QED BY <1>4, <1>9, <3>1, <3>3
  <2>3. AtTooLong(k)'
    BY <1>1, <1>3, <1>4, <1>5, <1>15, <2>1, <2>2 DEF AtTooLong, AtHeader, Forwarded
  <2>4. BytesTyped'
    BY <1>1, <1>2, <1>15, Empty DEF BytesTyped
  <2> QED BY <2>3, <2>4 DEF StreamInv
<1>16. CASE s[1] = 0
  <2>1. ~ Stream!TooLong(k + 1)
    BY <1>9, <1>11, <1>13, <1>14, <1>16
  <2>2. length' = n /\ buf' = Beyond(buf, 4 - Len(size)) /\ size' = <<>> /\ status' = "CONTENT"
    BY <1>1, <1>9, <1>14, <1>16
  <2>3. content' = <<>> /\ Len(content') < length'
    BY <1>1, <1>3, <1>7, <2>2, Empty DEF AtHeader
  <2>4. Join(Join(content', buf'), rest') = Join(Contents[k + 1], Ahead(k + 1))
    <3>1. Join(<<>>, buf') = buf'
      BY <1>14, <2>2, Empty
    <3> QED BY <1>1, <1>8, <1>14, <2>2, <2>3, <3>1
  <2>5. AtContent(k)'
    BY <1>1, <1>3, <1>5, <1>7, <2>1, <2>2, <2>3, <2>4 DEF AtContent, AtHeader, Forwarded
  <2>6. BytesTyped'
    BY <1>1, <1>2, <1>14, <2>2, <2>3, Empty DEF BytesTyped
  <2> QED BY <2>5, <2>6 DEF StreamInv
<1> QED BY <1>15, <1>16

LEMMA EndOfContentStep == StreamInv /\ Stream!EndOfContent => StreamInv'
<1> SUFFICES ASSUME StreamInv, Stream!EndOfContent PROVE StreamInv'
  OBVIOUS
<1>1. /\ status = "CONTENT" /\ Len(buf) >= length - Len(content)
      /\ wrong' = wrong /\ rest' = rest /\ size' = size
      /\ buf' = Beyond(buf, length - Len(content))
      /\ messages' = Append(messages, Before(Join(content, buf), length))
      /\ content' = <<>> /\ length' = 0 /\ status' = "HEADER"
  BY DEF Stream!EndOfContent, Stream!Whole, Stream!With, Stream!After, Join, Before, Beyond
<1>2. /\ buf \in Wire /\ rest \in Wire /\ size \in Wire /\ content \in Wire /\ wrong \in BOOLEAN
  BY DEF StreamInv, BytesTyped
<1>3. PICK k \in 0 .. Count : AtContent(k)
  BY <1>1 DEF StreamInv, AtHandshake, Refused, AtHeader, AtTooLong
<1>4. k # Count /\ k + 1 \in 1 .. Count /\ k + 1 \in 0 .. Count
  BY <1>3, Messages DEF AtContent
<1>5. PICK p \in Wire, q \in Wire : p = Contents[k + 1] /\ q = Ahead(k + 1)
  BY <1>4, Messages, AheadIs
<1>6. length = Len(p) /\ Len(content) <= Len(p) /\ Len(p) \in Nat /\ Len(content) \in Nat
  BY <1>2, <1>3, <1>5, Empty DEF AtContent
<1>7. Join(Join(content, buf), rest) = Join(p, q)
  BY <1>3, <1>5 DEF AtContent
<1>8. /\ Before(Join(content, buf), Len(p)) = p
      /\ Beyond(buf, Len(p) - Len(content)) \in Wire
      /\ Join(Beyond(buf, Len(p) - Len(content)), rest) = q
  BY <1>1, <1>2, <1>6, <1>7, Cut
<1>9. buf' \in Wire /\ Join(buf', rest') = Ahead(k + 1) /\ messages' = Append(messages, Contents[k + 1])
  BY <1>1, <1>5, <1>6, <1>8
<1>10. Forwarded(k + 1)'
  <2>1. messages = [m \in 1 .. k |-> Contents[m]] /\ \A m \in 1 .. k + 1 : ~ Stream!TooLong(m)
    BY <1>3 DEF AtContent, Forwarded
  <2>2. Append([m \in 1 .. k |-> Contents[m]], Contents[k + 1]) = [m \in 1 .. k + 1 |-> Contents[m]]
    BY <1>4
  <2> QED BY <1>9, <2>1, <2>2 DEF Forwarded
<1>11. size' = <<>> /\ Len(size') < 4
  BY <1>1, <1>3, Empty DEF AtContent
<1>12. Join(Join(size', buf'), rest') = Ahead(k + 1)
  BY <1>9, <1>11, Empty
<1>13. AtHeader(k + 1)'
  BY <1>1, <1>3, <1>10, <1>11, <1>12 DEF AtHeader, AtContent
<1>14. BytesTyped'
  BY <1>1, <1>2, <1>9, Empty DEF BytesTyped
<1> QED BY <1>4, <1>13, <1>14 DEF StreamInv

\* push_socket_data: for any messages, however the stream comes in pieces.
THEOREM StreamTheorem == Stream!Spec => []StreamExact
<1>1. Stream!Init => StreamInv
  BY StreamInit
<1>2. StreamInv /\ [Stream!Next]_Stream!vars => StreamInv'
  <2>1. StreamInv /\ Stream!Next => StreamInv'
    BY ArriveStep, HandshakeStep, PartOfHeaderStep, EndOfHeaderStep, PartOfContentStep, EndOfContentStep
       DEF Stream!Next
  <2>2. StreamInv /\ UNCHANGED Stream!vars => StreamInv'
    BY DEF Stream!vars, StreamInv, BytesTyped, AtHandshake, Refused, AtHeader, AtContent, AtTooLong,
           Forwarded, Id
  <2> QED BY <2>1, <2>2
<1>3. StreamInv => StreamExact
  BY StreamInvShows
<1> QED BY <1>1, <1>2, <1>3, PTL DEF Stream!Spec

-----------------------------------------------------------------------------
(***************************************************************************)
(* The link, for any number of messages.                                   *)
(***************************************************************************)
End == {"opener", "acceptor"}
Other(e) == IF e = "opener" THEN "acceptor" ELSE "opener"
Item == Either!Msg \cup {Either!Id}
Line == Seq(Item)

\* The numbers of the messages of an end, each at most once, and no other's.
Numbers(s, e) == {k \in 1 .. MaxSend : \E i \in DOMAIN s : s[i].from = e /\ s[i].k = k}
Once(s, e) ==
  \A i, j \in DOMAIN s :
    s[i].from = e /\ s[j].from = e /\ s[i].k = s[j].k /\ s[i].k # 0 => i = j
Own(s, e) == \A i \in DOMAIN s : s[i].from = e \/ s[i] = Either!Id
LostNumbers(l) == {m.k : m \in l}
Handles(s) == Either!Handles(s)
Ascending(s) == Either!Ascending(s)
Led(s) == s # <<>> /\ Head(s) = Either!Id /\ Tail(s) \in Seq(Either!Msg)

Apart(a, b) == \A k \in a : k \notin b
Precede(a, b) == \A k \in a, l \in b : k < l

\* Each message of e is in one place: its queue, that of the name, the wire, a
\* service of this end, one of the other end, or among the lost.
OnePlace(e, q, n, w, g, h, l, s) ==
  /\ Once(q, e) /\ Once(n, e) /\ Once(w, e) /\ Once(g, e) /\ Once(h, e)
  /\ Own(q, e) /\ Own(n, e) /\ Own(w, e)
  /\ Apart(Numbers(q, e), Numbers(n, e)) /\ Apart(Numbers(q, e), Numbers(w, e))
  /\ Apart(Numbers(q, e), Numbers(g, e)) /\ Apart(Numbers(q, e), Numbers(h, e))
  /\ Apart(Numbers(n, e), Numbers(w, e)) /\ Apart(Numbers(n, e), Numbers(g, e))
  /\ Apart(Numbers(n, e), Numbers(h, e)) /\ Apart(Numbers(w, e), Numbers(g, e))
  /\ Apart(Numbers(w, e), Numbers(h, e)) /\ Apart(Numbers(g, e), Numbers(h, e))
  /\ Apart(Numbers(q, e), LostNumbers(l)) /\ Apart(Numbers(n, e), LostNumbers(l))
  /\ Apart(Numbers(w, e), LostNumbers(l)) /\ Apart(Numbers(g, e), LostNumbers(l))
  /\ Apart(Numbers(h, e), LostNumbers(l))
  /\ \A k \in 1 .. MaxSend :
       k <= s <=> \/ k \in Numbers(q, e) \/ k \in Numbers(n, e) \/ k \in Numbers(w, e)
                  \/ k \in Numbers(g, e) \/ k \in Numbers(h, e) \/ k \in LostNumbers(l)

\* Those to a handle are on their way in their order.
OnTheWay(q, w, h, to) ==
  /\ Ascending(q) /\ Ascending(w) /\ Ascending(h)
  /\ Precede(Handles(h), Handles(w)) /\ Precede(Handles(h), Handles(q))
  /\ Precede(Handles(w), Handles(q))
  /\ to = Handles(h) \cup Handles(w) \cup Handles(q)

\* The handshakes.
Phases ==
  /\ fd["acceptor"] => fd["opener"]
  /\ linkStatus["opener"] \in (IF fd["opener"] THEN {"HANDSHAKE", "HEADER", "DOWN"} ELSE {"WAIT"})
  /\ linkStatus["acceptor"] = IF fd["acceptor"] THEN "HEADER" ELSE "WAIT"
  /\ linkStatus["opener"] = "HEADER" => fd["acceptor"]
  /\ linkStatus["opener"] = "DOWN" => broken
  /\ broken => fd["opener"] /\ wire["opener"] = <<>> /\ wire["acceptor"] = <<>>
  /\ ~ fd["opener"] => wire["opener"] = <<>>
  /\ ~ fd["acceptor"] => wire["acceptor"] = <<>>
  /\ fd["opener"] /\ ~ fd["acceptor"] /\ ~ broken => Led(wire["opener"]) /\ Handles(wire["opener"]) = {}
  /\ fd["acceptor"] => wire["opener"] \in Seq(Either!Msg)
  /\ fd["acceptor"] /\ linkStatus["opener"] = "HANDSHAKE" /\ ~ broken => Led(wire["acceptor"])
  /\ linkStatus["opener"] = "HEADER" => wire["acceptor"] \in Seq(Either!Msg)

ToHandle(e) == {k \in DOMAIN sent[e] : sent[e][k] = "handle"}
EndInv(e) ==
  /\ Handles(nameq[e]) = {}
  /\ OnePlace(e, queue[e], nameq[e], wire[e], got[e], got[Other(e)], lost[e], Len(sent[e]))
  /\ ~ broken => OnTheWay(queue[e], wire[e], got[Other(e)], ToHandle(e))

LinkInv == Either!TypeOK /\ Phases /\ Either!UpMeansSent /\ \A e \in End : EndInv(e)

LEMMA Items ==
  /\ Either!Msg \subseteq Item /\ Either!Id \in Item /\ Either!Id \notin Either!Msg
  /\ \A m \in Item : /\ m.from \in End /\ m.k \in Nat /\ m.by \in {"handle", "name", "id"}
                     /\ m # Either!Id => m \in Either!Msg
  /\ \A m \in Either!Msg : m.k \in 1 .. MaxSend /\ m.from \in End /\ m.by \in {"handle", "name"}
  /\ Either!Id.k = 0 /\ Either!Id.by = "id"
BY LinkAssumption DEF Item, Either!Msg, Either!Id, End, Either!End

\* Line w is s and then t.
TwoLines(s, t, w) ==
  /\ \A i \in DOMAIN s : i \in DOMAIN w /\ w[i] = s[i]
  /\ \A j \in DOMAIN t : Len(s) + j \in DOMAIN w /\ w[Len(s) + j] = t[j]
  /\ \A i \in DOMAIN w : i \in DOMAIN s \/ \E j \in DOMAIN t : i = Len(s) + j
  /\ \A i \in DOMAIN s : i \in Nat /\ i <= Len(s) /\ s[i] \in Item
  /\ \A j \in DOMAIN t : j \in Nat \ {0} /\ t[j] \in Item
  /\ Len(s) \in Nat

\* What holds of a sequence by its parts.
LEMMA LineOfTwo ==
  ASSUME NEW s \in Line, NEW t \in Line
  PROVE  /\ s \o t \in Line /\ TwoLines(s, t, s \o t)
<1>1. s \in Seq(Item) /\ t \in Seq(Item) /\ Len(s) \in Nat /\ Len(t) \in Nat
      /\ DOMAIN s = 1 .. Len(s) /\ DOMAIN t = 1 .. Len(t)
  BY DEF Line
<1>2. /\ s \o t \in Seq(Item) /\ Len(s \o t) = Len(s) + Len(t)
      /\ \A i \in 1 .. Len(s) + Len(t) : (s \o t)[i] = IF i <= Len(s) THEN s[i] ELSE t[i - Len(s)]
  BY <1>1, ConcatProperties
<1>3. DOMAIN (s \o t) = 1 .. Len(s) + Len(t)
  BY <1>2
<1>4. \A i \in DOMAIN s : i \in DOMAIN (s \o t) /\ (s \o t)[i] = s[i]
  BY <1>1, <1>2, <1>3
<1>5. ASSUME NEW j \in DOMAIN t
      PROVE  Len(s) + j \in DOMAIN (s \o t) /\ (s \o t)[Len(s) + j] = t[j]
  <2>1. Len(s) + j \in 1 .. Len(s) + Len(t) /\ ~ (Len(s) + j <= Len(s)) /\ (Len(s) + j) - Len(s) = j
    BY <1>1
  <2> QED BY <1>2, <1>3, <2>1
<1>6. ASSUME NEW i \in DOMAIN (s \o t), i \notin DOMAIN s
      PROVE  \E j \in DOMAIN t : i = Len(s) + j
  <2>1. i - Len(s) \in DOMAIN t /\ i = Len(s) + (i - Len(s))
    BY <1>1, <1>3, <1>6
  <2> QED BY <2>1
<1>7. TwoLines(s, t, s \o t)
  <2> DEFINE w == s \o t
  <2>1. \A i \in DOMAIN w : i \in DOMAIN s \/ \E j \in DOMAIN t : i = Len(s) + j
    BY <1>6
  <2>2. /\ \A i \in DOMAIN s : i \in DOMAIN w /\ w[i] = s[i]
        /\ \A j \in DOMAIN t : Len(s) + j \in DOMAIN w /\ w[Len(s) + j] = t[j]
    BY <1>4, <1>5
  <2> HIDE DEF w
  <2>3. /\ \A i \in DOMAIN s : i \in Nat /\ i <= Len(s) /\ s[i] \in Item
        /\ \A j \in DOMAIN t : j \in Nat \ {0} /\ t[j] \in Item
    BY <1>1
  <2>4. TwoLines(s, t, w)
    BY <1>1, <2>1, <2>2, <2>3 DEF TwoLines
  <2> QED BY <2>4 DEF w
<1> QED BY <1>2, <1>7 DEF Line

LEMMA NumbersOfTwo ==
  ASSUME NEW s \in Line, NEW t \in Line, NEW e
  PROVE  /\ Numbers(s \o t, e) = Numbers(s, e) \cup Numbers(t, e)
         /\ Own(s \o t, e) <=> Own(s, e) /\ Own(t, e)
         /\ Handles(s \o t) = Handles(s) \cup Handles(t)
<1> DEFINE w == s \o t
<1>0. TwoLines(s, t, w)
  BY LineOfTwo
<1> HIDE DEF w
<1>1. /\ \A i \in DOMAIN s : i \in DOMAIN w /\ w[i] = s[i]
      /\ \A j \in DOMAIN t : Len(s) + j \in DOMAIN w /\ w[Len(s) + j] = t[j]
      /\ \A i \in DOMAIN w : i \in DOMAIN s \/ \E j \in DOMAIN t : i = Len(s) + j
  BY <1>0 DEF TwoLines
<1>2. Numbers(w, e) = Numbers(s, e) \cup Numbers(t, e)
  BY <1>1 DEF Numbers
<1>3. Own(w, e) <=> Own(s, e) /\ Own(t, e)
  BY <1>1 DEF Own
<1>4. Handles(w) = Handles(s) \cup Handles(t)
  BY <1>1 DEF Handles, Either!Handles, Either!HandleAt
<1> QED BY <1>2, <1>3, <1>4 DEF w

LEMMA OnceOfTwo ==
  ASSUME NEW s \in Line, NEW t \in Line, NEW e
  PROVE  Once(s \o t, e) <=> Once(s, e) /\ Once(t, e) /\ Apart(Numbers(s, e), Numbers(t, e))
<1> DEFINE w == s \o t
<1>0. TwoLines(s, t, w)
  BY LineOfTwo
<1> HIDE DEF w
<1>1. /\ \A i \in DOMAIN s : i \in DOMAIN w /\ w[i] = s[i]
      /\ \A j \in DOMAIN t : Len(s) + j \in DOMAIN w /\ w[Len(s) + j] = t[j]
      /\ \A i \in DOMAIN w : i \in DOMAIN s \/ \E j \in DOMAIN t : i = Len(s) + j
      /\ \A i \in DOMAIN s : i \in Nat /\ i <= Len(s) /\ s[i] \in Item
      /\ \A j \in DOMAIN t : j \in Nat \ {0} /\ t[j] \in Item
      /\ Len(s) \in Nat
  BY <1>0 DEF TwoLines
<1>2. \A m \in Item : m.k # 0 => m.k \in 1 .. MaxSend
  BY Items
<1> HIDE DEF w
<1>3. ASSUME Once(w, e) PROVE Once(s, e) /\ Once(t, e) /\ Apart(Numbers(s, e), Numbers(t, e))
  <2>1. Once(s, e)
    BY <1>1, <1>3 DEF Once
  <2>2. Once(t, e)
    <3>1. SUFFICES ASSUME NEW i \in DOMAIN t, NEW j \in DOMAIN t,
                          t[i].from = e, t[j].from = e, t[i].k = t[j].k, t[i].k # 0
                   PROVE  i = j
      BY DEF Once
    <3>2. Len(s) + i = Len(s) + j
      BY <1>1, <1>3, <3>1 DEF Once
    <3> QED BY <1>1, <3>2
  <2>3. ASSUME NEW k \in Numbers(s, e), k \in Numbers(t, e) PROVE FALSE
    <3>1. PICK i \in DOMAIN s : s[i].from = e /\ s[i].k = k
      BY DEF Numbers
    <3>2. PICK j \in DOMAIN t : t[j].from = e /\ t[j].k = k
      BY <2>3 DEF Numbers
    <3>3. k # 0
      BY DEF Numbers
    <3>4. i = Len(s) + j
      BY <1>1, <1>3, <3>1, <3>2, <3>3 DEF Once
    <3> QED BY <1>1, <3>4
  <2> QED BY <2>1, <2>2, <2>3 DEF Apart
<1>4. ASSUME Once(s, e), Once(t, e), Apart(Numbers(s, e), Numbers(t, e)) PROVE Once(w, e)
  <2>1. SUFFICES ASSUME NEW i \in DOMAIN w, NEW j \in DOMAIN w,
                        w[i].from = e, w[j].from = e, w[i].k = w[j].k, w[i].k # 0
                 PROVE  i = j
    BY DEF Once
  <2>2. ASSUME NEW a \in DOMAIN s, NEW b \in DOMAIN t, s[a].from = e, t[b].from = e, s[a].k = t[b].k,
               s[a].k # 0
        PROVE  FALSE
    <3>1. s[a].k \in 1 .. MaxSend
      BY <1>1, <1>2, <2>2
    <3>2. s[a].k \in Numbers(s, e) /\ s[a].k \in Numbers(t, e)
      BY <2>2, <3>1 DEF Numbers
    <3> QED BY <1>4, <3>2 DEF Apart
  <2>3. CASE i \in DOMAIN s
    <3>1. CASE j \in DOMAIN s
      BY <1>1, <1>4, <2>1, <2>3, <3>1 DEF Once
    <3>2. CASE \E b \in DOMAIN t : j = Len(s) + b
      BY <1>1, <2>1, <2>2, <2>3, <3>2
    <3> QED BY <1>1, <3>1, <3>2
  <2>4. CASE \E b \in DOMAIN t : i = Len(s) + b
    <3>1. CASE j \in DOMAIN s
      BY <1>1, <2>1, <2>2, <2>4, <3>1
    <3>2. CASE \E b \in DOMAIN t : j = Len(s) + b
      BY <1>1, <1>4, <2>1, <2>4, <3>2 DEF Once
    <3> QED BY <1>1, <3>1, <3>2
  <2> QED BY <1>1, <2>3, <2>4
<1> QED BY <1>3, <1>4 DEF w

LEMMA AscendingOfTwo ==
  ASSUME NEW s \in Line, NEW t \in Line
  PROVE  Ascending(s \o t) <=> Ascending(s) /\ Ascending(t) /\ Precede(Handles(s), Handles(t))
<1> DEFINE w == s \o t
<1>0. TwoLines(s, t, w)
  BY LineOfTwo
<1> HIDE DEF w
<1>1. /\ \A i \in DOMAIN s : i \in DOMAIN w /\ w[i] = s[i]
      /\ \A j \in DOMAIN t : Len(s) + j \in DOMAIN w /\ w[Len(s) + j] = t[j]
      /\ \A i \in DOMAIN w : i \in DOMAIN s \/ \E j \in DOMAIN t : i = Len(s) + j
      /\ \A i \in DOMAIN s : i \in Nat /\ i <= Len(s) /\ s[i] \in Item
      /\ \A j \in DOMAIN t : j \in Nat \ {0} /\ t[j] \in Item
      /\ Len(s) \in Nat
  BY <1>0 DEF TwoLines
<1> USE DEF Ascending, Handles, Either!Ascending, Either!Handles, Either!HandleAt
<1>2. ASSUME Ascending(w) PROVE Ascending(s) /\ Ascending(t) /\ Precede(Handles(s), Handles(t))
  <2>1. Ascending(s)
    BY <1>1, <1>2
  <2>2. Ascending(t)
    <3>1. SUFFICES ASSUME NEW i \in DOMAIN t, NEW j \in DOMAIN t,
                          i < j, t[i].by = "handle", t[j].by = "handle"
                   PROVE  t[i].k < t[j].k
      OBVIOUS
    <3>2. Len(s) + i < Len(s) + j
      BY <1>1, <3>1
    <3> QED BY <1>1, <1>2, <3>1, <3>2
  <2>3. ASSUME NEW i \in DOMAIN s, NEW j \in DOMAIN t, s[i].by = "handle", t[j].by = "handle"
        PROVE  s[i].k < t[j].k
    <3>1. i < Len(s) + j
      BY <1>1
    <3> QED BY <1>1, <1>2, <2>3, <3>1
  <2> QED BY <2>1, <2>2, <2>3 DEF Precede
<1>3. ASSUME Ascending(s), Ascending(t), Precede(Handles(s), Handles(t)) PROVE Ascending(w)
  <2>1. SUFFICES ASSUME NEW i \in DOMAIN w, NEW j \in DOMAIN w,
                        i < j, w[i].by = "handle", w[j].by = "handle"
                 PROVE  w[i].k < w[j].k
    OBVIOUS
  <2>2. CASE i \in DOMAIN s
    <3>1. CASE j \in DOMAIN s
      BY <1>1, <1>3, <2>1, <2>2, <3>1
    <3>2. CASE \E b \in DOMAIN t : j = Len(s) + b
      BY <1>1, <1>3, <2>1, <2>2, <3>2 DEF Precede
    <3> QED BY <1>1, <3>1, <3>2
  <2>3. CASE \E a \in DOMAIN t : i = Len(s) + a
    <3>1. j \notin DOMAIN s
      BY <1>1, <2>1, <2>3
    <3>2. PICK a \in DOMAIN t, b \in DOMAIN t : i = Len(s) + a /\ j = Len(s) + b
      BY <1>1, <2>3, <3>1
    <3>3. a < b
      BY <1>1, <2>1, <3>2
    <3> QED BY <1>1, <1>3, <2>1, <3>2, <3>3
  <2> QED BY <1>1, <2>2, <2>3
<1> QED BY <1>2, <1>3 DEF w


LEMMA OfNone ==
  ASSUME NEW e
  PROVE  /\ <<>> \in Line /\ Numbers(<<>>, e) = {} /\ Once(<<>>, e) /\ Own(<<>>, e)
         /\ Handles(<<>>) = {} /\ Ascending(<<>>)
         /\ \A s \in Line : s \o <<>> = s /\ <<>> \o s = s
<1>1. <<>> \in Line /\ \A s \in Line : s \o <<>> = s /\ <<>> \o s = s
  BY ConcatEmptySeq DEF Line
<1>2. DOMAIN <<>> = {}
  OBVIOUS
<1> QED BY <1>1, <1>2 DEF Numbers, Once, Own, Handles, Either!Handles, Ascending, Either!Ascending

LEMMA OfOne ==
  ASSUME NEW m \in Item, NEW e
  PROVE  /\ <<m>> \in Line
         /\ Numbers(<<m>>, e) = IF m.from = e /\ m.k # 0 THEN {m.k} ELSE {}
         /\ Once(<<m>>, e)
         /\ Own(<<m>>, e) <=> m.from = e \/ m = Either!Id
         /\ Handles(<<m>>) = IF m.by = "handle" THEN {m.k} ELSE {}
         /\ Ascending(<<m>>)
<1>1. <<m>> \in Line /\ DOMAIN <<m>> = {1} /\ <<m>>[1] = m
  BY DEF Line
<1>2. m.k # 0 => m.k \in 1 .. MaxSend
  BY Items
<1>3. Numbers(<<m>>, e) = IF m.from = e /\ m.k # 0 THEN {m.k} ELSE {}
  BY <1>1, <1>2 DEF Numbers
<1>4. Handles(<<m>>) = IF m.by = "handle" THEN {m.k} ELSE {}
  BY <1>1 DEF Handles, Either!Handles, Either!HandleAt
<1>5. Once(<<m>>, e) /\ Ascending(<<m>>)
  BY <1>1 DEF Once, Ascending, Either!Ascending
<1>6. Own(<<m>>, e) <=> m.from = e \/ m = Either!Id
  BY <1>1 DEF Own
<1> QED BY <1>1, <1>3, <1>4, <1>5, <1>6

\* What is taken first, and what is left.
LEMMA OfFirst ==
  ASSUME NEW s \in Line, s # <<>>
  PROVE  /\ Head(s) \in Item /\ Tail(s) \in Line /\ s = <<Head(s)>> \o Tail(s)
         /\ s \in Seq(Either!Msg) => Head(s) \in Either!Msg /\ Tail(s) \in Seq(Either!Msg)
<1>1. Head(s) \in Item /\ Tail(s) \in Line
  BY HeadTailProperties DEF Line
<1>2. s = <<Head(s)>> \o Tail(s)
  <2>1. Len(s) \in Nat /\ Len(s) > 0 /\ s \in Seq(Item)
    BY EmptySeq DEF Line
  <2>2. /\ Len(Tail(s)) = Len(s) - 1 /\ \A i \in 1 .. Len(Tail(s)) : Tail(s)[i] = s[i + 1]
        /\ Tail(s) \in Seq(Item)
    BY <2>1, HeadTailProperties
  <2>3. <<Head(s)>> \in Seq(Item) /\ Len(<<Head(s)>>) = 1 /\ <<Head(s)>>[1] = s[1]
    BY <1>1, <2>1
  <2>4. /\ <<Head(s)>> \o Tail(s) \in Seq(Item) /\ Len(<<Head(s)>> \o Tail(s)) = Len(s)
        /\ \A i \in 1 .. Len(s) : (<<Head(s)>> \o Tail(s))[i]
                                    = IF i <= 1 THEN <<Head(s)>>[i] ELSE Tail(s)[i - 1]
    BY <2>1, <2>2, <2>3, ConcatProperties
  <2>5. \A i \in 1 .. Len(s) : (<<Head(s)>> \o Tail(s))[i] = s[i]
    <3> TAKE i \in 1 .. Len(s)
    <3>1. CASE i = 1
      BY <2>1, <2>3, <2>4, <3>1
    <3>2. CASE i # 1
      <4>1. i - 1 \in 1 .. Len(Tail(s)) /\ ~ (i <= 1) /\ (i - 1) + 1 = i
        BY <2>1, <2>2, <3>2
      <4> QED BY <2>2, <2>4, <4>1
    <3> QED BY <3>1, <3>2
  <2> QED BY <2>1, <2>4, <2>5, SeqEqual
<1>3. s \in Seq(Either!Msg) => Head(s) \in Either!Msg /\ Tail(s) \in Seq(Either!Msg)
  BY HeadTailProperties
<1> QED BY <1>1, <1>2, <1>3

LEMMA OfMore ==
  ASSUME NEW s \in Line, NEW m \in Item
  PROVE  Append(s, m) = s \o <<m>> /\ Append(s, m) \in Line
<1>1. s \in Seq(Item)
  BY DEF Line
<1>2. Append(s, m) = s \o <<m>>
  BY <1>1, AppendIsConcat
<1> QED BY <1>1 , <1>2, AppendProperties DEF Line

\* A message and what is behind the first n.
LEMMA OfRest ==
  ASSUME NEW s \in Line, NEW n \in 1 .. Len(s)
  PROVE  /\ SubSeq(s, 2, n) \in Line /\ SubSeq(s, n + 1, Len(s)) \in Line
         /\ Tail(s) \in Seq(Either!Msg)
              => /\ SubSeq(s, 2, n) \in Seq(Either!Msg)
                 /\ SubSeq(s, n + 1, Len(s)) \in Seq(Either!Msg)
         /\ s = <<Head(s)>> \o (SubSeq(s, 2, n) \o SubSeq(s, n + 1, Len(s)))
<1>1. s \in Seq(Item) /\ Len(s) \in Nat /\ s # <<>>
  BY DEF Line
<1>2. PICK t \in Seq(Item) : t = Tail(s)
  BY <1>1, HeadTailProperties
<1>3. s = <<Head(s)>> \o t /\ Len(t) = Len(s) - 1 /\ \A i \in 1 .. Len(t) : t[i] = s[i + 1]
  BY <1>1, <1>2, OfFirst, HeadTailProperties
<1>4. PICK k \in 0 .. Len(t) : k = n - 1
  BY <1>1, <1>3
<1>5. /\ SubSeq(t, 1, k) \in Seq(Item) /\ SubSeq(t, k + 1, Len(t)) \in Seq(Item)
      /\ t = SubSeq(t, 1, k) \o SubSeq(t, k + 1, Len(t))
      /\ Len(SubSeq(t, 1, k)) = k /\ Len(SubSeq(t, k + 1, Len(t))) = Len(t) - k
  BY Parts
<1>6. SubSeq(s, 2, n) = SubSeq(t, 1, k)
  <2>1. /\ SubSeq(s, 2, n) = [i \in 1 .. ((n - 2) + 1) |-> s[(i + 2) - 1]]
        /\ SubSeq(t, 1, k) = [i \in 1 .. ((k - 1) + 1) |-> t[(i + 1) - 1]]
    BY DEF SubSeq
  <2>2. (n - 2) + 1 = k /\ (k - 1) + 1 = k
    BY <1>1, <1>4
  <2>3. \A i \in 1 .. k : s[(i + 2) - 1] = t[(i + 1) - 1]
    <3> TAKE i \in 1 .. k
    <3>1. (i + 2) - 1 = i + 1 /\ (i + 1) - 1 = i /\ i \in 1 .. Len(t)
      OBVIOUS
    <3> QED BY <1>3, <3>1
  <2> QED BY <2>1, <2>2, <2>3
<1>7. SubSeq(s, n + 1, Len(s)) = SubSeq(t, k + 1, Len(t))
  <2>1. /\ SubSeq(s, n + 1, Len(s)) = [i \in 1 .. ((Len(s) - (n + 1)) + 1) |-> s[(i + (n + 1)) - 1]]
        /\ SubSeq(t, k + 1, Len(t)) = [i \in 1 .. ((Len(t) - (k + 1)) + 1) |-> t[(i + (k + 1)) - 1]]
    BY DEF SubSeq
  <2>2. (Len(s) - (n + 1)) + 1 = Len(s) - n /\ (Len(t) - (k + 1)) + 1 = Len(s) - n
    BY <1>1, <1>3, <1>4
  <2>3. \A i \in 1 .. Len(s) - n : s[(i + (n + 1)) - 1] = t[(i + (k + 1)) - 1]
    <3> TAKE i \in 1 .. Len(s) - n
    <3>1. (i + (n + 1)) - 1 = (i + k) + 1 /\ (i + (k + 1)) - 1 = i + k /\ i + k \in 1 .. Len(t)
      BY <1>1, <1>3, <1>4
    <3>2. t[i + k] = s[(i + k) + 1]
      BY <1>3, <3>1
    <3> QED BY <3>1, <3>2, Zenon
  <2> QED BY <2>1, <2>2, <2>3
<1>8. Tail(s) \in Seq(Either!Msg)
        => /\ SubSeq(s, 2, n) \in Seq(Either!Msg)
           /\ SubSeq(s, n + 1, Len(s)) \in Seq(Either!Msg)
  BY <1>2, <1>6, <1>7, Parts
<1> QED BY <1>3, <1>5, <1>6, <1>7, <1>8 DEF Line

\* A name's messages get the handle, and stay the same otherwise.
LEMMA OfHandled ==
  ASSUME NEW s \in Seq(Either!Msg), NEW e
  PROVE  LET t == Either!WithHandle(s)
         IN /\ t \in Seq(Either!Msg)
            /\ Numbers(t, e) = Numbers(s, e) /\ (Once(t, e) <=> Once(s, e))
            /\ (Own(s, e) => Own(t, e)) /\ Handles(t) = Handles(s) /\ (Ascending(t) <=> Ascending(s))
<1> DEFINE t == Either!WithHandle(s)
<1>1. DOMAIN s = 1 .. Len(s) /\ Len(s) \in Nat /\ \A i \in DOMAIN s : s[i] \in Either!Msg
  OBVIOUS
<1>2. DOMAIN t = DOMAIN s /\ \A i \in DOMAIN s : t[i] = [s[i] EXCEPT !.to = TRUE]
  BY DEF Either!WithHandle
<1>3. \A m \in Either!Msg : LET x2 == [m EXCEPT !.to = TRUE]
                            IN x2 \in Either!Msg /\ x2.from = m.from /\ x2.k = m.k /\ x2.by = m.by
  BY DEF Either!Msg
<1>4. \A i \in DOMAIN s : /\ t[i] \in Either!Msg
                          /\ t[i].from = s[i].from /\ t[i].k = s[i].k /\ t[i].by = s[i].by
  BY <1>1, <1>2, <1>3
<1>5. t \in Seq(Either!Msg)
  <2>1. t = [i \in 1 .. Len(s) |-> t[i]]
    BY <1>1 DEF Either!WithHandle
  <2> HIDE DEF t
  <2> QED BY <1>1, <1>4, <2>1, SeqDef
<1>6. \A i \in DOMAIN s : s[i] # Either!Id
  BY <1>1, Items
<1> HIDE DEF t
<1>7. Numbers(t, e) = Numbers(s, e) /\ (Once(t, e) <=> Once(s, e))
  BY <1>2, <1>4 DEF Numbers, Once
<1>8. Own(s, e) => Own(t, e)
  BY <1>2, <1>4, <1>6 DEF Own
<1>9. Handles(t) = Handles(s) /\ (Ascending(t) <=> Ascending(s))
  BY <1>2, <1>4 DEF Handles, Ascending, Either!Handles, Either!Ascending, Either!HandleAt
<1> QED BY <1>5, <1>7, <1>8, <1>9 DEF t

\* The lost ones of a sequence, and how the types of the ends see it.
LEMMA OfLost ==
  ASSUME NEW s \in Line, NEW e, Own(s, e)
  PROVE  /\ Either!ToSet(s) \ {Either!Id} \subseteq Either!Msg
         /\ LostNumbers(Either!ToSet(s) \ {Either!Id}) = Numbers(s, e)
         /\ s \in Seq(Either!Msg) => Either!ToSet(s) \ {Either!Id} = Either!ToSet(s)
<1>1. s \in Seq(Item) /\ \A i \in DOMAIN s : s[i] \in Item
  BY DEF Line
<1>2. Either!ToSet(s) = {s[i] : i \in DOMAIN s}
  BY DEF Either!ToSet
<1>3. Either!ToSet(s) \ {Either!Id} \subseteq Either!Msg
  BY <1>1, <1>2, Items
<1>4. LostNumbers(Either!ToSet(s) \ {Either!Id}) \subseteq Numbers(s, e)
  <2>1. SUFFICES ASSUME NEW i \in DOMAIN s, s[i] # Either!Id PROVE s[i].k \in Numbers(s, e)
    BY <1>2 DEF LostNumbers
  <2>2. s[i].from = e /\ s[i].k \in 1 .. MaxSend
    BY <1>1, <2>1, Items DEF Own
  <2> QED BY <2>2 DEF Numbers
<1>5. Numbers(s, e) \subseteq LostNumbers(Either!ToSet(s) \ {Either!Id})
  <2>1. SUFFICES ASSUME NEW k \in Numbers(s, e) PROVE k \in LostNumbers(Either!ToSet(s) \ {Either!Id})
    OBVIOUS
  <2>2. PICK i \in DOMAIN s : s[i].k = k
    BY DEF Numbers
  <2>3. s[i] # Either!Id
    BY <2>2, Items DEF Numbers
  <2> QED BY <1>2, <2>2, <2>3 DEF LostNumbers
<1>6. s \in Seq(Either!Msg) => Either!ToSet(s) \ {Either!Id} = Either!ToSet(s)
  BY <1>2, Items
<1> QED BY <1>3, <1>4, <1>5, <1>6

LEMMA LostOfTwo ==
  ASSUME NEW l, NEW m
  PROVE  LostNumbers(l \cup m) = LostNumbers(l) \cup LostNumbers(m) /\ LostNumbers({}) = {}
BY DEF LostNumbers


LEMMA Lines ==
  ASSUME Either!TypeOK, NEW e \in End
  PROVE  /\ queue[e] \in Seq(Either!Msg) /\ nameq[e] \in Seq(Either!Msg) /\ got[e] \in Seq(Either!Msg)
         /\ wire[e] \in Line /\ queue[e] \in Line /\ nameq[e] \in Line /\ got[e] \in Line
         /\ lost[e] \in SUBSET Either!Msg /\ sent[e] \in Seq({"handle", "name"})
         /\ Len(sent[e]) \in Nat /\ Other(e) \in End /\ Either!Other(e) = Other(e)
         /\ Other(e) # e /\ Other(Other(e)) = e
<1>1. \A s \in Seq(Either!Msg) : s \in Line
  BY Items, SeqDef DEF Line
<1>2. Other(e) \in End /\ Either!Other(e) = Other(e) /\ Other(e) # e /\ Other(Other(e)) = e
  BY DEF End, Other, Either!Other
<1>3. /\ queue[e] \in Seq(Either!Msg) /\ nameq[e] \in Seq(Either!Msg) /\ got[e] \in Seq(Either!Msg)
      /\ wire[e] \in Seq(Either!Msg \cup {Either!Id})
      /\ lost[e] \in SUBSET Either!Msg /\ sent[e] \in Seq({"handle", "name"})
  BY DEF Either!TypeOK, Either!End, End
<1> QED BY <1>1, <1>2, <1>3 DEF Line, Item

LEMMA OrderShown == LinkInv => Either!HandleOrder
<1> SUFFICES ASSUME LinkInv, ~ broken, NEW e \in End
             PROVE  LET way == got[Other(e)] \o wire[e] \o queue[e]
                    IN Ascending(way) /\ Handles(way) = {k \in DOMAIN sent[e] : sent[e][k] = "handle"}
  BY DEF Either!HandleOrder, Either!Other, Other, Either!End, End, Ascending, Handles
<1> DEFINE h == got[Other(e)]
           w == wire[e]
           q == queue[e]
<1>1. h \in Line /\ w \in Line /\ q \in Line
  BY Lines DEF LinkInv
<1>2. OnTheWay(q, w, h, {k \in DOMAIN sent[e] : sent[e][k] = "handle"})
  BY DEF LinkInv, EndInv, ToHandle
<1> HIDE DEF h, w, q
<1>3. h \o w \in Line /\ Handles(h \o w) = Handles(h) \cup Handles(w)
      /\ (Ascending(h \o w) <=> Ascending(h) /\ Ascending(w) /\ Precede(Handles(h), Handles(w)))
  BY <1>1, LineOfTwo, NumbersOfTwo, AscendingOfTwo
<1>4. /\ Handles((h \o w) \o q) = Handles(h \o w) \cup Handles(q)
      /\ Ascending((h \o w) \o q)
           <=> Ascending(h \o w) /\ Ascending(q) /\ Precede(Handles(h \o w), Handles(q))
  BY <1>1, <1>3, NumbersOfTwo, AscendingOfTwo
<1>5. Precede(Handles(h \o w), Handles(q))
  BY <1>2, <1>3 DEF OnTheWay, Precede
<1> QED BY <1>2, <1>3, <1>4, <1>5 DEF OnTheWay, h, w, q

\* Two lines that share no number of e hold each of its numbers once.
LEMMA BothOnce ==
  ASSUME NEW s \in Line, NEW t \in Line, NEW e,
         Once(s, e), Once(t, e), Apart(Numbers(s, e), Numbers(t, e))
  PROVE  s \o t \in Line /\ Numbers(s \o t, e) = Numbers(s, e) \cup Numbers(t, e) /\ Once(s \o t, e)
BY LineOfTwo, NumbersOfTwo, OnceOfTwo

LEMMA OnePlaceShown ==
  ASSUME LinkInv, NEW e \in End, NEW k \in 1 .. MaxSend, k <= Len(sent[e])
  PROVE  LET where == queue[e] \o nameq[e] \o wire[e] \o got[e] \o got[Other(e)]
         IN Cardinality({i \in DOMAIN where : where[i].from = e /\ where[i].k = k})
              = IF \E m \in lost[e] : m.k = k THEN 0 ELSE 1
<1> DEFINE q == queue[e]
           n == nameq[e]
           w == wire[e]
           g == got[e]
           h == got[Other(e)]
           l == lost[e]
           where == q \o n \o w \o g \o h
           them == {i \in DOMAIN where : where[i].from = e /\ where[i].k = k}
<1>1. q \in Line /\ n \in Line /\ w \in Line /\ g \in Line /\ h \in Line
  BY Lines DEF LinkInv
<1>2. OnePlace(e, q, n, w, g, h, l, Len(sent[e]))
  BY DEF LinkInv, EndInv
<1> HIDE DEF q, n, w, g, h, l
<1>3. q \o n \in Line /\ Numbers(q \o n, e) = Numbers(q, e) \cup Numbers(n, e) /\ Once(q \o n, e)
  BY <1>1, <1>2, BothOnce DEF OnePlace
<1>4. (q \o n) \o w \in Line /\ Numbers((q \o n) \o w, e) = Numbers(q \o n, e) \cup Numbers(w, e)
      /\ Once((q \o n) \o w, e)
  <2>1. Apart(Numbers(q \o n, e), Numbers(w, e)) /\ Once(w, e)
    BY <1>2, <1>3 DEF OnePlace, Apart
  <2> QED BY <1>1, <1>3, <2>1, BothOnce
<1>5. ((q \o n) \o w) \o g \in Line
      /\ Numbers(((q \o n) \o w) \o g, e) = Numbers((q \o n) \o w, e) \cup Numbers(g, e)
      /\ Once(((q \o n) \o w) \o g, e)
  <2>1. Apart(Numbers((q \o n) \o w, e), Numbers(g, e)) /\ Once(g, e)
    BY <1>2, <1>3, <1>4 DEF OnePlace, Apart
  <2> QED BY <1>1, <1>4, <2>1, BothOnce
<1>6. where \in Line /\ Numbers(where, e) = Numbers(((q \o n) \o w) \o g, e) \cup Numbers(h, e)
      /\ Once(where, e)
  <2>1. Apart(Numbers(((q \o n) \o w) \o g, e), Numbers(h, e)) /\ Once(h, e)
    BY <1>2, <1>3, <1>4, <1>5 DEF OnePlace, Apart
  <2> QED BY <1>1, <1>5, <2>1, BothOnce
<1>7. \A a, b \in them : a = b
  <2> HIDE DEF where
  <2>1. k # 0
    OBVIOUS
  <2> QED BY <1>6, <2>1 DEF Once
<1>8. (\E m \in l : m.k = k) <=> k \in LostNumbers(l)
  BY DEF LostNumbers
<1>9. CASE k \in LostNumbers(l)
  <2>1. k \notin Numbers(where, e)
    BY <1>2, <1>3, <1>4, <1>5, <1>6, <1>9 DEF OnePlace, Apart
  <2>2. them = {}
    <3> HIDE DEF where
    <3> QED BY <2>1 DEF Numbers
  <2>3. Cardinality(them) = 0
    BY <2>2, FS_EmptySet
  <2> QED BY <1>8, <1>9, <2>3 DEF q, n, w, g, h, l
<1>10. CASE k \notin LostNumbers(l)
  <2>1. k \in Numbers(where, e)
    BY <1>2, <1>3, <1>4, <1>5, <1>6, <1>10 DEF OnePlace
  <2>2. PICK i \in them : TRUE
    <3> HIDE DEF where
    <3> QED BY <2>1 DEF Numbers
  <2>3. them = {i}
    BY <1>7, <2>2
  <2>4. Cardinality(them) = 1
    BY <2>3, FS_Singleton
  <2> QED BY <1>8, <1>10, <2>4 DEF q, n, w, g, h, l
<1> QED BY <1>9, <1>10

LEMMA EitherCount == \A S : Either!Cardinality(S) = Cardinality(S)
  BY DEF Either!Cardinality, Cardinality

LEMMA PlaceShown == LinkInv => Either!NoneForgotten
<1> SUFFICES ASSUME LinkInv PROVE Either!NoneForgotten
  OBVIOUS
<1> DEFINE Them(e, k) == LET where == queue[e] \o nameq[e] \o wire[e] \o got[e] \o got[Other(e)]
                         IN {i \in DOMAIN where : where[i].from = e /\ where[i].k = k}
           Number(e, k) == IF \E m \in lost[e] : m.k = k THEN 0 ELSE 1
<1>1. \A e \in End, k \in 1 .. MaxSend : k <= Len(sent[e]) => Cardinality(Them(e, k)) = Number(e, k)
  BY OnePlaceShown
<1>2. \A e, k : Either!Cardinality(Them(e, k)) = Cardinality(Them(e, k))
  BY EitherCount
<1>3. \A e \in End, k \in 1 .. MaxSend :
        k <= Len(sent[e]) => Either!Cardinality(Them(e, k)) = Number(e, k)
  <2> HIDE DEF Them, Number
  <2> QED BY ONLY <1>1, <1>2, Zenon
<1> QED BY ONLY <1>3, ZenonT(30) DEF Either!NoneForgotten, Either!Other, Other, Either!End, End

LEMMA LinkInvShows == LinkInv => LinkDelivers
BY OrderShown, PlaceShown DEF LinkInv, LinkDelivers

LEMMA LinkInit == Either!Init => LinkInv
<1> SUFFICES ASSUME Either!Init PROVE LinkInv
  OBVIOUS
<1> USE DEF Either!Init, Either!End, End
<1>1. Either!TypeOK
  <2>1. \A S : <<>> \in Seq(S)
    OBVIOUS
  <2> QED BY <2>1 DEF Either!TypeOK
<1>2. Phases /\ Either!UpMeansSent
  BY DEF Phases, Either!UpMeansSent
<1>3. ASSUME NEW e \in End
      PROVE  /\ Handles(nameq[e]) = {}
             /\ OnePlace(e, queue[e], nameq[e], wire[e], got[e], got[Other(e)], lost[e], Len(sent[e]))
             /\ OnTheWay(queue[e], wire[e], got[Other(e)],
                         {k \in DOMAIN sent[e] : sent[e][k] = "handle"})
  <2>1. /\ queue[e] = <<>> /\ nameq[e] = <<>> /\ wire[e] = <<>> /\ got[e] = <<>>
        /\ got[Other(e)] = <<>> /\ lost[e] = {} /\ sent[e] = <<>>
    BY DEF Other
  <2>2. Len(<<>>) = 0 /\ DOMAIN <<>> = {}
    OBVIOUS
  <2>3. /\ Numbers(<<>>, e) = {} /\ Once(<<>>, e) /\ Own(<<>>, e)
        /\ Handles(<<>>) = {} /\ Ascending(<<>>)
    BY OfNone
  <2> QED BY <2>1, <2>2, <2>3, LostOfTwo DEF OnePlace, OnTheWay, Apart, Precede
<1> QED BY <1>1, <1>2, <1>3 DEF LinkInv, EndInv, ToHandle


(***************************************************************************)
(* What a step does to the places of the messages of an end ...            *)
(***************************************************************************)
\* The queue of a name goes to the queue of the end, and that to the wire.
LEMMA QueueJoins ==
  ASSUME NEW e, NEW q \in Line, NEW n \in Line, NEW w \in Line, NEW g \in Line, NEW h \in Line,
         NEW l, NEW s, OnePlace(e, q, n, w, g, h, l, s)
  PROVE  /\ OnePlace(e, <<>>, n, w \o q, g, h, l, s)
         /\ OnePlace(e, q \o n, <<>>, w, g, h, l, s)
         /\ OnePlace(e, q, <<>>, w \o n, g, h, l, s)
         /\ OnePlace(e, q, <<>>, w, g \o n, h, l, s)
<1>1. /\ Numbers(w \o q, e) = Numbers(w, e) \cup Numbers(q, e)
      /\ Numbers(q \o n, e) = Numbers(q, e) \cup Numbers(n, e)
      /\ Numbers(w \o n, e) = Numbers(w, e) \cup Numbers(n, e)
      /\ Numbers(g \o n, e) = Numbers(g, e) \cup Numbers(n, e)
  BY NumbersOfTwo
<1>2. /\ Once(w, e) /\ Once(q, e) /\ Once(n, e) /\ Once(g, e)
      /\ Apart(Numbers(w, e), Numbers(q, e)) /\ Apart(Numbers(q, e), Numbers(n, e))
      /\ Apart(Numbers(w, e), Numbers(n, e)) /\ Apart(Numbers(g, e), Numbers(n, e))
      /\ Own(w, e) /\ Own(q, e) /\ Own(n, e)
  BY DEF OnePlace, Apart
<1>3. Once(w \o q, e) /\ Once(q \o n, e) /\ Once(w \o n, e) /\ Once(g \o n, e)
  BY <1>2, OnceOfTwo
<1>4. Own(w \o q, e) /\ Own(q \o n, e) /\ Own(w \o n, e)
  BY <1>2, NumbersOfTwo
<1>5. Numbers(<<>>, e) = {} /\ Once(<<>>, e) /\ Own(<<>>, e)
  BY OfNone
<1>6. OnePlace(e, <<>>, n, w \o q, g, h, l, s)
  BY <1>1, <1>3, <1>4, <1>5 DEF OnePlace, Apart
<1>7. OnePlace(e, q \o n, <<>>, w, g, h, l, s)
  BY <1>1, <1>3, <1>4, <1>5 DEF OnePlace, Apart
<1>8. OnePlace(e, q, <<>>, w \o n, g, h, l, s)
  BY <1>1, <1>3, <1>4, <1>5 DEF OnePlace, Apart
<1>9. OnePlace(e, q, <<>>, w, g \o n, h, l, s)
  BY <1>1, <1>3, <1>4, <1>5 DEF OnePlace, Apart
<1> QED BY <1>6, <1>7, <1>8, <1>9

\* Only the numbers of a name's queue count.
LEMMA NameSame ==
  ASSUME NEW e, NEW q, NEW n, NEW w, NEW g, NEW h, NEW l, NEW s, NEW t,
         OnePlace(e, q, n, w, g, h, l, s),
         Numbers(t, e) = Numbers(n, e), Once(t, e), Own(t, e)
  PROVE  OnePlace(e, q, t, w, g, h, l, s)
BY DEF OnePlace

\* A message is read from the wire.
LEMMA WireRead ==
  ASSUME NEW e, NEW q, NEW n, NEW t \in Line, NEW g, NEW h \in Line, NEW l, NEW s, NEW m \in Item,
         OnePlace(e, q, n, <<m>> \o t, g, h, l, s)
  PROVE  /\ OnePlace(e, q, n, t, g, h \o <<m>>, l, s)
         /\ m = Either!Id => OnePlace(e, q, n, t, g, h, l, s)
         /\ m = Either!Id \/ m.from = e
<1>0. <<m>> \in Line
  BY OfOne
<1>1. <<m>> \in Line /\ Numbers(<<m>> \o t, e) = Numbers(<<m>>, e) \cup Numbers(t, e)
      /\ Numbers(h \o <<m>>, e) = Numbers(h, e) \cup Numbers(<<m>>, e)
      /\ (Own(<<m>> \o t, e) <=> Own(<<m>>, e) /\ Own(t, e))
  BY <1>0, NumbersOfTwo, Zenon
<1>2. Once(t, e) /\ Once(<<m>>, e) /\ Apart(Numbers(<<m>>, e), Numbers(t, e)) /\ Own(<<m>>, e) /\ Own(t, e)
  BY <1>1, OnceOfTwo DEF OnePlace
<1>3. Once(h \o <<m>>, e)
  <2>1. Apart(Numbers(h, e), Numbers(<<m>>, e)) /\ Once(h, e)
    BY <1>1 DEF OnePlace, Apart
  <2> QED BY <1>1, <1>2, <2>1, OnceOfTwo
<1>4. OnePlace(e, q, n, t, g, h \o <<m>>, l, s)
  BY <1>1, <1>2, <1>3 DEF OnePlace, Apart
<1>5. m = Either!Id => Numbers(<<m>>, e) = {}
  BY OfOne, Items
<1>6. m = Either!Id => OnePlace(e, q, n, t, g, h, l, s)
  BY <1>1, <1>2, <1>5 DEF OnePlace, Apart
<1>7. m = Either!Id \/ m.from = e
  BY <1>2, OfOne
<1> QED BY <1>4, <1>6, <1>7

\* Messages are lost: of the wire, a part of it, the queue or that of the name.
LEMMA NowLost ==
  ASSUME NEW e, NEW q \in Line, NEW n \in Line, NEW w \in Line, NEW g, NEW h, NEW l, NEW s,
         OnePlace(e, q, n, w, g, h, l, s)
  PROVE  /\ OnePlace(e, q, n, <<>>, g, h, l \cup (Either!ToSet(w) \ {Either!Id}), s)
         /\ OnePlace(e, <<>>, n, w, g, h, l \cup (Either!ToSet(q) \ {Either!Id}), s)
         /\ OnePlace(e, q, <<>>, w, g, h, l \cup (Either!ToSet(n) \ {Either!Id}), s)
<1>1. Numbers(<<>>, e) = {} /\ Once(<<>>, e) /\ Own(<<>>, e)
  BY OfNone
<1>2. /\ LostNumbers(Either!ToSet(w) \ {Either!Id}) = Numbers(w, e)
      /\ LostNumbers(Either!ToSet(q) \ {Either!Id}) = Numbers(q, e)
      /\ LostNumbers(Either!ToSet(n) \ {Either!Id}) = Numbers(n, e)
  BY OfLost DEF OnePlace
<1>3. /\ LostNumbers(l \cup (Either!ToSet(w) \ {Either!Id})) = LostNumbers(l) \cup Numbers(w, e)
      /\ LostNumbers(l \cup (Either!ToSet(q) \ {Either!Id})) = LostNumbers(l) \cup Numbers(q, e)
      /\ LostNumbers(l \cup (Either!ToSet(n) \ {Either!Id})) = LostNumbers(l) \cup Numbers(n, e)
  BY <1>2, LostOfTwo
<1>4. OnePlace(e, q, n, <<>>, g, h, l \cup (Either!ToSet(w) \ {Either!Id}), s)
  BY <1>1, <1>3 DEF OnePlace, Apart
<1>5. OnePlace(e, <<>>, n, w, g, h, l \cup (Either!ToSet(q) \ {Either!Id}), s)
  BY <1>1, <1>3 DEF OnePlace, Apart
<1>6. OnePlace(e, q, <<>>, w, g, h, l \cup (Either!ToSet(n) \ {Either!Id}), s)
  BY <1>1, <1>3 DEF OnePlace, Apart
<1> QED BY <1>4, <1>5, <1>6

LEMMA PartLost ==
  ASSUME NEW e, NEW q, NEW n, NEW m \in Item, NEW p \in Line, NEW t \in Line, NEW g, NEW h, NEW l,
         NEW s, OnePlace(e, q, n, <<m>> \o (p \o t), g, h, l, s), m = Either!Id
  PROVE  OnePlace(e, q, n, t, g, h, l \cup (Either!ToSet(p) \ {Either!Id}), s)
<1>1. p \o t \in Line /\ <<m>> \in Line
  BY LineOfTwo, OfOne
<1>2. Numbers(<<m>>, e) = {}
  BY OfOne, Items
<1>3. /\ Numbers(<<m>> \o (p \o t), e) = Numbers(<<m>>, e) \cup Numbers(p \o t, e)
      /\ Numbers(p \o t, e) = Numbers(p, e) \cup Numbers(t, e)
  BY <1>1, NumbersOfTwo
<1>4. Once(p \o t, e) /\ Own(p \o t, e)
  BY <1>1, NumbersOfTwo, OnceOfTwo DEF OnePlace
<1>5. Once(t, e) /\ Apart(Numbers(p, e), Numbers(t, e)) /\ Own(p, e) /\ Own(t, e)
  BY <1>4, NumbersOfTwo, OnceOfTwo
<1>6. LostNumbers(l \cup (Either!ToSet(p) \ {Either!Id})) = LostNumbers(l) \cup Numbers(p, e)
  <2>1. LostNumbers(Either!ToSet(p) \ {Either!Id}) = Numbers(p, e)
    BY <1>5, OfLost
  <2> QED BY <2>1, LostOfTwo
<1> QED BY <1>2, <1>3, <1>5, <1>6 DEF OnePlace, Apart

\* A new message.
LEMMA NowSent ==
  ASSUME NEW e, NEW q \in Line, NEW n \in Line, NEW w \in Line, NEW g \in Line, NEW h, NEW l,
         NEW s \in Nat, s < MaxSend, NEW m \in Either!Msg, m.from = e, m.k = s + 1,
         OnePlace(e, q, n, w, g, h, l, s)
  PROVE  /\ OnePlace(e, q \o <<m>>, n, w, g, h, l, s + 1)
         /\ OnePlace(e, q, n \o <<m>>, w, g, h, l, s + 1)
         /\ OnePlace(e, q, n, w \o <<m>>, g, h, l, s + 1)
         /\ OnePlace(e, q, n, w, g \o <<m>>, h, l, s + 1)
         /\ OnePlace(e, q, n, w, g, h, l \cup {m}, s + 1)
<1>1. s + 1 \in 1 .. MaxSend /\ m \in Item /\ \A k \in 1 .. MaxSend : k <= s + 1 <=> k <= s \/ k = s + 1
  BY Items, LinkAssumption
<1>2. <<m>> \in Line /\ Numbers(<<m>>, e) = {s + 1} /\ Once(<<m>>, e) /\ Own(<<m>>, e)
  <2>1. s + 1 # 0
    OBVIOUS
  <2>2. PICK m2 \in Item : m2 = m
    BY <1>1
  <2>3. Numbers(<<m2>>, e) = IF m2.from = e /\ m2.k # 0 THEN {m2.k} ELSE {}
    BY OfOne
  <2>4. <<m2>> \in Line /\ Once(<<m2>>, e) /\ Own(<<m2>>, e)
    BY <2>2, OfOne
  <2> QED BY <2>1, <2>2, <2>3, <2>4
<1>3. \A t \in Line : Numbers(t \o <<m>>, e) = Numbers(t, e) \cup {s + 1}
  BY <1>2, NumbersOfTwo
<1>4. /\ s + 1 \notin Numbers(q, e) /\ s + 1 \notin Numbers(n, e) /\ s + 1 \notin Numbers(w, e)
      /\ s + 1 \notin Numbers(g, e) /\ s + 1 \notin Numbers(h, e) /\ s + 1 \notin LostNumbers(l)
  BY <1>1 DEF OnePlace
<1>5. ASSUME NEW t \in Line, s + 1 \notin Numbers(t, e), Once(t, e) PROVE Once(t \o <<m>>, e)
  BY <1>2, <1>5, OnceOfTwo DEF Apart
<1>6. \A t \in Line : Own(t, e) => Own(t \o <<m>>, e)
  BY <1>2, NumbersOfTwo
<1>7. OnePlace(e, q \o <<m>>, n, w, g, h, l, s + 1)
  BY <1>1, <1>3, <1>4, <1>5, <1>6 DEF OnePlace, Apart
<1>8. OnePlace(e, q, n \o <<m>>, w, g, h, l, s + 1)
  BY <1>1, <1>3, <1>4, <1>5, <1>6 DEF OnePlace, Apart
<1>9. OnePlace(e, q, n, w \o <<m>>, g, h, l, s + 1)
  BY <1>1, <1>3, <1>4, <1>5, <1>6 DEF OnePlace, Apart
<1>10. OnePlace(e, q, n, w, g \o <<m>>, h, l, s + 1)
  BY <1>1, <1>3, <1>4, <1>5, <1>6 DEF OnePlace, Apart
<1>11. LostNumbers(l \cup {m}) = LostNumbers(l) \cup {s + 1}
  BY DEF LostNumbers
<1>12. OnePlace(e, q, n, w, g, h, l \cup {m}, s + 1)
  BY <1>1, <1>4, <1>11 DEF OnePlace, Apart
<1> QED BY <1>7, <1>8, <1>9, <1>10, <1>12

\* Messages of the other end change nothing.
LEMMA OthersCome ==
  ASSUME NEW e \in End, NEW q, NEW n, NEW w \in Line, NEW g \in Line, NEW h \in Line, NEW l, NEW s,
         NEW t \in Line, Own(t, Other(e)), OnePlace(e, q, n, w, g, h, l, s)
  PROVE  /\ OnePlace(e, q, n, w, g \o t, h, l, s)
         /\ OnePlace(e, q, n, w, g, h \o t, l, s)
         /\ OnePlace(e, q, n, w \o <<Either!Id>>, g, h, l, s)
<1>1. Numbers(t, e) = {} /\ Once(t, e)
  <2>1. \A i \in DOMAIN t : t[i] \in Item
    BY DEF Line
  <2>2. \A i \in DOMAIN t : t[i].from # e \/ t[i].k = 0
    BY <2>1, Items DEF Own, Other, End
  <2> QED BY <2>2 DEF Numbers, Once
<1>2. Numbers(g \o t, e) = Numbers(g, e) /\ Numbers(h \o t, e) = Numbers(h, e)
  <2>1. /\ Numbers(g \o t, e) = Numbers(g, e) \cup Numbers(t, e)
        /\ Numbers(h \o t, e) = Numbers(h, e) \cup Numbers(t, e)
    BY NumbersOfTwo
  <2> QED BY <1>1, <2>1
<1>3. Once(g \o t, e) /\ Once(h \o t, e)
  BY <1>1, OnceOfTwo DEF OnePlace, Apart
<1>4. /\ Either!Id \in Item /\ <<Either!Id>> \in Line /\ Numbers(<<Either!Id>>, e) = {}
      /\ Once(<<Either!Id>>, e) /\ Own(<<Either!Id>>, e)
  BY OfOne, Items
<1>5. Once(w \o <<Either!Id>>, e) /\ Own(w \o <<Either!Id>>, e)
      /\ Numbers(w \o <<Either!Id>>, e) = Numbers(w, e)
  <2>1. Once(w \o <<Either!Id>>, e)
    BY <1>4, OnceOfTwo DEF OnePlace, Apart
  <2>2. Own(w \o <<Either!Id>>, e)
    BY <1>4, NumbersOfTwo DEF OnePlace
  <2>3. Numbers(w \o <<Either!Id>>, e) = Numbers(w, e) \cup Numbers(<<Either!Id>>, e)
    BY <1>4, NumbersOfTwo
  <2> QED BY <1>4, <2>1, <2>2, <2>3
<1>6. OnePlace(e, q, n, w, g \o t, h, l, s)
  BY <1>2, <1>3 DEF OnePlace
<1>7. OnePlace(e, q, n, w, g, h \o t, l, s)
  BY <1>2, <1>3 DEF OnePlace
<1>8. OnePlace(e, q, n, w \o <<Either!Id>>, g, h, l, s)
  BY <1>5 DEF OnePlace
<1> QED BY <1>6, <1>7, <1>8

(***************************************************************************)
(* ... and to the order of those to a handle.                              *)
(***************************************************************************)
LEMMA OrderStays ==
  ASSUME NEW q \in Line, NEW w \in Line, NEW h \in Line, NEW to, OnTheWay(q, w, h, to)
  PROVE  /\ OnTheWay(<<>>, w \o q, h, to)
         /\ \A t \in Line : Handles(t) = {} /\ Ascending(t)
              => OnTheWay(q \o t, w, h, to) /\ OnTheWay(q, w \o t, h, to) /\ OnTheWay(q, w, h \o t, to)
<1>1. Handles(w \o q) = Handles(w) \cup Handles(q) /\ Ascending(w \o q)
  BY NumbersOfTwo, AscendingOfTwo DEF OnTheWay
<1>2. Handles(<<>>) = {} /\ Ascending(<<>>)
  BY OfNone
<1>3. OnTheWay(<<>>, w \o q, h, to)
  BY <1>1, <1>2 DEF OnTheWay, Precede
<1>4. ASSUME NEW t \in Line, Handles(t) = {}, Ascending(t)
      PROVE  OnTheWay(q \o t, w, h, to) /\ OnTheWay(q, w \o t, h, to) /\ OnTheWay(q, w, h \o t, to)
  <2>1. Handles(q \o t) = Handles(q) /\ Handles(w \o t) = Handles(w) /\ Handles(h \o t) = Handles(h)
    <3>1. /\ Handles(q \o t) = Handles(q) \cup Handles(t)
          /\ Handles(w \o t) = Handles(w) \cup Handles(t)
          /\ Handles(h \o t) = Handles(h) \cup Handles(t)
      BY NumbersOfTwo
    <3> QED BY <1>4, <3>1
  <2>2. Ascending(q \o t) /\ Ascending(w \o t) /\ Ascending(h \o t)
    BY <1>4, AscendingOfTwo DEF OnTheWay, Precede
  <2> QED BY <2>1, <2>2 DEF OnTheWay
<1> QED BY <1>3, <1>4

LEMMA OrderRead ==
  ASSUME NEW q \in Line, NEW t \in Line, NEW h \in Line, NEW to, NEW m \in Item,
         OnTheWay(q, <<m>> \o t, h, to)
  PROVE  /\ OnTheWay(q, t, h \o <<m>>, to)
         /\ m = Either!Id => OnTheWay(q, t, h, to)
<1>1. <<m>> \in Line /\ Ascending(<<m>>)
      /\ Handles(<<m>> \o t) = Handles(<<m>>) \cup Handles(t)
      /\ Handles(h \o <<m>>) = Handles(h) \cup Handles(<<m>>)
  BY OfOne, NumbersOfTwo
<1>2. Ascending(t) /\ Precede(Handles(<<m>>), Handles(t))
  BY <1>1, AscendingOfTwo DEF OnTheWay
<1>3. Ascending(h \o <<m>>)
  <2>1. Precede(Handles(h), Handles(<<m>>)) /\ Ascending(h)
    BY <1>1 DEF OnTheWay, Precede
  <2> QED BY <1>1, <2>1, AscendingOfTwo
<1>4. OnTheWay(q, t, h \o <<m>>, to)
  BY <1>1, <1>2, <1>3 DEF OnTheWay, Precede
<1>5. m = Either!Id => Handles(<<m>>) = {}
  BY OfOne, Items
<1>6. m = Either!Id => OnTheWay(q, t, h, to)
  BY <1>1, <1>2, <1>5 DEF OnTheWay, Precede
<1> QED BY <1>4, <1>6

LEMMA OrderSent ==
  ASSUME NEW q \in Line, NEW w \in Line, NEW h \in Line, NEW s \in Nat, NEW to \in SUBSET (1 .. s),
         NEW m \in Item, m.by = "handle", m.k = s + 1, OnTheWay(q, w, h, to)
  PROVE  /\ OnTheWay(q \o <<m>>, w, h, to \cup {s + 1})
         /\ q = <<>> => OnTheWay(q, w \o <<m>>, h, to \cup {s + 1})
<1>1. <<m>> \in Line /\ Handles(<<m>>) = {s + 1} /\ Ascending(<<m>>)
  BY OfOne
<1>2. Handles(q \o <<m>>) = Handles(q) \cup {s + 1} /\ Handles(w \o <<m>>) = Handles(w) \cup {s + 1}
  BY <1>1, NumbersOfTwo
<1>3. \A k \in Handles(q) \cup Handles(w) \cup Handles(h) : k < s + 1
  BY DEF OnTheWay
<1>4. Ascending(q \o <<m>>) /\ Ascending(w \o <<m>>)
  <2>1. Precede(Handles(q), {s + 1}) /\ Precede(Handles(w), {s + 1})
    BY <1>3 DEF Precede
  <2> QED BY <1>1, <2>1, AscendingOfTwo DEF OnTheWay
<1>5. OnTheWay(q \o <<m>>, w, h, to \cup {s + 1})
  BY <1>2, <1>3, <1>4 DEF OnTheWay, Precede
<1>6. q = <<>> => Handles(q) = {}
  BY OfNone
<1>7. q = <<>> => OnTheWay(q, w \o <<m>>, h, to \cup {s + 1})
  BY <1>2, <1>3, <1>4, <1>6 DEF OnTheWay, Precede
<1> QED BY <1>5, <1>7


(***************************************************************************)
(* The steps.                                                              *)
(***************************************************************************)
LEMMA Closed ==
  /\ \A s, t \in Seq(Either!Msg) : s \o t \in Seq(Either!Msg) /\ s \in Line
  /\ \A s, t \in Line : s \o t \in Line
  /\ \A s \in Line : s \in Seq(Either!Msg \cup {Either!Id})
  /\ <<>> \in Seq(Either!Msg) /\ <<Either!Id>> \in Line
<1>1. \A s \in Seq(Either!Msg) : s \in Line
  BY Items, SeqDef DEF Line
<1>2. \A s, t \in Seq(Either!Msg) : s \o t \in Seq(Either!Msg)
  BY ConcatProperties
<1>3. <<Either!Id>> \in Line
  BY Items, OfOne
<1>4. \A s, t \in Line : s \o t \in Line
  BY LineOfTwo
<1> QED BY <1>1, <1>2, <1>3, <1>4 DEF Line, Item

LEMMA LedGrows ==
  ASSUME NEW s \in Line, Led(s), NEW t \in Seq(Either!Msg)
  PROVE  Led(s \o t) /\ Tail(s) \in Line /\ s = <<Either!Id>> \o Tail(s)
<1>1. Tail(s) \in Seq(Either!Msg) /\ Tail(s) \in Line /\ s = <<Either!Id>> \o Tail(s) /\ t \in Line
  BY OfFirst, Closed DEF Led
<1>2. s \o t = <<Either!Id>> \o (Tail(s) \o t)
  <2>1. <<Either!Id>> \in Seq(Item) /\ Tail(s) \in Seq(Item) /\ t \in Seq(Item)
    BY <1>1, Closed DEF Line
  <2>2. (<<Either!Id>> \o Tail(s)) \o t = <<Either!Id>> \o (Tail(s) \o t)
    BY <2>1, Associative
  <2> QED BY <1>1, <2>2
<1>3. Tail(s) \o t \in Seq(Either!Msg)
  BY <1>1, Closed
<1>4. ASSUME NEW u \in Seq(Either!Msg) PROVE Led(<<Either!Id>> \o u)
  <2>1. u \in Seq(Item) /\ <<Either!Id>> \in Seq(Item) /\ <<Either!Id>> \o u \in Seq(Item)
    BY Closed DEF Line
  <2>2. Len(<<Either!Id>> \o u) = 1 + Len(u) /\ Len(u) \in Nat
        /\ \A i \in 1 .. 1 + Len(u) : (<<Either!Id>> \o u)[i] = IF i <= 1 THEN <<Either!Id>>[i] ELSE u[i - 1]
    BY <2>1, ConcatProperties
  <2>3. <<Either!Id>> \o u # <<>>
    BY <2>1, <2>2, EmptySeq
  <2>4. Head(<<Either!Id>> \o u) = Either!Id
    BY <2>1, <2>2
  <2>5. <<Either!Id>> \o u = <<Either!Id>> \o Tail(<<Either!Id>> \o u)
        /\ Tail(<<Either!Id>> \o u) \in Line
    BY <2>1, <2>3, <2>4, OfFirst DEF Line
  <2>6. Tail(<<Either!Id>> \o u) = u
    BY <2>1, <2>5, Cancel DEF Line
  <2> QED BY <2>3, <2>4, <2>6 DEF Led
<1> QED BY <1>1, <1>2, <1>3, <1>4

LEMMA OpenStep == LinkInv /\ Either!Open => LinkInv'
<1> SUFFICES ASSUME LinkInv, Either!Open PROVE LinkInv'
  OBVIOUS
<1> USE DEF End
<1>1. Either!TypeOK /\ Phases /\ Either!UpMeansSent
  BY DEF LinkInv
<1>2. ~ broken /\ wire["opener"] = <<>> /\ ~ fd["opener"] /\ ~ fd["acceptor"]
      /\ linkStatus["acceptor"] = "WAIT" /\ wire["acceptor"] = <<>>
  BY <1>1 DEF Phases, Either!Open, Either!TypeOK, Either!End
<1>3. /\ fd' = [fd EXCEPT !["opener"] = TRUE]
      /\ linkStatus' = [linkStatus EXCEPT !["opener"] = "HANDSHAKE"]
      /\ wire' = [wire EXCEPT !["opener"] = @ \o <<Either!Id>>] /\ lost' = lost
      /\ queue' = queue /\ value' = value /\ nameq' = nameq /\ sent' = sent /\ got' = got
      /\ errors' = errors /\ broken' = broken /\ rightId' = rightId
  BY <1>2 DEF Either!Open, Either!Write
<1>4. /\ wire' \in [End -> Line] /\ wire'["opener"] = <<Either!Id>> /\ wire'["acceptor"] = <<>>
      /\ wire["opener"] \o <<Either!Id>> = <<Either!Id>>
  <2>1. <<>> \o <<Either!Id>> = <<Either!Id>>
    BY Closed, OfNone
  <2> QED BY <1>1, <1>2, <1>3, <2>1, Closed, OfNone DEF Either!TypeOK, Either!End, Line, Item
<1>5. Either!TypeOK'
  BY <1>1, <1>3, <1>4, Closed DEF Either!TypeOK, Either!End
<1>6. Led(<<Either!Id>>) /\ Handles(<<Either!Id>>) = {} /\ Ascending(<<Either!Id>>)
  <2>1. Handles(<<Either!Id>>) = {} /\ Ascending(<<Either!Id>>)
    BY Items, OfOne
  <2> QED BY <2>1 DEF Led
<1>7. Phases'
  BY <1>1, <1>2, <1>3, <1>4, <1>6 DEF Phases, Either!TypeOK, Either!End
<1>8. Either!UpMeansSent'
  BY <1>1, <1>3 DEF Either!UpMeansSent, Either!End, Either!TypeOK
<1>9. ASSUME NEW e \in End PROVE EndInv(e)'
  <2>1. /\ Handles(nameq[e]) = {} /\ ToHandle(e)' = ToHandle(e)
        /\ OnePlace(e, queue[e], nameq[e], wire[e], got[e], got[Other(e)], lost[e], Len(sent[e]))
        /\ OnTheWay(queue[e], wire[e], got[Other(e)], ToHandle(e))
    BY <1>2, <1>3 DEF LinkInv, EndInv, ToHandle
  <2>2. CASE e = "acceptor"
    <3>1. wire'[e] = wire[e]
      BY <1>2, <1>4, <2>2
    <3> QED BY <1>3, <2>1, <3>1 DEF EndInv
  <2>3. CASE e = "opener"
    <3>1. wire'[e] = wire[e] \o <<Either!Id>>
      BY <1>4, <2>3
    <3>2. queue[e] \in Line /\ wire[e] \in Line /\ got[e] \in Line /\ got[Other(e)] \in Line
      BY <1>1, Lines
    <3>3. OnePlace(e, queue[e], nameq[e], wire[e] \o <<Either!Id>>, got[e], got[Other(e)], lost[e],
                   Len(sent[e]))
      BY <2>1, <3>2, OthersCome, OfNone
    <3>4. OnTheWay(queue[e], wire[e] \o <<Either!Id>>, got[Other(e)], ToHandle(e))
      BY <1>6, <2>1, <3>2, OrderStays, Closed
    <3> QED BY <1>3, <2>1, <3>1, <3>3, <3>4 DEF EndInv
  <2> QED BY <2>2, <2>3
<1> QED BY <1>3, <1>5, <1>7, <1>8, <1>9 DEF LinkInv


LEMMA NoHandles ==
  ASSUME NEW s \in Line, Handles(s) = {}
  PROVE  Ascending(s)
BY DEF Handles, Ascending, Either!Handles, Either!Ascending, Either!HandleAt

\* What the invariant says of an end.
LEMMA EndFacts ==
  ASSUME LinkInv, NEW e \in End
  PROVE  /\ Either!TypeOK /\ Phases /\ Either!UpMeansSent /\ EndInv(e) /\ EndInv(Other(e))
         /\ queue[e] \in Line /\ nameq[e] \in Line /\ wire[e] \in Line /\ got[e] \in Line
         /\ got[Other(e)] \in Line
         /\ queue[e] \in Seq(Either!Msg) /\ nameq[e] \in Seq(Either!Msg)
         /\ got[e] \in Seq(Either!Msg)
         /\ Other(e) \in End /\ Other(e) # e /\ Other(Other(e)) = e /\ Len(sent[e]) \in Nat
BY Lines DEF LinkInv

LEMMA AcceptStep == LinkInv /\ Either!Accept => LinkInv'
<1> SUFFICES ASSUME LinkInv, Either!Accept PROVE LinkInv'
  OBVIOUS
<1> USE DEF End
<1> DEFINE w == wire["opener"]
           q == queue["acceptor"]
<1>1. Either!TypeOK /\ Phases /\ Either!UpMeansSent
  BY DEF LinkInv
<1>2. ~ fd["acceptor"] /\ w # <<>> /\ ~ broken /\ fd["opener"] /\ linkStatus["opener"] = "HANDSHAKE"
      /\ wire["acceptor"] = <<>> /\ Led(w) /\ Handles(w) = {}
  BY <1>1 DEF Phases, Either!Accept
<1>3. w \in Line /\ q \in Line /\ q \in Seq(Either!Msg) /\ w # <<>>
  BY <1>1, <1>2, Lines
<1>4. PICK n \in 1 .. Len(w) :
        /\ wire' = [wire EXCEPT !["opener"] = SubSeq(@, n + 1, Len(@)),
                                !["acceptor"] = @ \o <<Either!Id>> \o q]
        /\ lost' = [lost EXCEPT !["opener"] = @ \cup Either!ToSet(SubSeq(w, 2, n))]
  BY DEF Either!Accept
<1>5. PICK p \in Seq(Either!Msg), t \in Seq(Either!Msg) :
        /\ p = SubSeq(w, 2, n) /\ t = SubSeq(w, n + 1, Len(w))
        /\ w = <<Either!Id>> \o (p \o t)
  <2>1. Tail(w) \in Seq(Either!Msg) /\ Head(w) = Either!Id
    BY <1>2 DEF Led
  <2> HIDE DEF w, q
  <2>2. /\ SubSeq(w, 2, n) \in Seq(Either!Msg) /\ SubSeq(w, n + 1, Len(w)) \in Seq(Either!Msg)
        /\ w = <<Head(w)>> \o (SubSeq(w, 2, n) \o SubSeq(w, n + 1, Len(w)))
    BY <1>3, <2>1, OfRest
  <2> QED BY <2>1, <2>2
<1>6. p \in Line /\ t \in Line /\ p \o t \in Line /\ <<Either!Id>> \in Line
  BY Closed
<1>7. /\ fd' = [fd EXCEPT !["acceptor"] = TRUE]
      /\ linkStatus' = [linkStatus EXCEPT !["acceptor"] = "HEADER"]
      /\ queue' = [queue EXCEPT !["acceptor"] = <<>>]
      /\ value' = value /\ nameq' = nameq /\ sent' = sent /\ got' = got
      /\ errors' = errors /\ broken' = broken /\ rightId' = rightId
  BY DEF Either!Accept
<1>8. <<>> \o <<Either!Id>> = <<Either!Id>> /\ <<Either!Id>> \o q \in Line
  BY <1>3, <1>6, Closed, OfNone
<1>9. /\ wire' \in [End -> Line] /\ wire'["opener"] = t /\ wire'["acceptor"] = <<Either!Id>> \o q
  <2>1. wire \in [End -> Line]
    BY <1>1 DEF Either!TypeOK, Either!End, Line, Item
  <2>2. wire' = [wire EXCEPT !["opener"] = t, !["acceptor"] = <<Either!Id>> \o q]
    BY <1>2, <1>4, <1>5, <1>8
  <2> HIDE DEF w, q
  <2> QED BY <1>6, <1>8, <2>1, <2>2
<1>10. /\ lost'["opener"] = lost["opener"] \cup (Either!ToSet(p) \ {Either!Id})
       /\ lost'["acceptor"] = lost["acceptor"] /\ lost' \in [End -> SUBSET Either!Msg]
  <2>1. Own(p, "opener")
    <3>1. EndInv("opener")
      BY DEF LinkInv
    <3>2. Own(w, "opener")
      BY <3>1 DEF EndInv, OnePlace
    <3>3. Own(<<Either!Id>> \o (p \o t), "opener")
      BY <1>5, <3>2
    <3>4. Own(p \o t, "opener")
      BY <1>6, <3>3, NumbersOfTwo
    <3> QED BY <1>6, <3>4, NumbersOfTwo
  <2>2. /\ Either!ToSet(p) \ {Either!Id} = Either!ToSet(p)
        /\ Either!ToSet(p) \ {Either!Id} \subseteq Either!Msg
    BY <1>6, <2>1, OfLost
  <2>3. lost \in [End -> SUBSET Either!Msg]
    BY <1>1 DEF Either!TypeOK, Either!End
  <2>4. lost' = [lost EXCEPT !["opener"] = @ \cup Either!ToSet(p)]
    BY <1>4, <1>5
  <2> QED BY <2>2, <2>3, <2>4
<1>11. Either!TypeOK'
  <2>1. wire' \in [End -> Seq(Either!Msg \cup {Either!Id})]
    BY <1>9 DEF Line, Item
  <2> QED BY <1>1, <1>7, <2>1, <1>10, Closed DEF Either!TypeOK, Either!End
<1>12. Phases'
  <2>1. Led(<<Either!Id>> \o q)
    <3>1. Led(<<Either!Id>>)
      BY DEF Led
    <3> QED BY <1>3, <1>6, <3>1, LedGrows
  <2> HIDE DEF w, q
  <2> QED BY <1>1, <1>2, <1>7, <1>9, <2>1 DEF Phases, Either!TypeOK, Either!End
<1>13. Either!UpMeansSent'
  BY <1>1, <1>2, <1>7 DEF Either!UpMeansSent, Either!End, Either!TypeOK
<1>14. EndInv("opener")'
  <2> DEFINE e == "opener"
  <2>1. e \in End /\ Other(e) = "acceptor"
    BY DEF Other
  <2>2. EndInv(e) /\ ToHandle(e)' = ToHandle(e)
    BY <1>7 DEF LinkInv, ToHandle
  <2>3. OnePlace(e, queue[e], nameq[e], <<Either!Id>> \o (p \o t), got[e], got[Other(e)], lost[e],
                 Len(sent[e]))
    BY <1>5, <2>2 DEF EndInv
  <2>4. OnePlace(e, queue[e], nameq[e], t, got[e], got[Other(e)],
                 lost[e] \cup (Either!ToSet(p) \ {Either!Id}), Len(sent[e]))
    <3> HIDE DEF e
    <3> QED BY <1>6, <2>3, Items, PartLost
  <2>5. OnTheWay(queue[e], w, got[Other(e)], ToHandle(e))
    BY <1>2, <2>2 DEF EndInv
  <2>6. Handles(t) = {} /\ Ascending(t)
    <3>1. /\ Handles(<<Either!Id>> \o (p \o t)) = Handles(<<Either!Id>>) \cup Handles(p \o t)
          /\ Handles(p \o t) = Handles(p) \cup Handles(t)
      BY <1>6, NumbersOfTwo
    <3>2. Handles(t) = {}
      BY <1>2, <1>5, <3>1
    <3> QED BY <1>6, <3>2, NoHandles
  <2>7. OnTheWay(queue[e], t, got[Other(e)], ToHandle(e))
    BY <1>2, <2>5, <2>6 DEF OnTheWay
  <2>8. queue'[e] = queue[e]
    BY <1>7
  <2> QED BY <1>7, <1>9, <1>10, <2>2, <2>4, <2>7, <2>8 DEF EndInv
<1>15. EndInv("acceptor")'
  <2> DEFINE e == "acceptor"
  <2>1. e \in End /\ Other(e) = "opener"
    BY DEF Other
  <2>2. EndInv(e) /\ ToHandle(e)' = ToHandle(e)
    BY <1>7 DEF LinkInv, ToHandle
  <2>3. /\ q \in Line /\ nameq[e] \in Line /\ wire[e] \in Line /\ got[e] \in Line /\ got[Other(e)] \in Line
    BY <1>1, <2>1, Lines
  <2>4. OnePlace(e, q, nameq[e], wire[e] \o <<Either!Id>>, got[e], got[Other(e)], lost[e], Len(sent[e]))
    <3>1. OnePlace(e, q, nameq[e], wire[e], got[e], got[Other(e)], lost[e], Len(sent[e]))
      BY <2>2 DEF EndInv
    <3> HIDE DEF e, q
    <3> QED BY <2>1, <2>3, <3>1, OthersCome, OfNone
  <2>5. wire[e] \o <<Either!Id>> = <<Either!Id>>
    BY <1>2, <1>8
  <2>6. OnePlace(e, <<>>, nameq[e], <<Either!Id>> \o q, got[e], got[Other(e)], lost[e], Len(sent[e]))
    <3> HIDE DEF e, q
    <3> QED BY <1>6, <2>3, <2>4, <2>5, QueueJoins
  <2>7. OnTheWay(q, <<Either!Id>>, got[Other(e)], ToHandle(e))
    <3>1. OnTheWay(q, wire[e], got[Other(e)], ToHandle(e))
      BY <1>2, <2>2 DEF EndInv
    <3>2. Handles(<<Either!Id>>) = {} /\ Ascending(<<Either!Id>>)
      BY Items, OfOne
    <3> HIDE DEF e, q
    <3>3. OnTheWay(q, wire[e] \o <<Either!Id>>, got[Other(e)], ToHandle(e))
      BY <1>6, <2>3, <3>1, <3>2, OrderStays
    <3> QED BY <2>5, <3>3
  <2>8. OnTheWay(<<>>, <<Either!Id>> \o q, got[Other(e)], ToHandle(e))
    <3> HIDE DEF e, q
    <3> QED BY <1>6, <2>3, <2>7, OrderStays
  <2>9. queue'[e] = <<>>
    BY <1>1, <1>7 DEF Either!TypeOK, Either!End
  <2> QED BY <1>7, <1>9, <1>10, <2>2, <2>6, <2>8, <2>9 DEF EndInv
<1> QED BY <1>11, <1>12, <1>13, <1>14, <1>15 DEF LinkInv


\* The other end sees nothing of what an end does to its own queues.
LEMMA OtherRests ==
  ASSUME LinkInv, NEW e \in End,
         queue'[e] = queue[e], nameq'[e] = nameq[e], wire'[e] = wire[e], lost'[e] = lost[e],
         got' = got, sent' = sent, broken' = broken
  PROVE  EndInv(e)'
BY DEF LinkInv, EndInv, ToHandle

LEMMA NameAtPeerStep ==
  ASSUME LinkInv, NEW e \in End, Either!NameAtPeer(e)
  PROVE  LinkInv'
<1> DEFINE o == Other(e)
           n == nameq[e]
           t == Either!WithHandle(n)
<1>1. /\ Either!TypeOK /\ Phases /\ Either!UpMeansSent /\ EndInv(e)
      /\ queue[e] \in Line /\ n \in Line /\ wire[e] \in Line /\ got[e] \in Line /\ got[o] \in Line
      /\ queue[e] \in Seq(Either!Msg) /\ n \in Seq(Either!Msg)
      /\ o \in End /\ o # e /\ Other(o) = e
  BY EndFacts
<1>2. /\ t \in Seq(Either!Msg) /\ t \in Line /\ Numbers(t, e) = Numbers(n, e) /\ Once(t, e) /\ Own(t, e)
      /\ Handles(t) = {} /\ Ascending(t) /\ Handles(n) = {} /\ Ascending(n)
  <2>1. Once(n, e) /\ Own(n, e) /\ Handles(n) = {}
    BY <1>1 DEF EndInv, OnePlace
  <2>2. Ascending(n)
    BY <1>1, <2>1, NoHandles
  <2> HIDE DEF n
  <2> QED BY <1>1, <2>1, <2>2, OfHandled, Closed
<1>3. /\ value' = [value EXCEPT ![e] = "peer"] /\ nameq' = [nameq EXCEPT ![e] = <<>>]
      /\ fd' = fd /\ linkStatus' = linkStatus /\ sent' = sent /\ got' = got /\ errors' = errors
      /\ broken' = broken /\ rightId' = rightId
  BY DEF Either!NameAtPeer
<1>4. /\ nameq'[e] = <<>> /\ nameq'[o] = nameq[o] /\ nameq' \in [End -> Seq(Either!Msg)]
  BY <1>1, <1>3, Closed DEF Either!TypeOK, Either!End, End
<1>5. ToHandle(e)' = ToHandle(e) /\ Handles(<<>>) = {}
  BY <1>3, OfNone DEF ToHandle
<1>6. /\ OnePlace(e, queue[e], n, wire[e], got[e], got[o], lost[e], Len(sent[e]))
      /\ OnePlace(e, queue[e], t, wire[e], got[e], got[o], lost[e], Len(sent[e]))
      /\ ~ broken => OnTheWay(queue[e], wire[e], got[o], ToHandle(e))
  <2>1. /\ OnePlace(e, queue[e], n, wire[e], got[e], got[o], lost[e], Len(sent[e]))
        /\ ~ broken => OnTheWay(queue[e], wire[e], got[o], ToHandle(e))
    BY <1>1 DEF EndInv
  <2> HIDE DEF n, t, o
  <2> QED BY <1>2, <2>1, NameSame
<1> HIDE DEF n, t, o
<1>7. CASE ~ fd[e]
  <2>1. queue' = [queue EXCEPT ![e] = @ \o n] /\ wire' = wire /\ lost' = lost
    BY <1>7 DEF Either!NameAtPeer, n
  <2>2. queue[e] \o n \in Seq(Either!Msg)
    BY <1>1, Closed
  <2>3. /\ queue'[e] = queue[e] \o n /\ queue'[o] = queue[o] /\ queue' \in [End -> Seq(Either!Msg)]
    BY <1>1, <2>1, <2>2 DEF Either!TypeOK, Either!End, End
  <2>4. Either!TypeOK'
    BY <1>1, <1>3, <1>4, <2>1, <2>3 DEF Either!TypeOK, Either!End, End
  <2>5. Phases'
    BY <1>1, <1>3, <2>1 DEF Phases
  <2>6. Either!UpMeansSent'
    BY <1>1, <1>3, <1>7, <2>3 DEF Either!UpMeansSent, Either!End, End, Phases, o, Other
  <2>7. OnePlace(e, queue[e] \o n, <<>>, wire[e], got[e], got[o], lost[e], Len(sent[e]))
    BY <1>1, <1>6, QueueJoins
  <2>8. ~ broken => OnTheWay(queue[e] \o n, wire[e], got[o], ToHandle(e))
    BY <1>1, <1>2, <1>6, OrderStays
  <2>9. EndInv(e)'
    BY <1>3, <1>4, <1>5, <2>1, <2>3, <2>7, <2>8 DEF EndInv, o
  <2>10. EndInv(o)'
    BY <1>1, <1>3, <1>4, <2>1, <2>3, OtherRests
  <2> QED BY <1>1, <2>4, <2>5, <2>6, <2>9, <2>10 DEF LinkInv, End
<1>8. CASE fd[e] /\ ~ broken
  <2>1. queue' = queue /\ wire' = [wire EXCEPT ![e] = @ \o t] /\ lost' = lost
    BY <1>8 DEF Either!NameAtPeer, Either!Write, n, t
  <2>2. wire[e] \o t \in Line
    BY <1>1, <1>2, Closed
  <2>3. /\ wire'[e] = wire[e] \o t /\ wire'[o] = wire[o] /\ wire' \in [End -> Line]
    BY <1>1, <2>1, <2>2 DEF Either!TypeOK, Either!End, End, Line, Item
  <2>4. Either!TypeOK'
    BY <1>1, <1>3, <1>4, <2>1, <2>3 DEF Either!TypeOK, Either!End, End, Line, Item
  <2>5. Phases'
    <3>1. Led(wire[e]) => Led(wire[e] \o t)
      BY <1>1, <1>2, LedGrows
    <3>2. wire[e] \in Seq(Either!Msg) => wire[e] \o t \in Seq(Either!Msg)
      BY <1>2, Closed
    <3>3. Handles(wire[e] \o t) = Handles(wire[e])
      <4>1. Handles(wire[e] \o t) = Handles(wire[e]) \cup Handles(t)
        BY <1>1, <1>2, NumbersOfTwo
      <4> QED BY <1>2, <4>1
    <3>4. CASE e = "opener"
      <4>1. o = "acceptor"
        BY <3>4 DEF o, Other
      <4> QED BY <1>1, <1>3, <1>8, <2>1, <2>3, <3>1, <3>2, <3>3, <3>4, <4>1 DEF Phases
    <3>5. CASE e = "acceptor"
      <4>1. o = "opener"
        BY <3>5 DEF o, Other
      <4> QED BY <1>1, <1>3, <1>8, <2>1, <2>3, <3>1, <3>2, <3>3, <3>5, <4>1 DEF Phases
    <3> QED BY <3>4, <3>5 DEF End
  <2>6. Either!UpMeansSent'
    BY <1>1, <1>3, <2>1 DEF Either!UpMeansSent
  <2>7. OnePlace(e, queue[e], <<>>, wire[e] \o t, got[e], got[o], lost[e], Len(sent[e]))
    BY <1>1, <1>2, <1>6, QueueJoins
  <2>8. OnTheWay(queue[e], wire[e] \o t, got[o], ToHandle(e))
    BY <1>1, <1>2, <1>6, <1>8, OrderStays
  <2>9. EndInv(e)'
    BY <1>3, <1>4, <1>5, <2>1, <2>3, <2>7, <2>8 DEF EndInv, o
  <2>10. EndInv(o)'
    BY <1>1, <1>3, <1>4, <2>1, <2>3, OtherRests
  <2> QED BY <1>1, <2>4, <2>5, <2>6, <2>9, <2>10 DEF LinkInv, End
<1>9. CASE fd[e] /\ broken
  <2>1. queue' = queue /\ wire' = wire
        /\ lost' = [lost EXCEPT ![e] = @ \cup (Either!ToSet(t) \ {Either!Id})]
    BY <1>9 DEF Either!NameAtPeer, Either!Write, n, t
  <2>2. Either!ToSet(t) \ {Either!Id} \subseteq Either!Msg
    BY <1>2, OfLost
  <2>3. /\ lost'[e] = lost[e] \cup (Either!ToSet(t) \ {Either!Id}) /\ lost'[o] = lost[o]
        /\ lost' \in [End -> SUBSET Either!Msg]
    BY <1>1, <2>1, <2>2 DEF Either!TypeOK, Either!End, End
  <2>4. Either!TypeOK'
    BY <1>1, <1>3, <1>4, <2>1, <2>3 DEF Either!TypeOK, Either!End, End
  <2>5. Phases'
    BY <1>1, <1>3, <2>1 DEF Phases
  <2>6. Either!UpMeansSent'
    BY <1>1, <1>3, <2>1 DEF Either!UpMeansSent
  <2>7. OnePlace(e, queue[e], <<>>, wire[e], got[e], got[o],
                 lost[e] \cup (Either!ToSet(t) \ {Either!Id}), Len(sent[e]))
    BY <1>1, <1>2, <1>6, NowLost
  <2>8. EndInv(e)'
    BY <1>3, <1>4, <1>5, <1>9, <2>1, <2>3, <2>7 DEF EndInv, o
  <2>9. EndInv(o)'
    BY <1>1, <1>3, <1>4, <2>1, <2>3, OtherRests
  <2> QED BY <1>1, <2>4, <2>5, <2>6, <2>8, <2>9 DEF LinkInv, End
<1> QED BY <1>7, <1>8, <1>9

LEMMA NameHereStep ==
  ASSUME LinkInv, NEW e \in End, Either!NameHere(e)
  PROVE  LinkInv'
<1> DEFINE o == Other(e)
           n == nameq[e]
           t == Either!WithHandle(n)
<1>1. /\ Either!TypeOK /\ Phases /\ Either!UpMeansSent /\ EndInv(e) /\ EndInv(o)
      /\ queue[e] \in Line /\ n \in Line /\ wire[e] \in Line /\ got[e] \in Line /\ got[o] \in Line
      /\ n \in Seq(Either!Msg) /\ got[e] \in Seq(Either!Msg)
      /\ o \in End /\ o # e /\ Other(o) = e
  BY EndFacts
<1>2. /\ t \in Seq(Either!Msg) /\ t \in Line /\ Numbers(t, e) = Numbers(n, e) /\ Once(t, e) /\ Own(t, e)
      /\ Handles(t) = {} /\ Ascending(t)
  <2>1. Once(n, e) /\ Own(n, e) /\ Handles(n) = {}
    BY <1>1 DEF EndInv, OnePlace
  <2>2. Ascending(n)
    BY <1>1, <2>1, NoHandles
  <2> HIDE DEF n
  <2> QED BY <1>1, <2>1, <2>2, OfHandled, Closed
<1>3. /\ value' = [value EXCEPT ![e] = "self"] /\ nameq' = [nameq EXCEPT ![e] = <<>>]
      /\ got' = [got EXCEPT ![e] = @ \o t]
      /\ fd' = fd /\ linkStatus' = linkStatus /\ queue' = queue /\ sent' = sent /\ wire' = wire
      /\ lost' = lost /\ errors' = errors /\ broken' = broken /\ rightId' = rightId
  BY DEF Either!NameHere
<1>4. got[e] \o t \in Seq(Either!Msg)
  BY <1>1, <1>2, Closed
<1> HIDE DEF n, t, o
<1>5. /\ nameq'[e] = <<>> /\ nameq'[o] = nameq[o] /\ nameq' \in [End -> Seq(Either!Msg)]
      /\ got'[e] = got[e] \o t /\ got'[o] = got[o] /\ got' \in [End -> Seq(Either!Msg)]
  BY <1>1, <1>3, <1>4, Closed DEF Either!TypeOK, Either!End, End
<1>6. Either!TypeOK'
  BY <1>1, <1>3, <1>5 DEF Either!TypeOK, Either!End, End
<1>7. Phases' /\ Either!UpMeansSent'
  BY <1>1, <1>3 DEF Phases, Either!UpMeansSent
<1>8. EndInv(e)'
  <2>1. OnePlace(e, queue[e], n, wire[e], got[e], got[o], lost[e], Len(sent[e]))
        /\ (~ broken => OnTheWay(queue[e], wire[e], got[o], ToHandle(e)))
    BY <1>1 DEF EndInv, n, o
  <2>2. OnePlace(e, queue[e], t, wire[e], got[e], got[o], lost[e], Len(sent[e]))
    BY <1>2, <2>1, NameSame
  <2>3. OnePlace(e, queue[e], <<>>, wire[e], got[e] \o t, got[o], lost[e], Len(sent[e]))
    BY <1>1, <1>2, <2>2, QueueJoins
  <2>4. ToHandle(e)' = ToHandle(e) /\ Handles(<<>>) = {}
    BY <1>3, OfNone DEF ToHandle
  <2> QED BY <1>3, <1>5, <2>1, <2>3, <2>4 DEF EndInv, o
<1>9. EndInv(o)'
  <2>1. OnePlace(o, queue[o], nameq[o], wire[o], got[o], got[e], lost[o], Len(sent[o]))
        /\ (~ broken => OnTheWay(queue[o], wire[o], got[e], ToHandle(o)))
        /\ Handles(nameq[o]) = {}
    BY <1>1 DEF EndInv
  <2>2. queue[o] \in Line /\ wire[o] \in Line
    BY <1>1, Lines
  <2>3. OnePlace(o, queue[o], nameq[o], wire[o], got[o], got[e] \o t, lost[o], Len(sent[o]))
    BY <1>1, <1>2, <2>1, <2>2, OthersCome
  <2>4. ~ broken => OnTheWay(queue[o], wire[o], got[e] \o t, ToHandle(o))
    BY <1>1, <1>2, <2>1, <2>2, OrderStays
  <2>5. ToHandle(o)' = ToHandle(o)
    BY <1>3 DEF ToHandle
  <2> QED BY <1>1, <1>3, <1>5, <2>1, <2>3, <2>4, <2>5 DEF EndInv
<1> QED BY <1>1, <1>6, <1>7, <1>8, <1>9 DEF LinkInv, End


\* The numbers of a message that is sent.
LEMMA SendFacts ==
  ASSUME LinkInv, NEW e \in End, NEW kind, Either!Sends(e, kind), NEW to \in BOOLEAN
  PROVE  LET m == Either!NextMsg(e, kind, to)
         IN /\ m \in Either!Msg /\ m \in Item /\ m.from = e /\ m.k = Len(sent[e]) + 1 /\ m.by = kind
            /\ kind \in {"handle", "name"} /\ Len(sent[e]) < MaxSend
            /\ sent' \in [End -> Seq({"handle", "name"})]
            /\ Len(sent'[e]) = Len(sent[e]) + 1
            /\ ToHandle(e) \in SUBSET (1 .. Len(sent[e]))
            /\ ToHandle(e)' = IF kind = "handle" THEN ToHandle(e) \cup {Len(sent[e]) + 1} ELSE ToHandle(e)
            /\ sent'[Other(e)] = sent[Other(e)] /\ ToHandle(Other(e))' = ToHandle(Other(e))
<1> DEFINE m == Either!NextMsg(e, kind, to)
           s == sent[e]
<1>1. s \in Seq({"handle", "name"}) /\ Len(s) \in Nat /\ sent \in [End -> Seq({"handle", "name"})]
      /\ Other(e) \in End /\ Other(e) # e
  BY Lines DEF LinkInv, Either!TypeOK, Either!End, End
<1>2. kind \in {"handle", "name"} /\ Len(s) < MaxSend /\ sent' = [sent EXCEPT ![e] = Append(s, kind)]
  BY DEF Either!Sends
<1>3. m \in Either!Msg
  <2>1. Len(s) + 1 \in 1 .. MaxSend
    BY <1>1, <1>2, LinkAssumption
  <2> QED BY <1>2, <2>1 DEF Either!NextMsg, Either!Msg, Either!End, End
<1>4. m.from = e /\ m.k = Len(s) + 1 /\ m.by = kind
  BY DEF Either!NextMsg
<1>5. /\ Append(s, kind) \in Seq({"handle", "name"}) /\ Len(Append(s, kind)) = Len(s) + 1
      /\ \A i \in 1 .. Len(s) + 1 : Append(s, kind)[i] = IF i <= Len(s) THEN s[i] ELSE kind
  BY <1>1, <1>2, AppendProperties
<1> HIDE DEF m, s
<1>6. sent'[e] = Append(s, kind) /\ sent'[Other(e)] = sent[Other(e)]
      /\ sent' \in [End -> Seq({"handle", "name"})]
  BY <1>1, <1>2, <1>5
<1>7. ToHandle(e) = {k \in 1 .. Len(s) : s[k] = "handle"}
      /\ ToHandle(e)' = {k \in 1 .. Len(s) + 1 : Append(s, kind)[k] = "handle"}
  BY <1>1, <1>5, <1>6 DEF ToHandle, s
<1>8. ToHandle(e)' = IF kind = "handle" THEN ToHandle(e) \cup {Len(s) + 1} ELSE ToHandle(e)
  <2>1. \A k \in 1 .. Len(s) : k \in 1 .. Len(s) + 1 /\ Append(s, kind)[k] = s[k]
    BY <1>1, <1>5
  <2>2. Len(s) + 1 \in 1 .. Len(s) + 1 /\ Append(s, kind)[Len(s) + 1] = kind
    BY <1>1, <1>5
  <2>3. \A k \in 1 .. Len(s) + 1 : k \in 1 .. Len(s) \/ k = Len(s) + 1
    BY <1>1
  <2> QED BY <1>2, <1>7, <2>1, <2>2, <2>3
<1>9. ToHandle(Other(e))' = ToHandle(Other(e))
  BY <1>6 DEF ToHandle
<1> QED BY <1>1, <1>2, <1>3, <1>4, <1>5, <1>6, <1>7, <1>8, <1>9, Items DEF m, s

\* The other end sees nothing of what an end sends.
LEMMA OtherRestsToo ==
  ASSUME LinkInv, NEW o \in End,
         queue'[o] = queue[o], nameq'[o] = nameq[o], wire'[o] = wire[o], lost'[o] = lost[o],
         got'[o] = got[o], sent'[o] = sent[o], broken' = broken, ToHandle(o)' = ToHandle(o),
         got'[Other(o)] = got[Other(o)]
  PROVE  EndInv(o)'
BY DEF LinkInv, EndInv

LEMMA ToPeerStep ==
  ASSUME LinkInv, NEW e \in End, NEW kind, Either!Sends(e, kind),
         Either!ToPeer(e, Either!NextMsg(e, kind, TRUE)),
         fd' = fd, linkStatus' = linkStatus, value' = value, nameq' = nameq, got' = got,
         broken' = broken, rightId' = rightId
  PROVE  LinkInv'
<1> DEFINE o == Other(e)
           m == Either!NextMsg(e, kind, TRUE)
           s == Len(sent[e])
<1>1. /\ Either!TypeOK /\ Phases /\ Either!UpMeansSent /\ EndInv(e) /\ EndInv(o)
      /\ queue[e] \in Line /\ nameq[e] \in Line /\ wire[e] \in Line /\ got[e] \in Line /\ got[o] \in Line
      /\ queue[e] \in Seq(Either!Msg) /\ o \in End /\ o # e /\ Other(o) = e /\ s \in Nat
  BY EndFacts
<1>2. /\ m \in Either!Msg /\ m \in Item /\ m.from = e /\ m.k = s + 1 /\ m.by = kind
      /\ kind \in {"handle", "name"} /\ s < MaxSend
      /\ sent' \in [End -> Seq({"handle", "name"})] /\ Len(sent'[e]) = s + 1
      /\ ToHandle(e) \in SUBSET (1 .. s)
      /\ ToHandle(e)' = IF kind = "handle" THEN ToHandle(e) \cup {s + 1} ELSE ToHandle(e)
      /\ sent'[o] = sent[o] /\ ToHandle(o)' = ToHandle(o)
  BY SendFacts
<1>3. /\ Handles(nameq[e]) = {}
      /\ OnePlace(e, queue[e], nameq[e], wire[e], got[e], got[o], lost[e], s)
      /\ ~ broken => OnTheWay(queue[e], wire[e], got[o], ToHandle(e))
  BY <1>1 DEF EndInv
<1>4. Either!ToPeer(e, m)
  OBVIOUS
<1> HIDE DEF m, o, s
<1>5. <<m>> \in Line /\ <<m>> \in Seq(Either!Msg)
      /\ (kind = "name" => Handles(<<m>>) = {}) /\ Ascending(<<m>>)
  <2>1. Handles(<<m>>) = IF m.by = "handle" THEN {m.k} ELSE {}
    BY <1>2, OfOne
  <2>2. <<m>> \in Line /\ Ascending(<<m>>)
    BY <1>2, OfOne
  <2> QED BY <1>2, <2>1, <2>2
<1>6. /\ OnePlace(e, queue[e] \o <<m>>, nameq[e], wire[e], got[e], got[o], lost[e], s + 1)
      /\ OnePlace(e, queue[e], nameq[e], wire[e] \o <<m>>, got[e], got[o], lost[e], s + 1)
      /\ OnePlace(e, queue[e], nameq[e], wire[e], got[e], got[o], lost[e] \cup {m}, s + 1)
  BY <1>1, <1>2, <1>3, NowSent
<1>7. ASSUME ~ broken
      PROVE  /\ OnTheWay(queue[e] \o <<m>>, wire[e], got[o], ToHandle(e)')
             /\ queue[e] = <<>> => OnTheWay(queue[e], wire[e] \o <<m>>, got[o], ToHandle(e)')
  <2>1. OnTheWay(queue[e], wire[e], got[o], ToHandle(e))
    BY <1>3, <1>7
  <2>2. CASE kind = "handle"
    <3>1. /\ OnTheWay(queue[e] \o <<m>>, wire[e], got[o], ToHandle(e) \cup {s + 1})
          /\ queue[e] = <<>> => OnTheWay(queue[e], wire[e] \o <<m>>, got[o], ToHandle(e) \cup {s + 1})
      BY <1>1, <1>2, <2>1, <2>2, OrderSent
    <3> QED BY <1>2, <2>2, <3>1
  <2>3. CASE kind = "name"
    <3>1. /\ OnTheWay(queue[e] \o <<m>>, wire[e], got[o], ToHandle(e))
          /\ OnTheWay(queue[e], wire[e] \o <<m>>, got[o], ToHandle(e))
      BY <1>1, <1>5, <2>1, <2>3, OrderStays
    <3> QED BY <1>2, <2>3, <3>1
  <2> QED BY <1>2, <2>2, <2>3
<1>8. CASE ~ fd[e] \/ linkStatus[e] = "HANDSHAKE"
  <2>1. linkStatus[e] # "DOWN"
    BY <1>1, <1>8 DEF Phases, End
  <2>2. queue' = [queue EXCEPT ![e] = Append(@, m)] /\ wire' = wire /\ lost' = lost /\ errors' = errors
    BY <1>4, <1>8, <2>1 DEF Either!ToPeer
  <2>3. Append(queue[e], m) = queue[e] \o <<m>> /\ queue[e] \o <<m>> \in Seq(Either!Msg)
    BY <1>1, <1>2, <1>5, OfMore, Closed
  <2>4. /\ queue'[e] = queue[e] \o <<m>> /\ queue'[o] = queue[o] /\ queue' \in [End -> Seq(Either!Msg)]
    BY <1>1, <2>2, <2>3 DEF Either!TypeOK, Either!End, End
  <2>5. Either!TypeOK'
    BY <1>1, <1>2, <2>2, <2>4 DEF Either!TypeOK, Either!End, End
  <2>6. Phases'
    BY <1>1, <2>2 DEF Phases
  <2>7. Either!UpMeansSent'
    <3>1. linkStatus[e] # "HEADER"
      BY <1>1, <1>8 DEF Phases, End
    <3>2. \A e2 \in End : e2 = e \/ e2 = o
      BY DEF o, Other, End
    <3> QED BY <1>1, <2>4, <3>1, <3>2 DEF Either!UpMeansSent, Either!End, End
  <2>8. EndInv(e)'
    BY <1>2, <1>3, <1>6, <1>7, <2>2, <2>4 DEF EndInv, o, s
  <2>9. EndInv(o)'
    BY <1>1, <1>2, <2>2, <2>4, OtherRestsToo
  <2> QED BY <1>1, <2>5, <2>6, <2>7, <2>8, <2>9 DEF LinkInv, End
<1>9. CASE fd[e] /\ linkStatus[e] # "HANDSHAKE" /\ ~ broken
  <2>1. linkStatus[e] = "HEADER" /\ queue[e] = <<>> /\ fd["acceptor"]
        /\ (e = "acceptor" \/ linkStatus["opener"] = "HEADER")
    BY <1>1, <1>9 DEF Phases, Either!UpMeansSent, Either!End, End
  <2>2. queue' = queue /\ wire' = [wire EXCEPT ![e] = @ \o <<m>>] /\ lost' = lost /\ errors' = errors
    BY <1>4, <1>9 DEF Either!ToPeer, Either!Write
  <2>3. wire[e] \o <<m>> \in Line
    BY <1>1, <1>5, Closed
  <2>4. /\ wire'[e] = wire[e] \o <<m>> /\ wire'[o] = wire[o] /\ wire' \in [End -> Line]
    BY <1>1, <2>2, <2>3 DEF Either!TypeOK, Either!End, End, Line, Item
  <2>5. Either!TypeOK'
    BY <1>1, <1>2, <2>2, <2>4 DEF Either!TypeOK, Either!End, End, Line, Item
  <2>6. Phases'
    <3>1. Led(wire[e]) => Led(wire[e] \o <<m>>)
      BY <1>1, <1>5, LedGrows
    <3>2. wire[e] \in Seq(Either!Msg) => wire[e] \o <<m>> \in Seq(Either!Msg)
      BY <1>5, Closed
    <3>3. CASE e = "opener"
      <4>1. o = "acceptor"
        BY <3>3 DEF o, Other
      <4> QED BY <1>1, <1>9, <2>1, <2>4, <3>1, <3>2, <3>3, <4>1 DEF Phases
    <3>4. CASE e = "acceptor"
      <4>1. o = "opener"
        BY <3>4 DEF o, Other
      <4> QED BY <1>1, <1>9, <2>1, <2>4, <3>1, <3>2, <3>4, <4>1 DEF Phases
    <3> QED BY <3>3, <3>4 DEF End
  <2>7. Either!UpMeansSent'
    BY <1>1, <2>2 DEF Either!UpMeansSent
  <2>8. EndInv(e)'
    BY <1>2, <1>3, <1>6, <1>7, <2>1, <2>2, <2>4 DEF EndInv, o, s
  <2>9. EndInv(o)'
    BY <1>1, <1>2, <2>2, <2>4, OtherRestsToo
  <2> QED BY <1>1, <2>5, <2>6, <2>7, <2>8, <2>9 DEF LinkInv, End
<1>10. CASE fd[e] /\ linkStatus[e] # "HANDSHAKE" /\ broken
  <2>1. queue' = queue /\ wire' = wire /\ errors' = errors
        /\ lost' = [lost EXCEPT ![e] = @ \cup (Either!ToSet(<<m>>) \ {Either!Id})]
    BY <1>4, <1>10 DEF Either!ToPeer, Either!Write
  <2>2. Either!ToSet(<<m>>) \ {Either!Id} = {m}
    <3>1. m # Either!Id
      BY <1>2, Items
    <3> QED BY <3>1 DEF Either!ToSet
  <2>3. lost'[e] = lost[e] \cup {m} /\ lost'[o] = lost[o] /\ lost' \in [End -> SUBSET Either!Msg]
    BY <1>1, <1>2, <2>1, <2>2 DEF Either!TypeOK, Either!End, End
  <2>4. Either!TypeOK'
    BY <1>1, <1>2, <2>1, <2>3 DEF Either!TypeOK, Either!End, End
  <2>5. Phases' /\ Either!UpMeansSent'
    BY <1>1, <2>1 DEF Phases, Either!UpMeansSent
  <2>6. EndInv(e)'
    BY <1>2, <1>3, <1>6, <1>10, <2>1, <2>3 DEF EndInv, o, s
  <2>7. EndInv(o)'
    BY <1>1, <1>2, <2>1, <2>3, OtherRestsToo
  <2> QED BY <1>1, <2>4, <2>5, <2>6, <2>7 DEF LinkInv, End
<1> QED BY <1>8, <1>9, <1>10

LEMMA SendHandleStep ==
  ASSUME LinkInv, NEW e \in End, Either!SendHandle(e)
  PROVE  LinkInv'
BY ToPeerStep DEF Either!SendHandle

LEMMA SendNameStep ==
  ASSUME LinkInv, NEW e \in End, Either!SendName(e)
  PROVE  LinkInv'
<1> DEFINE o == Other(e)
           s == Len(sent[e])
<1>1. /\ Either!TypeOK /\ Phases /\ Either!UpMeansSent /\ EndInv(e) /\ EndInv(o)
      /\ queue[e] \in Line /\ nameq[e] \in Line /\ wire[e] \in Line /\ got[e] \in Line /\ got[o] \in Line
      /\ nameq[e] \in Seq(Either!Msg) /\ got[e] \in Seq(Either!Msg)
      /\ o \in End /\ o # e /\ Other(o) = e /\ s \in Nat
  BY EndFacts
<1>2. Either!Sends(e, "name") /\ fd' = fd /\ linkStatus' = linkStatus /\ value' = value
      /\ broken' = broken /\ rightId' = rightId
  BY DEF Either!SendName
<1>3. /\ Handles(nameq[e]) = {}
      /\ OnePlace(e, queue[e], nameq[e], wire[e], got[e], got[o], lost[e], s)
      /\ ~ broken => OnTheWay(queue[e], wire[e], got[o], ToHandle(e))
  BY <1>1 DEF EndInv
<1>4. CASE /\ value[e] = "unknown"
           /\ nameq' = [nameq EXCEPT ![e] = Append(@, Either!NextMsg(e, "name", FALSE))]
           /\ UNCHANGED <<queue, wire, got, lost, errors>>
  <2> DEFINE m == Either!NextMsg(e, "name", FALSE)
  <2>1. /\ m \in Either!Msg /\ m \in Item /\ m.from = e /\ m.k = s + 1 /\ m.by = "name"
        /\ s < MaxSend /\ sent' \in [End -> Seq({"handle", "name"})] /\ Len(sent'[e]) = s + 1
        /\ ToHandle(e)' = ToHandle(e) /\ sent'[o] = sent[o] /\ ToHandle(o)' = ToHandle(o)
    BY <1>2, SendFacts
  <2>2. nameq' = [nameq EXCEPT ![e] = Append(@, m)]
    BY <1>4
  <2> HIDE DEF m, o, s
  <2>3. <<m>> \in Line /\ <<m>> \in Seq(Either!Msg) /\ Handles(<<m>>) = {}
    <3>1. Handles(<<m>>) = IF m.by = "handle" THEN {m.k} ELSE {}
      BY <2>1, OfOne
    <3>2. <<m>> \in Line
      BY <2>1, OfOne
    <3> QED BY <2>1, <3>1, <3>2
  <2>4. Append(nameq[e], m) = nameq[e] \o <<m>> /\ nameq[e] \o <<m>> \in Seq(Either!Msg)
        /\ Handles(nameq[e] \o <<m>>) = {}
    <3>1. Handles(nameq[e] \o <<m>>) = Handles(nameq[e]) \cup Handles(<<m>>)
      BY <1>1, <2>3, NumbersOfTwo
    <3> QED BY <1>1, <1>3, <2>1, <2>3, <3>1, OfMore, Closed
  <2>5. /\ nameq'[e] = nameq[e] \o <<m>> /\ nameq'[o] = nameq[o] /\ nameq' \in [End -> Seq(Either!Msg)]
    BY <1>1, <2>2, <2>4 DEF Either!TypeOK, Either!End, End
  <2>6. OnePlace(e, queue[e], nameq[e] \o <<m>>, wire[e], got[e], got[o], lost[e], s + 1)
    BY <1>1, <1>3, <2>1, NowSent
  <2>7. Either!TypeOK'
    BY <1>1, <1>2, <1>4, <2>1, <2>5 DEF Either!TypeOK, Either!End, End
  <2>8. Phases' /\ Either!UpMeansSent'
    BY <1>1, <1>2, <1>4 DEF Phases, Either!UpMeansSent
  <2>9. EndInv(e)'
    BY <1>2, <1>3, <1>4, <2>1, <2>4, <2>5, <2>6 DEF EndInv, o, s
  <2>10. EndInv(o)'
    BY <1>1, <1>2, <1>4, <2>1, <2>5, OtherRestsToo
  <2> QED BY <1>1, <2>7, <2>8, <2>9, <2>10 DEF LinkInv, End
<1>5. CASE /\ value[e] = "peer"
           /\ Either!ToPeer(e, Either!NextMsg(e, "name", TRUE))
           /\ UNCHANGED <<nameq, got>>
  BY <1>2, <1>5, ToPeerStep
<1>6. CASE /\ value[e] = "self"
           /\ got' = [got EXCEPT ![e] = Append(@, Either!NextMsg(e, "name", TRUE))]
           /\ UNCHANGED <<nameq, queue, wire, lost, errors>>
  <2> DEFINE m == Either!NextMsg(e, "name", TRUE)
  <2>1. /\ m \in Either!Msg /\ m \in Item /\ m.from = e /\ m.k = s + 1 /\ m.by = "name"
        /\ s < MaxSend /\ sent' \in [End -> Seq({"handle", "name"})] /\ Len(sent'[e]) = s + 1
        /\ ToHandle(e)' = ToHandle(e) /\ sent'[o] = sent[o] /\ ToHandle(o)' = ToHandle(o)
    BY <1>2, SendFacts
  <2>2. got' = [got EXCEPT ![e] = Append(@, m)]
    BY <1>6
  <2> HIDE DEF m, o, s
  <2>3. /\ <<m>> \in Line /\ <<m>> \in Seq(Either!Msg) /\ Handles(<<m>>) = {} /\ Ascending(<<m>>)
        /\ Own(<<m>>, e)
    <3>1. Handles(<<m>>) = IF m.by = "handle" THEN {m.k} ELSE {}
      BY <2>1, OfOne
    <3>2. <<m>> \in Line /\ Ascending(<<m>>) /\ Own(<<m>>, e)
      BY <2>1, OfOne
    <3> QED BY <2>1, <3>1, <3>2
  <2>4. Append(got[e], m) = got[e] \o <<m>> /\ got[e] \o <<m>> \in Seq(Either!Msg)
    BY <1>1, <2>1, <2>3, OfMore, Closed
  <2>5. /\ got'[e] = got[e] \o <<m>> /\ got'[o] = got[o] /\ got' \in [End -> Seq(Either!Msg)]
    BY <1>1, <2>2, <2>4 DEF Either!TypeOK, Either!End, End
  <2>6. OnePlace(e, queue[e], nameq[e], wire[e], got[e] \o <<m>>, got[o], lost[e], s + 1)
    BY <1>1, <1>3, <2>1, NowSent
  <2>7. Either!TypeOK'
    BY <1>1, <1>2, <1>6, <2>1, <2>5 DEF Either!TypeOK, Either!End, End
  <2>8. Phases' /\ Either!UpMeansSent'
    BY <1>1, <1>2, <1>6 DEF Phases, Either!UpMeansSent
  <2>9. EndInv(e)'
    BY <1>2, <1>3, <1>6, <2>1, <2>5, <2>6 DEF EndInv, o, s
  <2>10. EndInv(o)'
    <3>1. OnePlace(o, queue[o], nameq[o], wire[o], got[o], got[e], lost[o], Len(sent[o]))
          /\ (~ broken => OnTheWay(queue[o], wire[o], got[e], ToHandle(o)))
          /\ Handles(nameq[o]) = {}
      BY <1>1 DEF EndInv
    <3>2. queue[o] \in Line /\ wire[o] \in Line
      BY <1>1, Lines
    <3>3. OnePlace(o, queue[o], nameq[o], wire[o], got[o], got[e] \o <<m>>, lost[o], Len(sent[o]))
      BY <1>1, <2>3, <3>1, <3>2, OthersCome
    <3>4. ~ broken => OnTheWay(queue[o], wire[o], got[e] \o <<m>>, ToHandle(o))
      BY <1>1, <2>3, <3>1, <3>2, OrderStays
    <3> QED BY <1>1, <1>2, <1>6, <2>1, <2>5, <3>1, <3>3, <3>4 DEF EndInv
  <2> QED BY <1>1, <2>7, <2>8, <2>9, <2>10 DEF LinkInv, End
<1> QED BY <1>4, <1>5, <1>6 DEF Either!SendName


LEMMA ShakenStep == LinkInv /\ Either!Shaken => LinkInv'
<1> SUFFICES ASSUME LinkInv, Either!Shaken PROVE LinkInv'
  OBVIOUS
<1> USE DEF End
<1> DEFINE w == wire["acceptor"]
           q == queue["opener"]
<1>1. Either!TypeOK /\ Phases /\ Either!UpMeansSent /\ EndInv("opener") /\ EndInv("acceptor")
  BY DEF LinkInv
<1>2. w # <<>> /\ linkStatus["opener"] = "HANDSHAKE" /\ ~ broken /\ fd["acceptor"] /\ fd["opener"]
      /\ Led(w) /\ wire["opener"] \in Seq(Either!Msg)
  BY <1>1 DEF Phases, Either!Shaken
<1>3. /\ q \in Line /\ w \in Line /\ q \in Seq(Either!Msg) /\ wire["opener"] \in Line
      /\ nameq["opener"] \in Line /\ got["opener"] \in Line /\ got["acceptor"] \in Line
      /\ queue["acceptor"] \in Line /\ nameq["acceptor"] \in Line
  BY <1>1, Lines
<1>4. /\ linkStatus' = [linkStatus EXCEPT !["opener"] = "HEADER"]
      /\ queue' = [queue EXCEPT !["opener"] = <<>>]
      /\ wire' = [wire EXCEPT !["acceptor"] = Tail(@), !["opener"] = @ \o q]
      /\ fd' = fd /\ value' = value /\ nameq' = nameq /\ sent' = sent /\ got' = got
      /\ lost' = lost /\ errors' = errors /\ broken' = broken /\ rightId' = rightId
  BY DEF Either!Shaken
<1>5. PICK t \in Seq(Either!Msg) : t = Tail(w) /\ w = <<Either!Id>> \o t /\ t \in Line
  <2> HIDE DEF w
  <2> QED BY <1>2, <1>3, LedGrows, Closed DEF Led
<1>6. wire["opener"] \o q \in Seq(Either!Msg) /\ wire["opener"] \o q \in Line
  BY <1>2, <1>3, Closed
<1>7. /\ wire'["opener"] = wire["opener"] \o q /\ wire'["acceptor"] = t /\ wire' \in [End -> Line]
      /\ queue'["opener"] = <<>> /\ queue'["acceptor"] = queue["acceptor"]
      /\ queue' \in [End -> Seq(Either!Msg)]
  <2>1. wire \in [End -> Line] /\ queue \in [End -> Seq(Either!Msg)]
    BY <1>1 DEF Either!TypeOK, Either!End, Line, Item
  <2>2. wire' = [wire EXCEPT !["acceptor"] = t, !["opener"] = @ \o q]
    BY <1>4, <1>5
  <2> HIDE DEF w, q
  <2> QED BY <1>4, <1>5, <1>6, <2>1, <2>2, Closed
<1>8. Either!TypeOK'
  <2>1. wire' \in [End -> Seq(Either!Msg \cup {Either!Id})]
    BY <1>7 DEF Line, Item
  <2> QED BY <1>1, <1>4, <1>7, <2>1 DEF Either!TypeOK, Either!End
<1>9. Phases'
  <2> HIDE DEF w, q
  <2> QED BY <1>1, <1>2, <1>4, <1>5, <1>6, <1>7 DEF Phases, Either!TypeOK, Either!End
<1>10. Either!UpMeansSent'
  BY <1>1, <1>4, <1>7 DEF Either!UpMeansSent, Either!End, Either!TypeOK
<1>11. EndInv("opener")'
  <2> DEFINE e == "opener"
  <2>1. Other(e) = "acceptor" /\ ToHandle(e)' = ToHandle(e)
    BY <1>4 DEF Other, ToHandle
  <2>2. /\ OnePlace(e, q, nameq[e], wire[e], got[e], got[Other(e)], lost[e], Len(sent[e]))
        /\ OnTheWay(q, wire[e], got[Other(e)], ToHandle(e))
        /\ Handles(nameq[e]) = {}
    BY <1>1, <1>2 DEF EndInv
  <2>3. got[Other(e)] \in Line /\ nameq[e] \in Line /\ wire[e] \in Line /\ got[e] \in Line
    BY <1>3, <2>1
  <2>4. OnePlace(e, <<>>, nameq[e], wire[e] \o q, got[e], got[Other(e)], lost[e], Len(sent[e]))
    <3> HIDE DEF e, q, w
    <3> QED BY <1>3, <2>2, <2>3, QueueJoins
  <2>5. OnTheWay(<<>>, wire[e] \o q, got[Other(e)], ToHandle(e))
    <3> HIDE DEF e, q, w
    <3> QED BY <1>3, <2>2, <2>3, OrderStays
  <2> QED BY <1>4, <1>7, <2>1, <2>2, <2>4, <2>5 DEF EndInv
<1>12. EndInv("acceptor")'
  <2> DEFINE e == "acceptor"
  <2>1. Other(e) = "opener" /\ ToHandle(e)' = ToHandle(e)
    BY <1>4 DEF Other, ToHandle
  <2>2. /\ OnePlace(e, queue[e], nameq[e], <<Either!Id>> \o t, got[e], got[Other(e)], lost[e], Len(sent[e]))
        /\ OnTheWay(queue[e], <<Either!Id>> \o t, got[Other(e)], ToHandle(e))
        /\ Handles(nameq[e]) = {}
    BY <1>1, <1>2, <1>5 DEF EndInv
  <2>3. got[Other(e)] \in Line /\ queue[e] \in Line
    BY <1>3, <2>1
  <2>4. OnePlace(e, queue[e], nameq[e], t, got[e], got[Other(e)], lost[e], Len(sent[e]))
    <3> HIDE DEF e
    <3> QED BY <1>5, <2>2, <2>3, WireRead, Items
  <2>5. OnTheWay(queue[e], t, got[Other(e)], ToHandle(e))
    <3> HIDE DEF e
    <3> QED BY <1>5, <2>2, <2>3, OrderRead, Items
  <2> QED BY <1>4, <1>7, <2>1, <2>2, <2>4, <2>5 DEF EndInv
<1> QED BY <1>8, <1>9, <1>10, <1>11, <1>12 DEF LinkInv

\* The connection ends: what is on the wire is lost, and the opener may lose more.
LEMMA CutStep ==
  ASSUME LinkInv, NEW some \in SUBSET Either!Msg, Either!Cut(some), fd["opener"],
         fd' = fd, value' = value, nameq' = nameq, sent' = sent, got' = got, errors' = errors,
         rightId' = rightId,
         \/ some = {} /\ queue' = queue /\ linkStatus' = linkStatus
         \/ /\ some = Either!ToSet(queue["opener"])
            /\ queue' = [queue EXCEPT !["opener"] = <<>>]
            /\ linkStatus' = [linkStatus EXCEPT !["opener"] = "DOWN"]
  PROVE  LinkInv'
<1> DEFINE drop(e) == Either!ToSet(wire[e]) \ {Either!Id}
           more(e) == IF e = "opener" THEN some ELSE {}
<1>1. Either!TypeOK /\ Phases /\ Either!UpMeansSent
  BY DEF LinkInv
<1>2. /\ broken' = TRUE /\ wire' = [e \in End |-> <<>>]
      /\ lost' = [e \in End |-> lost[e] \cup drop(e) \cup more(e)]
  BY DEF Either!Cut, Either!End, End
<1>3. ASSUME NEW e \in End
      PROVE  EndInv(e)' /\ drop(e) \subseteq Either!Msg /\ more(e) \subseteq Either!Msg
             /\ queue'[e] \in Seq(Either!Msg)
  <2>1. /\ EndInv(e)
        /\ queue[e] \in Line /\ nameq[e] \in Line /\ wire[e] \in Line /\ got[e] \in Line
        /\ queue[e] \in Seq(Either!Msg)
    BY EndFacts
  <2>2. /\ OnePlace(e, queue[e], nameq[e], wire[e], got[e], got[Other(e)], lost[e], Len(sent[e]))
        /\ Handles(nameq[e]) = {}
    BY <2>1 DEF EndInv
  <2>3. OnePlace(e, queue[e], nameq[e], <<>>, got[e], got[Other(e)], lost[e] \cup drop(e), Len(sent[e]))
    BY <2>1, <2>2, NowLost
  <2>4. drop(e) \subseteq Either!Msg /\ more(e) \subseteq Either!Msg
    <3>1. Own(wire[e], e)
      BY <2>2 DEF OnePlace
    <3> QED BY <2>1, <3>1, OfLost
  <2>5. wire'[e] = <<>> /\ lost'[e] = (lost[e] \cup drop(e)) \cup more(e)
    BY <1>2
  <2> HIDE DEF drop
  <2>6. CASE queue'[e] = queue[e] /\ more(e) = {}
    <3>1. (lost[e] \cup drop(e)) \cup more(e) = lost[e] \cup drop(e)
      BY <2>6
    <3> HIDE DEF more
    <3> QED BY <1>2, <2>1, <2>2, <2>3, <2>4, <2>5, <2>6, <3>1 DEF EndInv
  <2>7. CASE queue'[e] = <<>> /\ more(e) = Either!ToSet(queue[e])
    <3>1. OnePlace(e, <<>>, nameq[e], <<>>, got[e], got[Other(e)],
                   (lost[e] \cup drop(e)) \cup (Either!ToSet(queue[e]) \ {Either!Id}), Len(sent[e]))
      BY <2>1, <2>3, NowLost, OfNone
    <3>2. Either!ToSet(queue[e]) \ {Either!Id} = Either!ToSet(queue[e])
      <4>1. Own(queue[e], e)
        BY <2>2 DEF OnePlace
      <4> QED BY <2>1, <4>1, OfLost
    <3> HIDE DEF more
    <3> QED BY <1>2, <2>1, <2>2, <2>4, <2>5, <2>7, <3>1, <3>2, Closed DEF EndInv
  <2>8. \/ queue'[e] = queue[e] /\ more(e) = {}
        \/ queue'[e] = <<>> /\ more(e) = Either!ToSet(queue[e])
    BY <1>1 DEF Either!TypeOK, Either!End, End
  <2> HIDE DEF more
  <2> QED BY <2>6, <2>7, <2>8
<1>4. Either!TypeOK'
  <2>1. lost' \in [End -> SUBSET Either!Msg]
    <3>1. \A e \in End : lost[e] \subseteq Either!Msg
      BY <1>1 DEF Either!TypeOK, Either!End, End
    <3> HIDE DEF drop, more
    <3> QED BY <1>2, <1>3, <3>1
  <2>2. queue' \in [End -> Seq(Either!Msg)]
    <3>1. queue' \in [End -> Seq(Either!Msg)] \/ queue' = [queue EXCEPT !["opener"] = <<>>]
      BY <1>1 DEF Either!TypeOK, Either!End, End
    <3> QED BY <1>1, <3>1, Closed DEF Either!TypeOK, Either!End, End
  <2>3. wire' \in [End -> Seq(Either!Msg \cup {Either!Id})]
    <3>1. <<>> \in Seq(Either!Msg \cup {Either!Id})
      OBVIOUS
    <3> QED BY <1>2, <3>1
  <2>4. linkStatus' \in [End -> {"WAIT", "HANDSHAKE", "HEADER", "DOWN"}]
    BY <1>1 DEF Either!TypeOK, Either!End, End
  <2>5. broken' \in BOOLEAN
    BY <1>2
  <2> HIDE DEF drop, more
  <2> QED BY <1>1, <2>1, <2>2, <2>3, <2>4, <2>5 DEF Either!TypeOK, Either!End, End
<1>5. Phases'
  <2>1. <<>> \in Seq(Either!Msg)
    BY Closed
  <2> HIDE DEF drop, more
  <2> QED BY <1>1, <1>2, <2>1 DEF Phases, Either!TypeOK, Either!End, End
<1>6. Either!UpMeansSent'
  BY <1>1 DEF Either!UpMeansSent, Either!TypeOK, Either!End, End
<1> QED BY <1>3, <1>4, <1>5, <1>6 DEF LinkInv

LEMMA WrongIdStep == LinkInv /\ Either!WrongId => LinkInv'
<1> SUFFICES ASSUME LinkInv, Either!WrongId PROVE LinkInv'
  OBVIOUS
<1>1. Phases /\ queue["opener"] \in Line /\ queue["opener"] \in Seq(Either!Msg)
  BY EndFacts DEF End
<1>2. fd["opener"]
  BY <1>1 DEF Phases, Either!WrongId
<1>3. Either!ToSet(queue["opener"]) \in SUBSET Either!Msg
  BY <1>1 DEF Either!ToSet
<1> QED BY <1>2, <1>3, CutStep DEF Either!WrongId

LEMMA BreakStep == LinkInv /\ Either!Break => LinkInv'
BY CutStep DEF Either!Break

LEMMA ReceiveStep ==
  ASSUME LinkInv, NEW e \in End, Either!Receive(e)
  PROVE  LinkInv'
<1> DEFINE o == Other(e)
           w == wire[o]
<1>1. /\ Either!TypeOK /\ Phases /\ Either!UpMeansSent /\ EndInv(e) /\ EndInv(o)
      /\ queue[e] \in Line /\ nameq[e] \in Line /\ wire[e] \in Line /\ got[e] \in Line /\ got[o] \in Line
      /\ got[e] \in Seq(Either!Msg) /\ o \in End /\ o # e /\ Other(o) = e
  BY EndFacts
<1>2. fd[e] /\ linkStatus[e] = "HEADER" /\ w # <<>> /\ Either!Other(e) = o /\ Either!Other(o) = e
  BY <1>1, Lines DEF Either!Receive
<1>3. w \in Line /\ w \in Seq(Either!Msg) /\ queue[o] \in Line
  <2>1. w \in Line /\ queue[o] \in Line
    BY <1>1, Lines
  <2>2. w \in Seq(Either!Msg)
    BY <1>1, <1>2 DEF Phases, End, Other
  <2> QED BY <2>1, <2>2
<1>4. PICK m \in Either!Msg, t \in Seq(Either!Msg) : m = Head(w) /\ t = Tail(w) /\ w = <<m>> \o t
  BY <1>2, <1>3, OfFirst
<1>5. m \in Item /\ t \in Line /\ <<m>> \in Line /\ <<m>> \in Seq(Either!Msg)
  <2>1. m \in Item /\ t \in Line
    BY Items, Closed
  <2>2. <<m>> \in Line
    BY <2>1, OfOne
  <2>3. <<m>> \in Seq(Either!Msg)
    OBVIOUS
  <2> QED BY <2>1, <2>2, <2>3
<1>6. /\ got' = [got EXCEPT ![e] = Append(@, m)] /\ wire' = [wire EXCEPT ![o] = t]
      /\ fd' = fd /\ linkStatus' = linkStatus /\ queue' = queue /\ value' = value /\ nameq' = nameq
      /\ sent' = sent /\ lost' = lost /\ errors' = errors /\ broken' = broken /\ rightId' = rightId
  BY <1>2, <1>4 DEF Either!Receive, Either!Taken
<1>7. Append(got[e], m) = got[e] \o <<m>> /\ got[e] \o <<m>> \in Seq(Either!Msg)
  BY <1>1, <1>5, OfMore, Closed
<1> HIDE DEF o, w
<1>8. /\ got'[e] = got[e] \o <<m>> /\ got'[o] = got[o] /\ got' \in [End -> Seq(Either!Msg)]
      /\ wire'[o] = t /\ wire'[e] = wire[e] /\ wire' \in [End -> Line]
  BY <1>1, <1>5, <1>6, <1>7 DEF Either!TypeOK, Either!End, End, Line, Item
<1>9. Either!TypeOK'
  <2>1. wire' \in [End -> Seq(Either!Msg \cup {Either!Id})]
    BY <1>8 DEF Line, Item
  <2> QED BY <1>1, <1>6, <1>8, <2>1 DEF Either!TypeOK, Either!End, End
<1>10. ~ broken
  BY <1>1, <1>2 DEF Phases, w, End
<1>11. Phases'
  <2>1. CASE e = "opener"
    <3>1. o = "acceptor"
      BY <2>1 DEF o, Other
    <3> QED BY <1>1, <1>2, <1>6, <1>8, <1>10, <2>1, <3>1 DEF Phases
  <2>2. CASE e = "acceptor"
    <3>1. o = "opener"
      BY <2>2 DEF o, Other
    <3> QED BY <1>1, <1>2, <1>6, <1>8, <1>10, <2>2, <3>1 DEF Phases
  <2> QED BY <2>1, <2>2 DEF End
<1>12. Either!UpMeansSent'
  BY <1>1, <1>6 DEF Either!UpMeansSent
<1>13. ToHandle(e)' = ToHandle(e) /\ ToHandle(o)' = ToHandle(o)
  BY <1>6 DEF ToHandle
<1>14. EndInv(o)'
  <2>1. /\ OnePlace(o, queue[o], nameq[o], <<m>> \o t, got[o], got[e], lost[o], Len(sent[o]))
        /\ OnTheWay(queue[o], <<m>> \o t, got[e], ToHandle(o))
        /\ Handles(nameq[o]) = {}
    BY <1>1, <1>4, <1>10 DEF EndInv, w
  <2>2. OnePlace(o, queue[o], nameq[o], t, got[o], got[e] \o <<m>>, lost[o], Len(sent[o]))
    BY <1>1, <1>5, <2>1, WireRead
  <2>3. OnTheWay(queue[o], t, got[e] \o <<m>>, ToHandle(o))
    BY <1>1, <1>3, <1>5, <2>1, OrderRead
  <2> QED BY <1>1, <1>6, <1>8, <1>13, <2>1, <2>2, <2>3 DEF EndInv
<1>15. EndInv(e)'
  <2>1. /\ OnePlace(e, queue[e], nameq[e], wire[e], got[e], got[o], lost[e], Len(sent[e]))
        /\ OnTheWay(queue[e], wire[e], got[o], ToHandle(e))
        /\ Handles(nameq[e]) = {}
    BY <1>1, <1>10 DEF EndInv, o
  <2>2. Own(<<m>>, o)
    <3>1. OnePlace(o, queue[o], nameq[o], <<m>> \o t, got[o], got[e], lost[o], Len(sent[o]))
      BY <1>1, <1>4 DEF EndInv, w
    <3>2. Own(<<m>> \o t, o)
      BY <3>1 DEF OnePlace
    <3> QED BY <1>5, <3>2, NumbersOfTwo
  <2>3. OnePlace(e, queue[e], nameq[e], wire[e], got[e] \o <<m>>, got[o], lost[e], Len(sent[e]))
    BY <1>1, <1>5, <2>1, <2>2, OthersCome DEF o
  <2> QED BY <1>6, <1>8, <1>13, <2>1, <2>3 DEF EndInv, o
<1> QED BY <1>1, <1>9, <1>11, <1>12, <1>14, <1>15 DEF LinkInv, End

LEMMA LinkStep == LinkInv /\ [Either!Next]_(Either!vars) => LinkInv'
<1> SUFFICES ASSUME LinkInv, [Either!Next]_(Either!vars) PROVE LinkInv'
  OBVIOUS
<1>1. Either!End = End
  BY DEF Either!End, End
<1>2. CASE Either!Open
  BY <1>2, OpenStep
<1>3. CASE Either!Deliver
  BY <1>1, <1>3, AcceptStep, ShakenStep, WrongIdStep, ReceiveStep DEF Either!Deliver
<1>4. CASE Either!Break
  BY <1>4, BreakStep
<1>5. ASSUME NEW e \in End, Either!NameAtPeer(e) \/ Either!NameHere(e)
                            \/ Either!SendHandle(e) \/ Either!SendName(e)
      PROVE  LinkInv'
  BY <1>5, NameAtPeerStep, NameHereStep, SendHandleStep, SendNameStep
<1>6. CASE UNCHANGED Either!vars
  <2>1. /\ fd' = fd /\ linkStatus' = linkStatus /\ queue' = queue /\ value' = value /\ nameq' = nameq
        /\ sent' = sent /\ wire' = wire /\ got' = got /\ lost' = lost /\ errors' = errors
        /\ broken' = broken /\ rightId' = rightId
    BY <1>6 DEF Either!vars
  <2>2. Either!TypeOK' /\ Phases' /\ Either!UpMeansSent'
    BY <2>1 DEF LinkInv, Either!TypeOK, Phases, Either!UpMeansSent
  <2>3. \A e \in End : EndInv(e)'
    BY <2>1 DEF LinkInv, EndInv, ToHandle
  <2> QED BY <2>2, <2>3 DEF LinkInv
<1> QED BY <1>1, <1>2, <1>3, <1>4, <1>5, <1>6 DEF Either!Next

\* service_harbor.c at both ends of a connection: for any number of messages,
\* those to a handle arrive in the order sent as long as it holds, those that
\* were queued are sent when it is up, and each is in one place or was lost.
THEOREM LinkTheorem == Either!Spec => []LinkDelivers
<1>1. Either!Init => LinkInv
  BY LinkInit
<1>2. LinkInv /\ [Either!Next]_(Either!vars) => LinkInv'
  BY LinkStep
<1>3. LinkInv => LinkDelivers
  BY LinkInvShows
<1> QED BY <1>1, <1>2, <1>3, PTL DEF Either!Spec

=============================================================================
