-------------------------- MODULE MCKernel_proofs --------------------------
(***************************************************************************)
(* The structures of the kernel do what they promise, for any sizes: the   *)
(* ring of a message queue, its warnings, the handle storage, the timing   *)
(* wheel.                                                                  *)
(***************************************************************************)
EXTENDS MCKernel, SequenceTheorems, FiniteSetTheorems, WellFoundedInduction, TLAPS

-----------------------------------------------------------------------------
(***************************************************************************)
(* The ring buffer implements a FIFO queue, whatever its initial size.     *)
(***************************************************************************)
\* A ring of n slots with elements of S.
IsRing(buf, h, e, n, S) ==
  /\ n \in Nat \ {0}
  /\ h \in 0 .. n - 1
  /\ e \in 0 .. n - 1
  /\ buf \in [0 .. n - 1 -> S]

\* The part of TypeOK that is about the ring: skynet_mq_push and
\* skynet_mq_pop keep it with no help from the overload counters.
RingOK == IsRing(queue, head, tail, cap, Msg \cup {Garbage})

\* The index of expand_queue, (head + i) % cap, for i < cap.
LEMMA RingIndex ==
  ASSUME NEW n \in Nat \ {0}, NEW a \in 0 .. 2 * n - 1
  PROVE  a % n = IF a < n THEN a ELSE a - n
OBVIOUS

\* The content is a sequence, as long as skynet_mq_length says.
LEMMA ContentFacts ==
  ASSUME NEW S, NEW n, NEW h, NEW e, NEW buf, IsRing(buf, h, e, n, S)
  PROVE  /\ Between(h, e, n) \in 0 .. n - 1
         /\ \A i \in 1 .. Between(h, e, n) : Slot(i, h, n) \in 0 .. n - 1
         /\ Messages(buf, h, e, n) \in Seq(S)
         /\ Len(Messages(buf, h, e, n)) = Between(h, e, n)
         /\ \A i \in 1 .. Between(h, e, n) :
              Messages(buf, h, e, n)[i] = buf[Slot(i, h, n)]
<1>1. /\ Between(h, e, n) \in 0 .. n - 1
      /\ \A i \in 1 .. Between(h, e, n) : Slot(i, h, n) \in 0 .. n - 1
  BY DEF IsRing, Between, Slot
<1>2. Messages(buf, h, e, n) \in [1 .. Between(h, e, n) -> S]
  BY <1>1 DEF IsRing, Messages
<1> QED BY <1>1, <1>2 DEF Messages

\* Two sequences of the same length with the same elements are the same.
LEMMA SameSequence ==
  ASSUME NEW S, NEW s \in Seq(S), NEW r \in Seq(S), Len(s) = Len(r),
         \A i \in 1 .. Len(s) : s[i] = r[i]
  PROVE  s = r
OBVIOUS

\* Append adds one element at the end.
LEMMA AppendFacts ==
  ASSUME NEW S, NEW s \in Seq(S), NEW m \in S
  PROVE  /\ Append(s, m) \in Seq(S)
         /\ Len(Append(s, m)) = Len(s) + 1
         /\ Append(s, m)[Len(s) + 1] = m
         /\ \A i \in 1 .. Len(s) : Append(s, m)[i] = s[i]
OBVIOUS

\* skynet_mq_push into a ring with room: the message goes to the end.
LEMMA StoreLast ==
  ASSUME NEW S, NEW n, NEW h, NEW e, NEW buf, IsRing(buf, h, e, n, S),
         NEW m \in S, After(e, n) # h
  PROVE  /\ IsRing(Store(buf, e, m), h, After(e, n), n, S)
         /\ Messages(Store(buf, e, m), h, After(e, n), n)
              = Append(Messages(buf, h, e, n), m)
<1> DEFINE buf2 == Store(buf, e, m)
           t2 == After(e, n)
           old == Messages(buf, h, e, n)
           new == Messages(buf2, h, t2, n)
           l == Between(h, e, n)
<1>1. IsRing(buf2, h, t2, n, S)
  BY DEF IsRing, Store, After
<1>2. Between(h, t2, n) = l + 1 /\ l \in Nat
  BY DEF IsRing, Between, After
<1>3. /\ \A i \in 1 .. l : Slot(i, h, n) # e /\ Slot(i, h, n) \in 0 .. n - 1
      /\ Slot(l + 1, h, n) = e
  BY DEF IsRing, Between, Slot
<1>4. e \in 0 .. n - 1 /\ \A i \in 0 .. n - 1 : buf2[i] = IF i = e THEN m ELSE buf[i]
  BY DEF IsRing, Store
<1>5. /\ old \in Seq(S) /\ Len(old) = l
      /\ \A i \in 1 .. l : old[i] = buf[Slot(i, h, n)]
  BY ContentFacts
<1>6. /\ new \in Seq(S) /\ Len(new) = Between(h, t2, n)
      /\ \A i \in 1 .. Between(h, t2, n) : new[i] = buf2[Slot(i, h, n)]
  BY <1>1, ContentFacts
<1> HIDE DEF old, new, l, buf2, t2
<1>7. \A i \in 1 .. l + 1 : new[i] = IF i = l + 1 THEN m ELSE old[i]
  BY <1>2, <1>3, <1>4, <1>5, <1>6
<1>8. new = Append(old, m)
  BY <1>2, <1>5, <1>6, <1>7, AppendFacts, SameSequence
<1> QED BY <1>1, <1>8 DEF old, new, buf2, t2

\* skynet_mq_push into the last free slot: expand_queue rewrites the ring, the
\* message still goes to the end and the others stay in order before it.
LEMMA StoreExpanding ==
  ASSUME NEW S, NEW n, NEW h, NEW e, NEW buf, IsRing(buf, h, e, n, S),
         NEW m \in S, Garbage \in S, After(e, n) = h
  PROVE  /\ IsRing(Expanded(Store(buf, e, m), h, n), 0, n, 2 * n, S)
         /\ Messages(Expanded(Store(buf, e, m), h, n), 0, n, 2 * n)
              = Append(Messages(buf, h, e, n), m)
<1> DEFINE buf2 == Store(buf, e, m)
           d == 2 * n
           big == Expanded(buf2, h, n)
           old == Messages(buf, h, e, n)
           new == Messages(big, 0, n, d)
<1>1. n \in Nat \ {0} /\ h \in 0 .. n - 1 /\ e \in 0 .. n - 1
  BY DEF IsRing
<1>2. \A i \in 0 .. n - 1 : buf2[i] = IF i = e THEN m ELSE buf[i]
  BY DEF IsRing, Store
<1>2a. /\ h = IF e + 1 >= n THEN 0 ELSE e + 1
      /\ \A i \in 0 .. d - 1 : big[i] = IF i < n THEN buf2[(h + i) % n] ELSE Garbage
  BY DEF After, Expanded
<1>2b. d = 2 * n /\ DOMAIN big = 0 .. d - 1 /\ big = [i \in DOMAIN big |-> big[i]]
  BY DEF Expanded
<1> HIDE DEF buf2, big, d
<1>3. ASSUME NEW i \in 0 .. n - 1
      PROVE  /\ Slot(i + 1, h, n) \in 0 .. n - 1
             /\ big[i] = buf2[Slot(i + 1, h, n)]
  <2> DEFINE a == h + i
  <2>1. a \in 0 .. 2 * n - 1 /\ i \in 0 .. 2 * n - 1 /\ i < n
    BY <1>1
  <2> HIDE DEF a
  <2>2. a % n = IF a < n THEN a ELSE a - n
    BY <1>1, <2>1, RingIndex
  <2>3. Slot(i + 1, h, n) = a % n
    BY <1>1, <2>2 DEF Slot, a
  <2>4. Slot(i + 1, h, n) \in 0 .. n - 1
    BY <1>1 DEF Slot
  <2>5. big[i] = buf2[a % n]
    BY <1>2a, <1>2b, <2>1 DEF a
  <2> QED BY <2>3, <2>4, <2>5
<1>4. IsRing(big, 0, n, d, S)
  <2>1. ASSUME NEW i \in 0 .. d - 1 PROVE big[i] \in S
    <3>1. CASE i < n
      <4>1. i \in 0 .. n - 1
        BY <1>1, <3>1
      <4>2. buf2[Slot(i + 1, h, n)] \in S
        BY <1>2, <1>3, <4>1 DEF IsRing
      <4> QED BY <1>3, <4>1, <4>2
    <3>2. CASE ~(i < n)
      BY <1>2a, <3>2
    <3> QED BY <3>1, <3>2
  <2>2. d \in Nat \ {0} /\ 0 \in 0 .. d - 1 /\ n \in 0 .. d - 1
    BY <1>1, <1>2b
  <2>3. big \in [0 .. d - 1 -> S]
    BY <1>2b, <2>1
  <2> QED BY <2>2, <2>3 DEF IsRing
<1>5. Between(0, n, d) = n /\ Between(h, e, n) = n - 1
  <2>1. Between(0, n, d) = n
    BY <1>1, <1>2b DEF Between
  <2>2. CASE e + 1 >= n
    BY <1>1, <1>2a, <2>2 DEF Between
  <2>3. CASE ~(e + 1 >= n)
    BY <1>1, <1>2a, <2>3 DEF Between
  <2> QED BY <2>1, <2>2, <2>3
<1>6. \A i \in 1 .. n : Slot(i, 0, d) = i - 1
  BY <1>1, <1>2b DEF Slot
<1>7. /\ \A i \in 1 .. n - 1 : Slot(i, h, n) # e
      /\ Slot(n, h, n) = e
  BY <1>1, <1>2a DEF Slot
<1>8. /\ old \in Seq(S) /\ Len(old) = Between(h, e, n)
      /\ \A i \in 1 .. Between(h, e, n) : old[i] = buf[Slot(i, h, n)]
  BY ContentFacts
<1>9. /\ new \in Seq(S) /\ Len(new) = Between(0, n, d)
      /\ \A i \in 1 .. Between(0, n, d) : new[i] = big[Slot(i, 0, d)]
  BY <1>4, ContentFacts
<1> HIDE DEF old, new
<1>10. ASSUME NEW i \in 1 .. n
       PROVE  new[i] = IF i = n THEN m ELSE old[i]
  <2>1. i - 1 \in 0 .. n - 1 /\ (i - 1) + 1 = i
    BY <1>1
  <2>2. new[i] = big[i - 1]
    BY <1>5, <1>6, <1>9
  <2>3. new[i] = buf2[Slot(i, h, n)] /\ Slot(i, h, n) \in 0 .. n - 1
    BY <1>3, <2>1, <2>2
  <2>4. CASE i = n
    BY <1>2, <1>7, <2>3, <2>4
  <2>5. CASE i # n
    <3>1. i \in 1 .. n - 1
      BY <1>1, <2>5
    <3> QED BY <1>2, <1>5, <1>7, <1>8, <2>3, <2>5, <3>1
  <2> QED BY <2>4, <2>5
<1>11. Len(old) = n - 1 /\ Len(new) = n
  BY <1>5, <1>8, <1>9
<1>12. ASSUME NEW i \in 1 .. n PROVE Append(old, m)[i] = new[i]
  <2>1. CASE i = n
    BY <1>1, <1>8, <1>10, <1>11, <2>1, AppendFacts
  <2>2. CASE i # n
    <3>1. i \in 1 .. Len(old)
      BY <1>1, <1>11, <2>2
    <3> QED BY <1>8, <1>10, <2>2, <3>1, AppendFacts
  <2> QED BY <2>1, <2>2
<1>13. Len(Append(old, m)) = n /\ Append(old, m) \in Seq(S)
  BY <1>1, <1>8, <1>11, AppendFacts
<1>14. new = Append(old, m)
  BY <1>9, <1>11, <1>12, <1>13, SameSequence
<1> QED BY <1>4, <1>14 DEF old, new, big, buf2, d

\* skynet_mq_pop: the oldest message leaves.
LEMMA TakeFirst ==
  ASSUME NEW S, NEW n, NEW h, NEW e, NEW buf, IsRing(buf, h, e, n, S), h # e
  PROVE  /\ IsRing(buf, After(h, n), e, n, S)
         /\ Messages(buf, h, e, n) # <<>>
         /\ Messages(buf, After(h, n), e, n) = Tail(Messages(buf, h, e, n))
<1> DEFINE h2 == After(h, n)
           old == Messages(buf, h, e, n)
           new == Messages(buf, h2, e, n)
           l == Between(h, e, n)
<1>1. IsRing(buf, h2, e, n, S)
  BY DEF IsRing, After
<1>2. Between(h2, e, n) = l - 1 /\ l \in Nat \ {0}
  BY DEF IsRing, Between, After
<1>3. \A i \in 1 .. l - 1 : Slot(i, h2, n) = Slot(i + 1, h, n)
  BY <1>2 DEF IsRing, Between, Slot, After
<1>4. /\ old \in Seq(S) /\ Len(old) = l
      /\ \A i \in 1 .. l : old[i] = buf[Slot(i, h, n)]
  BY ContentFacts
<1>5. /\ new \in Seq(S) /\ Len(new) = Between(h2, e, n)
      /\ \A i \in 1 .. Between(h2, e, n) : new[i] = buf[Slot(i, h2, n)]
  BY <1>1, ContentFacts
<1> HIDE DEF old, new, l
<1>6. ASSUME NEW i \in 1 .. l - 1 PROVE new[i] = old[i + 1]
  <2>1. i + 1 \in 1 .. l /\ i \in 1 .. Between(h2, e, n)
    BY <1>2
  <2>2. new[i] = buf[Slot(i, h2, n)]
    BY <1>5, <2>1
  <2>3. old[i + 1] = buf[Slot(i + 1, h, n)]
    BY <1>4, <2>1
  <2> QED BY <1>3, <2>2, <2>3
<1>7. old # <<>> /\ Tail(old) \in Seq(S) /\ Len(Tail(old)) = l - 1
  BY <1>2, <1>4
<1>8. \A i \in 1 .. l - 1 : Tail(old)[i] = new[i]
  BY <1>2, <1>4, <1>6
<1>9. new = Tail(old)
  BY <1>2, <1>5, <1>7, <1>8, SameSequence
<1> QED BY <1>1, <1>7, <1>9 DEF old, new

-----------------------------------------------------------------------------
\* Every step keeps the ring's indices within the ring, and is a push, a pop
\* or nothing to the FIFO queue.
LEMMA RingStep ==
  ASSUME RingOK, [Next]_vars
  PROVE  RingOK' /\ [Queue!Next]_Content
<1> DEFINE S == Msg \cup {Garbage}
<1>1. /\ IsRing(queue, head, tail, cap, S)
      /\ RingOK' <=> IsRing(queue', head', tail', cap', S)
      /\ Msg \subseteq S /\ Garbage \in S
  BY DEF RingOK
<1> HIDE DEF S
<1>2. ASSUME NEW m \in Msg, Push(m)
      PROVE  RingOK' /\ Content' = Append(Content, m)
  <2> DEFINE stored == Store(queue, tail, m)
  <2>1. CASE After(tail, cap) # head
    <3>1. cap' = cap /\ head' = head /\ tail' = After(tail, cap) /\ queue' = stored
      BY <1>2, <2>1 DEF Push
    <3>2. /\ IsRing(stored, head, After(tail, cap), cap, S)
          /\ Messages(stored, head, After(tail, cap), cap)
               = Append(Messages(queue, head, tail, cap), m)
      BY <1>1, <2>1, StoreLast
    <3> QED BY <1>1, <3>1, <3>2 DEF Content
  <2>2. CASE After(tail, cap) = head
    <3> DEFINE big == Expanded(stored, head, cap)
    <3>1. cap' = 2 * cap /\ head' = 0 /\ tail' = cap /\ queue' = big
      BY <1>2, <2>2 DEF Push
    <3>2. /\ IsRing(big, 0, cap, 2 * cap, S)
          /\ Messages(big, 0, cap, 2 * cap)
               = Append(Messages(queue, head, tail, cap), m)
      BY <1>1, <2>2, StoreExpanding
    <3> QED BY <1>1, <3>1, <3>2 DEF Content
  <2> QED BY <2>1, <2>2
<1>3. ASSUME Pop
      PROVE  RingOK' /\ Content # <<>> /\ Content' = Tail(Content)
  <2>1. /\ head # tail /\ head' = After(head, cap)
        /\ UNCHANGED <<cap, tail, queue>>
    BY <1>3 DEF Pop
  <2>2. /\ IsRing(queue, After(head, cap), tail, cap, S)
        /\ Messages(queue, head, tail, cap) # <<>>
        /\ Messages(queue, After(head, cap), tail, cap)
             = Tail(Messages(queue, head, tail, cap))
    BY <1>1, <2>1, TakeFirst
  <2> QED BY <1>1, <2>1, <2>2 DEF Content
<1>4. ASSUME UNCHANGED ring
      PROVE  RingOK' /\ Content' = Content
  BY <1>4 DEF ring, RingOK, Content
<1>5. ASSUME PopEmpty \/ ReadOverload \/ UNCHANGED vars
      PROVE  UNCHANGED ring
  BY <1>5 DEF PopEmpty, ReadOverload, vars
<1> QED BY <1>2, <1>3, <1>4, <1>5 DEF Next, Queue!Next, Queue!Push, Queue!Pop

\* skynet_mq_push and skynet_mq_pop implement an unbounded FIFO queue: the
\* buffer of SkynetDispatch's mq, for every initial size and every length.
THEOREM RingIsFifo == Spec => ImplementsFifo
<1>1. Init => RingOK
  BY SizeAssumption DEF Init, RingOK, IsRing
<1>2. RingOK /\ [Next]_vars => RingOK'
  BY RingStep
<1>3. Init => Queue!Init
  BY DEF Init, Queue!Init, Content, Messages, Between
<1>4. RingOK /\ [Next]_vars => [Queue!Next]_Content
  BY RingStep
<1> QED BY <1>1, <1>2, <1>3, <1>4, PTL DEF Spec, ImplementsFifo, Queue!Spec
-----------------------------------------------------------------------------
(***************************************************************************)
(* Numbers: induction over a set of them, and remainders.                  *)
(***************************************************************************)
LEMMA Least ==
  ASSUME NEW T \in SUBSET Nat, T # {}
  PROVE  \E x \in T : \A y \in T : x <= y
<1> DEFINE R == OpToRel(<, Nat)
<1>1. IsWellFoundedOn(R, Nat)
  BY NatLessThanWellFounded
<1>2. \A x, y \in Nat : x < y => <<x, y>> \in R
  BY DEF OpToRel
<1> HIDE DEF R
<1>3. PICK x \in T : \A y \in T : ~ (<<y, x>> \in R)
  BY <1>1, WFMin
<1>4. ASSUME NEW y \in T PROVE x <= y
  <2>1. x \in Nat /\ y \in Nat /\ ~ (<<y, x>> \in R)
    BY <1>3
  <2>2. ~ (y < x)
    BY <1>2, <2>1
  <2> QED BY <2>1, <2>2
<1> QED BY <1>4

LEMMA AllNumbers ==
  ASSUME NEW T, 0 \in T, \A n \in Nat : n \in T => n + 1 \in T
  PROVE  Nat \subseteq T
<1> SUFFICES ASSUME Nat \ T # {} PROVE FALSE
  OBVIOUS
<1>1. PICK x \in Nat \ T : \A y \in Nat \ T : x <= y
  BY Least
<1>2. x - 1 \in Nat /\ x - 1 \in T
  BY <1>1
<1> QED BY <1>1, <1>2

LEMMA Remainder ==
  ASSUME NEW n \in Nat \ {0}, NEW q \in Int, NEW r \in 0 .. n - 1
  PROVE  (n * q + r) % n = r
<1> DEFINE a == n * q + r
           k == a \div n
           s == a % n
<1>1. a \in Int /\ k \in Int /\ s \in 0 .. n - 1 /\ a = n * k + s
  OBVIOUS
<1> HIDE DEF k, s
<1>2. n * (q - k) = s - r
  BY <1>1
<1> HIDE DEF a
<1>3. q - k >= 1 => n * (q - k) >= n
  BY <1>1
<1>4. q - k <= -1 => n * (q - k) <= -n
  BY <1>1
<1>5. q = k
  BY <1>1, <1>2, <1>3, <1>4
<1>6. s = r
  BY <1>1, <1>2, <1>5
<1> QED BY <1>6 DEF a, s

LEMMA Division ==
  ASSUME NEW n \in Nat \ {0}, NEW a \in Nat
  PROVE  a % n \in 0 .. n - 1 /\ a \div n \in Nat /\ a = n * (a \div n) + (a % n)
OBVIOUS

\* A residue modulo the double is that modulo n, or n more.
LEMMA Doubling ==
  ASSUME NEW n \in Nat \ {0}, NEW m \in Nat \ {0}, m = 2 * n, NEW a \in Nat
  PROVE  /\ a % n \in 0 .. n - 1 /\ a % m \in 0 .. m - 1
         /\ a % m \in {a % n, (a % n) + n}
<1> DEFINE r == a % m
           q == a \div m
<1>1. a % n \in 0 .. n - 1
  OBVIOUS
<1>2. r \in 0 .. m - 1 /\ q \in Nat /\ a = m * q + r
  BY Division
<1> HIDE DEF r, q
<1>3. CASE r < n
  <2>1. a = n * (2 * q) + r /\ r \in 0 .. n - 1 /\ 2 * q \in Int
    BY <1>2, <1>3
  <2>2. a % n = r
    BY <2>1, Remainder
  <2> QED BY <1>1, <1>2, <2>2 DEF r
<1>4. CASE r >= n
  <2>1. a = n * (2 * q + 1) + (r - n) /\ r - n \in 0 .. n - 1 /\ 2 * q + 1 \in Int
    BY <1>2, <1>4
  <2>2. a % n = r - n
    BY <2>1, Remainder
  <2>3. r = (r - n) + n
    BY <1>2
  <2> QED BY <1>1, <1>2, <2>2, <2>3 DEF r
<1> QED BY <1>2, <1>3, <1>4

\* n numbers in sequence have all residues.
LEMMA AllResidues ==
  ASSUME NEW n \in Nat \ {0}, NEW a \in Nat, NEW s \in 0 .. n - 1
  PROVE  \E i \in 0 .. n - 1 : (a + i) % n = s
<1> DEFINE q == a \div n
           r == a % n
<1>1. q \in Int /\ r \in 0 .. n - 1 /\ a = n * q + r
  OBVIOUS
<1> HIDE DEF q, r
<1>2. CASE s >= r
  <2>1. a + (s - r) = n * q + s /\ s - r \in 0 .. n - 1
    BY <1>1, <1>2
  <2>2. (a + (s - r)) % n = s
    BY <1>1, <2>1, Remainder
  <2> QED BY <2>1, <2>2
<1>3. CASE s < r
  <2>1. a + (s - r + n) = n * (q + 1) + s /\ s - r + n \in 0 .. n - 1 /\ q + 1 \in Int
    BY <1>1, <1>3
  <2>2. (a + (s - r + n)) % n = s
    BY <2>1, Remainder
  <2> QED BY <2>1, <2>2
<1> QED BY <1>1, <1>2, <1>3
-----------------------------------------------------------------------------
(***************************************************************************)
(* The recursive functions of the model: a function over 0 .. n given by   *)
(* its value at 0 and each value from the one before exists.               *)
(***************************************************************************)
Recursive(f, first, step, n) ==
  \A k \in 0 .. n : f[k] = IF k = 0 THEN first ELSE step[k][f[k - 1]]

LEMMA Recursion ==
  ASSUME NEW S, NEW first \in S, NEW step \in [Nat -> [S -> S]], NEW n \in Nat
  PROVE  \E f \in [0 .. n -> S] : Recursive(f, first, step, n)
<1> DEFINE Good(f, m) == Recursive(f, first, step, m)
           T == {m \in Nat : \E f \in [0 .. m -> S] : Good(f, m)}
<1>1. 0 \in T
  <2>1. [k \in 0 .. 0 |-> first] \in [0 .. 0 -> S] /\ Good([k \in 0 .. 0 |-> first], 0)
    BY DEF Recursive
  <2> QED BY <2>1
<1>2. ASSUME NEW m \in Nat, m \in T PROVE m + 1 \in T
  <2>1. PICK f \in [0 .. m -> S] : Good(f, m)
    BY <1>2
  <2> DEFINE last == step[m + 1][f[m]]
             g == [k \in 0 .. m + 1 |-> IF k = m + 1 THEN last ELSE f[k]]
  <2>2. last \in S
    <3>1. f[m] \in S /\ m + 1 \in Nat /\ step[m + 1] \in [S -> S]
      OBVIOUS
    <3> QED BY <3>1
  <2>3. g \in [0 .. m + 1 -> S]
    <3> HIDE DEF last
    <3> QED BY <2>2
  <2>4. \A k \in 0 .. m : k \in 0 .. m + 1 /\ k # m + 1
    OBVIOUS
  <2>5. m + 1 \in 0 .. m + 1 /\ m \in 0 .. m
    OBVIOUS
  <2>6. \A k \in 0 .. m + 1 : g[k] = IF k = m + 1 THEN last ELSE f[k]
    <3> HIDE DEF last
    <3> QED OBVIOUS
  <2> HIDE DEF g
  <2>7. \A k \in 0 .. m : g[k] = f[k]
    BY <2>4, <2>6
  <2>8. g[m + 1] = last /\ g[m] = f[m]
    BY <2>5, <2>6, <2>7
  <2>9. ASSUME NEW k \in 0 .. m
         PROVE  g[k] = IF k = 0 THEN first ELSE step[k][g[k - 1]]
    <3>1. k # 0 => k - 1 \in 0 .. m
      OBVIOUS
    <3>2. f[k] = IF k = 0 THEN first ELSE step[k][f[k - 1]]
      BY <2>1 DEF Recursive
    <3> QED BY <2>7, <3>1, <3>2
  <2>10. Good(g, m + 1)
    <3>1. ASSUME NEW k \in 0 .. m + 1
          PROVE  g[k] = IF k = 0 THEN first ELSE step[k][g[k - 1]]
      <4>1. CASE k = m + 1
        <5>1. k # 0 /\ k - 1 = m
          BY <4>1
        <5> QED BY <2>8, <4>1, <5>1
      <4>2. CASE k # m + 1
        <5>1. k \in 0 .. m
          BY <4>2
        <5> QED BY <2>9, <5>1
      <4> QED BY <4>1, <4>2
    <3> QED BY <3>1 DEF Recursive
  <2>11. m + 1 \in Nat
    OBVIOUS
  <2> QED BY <2>3, <2>10, <2>11
<1>3. Nat \subseteq T
  <2> HIDE DEF T
  <2> QED BY <1>1, <1>2, AllNumbers
<1> QED BY <1>3

-----------------------------------------------------------------------------
(***************************************************************************)
(* The array of names.                                                     *)
(***************************************************************************)
\* The entries of the array are in the order of their names.
Sorted(s) == \A i, j \in 1 .. Len(s) : i < j => s[i].name < s[j].name

\* The first p names come before n, no other does.
Splits(s, n, p) ==
  /\ \A i \in 1 .. p : s[i].name < n
  /\ \A i \in p + 1 .. Len(s) : s[i].name >= n

LEMMA Insertion ==
  ASSUME NEW s \in Seq([name : Int, handle : Nat]), Sorted(s), NEW n \in Int
  PROVE  \E p \in 0 .. Len(s) : Splits(s, n, p)
<1> DEFINE T == {p \in 0 .. Len(s) : \A i \in p + 1 .. Len(s) : s[i].name >= n}
<1>1. T \in SUBSET Nat /\ Len(s) \in T
  OBVIOUS
<1>2. PICK p \in T : \A q \in T : p <= q
  BY <1>1, Least
<1>3. \A i \in 1 .. Len(s) : s[i].name \in Int
  <2>1. \A i \in 1 .. Len(s) : s[i] \in [name : Int, handle : Nat]
    BY ElementOfSeq
  <2> QED BY <2>1
<1>4. ASSUME NEW i \in 1 .. p PROVE s[i].name < n
  <2>1. p - 1 \in 0 .. Len(s) /\ ~ (p <= p - 1) /\ p \in 1 .. Len(s) /\ i \in 1 .. Len(s)
    OBVIOUS
  <2>2. PICK j \in (p - 1) + 1 .. Len(s) : ~ (s[j].name >= n)
    BY <1>2, <2>1
  <2>3. j = p
    <3>1. \A k \in p + 1 .. Len(s) : s[k].name >= n
      OBVIOUS
    <3>2. j \notin p + 1 .. Len(s)
      BY <2>2, <3>1
    <3> QED BY <2>1, <2>2, <3>2
  <2>4. s[p].name < n
    <3>1. s[p].name \in Int /\ ~ (s[p].name >= n)
      BY <1>3, <2>1, <2>2, <2>3
    <3> QED BY <3>1
  <2>5. i = p \/ s[i].name < s[p].name
    BY <2>1 DEF Sorted
  <2>6. s[i].name \in Int /\ s[p].name \in Int
    BY <1>3, <2>1
  <2>7. CASE i = p
    BY <2>4, <2>7
  <2>8. CASE s[i].name < s[p].name
    <3> DEFINE x == s[i].name
               y == s[p].name
    <3>1. x \in Int /\ y \in Int /\ x < y /\ y < n
      BY <2>4, <2>6, <2>8
    <3> HIDE DEF x, y
    <3>2. x < n
      BY <3>1
    <3> QED BY <3>2 DEF x
  <2> QED BY <2>5, <2>7, <2>8
<1> QED BY <1>2, <1>4 DEF Splits

\* Where the search of skynet_handle_findname and of _insert_name ends.
LEMMA SearchEnds ==
  ASSUME NEW n \in Name, names \in Seq([name : Int, handle : Nat]),
         NEW p \in 0 .. Len(names), Sorted(names), Splits(names, n, p)
  PROVE  Handles!Search(n) =
           [found |-> p + 1 \in 1 .. Len(names) /\ names[p + 1].name = n, at |-> p]
<1> DEFINE L == Len(names)
           range == 0 .. L
           lasts == -1 .. L - 1
           hit == p + 1 \in 1 .. L /\ names[p + 1].name = n
           mid(begin, last) == (begin + last) \div 2
           at(begin, last) == names[mid(begin, last) + 1].name
           step(f, window) ==
             LET begin == window[1]
                 last == window[2]
             IN IF begin > last THEN [found |-> FALSE, at |-> begin]
                ELSE IF at(begin, last) = n THEN [found |-> TRUE, at |-> mid(begin, last)]
                ELSE IF at(begin, last) < n THEN f[<<mid(begin, last) + 1, last>>]
                ELSE f[<<begin, mid(begin, last) - 1>>]
           end(begin, last) ==
             IF p < begin \/ begin > last THEN begin ELSE IF p > last + 1 THEN last + 1 ELSE p
           g == [window \in range \X lasts |->
                   [found |-> hit /\ window[1] <= p /\ p <= window[2],
                    at |-> end(window[1], window[2])]]
           search == CHOOSE f : f = [window \in range \X lasts |-> step(f, window)]
<1>1. Handles!Search(n) = search[<<0, L - 1>>]
  BY DEF Handles!Search
<1> HIDE DEF mid, at, step, search, g, end, hit
<1>2. /\ p \in Int /\ L \in Nat /\ p <= L
      /\ \A i \in 1 .. L : names[i].name \in Int
      /\ n \in Int
  <2>1. \A i \in 1 .. L : names[i] \in [name : Int, handle : Nat]
    BY ElementOfSeq
  <2> QED BY <2>1, HandleAssumption DEF HandleAssumption
<1>3. ASSUME NEW begin \in range, NEW last \in lasts, begin <= last
      PROVE  /\ mid(begin, last) \in begin .. last /\ mid(begin, last) \in 0 .. L - 1
             /\ at(begin, last) \in Int
             /\ at(begin, last) = n => p = mid(begin, last)
             /\ at(begin, last) < n => p >= mid(begin, last) + 1
             /\ ~ (at(begin, last) <= n) => p <= mid(begin, last)
  <2> DEFINE m == mid(begin, last)
  <2>1. m \in begin .. last
    BY <1>2, <1>3 DEF mid
  <2> HIDE DEF m
  <2>2. m \in 0 .. L - 1 /\ m + 1 \in 1 .. L
    BY <1>2, <2>1
  <2>3. m + 1 \in 1 .. p => names[m + 1].name < n
    BY DEF Splits
  <2>4. m + 1 \in p + 1 .. L => names[m + 1].name >= n
    BY DEF Splits
  <2>5. p + 1 \in 1 .. L => names[p + 1].name >= n
    BY <1>2 DEF Splits
  <2>6. p + 1 \in 1 .. L /\ p < m => names[p + 1].name < names[m + 1].name
    <3>1. p < m => p + 1 < m + 1
      BY <1>2, <2>2
    <3> QED BY <2>2, <3>1 DEF Sorted
  <2>7. names[m + 1].name = n => p = m
    <3>1. SUFFICES ASSUME names[m + 1].name = n, p # m PROVE FALSE
      OBVIOUS
    <3>2. ~ (m + 1 \in 1 .. p)
      BY <1>2, <2>2, <2>3, <3>1
    <3>3. p < m /\ p + 1 \in 1 .. L
      <4>1. p \in Nat /\ m \in Nat /\ p # m /\ L \in Nat /\ m + 1 <= L
        BY <1>2, <2>2, <3>1
      <4>2. ~ (m + 1 <= p)
        BY <3>2, <4>1
      <4> QED BY <4>1, <4>2
    <3>4. names[p + 1].name >= n /\ names[p + 1].name < names[m + 1].name
      BY <2>5, <2>6, <3>3
    <3> QED BY <1>2, <3>1, <3>3, <3>4
  <2>8. p >= m + 1 \/ p <= m
    BY <1>2, <2>2
  <2>9. names[m + 1].name \in Int /\ n \in Int /\ p \in Int /\ L \in Nat /\ m \in Nat
    BY <1>2, <2>2
  <2>10. names[m + 1].name < n => p >= m + 1
    <3>1. p <= m => m + 1 \in p + 1 .. L
      BY <2>2, <2>9
    <3> QED BY <2>4, <2>8, <2>9, <3>1
  <2>11. ~ (names[m + 1].name <= n) => p <= m
    <3>1. p >= m + 1 => m + 1 \in 1 .. p
      BY <2>2, <2>9
    <3> QED BY <2>3, <2>8, <2>9, <3>1
  <2> QED BY <2>1, <2>2, <2>7, <2>9, <2>10, <2>11 DEF at, m
<1>4. \A begin \in range, last \in lasts :
        g[<<begin, last>>] =
          [found |-> hit /\ begin <= p /\ p <= last, at |-> end(begin, last)]
  BY DEF g
<1>5. ASSUME NEW begin \in range, NEW last \in lasts
      PROVE  g[<<begin, last>>] = step(g, <<begin, last>>)
  <2> DEFINE m == mid(begin, last)
             a == at(begin, last)
  <2>1. step(g, <<begin, last>>) =
          IF begin > last THEN [found |-> FALSE, at |-> begin]
          ELSE IF a = n THEN [found |-> TRUE, at |-> m]
          ELSE IF a < n THEN g[<<m + 1, last>>]
          ELSE g[<<begin, m - 1>>]
    BY DEF step
  <2>2. CASE begin > last
    <3>1. ~ (hit /\ begin <= p /\ p <= last) /\ end(begin, last) = begin
      BY <1>2, <2>2 DEF end
    <3> QED BY <1>4, <2>1, <2>2, <3>1
  <2>3. CASE begin <= last
    <3>1. /\ m \in begin .. last /\ m \in 0 .. L - 1 /\ a \in Int
          /\ a = n => p = m
          /\ a < n => p >= m + 1
          /\ ~ (a <= n) => p <= m
          /\ m + 1 \in range /\ m - 1 \in lasts /\ ~ (begin > last)
      <4>1. /\ m \in begin .. last /\ m \in 0 .. L - 1 /\ a \in Int
            /\ a = n => p = m
            /\ a < n => p >= m + 1
            /\ ~ (a <= n) => p <= m
        BY <1>3, <2>3
      <4> HIDE DEF m, a
      <4> QED BY SMTT(30), <1>2, <2>3, <4>1
    <3>2. a = n <=> p = m /\ hit
      <4>1. p = m => (p + 1 \in 1 .. L /\ names[p + 1].name = a)
        BY <1>2, <3>1 DEF at
      <4> QED BY <3>1, <4>1 DEF hit
    <3> HIDE DEF m, a
    <3>3. CASE a = n
      <4>1. (hit /\ begin <= p /\ p <= last) /\ end(begin, last) = m
        BY <1>2, <2>3, <3>1, <3>2, <3>3 DEF end
      <4> QED BY <1>4, <2>1, <3>1, <3>3, <4>1
    <3>4. CASE a < n
      <4>1. (hit /\ begin <= p /\ p <= last) <=> (hit /\ m + 1 <= p /\ p <= last)
        BY <1>2, <2>3, <3>1, <3>4
      <4>2. end(begin, last) = end(m + 1, last)
        BY <1>2, <2>3, <3>1, <3>4 DEF end
      <4>3. g[<<begin, last>>] = g[<<m + 1, last>>]
        <5>1. g[<<begin, last>>] = [found |-> hit /\ begin <= p /\ p <= last, at |-> end(begin, last)]
          BY <1>4
        <5>2. g[<<m + 1, last>>] = [found |-> hit /\ m + 1 <= p /\ p <= last, at |-> end(m + 1, last)]
          BY <1>4, <3>1
        <5>3. (hit /\ begin <= p /\ p <= last) = (hit /\ m + 1 <= p /\ p <= last)
          BY <4>1
        <5> QED BY <4>2, <5>1, <5>2, <5>3, Zenon
      <4>4. a # n
        BY <1>2, <3>1, <3>4
      <4> QED BY <2>1, <3>1, <3>4, <4>3, <4>4
    <3>5. CASE ~ (a <= n)
      <4>0. a \in Int /\ n \in Int /\ p \in Int /\ m \in Int /\ last \in Int
        BY <1>2, <2>3, <3>1
      <4>1. a # n /\ ~ (a < n)
        BY <3>5, <4>0
      <4>2. (hit /\ begin <= p /\ p <= last) <=> (hit /\ begin <= p /\ p <= m - 1)
        <5>1. p <= m /\ m <= last /\ ~ (p = m /\ hit)
          BY <3>1, <3>2, <3>5, <4>0, <4>1
        <5> QED BY <4>0, <5>1
      <4>3. end(begin, last) = end(begin, m - 1)
        BY SMTT(30), <1>2, <2>3, <3>1, <3>5 DEF end
      <4>4. g[<<begin, last>>] = g[<<begin, m - 1>>]
        <5>1. g[<<begin, last>>] = [found |-> hit /\ begin <= p /\ p <= last, at |-> end(begin, last)]
          BY <1>4
        <5>2. g[<<begin, m - 1>>] = [found |-> hit /\ begin <= p /\ p <= m - 1, at |-> end(begin, m - 1)]
          BY <1>4, <3>1
        <5>3. (hit /\ begin <= p /\ p <= last) = (hit /\ begin <= p /\ p <= m - 1)
          BY <4>2
        <5> QED BY <4>3, <5>1, <5>2, <5>3, Zenon
      <4> QED BY <2>1, <3>1, <4>1, <4>4
    <3> QED BY <1>2, <3>1, <3>3, <3>4, <3>5
  <2> QED BY <1>2, <2>2, <2>3
<1>6. \A begin \in range, last \in lasts :
        search[<<begin, last>>] = step(search, <<begin, last>>)
  <2>1. g = [window \in range \X lasts |-> step(g, window)]
    <3>1. ASSUME NEW window \in range \X lasts PROVE g[window] = step(g, window)
      <4>1. PICK begin \in range, last \in lasts : window = <<begin, last>>
        OBVIOUS
      <4> QED BY <1>5, <4>1
    <3>2. g = [window \in range \X lasts |-> g[window]]
      BY DEF g
    <3> QED BY <3>1, <3>2
  <2>2. search = [window \in range \X lasts |-> step(search, window)]
    BY <2>1, Zenon DEF search
  <2>3. \A window \in range \X lasts : search[window] = step(search, window)
    BY <2>2
  <2>4. \A begin \in range, last \in lasts : <<begin, last>> \in range \X lasts
    OBVIOUS
  <2> QED BY <2>3, <2>4
<1> DEFINE T == {k \in Nat : \A begin \in range, last \in lasts :
                   last - begin + 1 <= k => search[<<begin, last>>] = g[<<begin, last>>]}
<1>7. 0 \in T
  <2>1. ASSUME NEW begin \in range, NEW last \in lasts, last - begin + 1 <= 0
        PROVE  search[<<begin, last>>] = g[<<begin, last>>]
    <3>1. begin > last
      BY <1>2, <2>1
    <3>2. \A f : step(f, <<begin, last>>) = [found |-> FALSE, at |-> begin]
      BY <3>1 DEF step
    <3> QED BY <1>5, <1>6, <3>2
  <2> QED BY <2>1
<1>8. ASSUME NEW k \in Nat, k \in T PROVE k + 1 \in T
  <2>1. ASSUME NEW begin \in range, NEW last \in lasts, last - begin + 1 <= k + 1
        PROVE  step(search, <<begin, last>>) = step(g, <<begin, last>>)
    <3>1. CASE begin > last
      BY <3>1 DEF step
    <3>2. CASE begin <= last
      <4> DEFINE m == mid(begin, last)
      <4>1. /\ m \in begin .. last /\ m + 1 \in range /\ m - 1 \in lasts
            /\ last - (m + 1) + 1 <= k /\ (m - 1) - begin + 1 <= k
        <5>1. m \in begin .. last /\ m \in 0 .. L - 1
          BY <1>3, <3>2
        <5> HIDE DEF m
        <5> QED BY <1>2, <2>1, <5>1
      <4> HIDE DEF m
      <4>2. /\ search[<<m + 1, last>>] = g[<<m + 1, last>>]
            /\ search[<<begin, m - 1>>] = g[<<begin, m - 1>>]
        BY <1>8, <4>1
      <4> QED BY <4>2 DEF step, m
    <3> QED BY <1>2, <3>1, <3>2
  <2>2. ASSUME NEW begin \in range, NEW last \in lasts, last - begin + 1 <= k + 1
        PROVE  search[<<begin, last>>] = g[<<begin, last>>]
    BY <1>5, <1>6, <2>1, <2>2
  <2>3. k + 1 \in Nat
    OBVIOUS
  <2> QED BY <2>2, <2>3
<1>9. Nat \subseteq T
  <2> HIDE DEF T
  <2> QED BY <1>7, <1>8, AllNumbers
<1>10. search[<<0, L - 1>>] = g[<<0, L - 1>>]
  <2>1. L \in T
    <3> HIDE DEF T
    <3> QED BY <1>2, <1>9
  <2>2. 0 \in range /\ L - 1 \in lasts /\ (L - 1) - 0 + 1 <= L
    BY <1>2
  <2> QED BY <2>1, <2>2
<1>11. g[<<0, L - 1>>] = [found |-> hit, at |-> p]
  <2>1. 0 \in range /\ L - 1 \in lasts
    BY <1>2
  <2>2. hit \in BOOLEAN /\ ((hit /\ 0 <= p /\ p <= L - 1) <=> hit)
    BY <1>2 DEF hit
  <2>3. end(0, L - 1) = p
    BY <1>2 DEF end
  <2> QED BY <1>4, <2>1, <2>2, <2>3
<1> QED BY <1>1, <1>10, <1>11 DEF hit
\* The array of names as every operation leaves it.
NamesKept(s) == s \in Seq(Handles!Entry) /\ Sorted(s)

LEMMA NamesKeptFacts ==
  ASSUME NEW s, NamesKept(s)
  PROVE  /\ s \in Seq([name : Int, handle : Nat])
         /\ Len(s) \in Nat
         /\ \A i \in 1 .. Len(s) :
              /\ s[i] \in Handles!Entry
              /\ s[i].name \in Name /\ s[i].name \in Int
              /\ s[i].handle \in 1 .. HandleMask
         /\ \A i, j \in 1 .. Len(s) : s[i].name = s[j].name => i = j
<1>1. s \in Seq(Handles!Entry)
  BY DEF NamesKept
<1>2. \A i \in 1 .. Len(s) : s[i] \in Handles!Entry
  BY <1>1, ElementOfSeq
<1>3. Name \subseteq Int /\ HandleMask \in Nat
  BY HandleAssumption DEF HandleAssumption
<1>4. ASSUME NEW e \in Handles!Entry
      PROVE  /\ e.name \in Name /\ e.name \in Int
             /\ e.handle \in 1 .. HandleMask
             /\ e \in [name : Int, handle : Nat]
  <2>1. /\ e = [name |-> e.name, handle |-> e.handle]
        /\ e.name \in Name /\ e.handle \in 1 .. HandleMask
    BY DEF Handles!Entry
  <2>2. e.name \in Int
    BY <1>3, <2>1
  <2>3. e.handle \in Nat
    BY <1>3, <2>1
  <2> QED BY <2>1, <2>2, <2>3
<1>5. Len(s) \in Nat
  BY <1>1
<1>6. s \in Seq([name : Int, handle : Nat])
  <2>1. Handles!Entry \subseteq [name : Int, handle : Nat]
    BY <1>4
  <2> QED BY <1>1, <2>1, SeqMonotonic
<1>7. ASSUME NEW i \in 1 .. Len(s), NEW j \in 1 .. Len(s), s[i].name = s[j].name
      PROVE  i = j
  <2>1. i \in Int /\ j \in Int
    OBVIOUS
  <2>2. i < j => s[i].name < s[j].name
    BY DEF NamesKept, Sorted
  <2>3. j < i => s[j].name < s[i].name
    BY DEF NamesKept, Sorted
  <2> QED BY <1>2, <1>4, <1>7, <2>1, <2>2, <2>3
<1> QED BY <1>2, <1>4, <1>5, <1>6, <1>7

\* The handle that a sorted array has for a name.
BoundTo(s, n) ==
  IF \E i \in 1 .. Len(s) : s[i].name = n
  THEN s[CHOOSE i \in 1 .. Len(s) : s[i].name = n].handle
  ELSE 0

LEMMA BoundToFacts ==
  ASSUME NEW s, NamesKept(s), NEW n \in Name
  PROVE  /\ \A i \in 1 .. Len(s) : s[i].name = n => BoundTo(s, n) = s[i].handle
         /\ (\A i \in 1 .. Len(s) : s[i].name # n) => BoundTo(s, n) = 0
         /\ BoundTo(s, n) # 0 =>
              \E i \in 1 .. Len(s) : s[i].name = n /\ BoundTo(s, n) = s[i].handle
<1>1. ASSUME NEW i \in 1 .. Len(s), s[i].name = n PROVE BoundTo(s, n) = s[i].handle
  <2> DEFINE j == CHOOSE j \in 1 .. Len(s) : s[j].name = n
  <2>1. j \in 1 .. Len(s) /\ s[j].name = n
    BY <1>1
  <2>2. j = i
    BY <1>1, <2>1, NamesKeptFacts
  <2> QED BY <1>1, <2>1, <2>2 DEF BoundTo
<1>2. (\A i \in 1 .. Len(s) : s[i].name # n) => BoundTo(s, n) = 0
  BY DEF BoundTo
<1> QED BY <1>1, <1>2

\* skynet_handle_findname finds the handle of the name.
LEMMA FindNameFinds ==
  NamesKept(names) =>
    \A n \in Name :
      /\ Handles!FindName(n) = BoundTo(names, n)
      /\ Handles!Search(n).found <=> \E i \in 1 .. Len(names) : names[i].name = n
      /\ \E p \in 0 .. Len(names) : Splits(names, n, p) /\ Handles!Search(n).at = p
<1> SUFFICES ASSUME NamesKept(names), NEW n \in Name
             PROVE  /\ Handles!FindName(n) = BoundTo(names, n)
                    /\ Handles!Search(n).found <=> \E i \in 1 .. Len(names) : names[i].name = n
                    /\ \E p \in 0 .. Len(names) :
                         Splits(names, n, p) /\ Handles!Search(n).at = p
  OBVIOUS
<1>1. /\ names \in Seq([name : Int, handle : Nat]) /\ Sorted(names) /\ n \in Int
      /\ \A i \in 1 .. Len(names) : names[i].name \in Int
      /\ Len(names) \in Nat
  BY NamesKeptFacts, HandleAssumption DEF HandleAssumption, NamesKept
<1>2. PICK p \in 0 .. Len(names) : Splits(names, n, p)
  BY <1>1, Insertion
<1> DEFINE hit == p + 1 \in 1 .. Len(names) /\ names[p + 1].name = n
<1>3. Handles!Search(n).at = p /\ (Handles!Search(n).found <=> hit)
  <2>1. Handles!Search(n) = [found |-> hit, at |-> p]
    BY <1>1, <1>2, SearchEnds
  <2>2. hit \in BOOLEAN
    OBVIOUS
  <2> HIDE DEF hit
  <2> QED BY <2>1, <2>2
<1>4. ASSUME NEW i \in 1 .. Len(names), names[i].name = n
      PROVE  p + 1 \in 1 .. Len(names) /\ names[p + 1].name = n
  <2>1. ~ (i \in 1 .. p) /\ i \in p + 1 .. Len(names)
    BY <1>1, <1>2, <1>4 DEF Splits
  <2>2. p + 1 \in 1 .. Len(names) /\ p + 1 \in p + 1 .. Len(names)
    BY <1>1, <2>1
  <2>3. names[p + 1].name >= n
    BY <1>2, <2>2 DEF Splits
  <2>4. p + 1 < i => names[p + 1].name < n
    BY <1>1, <1>4, <2>2 DEF Sorted
  <2>5. i = p + 1
    BY <1>1, <2>1, <2>2, <2>3, <2>4
  <2> QED BY <1>4, <2>2, <2>5
<1>5. Handles!Search(n).found <=> \E i \in 1 .. Len(names) : names[i].name = n
  BY <1>3, <1>4
<1>6. Handles!Search(n).at = p
  BY <1>3
<1>7. Handles!FindName(n) = BoundTo(names, n)
  <2>1. CASE Handles!Search(n).found
    <3>1. p + 1 \in 1 .. Len(names) /\ names[p + 1].name = n
      BY <1>3, <2>1
    <3>2. BoundTo(names, n) = names[p + 1].handle
      BY <3>1, BoundToFacts
    <3> QED BY <1>6, <2>1, <3>2 DEF Handles!FindName
  <2>2. CASE ~ Handles!Search(n).found
    BY <1>5, <2>2, BoundToFacts DEF Handles!FindName
  <2> QED BY <2>1, <2>2
<1> QED BY <1>2, <1>5, <1>6, <1>7

\* skynet_handle_retire takes the names of a handle from the array, and no
\* others.
LEMMA Forgotten ==
  ASSUME NamesKept(names), NEW h \in 1 .. HandleMask
  PROVE  /\ NamesKept(Handles!Forget(h))
         /\ \A n \in Name : BoundTo(Handles!Forget(h), n) =
              IF BoundTo(names, n) = h THEN 0 ELSE BoundTo(names, n)
<1> DEFINE L == Len(names)
           S == Seq(Handles!Entry)
           equation(f) ==
             [i \in 0 .. L |->
                IF i = 0 THEN <<>>
                ELSE IF names[i].handle = h THEN f[i - 1] ELSE Append(f[i - 1], names[i])]
           kept == CHOOSE f : f = equation(f)
<1>1. Handles!Forget(h) = kept[L]
  BY DEF Handles!Forget
<1>2. /\ L \in Nat
      /\ \A i \in 1 .. L : names[i] \in Handles!Entry /\ names[i].name \in Int
      /\ Sorted(names)
  BY NamesKeptFacts DEF NamesKept
<1> HIDE DEF kept, equation
<1>3. kept = equation(kept)
  <2> DEFINE step == [k \in Nat |-> [s \in S |->
                        IF k \in 1 .. L /\ names[k].handle # h
                        THEN Append(s, names[k]) ELSE s]]
  <2>1. step \in [Nat -> [S -> S]]
    <3>1. ASSUME NEW k \in Nat, NEW s \in S
          PROVE  (IF k \in 1 .. L /\ names[k].handle # h
                  THEN Append(s, names[k]) ELSE s) \in S
      BY <1>2
    <3> QED BY <3>1
  <2>2. <<>> \in S
    OBVIOUS
  <2>3. \A k \in Nat, s \in S : step[k][s] =
          IF k \in 1 .. L /\ names[k].handle # h THEN Append(s, names[k]) ELSE s
    OBVIOUS
  <2> HIDE DEF step
  <2>4. PICK f \in [0 .. L -> S] :
          \A k \in 0 .. L : f[k] = IF k = 0 THEN <<>> ELSE step[k][f[k - 1]]
    <3> DEFINE first == <<>>
    <3>1. L \in Nat /\ first \in S
      BY <1>2
    <3> HIDE DEF S, L, first
    <3>2. \E f \in [0 .. L -> S] : Recursive(f, first, step, L)
      BY <2>1, <3>1, Recursion
    <3> QED BY <3>2 DEF first, Recursive
  <2>5. ASSUME NEW k \in 0 .. L, k # 0
        PROVE  f[k] = IF names[k].handle = h THEN f[k - 1] ELSE Append(f[k - 1], names[k])
    <3>1. k \in Nat /\ k \in 1 .. L /\ f[k - 1] \in S
      BY <1>2, <2>5
    <3> QED BY <2>3, <2>4, <2>5, <3>1
  <2>6. f = equation(f)
    BY <2>4, <2>5 DEF equation
  <2> QED BY <2>6, Zenon DEF kept
<1>4. \A k \in 0 .. L : kept[k] =
        IF k = 0 THEN <<>>
        ELSE IF names[k].handle = h THEN kept[k - 1] ELSE Append(kept[k - 1], names[k])
  BY <1>3 DEF equation
\* What is kept of the first k names.
<1> DEFINE good(s, k) ==
             /\ s \in S /\ Sorted(s)
             /\ \A i \in 1 .. Len(s) :
                  \E j \in 1 .. k : s[i] = names[j] /\ names[j].handle # h
             /\ \A j \in 1 .. k : names[j].handle # h => \E i \in 1 .. Len(s) : s[i] = names[j]
           T == {k \in Nat : k <= L => good(kept[k], k)}
<1> HIDE DEF good
<1>5. 0 \in T
  <2>1. kept[0] = <<>>
    BY <1>2, <1>4
  <2>2. good(<<>>, 0)
    BY DEF Sorted, good
  <2> QED BY <2>1, <2>2
<1>6. ASSUME NEW k \in Nat, k \in T PROVE k + 1 \in T
  <2>1. SUFFICES ASSUME k + 1 <= L PROVE good(kept[k + 1], k + 1)
    OBVIOUS
  <2>2. k \in 0 .. L /\ k + 1 \in 1 .. L /\ k + 1 # 0 /\ (k + 1) - 1 = k
    BY <1>2, <2>1
  <2> DEFINE s == kept[k]
             e == names[k + 1]
  <2>3. good(s, k)
    BY <1>2, <1>6, <2>1
  <2>4. kept[k + 1] = IF e.handle = h THEN s ELSE Append(s, e)
    BY <1>4, <2>2
  <2>5. \A j \in 1 .. k + 1 : j \in 1 .. k \/ j = k + 1
    OBVIOUS
  <2>6. \A j \in 1 .. k : j \in 1 .. k + 1 /\ j \in 1 .. L /\ j < k + 1
    BY <1>2, <2>2
  <2> HIDE DEF s
  <2>7. CASE e.handle = h
    <3>1. good(s, k + 1)
      BY <2>3, <2>5, <2>6, <2>7 DEF good
    <3> QED BY <2>4, <2>7, <3>1
  <2>8. CASE e.handle # h
    <3> DEFINE r == Append(s, e)
    <3>1. /\ s \in S /\ e \in Handles!Entry /\ Len(s) \in Nat
          /\ r \in S /\ Len(r) = Len(s) + 1 /\ r[Len(s) + 1] = e
          /\ \A i \in 1 .. Len(s) : r[i] = s[i]
      BY <1>2, <2>2, <2>3 DEF good
    <3> HIDE DEF r
    <3>2. \A i \in 1 .. Len(r) : i \in 1 .. Len(s) \/ i = Len(s) + 1
      BY <3>1
    <3>3. \A i \in 1 .. Len(s) : i \in 1 .. Len(r) /\ i < Len(s) + 1 /\ ~ (Len(s) + 1 < i)
      BY <3>1
    <3>4. ASSUME NEW i \in 1 .. Len(s) PROVE s[i].name < e.name
      <4>1. PICK j \in 1 .. k : s[i] = names[j]
        BY <2>3 DEF good
      <4>2. names[j].name < names[k + 1].name
        BY <1>2, <2>2, <2>6 DEF Sorted
      <4> QED BY <4>1, <4>2
    <3>5. ASSUME NEW i \in 1 .. Len(r), NEW j \in 1 .. Len(r), i < j
          PROVE  r[i].name < r[j].name
      <4>1. CASE j = Len(s) + 1
        <5>1. i \in 1 .. Len(s)
          BY <3>1, <3>5, <4>1
        <5> QED BY <3>1, <3>4, <4>1, <5>1
      <4>2. CASE j # Len(s) + 1
        <5>1. i \in 1 .. Len(s) /\ j \in 1 .. Len(s)
          BY <3>1, <3>5, <4>2
        <5>2. Sorted(s)
          BY <2>3 DEF good
        <5> QED BY <3>1, <3>5, <5>1, <5>2 DEF Sorted
      <4> QED BY <4>1, <4>2
    <3>6. ASSUME NEW i \in 1 .. Len(r)
          PROVE  \E j \in 1 .. k + 1 : r[i] = names[j] /\ names[j].handle # h
      <4>1. CASE i \in 1 .. Len(s)
        BY <2>3, <2>6, <3>1, <4>1 DEF good
      <4>2. CASE i = Len(s) + 1
        <5>1. k + 1 \in 1 .. k + 1
          OBVIOUS
        <5> QED BY <2>8, <3>1, <4>2, <5>1
      <4> QED BY <3>2, <4>1, <4>2
    <3>7. ASSUME NEW j \in 1 .. k + 1, names[j].handle # h
          PROVE  \E i \in 1 .. Len(r) : r[i] = names[j]
      <4>1. CASE j \in 1 .. k
        <5>1. PICK i \in 1 .. Len(s) : s[i] = names[j]
          BY <2>3, <3>7, <4>1 DEF good
        <5> QED BY <3>1, <3>3, <5>1
      <4>2. CASE j = k + 1
        <5>1. Len(s) + 1 \in 1 .. Len(r)
          BY <3>1
        <5> QED BY <3>1, <4>2, <5>1
      <4> QED BY <2>5, <4>1, <4>2
    <3>8. good(r, k + 1)
      BY <3>1, <3>5, <3>6, <3>7 DEF good, Sorted
    <3> QED BY <2>4, <2>8, <3>8 DEF r
  <2> QED BY <2>7, <2>8
<1>7. Nat \subseteq T
  <2> HIDE DEF T
  <2> QED BY <1>5, <1>6, AllNumbers
<1> DEFINE r == kept[L]
<1>8. good(r, L)
  <2>1. L \in T
    <3> HIDE DEF T
    <3> QED BY <1>2, <1>7
  <2>2. L <= L
    BY <1>2
  <2> QED BY <2>1, <2>2
<1> HIDE DEF r
<1>9. NamesKept(r)
  BY <1>8 DEF good, NamesKept
<1>10. ASSUME NEW n \in Name
       PROVE  BoundTo(r, n) = IF BoundTo(names, n) = h THEN 0 ELSE BoundTo(names, n)
  <2>1. CASE \E j \in 1 .. L : names[j].name = n /\ names[j].handle # h
    <3>1. PICK j \in 1 .. L : names[j].name = n /\ names[j].handle # h
      BY <2>1
    <3>2. PICK i \in 1 .. Len(r) : r[i] = names[j]
      BY <1>8, <3>1 DEF good
    <3>3. BoundTo(names, n) = names[j].handle
      BY <3>1, BoundToFacts
    <3>4. BoundTo(r, n) = r[i].handle
      BY <1>9, <3>1, <3>2, BoundToFacts
    <3> QED BY <3>1, <3>2, <3>3, <3>4
  <2>2. CASE \A j \in 1 .. L : names[j].name = n => names[j].handle = h
    <3>1. ASSUME NEW i \in 1 .. Len(r) PROVE r[i].name # n
      <4>1. PICK j \in 1 .. L : r[i] = names[j] /\ names[j].handle # h
        BY <1>8 DEF good
      <4> QED BY <2>2, <4>1
    <3>2. BoundTo(r, n) = 0
      BY <1>9, <3>1, BoundToFacts
    <3>3. BoundTo(names, n) \in {0, h}
      <4>1. BoundTo(names, n) # 0 =>
              \E j \in 1 .. L : names[j].name = n /\ BoundTo(names, n) = names[j].handle
        BY BoundToFacts
      <4> QED BY <2>2, <4>1
    <3> QED BY <3>2, <3>3
  <2> QED BY <2>1, <2>2
<1> QED BY <1>1, <1>9, <1>10 DEF r

\* _insert_name puts a new name where it belongs.
LEMMA Inserted ==
  ASSUME NamesKept(names), NEW n \in Name, NEW h \in 1 .. HandleMask,
         ~ Handles!Search(n).found
  PROVE  /\ NamesKept(Handles!InsertName(n, h))
         /\ BoundTo(names, n) = 0
         /\ \A m \in Name : BoundTo(Handles!InsertName(n, h), m) =
              IF m = n THEN h ELSE BoundTo(names, m)
<1> DEFINE e == [name |-> n, handle |-> h]
           L == Len(names)
<1>1. PICK p \in 0 .. L : Splits(names, n, p) /\ Handles!Search(n).at = p
  BY FindNameFinds
<1>2. \A i \in 1 .. L : names[i].name # n
  BY FindNameFinds
<1> DEFINE r == SubSeq(names, 1, (p + 1) - 1) \o <<e>> \o SubSeq(names, p + 1, L)
<1>3. Handles!InsertName(n, h) = r
  BY <1>1 DEF Handles!InsertName, Handles!InsertAt
<1>4. /\ names \in Seq(Handles!Entry) /\ Sorted(names) /\ L \in Nat /\ n \in Int
      /\ \A i \in 1 .. L : names[i].name \in Int
  BY NamesKeptFacts, HandleAssumption DEF NamesKept, HandleAssumption
<1>5. e \in Handles!Entry /\ e.name = n /\ e.handle = h
  BY DEF Handles!Entry
<1> HIDE DEF e
<1>6. /\ r \in Seq(Handles!Entry) /\ Len(r) = L + 1
      /\ \A i \in 1 .. p : r[i] = names[i]
      /\ r[p + 1] = e
      /\ \A i \in p + 2 .. L + 1 : r[i] = names[i - 1]
  <2> DEFINE a == SubSeq(names, 1, (p + 1) - 1)
             b == SubSeq(names, p + 1, L)
  <2>1. a \in Seq(Handles!Entry) /\ Len(a) = p /\ \A i \in 1 .. p : a[i] = names[i]
    BY <1>4
  <2>2. /\ b \in Seq(Handles!Entry) /\ Len(b) = L - p
        /\ \A i \in 1 .. L - p : b[i] = names[p + i]
    BY <1>4
  <2>3. <<e>> \in Seq(Handles!Entry) /\ Len(<<e>>) = 1 /\ <<e>>[1] = e
    BY <1>5
  <2> HIDE DEF a, b
  <2> DEFINE c == a \o <<e>>
  <2>4. /\ c \in Seq(Handles!Entry) /\ Len(c) = p + 1
        /\ \A i \in 1 .. p : c[i] = names[i]
        /\ c[p + 1] = e
    BY <2>1, <2>3
  <2> HIDE DEF c
  <2>5. c \o b \in Seq(Handles!Entry) /\ Len(c \o b) = L + 1
    BY <1>4, <2>2, <2>4
  <2>6. \A i \in 1 .. p + 1 : (c \o b)[i] = c[i]
    BY <1>4, <2>2, <2>4
  <2>7. ASSUME NEW i \in p + 2 .. L + 1 PROVE (c \o b)[i] = names[i - 1]
    <3>1. /\ i \in 1 .. Len(c) + Len(b) /\ ~ (i <= Len(c)) /\ i - Len(c) \in 1 .. L - p
          /\ p + (i - Len(c)) = i - 1
      BY SMTT(30), <1>4, <2>2, <2>4
    <3>2. \A k \in 1 .. Len(c) + Len(b) :
            (c \o b)[k] = IF k <= Len(c) THEN c[k] ELSE b[k - Len(c)]
      BY <2>2, <2>4, ConcatProperties
    <3>3. (c \o b)[i] = b[i - Len(c)]
      BY <3>1, <3>2
    <3> QED BY <2>2, <3>1, <3>3
  <2>8. p + 1 \in 1 .. p + 1 /\ \A i \in 1 .. p : i \in 1 .. p + 1
    OBVIOUS
  <2> QED BY <2>4, <2>5, <2>6, <2>7, <2>8 DEF a, b, c
<1> HIDE DEF r
\* Where an entry of r comes from, and where one of names goes.
<1>7. \A i \in 1 .. L + 1 : i \in 1 .. p \/ i = p + 1 \/ i \in p + 2 .. L + 1
  BY <1>4
<1>8. ASSUME NEW i \in 1 .. L PROVE \E j \in 1 .. L + 1 : r[j] = names[i]
  <2>1. CASE i \in 1 .. p
    BY <1>4, <1>6, <2>1
  <2>2. CASE ~ (i \in 1 .. p)
    <3>1. i + 1 \in p + 2 .. L + 1 /\ (i + 1) - 1 = i /\ i + 1 \in 1 .. L + 1
      BY <1>4, <2>2
    <3> QED BY <1>6, <3>1
  <2> QED BY <2>1, <2>2
<1>9. ASSUME NEW i \in 1 .. L + 1, NEW j \in 1 .. L + 1, i < j
      PROVE  r[i].name < r[j].name
  <2>1. CASE i \in 1 .. p /\ j \in 1 .. p
    <3>1. i \in 1 .. L /\ j \in 1 .. L
      BY <1>4, <2>1
    <3> QED BY <1>4, <1>6, <1>9, <2>1, <3>1 DEF Sorted
  <2>2. CASE i \in 1 .. p /\ j = p + 1
    BY <1>1, <1>5, <1>6, <2>2 DEF Splits
  <2>3. CASE i \in 1 .. p /\ j \in p + 2 .. L + 1
    <3>1. i \in 1 .. L /\ j - 1 \in 1 .. L /\ i < j - 1
      BY <1>4, <2>3
    <3> QED BY <1>4, <1>6, <2>3, <3>1 DEF Sorted
  <2>4. CASE i = p + 1 /\ j \in p + 2 .. L + 1
    <3>1. j - 1 \in 1 .. L /\ j - 1 \in p + 1 .. L
      BY <1>4, <2>4
    <3>2. names[j - 1].name >= n /\ names[j - 1].name # n
      BY <1>1, <1>2, <3>1 DEF Splits
    <3>3. n < names[j - 1].name
      BY <1>4, <3>1, <3>2
    <3> QED BY <1>5, <1>6, <2>4, <3>3
  <2>5. CASE i \in p + 2 .. L + 1 /\ j \in p + 2 .. L + 1
    <3>1. i - 1 \in 1 .. L /\ j - 1 \in 1 .. L /\ i - 1 < j - 1
      BY <1>4, <1>9, <2>5
    <3> QED BY <1>4, <1>6, <2>5, <3>1 DEF Sorted
  <2>6. ~ (i = p + 1 /\ j \in 1 .. p) /\ ~ (i = p + 1 /\ j = p + 1)
        /\ ~ (i \in p + 2 .. L + 1 /\ j \in 1 .. p) /\ ~ (i \in p + 2 .. L + 1 /\ j = p + 1)
    BY <1>4, <1>9
  <2> QED BY <1>7, <2>1, <2>2, <2>3, <2>4, <2>5, <2>6
<1>10. NamesKept(r)
  BY <1>6, <1>9 DEF NamesKept, Sorted
<1>11. BoundTo(names, n) = 0
  BY <1>2, BoundToFacts
<1>12. BoundTo(r, n) = h
  <2>1. p + 1 \in 1 .. Len(r) /\ r[p + 1].name = n /\ r[p + 1].handle = h
    BY <1>4, <1>5, <1>6
  <2> QED BY <1>10, <2>1, BoundToFacts
<1>13. ASSUME NEW m \in Name, m # n PROVE BoundTo(r, m) = BoundTo(names, m)
  <2>1. CASE \E i \in 1 .. L : names[i].name = m
    <3>1. PICK i \in 1 .. L : names[i].name = m
      BY <2>1
    <3>2. PICK j \in 1 .. L + 1 : r[j] = names[i]
      BY <1>8
    <3>3. BoundTo(names, m) = names[i].handle
      BY <3>1, BoundToFacts
    <3>4. BoundTo(r, m) = r[j].handle
      <4>1. j \in 1 .. Len(r) /\ r[j].name = m
        BY <1>6, <3>1, <3>2
      <4> QED BY <1>10, <4>1, BoundToFacts
    <3> QED BY <3>2, <3>3, <3>4
  <2>2. CASE \A i \in 1 .. L : names[i].name # m
    <3>1. ASSUME NEW j \in 1 .. Len(r) PROVE r[j].name # m
      <4>1. CASE j \in 1 .. p
        <5>1. r[j] = names[j]
          BY <1>6, <4>1
        <5>2. j \in 1 .. L
          BY <1>4, <4>1
        <5> QED BY <2>2, <5>1, <5>2
      <4>2. CASE j = p + 1
        BY <1>5, <1>6, <1>13, <4>2
      <4>3. CASE j \in p + 2 .. L + 1
        <5>1. j - 1 \in 1 .. L
          BY <1>4, <4>3
        <5> QED BY <1>6, <2>2, <4>3, <5>1
      <4> QED BY <1>6, <1>7, <4>1, <4>2, <4>3
    <3>2. BoundTo(r, m) = 0
      BY <1>10, <3>1, BoundToFacts
    <3>3. BoundTo(names, m) = 0
      BY <2>2, BoundToFacts
    <3> QED BY <3>2, <3>3
  <2> QED BY <2>1, <2>2
<1> QED BY <1>3, <1>10, <1>11, <1>12, <1>13

-----------------------------------------------------------------------------
(***************************************************************************)
(* The handle storage, with one thread in skynet_context_new at a time.    *)
(***************************************************************************)
\* The handle a context has, or is about to be given.
AddressOf(c) == IF handle[c] # 0 THEN handle[c] ELSE given[c]

\* In the table tab of n slots, every context with a handle is in the slot
\* of that handle, and nothing else is in the table.
Housed(tab, n) ==
  /\ \A i \in 0 .. n - 1 : tab[i] # Null =>
       AddressOf(tab[i]) # 0 /\ AddressOf(tab[i]) % n = i
  /\ \A c \in Context : AddressOf(c) # 0 => tab[AddressOf(c) % n] = c

\* At most one context is between its registration and its handle.
OneGiven ==
  /\ \A c \in Context : handle[c] = 0 \/ given[c] = 0
  /\ \A c, d \in Context : given[c] # 0 /\ given[d] # 0 => c = d

\* What a pass of skynet_handle_retireall has still to retire lies ahead of
\* it; in the slot it is at, only the service whose handle it read.
PassAhead ==
  /\ \A c \in doomed : handle[c] # 0 /\ handle[c] % slotSize >= scan
  /\ victim # 0 =>
       /\ scan \in 0 .. slotSize - 1
       /\ \A c \in doomed : handle[c] % slotSize = scan => handle[c] = victim

StorageInv ==
  /\ Handles!TypeOK
  /\ Housed(slot, slotSize)
  /\ OneGiven
  /\ Sorted(names)
  /\ PassAhead
  /\ Handles!FailsOnlyWrapping
  /\ Handles!NewSlotsDistinct

\* The provers know the powers of given numbers only.
LEMMA NextPower ==
  ASSUME NEW k \in 1 .. 24
  PROVE  2 ^ k \in Nat /\ 2 ^ k >= 2 /\ (k < 24 => 2 * 2 ^ k = 2 ^ (k + 1))
<1>1. \/ k = 1 \/ k = 2 \/ k = 3 \/ k = 4 \/ k = 5 \/ k = 6 \/ k = 7 \/ k = 8
      \/ k = 9 \/ k = 10 \/ k = 11 \/ k = 12 \/ k = 13 \/ k = 14 \/ k = 15 \/ k = 16
      \/ k = 17 \/ k = 18 \/ k = 19 \/ k = 20 \/ k = 21 \/ k = 22 \/ k = 23 \/ k = 24
  OBVIOUS
<1>2. CASE k = 1
  BY <1>2
<1>3. CASE k = 2
  BY <1>3
<1>4. CASE k = 3
  BY <1>4
<1>5. CASE k = 4
  BY <1>5
<1>6. CASE k = 5
  BY <1>6
<1>7. CASE k = 6
  BY <1>7
<1>8. CASE k = 7
  BY <1>8
<1>9. CASE k = 8
  BY <1>9
<1>10. CASE k = 9
  BY <1>10
<1>11. CASE k = 10
  BY <1>11
<1>12. CASE k = 11
  BY <1>12
<1>13. CASE k = 12
  BY <1>13
<1>14. CASE k = 13
  BY <1>14
<1>15. CASE k = 14
  BY <1>15
<1>16. CASE k = 15
  BY <1>16
<1>17. CASE k = 16
  BY <1>17
<1>18. CASE k = 17
  BY <1>18
<1>19. CASE k = 18
  BY <1>19
<1>20. CASE k = 19
  BY <1>20
<1>21. CASE k = 20
  BY <1>21
<1>22. CASE k = 21
  BY <1>22
<1>23. CASE k = 22
  BY <1>23
<1>24. CASE k = 23
  BY <1>24
<1>25. CASE k = 24
  BY <1>25
<1> QED BY <1>1, <1>2, <1>3, <1>4, <1>5, <1>6, <1>7, <1>8, <1>9, <1>10, <1>11, <1>12, <1>13,
           <1>14, <1>15, <1>16, <1>17, <1>18, <1>19, <1>20, <1>21, <1>22, <1>23, <1>24, <1>25

LEMMA Powers ==
  ASSUME NEW s \in Handles!PowersOfTwo
  PROVE  /\ s \in Nat /\ s >= 2
         /\ 2 * s - 1 <= HandleMask => 2 * s \in Handles!PowersOfTwo
<1>1. PICK k \in 1 .. 24 : s = 2 ^ k
  BY DEF Handles!PowersOfTwo
<1>2. s \in Nat /\ s >= 2
  BY <1>1, NextPower
<1>3. CASE k = 24
  BY <1>1, <1>2, <1>3, HandleAssumption, SMT DEF HandleAssumption
<1>4. CASE k # 24
  <2>1. k < 24 /\ k + 1 \in 1 .. 24
    BY <1>4
  <2>2. 2 * s = 2 ^ (k + 1)
    BY <1>1, <2>1, NextPower
  <2> QED BY <1>2, <2>1, <2>2 DEF Handles!PowersOfTwo
<1> QED BY <1>3, <1>4

LEMMA HandlesCount == \A S : Handles!Cardinality(S) = Cardinality(S)
BY DEF Handles!Cardinality, Cardinality

\* A thread enters skynet_handle_register only when no other is between
\* there and the assignment of the handle.
LEMMA NoneGiven ==
  ASSUME OneGiven, Handles!Cardinality({d \in Context : given[d] # 0}) < 1
  PROVE  \A d \in Context : given[d] = 0
<1> DEFINE S == {d \in Context : given[d] # 0}
<1>1. SUFFICES ASSUME NEW d \in Context, given[d] # 0 PROVE FALSE
  OBVIOUS
<1>2. S = {d}
  BY <1>1 DEF OneGiven
<1>3. Cardinality({d}) = 1
  BY FS_Singleton
<1> QED BY <1>2, <1>3, HandlesCount

\* The types of the parts of the storage.
LEMMA Typed ==
  ASSUME Handles!TypeOK
  PROVE  /\ slotSize \in Nat /\ slotSize >= 2 /\ HandleMask \in Nat /\ HandleMask >= 1
         /\ \A c \in Context : handle[c] \in Nat /\ given[c] \in Nat /\ AddressOf(c) \in Nat
         /\ \A h \in 0 .. HandleMask : h % slotSize \in 0 .. slotSize - 1
         /\ Null \notin Context
         /\ NamesKept(names) <=> Sorted(names)
<1>1. slotSize \in Nat /\ slotSize >= 2
  BY Powers DEF Handles!TypeOK
<1>2. HandleMask \in Nat /\ HandleMask >= 1 /\ Null \notin Context
  BY HandleAssumption DEF HandleAssumption
<1>3. ASSUME NEW c \in Context
      PROVE  handle[c] \in Nat /\ given[c] \in Nat /\ AddressOf(c) \in Nat
  <2>1. handle[c] \in 0 .. HandleMask /\ given[c] \in 0 .. HandleMask
    BY DEF Handles!TypeOK
  <2> QED BY <1>2, <2>1 DEF AddressOf
<1>4. \A h \in 0 .. HandleMask : h % slotSize \in 0 .. slotSize - 1
  BY <1>1, <1>2
<1>5. NamesKept(names) <=> Sorted(names)
  BY DEF NamesKept, Handles!TypeOK
<1> QED BY <1>1, <1>2, <1>3, <1>4, <1>5

\* skynet_handle_grab finds the context with the handle.
LEMMA LookupFinds ==
  StorageInv =>
    \A h \in 1 .. HandleMask :
      /\ Handles!Lookup(h) \in Context \cup {Null}
      /\ \A c \in Context : Handles!Lookup(h) = c <=> handle[c] = h
<1> SUFFICES ASSUME StorageInv, NEW h \in 1 .. HandleMask
             PROVE  /\ Handles!Lookup(h) \in Context \cup {Null}
                    /\ \A c \in Context : Handles!Lookup(h) = c <=> handle[c] = h
  OBVIOUS
<1> DEFINE d == slot[h % slotSize]
<1>1. h % slotSize \in 0 .. slotSize - 1 /\ h # 0 /\ Null \notin Context
  BY Typed DEF StorageInv
<1>2. d \in Context \cup {Null}
  BY <1>1 DEF StorageInv, Handles!TypeOK
<1>3. Handles!Lookup(h) = IF d # Null /\ handle[d] = h THEN d ELSE Null
  BY DEF Handles!Lookup, Handles!Hash
<1>4. \A c \in Context : handle[c] = h => d = c
  BY <1>1 DEF StorageInv, Housed, AddressOf
<1> HIDE DEF d
<1> QED BY <1>1, <1>2, <1>3, <1>4

LEMMA StorageInit == Handles!Init => StorageInv
<1> SUFFICES ASSUME Handles!Init PROVE StorageInv
  OBVIOUS
<1>1. /\ DefaultSlots \in Handles!PowersOfTwo /\ DefaultSlots \in Nat /\ DefaultSlots >= 2
      /\ HandleMask \in Nat /\ HandleMask >= 1
  BY Powers, HandleAssumption DEF HandleAssumption
<1>2. Handles!TypeOK
  <2>1. names \in Seq(Handles!Entry)
    BY DEF Handles!Init
  <2>2. scan \in -1 .. slotSize
    BY <1>1 DEF Handles!Init
  <2>3. handleIndex \in 1 .. HandleMask + 1 /\ victim \in 0 .. HandleMask /\ 0 \in 0 .. HandleMask
    BY <1>1 DEF Handles!Init
  <2> QED BY <1>1, <2>1, <2>2, <2>3 DEF Handles!Init, Handles!TypeOK
<1>3. Housed(slot, slotSize) /\ OneGiven /\ PassAhead
  BY DEF Handles!Init, Housed, AddressOf, OneGiven, PassAhead
<1>4. Sorted(names)
  BY DEF Handles!Init, Sorted
<1> QED BY <1>2, <1>3, <1>4
        DEF StorageInv, Handles!FailsOnlyWrapping, Handles!NewSlotsDistinct, Handles!Init

\* skynet_handle_register puts the context where its handle leads.
LEMMA Placed ==
  ASSUME Handles!TypeOK, \A d \in Context : given[d] = 0,
         NEW c \in Context, handle[c] = 0,
         NEW n \in Handles!PowersOfTwo, NEW tab \in [0 .. n - 1 -> Context \cup {Null}],
         Housed(tab, n), Handles!Place(c, tab, n), UNCHANGED handle
  PROVE  /\ slotSize' = n /\ slot' \in [0 .. n - 1 -> Context \cup {Null}]
         /\ handleIndex' \in 1 .. HandleMask + 1
         /\ given' \in [Context -> 0 .. HandleMask]
         /\ \A d \in Context \ {c} : given'[d] = 0
         /\ Housed(slot, slotSize)'
<1>1. PICK i \in 0 .. n - 1 :
        /\ tab[Handles!Hash(Handles!Probe(i), n)] = Null
        /\ slot' = [tab EXCEPT ![Handles!Hash(Handles!Probe(i), n)] = c]
        /\ slotSize' = n
        /\ handleIndex' = Handles!Probe(i) + 1
        /\ given' = [given EXCEPT ![c] = Handles!Probe(i)]
  BY DEF Handles!Place
<1> DEFINE p == Handles!Probe(i)
           k == p % n
<1>2. n \in Nat /\ n >= 2 /\ HandleMask \in Nat /\ HandleMask >= 1 /\ Null \notin Context
  BY Powers, HandleAssumption DEF HandleAssumption
<1>3. p \in 1 .. HandleMask
  <2>1. handleIndex + i - 1 \in Nat
    <3>1. handleIndex \in 1 .. HandleMask + 1
      BY DEF Handles!TypeOK
    <3> QED BY <1>2, <3>1
  <2>2. (handleIndex + i - 1) % HandleMask \in 0 .. HandleMask - 1
    BY <1>2, <2>1
  <2> QED BY <1>2, <2>2 DEF Handles!Probe
<1> HIDE DEF p
<1>4. k \in 0 .. n - 1
  BY <1>2, <1>3
<1>5. /\ tab[k] = Null /\ slot' = [tab EXCEPT ![k] = c]
      /\ handleIndex' = p + 1 /\ given' = [given EXCEPT ![c] = p]
  BY <1>1 DEF Handles!Hash, p
<1> HIDE DEF k
<1>6. /\ slot'[k] = c
      /\ \A j \in 0 .. n - 1 : j # k => slot'[j] = tab[j]
  BY <1>4, <1>5
<1>7. slot' \in [0 .. n - 1 -> Context \cup {Null}]
  BY <1>4, <1>5
<1>8. /\ given' \in [Context -> 0 .. HandleMask]
      /\ given'[c] = p
      /\ \A d \in Context \ {c} : given'[d] = given[d]
  <2>1. given \in [Context -> 0 .. HandleMask]
    BY DEF Handles!TypeOK
  <2>2. p \in 0 .. HandleMask
    BY <1>2, <1>3
  <2> QED BY <1>5, <2>1, <2>2
<1>9. handleIndex' \in 1 .. HandleMask + 1
  BY <1>2, <1>3, <1>5
<1>10. AddressOf(c)' = p /\ p # 0 /\ AddressOf(c) = 0
  BY <1>3, <1>8 DEF AddressOf
<1>11. \A d \in Context \ {c} : AddressOf(d)' = AddressOf(d)
  BY <1>8 DEF AddressOf
<1>12. ASSUME NEW j \in 0 .. n - 1, slot'[j] # Null
       PROVE  AddressOf(slot[j])' # 0 /\ AddressOf(slot[j])' % n = j
  <2>1. CASE j = k
    <3>1. slot[j]' = c
      BY <1>6, <2>1
    <3>2. AddressOf(slot[j])' = p
      BY <1>10, <3>1 DEF AddressOf
    <3> QED BY <1>10, <2>1, <3>2 DEF k
  <2>2. CASE j # k
    <3>1. slot[j]' = tab[j] /\ tab[j] # Null /\ tab[j] \in Context
      BY <1>6, <1>12, <2>2
    <3>2. AddressOf(tab[j]) # 0 /\ AddressOf(tab[j]) % n = j
      BY <3>1 DEF Housed
    <3>3. tab[j] # c
      BY <1>10, <3>2
    <3>4. AddressOf(slot[j])' = AddressOf(tab[j])
      BY <1>8, <3>1, <3>3 DEF AddressOf
    <3> QED BY <3>2, <3>4
  <2> QED BY <2>1, <2>2
<1>13. ASSUME NEW d \in Context, AddressOf(d)' # 0
       PROVE  slot'[AddressOf(d)' % n] = d
  <2>1. CASE d = c
    BY <1>6, <1>10, <2>1 DEF k
  <2>2. CASE d # c
    <3>1. AddressOf(d)' = AddressOf(d) /\ tab[AddressOf(d) % n] = d
      BY <1>11, <1>13, <2>2 DEF Housed
    <3>2. AddressOf(d) \in Nat
      BY Typed
    <3>3. AddressOf(d) % n \in 0 .. n - 1
      BY <1>2, <3>2
    <3>4. AddressOf(d) % n # k
      BY <1>2, <1>5, <3>1
    <3> QED BY <1>6, <3>1, <3>3, <3>4
  <2> QED BY <2>1, <2>2
<1>14. Housed(slot, slotSize)'
  BY <1>1, <1>12, <1>13 DEF Housed
<1> QED BY <1>1, <1>7, <1>8, <1>9, <1>14

\* A table that doubles keeps every context in the slot of its handle.
LEMMA Regrown ==
  ASSUME StorageInv, \A d \in Context : given[d] = 0,
         Handles!Occupied = 0 .. slotSize - 1,
         ~ \E i, j \in Handles!Occupied :
             i # j /\ Handles!NewHash(slot[i]) = Handles!NewHash(slot[j])
  PROVE  /\ Handles!NewTable \in [0 .. 2 * slotSize - 1 -> Context \cup {Null}]
         /\ Housed(Handles!NewTable, 2 * slotSize)
<1> DEFINE m == 2 * slotSize
           tab == Handles!NewTable
           from(k) == {i \in Handles!Occupied : Handles!NewHash(slot[i]) = k}
<1>1. slotSize \in Nat /\ slotSize >= 2 /\ m \in Nat /\ m >= 2 /\ Null \notin Context
  BY Typed DEF StorageInv
<1>2. \A i \in 0 .. slotSize - 1 :
        /\ slot[i] \in Context /\ AddressOf(slot[i]) = handle[slot[i]]
        /\ handle[slot[i]] # 0 /\ handle[slot[i]] % slotSize = i
  <2>1. \A i \in 0 .. slotSize - 1 : slot[i] # Null /\ slot[i] \in Context
    BY DEF Handles!Occupied, StorageInv, Handles!TypeOK
  <2> QED BY <2>1 DEF AddressOf, StorageInv, Housed
<1>3. tab = [k \in 0 .. m - 1 |->
               IF from(k) = {} THEN Null ELSE slot[CHOOSE i \in from(k) : TRUE]]
  BY DEF Handles!NewTable
<1>4. \A i \in 0 .. slotSize - 1 : Handles!NewHash(slot[i]) = handle[slot[i]] % m
  BY DEF Handles!NewHash, Handles!Hash
<1> HIDE DEF tab, m
<1>5. ASSUME NEW i \in 0 .. slotSize - 1
      PROVE  handle[slot[i]] % m \in 0 .. m - 1 /\ tab[handle[slot[i]] % m] = slot[i]
  <2> DEFINE k == handle[slot[i]] % m
  <2>1. k \in 0 .. m - 1
    <3>1. handle[slot[i]] \in Nat
      BY <1>2, Typed DEF StorageInv
    <3> QED BY <1>1, <3>1
  <2>2. from(k) = {i}
    BY <1>4
  <2> HIDE DEF k
  <2>3. tab[k] = slot[CHOOSE j \in {i} : TRUE]
    BY <1>3, <2>1, <2>2
  <2>4. (CHOOSE j \in {i} : TRUE) = i
    OBVIOUS
  <2> QED BY <2>1, <2>3, <2>4 DEF k
<1>6. ASSUME NEW k \in 0 .. m - 1
      PROVE  /\ tab[k] \in Context \cup {Null}
             /\ tab[k] # Null =>
                  \E i \in 0 .. slotSize - 1 : tab[k] = slot[i] /\ handle[slot[i]] % m = k
  <2>1. CASE from(k) = {}
    BY <1>3, <2>1
  <2>2. CASE from(k) # {}
    <3> DEFINE i == CHOOSE i \in from(k) : TRUE
    <3>1. i \in from(k)
      BY <2>2
    <3>2. tab[k] = slot[i]
      BY <1>3, <2>2
    <3> HIDE DEF i
    <3> QED BY <1>2, <1>4, <3>1, <3>2
  <2> QED BY <2>1, <2>2
<1>7. tab \in [0 .. m - 1 -> Context \cup {Null}]
  BY <1>3, <1>6
<1>8. ASSUME NEW k \in 0 .. m - 1, tab[k] # Null
      PROVE  AddressOf(tab[k]) # 0 /\ AddressOf(tab[k]) % m = k
  BY <1>2, <1>6, <1>8
<1>9. ASSUME NEW c \in Context, AddressOf(c) # 0 PROVE tab[AddressOf(c) % m] = c
  <2> DEFINE i == AddressOf(c) % slotSize
  <2>1. i \in 0 .. slotSize - 1 /\ slot[i] = c
    BY <1>1, <1>9, Typed DEF StorageInv, Housed
  <2> HIDE DEF i
  <2> QED BY <1>2, <1>5, <2>1
<1> QED BY <1>7, <1>8, <1>9 DEF Housed, m, tab

\* The assertion of skynet_handle_register that no two contexts move into the
\* same slot holds.
LEMMA NoCollision ==
  ASSUME StorageInv, \A d \in Context : given[d] = 0,
         NEW i \in Handles!Occupied, NEW j \in Handles!Occupied, i # j
  PROVE  Handles!NewHash(slot[i]) # Handles!NewHash(slot[j])
<1> DEFINE m == 2 * slotSize
<1>1. slotSize \in Nat \ {0} /\ m \in Nat \ {0}
  BY Typed DEF StorageInv
<1>2. ASSUME NEW k \in Handles!Occupied
      PROVE  /\ k \in 0 .. slotSize - 1 /\ Handles!NewHash(slot[k]) = handle[slot[k]] % m
             /\ handle[slot[k]] % m \in {k, k + slotSize}
  <2>1. k \in 0 .. slotSize - 1 /\ slot[k] \in Context /\ slot[k] # Null
    BY DEF Handles!Occupied, StorageInv, Handles!TypeOK
  <2>2. handle[slot[k]] \in Nat /\ handle[slot[k]] % slotSize = k
    BY <2>1, Typed DEF StorageInv, Housed, AddressOf
  <2> HIDE DEF m
  <2>3. m = 2 * slotSize
    BY DEF m
  <2>4. handle[slot[k]] % m \in {handle[slot[k]] % slotSize, (handle[slot[k]] % slotSize) + slotSize}
    BY <1>1, <2>2, <2>3, Doubling
  <2> QED BY <2>1, <2>2, <2>4 DEF Handles!NewHash, Handles!Hash, m
<1> HIDE DEF m
<1>3. i \in 0 .. slotSize - 1 /\ j \in 0 .. slotSize - 1
  BY <1>2
<1>4. Handles!NewHash(slot[i]) \in {i, i + slotSize} /\ Handles!NewHash(slot[j]) \in {j, j + slotSize}
  BY <1>2
<1> QED BY <1>1, <1>3, <1>4

\* A sweep that does not wrap around comes to every slot.
LEMMA SweepComplete ==
  ASSUME Handles!TypeOK, Handles!NoneFree, handleIndex + slotSize <= HandleMask + 1
  PROVE  Handles!Occupied = 0 .. slotSize - 1
<1>1. slotSize \in Nat \ {0} /\ HandleMask \in Nat \ {0}
  BY Typed
<1>2. handleIndex \in Nat \ {0}
  <2>1. handleIndex \in 1 .. HandleMask + 1
    BY DEF Handles!TypeOK
  <2> QED BY <1>1, <2>1
<1>3. ASSUME NEW s \in 0 .. slotSize - 1 PROVE slot[s] # Null
  <2>1. PICK i \in 0 .. slotSize - 1 : (handleIndex + i) % slotSize = s
    BY <1>1, <1>2, AllResidues
  <2>2. handleIndex + i - 1 \in 0 .. HandleMask - 1
    BY <1>1, <1>2
  <2>3. (handleIndex + i - 1) % HandleMask = handleIndex + i - 1
    BY <1>1, <2>2
  <2>4. Handles!Probe(i) = handleIndex + i
    BY <1>1, <1>2, <2>3 DEF Handles!Probe
  <2>5. slot[Handles!Hash(Handles!Probe(i), slotSize)] # Null
    BY DEF Handles!NoneFree
  <2> QED BY <2>1, <2>4, <2>5 DEF Handles!Hash
<1> QED BY <1>3 DEF Handles!Occupied

LEMMA RegisterKeeps ==
  ASSUME StorageInv, NEW c \in Context, Handles!Register(c)
  PROVE  StorageInv'
<1>1. /\ handle[c] = 0 /\ status = "running"
      /\ UNCHANGED <<handle, names, scan, victim, retired, doomed>>
  BY DEF Handles!Register, Handles!abort
<1>2. \A d \in Context : given[d] = 0
  BY NoneGiven DEF Handles!Register, StorageInv
<1>3. slotSize \in Handles!PowersOfTwo /\ slotSize \in Nat /\ slotSize >= 2
  BY Typed DEF StorageInv, Handles!TypeOK
<1>4. ASSUME NEW n \in Handles!PowersOfTwo, n \in {slotSize, 2 * slotSize},
             NEW tab \in [0 .. n - 1 -> Context \cup {Null}],
             Housed(tab, n), Handles!Place(c, tab, n), UNCHANGED status
      PROVE  StorageInv'
  <2>1. /\ slotSize' = n /\ slot' \in [0 .. n - 1 -> Context \cup {Null}]
        /\ handleIndex' \in 1 .. HandleMask + 1
        /\ given' \in [Context -> 0 .. HandleMask]
        /\ \A d \in Context \ {c} : given'[d] = 0
        /\ Housed(slot, slotSize)'
    BY <1>1, <1>2, <1>4, Placed DEF StorageInv
  <2>2. n \in Nat /\ slotSize <= n
    BY <1>3, <1>4
  <2>3. Handles!TypeOK'
    <3>1. scan' \in -1 .. slotSize'
      <4>1. scan \in -1 .. slotSize
        BY DEF StorageInv, Handles!TypeOK
      <4> QED BY <1>1, <1>3, <2>1, <2>2, <4>1
    <3> QED BY <1>1, <1>4, <2>1, <3>1 DEF StorageInv, Handles!TypeOK
  <2>4. OneGiven'
    <3>1. \A d \in Context : d # c => given'[d] = 0
      BY <2>1
    <3>2. \A d \in Context : handle'[d] = 0 \/ given'[d] = 0
      BY <1>1, <3>1
    <3> QED BY <3>1, <3>2 DEF OneGiven
  <2>5. PassAhead'
    <3>1. ASSUME NEW d \in doomed
          PROVE  /\ handle[d] % n \in {handle[d] % slotSize, (handle[d] % slotSize) + slotSize}
                 /\ handle[d] % slotSize \in 0 .. slotSize - 1
      <4>1. d \in Context /\ handle[d] \in Nat
        BY Typed DEF StorageInv, Handles!TypeOK
      <4>2. handle[d] % slotSize \in 0 .. slotSize - 1
        BY <1>3, <4>1
      <4>3. CASE n = slotSize
        BY <4>2, <4>3
      <4>4. CASE n = 2 * slotSize
        <5>1. slotSize \in Nat \ {0} /\ n \in Nat \ {0}
          BY <1>3, <2>2
        <5> QED BY <4>1, <4>2, <4>4, <5>1, Doubling
      <4> QED BY <1>4, <4>3, <4>4
    <3>2. scan \in -1 .. slotSize
      BY DEF StorageInv, Handles!TypeOK
    <3>3. ASSUME NEW d \in doomed' PROVE handle'[d] # 0 /\ handle'[d] % slotSize' >= scan'
      <4>1. d \in doomed /\ handle[d] # 0 /\ handle[d] % slotSize >= scan
        BY <1>1 DEF StorageInv, PassAhead
      <4>2. handle[d] % n >= scan
        BY <1>3, <3>1, <3>2, <4>1
      <4> QED BY <1>1, <2>1, <4>1, <4>2
    <3>4. ASSUME victim # 0
          PROVE  /\ scan \in 0 .. n - 1
                 /\ \A d \in doomed : handle[d] % n = scan => handle[d] = victim
      <4>1. scan \in 0 .. slotSize - 1
        BY <3>4 DEF StorageInv, PassAhead
      <4>2. ASSUME NEW d \in doomed, handle[d] % n = scan PROVE handle[d] = victim
        <5>1. handle[d] % slotSize = scan
          BY <1>3, <3>1, <4>1, <4>2
        <5> QED BY <3>4, <5>1 DEF StorageInv, PassAhead
      <4> QED BY <1>3, <2>2, <4>1, <4>2
    <3> QED BY <1>1, <2>1, <3>3, <3>4 DEF PassAhead
  <2>6. Sorted(names)'
    BY <1>1 DEF StorageInv, Sorted
  <2>7. status' = "running"
    BY <1>1, <1>4
  <2> QED BY <2>1, <2>3, <2>4, <2>5, <2>6, <2>7
          DEF StorageInv, Handles!FailsOnlyWrapping, Handles!NewSlotsDistinct
<1>5. CASE ~ Handles!NoneFree /\ Handles!Place(c, slot, slotSize) /\ UNCHANGED status
  <2>1. slot \in [0 .. slotSize - 1 -> Context \cup {Null}] /\ Housed(slot, slotSize)
    BY DEF StorageInv, Handles!TypeOK
  <2> QED BY <1>3, <1>4, <1>5, <2>1
<1>6. CASE /\ Handles!NoneFree /\ Handles!Failure = "running"
           /\ Handles!Place(c, Handles!NewTable, 2 * slotSize) /\ UNCHANGED status
  <2>1. /\ ~ (2 * slotSize - 1 > HandleMask)
        /\ Handles!Occupied = 0 .. slotSize - 1
        /\ ~ \E i, j \in Handles!Occupied :
               i # j /\ Handles!NewHash(slot[i]) = Handles!NewHash(slot[j])
    BY <1>6 DEF Handles!Failure
  <2>2. 2 * slotSize \in Handles!PowersOfTwo
    <3>1. HandleMask \in Nat
      BY Typed DEF StorageInv
    <3>2. 2 * slotSize - 1 <= HandleMask
      BY <1>3, <2>1, <3>1
    <3> QED BY <1>3, <3>2, Powers
  <2>3. /\ Handles!NewTable \in [0 .. 2 * slotSize - 1 -> Context \cup {Null}]
        /\ Housed(Handles!NewTable, 2 * slotSize)
    BY <1>2, <2>1, Regrown
  <2> QED BY <1>4, <1>6, <2>2, <2>3
<1>7. CASE /\ Handles!NoneFree /\ Handles!Failure # "running"
           /\ status' = Handles!Failure
           /\ UNCHANGED <<slotSize, slot, handleIndex, given>>
  <2>1. UNCHANGED <<slotSize, slot, handleIndex, handle, given, names, scan, victim, retired, doomed>>
    BY <1>1, <1>7
  <2>2. Handles!Failure \in {"running", "full", "unfilled", "collision"}
    BY DEF Handles!Failure
  <2>3. Handles!TypeOK'
    BY <1>7, <2>1, <2>2 DEF StorageInv, Handles!TypeOK
  <2>4. Housed(slot, slotSize)' /\ OneGiven' /\ Sorted(names)' /\ PassAhead'
    BY <2>1 DEF StorageInv, Housed, AddressOf, OneGiven, Sorted, PassAhead
  <2>5. Handles!FailsOnlyWrapping'
    <3>1. SUFFICES ASSUME Handles!Failure = "unfilled"
                   PROVE  handleIndex + slotSize > HandleMask + 1
      BY <1>7, <2>1 DEF Handles!FailsOnlyWrapping
    <3>2. Handles!Occupied # 0 .. slotSize - 1
      BY <3>1 DEF Handles!Failure
    <3>3. ~ (handleIndex + slotSize <= HandleMask + 1)
      BY <1>7, <3>2, SweepComplete DEF StorageInv
    <3>4. handleIndex \in 1 .. HandleMask + 1 /\ HandleMask \in Nat
      BY Typed DEF StorageInv, Handles!TypeOK
    <3> QED BY <1>3, <3>3, <3>4
  <2>6. Handles!NewSlotsDistinct'
    BY <1>2, <1>7, NoCollision DEF Handles!Failure, Handles!NewSlotsDistinct
  <2> QED BY <2>3, <2>4, <2>5, <2>6 DEF StorageInv
<1> QED BY <1>5, <1>6, <1>7 DEF Handles!Register, Handles!table

LEMMA AssignKeeps ==
  ASSUME StorageInv, NEW c \in Context, Handles!Assign(c)
  PROVE  StorageInv'
<1>1. /\ status = "running" /\ given[c] # 0
      /\ handle' = [handle EXCEPT ![c] = given[c]]
      /\ given' = [given EXCEPT ![c] = 0]
      /\ UNCHANGED <<slotSize, slot, handleIndex, names, status, scan, victim, retired, doomed>>
  BY DEF Handles!Assign, Handles!table, Handles!abort
<1>2. /\ handle \in [Context -> 0 .. HandleMask] /\ given \in [Context -> 0 .. HandleMask]
      /\ HandleMask \in Nat /\ handle[c] = 0
  BY <1>1, Typed DEF StorageInv, OneGiven, Handles!TypeOK
<1>3. /\ handle' \in [Context -> 0 .. HandleMask] /\ given' \in [Context -> 0 .. HandleMask]
      /\ handle'[c] = given[c] /\ given'[c] = 0
      /\ \A d \in Context : d # c => handle'[d] = handle[d] /\ given'[d] = given[d]
  <2>1. 0 \in 0 .. HandleMask
    BY <1>2
  <2> QED BY <1>1, <1>2, <2>1
<1>4. Handles!TypeOK'
  BY <1>1, <1>3 DEF StorageInv, Handles!TypeOK
<1>5. \A d \in Context : AddressOf(d)' = AddressOf(d)
  BY <1>1, <1>2, <1>3 DEF AddressOf
<1>6. Housed(slot, slotSize)'
  <2>1. \A i \in 0 .. slotSize - 1 : slot[i] \in Context \cup {Null}
    BY DEF StorageInv, Handles!TypeOK
  <2>2. ASSUME NEW i \in 0 .. slotSize - 1, slot[i] # Null
        PROVE  AddressOf(slot[i])' = AddressOf(slot[i])
    BY <1>1, <1>2, <1>3, <2>1, <2>2 DEF AddressOf
  <2>3. Housed(slot, slotSize)
    BY DEF StorageInv
  <2>4. slot' = slot /\ slotSize' = slotSize
    BY <1>1
  <2>5. ASSUME NEW i \in 0 .. slotSize - 1, slot'[i] # Null
        PROVE  AddressOf(slot[i])' # 0 /\ AddressOf(slot[i])' % slotSize = i
    BY <2>2, <2>3, <2>4, <2>5 DEF Housed
  <2>6. ASSUME NEW d \in Context, AddressOf(d)' # 0
        PROVE  slot'[AddressOf(d)' % slotSize] = d
    BY <1>5, <2>3, <2>4, <2>6 DEF Housed
  <2> QED BY <2>4, <2>5, <2>6 DEF Housed
<1>7. OneGiven'
  <2>1. \A d \in Context : given'[d] = 0
    BY <1>1, <1>3 DEF StorageInv, OneGiven
  <2> QED BY <2>1 DEF OneGiven
<1>8. PassAhead'
  <2>1. \A d \in doomed : d \in Context /\ d # c
    BY <1>2 DEF StorageInv, PassAhead, Handles!TypeOK
  <2>2. \A d \in doomed : handle'[d] = handle[d]
    BY <1>3, <2>1
  <2> QED BY <1>1, <2>2 DEF StorageInv, PassAhead
<1>9. Sorted(names)' /\ Handles!FailsOnlyWrapping' /\ Handles!NewSlotsDistinct'
  BY <1>1 DEF StorageInv, Sorted, Handles!FailsOnlyWrapping, Handles!NewSlotsDistinct
<1> QED BY <1>4, <1>6, <1>7, <1>8, <1>9 DEF StorageInv

\* The parts of the invariant that the retirement of a service changes.
LEMMA Unregistered ==
  ASSUME StorageInv, NEW h \in 1 .. HandleMask, Handles!Unregister(h)
  PROVE  /\ UNCHANGED <<slotSize, handleIndex, given, status>>
         /\ slot' \in [0 .. slotSize - 1 -> Context \cup {Null}]
         /\ handle' \in [Context -> 0 .. HandleMask]
         /\ NamesKept(names')
         /\ \A n \in Name : BoundTo(names', n) =
              IF BoundTo(names, n) = h THEN 0 ELSE BoundTo(names, n)
         /\ Housed(slot, slotSize)' /\ OneGiven'
         /\ \E c \in Context :
              /\ handle[c] = h /\ handle'[c] = 0 /\ doomed' = doomed \ {c}
              /\ \A d \in Context : d # c => handle'[d] = handle[d]
<1> DEFINE c == Handles!Lookup(h)
           k == h % slotSize
<1>1. /\ c # Null
      /\ slot' = [slot EXCEPT ![k] = Null]
      /\ names' = Handles!Forget(h)
      /\ handle' = [handle EXCEPT ![c] = 0]
      /\ doomed' = doomed \ {c}
      /\ UNCHANGED <<slotSize, handleIndex, given, status>>
  BY DEF Handles!Unregister, Handles!Hash
<1>2. c \in Context /\ handle[c] = h
  BY <1>1, LookupFinds
<1> HIDE DEF c
<1>3. /\ slotSize \in Nat /\ HandleMask \in Nat /\ h # 0 /\ Null \notin Context
      /\ k \in 0 .. slotSize - 1 /\ NamesKept(names)
  BY Typed DEF StorageInv
<1>4. /\ slot \in [0 .. slotSize - 1 -> Context \cup {Null}]
      /\ handle \in [Context -> 0 .. HandleMask]
  BY DEF StorageInv, Handles!TypeOK
<1>5. Housed(slot, slotSize) /\ AddressOf(c) = h /\ slot[k] = c /\ given[c] = 0
  BY <1>2, <1>3 DEF StorageInv, Housed, AddressOf, OneGiven
<1> HIDE DEF k
<1>6. /\ slot' \in [0 .. slotSize - 1 -> Context \cup {Null}]
      /\ slot'[k] = Null /\ \A j \in 0 .. slotSize - 1 : j # k => slot'[j] = slot[j]
  BY <1>1, <1>3, <1>4
<1>7. /\ handle' \in [Context -> 0 .. HandleMask]
      /\ handle'[c] = 0 /\ \A d \in Context : d # c => handle'[d] = handle[d]
  <2>1. 0 \in 0 .. HandleMask
    BY <1>3
  <2> QED BY <1>1, <1>2, <1>4, <2>1
<1>8. /\ NamesKept(names')
      /\ \A n \in Name : BoundTo(names', n) =
           IF BoundTo(names, n) = h THEN 0 ELSE BoundTo(names, n)
  BY <1>1, <1>3, Forgotten
<1>9. \A d \in Context : AddressOf(d)' = IF d = c THEN 0 ELSE AddressOf(d)
  BY <1>1, <1>5, <1>7 DEF AddressOf
<1>10. ASSUME NEW j \in 0 .. slotSize - 1, slot'[j] # Null
       PROVE  AddressOf(slot[j])' # 0 /\ AddressOf(slot[j])' % slotSize = j
  <2>1. j # k /\ slot'[j] = slot[j] /\ slot[j] \in Context /\ slot[j] # Null
    BY <1>4, <1>6, <1>10
  <2>2. AddressOf(slot[j]) # 0 /\ AddressOf(slot[j]) % slotSize = j
    BY <1>5, <2>1 DEF Housed
  <2>3. slot[j] # c
    BY <1>5, <2>1, <2>2 DEF k
  <2>4. AddressOf(slot[j])' = AddressOf(slot[j])
    BY <1>1, <1>7, <2>1, <2>3 DEF AddressOf
  <2> QED BY <2>2, <2>4
<1>11. ASSUME NEW d \in Context, AddressOf(d)' # 0
       PROVE  slot'[AddressOf(d)' % slotSize] = d
  <2>1. d # c /\ AddressOf(d)' = AddressOf(d) /\ slot[AddressOf(d) % slotSize] = d
    BY <1>5, <1>9, <1>11 DEF Housed
  <2>2. AddressOf(d) % slotSize \in 0 .. slotSize - 1
    <3>1. AddressOf(d) \in Nat /\ slotSize \in Nat /\ slotSize >= 2
      BY Typed DEF StorageInv
    <3> QED BY <3>1
  <2> QED BY <1>5, <1>6, <2>1, <2>2
<1>12. Housed(slot, slotSize)'
  BY <1>1, <1>10, <1>11 DEF Housed
<1>13. OneGiven'
  BY <1>1, <1>7 DEF StorageInv, OneGiven
<1> QED BY <1>1, <1>2, <1>6, <1>7, <1>8, <1>12, <1>13

LEMMA RetireKeeps ==
  ASSUME StorageInv, NEW h \in 1 .. HandleMask, Handles!Retire(h)
  PROVE  StorageInv'
<1>1. UNCHANGED <<slotSize, handleIndex, given, status, scan, victim, retired>>
  BY Unregistered DEF Handles!Retire, Handles!abort
<1>2. /\ slot' \in [0 .. slotSize - 1 -> Context \cup {Null}]
      /\ handle' \in [Context -> 0 .. HandleMask]
      /\ NamesKept(names') /\ Housed(slot, slotSize)' /\ OneGiven'
  BY Unregistered DEF Handles!Retire
<1>3. PICK c \in Context :
        /\ handle'[c] = 0 /\ doomed' = doomed \ {c}
        /\ \A d \in Context : d # c => handle'[d] = handle[d]
  BY Unregistered DEF Handles!Retire
<1>4. Handles!TypeOK'
  BY <1>1, <1>2, <1>3 DEF StorageInv, Handles!TypeOK, NamesKept
<1>5. PassAhead'
  <2>1. \A d \in doomed' : d \in doomed /\ d \in Context /\ handle'[d] = handle[d]
    BY <1>3 DEF StorageInv, Handles!TypeOK
  <2> QED BY <1>1, <2>1 DEF StorageInv, PassAhead
<1>6. Sorted(names)'
  BY <1>2 DEF NamesKept, Sorted
<1> QED BY <1>1, <1>2, <1>4, <1>5, <1>6
        DEF StorageInv, Handles!FailsOnlyWrapping, Handles!NewSlotsDistinct

LEMMA NameHandleKeeps ==
  ASSUME StorageInv, NEW n \in Name, NEW h \in 1 .. HandleMask, Handles!NameHandle(n, h)
  PROVE  StorageInv'
<1>1. UNCHANGED <<slotSize, slot, handleIndex, handle, given, status, scan, victim, retired, doomed>>
  BY DEF Handles!NameHandle, Handles!table, Handles!abort
<1>2. NamesKept(names')
  <2>1. NamesKept(names) /\ ~ Handles!Search(n).found /\ names' = Handles!InsertName(n, h)
    BY Typed DEF StorageInv, Handles!NameHandle
  <2> QED BY <2>1, Inserted
<1>3. Handles!TypeOK'
  BY <1>1, <1>2 DEF StorageInv, Handles!TypeOK, NamesKept
<1>4. Housed(slot, slotSize)' /\ OneGiven' /\ PassAhead'
  BY <1>1 DEF StorageInv, Housed, AddressOf, OneGiven, PassAhead
<1>5. Sorted(names)'
  BY <1>2 DEF NamesKept, Sorted
<1> QED BY <1>1, <1>3, <1>4, <1>5
        DEF StorageInv, Handles!FailsOnlyWrapping, Handles!NewSlotsDistinct

\* A step of skynet_handle_retireall that leaves the storage alone keeps the
\* rest of the invariant.
LEMMA PassStepKeeps ==
  ASSUME StorageInv, UNCHANGED <<slotSize, slot, handleIndex, handle, given, names, status>>,
         scan' \in -1 .. slotSize, victim' \in 0 .. HandleMask, retired' \in BOOLEAN,
         doomed' \subseteq Context, PassAhead'
  PROVE  StorageInv'
<1>1. Handles!TypeOK'
  BY DEF StorageInv, Handles!TypeOK
<1>2. Housed(slot, slotSize)' /\ OneGiven' /\ Sorted(names)'
  BY DEF StorageInv, Housed, AddressOf, OneGiven, Sorted
<1> QED BY <1>1, <1>2 DEF StorageInv, Handles!FailsOnlyWrapping, Handles!NewSlotsDistinct

LEMMA BeginPassKeeps ==
  ASSUME StorageInv, Handles!BeginPass, victim = 0
  PROVE  StorageInv'
<1>1. /\ scan' = 0 /\ retired' = FALSE /\ victim' = 0
      /\ doomed' = {c \in Context : handle[c] # 0}
      /\ UNCHANGED <<slotSize, slot, handleIndex, handle, given, names, status>>
  BY DEF Handles!BeginPass, Handles!table
<1>2. slotSize \in Nat /\ HandleMask \in Nat /\ 0 \in -1 .. slotSize /\ 0 \in 0 .. HandleMask
  BY Typed DEF StorageInv
<1>3. \A c \in doomed' : handle[c] # 0 /\ handle[c] % slotSize >= 0
  <2>1. ASSUME NEW c \in Context PROVE handle[c] % slotSize >= 0
    <3>1. handle[c] \in Nat /\ slotSize \in Nat /\ slotSize >= 2
      BY Typed DEF StorageInv
    <3> QED BY <3>1
  <2> QED BY <1>1, <2>1
<1>4. PassAhead'
  BY <1>1, <1>3 DEF PassAhead
<1>5. doomed' \subseteq Context /\ retired' \in BOOLEAN
  BY <1>1
<1> QED BY <1>1, <1>2, <1>4, <1>5, PassStepKeeps

\* Where the pass is when it reads no handle.
LEMMA ScanTyped ==
  ASSUME StorageInv
  PROVE  /\ scan \in -1 .. slotSize /\ slotSize \in Nat /\ HandleMask \in Nat
         /\ victim \in 0 .. HandleMask
         /\ scan = -1 \/ ~ Handles!InTable(scan) => victim = 0
<1>1. scan \in -1 .. slotSize /\ slotSize \in Nat /\ HandleMask \in Nat /\ victim \in 0 .. HandleMask
  BY Typed DEF StorageInv, Handles!TypeOK
<1>2. ASSUME scan = -1 \/ ~ Handles!InTable(scan), victim # 0 PROVE FALSE
  <2>1. scan \in 0 .. slotSize - 1
    BY <1>2 DEF StorageInv, PassAhead
  <2> QED BY <1>1, <1>2, <2>1 DEF Handles!InTable
<1> QED BY <1>1, <1>2

LEMMA AbortReadKeeps ==
  ASSUME StorageInv, Handles!AbortRead
  PROVE  StorageInv'
<1> DEFINE c == slot[scan]
<1>1. /\ scan # -1 /\ scan < slotSize /\ victim = 0
      /\ UNCHANGED <<slotSize, slot, handleIndex, handle, given, names, status, retired, doomed>>
  BY DEF Handles!AbortRead, Handles!InTable, Handles!table
<1>2. scan \in 0 .. slotSize - 1 /\ slotSize \in Nat /\ HandleMask \in Nat
  BY <1>1, ScanTyped
<1>3. /\ Housed(slot, slotSize) /\ retired \in BOOLEAN /\ doomed \subseteq Context
      /\ c \in Context \cup {Null} /\ victim \in 0 .. HandleMask
      /\ \A d \in Context : handle[d] \in 0 .. HandleMask
  BY <1>2 DEF StorageInv, Handles!TypeOK
\* Of the services to be retired only that in the slot leads there.
<1>4. ASSUME NEW d \in doomed, handle[d] % slotSize = scan PROVE c = d
  <2>1. d \in Context /\ handle[d] # 0
    BY <1>3 DEF StorageInv, PassAhead
  <2> QED BY <1>3, <1>4, <2>1 DEF Housed, AddressOf
<1>5. \A d \in doomed : handle[d] # 0 /\ handle[d] % slotSize >= scan
  BY DEF StorageInv, PassAhead
<1>6. CASE c # Null /\ handle[c] # 0
  <2>1. victim' = handle[c] /\ scan' = scan
    BY <1>6 DEF Handles!AbortRead
  <2> HIDE DEF c
  <2>2. victim' \in 0 .. HandleMask /\ scan' \in -1 .. slotSize
    BY <1>2, <1>3, <1>6, <2>1
  <2>3. PassAhead'
    <3>1. \A d \in doomed : handle[d] % slotSize = scan => handle[d] = victim'
      BY <1>4, <2>1
    <3> QED BY <1>1, <1>2, <1>5, <2>1, <3>1 DEF PassAhead
  <2> QED BY <1>1, <1>3, <2>2, <2>3, PassStepKeeps
<1>7. CASE ~ (c # Null /\ handle[c] # 0)
  <2>1. victim' = victim /\ scan' = scan + 1
    BY <1>7 DEF Handles!AbortRead
  <2> HIDE DEF c
  <2>2. victim' \in 0 .. HandleMask /\ scan' \in -1 .. slotSize
    BY <1>2, <1>3, <2>1
  <2>3. ASSUME NEW d \in doomed PROVE handle[d] # 0 /\ handle[d] % slotSize >= scan + 1
    <3>1. d \in Context /\ handle[d] # 0 /\ handle[d] % slotSize >= scan /\ Null \notin Context
      BY <1>3, <1>5, Typed DEF StorageInv
    <3>2. handle[d] % slotSize # scan
      BY <1>4, <1>7, <3>1
    <3>3. handle[d] % slotSize \in 0 .. slotSize - 1
      BY <1>3, <3>1, Typed DEF StorageInv
    <3> QED BY <1>2, <3>1, <3>2, <3>3
  <2>4. PassAhead'
    BY <1>1, <2>1, <2>3 DEF PassAhead
  <2> QED BY <1>1, <1>3, <2>2, <2>4, PassStepKeeps
<1> QED BY <1>6, <1>7

LEMMA AbortRetireKeeps ==
  ASSUME StorageInv, Handles!AbortRetire
  PROVE  StorageInv'
<1>1. /\ victim # 0 /\ victim' = 0 /\ scan' = scan + 1
      /\ \/ Handles!Unregister(victim) /\ retired' = TRUE
         \/ /\ Handles!Lookup(victim) = Null
            /\ UNCHANGED <<slotSize, slot, handleIndex, handle, given, names, status, retired, doomed>>
  BY DEF Handles!AbortRetire, Handles!table
<1>2. /\ scan \in 0 .. slotSize - 1
      /\ \A d \in doomed : handle[d] % slotSize = scan => handle[d] = victim
      /\ \A d \in doomed : handle[d] # 0 /\ handle[d] % slotSize >= scan
      /\ doomed \subseteq Context
  BY <1>1 DEF StorageInv, PassAhead, Handles!TypeOK
<1>3. slotSize \in Nat /\ HandleMask \in Nat /\ victim \in 1 .. HandleMask
  BY <1>1, ScanTyped
<1>4. scan' \in -1 .. slotSize /\ victim' \in 0 .. HandleMask
  BY <1>1, <1>2, <1>3
\* What is left is ahead.
<1>5. ASSUME NEW d \in doomed, handle[d] # victim PROVE handle[d] % slotSize >= scan + 1
  <2>1. handle[d] % slotSize # scan /\ handle[d] % slotSize >= scan
    BY <1>2, <1>5
  <2>2. handle[d] \in 0 .. HandleMask
    BY <1>2 DEF StorageInv, Handles!TypeOK
  <2>3. handle[d] % slotSize \in 0 .. slotSize - 1
    BY <2>2, Typed DEF StorageInv
  <2> QED BY <1>2, <1>3, <2>1, <2>3
<1>6. CASE Handles!Unregister(victim) /\ retired' = TRUE
  <2>1. /\ UNCHANGED <<slotSize, handleIndex, given, status>>
        /\ slot' \in [0 .. slotSize - 1 -> Context \cup {Null}]
        /\ handle' \in [Context -> 0 .. HandleMask]
        /\ NamesKept(names') /\ Housed(slot, slotSize)' /\ OneGiven'
    BY <1>3, <1>6, Unregistered
  <2>2. PICK c \in Context :
          /\ handle[c] = victim /\ doomed' = doomed \ {c}
          /\ \A d \in Context : d # c => handle'[d] = handle[d]
    BY <1>3, <1>6, Unregistered
  <2>3. Handles!TypeOK'
    BY <1>4, <1>6, <2>1, <2>2 DEF StorageInv, Handles!TypeOK, NamesKept
  <2>4. ASSUME NEW d \in doomed' PROVE handle'[d] # 0 /\ handle'[d] % slotSize >= scan + 1
    <3>1. d \in doomed /\ d \in Context /\ d # c /\ handle'[d] = handle[d]
      BY <1>2, <2>2
    <3>2. handle[d] # victim
      <4>1. Handles!Lookup(victim) = c
        BY <1>3, <2>2, LookupFinds
      <4>2. handle[d] = victim => Handles!Lookup(victim) = d
        BY <1>3, <3>1, LookupFinds
      <4> QED BY <3>1, <4>1, <4>2
    <3> QED BY <1>2, <1>5, <3>1, <3>2
  <2>5. PassAhead'
    BY <1>1, <2>1, <2>4 DEF PassAhead
  <2>6. Sorted(names)'
    BY <2>1 DEF NamesKept, Sorted
  <2> QED BY <2>1, <2>3, <2>5, <2>6
          DEF StorageInv, Handles!FailsOnlyWrapping, Handles!NewSlotsDistinct
<1>7. CASE /\ Handles!Lookup(victim) = Null
           /\ UNCHANGED <<slotSize, slot, handleIndex, handle, given, names, status, retired, doomed>>
  <2>1. ASSUME NEW d \in doomed PROVE handle[d] # 0 /\ handle[d] % slotSize >= scan + 1
    <3>1. d \in Context /\ d # Null /\ handle[d] # 0
      BY <1>2, Typed DEF StorageInv
    <3>2. handle[d] # victim
      BY <1>3, <1>7, <3>1, LookupFinds
    <3> QED BY <1>5, <3>1, <3>2
  <2>2. PassAhead'
    BY <1>1, <1>7, <2>1 DEF PassAhead
  <2>3. retired' \in BOOLEAN /\ doomed' \subseteq Context
    BY <1>2, <1>7 DEF StorageInv, Handles!TypeOK
  <2> QED BY <1>4, <1>7, <2>2, <2>3, PassStepKeeps
<1> QED BY <1>1, <1>6, <1>7

LEMMA AbortReturnKeeps ==
  ASSUME StorageInv, Handles!AbortReturn
  PROVE  StorageInv'
<1>1. /\ scan' = -1 /\ ~ Handles!InTable(scan)
      /\ UNCHANGED <<slotSize, slot, handleIndex, handle, given, names, status, victim, retired, doomed>>
  BY DEF Handles!AbortReturn, Handles!PassOver, Handles!table
<1>2. victim = 0 /\ slotSize \in Nat /\ HandleMask \in Nat /\ victim \in 0 .. HandleMask
  BY <1>1, ScanTyped
<1>3. scan' \in -1 .. slotSize /\ victim' \in 0 .. HandleMask
  BY <1>1, <1>2
<1>4. doomed \subseteq Context /\ retired \in BOOLEAN /\ scan \in -1 .. slotSize
  BY DEF StorageInv, Handles!TypeOK
<1>5. PassAhead'
  <2>1. ASSUME NEW d \in doomed PROVE handle[d] # 0 /\ handle[d] % slotSize >= -1
    <3>1. handle[d] # 0 /\ d \in Context
      BY <1>4 DEF StorageInv, PassAhead
    <3>2. handle[d] \in Nat /\ slotSize \in Nat /\ slotSize >= 2
      BY <3>1, Typed DEF StorageInv
    <3>3. handle[d] % slotSize \in 0 .. slotSize - 1
      BY <3>2
    <3> QED BY <3>1, <3>2, <3>3
  <2> QED BY <1>1, <1>2, <2>1 DEF PassAhead
<1> QED BY <1>1, <1>3, <1>4, <1>5, PassStepKeeps

LEMMA StorageNext == StorageInv /\ [Handles!Next]_(Handles!vars) => StorageInv'
<1> SUFFICES ASSUME StorageInv, [Handles!Next]_(Handles!vars) PROVE StorageInv'
  OBVIOUS
<1>1. ASSUME NEW c \in Context, Handles!Register(c) PROVE StorageInv'
  BY <1>1, RegisterKeeps
<1>2. ASSUME NEW c \in Context, Handles!Assign(c) PROVE StorageInv'
  BY <1>2, AssignKeeps
<1>3. ASSUME NEW h \in 1 .. HandleMask, Handles!Retire(h) PROVE StorageInv'
  BY <1>3, RetireKeeps
<1>4. ASSUME NEW h \in 1 .. HandleMask, NEW n \in Name, Handles!NameHandle(n, h)
      PROVE  StorageInv'
  BY <1>4, NameHandleKeeps
<1>5. CASE Handles!AbortCall
  BY <1>5, BeginPassKeeps, ScanTyped DEF Handles!AbortCall
<1>6. CASE Handles!AbortRead
  BY <1>6, AbortReadKeeps
<1>7. CASE Handles!AbortRetire
  BY <1>7, AbortRetireKeeps
<1>8. CASE Handles!AbortAgain
  BY <1>8, BeginPassKeeps, ScanTyped DEF Handles!AbortAgain, Handles!PassOver
<1>9. CASE Handles!AbortReturn
  BY <1>9, AbortReturnKeeps
<1>10. CASE UNCHANGED Handles!vars
  <2>1. UNCHANGED <<slotSize, slot, handleIndex, handle, given, names, status, scan, victim, retired, doomed>>
    BY <1>10 DEF Handles!vars, Handles!table, Handles!abort
  <2>2. PassAhead'
    BY <2>1 DEF StorageInv, PassAhead
  <2>3. /\ scan' \in -1 .. slotSize /\ victim' \in 0 .. HandleMask /\ retired' \in BOOLEAN
        /\ doomed' \subseteq Context
    BY <2>1 DEF StorageInv, Handles!TypeOK
  <2> QED BY <2>1, <2>2, <2>3, PassStepKeeps
<1> QED BY <1>1, <1>2, <1>3, <1>4, <1>5, <1>6, <1>7, <1>8, <1>9, <1>10 DEF Handles!Next

\* A pass of skynet_handle_retireall ends when nothing is ahead of it.
LEMMA PassEnds ==
  StorageInv => (Handles!AbortAgain \/ Handles!AbortReturn => doomed = {})
<1> SUFFICES ASSUME StorageInv, Handles!PassOver PROVE doomed = {}
  BY DEF Handles!AbortAgain, Handles!AbortReturn
<1>1. scan \in -1 .. slotSize /\ scan # -1 /\ ~ (scan < slotSize) /\ slotSize \in Nat
  BY ScanTyped DEF Handles!PassOver, Handles!InTable
<1>2. ASSUME NEW d \in doomed PROVE FALSE
  <2>1. handle[d] % slotSize >= scan /\ handle[d] \in 0 .. HandleMask
    BY DEF StorageInv, PassAhead, Handles!TypeOK
  <2>2. handle[d] % slotSize \in 0 .. slotSize - 1
    BY <2>1, Typed DEF StorageInv
  <2> QED BY <1>1, <2>1, <2>2
<1> QED BY <1>2

\* The storage keeps its invariants, fails for want of a free slot only where
\* the handles have wrapped around, never moves two contexts into one slot of
\* a larger table, and skynet_handle_retireall ends no pass before every
\* service that was there is retired: for any number of services, handles
\* and names, with one thread in skynet_context_new at a time.
THEOREM StorageTheorem ==
  Handles!Spec => StorageHolds /\ []Handles!NewSlotsDistinct
<1>1. StorageInv =>
        /\ Handles!TypeOK /\ Handles!NewSlotsDistinct
        /\ on = "table" => Table!FailsOnlyWrapping
  BY DEF StorageInv, Handles!FailsOnlyWrapping, Table!FailsOnlyWrapping
<1>2. StorageInv => [Handles!AbortAgain \/ Handles!AbortReturn => doomed = {}]_(Handles!vars)
  BY PassEnds
<1> QED BY <1>1, <1>2, StorageInit, StorageNext, PTL
        DEF Handles!Spec, StorageHolds, Handles!PassCovers

-----------------------------------------------------------------------------
(***************************************************************************)
(* The storage implements the directory.                                   *)
(***************************************************************************)
\* What skynet_handle_grab and skynet_handle_findname return.
LookupsFind ==
  \A h \in 1 .. HandleMask :
    /\ Handles!Lookup(h) \in Context \cup {Null}
    /\ \A c \in Context : Handles!Lookup(h) = c <=> handle[c] = h

NamesFound == \A n \in Name : Handles!FindName(n) = BoundTo(names, n)

LEMMA Found == StorageInv => LookupsFind /\ NamesFound
<1>1. StorageInv => LookupsFind
  BY LookupFinds DEF LookupsFind
<1>2. StorageInv => NamesKept(names)
  BY Typed DEF StorageInv
<1> QED BY <1>1, <1>2, FindNameFinds DEF NamesFound

LEMMA FoundAfter == StorageInv' => LookupsFind' /\ NamesFound'
BY Found, PTL

LEMMA DirectoryInit == Handles!Init => Handles!Book!Init
<1> SUFFICES ASSUME Handles!Init PROVE Handles!Book!Init
  OBVIOUS
<1>1. LookupsFind /\ NamesFound
  BY StorageInit, Found
<1>2. \A h \in 1 .. HandleMask : Handles!Lookup(h) = Null
  <2>1. \A c \in Context : handle[c] = 0
    BY DEF Handles!Init
  <2> QED BY <1>1, <2>1 DEF LookupsFind
<1>3. \A n \in Name : Handles!FindName(n) = 0
  <2>1. \A n \in Name : BoundTo(names, n) = 0
    BY DEF BoundTo, Handles!Init
  <2> QED BY <1>1, <2>1 DEF NamesFound
<1> QED BY <1>2, <1>3 DEF Handles!Book!Init

\* The directory, as the storage has it.
Services == [h \in 1 .. HandleMask |-> Handles!Lookup(h)]
Bindings == [n \in Name |-> Handles!FindName(n)]

\* A step that gives no context its handle and takes none away leads to the
\* same services.
LEMMA SameServices ==
  ASSUME LookupsFind, LookupsFind', UNCHANGED handle
  PROVE  UNCHANGED Services
<1>1. ASSUME NEW h \in 1 .. HandleMask PROVE Handles!Lookup(h)' = Handles!Lookup(h)
  <2>1. /\ Handles!Lookup(h) \in Context \cup {Null} /\ Handles!Lookup(h)' \in Context \cup {Null}
        /\ \A c \in Context : Handles!Lookup(h) = c <=> Handles!Lookup(h)' = c
    BY DEF LookupsFind
  <2> QED BY <2>1
<1> QED BY <1>1 DEF Services

LEMMA SameBindings ==
  ASSUME NamesFound, NamesFound', UNCHANGED names
  PROVE  UNCHANGED Bindings
<1>1. \A n \in Name : Handles!FindName(n)' = Handles!FindName(n)
  BY DEF NamesFound
<1> QED BY <1>1 DEF Bindings

LEMMA DirectoryNext ==
  StorageInv /\ StorageInv' /\ [Handles!Next]_(Handles!vars) =>
    [Handles!Book!Next]_(Handles!Book!vars)
<1> SUFFICES ASSUME StorageInv, StorageInv', [Handles!Next]_(Handles!vars)
             PROVE  [Handles!Book!Next]_(Handles!Book!vars)
  OBVIOUS
<1>1. LookupsFind /\ NamesFound /\ LookupsFind' /\ NamesFound'
  BY Found, FoundAfter
<1>2. ASSUME UNCHANGED <<handle, names>> PROVE UNCHANGED Handles!Book!vars
  <2>1. UNCHANGED Services /\ UNCHANGED Bindings
    BY <1>1, <1>2, SameServices, SameBindings
  <2> QED BY <2>1 DEF Handles!Book!vars, Services, Bindings
<1>3. \A h \in 1 .. HandleMask : Services[h] = Handles!Lookup(h) /\ Services'[h] = Handles!Lookup(h)'
  BY DEF Services
<1>4. \A n \in Name : Bindings[n] = BoundTo(names, n) /\ Bindings'[n] = BoundTo(names', n)
  BY <1>1 DEF Bindings, NamesFound
<1>5. /\ HandleMask \in Nat /\ Null \notin Context /\ NamesKept(names)
      /\ \A c \in Context : handle[c] \in 0 .. HandleMask /\ given[c] \in 0 .. HandleMask
      /\ handle \in [Context -> 0 .. HandleMask]
  BY Typed DEF StorageInv, Handles!TypeOK
<1>6. ASSUME NEW c \in Context, Handles!Register(c) PROVE UNCHANGED Handles!Book!vars
  BY <1>2, <1>6 DEF Handles!Register
<1>7. ASSUME NEW c \in Context, Handles!Assign(c) PROVE Handles!Book!Next
  <2> DEFINE a == given[c]
  <2>1. /\ a \in 1 .. HandleMask /\ handle[c] = 0
        /\ handle' = [handle EXCEPT ![c] = a] /\ UNCHANGED names
    BY <1>5, <1>7 DEF Handles!Assign, StorageInv, OneGiven
  <2>2. /\ handle'[c] = a
        /\ \A d \in Context : d # c => handle'[d] = handle[d]
    BY <1>5, <2>1
  <2>3. \A d \in Context : handle[d] # a
    <3>1. AddressOf(c) = a /\ slot[a % slotSize] = c
      BY <2>1 DEF AddressOf, StorageInv, Housed
    <3>2. ASSUME NEW d \in Context, handle[d] = a PROVE FALSE
      <4>1. AddressOf(d) = a
        BY <2>1, <3>2 DEF AddressOf
      <4>2. slot[a % slotSize] = d
        BY <2>1, <4>1 DEF StorageInv, Housed
      <4> QED BY <2>1, <3>1, <3>2, <4>2
    <3> QED BY <3>2
  <2> HIDE DEF a
  <2>4. Services[a] = Null
    BY <1>1, <1>3, <2>1, <2>3 DEF LookupsFind
  <2>5. \A b \in 1 .. HandleMask : Services[b] # c
    BY <1>1, <1>3, <2>1 DEF LookupsFind
  <2>6. Services' = [Services EXCEPT ![a] = c]
    <3>1. Services'[a] = c
      BY <1>1, <1>3, <2>1, <2>2 DEF LookupsFind
    <3>2. ASSUME NEW b \in 1 .. HandleMask, b # a PROVE Services'[b] = Services[b]
      <4>1. /\ Handles!Lookup(b) \in Context \cup {Null} /\ Handles!Lookup(b)' \in Context \cup {Null}
            /\ \A d \in Context : Handles!Lookup(b) = d <=> handle[d] = b
            /\ \A d \in Context : Handles!Lookup(b)' = d <=> handle'[d] = b
        BY <1>1 DEF LookupsFind
      <4>2. \A d \in Context : handle'[d] = b <=> handle[d] = b
        BY <2>1, <2>2, <3>2
      <4> QED BY <1>3, <4>1, <4>2
    <3>3. Services' = [h \in 1 .. HandleMask |-> Services'[h]]
      BY DEF Services
    <3>4. Services = [h \in 1 .. HandleMask |-> Services[h]]
      BY DEF Services
    <3> QED BY <2>1, <3>1, <3>2, <3>3, <3>4
  <2>7. Bindings' = Bindings
    BY <1>1, <2>1, SameBindings
  <2>8. Handles!Book!Register(a, c)
    BY <2>4, <2>5, <2>6, <2>7 DEF Handles!Book!Register, Services, Bindings
  <2> QED BY <2>1, <2>8 DEF Handles!Book!Next
<1>8. ASSUME NEW h \in 1 .. HandleMask, Handles!Unregister(h) PROVE Handles!Book!Next
  <2>1. /\ NamesKept(names')
        /\ \A n \in Name : BoundTo(names', n) =
             IF BoundTo(names, n) = h THEN 0 ELSE BoundTo(names, n)
    BY <1>8, Unregistered
  <2>2. PICK c \in Context :
          /\ handle[c] = h /\ handle'[c] = 0
          /\ \A d \in Context : d # c => handle'[d] = handle[d]
    BY <1>8, Unregistered
  <2>3. Services[h] # Null
    BY <1>1, <1>3, <1>5, <2>2 DEF LookupsFind
  <2>4. Services' = [Services EXCEPT ![h] = Null]
    <3>1. \A d \in Context : handle'[d] # h
      <4>1. \A d \in Context : handle[d] = h => d = c
        BY <1>1, <2>2 DEF LookupsFind
      <4> QED BY <2>2, <4>1
    <3>2. Services'[h] = Null
      BY <1>1, <1>3, <3>1 DEF LookupsFind
    <3>3. ASSUME NEW b \in 1 .. HandleMask, b # h PROVE Services'[b] = Services[b]
      <4>1. /\ Handles!Lookup(b) \in Context \cup {Null} /\ Handles!Lookup(b)' \in Context \cup {Null}
            /\ \A d \in Context : Handles!Lookup(b) = d <=> handle[d] = b
            /\ \A d \in Context : Handles!Lookup(b)' = d <=> handle'[d] = b
        BY <1>1 DEF LookupsFind
      <4>2. \A d \in Context : handle'[d] = b <=> handle[d] = b
        BY <2>2, <3>3
      <4> QED BY <1>3, <4>1, <4>2
    <3>4. Services' = [k \in 1 .. HandleMask |-> Services'[k]]
      BY DEF Services
    <3>5. Services = [k \in 1 .. HandleMask |-> Services[k]]
      BY DEF Services
    <3> QED BY <3>2, <3>3, <3>4, <3>5
  <2>5. Bindings' = [n \in Name |-> IF Bindings[n] = h THEN 0 ELSE Bindings[n]]
    <3>1. Bindings' = [n \in Name |-> Bindings'[n]]
      BY DEF Bindings
    <3> QED BY <1>4, <2>1, <3>1
  <2>6. Handles!Book!Retire(h)
    BY <2>3, <2>4, <2>5 DEF Handles!Book!Retire, Services, Bindings
  <2> QED BY <2>6 DEF Handles!Book!Next
<1>9. ASSUME NEW h \in 1 .. HandleMask, NEW n \in Name, Handles!NameHandle(n, h)
      PROVE  Handles!Book!Next
  <2>1. /\ ~ Handles!Search(n).found /\ names' = Handles!InsertName(n, h) /\ UNCHANGED handle
    BY <1>9 DEF Handles!NameHandle
  <2>2. /\ BoundTo(names, n) = 0
        /\ \A m \in Name : BoundTo(names', m) = IF m = n THEN h ELSE BoundTo(names, m)
    BY <1>5, <2>1, Inserted
  <2>3. Services' = Services
    BY <1>1, <2>1, SameServices
  <2>4. Bindings' = [Bindings EXCEPT ![n] = h]
    <3>1. Bindings' = [m \in Name |-> Bindings'[m]]
      BY DEF Bindings
    <3>2. Bindings = [m \in Name |-> Bindings[m]]
      BY DEF Bindings
    <3> QED BY <1>4, <2>2, <3>1, <3>2
  <2>5. Handles!Book!Bind(n, h)
    <3>1. Bindings[n] = 0
      BY <1>4, <2>2
    <3> QED BY <2>3, <2>4, <3>1 DEF Handles!Book!Bind, Services, Bindings
  <2> QED BY <2>5 DEF Handles!Book!Next
<1>10. ASSUME NEW h \in 1 .. HandleMask, Handles!Retire(h) PROVE Handles!Book!Next
  BY <1>8, <1>10 DEF Handles!Retire
<1>11. CASE Handles!AbortRetire
  <2>1. CASE Handles!Unregister(victim)
    <3>1. victim \in 1 .. HandleMask
      BY <1>11, ScanTyped DEF Handles!AbortRetire
    <3> QED BY <1>8, <2>1, <3>1
  <2>2. CASE UNCHANGED <<handle, names>>
    BY <1>2, <2>2
  <2> QED BY <1>11, <2>1, <2>2 DEF Handles!AbortRetire
<1>12. CASE Handles!AbortCall \/ Handles!AbortRead \/ Handles!AbortAgain \/ Handles!AbortReturn
  BY <1>2, <1>12 DEF Handles!AbortCall, Handles!AbortRead, Handles!AbortAgain,
     Handles!AbortReturn, Handles!BeginPass
<1>13. CASE UNCHANGED Handles!vars
  BY <1>2, <1>13 DEF Handles!vars
<1> QED BY <1>6, <1>7, <1>9, <1>10, <1>11, <1>12, <1>13 DEF Handles!Next

\* Through every growth of the table, every reuse of a slot, a handle or a
\* context's memory and every change of the array of names, the storage is
\* the directory: skynet_handle_grab and skynet_handle_findname find what was
\* registered and not retired, for any number of services, handles and names.
THEOREM DirectoryTheorem == Handles!Spec => ImplementsDirectory
<1>1. Handles!Spec => []StorageInv
  BY StorageInit, StorageNext, PTL DEF Handles!Spec
<1> QED BY <1>1, DirectoryInit, DirectoryNext, PTL
        DEF Handles!Spec, ImplementsDirectory, Handles!ImplementsDirectory, Handles!Book!Spec

-----------------------------------------------------------------------------
(***************************************************************************)
(* The overload warning of a message queue.                                *)
(***************************************************************************)
\* The loop of skynet_mq_pop that raises the threshold ends at or above the
\* length, and not above its double.
LEMMA RaisedFacts ==
  ASSUME NEW n \in Nat, threshold \in Nat \ {0}
  PROVE  /\ Raised(n) \in Nat \ {0}
         /\ Raised(n) >= n /\ Raised(n) >= threshold
         /\ n <= threshold => Raised(n) = threshold
         /\ n > threshold => Raised(n) < 2 * n
<1> DEFINE P == Nat \ {0}
           equation(d) == [k \in 0 .. n |->
                             IF k = 0 THEN threshold
                             ELSE IF n > d[k - 1] THEN 2 * d[k - 1] ELSE d[k - 1]]
           double == CHOOSE d : d = equation(d)
           step == [k \in Nat |-> [x \in P |-> IF n > x THEN 2 * x ELSE x]]
<1>1. Raised(n) = double[n]
  BY Zenon DEF Raised
<1>2. double = equation(double)
  <2>1. step \in [Nat -> [P -> P]]
    OBVIOUS
  <2>2. \A k \in Nat, x \in P : step[k][x] = IF n > x THEN 2 * x ELSE x
    OBVIOUS
  <2> HIDE DEF step
  <2>3. PICK f \in [0 .. n -> P] : Recursive(f, threshold, step, n)
    <3> HIDE DEF P
    <3> QED BY <2>1, Recursion DEF P
  <2>4. \A k \in 0 .. n : f[k] = IF k = 0 THEN threshold ELSE step[k][f[k - 1]]
    BY <2>3 DEF Recursive
  <2>5. ASSUME NEW k \in 0 .. n, k # 0
        PROVE  f[k] = IF n > f[k - 1] THEN 2 * f[k - 1] ELSE f[k - 1]
    <3>1. k \in Nat /\ f[k - 1] \in P
      BY <2>5
    <3> QED BY <2>2, <2>4, <2>5, <3>1
  <2>6. f = equation(f)
    BY <2>4, <2>5
  <2> QED BY <2>6, Zenon DEF double
<1>3. \A k \in 0 .. n : double[k] =
        IF k = 0 THEN threshold
        ELSE IF n > double[k - 1] THEN 2 * double[k - 1] ELSE double[k - 1]
  BY <1>2 DEF equation
<1> HIDE DEF double, equation
\* What k doublings reach: the length, or at least k + 1.
<1> DEFINE good(x, k) ==
             /\ x \in Nat \ {0} /\ x >= threshold
             /\ x >= n \/ x >= k + 1
             /\ n <= threshold => x = threshold
             /\ n > threshold => x < 2 * n
           T == {k \in Nat : k <= n => good(double[k], k)}
<1>4. 0 \in T
  BY <1>3
<1>5. ASSUME NEW k \in Nat, k \in T PROVE k + 1 \in T
  <2> SUFFICES ASSUME k + 1 <= n PROVE good(double[k + 1], k + 1)
    OBVIOUS
  <2>1. good(double[k], k)
    BY <1>5
  <2>2. double[k + 1] = IF n > double[k] THEN 2 * double[k] ELSE double[k]
    BY <1>3
  <2> QED BY <2>1, <2>2
<1>6. n \in T
  <2> HIDE DEF T
  <2> QED BY <1>4, <1>5, AllNumbers
<1> QED BY <1>1, <1>6

\* The length last announced, or about to be, since the queue was empty.
Announced == IF overload # 0 THEN overload ELSE warned

\* The threshold never runs more than a doubling ahead of what was announced,
\* nor behind it; a length waiting to be announced exceeds those before it.
BacklogInv ==
  /\ TypeOK
  /\ threshold >= Overload
  /\ warned <= threshold /\ overload <= threshold
  /\ pc = "idle" => overload = 0
  /\ threshold > Overload => 2 * Announced > threshold
  /\ overload # 0 => overload > warned

LEMMA BacklogInit == Init => BacklogInv
BY SizeAssumption DEF Init, BacklogInv, TypeOK, Announced

\* A pop, with the length n it leaves.
LEMMA PopLength ==
  ASSUME TypeOK, Pop
  PROVE  /\ Between(head', tail, cap) \in Nat
         /\ Between(head', tail, cap) = Between(After(head, cap), tail, cap)
<1>1. IsRing(queue, After(head, cap), tail, cap, Msg \cup {Garbage}) /\ head' = After(head, cap)
  BY TakeFirst DEF TypeOK, IsRing, Pop
<1>2. Between(After(head, cap), tail, cap) \in 0 .. cap - 1 /\ cap \in Nat
  BY <1>1, ContentFacts DEF TypeOK
<1> QED BY <1>1, <1>2

LEMMA BacklogNext == BacklogInv /\ [Next]_vars => BacklogInv'
<1> SUFFICES ASSUME BacklogInv, [Next]_vars PROVE BacklogInv'
  OBVIOUS
<1>1. IsRing(queue', head', tail', cap', Msg \cup {Garbage})
  BY RingStep DEF BacklogInv, TypeOK, RingOK, IsRing
<1>2. cap' \in Nat \ {0, 1}
  <2>1. cap \in Nat \ {0, 1}
    BY DEF BacklogInv, TypeOK
  <2> QED BY <2>1 DEF Next, Pop, PopEmpty, ReadOverload, Push, vars, ring
<1>3. overload \in Nat /\ threshold \in Nat \ {0} /\ warned \in Nat /\ pc \in {"idle", "popped"}
  BY DEF BacklogInv, TypeOK
<1> DEFINE Counters ==
             /\ overload' \in Nat /\ threshold' \in Nat \ {0} /\ warned' \in Nat
             /\ pc' \in {"idle", "popped"}
             /\ threshold' >= Overload
             /\ warned' <= threshold' /\ overload' <= threshold'
             /\ pc' = "idle" => overload' = 0
             /\ threshold' > Overload => 2 * Announced' > threshold'
             /\ overload' # 0 => overload' > warned'
<1>4. CASE Pop
  <2> DEFINE n == Between(After(head, cap), tail, cap)
  <2>1. n \in Nat
    BY <1>4, PopLength DEF BacklogInv
  <2>2. /\ overload = 0 /\ threshold' = Raised(n) /\ pc' = "popped" /\ warned' = warned
        /\ overload' = IF n > threshold THEN n ELSE overload
    BY <1>4 DEF Pop, BacklogInv
  <2> HIDE DEF n
  <2>3. /\ Raised(n) \in Nat \ {0}
        /\ Raised(n) >= n /\ Raised(n) >= threshold
        /\ n <= threshold => Raised(n) = threshold
        /\ n > threshold => Raised(n) < 2 * n
    BY <1>3, <2>1, RaisedFacts
  <2>4. Counters
    BY <1>3, <2>1, <2>2, <2>3, SizeAssumption DEF BacklogInv, Announced
  <2> QED BY <1>1, <1>2, <2>4 DEF BacklogInv, TypeOK, IsRing
<1>5. CASE PopEmpty
  <2>1. Counters
    BY <1>3, <1>5, SizeAssumption DEF BacklogInv, Announced, PopEmpty
  <2> QED BY <1>1, <1>2, <2>1 DEF BacklogInv, TypeOK, IsRing
<1>6. CASE ReadOverload
  <2>1. Counters
    BY <1>3, <1>6, SizeAssumption DEF BacklogInv, Announced, ReadOverload
  <2> QED BY <1>1, <1>2, <2>1 DEF BacklogInv, TypeOK, IsRing
<1>7. CASE UNCHANGED <<overload, threshold, warned, pc>>
  <2>1. Counters
    BY <1>3, <1>7 DEF BacklogInv, Announced
  <2> QED BY <1>1, <1>2, <2>1 DEF BacklogInv, TypeOK, IsRing
<1> QED BY <1>4, <1>5, <1>6, <1>7 DEF Next, Push, vars

\* A pop that leaves more than MQ_OVERLOAD messages leaves less than twice the
\* length last announced.
LEMMA PopAnnounced ==
  ASSUME BacklogInv, Pop
  PROVE  LET n == Between(head', tail, cap)
             announced == IF overload' # 0 THEN overload' ELSE warned
         IN n > Overload => 2 * announced > n
<1> DEFINE n == Between(After(head, cap), tail, cap)
<1>1. n \in Nat /\ Between(head', tail, cap) = n
  BY PopLength DEF BacklogInv
<1>2. overload = 0 /\ overload' = IF n > threshold THEN n ELSE overload
  BY DEF Pop, BacklogInv
<1>3. warned \in Nat /\ threshold \in Nat /\ Overload \in Nat
  BY SizeAssumption DEF BacklogInv, TypeOK
<1>4. threshold > Overload => 2 * warned > threshold
  BY <1>2 DEF BacklogInv, Announced
<1> HIDE DEF n
<1> QED BY <1>1, <1>2, <1>3, <1>4

\* skynet_mq_pop and skynet_mq_overload: for any threshold, a backlog is
\* announced each time it doubles, only once, and nothing is left to announce
\* of a queue that was found empty.
THEOREM BacklogTheorem == Spec => BacklogToldOnce
<1>1. Spec => []BacklogInv
  BY BacklogInit, BacklogNext, PTL DEF Spec
<1>2. BacklogInv => TypeOK
  BY DEF BacklogInv
<1>3. BacklogInv /\ [Next]_vars =>
        [Pop => LET n == Between(head', tail, cap)
                    announced == IF overload' # 0 THEN overload' ELSE warned
                IN n > Overload => 2 * announced > n]_vars
  BY PopAnnounced
<1>4. BacklogInv => (pc = "popped" /\ overload # 0 => overload > warned)
  BY DEF BacklogInv
<1>5. BacklogInv /\ [Next]_vars =>
        [pc = "popped" /\ overload # 0 => overload > warned]_vars
  BY <1>4
<1> QED BY <1>1, <1>2, <1>3, <1>5, PTL
        DEF Spec, BacklogToldOnce, BacklogAnnounced, NoWarningTwice

-----------------------------------------------------------------------------
(***************************************************************************)
(* The timing wheel.  First the digits of a time.                          *)
(***************************************************************************)
\* A quotient and a remainder are the only ones.
LEMMA Quotient ==
  ASSUME NEW n \in Nat \ {0}, NEW q \in Int, NEW r \in 0 .. n - 1
  PROVE  (n * q + r) \div n = q /\ (n * q + r) % n = r
<1> DEFINE a == n * q + r
           k == a \div n
           s == a % n
<1>1. a \in Int /\ k \in Int /\ s \in 0 .. n - 1 /\ a = n * k + s
  OBVIOUS
<1> HIDE DEF k, s
<1>2. n * (q - k) = s - r
  BY <1>1
<1> HIDE DEF a
<1>3. q - k >= 1 => n * (q - k) >= n
  BY <1>1
<1>4. q - k <= -1 => n * (q - k) <= -n
  BY <1>1
<1>5. q = k
  BY <1>1, <1>2, <1>3, <1>4
<1>6. s = r
  BY <1>1, <1>2, <1>5
<1> QED BY <1>5, <1>6 DEF a, k, s

\* A digit counts up, or carries.
LEMMA Carry ==
  ASSUME NEW n \in Nat \ {0}, NEW a \in Nat
  PROVE  \/ (a + 1) \div n = a \div n /\ (a + 1) % n = (a % n) + 1
         \/ (a + 1) \div n = (a \div n) + 1 /\ (a + 1) % n = 0
<1> DEFINE q == a \div n
           r == a % n
<1>1. q \in Nat /\ r \in 0 .. n - 1 /\ a = n * q + r
  BY Division
<1> HIDE DEF q, r
<1>2. CASE r + 1 < n
  <2>1. a + 1 = n * q + (r + 1) /\ r + 1 \in 0 .. n - 1
    BY <1>1, <1>2
  <2>2. (a + 1) \div n = q /\ (a + 1) % n = r + 1
    BY <1>1, <2>1, Quotient
  <2> QED BY <2>2 DEF q, r
<1>3. CASE r + 1 >= n
  <2>1. r + 1 = n
    BY <1>1, <1>3
  <2>2. n * (q + 1) = n * q + n
    BY <1>1
  <2>3. a + 1 = n * (q + 1) + 0 /\ 0 \in 0 .. n - 1 /\ q + 1 \in Int
    BY <1>1, <2>1, <2>2
  <2>4. (a + 1) \div n = q + 1 /\ (a + 1) % n = 0
    BY <2>3, Quotient
  <2> QED BY <2>4 DEF q
<1> QED BY <1>1, <1>2, <1>3

\* Dividing twice.
LEMMA Twice ==
  ASSUME NEW n \in Nat \ {0}, NEW m \in Nat \ {0}, NEW a \in Nat
  PROVE  a \div (n * m) = (a \div n) \div m
<1> DEFINE q == a \div n
           r == a % n
           p == q \div m
           s == q % m
<1>1. q \in Nat /\ r \in 0 .. n - 1 /\ a = n * q + r
  BY Division
<1>2. p \in Nat /\ s \in 0 .. m - 1 /\ q = m * p + s
  BY <1>1, Division
<1> HIDE DEF q, r, p, s
<1>3. n * s + r \in 0 .. n * m - 1
  <2>1. n * s <= n * (m - 1) /\ n * s >= 0
    BY <1>2
  <2>2. n * (m - 1) = n * m - n
    OBVIOUS
  <2> QED BY <1>1, <1>2, <2>1, <2>2
<1>4. a = (n * m) * p + (n * s + r)
  <2>1. n * q = n * (m * p) + n * s
    BY <1>1, <1>2
  <2>2. n * (m * p) = (n * m) * p
    BY <1>2
  <2> QED BY <1>1, <1>2, <2>1, <2>2
<1>5. n * m \in Nat \ {0}
  OBVIOUS
<1>6. a \div (n * m) = p
  BY <1>2, <1>3, <1>4, <1>5, Quotient
<1> QED BY <1>6 DEF p, q

\* Dividing keeps the order.
LEMMA Monotone ==
  ASSUME NEW n \in Nat \ {0}, NEW a \in Nat, NEW b \in Nat, a <= b
  PROVE  a \div n <= b \div n
<1> DEFINE q == a \div n
           r == a % n
           p == b \div n
           s == b % n
<1>1. q \in Nat /\ r \in 0 .. n - 1 /\ a = n * q + r
  BY Division
<1>2. p \in Nat /\ s \in 0 .. n - 1 /\ b = n * p + s
  BY Division
<1> HIDE DEF q, r, p, s
<1>3. CASE q >= p + 1
  <2>1. n * q >= n * (p + 1)
    BY <1>1, <1>2, <1>3
  <2>2. n * (p + 1) = n * p + n
    BY <1>2
  <2> QED BY <1>1, <1>2, <2>1, <2>2
<1>4. q <= p
  BY <1>1, <1>2, <1>3
<1> QED BY <1>4 DEF q, p

\* The units of the digits divide one another.
LEMMA Units ==
  /\ Wheel!Unit[0] = TIME_NEAR
  /\ \A i \in 0 .. 4 : Wheel!Unit[i] \in Nat \ {0}
  /\ \A i \in 0 .. 3 : Wheel!Unit[i + 1] = Wheel!Unit[i] * TIME_LEVEL
<1> DEFINE N == TIME_NEAR
           L == TIME_LEVEL
           equation(u) == [i \in 0 .. 4 |-> IF i = 0 THEN TIME_NEAR ELSE u[i - 1] * TIME_LEVEL]
           g == [i \in 0 .. 4 |-> IF i = 0 THEN N ELSE IF i = 1 THEN N * L
                                  ELSE IF i = 2 THEN N * L * L ELSE IF i = 3 THEN N * L * L * L
                                  ELSE N * L * L * L * L]
           u == Wheel!Unit
<1>1. u = CHOOSE f : f = equation(f)
  BY Zenon DEF Wheel!Unit
<1>2. g = equation(g)
  <2>1. /\ g[0] = N /\ g[1] = N * L /\ g[2] = N * L * L /\ g[3] = N * L * L * L
        /\ g[4] = N * L * L * L * L
    OBVIOUS
  <2> HIDE DEF N, L
  <2>2. ASSUME NEW i \in 0 .. 4 PROVE g[i] = IF i = 0 THEN N ELSE g[i - 1] * L
    <3>1. i = 0 \/ i = 1 \/ i = 2 \/ i = 3 \/ i = 4
      OBVIOUS
    <3> HIDE DEF g
    <3> QED BY <2>1, <3>1
  <2>3. g = [i \in 0 .. 4 |-> g[i]]
    OBVIOUS
  <2> HIDE DEF g
  <2> QED BY <2>2, <2>3 DEF N, L
<1>3. u = equation(u)
  <2> HIDE DEF equation, g, u
  <2> QED BY <1>1, <1>2, Zenon
<1>4. \A i \in 0 .. 4 : u[i] = IF i = 0 THEN N ELSE u[i - 1] * L
  <2>1. \A i \in 0 .. 4 : equation(u)[i] = IF i = 0 THEN N ELSE u[i - 1] * L
    BY DEF equation
  <2> HIDE DEF equation, g, u
  <2> QED BY <1>3, <2>1
<1> HIDE DEF equation, g, u, N, L
<1>5. u[0] = N /\ \A i \in 0 .. 3 : u[i + 1] = u[i] * L
  BY <1>4
<1>6. N \in Nat \ {0} /\ L \in Nat \ {0}
  BY WheelAssumption DEF N, L
<1>7. \A a, b \in Nat \ {0} : a * b \in Nat \ {0}
  OBVIOUS
<1>8. u[0] \in Nat \ {0} /\ u[1] \in Nat \ {0}
  BY <1>5, <1>6, <1>7
<1>9. u[2] \in Nat \ {0}
  <2>1. u[2] = u[1] * L
    BY <1>5
  <2> QED BY <1>6, <1>7, <1>8, <2>1
<1>10. u[3] \in Nat \ {0}
  <2>1. u[3] = u[2] * L
    BY <1>5
  <2> QED BY <1>6, <1>7, <1>9, <2>1
<1>11. u[4] \in Nat \ {0}
  <2>1. u[4] = u[3] * L
    BY <1>5
  <2> QED BY <1>6, <1>7, <1>10, <2>1
<1> QED BY <1>5, <1>8, <1>9, <1>10, <1>11 DEF u, N, L

\* A time and what is left of it from a digit on.
LEMMA Digits ==
  ASSUME NEW x \in Wheel!Time
  PROVE  /\ x \in Nat /\ x <= Wheel!Wrap - 1
         /\ \A i \in 0 .. 4 : Wheel!From(x, i) \in Nat
         /\ Wheel!From(x, 4) = 0
         /\ \A i \in 0 .. 3 : /\ Wheel!From(x, i + 1) = Wheel!From(x, i) \div TIME_LEVEL
                              /\ Wheel!LevelIndex(x, i) \in 0 .. TIME_LEVEL - 1
                              /\ Wheel!From(x, i)
                                   = TIME_LEVEL * Wheel!From(x, i + 1) + Wheel!LevelIndex(x, i)
         /\ Wheel!NearIndex(x) \in 0 .. TIME_NEAR - 1
         /\ x = TIME_NEAR * Wheel!From(x, 0) + Wheel!NearIndex(x)
<1>1. TIME_NEAR \in Nat \ {0} /\ TIME_LEVEL \in Nat \ {0}
  BY WheelAssumption
<1>2. Wheel!Wrap \in Nat \ {0} /\ Wheel!Wrap = Wheel!Unit[4]
  BY Units DEF Wheel!Wrap
<1>3. x \in Nat /\ x <= Wheel!Wrap - 1
  BY <1>2 DEF Wheel!Time
<1>4. ASSUME NEW i \in 0 .. 4 PROVE Wheel!From(x, i) \in Nat
  BY <1>3, Units, Division DEF Wheel!From
<1>5. Wheel!From(x, 4) = 0
  <2> DEFINE W == Wheel!Wrap
  <2>1. x = W * 0 + x /\ x \in 0 .. W - 1
    BY <1>2, <1>3
  <2> HIDE DEF W
  <2>2. x \div W = 0
    BY <1>2, <2>1, Quotient DEF W
  <2> QED BY <1>2, <2>2 DEF W, Wheel!From
<1>6. ASSUME NEW i \in 0 .. 3
      PROVE  Wheel!From(x, i + 1) = Wheel!From(x, i) \div TIME_LEVEL
  <2>1. Wheel!Unit[i + 1] = Wheel!Unit[i] * TIME_LEVEL /\ Wheel!Unit[i] \in Nat \ {0}
    BY Units
  <2>2. x \div (Wheel!Unit[i] * TIME_LEVEL) = (x \div Wheel!Unit[i]) \div TIME_LEVEL
    BY <1>1, <1>3, <2>1, Twice
  <2> QED BY <2>1, <2>2 DEF Wheel!From
<1>7. ASSUME NEW i \in 0 .. 3
      PROVE  /\ Wheel!LevelIndex(x, i) \in 0 .. TIME_LEVEL - 1
             /\ Wheel!From(x, i) = TIME_LEVEL * Wheel!From(x, i + 1) + Wheel!LevelIndex(x, i)
  <2>1. Wheel!From(x, i) \in Nat
    BY <1>4
  <2> QED BY <1>1, <1>6, <2>1, Division DEF Wheel!LevelIndex
<1>8. /\ Wheel!NearIndex(x) \in 0 .. TIME_NEAR - 1
      /\ x = TIME_NEAR * Wheel!From(x, 0) + Wheel!NearIndex(x)
  BY <1>1, <1>3, Units, Division DEF Wheel!From, Wheel!NearIndex
<1> QED BY <1>3, <1>4, <1>5, <1>6, <1>7, <1>8

\* Times that agree from a digit on agree from the next one on; two times that
\* agree from a digit on and in the digit before do so from that one on.
LEMMA Agree ==
  ASSUME NEW x \in Wheel!Time, NEW y \in Wheel!Time
  PROVE  /\ \A i \in 0 .. 3 : Wheel!From(x, i) = Wheel!From(y, i) =>
              Wheel!From(x, i + 1) = Wheel!From(y, i + 1)
         /\ \A i \in 0 .. 3 :
              Wheel!From(x, i + 1) = Wheel!From(y, i + 1) /\ Wheel!LevelIndex(x, i) = Wheel!LevelIndex(y, i)
                => Wheel!From(x, i) = Wheel!From(y, i)
         /\ Wheel!From(x, 0) = Wheel!From(y, 0) /\ Wheel!NearIndex(x) = Wheel!NearIndex(y) => x = y
         /\ Wheel!From(x, 4) = Wheel!From(y, 4)
         /\ \A i \in 0 .. 4 : x <= y => Wheel!From(x, i) <= Wheel!From(y, i)
<1>1. ASSUME NEW i \in 0 .. 4, x <= y PROVE Wheel!From(x, i) <= Wheel!From(y, i)
  BY <1>1, Digits, Units, Monotone DEF Wheel!From
<1>2. ASSUME NEW i \in 0 .. 3, Wheel!From(x, i) = Wheel!From(y, i)
      PROVE  Wheel!From(x, i + 1) = Wheel!From(y, i + 1)
  <2>1. /\ Wheel!From(x, i + 1) = Wheel!From(x, i) \div TIME_LEVEL
        /\ Wheel!From(y, i + 1) = Wheel!From(y, i) \div TIME_LEVEL
    BY Digits
  <2> QED BY <1>2, <2>1
<1>3. ASSUME NEW i \in 0 .. 3, Wheel!From(x, i + 1) = Wheel!From(y, i + 1),
             Wheel!LevelIndex(x, i) = Wheel!LevelIndex(y, i)
      PROVE  Wheel!From(x, i) = Wheel!From(y, i)
  <2>1. /\ Wheel!From(x, i) = TIME_LEVEL * Wheel!From(x, i + 1) + Wheel!LevelIndex(x, i)
        /\ Wheel!From(y, i) = TIME_LEVEL * Wheel!From(y, i + 1) + Wheel!LevelIndex(y, i)
    BY Digits
  <2> QED BY <1>3, <2>1
<1>4. ASSUME Wheel!From(x, 0) = Wheel!From(y, 0), Wheel!NearIndex(x) = Wheel!NearIndex(y) PROVE x = y
  <2>1. /\ x = TIME_NEAR * Wheel!From(x, 0) + Wheel!NearIndex(x)
        /\ y = TIME_NEAR * Wheel!From(y, 0) + Wheel!NearIndex(y)
    BY Digits
  <2> QED BY <1>4, <2>1
<1>5. Wheel!From(x, 4) = Wheel!From(y, 4)
  BY Digits
<1> QED BY <1>1, <1>2, <1>3, <1>4, <1>5

\* What a tick changes: the digits up to that of level c, which is the level of
\* the list that timer_shift moves.  No other time that agrees with the old one
\* from such a digit on is still to come before the time wraps around.
Turns(c, old, new) ==
  /\ c \in -1 .. 3
  /\ \A i \in 0 .. 4 : Wheel!From(new, i) = Wheel!From(old, i) <=> i > c
  /\ \A i \in 0 .. 4, x \in Wheel!Time : i <= c /\ Wheel!From(x, i) = Wheel!From(old, i) => x <= old
  /\ Wheel!Cascade(new) = IF c = -1 THEN <<>> ELSE <<c, Wheel!LevelIndex(new, c)>>

\* timer_shift moves the list of the highest digit that has turned.
LEMMA CascadeAt ==
  ASSUME NEW new \in Wheel!Time, new # 0, NEW c \in -1 .. 3,
         c = -1 => Wheel!NearIndex(new) # 0,
         c # -1 => /\ Wheel!NearIndex(new) = 0 /\ Wheel!LevelIndex(new, c) # 0
                   /\ \A j \in 0 .. c - 1 : Wheel!LevelIndex(new, j) = 0
  PROVE  Wheel!Cascade(new) = IF c = -1 THEN <<>> ELSE <<c, Wheel!LevelIndex(new, c)>>
<1>1. CASE c = -1
  BY <1>1 DEF Wheel!Cascade
<1>2. CASE c # -1
  <2> DEFINE first(k) == /\ Wheel!LevelIndex(new, k) # 0
                         /\ \A j \in 0 .. k - 1 : Wheel!LevelIndex(new, j) = 0
  <2>1. c \in Wheel!Level /\ first(c)
    BY <1>2 DEF Wheel!Level
  <2>2. ASSUME NEW k \in Wheel!Level, first(k) PROVE k = c
    <3>1. ~ (k < c) /\ ~ (c < k)
      <4>1. k < c => k \in 0 .. c - 1
        BY DEF Wheel!Level
      <4>2. c < k => c \in 0 .. k - 1
        BY <1>2 DEF Wheel!Level
      <4> QED BY <2>1, <2>2, <4>1, <4>2
    <3> QED BY <3>1 DEF Wheel!Level
  <2>3. (CHOOSE k \in Wheel!Level : first(k)) = c
    <3> DEFINE m == CHOOSE k \in Wheel!Level : first(k)
    <3>1. m \in Wheel!Level /\ first(m)
      BY <2>1, Zenon
    <3>2. m = c
      <4> HIDE DEF m, first
      <4> QED BY <2>2, <3>1
    <3> QED BY <3>2
  <2>4. new # 0 /\ Wheel!NearIndex(new) = 0
    BY <1>2
  <2>5. Wheel!Cascade(new) = <<c, Wheel!LevelIndex(new, c)>>
    BY <2>3, <2>4, Zenon DEF Wheel!Cascade
  <2> QED BY <1>2, <2>5
<1> QED BY <1>1, <1>2

\* The wrap is at least twice the highest unit.
LEMMA Halves ==
  /\ Wheel!Unit[3] \in Nat \ {0} /\ Wheel!Wrap \in Nat \ {0}
  /\ Wheel!Wrap = TIME_LEVEL * Wheel!Unit[3] /\ Wheel!Wrap >= 2 * Wheel!Unit[3]
  /\ Wheel!From(0, 3) = 0 /\ Wheel!From(Wheel!Wrap - 1, 3) >= 1
<1> DEFINE u == Wheel!Unit[3]
           W == Wheel!Wrap
<1>1. u \in Nat \ {0} /\ W \in Nat \ {0} /\ W = u * TIME_LEVEL
  BY Units DEF Wheel!Wrap
<1>2. TIME_LEVEL \in Nat /\ TIME_LEVEL >= 2
  BY WheelAssumption
<1> HIDE DEF u, W
<1>3. u * TIME_LEVEL = TIME_LEVEL * u /\ u * TIME_LEVEL >= u * 2 /\ u * 2 = 2 * u
  BY <1>1, <1>2
<1>4. W = TIME_LEVEL * u /\ W >= 2 * u
  BY <1>1, <1>3
<1>5. 0 \div u = 0
  <2>1. 0 = u * 0 + 0 /\ 0 \in 0 .. u - 1
    BY <1>1
  <2> QED BY <1>1, <2>1, Quotient
<1>6. (W - 1) \div u >= 1
  <2>1. u = u * 1 + 0 /\ 0 \in 0 .. u - 1
    BY <1>1
  <2>2. u \div u = 1
    BY <1>1, <2>1, Quotient
  <2>3. u <= W - 1 /\ W - 1 \in Nat
    BY <1>1, <1>4
  <2>4. u \div u <= (W - 1) \div u
    BY <1>1, <2>3, Monotone
  <2>5. (W - 1) \div u \in Nat
    BY <1>1, <2>3, Division
  <2> QED BY <2>2, <2>4, <2>5
<1> QED BY <1>1, <1>4, <1>5, <1>6 DEF u, W, Wheel!From

\* The time counts up and wraps around.
LEMMA NextTick ==
  ASSUME NEW old \in Wheel!Time, NEW new, new = (old + 1) % Wheel!Wrap
  PROVE  /\ new \in Wheel!Time /\ new # old
         /\ IF old = Wheel!Wrap - 1 THEN new = 0 ELSE new = old + 1
<1> DEFINE W == Wheel!Wrap
<1>1. W \in Nat /\ W >= 2
  BY Halves
<1>2. old \in 0 .. W - 1
  BY DEF Wheel!Time
<1>3. new = (old + 1) % W
  OBVIOUS
<1> HIDE DEF W
<1>4. old # W - 1 => new = old + 1
  <2> SUFFICES ASSUME old # W - 1 PROVE new = old + 1
    OBVIOUS
  <2>1. old + 1 = W * 0 + (old + 1) /\ old + 1 \in 0 .. W - 1
    BY <1>1, <1>2
  <2>2. (old + 1) % W = old + 1
    BY <1>1, <2>1, Quotient
  <2> QED BY <1>3, <2>2
<1>5. old = W - 1 => new = 0
  <2> SUFFICES ASSUME old = W - 1 PROVE new = 0
    OBVIOUS
  <2>1. old + 1 = W * 1 + 0 /\ 0 \in 0 .. W - 1
    BY <1>1, <1>2
  <2>2. (old + 1) % W = 0
    BY <1>1, <2>1, Quotient
  <2> QED BY <1>3, <2>2
<1>6. new \in 0 .. W - 1 /\ new # old
  BY <1>1, <1>2, <1>4, <1>5
<1> QED BY <1>4, <1>5, <1>6 DEF W, Wheel!Time

\* In every tick the digits up to one turn, the others stay.
LEMMA Turning ==
  ASSUME NEW old \in Wheel!Time, NEW new, new = (old + 1) % Wheel!Wrap
  PROVE  \E c \in -1 .. 3 : Turns(c, old, new)
<1> DEFINE A(i) == Wheel!From(old, i)
           B(i) == Wheel!From(new, i)
           idx(i) == Wheel!LevelIndex(new, i)
<1>1. new \in Wheel!Time /\ new # old /\ IF old = Wheel!Wrap - 1 THEN new = 0 ELSE new = old + 1
  BY NextTick
<1>2. CASE old = Wheel!Wrap - 1
  <2>1. new = 0
    BY <1>1, <1>2
  <2>2. A(3) # B(3)
    BY <1>2, <2>1, Halves
  <2>3. A(4) = B(4)
    BY <1>1, Agree
  <2>4. \A i \in 0 .. 3 : A(i) = B(i) => A(i + 1) = B(i + 1)
    BY <1>1, Agree
  <2>5. A(2) # B(2) /\ A(1) # B(1) /\ A(0) # B(0)
    <3> HIDE DEF A, B
    <3>1. A(2) # B(2)
      BY <2>2, <2>4
    <3>2. A(1) # B(1)
      BY <2>4, <3>1
    <3> QED BY <2>4, <3>1, <3>2
  <2>6. \A i \in 0 .. 4 : B(i) = A(i) <=> i > 3
    <3> HIDE DEF A, B
    <3> QED BY <2>2, <2>3, <2>5
  <2>7. idx(3) = 0
    <3>1. B(3) = 0 /\ TIME_LEVEL \in Nat \ {0}
      BY <2>1, Halves, WheelAssumption
    <3>2. 0 = TIME_LEVEL * 0 + 0 /\ 0 \in 0 .. TIME_LEVEL - 1
      BY <3>1
    <3>3. 0 % TIME_LEVEL = 0
      BY <3>1, <3>2, Quotient
    <3> QED BY <3>1, <3>3 DEF Wheel!LevelIndex
  <2>8. Wheel!Cascade(new) = <<3, idx(3)>>
    BY <2>1, <2>7 DEF Wheel!Cascade
  <2>9. \A x \in Wheel!Time : x <= old
    BY <1>2, Digits
  <2>10. Turns(3, old, new)
    BY <2>6, <2>8, <2>9 DEF Turns
  <2> QED BY <2>10
<1>3. CASE old # Wheel!Wrap - 1
  <2>1. new = old + 1 /\ new # 0 /\ old \in Nat
    BY <1>1, <1>3, Digits
  <2>2. \/ B(0) = A(0) /\ Wheel!NearIndex(new) = Wheel!NearIndex(old) + 1
        \/ B(0) = A(0) + 1 /\ Wheel!NearIndex(new) = 0
    <3>1. Wheel!Unit[0] = TIME_NEAR /\ TIME_NEAR \in Nat \ {0}
      BY Units, WheelAssumption
    <3>2. \/ (old + 1) \div TIME_NEAR = old \div TIME_NEAR /\ (old + 1) % TIME_NEAR = (old % TIME_NEAR) + 1
          \/ (old + 1) \div TIME_NEAR = (old \div TIME_NEAR) + 1 /\ (old + 1) % TIME_NEAR = 0
      BY <2>1, <3>1, Carry, Zenon
    <3>3. /\ A(0) = old \div TIME_NEAR /\ B(0) = (old + 1) \div TIME_NEAR
          /\ Wheel!NearIndex(new) = (old + 1) % TIME_NEAR /\ Wheel!NearIndex(old) = old % TIME_NEAR
      BY <2>1, <3>1 DEF Wheel!From, Wheel!NearIndex
    <3> QED BY <3>2, <3>3, Zenon
  <2>3. \A i \in 0 .. 4 : A(i) \in Nat /\ B(i) \in Nat
    BY <1>1, Digits
  <2>4. ASSUME NEW i \in 0 .. 3, B(i) = A(i) + 1
        PROVE  \/ B(i + 1) = A(i + 1) /\ idx(i) # 0
               \/ B(i + 1) = A(i + 1) + 1 /\ idx(i) = 0
    <3>1. A(i) \in Nat
      BY <2>3
    <3>2. A(i + 1) = A(i) \div TIME_LEVEL /\ B(i + 1) = B(i) \div TIME_LEVEL
      BY <1>1, Digits
    <3>3. idx(i) = B(i) % TIME_LEVEL
      BY DEF Wheel!LevelIndex
    <3>4. A(i) % TIME_LEVEL \in Nat /\ TIME_LEVEL \in Nat \ {0}
      BY <3>1, Division, WheelAssumption
    <3> HIDE DEF A, B, idx
    <3>5. \/ /\ (A(i) + 1) \div TIME_LEVEL = A(i) \div TIME_LEVEL
             /\ (A(i) + 1) % TIME_LEVEL = (A(i) % TIME_LEVEL) + 1
          \/ /\ (A(i) + 1) \div TIME_LEVEL = (A(i) \div TIME_LEVEL) + 1
             /\ (A(i) + 1) % TIME_LEVEL = 0
      BY <3>1, <3>4, Carry
    <3>6. (A(i) % TIME_LEVEL) + 1 # 0
      BY <3>4
    <3> QED BY <2>4, <3>2, <3>3, <3>5, <3>6
  <2>5. \A i \in 0 .. 3 : B(i) = A(i) => B(i + 1) = A(i + 1)
    BY <1>1, Agree
  <2>6. B(4) = A(4)
    BY <1>1, Agree
  <2>7. Wheel!NearIndex(old) \in Nat /\ 0 \in Nat
    BY Digits
  <2>8. \E c \in -1 .. 3 : /\ \A i \in 0 .. 4 : B(i) = A(i) <=> i > c
                           /\ c = -1 => Wheel!NearIndex(new) # 0
                           /\ c # -1 => /\ Wheel!NearIndex(new) = 0 /\ idx(c) # 0
                                        /\ \A j \in 0 .. c - 1 : idx(j) = 0
    <3>0. \A i \in 0 .. 4 : A(i) + 1 # A(i)
      BY <2>3
    <3> HIDE DEF A, B, idx
    <3> DEFINE same(i) == B(i) = A(i)
               up(i) == B(i) = A(i) + 1
    <3>1. \A i \in 0 .. 3 : same(i) => same(i + 1)
      BY <2>5
    <3>2. ASSUME NEW i \in 0 .. 3, up(i)
          PROVE  (same(i + 1) /\ idx(i) # 0) \/ (up(i + 1) /\ idx(i) = 0)
      BY <2>4, <3>2
    <3>3. \A i \in 0 .. 4 : ~ (same(i) /\ up(i))
      BY <3>0
    <3>4. \/ same(0) /\ Wheel!NearIndex(new) # 0
          \/ up(0) /\ Wheel!NearIndex(new) = 0
      BY <2>2, <2>7
    <3>5. same(4)
      BY <2>6
    <3> SUFFICES \E c \in -1 .. 3 :
                           /\ \A i \in 0 .. 4 : same(i) <=> i > c
                           /\ c = -1 => Wheel!NearIndex(new) # 0
                           /\ c # -1 => /\ Wheel!NearIndex(new) = 0 /\ idx(c) # 0
                                        /\ \A j \in 0 .. c - 1 : idx(j) = 0
      OBVIOUS
    <3> HIDE DEF same, up
    <3>6. \A i \in 0 .. 4 : i = 0 \/ i = 1 \/ i = 2 \/ i = 3 \/ i = 4
      OBVIOUS
    <3>7. CASE same(0)
      <4>1. same(1)
        BY <3>1, <3>7
      <4>2. same(2)
        BY <3>1, <4>1
      <4>3. same(3)
        BY <3>1, <4>2
      <4>4. \A i \in 0 .. 4 : same(i)
        BY <3>5, <3>6, <3>7, <4>1, <4>2, <4>3
      <4>5. -1 \in -1 .. 3 /\ \A i \in 0 .. 4 : i > -1
        OBVIOUS
      <4>6. Wheel!NearIndex(new) # 0
        BY <3>3, <3>4, <3>7
      <4> QED BY <4>4, <4>5, <4>6
    <3>8. CASE up(0)
      <4>1. Wheel!NearIndex(new) = 0 /\ ~ same(0)
        BY <3>3, <3>4, <3>8
      <4>2. CASE same(1)
        <5>1. same(2)
          BY <3>1, <4>2
        <5>2. same(3)
          BY <3>1, <5>1
        <5>3. idx(0) # 0
          BY <3>2, <3>3, <3>8, <4>2
        <5>4. 0 \in -1 .. 3 /\ \A i \in 0 .. 4 : same(i) <=> i > 0
          BY <3>5, <3>6, <4>1, <4>2, <5>1, <5>2
        <5> QED BY <4>1, <5>3, <5>4
      <4>3. CASE up(1)
        <5>1. idx(0) = 0 /\ ~ same(1)
          BY <3>2, <3>3, <3>8, <4>3
        <5>2. CASE same(2)
          <6>1. same(3)
            BY <3>1, <5>2
          <6>2. idx(1) # 0
            BY <3>2, <3>3, <4>3, <5>2
          <6>3. 1 \in -1 .. 3 /\ \A i \in 0 .. 4 : same(i) <=> i > 1
            BY <3>5, <3>6, <4>1, <5>1, <5>2, <6>1
          <6>4. \A j \in 0 .. 1 - 1 : idx(j) = 0
            BY <5>1
          <6> QED BY <4>1, <6>2, <6>3, <6>4
        <5>3. CASE up(2)
          <6>1. idx(1) = 0 /\ ~ same(2)
            BY <3>2, <3>3, <4>3, <5>3
          <6>2. CASE same(3)
            <7>1. idx(2) # 0
              BY <3>2, <3>3, <5>3, <6>2
            <7>2. 2 \in -1 .. 3 /\ \A i \in 0 .. 4 : same(i) <=> i > 2
              BY <3>5, <3>6, <4>1, <5>1, <6>1, <6>2
            <7>3. \A j \in 0 .. 2 - 1 : idx(j) = 0
              BY <5>1, <6>1
            <7> QED BY <4>1, <7>1, <7>2, <7>3
          <6>3. CASE up(3)
            <7>1. idx(2) = 0 /\ ~ same(3)
              BY <3>2, <3>3, <5>3, <6>3
            <7>2. idx(3) # 0
              <8>1. up(3) => (same(3 + 1) /\ idx(3) # 0) \/ (up(3 + 1) /\ idx(3) = 0)
                BY <3>2
              <8>2. ~ up(4)
                BY <3>3, <3>5
              <8> QED BY <6>3, <8>1, <8>2
            <7>3. 3 \in -1 .. 3 /\ \A i \in 0 .. 4 : same(i) <=> i > 3
              BY <3>5, <3>6, <4>1, <5>1, <6>1, <7>1
            <7>4. \A j \in 0 .. 3 - 1 : idx(j) = 0
              BY <5>1, <6>1, <7>1
            <7> QED BY <4>1, <7>2, <7>3, <7>4
          <6> QED BY <3>2, <5>3, <6>2, <6>3
        <5> QED BY <3>2, <4>3, <5>2, <5>3
      <4> QED BY <3>2, <3>8, <4>2, <4>3
    <3> QED BY <3>4, <3>7, <3>8
  <2>9. PICK c \in -1 .. 3 : /\ \A i \in 0 .. 4 : B(i) = A(i) <=> i > c
                             /\ c = -1 => Wheel!NearIndex(new) # 0
                             /\ c # -1 => /\ Wheel!NearIndex(new) = 0 /\ idx(c) # 0
                                          /\ \A j \in 0 .. c - 1 : idx(j) = 0
    BY <2>8
  <2>10. Wheel!Cascade(new) = IF c = -1 THEN <<>> ELSE <<c, idx(c)>>
    BY <1>1, <2>1, <2>9, CascadeAt
  <2>11. ASSUME NEW i \in 0 .. 4, NEW x \in Wheel!Time, i <= c, Wheel!From(x, i) = A(i)
         PROVE  x <= old
    <3>1. x \in Nat
      BY Digits
    <3>2. CASE x > old
      <4>1. old <= new /\ new <= x
        BY <2>1, <3>1, <3>2
      <4>2. A(i) <= B(i) /\ B(i) <= Wheel!From(x, i)
        BY <1>1, <4>1, Agree
      <4>3. A(i) = B(i)
        <5> HIDE DEF A, B
        <5> QED BY <2>3, <2>11, <4>2
      <4>4. i > c
        BY <2>9, <4>3
      <4> QED BY <2>11, <4>4
    <3> QED BY <2>1, <3>1, <3>2
  <2>12. Turns(c, old, new)
    BY <2>9, <2>10, <2>11 DEF Turns
  <2> QED BY <2>12
<1> QED BY <1>2, <1>3

-----------------------------------------------------------------------------
(***************************************************************************)
(* The lists.  That of a level is named <<level, index>>, the near ones    *)
(* have level -1.                                                          *)
(***************************************************************************)
Place(x, now) ==
  IF Wheel!From(x, 0) = Wheel!From(now, 0) THEN <<-1, Wheel!NearIndex(x)>>
  ELSE <<Wheel!LevelOf(x, now), Wheel!LevelIndex(x, Wheel!LevelOf(x, now))>>

\* What is to come is ahead, also when the time has to wrap around first.
Ahead(x, now) ==
  /\ x # now
  /\ Wheel!From(x, 3) = Wheel!From(now, 3) => x > now

\* The level add_node finds: the highest digit that differs from the current time.
LEMMA LevelFacts ==
  ASSUME NEW x \in Wheel!Time, NEW now \in Wheel!Time, Wheel!From(x, 0) # Wheel!From(now, 0)
  PROVE  LET i == Wheel!LevelOf(x, now)
         IN /\ i \in 0 .. 3
            /\ Wheel!From(x, i) # Wheel!From(now, i)
            /\ Wheel!From(x, i + 1) = Wheel!From(now, i + 1)
<1> DEFINE same(i) == Wheel!From(x, i) = Wheel!From(now, i)
           level(i) == (i = 3 \/ same(i + 1)) /\ \A j \in 0 .. i - 1 : ~ same(j + 1)
           i == CHOOSE k \in Wheel!Level : level(k)
<1>1. Wheel!LevelOf(x, now) = i
  BY Zenon DEF Wheel!LevelOf
<1>2. same(4) /\ ~ same(0)
  BY Agree
<1>3. \E k \in Wheel!Level : level(k)
  <2> HIDE DEF same
  <2>1. 0 \in Wheel!Level /\ 1 \in Wheel!Level /\ 2 \in Wheel!Level /\ 3 \in Wheel!Level
    BY DEF Wheel!Level
  <2>2. CASE same(1)
    BY <2>1, <2>2
  <2>3. CASE ~ same(1) /\ same(2)
    BY <2>1, <2>3
  <2>4. CASE ~ same(1) /\ ~ same(2) /\ same(3)
    <3>1. level(2)
      BY <2>4
    <3> QED BY <2>1, <3>1
  <2>5. CASE ~ same(1) /\ ~ same(2) /\ ~ same(3)
    <3>1. level(3)
      BY <2>5
    <3> QED BY <2>1, <3>1
  <2> QED BY <2>2, <2>3, <2>4, <2>5
<1>4. i \in Wheel!Level /\ level(i)
  <2> HIDE DEF level
  <2> QED BY <1>3, Zenon
<1> HIDE DEF i, same
<1>5. i \in 0 .. 3 /\ same(i + 1)
  BY <1>2, <1>4 DEF Wheel!Level
<1>6. ~ same(i)
  <2>1. CASE i = 0
    BY <1>2, <2>1
  <2>2. CASE i # 0
    <3>1. i - 1 \in 0 .. i - 1 /\ (i - 1) + 1 = i
      BY <1>5, <2>2
    <3>2. ~ same((i - 1) + 1)
      BY <1>4, <3>1
    <3> QED BY <3>1, <3>2
  <2> QED BY <2>1, <2>2
<1> QED BY <1>1, <1>5, <1>6 DEF same

\* From a digit on times agree, and then they do from every later one.
LEMMA AgreeUp ==
  ASSUME NEW x \in Wheel!Time, NEW y \in Wheel!Time, NEW i \in 0 .. 4, NEW j \in 0 .. 4, i <= j,
         Wheel!From(x, i) = Wheel!From(y, i)
  PROVE  Wheel!From(x, j) = Wheel!From(y, j)
<1> DEFINE same(k) == Wheel!From(x, k) = Wheel!From(y, k)
<1>1. \A k \in 0 .. 3 : same(k) => same(k + 1)
  BY Agree
<1>2. same(i)
  OBVIOUS
<1> HIDE DEF same
<1>3. same(0) => same(1)
  BY <1>1
<1>4. same(1) => same(2)
  BY <1>1
<1>5. same(2) => same(3)
  BY <1>1
<1>6. same(3) => same(4)
  BY <1>1
<1>7. \/ i = 0 \/ i = 1 \/ i = 2 \/ i = 3 \/ i = 4
  OBVIOUS
<1>8. \/ j = 0 \/ j = 1 \/ j = 2 \/ j = 3 \/ j = 4
  OBVIOUS
<1>9. same(j)
  BY <1>2, <1>3, <1>4, <1>5, <1>6, <1>7, <1>8
<1> QED BY <1>9 DEF same

\* No other level is like that.
LEMMA LevelUnique ==
  ASSUME NEW x \in Wheel!Time, NEW now \in Wheel!Time, NEW i \in 0 .. 3,
         Wheel!From(x, i) # Wheel!From(now, i), Wheel!From(x, i + 1) = Wheel!From(now, i + 1)
  PROVE  Wheel!LevelOf(x, now) = i /\ Place(x, now) = <<i, Wheel!LevelIndex(x, i)>>
<1> DEFINE k == Wheel!LevelOf(x, now)
<1>1. Wheel!From(x, 0) # Wheel!From(now, 0)
  BY AgreeUp
<1>2. k \in 0 .. 3 /\ Wheel!From(x, k) # Wheel!From(now, k) /\ Wheel!From(x, k + 1) = Wheel!From(now, k + 1)
  BY <1>1, LevelFacts
<1> HIDE DEF k
<1>3. ~ (k < i)
  <2> SUFFICES ASSUME k < i PROVE FALSE
    OBVIOUS
  <2>1. k + 1 \in 0 .. 4 /\ k + 1 <= i /\ i \in 0 .. 4
    BY <1>2
  <2> QED BY <1>2, <2>1, AgreeUp
<1>4. ~ (i < k)
  <2> SUFFICES ASSUME i < k PROVE FALSE
    OBVIOUS
  <2>1. i + 1 \in 0 .. 4 /\ i + 1 <= k /\ k \in 0 .. 4
    BY <1>2
  <2> QED BY <1>2, <2>1, AgreeUp
<1>5. k = i
  BY <1>2, <1>3, <1>4
<1> QED BY <1>1, <1>5 DEF k, Place

Places == ({-1} \X (0 .. TIME_NEAR - 1)) \cup (Wheel!Level \X (0 .. TIME_LEVEL - 1))

\* The place of a node is one of a list of the wheel.
LEMMA PlaceTyped ==
  ASSUME NEW x \in Wheel!Time, NEW now \in Wheel!Time
  PROVE  /\ Place(x, now) \in Places
         /\ Wheel!From(x, 0) = Wheel!From(now, 0) => Place(x, now) = <<-1, Wheel!NearIndex(x)>>
         /\ Wheel!From(x, 0) # Wheel!From(now, 0) =>
              LET i == Wheel!LevelOf(x, now)
              IN i \in Wheel!Level /\ Place(x, now) = <<i, Wheel!LevelIndex(x, i)>>
<1>1. CASE Wheel!From(x, 0) = Wheel!From(now, 0)
  BY <1>1, Digits DEF Place, Places
<1>2. CASE Wheel!From(x, 0) # Wheel!From(now, 0)
  <2> DEFINE i == Wheel!LevelOf(x, now)
  <2>1. i \in Wheel!Level /\ i \in 0 .. 3
    BY <1>2, LevelFacts DEF Wheel!Level
  <2> HIDE DEF i
  <2>2. Wheel!LevelIndex(x, i) \in 0 .. TIME_LEVEL - 1
    BY <2>1, Digits
  <2>3. Place(x, now) = <<i, Wheel!LevelIndex(x, i)>>
    BY <1>2 DEF Place, i
  <2> QED BY <1>2, <2>1, <2>2, <2>3 DEF Places, i
<1> QED BY <1>1, <1>2

\* A tick: what is in the list that is moved gets another place, everything else
\* keeps its place.
LEMMA PlaceStep ==
  ASSUME NEW old \in Wheel!Time, NEW new, new = (old + 1) % Wheel!Wrap,
         NEW c \in -1 .. 3, Turns(c, old, new), NEW x \in Wheel!Time, Ahead(x, old)
  PROVE  /\ IF c # -1 /\ Place(x, old) = <<c, Wheel!LevelIndex(new, c)>>
            THEN Place(x, new) # <<c, Wheel!LevelIndex(new, c)>>
            ELSE Place(x, new) = Place(x, old)
         /\ x # new => Ahead(x, new)
<1> DEFINE F(y, i) == Wheel!From(y, i)
<1>1. new \in Wheel!Time /\ new # old /\ IF old = Wheel!Wrap - 1 THEN new = 0 ELSE new = old + 1
  BY NextTick
<1>2. /\ \A i \in 0 .. 4 : F(new, i) = F(old, i) <=> i > c
      /\ \A i \in 0 .. 4 : i <= c /\ F(x, i) = F(old, i) => x <= old
  BY DEF Turns
<1>3. x \in Nat /\ old \in Nat /\ new \in Nat /\ x <= Wheel!Wrap - 1 /\ Wheel!Wrap \in Nat
  BY <1>1, Digits, Halves
<1>4. F(x, 3) = F(old, 3) => x > old
  BY DEF Ahead
<1>5. x # new => Ahead(x, new)
  <2> SUFFICES ASSUME x # new, F(x, 3) = F(new, 3) PROVE x > new
    BY DEF Ahead
  <2>1. CASE F(new, 3) = F(old, 3)
    BY <1>1, <1>3, <1>4, <2>1
  <2>2. CASE F(new, 3) # F(old, 3)
    <3>1. CASE x < new
      <4>1. new = old + 1 /\ x <= old /\ old <= new
        BY <1>1, <1>3, <3>1
      <4>2. F(x, 3) <= F(old, 3) /\ F(old, 3) <= F(new, 3)
        BY <1>1, <4>1, Agree
      <4>3. F(x, 3) \in Nat /\ F(old, 3) \in Nat /\ F(new, 3) \in Nat
        BY <1>1, Digits
      <4> HIDE DEF F
      <4> QED BY <2>2, <4>2, <4>3
    <3> QED BY <1>3, <3>1
  <2> QED BY <2>1, <2>2
<1>6. CASE F(x, 0) = F(old, 0)
  <2>1. F(x, 3) = F(old, 3)
    BY <1>6, AgreeUp
  <2>2. c = -1
    BY <1>2, <1>3, <1>4, <1>6, <2>1
  <2>3. F(x, 0) = F(new, 0)
    BY <1>2, <1>6, <2>2
  <2>4. Place(x, new) = Place(x, old)
    BY <1>6, <2>3 DEF Place
  <2> QED BY <1>5, <2>2, <2>4
<1>7. CASE F(x, 0) # F(old, 0)
  <2> DEFINE l == Wheel!LevelOf(x, old)
  <2>1. l \in 0 .. 3 /\ F(x, l) # F(old, l) /\ F(x, l + 1) = F(old, l + 1)
    BY <1>7, LevelFacts
  <2>2. Place(x, old) = <<l, Wheel!LevelIndex(x, l)>>
    BY <1>7 DEF Place
  <2> HIDE DEF l
  <2>3. l + 1 \in 0 .. 4 /\ l \in 0 .. 4 /\ 3 \in 0 .. 4 /\ l \in Nat
    BY <2>1
  <2>4. ~ (l < c)
    <3> SUFFICES ASSUME l < c PROVE FALSE
      OBVIOUS
    <3>1. l + 1 <= c /\ l + 1 <= 3
      BY <2>3
    <3>2. F(x, 3) = F(old, 3)
      BY <2>1, <2>3, <3>1, AgreeUp
    <3>3. x <= old
      BY <1>2, <2>1, <2>3, <3>1
    <3> QED BY <1>3, <1>4, <3>2, <3>3
  <2>5. CASE l > c
    <3>1. l + 1 > c
      BY <2>3, <2>5
    <3>2. F(new, l) = F(old, l) /\ F(new, l + 1) = F(old, l + 1)
      BY <1>2, <2>3, <2>5, <3>1
    <3>3. Place(x, new) = <<l, Wheel!LevelIndex(x, l)>>
      BY <1>1, <2>1, <3>2, LevelUnique
    <3>4. Place(x, old) # <<c, Wheel!LevelIndex(new, c)>>
      BY <2>2, <2>3, <2>5
    <3> QED BY <1>5, <2>2, <3>3, <3>4
  <2>6. CASE l = c
    <3>1. c # -1 /\ c \in 0 .. 3 /\ c + 1 \in 0 .. 4 /\ c + 1 > c
      BY <2>1, <2>6
    <3>2. F(x, c + 1) = F(new, c + 1)
      BY <1>2, <2>1, <2>6, <3>1
    <3>3. CASE Wheel!LevelIndex(x, c) = Wheel!LevelIndex(new, c)
      <4>1. F(x, c) = F(new, c)
        BY <1>1, <3>1, <3>2, <3>3, Agree
      <4>2. Place(x, new) # <<c, Wheel!LevelIndex(new, c)>>
        <5>1. CASE F(x, 0) = F(new, 0)
          BY <3>1, <5>1 DEF Place
        <5>2. CASE F(x, 0) # F(new, 0)
          <6> DEFINE k == Wheel!LevelOf(x, new)
          <6>1. F(x, k) # F(new, k)
            BY <1>1, <5>2, LevelFacts
          <6>2. k # c
            BY <4>1, <6>1
          <6>3. Place(x, new) = <<k, Wheel!LevelIndex(x, k)>>
            BY <5>2 DEF Place
          <6> HIDE DEF k
          <6> QED BY <6>2, <6>3
        <5> QED BY <5>1, <5>2
      <4>3. Place(x, old) = <<c, Wheel!LevelIndex(new, c)>>
        BY <2>2, <2>6, <3>3
      <4> QED BY <1>5, <3>1, <4>2, <4>3
    <3>4. CASE Wheel!LevelIndex(x, c) # Wheel!LevelIndex(new, c)
      <4>1. F(x, c) # F(new, c)
        BY <3>4 DEF Wheel!LevelIndex
      <4>2. Place(x, new) = <<c, Wheel!LevelIndex(x, c)>>
        BY <1>1, <3>1, <3>2, <4>1, LevelUnique
      <4>3. Place(x, old) = <<c, Wheel!LevelIndex(x, c)>> /\ Place(x, old) # <<c, Wheel!LevelIndex(new, c)>>
        BY <2>2, <2>6, <3>4
      <4> QED BY <1>5, <4>2, <4>3
    <3> QED BY <3>3, <3>4
  <2> QED BY <2>3, <2>4, <2>5, <2>6
<1> QED BY <1>6, <1>7

\* A new timeout is ahead: the longest delay is less than half of the wrap.
LEMMA Expiring ==
  ASSUME NEW now \in Wheel!Time, NEW d \in Wheel!Delay, NEW x, x = (now + d) % Wheel!Wrap
  PROVE  x \in Wheel!Time /\ Ahead(x, now) /\ (x - now) % Wheel!Wrap = d
<1> DEFINE W == Wheel!Wrap
           U == Wheel!Unit[3]
<1>1. U \in Nat \ {0} /\ W \in Nat \ {0} /\ W >= 2 * U
  BY Halves
<1>2. now \in 0 .. W - 1 /\ d \in 1 .. (W \div 2) - 1
  BY DEF Wheel!Time, Wheel!Delay
<1>3. x = (now + d) % W
  OBVIOUS
<1>4. Wheel!Time = 0 .. W - 1
  BY DEF Wheel!Time
<1> HIDE DEF W, U
<1>5. d \in Nat /\ 2 * d + 2 <= W /\ d >= 1
  BY <1>1, <1>2
<1>6. CASE now + d < W
  <2>1. now + d = W * 0 + (now + d) /\ now + d \in 0 .. W - 1
    BY <1>1, <1>2, <1>5, <1>6
  <2>2. x = now + d
    <3>1. now + d \in 0 .. 2 * W - 1
      BY <1>1, <2>1
    <3> QED BY <1>1, <1>3, <1>6, <3>1, RingIndex
  <2>3. x - now = W * 0 + d /\ d \in 0 .. W - 1
    BY <1>1, <1>2, <1>5, <2>2
  <2>4. (x - now) % W = d
    <3>1. 0 \in Int
      OBVIOUS
    <3> QED BY <1>1, <2>3, <3>1, Quotient, Zenon
  <2>5. x \in 0 .. W - 1 /\ x > now
    BY <1>2, <1>5, <2>1, <2>2
  <2> QED BY <1>4, <2>4, <2>5 DEF Ahead, W
<1>7. CASE now + d >= W
  <2>1. now + d = W * 1 + (now + d - W) /\ now + d - W \in 0 .. W - 1
    BY <1>1, <1>2, <1>5, <1>7
  <2>2. x = now + d - W
    <3>1. now \in Nat /\ now <= W - 1 /\ d <= W /\ d \in Nat /\ W \in Nat \ {0}
      BY <1>1, <1>2, <1>5
    <3>2. now + d \in 0 .. 2 * W - 1 /\ ~ (now + d < W)
      BY <1>7, <3>1
    <3> DEFINE a == now + d
    <3>3. a \in 0 .. 2 * W - 1 /\ ~ (a < W) /\ x = a % W
      BY <1>3, <3>2
    <3> HIDE DEF a
    <3>4. x = a - W
      BY <3>1, <3>3, RingIndex
    <3> QED BY <3>1, <3>4 DEF a
  <2>3. x - now = W * (-1) + d /\ d \in 0 .. W - 1 /\ -1 \in Int
    BY <1>1, <1>2, <1>5, <2>2
  <2>4. (x - now) % W = d
    BY <1>1, <2>3, Quotient
  <2>5. x \in 0 .. W - 1 /\ x < now
    BY <1>1, <1>2, <1>5, <2>1, <2>2
  <2>6. Wheel!From(x, 3) # Wheel!From(now, 3)
    <3> DEFINE q == x \div U
               r == x % U
               s == now % U
    <3> SUFFICES ASSUME now \div U = q PROVE FALSE
      BY DEF Wheel!From, U
    <3>0. x \in Nat /\ now \in Nat
      BY <1>1, <1>2, <2>5
    <3>1. q \in Nat /\ r \in 0 .. U - 1 /\ x = U * q + r
      BY <1>1, <3>0, Division
    <3>2. s \in 0 .. U - 1 /\ now = U * q + s
      <4>1. s \in 0 .. U - 1 /\ now = U * (now \div U) + s
        BY <1>1, <3>0, Division
      <4> QED BY <4>1
    <3> HIDE DEF q, r, s
    <3>3. now - x < U
      BY <1>1, <3>1, <3>2
    <3> QED BY <1>1, <1>2, <1>5, <2>2, <3>3
  <2> QED BY <1>2, <1>4, <2>4, <2>5, <2>6 DEF Ahead, W
<1> QED BY <1>1, <1>2, <1>5, <1>6, <1>7

-----------------------------------------------------------------------------
(***************************************************************************)
(* The elements of a list that are in a set, in their order.               *)
(***************************************************************************)
\* What Among computes from element to element.
Keeping(f, s, S) ==
  /\ f[0] = <<>>
  /\ \A n \in 1 .. Len(s) : f[n] = IF s[n] \in S THEN Append(f[n - 1], s[n]) ELSE f[n - 1]

\* Among is computed from element to element.
LEMMA AmongFunction ==
  ASSUME NEW T, NEW s \in Seq(T), NEW S
  PROVE  \E f \in [0 .. Len(s) -> Seq(T)] : Keeping(f, s, S) /\ Wheel!Among(s, S) = f[Len(s)]
<1> DEFINE equation(f) == [n \in 0 .. Len(s) |->
                             IF n = 0 THEN <<>>
                             ELSE IF s[n] \in S THEN Append(f[n - 1], s[n]) ELSE f[n - 1]]
           kept == CHOOSE f : f = equation(f)
           step == [n \in Nat |-> [q \in Seq(T) |->
                      IF n \in 1 .. Len(s) THEN IF s[n] \in S THEN Append(q, s[n]) ELSE q ELSE q]]
<1>0. Len(s) \in Nat
  OBVIOUS
<1>1. Wheel!Among(s, S) = kept[Len(s)]
  BY Zenon DEF Wheel!Among
<1>2. step \in [Nat -> [Seq(T) -> Seq(T)]]
  <2>1. ASSUME NEW n \in 1 .. Len(s), NEW q \in Seq(T) PROVE Append(q, s[n]) \in Seq(T)
    OBVIOUS
  <2> QED BY <2>1
<1>3. \A n \in 1 .. Len(s), q \in Seq(T) : step[n][q] = IF s[n] \in S THEN Append(q, s[n]) ELSE q
  <2>1. \A n \in 1 .. Len(s) : n \in Nat
    BY <1>0
  <2> QED BY <2>1
<1> HIDE DEF step
<1>4. <<>> \in Seq(T)
  OBVIOUS
<1>5. PICK f \in [0 .. Len(s) -> Seq(T)] : Recursive(f, <<>>, step, Len(s))
  <2> DEFINE Q == Seq(T)
  <2>1. <<>> \in Q /\ step \in [Nat -> [Q -> Q]] /\ Len(s) \in Nat
    BY <1>0, <1>2, <1>4
  <2> HIDE DEF Q
  <2>2. \E f \in [0 .. Len(s) -> Q] : Recursive(f, <<>>, step, Len(s))
    BY <2>1, Recursion
  <2> QED BY <2>2 DEF Q
<1>6. \A n \in 0 .. Len(s) : f[n] = IF n = 0 THEN <<>> ELSE step[n][f[n - 1]]
  BY <1>5 DEF Recursive
<1>7. ASSUME NEW n \in 0 .. Len(s)
      PROVE  f[n] = IF n = 0 THEN <<>> ELSE IF s[n] \in S THEN Append(f[n - 1], s[n]) ELSE f[n - 1]
  <2>1. CASE n = 0
    BY <1>6, <2>1
  <2>2. CASE n # 0
    <3>1. n \in 1 .. Len(s) /\ f[n - 1] \in Seq(T)
      BY <1>0, <2>2
    <3>2. f[n] = step[n][f[n - 1]]
      BY <1>6, <2>2
    <3> QED BY <1>3, <2>2, <3>1, <3>2
  <2> QED BY <2>1, <2>2
<1>8. f = equation(f)
  BY <1>7
<1>9. kept = equation(kept)
  <2> HIDE DEF equation
  <2> QED BY <1>8, Zenon
<1>10. \A n \in 0 .. Len(s) :
         kept[n] = IF n = 0 THEN <<>> ELSE IF s[n] \in S THEN Append(kept[n - 1], s[n]) ELSE kept[n - 1]
  <2> HIDE DEF kept
  <2> QED BY <1>9
<1> HIDE DEF kept, equation
<1>11. \A n \in Nat : n <= Len(s) => kept[n] = f[n]
  <2> DEFINE good == {n \in Nat : n <= Len(s) => kept[n] = f[n]}
  <2>1. 0 \in good
    BY <1>0, <1>7, <1>10
  <2>2. ASSUME NEW n \in Nat, n \in good PROVE n + 1 \in good
    <3> SUFFICES ASSUME n + 1 <= Len(s) PROVE kept[n + 1] = f[n + 1]
      OBVIOUS
    <3>1. n + 1 \in 0 .. Len(s) /\ n + 1 # 0 /\ (n + 1) - 1 = n /\ kept[n] = f[n]
      BY <1>0, <2>2
    <3> QED BY <1>7, <1>10, <3>1
  <2> HIDE DEF good
  <2>3. Nat \subseteq good
    BY <2>1, <2>2, AllNumbers
  <2> QED BY <2>3 DEF good
<1>12. kept[Len(s)] = f[Len(s)]
  BY <1>0, <1>11
<1>13. Keeping(f, s, S)
  <2>1. 0 \in 0 .. Len(s) /\ \A n \in 1 .. Len(s) : n \in 0 .. Len(s) /\ n # 0
    BY <1>0
  <2>2. f[0] = <<>>
    BY <1>7, <2>1
  <2>3. ASSUME NEW n \in 1 .. Len(s)
        PROVE  f[n] = IF s[n] \in S THEN Append(f[n - 1], s[n]) ELSE f[n - 1]
    <3>1. n \in 0 .. Len(s) /\ n # 0
      BY <2>1
    <3> QED BY <1>7, <3>1
  <2> QED BY <2>2, <2>3 DEF Keeping
<1> QED BY <1>1, <1>12, <1>13

\* Two lists with the same first elements keep the same of them.
LEMMA SameKeeping ==
  ASSUME NEW T, NEW s \in Seq(T), NEW r \in Seq(T), NEW S, NEW R, NEW m \in Nat,
         m <= Len(s), m <= Len(r), \A n \in 1 .. m : s[n] = r[n] /\ (s[n] \in S <=> r[n] \in R),
         NEW f, NEW g, Keeping(f, s, S), Keeping(g, r, R)
  PROVE  f[m] = g[m]
<1> DEFINE good == {n \in Nat : n <= m => f[n] = g[n]}
<1>1. 0 \in good
  BY DEF Keeping
<1>2. ASSUME NEW n \in Nat, n \in good PROVE n + 1 \in good
  <2> SUFFICES ASSUME n + 1 <= m PROVE f[n + 1] = g[n + 1]
    OBVIOUS
  <2>1. n + 1 \in 1 .. Len(s) /\ n + 1 \in 1 .. Len(r) /\ n + 1 \in 1 .. m /\ (n + 1) - 1 = n
    OBVIOUS
  <2>2. f[n] = g[n]
    BY <1>2
  <2> QED BY <2>1, <2>2 DEF Keeping
<1> HIDE DEF good
<1>3. Nat \subseteq good
  BY <1>1, <1>2, AllNumbers
<1> QED BY <1>3 DEF good

\* Only what is in the list counts.
LEMMA AmongSame ==
  ASSUME NEW T, NEW s \in Seq(T), NEW S, NEW R, \A n \in 1 .. Len(s) : s[n] \in S <=> s[n] \in R
  PROVE  Wheel!Among(s, S) = Wheel!Among(s, R)
<1>1. PICK f \in [0 .. Len(s) -> Seq(T)] : Keeping(f, s, S) /\ Wheel!Among(s, S) = f[Len(s)]
  BY AmongFunction
<1>2. PICK g \in [0 .. Len(s) -> Seq(T)] : Keeping(g, s, R) /\ Wheel!Among(s, R) = g[Len(s)]
  BY AmongFunction
<1>3. Len(s) \in Nat /\ Len(s) <= Len(s)
  OBVIOUS
<1>4. f[Len(s)] = g[Len(s)]
  BY <1>1, <1>2, <1>3, SameKeeping
<1> QED BY <1>1, <1>2, <1>4

\* What is kept of a longer list.
LEMMA AmongAppend ==
  ASSUME NEW T, NEW s \in Seq(T), NEW e \in T, NEW S
  PROVE  /\ Wheel!Among(<<>>, S) = <<>>
         /\ Wheel!Among(Append(s, e), S)
              = IF e \in S THEN Append(Wheel!Among(s, S), e) ELSE Wheel!Among(s, S)
<1>1. Wheel!Among(<<>>, S) = <<>>
  <2> DEFINE z == <<>>
  <2>1. z \in Seq(T) /\ Len(z) = 0
    OBVIOUS
  <2> HIDE DEF z
  <2>2. PICK f \in [0 .. Len(z) -> Seq(T)] : Keeping(f, z, S) /\ Wheel!Among(z, S) = f[Len(z)]
    BY <2>1, AmongFunction
  <2>3. Wheel!Among(z, S) = <<>>
    BY <2>1, <2>2 DEF Keeping
  <2> QED BY <2>3 DEF z
<1> DEFINE r == Append(s, e)
<1>2. r \in Seq(T) /\ Len(r) = Len(s) + 1 /\ Len(s) \in Nat /\ r[Len(s) + 1] = e
      /\ \A n \in 1 .. Len(s) : r[n] = s[n]
  BY AppendFacts
<1>3. PICK f \in [0 .. Len(s) -> Seq(T)] : Keeping(f, s, S) /\ Wheel!Among(s, S) = f[Len(s)]
  BY AmongFunction
<1> HIDE DEF r
<1>4. PICK g \in [0 .. Len(r) -> Seq(T)] : Keeping(g, r, S) /\ Wheel!Among(r, S) = g[Len(r)]
  BY <1>2, AmongFunction
<1>5. f[Len(s)] = g[Len(s)]
  <2>1. Len(s) <= Len(s) /\ Len(s) <= Len(r)
    BY <1>2
  <2>2. \A n \in 1 .. Len(s) : s[n] = r[n] /\ (s[n] \in S <=> r[n] \in S)
    BY <1>2
  <2>3. r \in Seq(T) /\ Len(s) \in Nat /\ Keeping(f, s, S) /\ Keeping(g, r, S)
    BY <1>2, <1>3, <1>4
  <2> QED BY <2>1, <2>2, <2>3, SameKeeping
<1>6. g[Len(r)] = IF e \in S THEN Append(g[Len(s)], e) ELSE g[Len(s)]
  <2>1. Len(r) \in 1 .. Len(r) /\ Len(r) - 1 = Len(s) /\ r[Len(r)] = e
    BY <1>2
  <2> QED BY <1>4, <2>1 DEF Keeping
<1>7. Wheel!Among(r, S) = IF e \in S THEN Append(Wheel!Among(s, S), e) ELSE Wheel!Among(s, S)
  BY <1>3, <1>4, <1>5, <1>6
<1> QED BY <1>1, <1>7 DEF r

\* No element occurs twice.
Once(s) == \A i, j \in 1 .. Len(s) : s[i] = s[j] => i = j
Has(s, e) == \E i \in 1 .. Len(s) : s[i] = e

\* Among keeps what is in the set and nothing else.
LEMMA AmongHas ==
  ASSUME NEW T, NEW s \in Seq(T), NEW S
  PROVE  /\ Wheel!Among(s, S) \in Seq(T)
         /\ \A e : Has(Wheel!Among(s, S), e) <=> Has(s, e) /\ e \in S
         /\ (\A e : Has(s, e) => e \notin S) => Wheel!Among(s, S) = <<>>
         /\ (\A e : Has(s, e) => e \in S) => Wheel!Among(s, S) = s
<1>0. Len(s) \in Nat
  OBVIOUS
<1>1. PICK f \in [0 .. Len(s) -> Seq(T)] : Keeping(f, s, S) /\ Wheel!Among(s, S) = f[Len(s)]
  BY AmongFunction
<1>2. f[0] = <<>> /\ \A n \in 1 .. Len(s) : f[n] = IF s[n] \in S THEN Append(f[n - 1], s[n]) ELSE f[n - 1]
  BY <1>1 DEF Keeping
<1> DEFINE P(n) ==
             /\ \A e : Has(f[n], e) <=> (\E i \in 1 .. n : s[i] = e) /\ e \in S
             /\ (\A i \in 1 .. n : s[i] \notin S) => f[n] = <<>>
             /\ (\A i \in 1 .. n : s[i] \in S) =>
                  Len(f[n]) = n /\ \A i \in 1 .. n : f[n][i] = s[i]
           good == {n \in Nat : n <= Len(s) => P(n)}
<1>3. 0 \in good
  <2>1. \A e : ~ Has(f[0], e)
    BY <1>2 DEF Has
  <2>2. P(0)
    BY <1>2, <2>1
  <2> QED BY <2>2
<1>4. ASSUME NEW n \in Nat, n \in good PROVE n + 1 \in good
  <2> SUFFICES ASSUME n + 1 <= Len(s) PROVE P(n + 1)
    OBVIOUS
  <2>1. n \in 0 .. Len(s) /\ n + 1 \in 1 .. Len(s) /\ (n + 1) - 1 = n /\ P(n)
    BY <1>0, <1>4
  <2> DEFINE q == f[n]
             x == s[n + 1]
  <2>2. q \in Seq(T) /\ x \in T
    BY <2>1
  <2>3. f[n + 1] = IF x \in S THEN Append(q, x) ELSE q
    BY <1>2, <2>1
  <2>4. /\ Len(Append(q, x)) = Len(q) + 1 /\ Len(q) \in Nat
        /\ Append(q, x)[Len(q) + 1] = x /\ \A i \in 1 .. Len(q) : Append(q, x)[i] = q[i]
    <3> HIDE DEF q, x
    <3> QED BY <2>2, AppendFacts
  <2>5. \A i : i \in 1 .. n + 1 <=> i \in 1 .. n \/ i = n + 1
    OBVIOUS
  <2> HIDE DEF q
  <2>6. P(n)!1 /\ P(n)!2 /\ P(n)!3
    BY <2>1
  <2>7. CASE x \in S
    <3>1. f[n + 1] = Append(q, x)
      BY <2>3, <2>7
    <3>2. \A i : i \in 1 .. Len(q) + 1 <=> i \in 1 .. Len(q) \/ i = Len(q) + 1
      BY <2>4
    <3>3. \A e : Has(f[n + 1], e) <=> Has(q, e) \/ e = x
      BY <2>4, <3>1, <3>2 DEF Has
    <3>4. \A e : Has(f[n + 1], e) <=> (\E i \in 1 .. n + 1 : s[i] = e) /\ e \in S
      BY <2>5, <2>6, <2>7, <3>3 DEF q
    <3>5. (\A i \in 1 .. n + 1 : s[i] \notin S) => f[n + 1] = <<>>
      BY <2>5, <2>7
    <3>6. ASSUME \A i \in 1 .. n + 1 : s[i] \in S
          PROVE  Len(f[n + 1]) = n + 1 /\ \A i \in 1 .. n + 1 : f[n + 1][i] = s[i]
      <4>1. Len(q) = n /\ \A i \in 1 .. n : q[i] = s[i]
        BY <2>5, <2>6, <3>6 DEF q
      <4> QED BY <2>4, <2>5, <3>1, <4>1
    <3> QED BY <3>4, <3>5, <3>6
  <2>8. CASE x \notin S
    <3>1. f[n + 1] = q
      BY <2>3, <2>8
    <3>2. \A e : Has(f[n + 1], e) <=> (\E i \in 1 .. n + 1 : s[i] = e) /\ e \in S
      BY <2>5, <2>6, <2>8, <3>1 DEF q
    <3>3. (\A i \in 1 .. n + 1 : s[i] \notin S) => f[n + 1] = <<>>
      BY <2>5, <2>6, <3>1 DEF q
    <3>4. ~ (\A i \in 1 .. n + 1 : s[i] \in S)
      BY <2>5, <2>8
    <3> QED BY <3>2, <3>3, <3>4
  <2> QED BY <2>7, <2>8
<1>5. P(Len(s))
  <2> HIDE DEF P
  <2>1. Nat \subseteq good
    <3> HIDE DEF good
    <3> QED BY <1>3, <1>4, AllNumbers
  <2> QED BY <1>0, <2>1
<1> DEFINE r == f[Len(s)]
<1>6. r \in Seq(T)
  BY <1>0
<1>7. \A e : Has(r, e) <=> Has(s, e) /\ e \in S
  BY <1>5 DEF Has
<1>8. (\A e : Has(s, e) => e \notin S) => r = <<>>
  BY <1>5 DEF Has
<1>9. (\A e : Has(s, e) => e \in S) => r = s
  <2> SUFFICES ASSUME \A e : Has(s, e) => e \in S PROVE r = s
    OBVIOUS
  <2>1. \A i \in 1 .. Len(s) : s[i] \in S
    BY DEF Has
  <2>2. Len(r) = Len(s) /\ \A i \in 1 .. Len(s) : r[i] = s[i]
    BY <1>5, <2>1
  <2> HIDE DEF r
  <2> QED BY <1>6, <2>2, SameSequence
<1> QED BY <1>1, <1>6, <1>7, <1>8, <1>9

\* A new element at the end of a list.
LEMMA OnceAppend ==
  ASSUME NEW T, NEW s \in Seq(T), NEW e \in T
  PROVE  /\ \A d : Has(Append(s, e), d) <=> Has(s, d) \/ d = e
         /\ Once(s) /\ ~ Has(s, e) => Once(Append(s, e))
<1> DEFINE r == Append(s, e)
<1>1. Len(r) = Len(s) + 1 /\ Len(s) \in Nat /\ r[Len(s) + 1] = e /\ \A i \in 1 .. Len(s) : r[i] = s[i]
  BY AppendFacts
<1> HIDE DEF r
<1>2. \A i : i \in 1 .. Len(r) <=> i \in 1 .. Len(s) \/ i = Len(s) + 1
  BY <1>1
<1>3. \A d : Has(r, d) <=> Has(s, d) \/ d = e
  BY <1>1, <1>2 DEF Has
<1>4. Once(s) /\ ~ Has(s, e) => Once(r)
  BY <1>1, <1>2 DEF Has, Once
<1> QED BY <1>3, <1>4 DEF r

-----------------------------------------------------------------------------
(***************************************************************************)
(* What linking a node and moving a list do to the lists.                  *)
(***************************************************************************)
WheelType == [near : [0 .. TIME_NEAR - 1 -> Seq(Event)],
              t : [Wheel!Level -> [0 .. TIME_LEVEL - 1 -> Seq(Event)]]]

ListAt(w, p) == IF p[1] = -1 THEN w.near[p[2]] ELSE w.t[p[1]][p[2]]

\* A list is that of a near slot or of a slot of a level.
LEMMA PlaceCases ==
  ASSUME NEW p \in Places
  PROVE  \/ \E j \in 0 .. TIME_NEAR - 1 : p = <<-1, j>> /\ \A w : ListAt(w, p) = w.near[j]
         \/ \E i \in Wheel!Level, j \in 0 .. TIME_LEVEL - 1 :
               p = <<i, j>> /\ i # -1 /\ \A w : ListAt(w, p) = w.t[i][j]
<1>1. CASE p \in {-1} \X (0 .. TIME_NEAR - 1)
  <2>1. p[2] \in 0 .. TIME_NEAR - 1 /\ p = <<-1, p[2]>> /\ p[1] = -1
    BY <1>1
  <2> QED BY <2>1 DEF ListAt
<1>2. CASE p \in Wheel!Level \X (0 .. TIME_LEVEL - 1)
  <2>1. p[1] \in Wheel!Level /\ p[2] \in 0 .. TIME_LEVEL - 1 /\ p = <<p[1], p[2]>>
    BY <1>2
  <2>2. p[1] # -1
    BY <2>1 DEF Wheel!Level
  <2> QED BY <2>1, <2>2 DEF ListAt
<1> QED BY <1>1, <1>2 DEF Places

\* The lists are lists of events.
LEMMA ListTyped ==
  ASSUME NEW w \in WheelType, NEW p \in Places
  PROVE  ListAt(w, p) \in Seq(Event)
<1>1. /\ \A j \in 0 .. TIME_NEAR - 1 : w.near[j] \in Seq(Event)
      /\ \A i \in Wheel!Level, j \in 0 .. TIME_LEVEL - 1 : w.t[i][j] \in Seq(Event)
  BY DEF WheelType
<1>2. CASE \E j \in 0 .. TIME_NEAR - 1 : p = <<-1, j>> /\ \A y : ListAt(y, p) = y.near[j]
  <2>1. \E j \in 0 .. TIME_NEAR - 1 : ListAt(w, p) = w.near[j]
    BY <1>2
  <2> QED BY <1>1, <2>1
<1>3. CASE \E i \in Wheel!Level, j \in 0 .. TIME_LEVEL - 1 :
             p = <<i, j>> /\ i # -1 /\ \A y : ListAt(y, p) = y.t[i][j]
  <2>1. \E i \in Wheel!Level, j \in 0 .. TIME_LEVEL - 1 : ListAt(w, p) = w.t[i][j]
    BY <1>3
  <2> QED BY <1>1, <2>1
<1> QED BY <1>2, <1>3, PlaceCases

\* add_node appends to the list of the node's place and leaves the others alone.
LEMMA Added ==
  ASSUME NEW w \in WheelType, NEW e \in Event, NEW x \in Wheel!Time, NEW now \in Wheel!Time
  PROVE  /\ Wheel!AddNode(w, e, x, now) \in WheelType
         /\ \A p \in Places : ListAt(Wheel!AddNode(w, e, x, now), p)
              = IF p = Place(x, now) THEN Append(ListAt(w, p), e) ELSE ListAt(w, p)
<1> DEFINE v == Wheel!AddNode(w, e, x, now)
<1>1. CASE Wheel!From(x, 0) = Wheel!From(now, 0)
  <2> DEFINE k == Wheel!NearIndex(x)
  <2>1. k \in 0 .. TIME_NEAR - 1 /\ Place(x, now) = <<-1, k>>
    BY <1>1, Digits, PlaceTyped
  <2>2. v = [w EXCEPT !.near[k] = Append(@, e)]
    BY <1>1, Zenon DEF Wheel!AddNode, Wheel!Linked
  <2> HIDE DEF k, v
  <2>3. v.near = [w.near EXCEPT ![k] = Append(w.near[k], e)] /\ v.t = w.t
    BY <2>2 DEF WheelType
  <2>4. w.near \in [0 .. TIME_NEAR - 1 -> Seq(Event)] /\ w.near[k] \in Seq(Event)
    BY <2>1 DEF WheelType
  <2>5. Append(w.near[k], e) \in Seq(Event)
    BY <2>4
  <2>6. v \in WheelType
    BY <2>1, <2>2, <2>5 DEF WheelType
  <2>7. ASSUME NEW p \in Places
        PROVE  ListAt(v, p) = IF p = Place(x, now) THEN Append(ListAt(w, p), e) ELSE ListAt(w, p)
    <3>1. CASE \E j \in 0 .. TIME_NEAR - 1 : p = <<-1, j>> /\ \A y : ListAt(y, p) = y.near[j]
      <4>1. PICK j \in 0 .. TIME_NEAR - 1 : p = <<-1, j>> /\ \A y : ListAt(y, p) = y.near[j]
        BY <3>1
      <4>2. ListAt(v, p) = v.near[j] /\ ListAt(w, p) = w.near[j]
        BY <4>1
      <4>3. v.near[j] = IF j = k THEN Append(w.near[j], e) ELSE w.near[j]
        BY <2>3, <2>4
      <4>4. p = Place(x, now) <=> j = k
        BY <2>1, <4>1
      <4> QED BY <4>2, <4>3, <4>4
    <3>2. CASE \E i \in Wheel!Level, j \in 0 .. TIME_LEVEL - 1 :
                 p = <<i, j>> /\ i # -1 /\ \A y : ListAt(y, p) = y.t[i][j]
      <4>1. ListAt(v, p) = ListAt(w, p) /\ p # Place(x, now)
        BY <2>1, <2>3, <3>2
      <4> QED BY <4>1
    <3> QED BY <3>1, <3>2, PlaceCases
  <2> QED BY <2>6, <2>7 DEF v
<1>2. CASE Wheel!From(x, 0) # Wheel!From(now, 0)
  <2> DEFINE l == Wheel!LevelOf(x, now)
             k == Wheel!LevelIndex(x, l)
  <2>1. l \in Wheel!Level /\ k \in 0 .. TIME_LEVEL - 1 /\ Place(x, now) = <<l, k>> /\ l # -1
    BY <1>2, PlaceTyped, Digits DEF Wheel!Level
  <2>2. v = [w EXCEPT !.t[l][k] = Append(@, e)]
    BY <1>2, Zenon DEF Wheel!AddNode, Wheel!Linked
  <2> HIDE DEF l, k, v
  <2>3. v.t = [w.t EXCEPT ![l][k] = Append(w.t[l][k], e)] /\ v.near = w.near
    BY <2>2 DEF WheelType
  <2>4. w.t \in [Wheel!Level -> [0 .. TIME_LEVEL - 1 -> Seq(Event)]] /\ w.t[l][k] \in Seq(Event)
    BY <2>1 DEF WheelType
  <2>5. Append(w.t[l][k], e) \in Seq(Event)
    BY <2>4
  <2>6. v \in WheelType
    BY <2>1, <2>2, <2>5 DEF WheelType
  <2>7. ASSUME NEW p \in Places
        PROVE  ListAt(v, p) = IF p = Place(x, now) THEN Append(ListAt(w, p), e) ELSE ListAt(w, p)
    <3>1. CASE \E j \in 0 .. TIME_NEAR - 1 : p = <<-1, j>> /\ \A y : ListAt(y, p) = y.near[j]
      <4>1. ListAt(v, p) = ListAt(w, p) /\ p # Place(x, now)
        BY <2>1, <2>3, <3>1
      <4> QED BY <4>1
    <3>2. CASE \E i \in Wheel!Level, j \in 0 .. TIME_LEVEL - 1 :
                 p = <<i, j>> /\ i # -1 /\ \A y : ListAt(y, p) = y.t[i][j]
      <4>1. PICK i \in Wheel!Level, j \in 0 .. TIME_LEVEL - 1 :
                 p = <<i, j>> /\ i # -1 /\ \A y : ListAt(y, p) = y.t[i][j]
        BY <3>2
      <4>2. ListAt(v, p) = v.t[i][j] /\ ListAt(w, p) = w.t[i][j]
        BY <4>1
      <4>3. v.t[i][j] = IF i = l /\ j = k THEN Append(w.t[i][j], e) ELSE w.t[i][j]
        <5>1. v.t[i] = IF i = l THEN [w.t[l] EXCEPT ![k] = Append(w.t[l][k], e)] ELSE w.t[i]
          BY <2>1, <2>3, <2>4, Zenon
        <5>2. w.t[l] \in [0 .. TIME_LEVEL - 1 -> Seq(Event)]
          BY <2>1, <2>4, Zenon
        <5>3. [w.t[l] EXCEPT ![k] = Append(w.t[l][k], e)][j] = IF j = k THEN Append(w.t[l][j], e) ELSE w.t[l][j]
          BY <2>1, <5>2, Zenon
        <5> QED BY <5>1, <5>3, Zenon
      <4>4. p = Place(x, now) <=> i = l /\ j = k
        BY <2>1, <4>1
      <4> QED BY <4>2, <4>3, <4>4
    <3> QED BY <3>1, <3>2, PlaceCases
  <2> QED BY <2>6, <2>7 DEF v
<1> QED BY <1>1, <1>2

\* move_list takes one list.
LEMMA Emptied ==
  ASSUME NEW w \in WheelType, NEW l \in Wheel!Level, NEW k \in 0 .. TIME_LEVEL - 1
  PROVE  /\ [w EXCEPT !.t[l][k] = <<>>] \in WheelType
         /\ \A p \in Places : ListAt([w EXCEPT !.t[l][k] = <<>>], p)
              = IF p = <<l, k>> THEN <<>> ELSE ListAt(w, p)
<1> DEFINE v == [w EXCEPT !.t[l][k] = <<>>]
<1>1. v.t = [w.t EXCEPT ![l][k] = <<>>] /\ v.near = w.near
  BY DEF WheelType
<1>2. w.t \in [Wheel!Level -> [0 .. TIME_LEVEL - 1 -> Seq(Event)]]
  BY DEF WheelType
<1>3. <<>> \in Seq(Event)
  OBVIOUS
<1>4. v \in WheelType
  BY <1>3 DEF WheelType
<1>5. l # -1
  BY DEF Wheel!Level
<1> HIDE DEF v
<1>6. ASSUME NEW p \in Places
      PROVE  ListAt(v, p) = IF p = <<l, k>> THEN <<>> ELSE ListAt(w, p)
  <2>1. CASE \E j \in 0 .. TIME_NEAR - 1 : p = <<-1, j>> /\ \A y : ListAt(y, p) = y.near[j]
    <3>1. ListAt(v, p) = ListAt(w, p) /\ p # <<l, k>>
      BY <1>1, <1>5, <2>1
    <3> QED BY <3>1
  <2>2. CASE \E i \in Wheel!Level, j \in 0 .. TIME_LEVEL - 1 :
               p = <<i, j>> /\ i # -1 /\ \A y : ListAt(y, p) = y.t[i][j]
    <3>1. PICK i \in Wheel!Level, j \in 0 .. TIME_LEVEL - 1 :
               p = <<i, j>> /\ i # -1 /\ \A y : ListAt(y, p) = y.t[i][j]
      BY <2>2
    <3>2. ListAt(v, p) = v.t[i][j] /\ ListAt(w, p) = w.t[i][j]
      BY <3>1
    <3>3. v.t[i][j] = IF i = l /\ j = k THEN <<>> ELSE w.t[i][j]
      <4>1. v.t[i] = IF i = l THEN [w.t[l] EXCEPT ![k] = <<>>] ELSE w.t[i]
        BY <1>1, <1>2, Zenon
      <4>2. w.t[l] \in [0 .. TIME_LEVEL - 1 -> Seq(Event)]
        BY <1>2, Zenon
      <4>3. [w.t[l] EXCEPT ![k] = <<>>][j] = IF j = k THEN <<>> ELSE w.t[l][j]
        BY <4>2, Zenon
      <4> QED BY <4>1, <4>3, Zenon
    <3>4. p = <<l, k>> <=> i = l /\ j = k
      BY <3>1
    <3> QED BY <3>2, <3>3, <3>4
  <2> QED BY <2>1, <2>2, PlaceCases
<1> QED BY <1>4, <1>6 DEF v

\* What MoveList computes from node to node.
Moving(m, w, i, j, now) ==
  /\ m[0] = [w EXCEPT !.t[i][j] = <<>>]
  /\ \A n \in 1 .. Len(w.t[i][j]) :
       m[n] = Wheel!AddNode(m[n - 1], w.t[i][j][n], expire[w.t[i][j][n]], now)

\* move_list adds its nodes one after the other.
LEMMA MoveFunction ==
  ASSUME NEW w \in WheelType, NEW i \in Wheel!Level, NEW j \in 0 .. TIME_LEVEL - 1,
         NEW now \in Wheel!Time, \A e \in Event : Has(w.t[i][j], e) => expire[e] \in Wheel!Time
  PROVE  \E m \in [0 .. Len(w.t[i][j]) -> WheelType] :
            /\ Moving(m, w, i, j, now)
            /\ Wheel!MoveList(w, i, j, now) = m[Len(w.t[i][j])]
<1> DEFINE list == w.t[i][j]
           first == [w EXCEPT !.t[i][j] = <<>>]
           equation(m) == [n \in 0 .. Len(list) |->
                             IF n = 0 THEN first
                             ELSE Wheel!AddNode(m[n - 1], list[n], expire[list[n]], now)]
           moved == CHOOSE m : m = equation(m)
           step == [n \in Nat |-> [v \in WheelType |->
                      IF n \in 1 .. Len(list) THEN Wheel!AddNode(v, list[n], expire[list[n]], now) ELSE v]]
<1>0. list \in Seq(Event) /\ Len(list) \in Nat
  <2>1. w.t \in [Wheel!Level -> [0 .. TIME_LEVEL - 1 -> Seq(Event)]]
    BY DEF WheelType
  <2>2. list \in Seq(Event)
    BY <2>1
  <2> HIDE DEF list
  <2> QED BY <2>2
<1>1. Wheel!MoveList(w, i, j, now) = moved[Len(list)]
  BY Zenon DEF Wheel!MoveList
<1>2. first \in WheelType
  BY Emptied
<1> HIDE DEF first
<1>3. ASSUME NEW n \in 1 .. Len(list)
      PROVE  list[n] \in Event /\ Has(list, list[n]) /\ expire[list[n]] \in Wheel!Time
  <2>1. list[n] \in Event /\ Has(list, list[n])
    BY <1>0 DEF Has
  <2> QED BY <2>1
<1> HIDE DEF list
<1>4. \A n \in 1 .. Len(list), v \in WheelType :
        Wheel!AddNode(v, list[n], expire[list[n]], now) \in WheelType
  BY <1>3, Added
<1>5. step \in [Nat -> [WheelType -> WheelType]]
  BY <1>4
<1>6. \A n \in 1 .. Len(list), v \in WheelType :
        step[n][v] = Wheel!AddNode(v, list[n], expire[list[n]], now)
  <2>1. \A n \in 1 .. Len(list) : n \in Nat
    BY <1>0
  <2> QED BY <2>1
<1> HIDE DEF step
<1>7. PICK f \in [0 .. Len(list) -> WheelType] : Recursive(f, first, step, Len(list))
  BY <1>0, <1>2, <1>5, Recursion
<1>8. \A n \in 0 .. Len(list) : f[n] = IF n = 0 THEN first ELSE step[n][f[n - 1]]
  BY <1>7 DEF Recursive
<1>9. ASSUME NEW n \in 0 .. Len(list)
      PROVE  f[n] = IF n = 0 THEN first ELSE Wheel!AddNode(f[n - 1], list[n], expire[list[n]], now)
  <2>1. CASE n = 0
    BY <1>8, <2>1
  <2>2. CASE n # 0
    <3>1. n \in 1 .. Len(list) /\ f[n - 1] \in WheelType
      BY <1>0, <2>2
    <3>2. f[n] = step[n][f[n - 1]]
      BY <1>8, <2>2
    <3> QED BY <1>6, <2>2, <3>1, <3>2
  <2> QED BY <2>1, <2>2
<1>10. f = equation(f)
  BY <1>9
<1>11. moved = equation(moved)
  <2> HIDE DEF equation
  <2> QED BY <1>10, Zenon
<1>12. \A n \in 0 .. Len(list) :
         moved[n] = IF n = 0 THEN first
                    ELSE Wheel!AddNode(moved[n - 1], list[n], expire[list[n]], now)
  <2> HIDE DEF moved
  <2> QED BY <1>11
<1> HIDE DEF moved, equation
<1>13. \A n \in Nat : n <= Len(list) => moved[n] = f[n]
  <2> DEFINE good == {n \in Nat : n <= Len(list) => moved[n] = f[n]}
  <2>1. 0 \in good
    BY <1>0, <1>9, <1>12
  <2>2. ASSUME NEW n \in Nat, n \in good PROVE n + 1 \in good
    <3> SUFFICES ASSUME n + 1 <= Len(list) PROVE moved[n + 1] = f[n + 1]
      OBVIOUS
    <3>1. n + 1 \in 0 .. Len(list) /\ n + 1 # 0 /\ (n + 1) - 1 = n /\ moved[n] = f[n]
      BY <1>0, <2>2
    <3> QED BY <1>9, <1>12, <3>1
  <2> HIDE DEF good
  <2>3. Nat \subseteq good
    BY <2>1, <2>2, AllNumbers
  <2> QED BY <2>3 DEF good
<1>14. moved[Len(list)] = f[Len(list)]
  BY <1>0, <1>13
<1>15. Moving(f, w, i, j, now)
  <2>1. 0 \in 0 .. Len(list) /\ \A n \in 1 .. Len(list) : n \in 0 .. Len(list) /\ n # 0
    BY <1>0
  <2>2. f[0] = first
    BY <1>9, <2>1
  <2>3. ASSUME NEW n \in 1 .. Len(list)
        PROVE  f[n] = Wheel!AddNode(f[n - 1], list[n], expire[list[n]], now)
    <3>1. n \in 0 .. Len(list) /\ n # 0
      BY <2>1
    <3> QED BY <1>9, <3>1
  <2> QED BY <2>2, <2>3 DEF Moving, first, list
<1> QED BY <1>1, <1>14, <1>15 DEF list

\* The events that expire at x.
At(x) == {e \in Event : expire[e] = x}

\* A list has been moved: its nodes are in their new lists, in their order,
\* behind those that were there.
LEMMA Moved ==
  ASSUME NEW w \in WheelType, NEW i \in Wheel!Level, NEW j \in 0 .. TIME_LEVEL - 1,
         NEW now \in Wheel!Time, \A e \in Event : Has(w.t[i][j], e) => expire[e] \in Wheel!Time,
         \A p \in Places : Once(ListAt(w, p)),
         \A p \in Places : p # <<i, j>> => \A e \in Event : ~ (Has(ListAt(w, p), e) /\ Has(w.t[i][j], e))
  PROVE  LET v == Wheel!MoveList(w, i, j, now)
             rest(p) == IF p = <<i, j>> THEN <<>> ELSE ListAt(w, p)
         IN
         /\ v \in WheelType
         /\ \A p \in Places : Once(ListAt(v, p))
         /\ \A p \in Places, e \in Event : Has(ListAt(v, p), e) <=>
              Has(rest(p), e) \/ (Has(w.t[i][j], e) /\ Place(expire[e], now) = p)
         /\ \A x \in Wheel!Time :
              LET before == Wheel!Among(rest(Place(x, now)), At(x))
                  after == Wheel!Among(ListAt(v, Place(x, now)), At(x))
                  some == Wheel!Among(w.t[i][j], At(x))
              IN (before = <<>> => after = some) /\ (some = <<>> => after = before)
<1> DEFINE list == w.t[i][j]
           v == Wheel!MoveList(w, i, j, now)
           rest(p) == IF p = <<i, j>> THEN <<>> ELSE ListAt(w, p)
<1>0. list \in Seq(Event) /\ Len(list) \in Nat
  <2>1. w.t \in [Wheel!Level -> [0 .. TIME_LEVEL - 1 -> Seq(Event)]]
    BY DEF WheelType
  <2>2. list \in Seq(Event)
    BY <2>1
  <2> HIDE DEF list
  <2> QED BY <2>2
<1>1. PICK m \in [0 .. Len(list) -> WheelType] : Moving(m, w, i, j, now) /\ v = m[Len(list)]
  BY MoveFunction
<1>2. \A p \in Places : ListAt(m[0], p) = rest(p)
  <2>1. m[0] = [w EXCEPT !.t[i][j] = <<>>]
    BY <1>1 DEF Moving
  <2>2. \A p \in Places : ListAt([w EXCEPT !.t[i][j] = <<>>], p)
                            = IF p = <<i, j>> THEN <<>> ELSE ListAt(w, p)
    BY Emptied
  <2> QED BY <2>1, <2>2
<1>3. ASSUME NEW n \in 1 .. Len(list)
      PROVE  list[n] \in Event /\ Has(list, list[n]) /\ expire[list[n]] \in Wheel!Time
  <2>1. list[n] \in Event /\ Has(list, list[n])
    BY <1>0 DEF Has
  <2> QED BY <2>1
<1>4. \A n \in 1 .. Len(list) : m[n] = Wheel!AddNode(m[n - 1], list[n], expire[list[n]], now)
  BY <1>1 DEF Moving
<1>5. Once(list) /\ \A p \in Places : rest(p) \in Seq(Event) /\ Once(rest(p)) /\ \A e \in Event : ~ (Has(rest(p), e) /\ Has(list, e))
  <2>1. <<i, j>> \in Places /\ ListAt(w, <<i, j>>) = list
    BY DEF Places, ListAt, Wheel!Level
  <2>2. <<>> \in Seq(Event) /\ Once(<<>>) /\ \A e : ~ Has(<<>>, e)
    BY DEF Once, Has
  <2>3. \A p \in Places : ListAt(w, p) \in Seq(Event)
    BY ListTyped
  <2> QED BY <2>1, <2>2, <2>3
<1> HIDE DEF list, v, rest
<1>6. ASSUME NEW n \in 1 .. Len(list), NEW p \in Places
      PROVE  /\ n - 1 \in 0 .. Len(list) /\ n \in 0 .. Len(list)
             /\ ListAt(m[n - 1], p) \in Seq(Event)
             /\ ListAt(m[n], p) = IF p = Place(expire[list[n]], now)
                                  THEN Append(ListAt(m[n - 1], p), list[n]) ELSE ListAt(m[n - 1], p)
  <2>1. n - 1 \in 0 .. Len(list) /\ n \in 0 .. Len(list)
    BY <1>0
  <2>2. m[n - 1] \in WheelType
    BY <2>1
  <2> DEFINE d == list[n]
             x == expire[d]
             u == m[n - 1]
  <2>3. d \in Event /\ x \in Wheel!Time /\ u \in WheelType /\ m[n] = Wheel!AddNode(u, d, x, now)
    BY <1>3, <1>4, <2>2
  <2> HIDE DEF d, x, u
  <2>4. ListAt(u, p) \in Seq(Event)
    BY <2>3, ListTyped
  <2>5. ListAt(m[n], p) = IF p = Place(x, now) THEN Append(ListAt(u, p), d) ELSE ListAt(u, p)
    BY <2>3, Added
  <2> QED BY <2>1, <2>4, <2>5 DEF d, x, u
\* What is in a list after n nodes.
<1> DEFINE P(n) == \A p \in Places :
             /\ Once(ListAt(m[n], p))
             /\ \A e \in Event : Has(ListAt(m[n], p), e) <=>
                  Has(rest(p), e) \/ \E k \in 1 .. n : list[k] = e /\ Place(expire[e], now) = p
           good == {n \in Nat : n <= Len(list) => P(n)}
<1>7. 0 \in good
  <2>1. P(0)
    BY <1>2, <1>5
  <2> QED BY <2>1
<1>8. ASSUME NEW n \in Nat, n \in good PROVE n + 1 \in good
  <2> SUFFICES ASSUME n + 1 <= Len(list), NEW p \in Places
               PROVE  /\ Once(ListAt(m[n + 1], p))
                      /\ \A e \in Event : Has(ListAt(m[n + 1], p), e) <=>
                           Has(rest(p), e) \/ \E k \in 1 .. n + 1 : list[k] = e /\ Place(expire[e], now) = p
    OBVIOUS
  <2> DEFINE q == ListAt(m[n], p)
             d == list[n + 1]
  <2>1. n + 1 \in 1 .. Len(list) /\ (n + 1) - 1 = n /\ n <= Len(list)
    BY <1>0
  <2>2. q \in Seq(Event) /\ d \in Event /\ ListAt(m[n + 1], p) = IF p = Place(expire[d], now) THEN Append(q, d) ELSE q
    BY <1>3, <1>6, <2>1
  <2>3. Once(q) /\ \A e \in Event : Has(q, e) <=> Has(rest(p), e) \/ \E k \in 1 .. n : list[k] = e /\ Place(expire[e], now) = p
    BY <1>8, <2>1
  <2>4. \A k : k \in 1 .. n + 1 <=> k \in 1 .. n \/ k = n + 1
    OBVIOUS
  <2>5. ~ Has(q, d)
    <3>1. Has(list, d) /\ ~ Has(rest(p), d)
      BY <1>3, <1>5, <2>1, <2>2
    <3>2. \A k \in 1 .. n : list[k] # d
      <4>1. \A k \in 1 .. n : k \in 1 .. Len(list) /\ k # n + 1
        BY <1>0, <2>1
      <4> QED BY <1>5, <2>1, <4>1 DEF Once
    <3> QED BY <2>2, <2>3, <3>1, <3>2
  <2> HIDE DEF q
  <2>6. CASE p = Place(expire[d], now)
    <3>1. ListAt(m[n + 1], p) = Append(q, d)
      BY <2>2, <2>6
    <3>2. Once(Append(q, d)) /\ \A e \in Event : Has(Append(q, d), e) <=> Has(q, e) \/ e = d
      <4> HIDE DEF d
      <4> QED BY <2>2, <2>3, <2>5, OnceAppend
    <3> QED BY <2>3, <2>4, <2>6, <3>1, <3>2
  <2>7. CASE p # Place(expire[d], now)
    <3>1. ListAt(m[n + 1], p) = q
      BY <2>2, <2>7
    <3> QED BY <2>3, <2>4, <2>7, <3>1
  <2> QED BY <2>6, <2>7
<1>9. P(Len(list))
  <2> HIDE DEF P
  <2>1. Nat \subseteq good
    <3> HIDE DEF good
    <3> QED BY <1>7, <1>8, AllNumbers
  <2> QED BY <1>0, <2>1
<1> HIDE DEF good
<1>10. v \in WheelType
  BY <1>0, <1>1
<1>11. \A p \in Places : Once(ListAt(v, p)) /\ \A e \in Event : Has(ListAt(v, p), e) <=>
              Has(rest(p), e) \/ (Has(list, e) /\ Place(expire[e], now) = p)
  BY <1>1, <1>9 DEF Has
<1> HIDE DEF P
\* The order of those that expire at x.
<1>12. ASSUME NEW x \in Wheel!Time
       PROVE  LET before == Wheel!Among(rest(Place(x, now)), At(x))
                  after == Wheel!Among(ListAt(v, Place(x, now)), At(x))
                  some == Wheel!Among(list, At(x))
              IN (before = <<>> => after = some) /\ (some = <<>> => after = before)
  <2> DEFINE p == Place(x, now)
             S == At(x)
             A(n) == Wheel!Among(ListAt(m[n], p), S)
             before == Wheel!Among(rest(p), S)
  <2>1. p \in Places
    BY PlaceTyped
  <2>2. PICK f \in [0 .. Len(list) -> Seq(Event)] : Keeping(f, list, S) /\ Wheel!Among(list, S) = f[Len(list)]
    BY <1>0, AmongFunction
  <2> HIDE DEF p, S
  <2>3. A(0) = before
    BY <1>2, <2>1
  <2>4. ASSUME NEW n \in 1 .. Len(list)
        PROVE  A(n) = IF list[n] \in S THEN Append(A(n - 1), list[n]) ELSE A(n - 1)
    <3> DEFINE q == ListAt(m[n - 1], p)
    <3>1. q \in Seq(Event) /\ list[n] \in Event
          /\ ListAt(m[n], p) = IF p = Place(expire[list[n]], now) THEN Append(q, list[n]) ELSE q
      BY <1>3, <1>6, <2>1
    <3>2. list[n] \in S => p = Place(expire[list[n]], now)
      BY DEF S, At, p
    <3> DEFINE d == list[n]
    <3>3. q \in Seq(Event) /\ d \in Event
      BY <3>1
    <3> HIDE DEF q, d
    <3>4. Wheel!Among(Append(q, d), S) = IF d \in S THEN Append(Wheel!Among(q, S), d) ELSE Wheel!Among(q, S)
      BY <3>3, AmongAppend
    <3> QED BY <3>1, <3>2, <3>4 DEF q, d
  <2> HIDE DEF A, before
  <2>5. f[0] = <<>> /\ \A n \in 1 .. Len(list) : f[n] = IF list[n] \in S THEN Append(f[n - 1], list[n]) ELSE f[n - 1]
    BY <2>2 DEF Keeping
  <2>6. before = <<>> => A(Len(list)) = f[Len(list)]
    <3> SUFFICES ASSUME before = <<>> PROVE A(Len(list)) = f[Len(list)]
      OBVIOUS
    <3> DEFINE same == {n \in Nat : n <= Len(list) => A(n) = f[n]}
    <3>1. 0 \in same
      BY <2>3, <2>5
    <3>2. ASSUME NEW n \in Nat, n \in same PROVE n + 1 \in same
      <4> SUFFICES ASSUME n + 1 <= Len(list) PROVE A(n + 1) = f[n + 1]
        OBVIOUS
      <4>1. n + 1 \in 1 .. Len(list) /\ (n + 1) - 1 = n /\ A(n) = f[n]
        BY <1>0, <3>2
      <4> QED BY <2>4, <2>5, <4>1
    <3> HIDE DEF same
    <3>3. Nat \subseteq same
      BY <3>1, <3>2, AllNumbers
    <3> QED BY <1>0, <3>3 DEF same
  <2>7. Wheel!Among(list, S) = <<>> => A(Len(list)) = before
    <3> SUFFICES ASSUME Wheel!Among(list, S) = <<>> PROVE A(Len(list)) = before
      OBVIOUS
    <3>1. \A n \in 1 .. Len(list) : list[n] \notin S
      <4>1. \A e : ~ Has(<<>>, e)
        BY DEF Has
      <4>2. \A e : Has(<<>>, e) <=> Has(list, e) /\ e \in S
        BY <1>0, AmongHas
      <4> QED BY <1>3, <4>1, <4>2
    <3> DEFINE same == {n \in Nat : n <= Len(list) => A(n) = before}
    <3>2. 0 \in same
      BY <2>3
    <3>3. ASSUME NEW n \in Nat, n \in same PROVE n + 1 \in same
      <4> SUFFICES ASSUME n + 1 <= Len(list) PROVE A(n + 1) = before
        OBVIOUS
      <4>1. n + 1 \in 1 .. Len(list) /\ (n + 1) - 1 = n /\ A(n) = before
        BY <1>0, <3>3
      <4> QED BY <2>4, <3>1, <4>1
    <3> HIDE DEF same
    <3>4. Nat \subseteq same
      BY <3>2, <3>3, AllNumbers
    <3> QED BY <1>0, <3>4 DEF same
  <2>8. A(Len(list)) = Wheel!Among(ListAt(v, p), S)
    BY <1>1 DEF A
  <2> QED BY <2>2, <2>6, <2>7, <2>8 DEF p, S, before
<1> QED BY <1>10, <1>11, <1>12 DEF v, list, rest

-----------------------------------------------------------------------------
(***************************************************************************)
(* The inductive invariant: an event is in the list where add_node would   *)
(* put it now, once, and its tick is still to come; or it is being sent    *)
(* in its tick.                                                            *)
(***************************************************************************)
InWheel(w, now) ==
  /\ \A p \in Places :
       /\ Once(ListAt(w, p))
       /\ \A e \in Event : Has(ListAt(w, p), e) =>
            expire[e] \in Wheel!Time /\ Ahead(expire[e], now) /\ Place(expire[e], now) = p

WheelInv ==
  /\ Wheel!TypeOK
  /\ InWheel(Wheel!Wheel, time)
  /\ \A e \in Event : expire[e] # -1 =>
       Has(firing, e) \/ Has(ListAt(Wheel!Wheel, Place(expire[e], time)), e)
  /\ Once(firing)
  /\ \A e \in Event : Has(firing, e) => expire[e] = time

\* What the type of the wheel says of its parts.
LEMMA WheelTyped ==
  ASSUME Wheel!TypeOK
  PROVE  /\ Wheel!Wheel \in WheelType /\ Wheel!Wheel.near = near /\ Wheel!Wheel.t = t
         /\ time \in Wheel!Time /\ expire \in [Event -> Wheel!Time \cup {-1}] /\ firing \in Seq(Event)
         /\ -1 \notin Wheel!Time
<1>1. Wheel!Wheel \in WheelType
  BY DEF Wheel!TypeOK, Wheel!Wheel, WheelType
<1>2. Wheel!Wheel.near = near /\ Wheel!Wheel.t = t
  BY DEF Wheel!Wheel
<1>3. -1 \notin Wheel!Time
  BY Halves DEF Wheel!Time
<1> QED BY <1>1, <1>2, <1>3 DEF Wheel!TypeOK

\* The invariant after a step, from the lists it leaves.
LEMMA InvFrom ==
  ASSUME NEW v \in WheelType, near' = v.near, t' = v.t,
         time' \in Wheel!Time, expire' \in [Event -> Wheel!Time \cup {-1}], firing' \in Seq(Event),
         timerPc' \in {"idle", "early", "late"},
         \A p \in Places : Once(ListAt(v, p)),
         \A p \in Places, e \in Event : Has(ListAt(v, p), e) =>
            expire'[e] \in Wheel!Time /\ Ahead(expire'[e], time') /\ Place(expire'[e], time') = p,
         \A e \in Event : expire'[e] # -1 =>
            Has(firing', e) \/ Has(ListAt(v, Place(expire'[e], time')), e),
         Once(firing'), \A e \in Event : Has(firing', e) => expire'[e] = time'
  PROVE  WheelInv' /\ Wheel!Wheel' = v
<1>1. v = [near |-> v.near, t |-> v.t] /\ v.near \in [0 .. TIME_NEAR - 1 -> Seq(Event)]
      /\ v.t \in [Wheel!Level -> [0 .. TIME_LEVEL - 1 -> Seq(Event)]]
  BY DEF WheelType
<1>2. Wheel!Wheel' = v
  BY <1>1 DEF Wheel!Wheel
<1>3. Wheel!TypeOK'
  BY <1>1 DEF Wheel!TypeOK
<1>4. \A p \in Places : ListAt(Wheel!Wheel, p)' = ListAt(v, p)
  BY <1>2
<1>5. InWheel(Wheel!Wheel, time)'
  BY <1>4 DEF InWheel
<1>6. ASSUME NEW e \in Event, expire'[e] # -1
      PROVE  Has(firing, e)' \/ Has(ListAt(Wheel!Wheel, Place(expire[e], time)), e)'
  <2>1. Has(firing', e) \/ Has(ListAt(v, Place(expire'[e], time')), e)
    BY <1>6
  <2> QED BY <1>2, <2>1
<1> QED BY <1>2, <1>3, <1>5, <1>6 DEF WheelInv

\* The empty wheel satisfies the invariant.
LEMMA WheelInit ==
  ASSUME Wheel!Init
  PROVE  WheelInv
<1>1. <<>> \in Seq(Event) /\ Once(<<>>) /\ \A e : ~ Has(<<>>, e)
  BY DEF Once, Has
<1>2. 0 \in Wheel!Time
  BY Halves DEF Wheel!Time
<1>3. Wheel!TypeOK
  BY <1>1, <1>2 DEF Wheel!Init, Wheel!TypeOK
<1>4. \A p \in Places : ListAt(Wheel!Wheel, p) = <<>>
  <2> SUFFICES ASSUME NEW p \in Places PROVE ListAt(Wheel!Wheel, p) = <<>>
    OBVIOUS
  <2>1. /\ \A j \in 0 .. TIME_NEAR - 1 : Wheel!Wheel.near[j] = <<>>
        /\ \A i \in Wheel!Level, j \in 0 .. TIME_LEVEL - 1 : Wheel!Wheel.t[i][j] = <<>>
    BY DEF Wheel!Init, Wheel!Wheel
  <2>2. CASE \E j \in 0 .. TIME_NEAR - 1 : p = <<-1, j>> /\ \A w : ListAt(w, p) = w.near[j]
    BY <2>1, <2>2
  <2>3. CASE \E i \in Wheel!Level, j \in 0 .. TIME_LEVEL - 1 :
               p = <<i, j>> /\ i # -1 /\ \A w : ListAt(w, p) = w.t[i][j]
    BY <2>1, <2>3
  <2> QED BY <2>2, <2>3, PlaceCases
<1> QED BY <1>1, <1>3, <1>4 DEF WheelInv, InWheel, Wheel!Init

\* Only the list of the current tick holds what expires in it.
LEMMA AtOnce ==
  ASSUME NEW x \in Wheel!Time, NEW now \in Wheel!Time
  PROVE  Place(x, now) = <<-1, Wheel!NearIndex(now)>> <=> x = now
<1>1. CASE Wheel!From(x, 0) = Wheel!From(now, 0)
  <2>1. Place(x, now) = <<-1, Wheel!NearIndex(x)>>
    BY <1>1, PlaceTyped
  <2>2. Wheel!NearIndex(x) = Wheel!NearIndex(now) => x = now
    BY <1>1, Agree
  <2> QED BY <2>1, <2>2
<1>2. CASE Wheel!From(x, 0) # Wheel!From(now, 0)
  <2> DEFINE i == Wheel!LevelOf(x, now)
  <2>1. i \in Wheel!Level /\ Place(x, now) = <<i, Wheel!LevelIndex(x, i)>>
    BY <1>2, PlaceTyped
  <2>2. i # -1
    BY <2>1 DEF Wheel!Level
  <2> HIDE DEF i
  <2> QED BY <1>2, <2>1, <2>2
<1> QED BY <1>1, <1>2

\* What the invariant says of the events in a list and of the others.
LEMMA WheelFacts ==
  ASSUME WheelInv
  PROVE  /\ \A p \in Places, e \in Event : Has(ListAt(Wheel!Wheel, p), e) =>
              /\ expire[e] \in Wheel!Time /\ expire[e] # -1 /\ expire[e] # time
              /\ Ahead(expire[e], time) /\ Place(expire[e], time) = p
              /\ ~ Has(firing, e)
         /\ \A p, q \in Places, e \in Event :
              Has(ListAt(Wheel!Wheel, p), e) /\ Has(ListAt(Wheel!Wheel, q), e) => p = q
         /\ Wheel!NearIndex(time) \in 0 .. TIME_NEAR - 1 /\ near[Wheel!NearIndex(time)] = <<>>
<1>1. Wheel!TypeOK /\ -1 \notin Wheel!Time /\ time \in Wheel!Time
  BY WheelTyped DEF WheelInv
<1>2. \A p \in Places, e \in Event : Has(ListAt(Wheel!Wheel, p), e) =>
              expire[e] \in Wheel!Time /\ Ahead(expire[e], time) /\ Place(expire[e], time) = p
  BY DEF WheelInv, InWheel
<1>3. \A e \in Event : Has(firing, e) => expire[e] = time
  BY DEF WheelInv
<1>4. \A x : Ahead(x, time) => x # time
  BY DEF Ahead
<1>5. Wheel!NearIndex(time) \in 0 .. TIME_NEAR - 1
  BY <1>1, Digits
<1>6. near[Wheel!NearIndex(time)] = <<>>
  <2> DEFINE p == <<-1, Wheel!NearIndex(time)>>
             list == near[Wheel!NearIndex(time)]
  <2>1. p \in Places /\ ListAt(Wheel!Wheel, p) = list
    BY <1>1, <1>5, WheelTyped DEF Places, ListAt
  <2>2. list \in Seq(Event)
    BY <1>5 DEF WheelInv, Wheel!TypeOK
  <2>3. ASSUME NEW e \in Event, Has(list, e) PROVE FALSE
    <3> DEFINE x == expire[e]
    <3>1. x \in Wheel!Time /\ x # time /\ Place(x, time) = p
      BY <1>2, <1>4, <2>1, <2>3
    <3> HIDE DEF x
    <3> QED BY <1>1, <3>1, AtOnce
  <2>4. Len(list) = 0
    <3> SUFFICES ASSUME Len(list) # 0 PROVE FALSE
      OBVIOUS
    <3>1. 1 \in 1 .. Len(list) /\ list[1] \in Event
      BY <2>2
    <3>2. Has(list, list[1])
      BY <3>1 DEF Has
    <3> QED BY <2>3, <3>1, <3>2
  <2> HIDE DEF list
  <2>5. list = <<>>
    BY <2>2, <2>4
  <2> QED BY <2>5 DEF list
<1> QED BY <1>1, <1>2, <1>3, <1>4, <1>5, <1>6

\* A timeout goes to the end of the list of its place.
LEMMA TimeoutKeeps ==
  ASSUME WheelInv, NEW e \in Event, NEW d \in Wheel!Delay, Wheel!Timeout(e, d)
  PROVE  /\ WheelInv'
         /\ \A p \in Places : ListAt(Wheel!Wheel', p)
              = IF p = Place(Wheel!Expiry(d), time) THEN Append(ListAt(Wheel!Wheel, p), e)
                ELSE ListAt(Wheel!Wheel, p)
         /\ expire[e] = -1 /\ Wheel!Expiry(d) \in Wheel!Time
         /\ \A p \in Places : ~ Has(ListAt(Wheel!Wheel, p), e)
<1> DEFINE w == Wheel!Wheel
           x == Wheel!Expiry(d)
           v == Wheel!AddNode(w, e, x, time)
<1>1. w \in WheelType /\ time \in Wheel!Time /\ -1 \notin Wheel!Time
      /\ expire \in [Event -> Wheel!Time \cup {-1}] /\ firing \in Seq(Event)
  BY WheelTyped DEF WheelInv
<1>2. x \in Wheel!Time /\ Ahead(x, time)
  BY <1>1, Expiring DEF Wheel!Expiry
<1>3. expire[e] = -1 /\ expire' = [expire EXCEPT ![e] = x] /\ near' = v.near /\ t' = v.t
      /\ UNCHANGED <<time, firing, timerPc>>
  BY DEF Wheel!Timeout
<1>4. \A p \in Places : Once(ListAt(w, p)) /\ ListAt(w, p) \in Seq(Event)
  BY <1>1, ListTyped DEF WheelInv, InWheel
<1>5. \A p \in Places, c \in Event : Has(ListAt(w, p), c) =>
         c # e /\ expire[c] \in Wheel!Time /\ Ahead(expire[c], time) /\ Place(expire[c], time) = p
  BY <1>3, WheelFacts
<1>6. \A c \in Event : expire[c] # -1 => Has(firing, c) \/ Has(ListAt(w, Place(expire[c], time)), c)
  BY DEF WheelInv
<1>7. \A c \in Event : Has(firing, c) => expire[c] = time
  BY DEF WheelInv
<1>8. Once(firing) /\ timerPc \in {"idle", "early", "late"}
  BY DEF WheelInv, Wheel!TypeOK
<1> HIDE DEF w, x
<1>9. v \in WheelType /\ \A p \in Places : ListAt(v, p) = IF p = Place(x, time) THEN Append(ListAt(w, p), e) ELSE ListAt(w, p)
  BY <1>1, <1>2, Added
<1> HIDE DEF v
<1>10. Place(x, time) \in Places
  BY <1>1, <1>2, PlaceTyped
<1>11. \A p \in Places : /\ Once(ListAt(v, p))
                         /\ \A c \in Event : Has(ListAt(v, p), c) <=> Has(ListAt(w, p), c) \/ (c = e /\ p = Place(x, time))
  <2> SUFFICES ASSUME NEW p \in Places
               PROVE  /\ Once(ListAt(v, p))
                      /\ \A c \in Event : Has(ListAt(v, p), c) <=> Has(ListAt(w, p), c) \/ (c = e /\ p = Place(x, time))
    OBVIOUS
  <2>1. CASE p = Place(x, time)
    <3> DEFINE q == ListAt(w, p)
    <3>1. q \in Seq(Event) /\ Once(q) /\ ~ Has(q, e) /\ ListAt(v, p) = Append(q, e)
      BY <1>4, <1>5, <1>9, <2>1
    <3> HIDE DEF q
    <3>2. Once(Append(q, e)) /\ \A c : Has(Append(q, e), c) <=> Has(q, c) \/ c = e
      BY <3>1, OnceAppend
    <3> QED BY <2>1, <3>1, <3>2 DEF q
  <2>2. CASE p # Place(x, time)
    BY <1>4, <1>9, <2>2
  <2> QED BY <2>1, <2>2
<1>12. \A c \in Event : expire'[c] = IF c = e THEN x ELSE expire[c]
  BY <1>1, <1>3
<1>13. expire' \in [Event -> Wheel!Time \cup {-1}]
  BY <1>1, <1>2, <1>3
<1>14. \A p \in Places, c \in Event : Has(ListAt(v, p), c) =>
            expire'[c] \in Wheel!Time /\ Ahead(expire'[c], time') /\ Place(expire'[c], time') = p
  BY <1>2, <1>3, <1>5, <1>11, <1>12
<1>15. ASSUME NEW c \in Event, expire'[c] # -1
       PROVE  Has(firing', c) \/ Has(ListAt(v, Place(expire'[c], time')), c)
  <2>1. CASE c = e
    BY <1>3, <1>10, <1>11, <1>12, <2>1
  <2>2. CASE c # e
    <3>1. expire'[c] = expire[c] /\ expire[c] # -1 /\ expire[c] \in Wheel!Time
      BY <1>1, <1>12, <1>15, <2>2
    <3>2. Place(expire[c], time) \in Places
      BY <1>1, <3>1, PlaceTyped
    <3> QED BY <1>3, <1>6, <1>11, <3>1, <3>2
  <2> QED BY <2>1, <2>2
<1>16. \A c \in Event : Has(firing', c) => expire'[c] = time'
  <2>1. expire[e] # time
    BY <1>1, <1>3
  <2> QED BY <1>3, <1>7, <1>12, <2>1
<1>17. WheelInv' /\ Wheel!Wheel' = v
  <2>1. time' \in Wheel!Time /\ firing' \in Seq(Event) /\ timerPc' \in {"idle", "early", "late"} /\ Once(firing')
    BY <1>1, <1>3, <1>8
  <2>2. \A p \in Places : Once(ListAt(v, p))
    BY <1>11
  <2> QED BY <1>3, <1>9, <1>13, <1>14, <1>15, <1>16, <2>1, <2>2, InvFrom
<1> QED BY <1>2, <1>3, <1>5, <1>9, <1>17 DEF w, x

\* The first element is not in the rest.
LEMMA OnceTail ==
  ASSUME NEW T, NEW s \in Seq(T), s # <<>>, Once(s)
  PROVE  /\ Head(s) \in T /\ Has(s, Head(s)) /\ Tail(s) \in Seq(T) /\ Once(Tail(s))
         /\ \A e : Has(Tail(s), e) <=> Has(s, e) /\ e # Head(s)
<1> DEFINE r == Tail(s)
<1>1. Len(s) \in Nat /\ Len(s) >= 1 /\ Head(s) = s[1] /\ s[1] \in T
  OBVIOUS
<1>2. r \in Seq(T) /\ Len(r) = Len(s) - 1 /\ \A i \in 1 .. Len(s) - 1 : r[i] = s[i + 1]
  OBVIOUS
<1> HIDE DEF r
<1>3. \A i \in 1 .. Len(r) : i + 1 \in 1 .. Len(s) /\ r[i] = s[i + 1]
  BY <1>1, <1>2
<1>4. \A i \in 1 .. Len(s) : i = 1 \/ (i - 1 \in 1 .. Len(r) /\ r[i - 1] = s[i])
  BY <1>1, <1>2
<1>5. Once(r)
  <2> SUFFICES ASSUME NEW i \in 1 .. Len(r), NEW j \in 1 .. Len(r), r[i] = r[j] PROVE i = j
    BY DEF Once
  <2>1. i + 1 = j + 1
    BY <1>3 DEF Once
  <2> QED BY <1>1, <1>2, <2>1
<1>6. Has(s, Head(s))
  BY <1>1 DEF Has
<1>7. ASSUME NEW e, Has(r, e) PROVE Has(s, e) /\ e # Head(s)
  <2>1. PICK i \in 1 .. Len(r) : r[i] = e
    BY <1>7 DEF Has
  <2>2. i + 1 \in 1 .. Len(s) /\ s[i + 1] = e /\ i + 1 # 1 /\ 1 \in 1 .. Len(s)
    BY <1>1, <1>3, <2>1
  <2> QED BY <1>1, <2>2 DEF Has, Once
<1>8. ASSUME NEW e, Has(s, e), e # Head(s) PROVE Has(r, e)
  <2>1. PICK i \in 1 .. Len(s) : s[i] = e
    BY <1>8 DEF Has
  <2>2. i # 1
    BY <1>1, <1>8, <2>1
  <2> QED BY <1>4, <2>1, <2>2 DEF Has
<1> QED BY <1>1, <1>2, <1>5, <1>6, <1>7, <1>8 DEF r

\* dispatch_list leaves the lists alone.
LEMMA SendKeeps ==
  ASSUME WheelInv, Wheel!Send
  PROVE  WheelInv' /\ Wheel!Wheel' = Wheel!Wheel
<1> DEFINE w == Wheel!Wheel
           h == Head(firing)
<1>1. w \in WheelType /\ time \in Wheel!Time /\ -1 \notin Wheel!Time
      /\ expire \in [Event -> Wheel!Time \cup {-1}] /\ firing \in Seq(Event)
      /\ w.near = near /\ w.t = t
  BY WheelTyped DEF WheelInv
<1>2. firing # <<>> /\ firing' = Tail(firing) /\ expire' = [expire EXCEPT ![h] = -1]
      /\ UNCHANGED <<near, t, time, timerPc>>
  BY DEF Wheel!Send
<1>3. Once(firing) /\ timerPc \in {"idle", "early", "late"} /\ \A c \in Event : Has(firing, c) => expire[c] = time
  BY DEF WheelInv, Wheel!TypeOK
<1>4. /\ h \in Event /\ Has(firing, h) /\ firing' \in Seq(Event) /\ Once(firing')
      /\ \A c : Has(firing', c) <=> Has(firing, c) /\ c # h
  BY <1>1, <1>2, <1>3, OnceTail
<1>5. \A p \in Places : Once(ListAt(w, p))
  BY DEF WheelInv, InWheel
<1>6. \A p \in Places, c \in Event : Has(ListAt(w, p), c) =>
         expire[c] \in Wheel!Time /\ Ahead(expire[c], time) /\ Place(expire[c], time) = p /\ ~ Has(firing, c)
  BY WheelFacts
<1>7. \A c \in Event : expire[c] # -1 => Has(firing, c) \/ Has(ListAt(w, Place(expire[c], time)), c)
  BY DEF WheelInv
<1> HIDE DEF w, h
<1>8. \A c \in Event : expire'[c] = IF c = h THEN -1 ELSE expire[c]
  BY <1>1, <1>2
<1>9. expire' \in [Event -> Wheel!Time \cup {-1}]
  BY <1>1, <1>2, <1>4
<1>10. \A p \in Places, c \in Event : Has(ListAt(w, p), c) =>
            expire'[c] \in Wheel!Time /\ Ahead(expire'[c], time') /\ Place(expire'[c], time') = p
  BY <1>2, <1>4, <1>6, <1>8
<1>11. \A c \in Event : expire'[c] # -1 => Has(firing', c) \/ Has(ListAt(w, Place(expire'[c], time')), c)
  BY <1>2, <1>4, <1>7, <1>8
<1>12. \A c \in Event : Has(firing', c) => expire'[c] = time'
  BY <1>2, <1>3, <1>4, <1>8
<1>13. near' = w.near /\ t' = w.t /\ time' \in Wheel!Time /\ timerPc' \in {"idle", "early", "late"}
  BY <1>1, <1>2, <1>3
<1>14. WheelInv' /\ Wheel!Wheel' = w
  BY <1>1, <1>4, <1>5, <1>9, <1>10, <1>11, <1>12, <1>13, InvFrom
<1> QED BY <1>14 DEF w

\* timer_shift: every event is where it belongs in the new tick, and those that
\* expire together are in the same order.
LEMMA Shift ==
  ASSUME WheelInv, firing = <<>>, NEW now, now = (time + 1) % Wheel!Wrap
  PROVE  LET u == Wheel!Shifted(now)
         IN /\ u \in WheelType
            /\ \A p \in Places : Once(ListAt(u, p))
            /\ \A p \in Places, e \in Event : Has(ListAt(u, p), e) =>
                 expire[e] \in Wheel!Time /\ Ahead(expire[e], time) /\ Place(expire[e], now) = p
            /\ \A e \in Event : expire[e] # -1 => Has(ListAt(u, Place(expire[e], now)), e)
            /\ \A x \in Wheel!Time : Ahead(x, time) =>
                 Wheel!Among(ListAt(u, Place(x, now)), At(x))
                   = Wheel!Among(ListAt(Wheel!Wheel, Place(x, time)), At(x))
<1> DEFINE w == Wheel!Wheel
           u == Wheel!Shifted(now)
<1>1. w \in WheelType /\ time \in Wheel!Time /\ expire \in [Event -> Wheel!Time \cup {-1}]
      /\ -1 \notin Wheel!Time
  BY WheelTyped DEF WheelInv
<1>2. now \in Wheel!Time /\ now # time
  BY <1>1, NextTick
<1>3. PICK c \in -1 .. 3 : Turns(c, time, now)
  BY <1>1, Turning
<1> DEFINE j == Wheel!LevelIndex(now, c)
<1>4. Wheel!Cascade(now) = IF c = -1 THEN <<>> ELSE <<c, j>>
  BY <1>3 DEF Turns
<1>5. \A p \in Places : Once(ListAt(w, p)) /\ ListAt(w, p) \in Seq(Event)
  BY <1>1, ListTyped DEF WheelInv, InWheel
<1>6. \A p \in Places, e \in Event : Has(ListAt(w, p), e) =>
         expire[e] \in Wheel!Time /\ Ahead(expire[e], time) /\ Place(expire[e], time) = p
  BY WheelFacts
<1>7. \A e \in Event : expire[e] # -1 => Has(ListAt(w, Place(expire[e], time)), e)
  <2>1. \A e : ~ Has(<<>>, e)
    BY DEF Has
  <2> QED BY <2>1 DEF WheelInv
<1>8. \A x \in Wheel!Time : Ahead(x, time) =>
         IF c # -1 /\ Place(x, time) = <<c, j>> THEN Place(x, now) # <<c, j>>
         ELSE Place(x, now) = Place(x, time)
  BY <1>1, <1>3, PlaceStep
<1>9. \A x \in Wheel!Time : Place(x, time) \in Places /\ Place(x, now) \in Places
  BY <1>1, <1>2, PlaceTyped
<1>10. \A e \in Event : expire[e] # -1 =>
         expire[e] \in Wheel!Time /\ Ahead(expire[e], time) /\ Place(expire[e], time) \in Places
  BY <1>1, <1>6, <1>7, <1>9
<1> HIDE DEF w, u
<1>11. CASE c = -1
  <2>1. u = w
    BY <1>4, <1>11, Zenon DEF u, w, Wheel!Shifted
  <2>2. \A x \in Wheel!Time : Ahead(x, time) => Place(x, now) = Place(x, time)
    BY <1>8, <1>11
  <2>3. \A x \in Wheel!Time : Ahead(x, time) =>
                 Wheel!Among(ListAt(u, Place(x, now)), At(x)) = Wheel!Among(ListAt(w, Place(x, time)), At(x))
    BY <2>1, <2>2
  <2>4. \A p \in Places, e \in Event : Has(ListAt(u, p), e) =>
                 expire[e] \in Wheel!Time /\ Ahead(expire[e], time) /\ Place(expire[e], now) = p
    BY <1>6, <2>1, <2>2
  <2>5. \A e \in Event : expire[e] # -1 => Has(ListAt(u, Place(expire[e], now)), e)
    BY <1>7, <1>10, <2>1, <2>2
  <2> QED BY <1>1, <1>5, <2>1, <2>3, <2>4, <2>5 DEF u, w
<1>12. CASE c # -1
  <2> DEFINE C == <<c, j>>
             list == w.t[c][j]
             rest(p) == IF p = C THEN <<>> ELSE ListAt(w, p)
  <2>1. c \in Wheel!Level /\ c \in 0 .. 3 /\ j \in 0 .. TIME_LEVEL - 1
    BY <1>2, <1>12, Digits DEF Wheel!Level
  <2>2. u = Wheel!MoveList(w, c, j, now)
    <3>1. Wheel!Cascade(now) = <<c, j>> /\ <<c, j>> # <<>> /\ <<c, j>>[1] = c /\ <<c, j>>[2] = j
      BY <1>4, <1>12
    <3> QED BY <3>1, Zenon DEF u, w, Wheel!Shifted
  <2> HIDE DEF j
  <2>3. C \in Places /\ ListAt(w, C) = list
    BY <1>12, <2>1 DEF Places, ListAt
  <2> HIDE DEF C, list
  <2>4. \A e \in Event : Has(list, e) => expire[e] \in Wheel!Time
    BY <1>6, <2>3
  <2>5. \A p \in Places : p # C => \A e \in Event : ~ (Has(ListAt(w, p), e) /\ Has(list, e))
    BY <1>6, <2>3
  <2>6. /\ u \in WheelType
        /\ \A p \in Places : Once(ListAt(u, p))
        /\ \A p \in Places, e \in Event : Has(ListAt(u, p), e) <=>
             Has(rest(p), e) \/ (Has(list, e) /\ Place(expire[e], now) = p)
        /\ \A x \in Wheel!Time :
             LET before == Wheel!Among(rest(Place(x, now)), At(x))
                 after == Wheel!Among(ListAt(u, Place(x, now)), At(x))
                 some == Wheel!Among(list, At(x))
             IN (before = <<>> => after = some) /\ (some = <<>> => after = before)
    <3>1. \A p \in Places : Once(ListAt(w, p))
      BY <1>5
    <3> QED BY <1>1, <1>2, <2>1, <2>2, <2>4, <2>5, <3>1, Moved DEF C, list
  <2>7. \A e : ~ Has(<<>>, e)
    BY DEF Has
  <2>8. \A x \in Wheel!Time : Ahead(x, time) =>
         IF Place(x, time) = C THEN Place(x, now) # C ELSE Place(x, now) = Place(x, time)
    BY <1>8, <1>12 DEF C
  <2>9. ASSUME NEW p \in Places, NEW e \in Event, Has(ListAt(u, p), e)
        PROVE  expire[e] \in Wheel!Time /\ Ahead(expire[e], time) /\ Place(expire[e], now) = p
    <3>1. Has(rest(p), e) \/ (Has(list, e) /\ Place(expire[e], now) = p)
      BY <2>6, <2>9
    <3>2. CASE Has(rest(p), e)
      <4>1. p # C /\ Has(ListAt(w, p), e)
        BY <2>7, <3>2
      <4> QED BY <1>6, <2>8, <4>1
    <3>3. CASE Has(list, e) /\ Place(expire[e], now) = p
      BY <1>6, <2>3, <3>3
    <3> QED BY <3>1, <3>2, <3>3
  <2>10. ASSUME NEW e \in Event, expire[e] # -1
         PROVE  Has(ListAt(u, Place(expire[e], now)), e)
    <3> DEFINE x == expire[e]
    <3>1. x \in Wheel!Time /\ Ahead(x, time) /\ Has(ListAt(w, Place(x, time)), e) /\ Place(x, now) \in Places
      BY <1>7, <1>9, <1>10, <2>10
    <3>2. CASE Place(x, time) = C
      BY <2>3, <2>6, <3>1, <3>2
    <3>3. CASE Place(x, time) # C
      <4>1. Place(x, now) = Place(x, time) /\ Has(rest(Place(x, now)), e)
        BY <2>8, <3>1, <3>3
      <4> HIDE DEF x, rest
      <4>2. Has(ListAt(u, Place(x, now)), e)
        BY <2>6, <3>1, <4>1
      <4> QED BY <4>2 DEF x
    <3> QED BY <3>2, <3>3
  <2>11. ASSUME NEW x \in Wheel!Time, Ahead(x, time)
         PROVE  Wheel!Among(ListAt(u, Place(x, now)), At(x)) = Wheel!Among(ListAt(w, Place(x, time)), At(x))
    <3> DEFINE p == Place(x, now)
               q == Place(x, time)
               S == At(x)
    <3>1. p \in Places /\ q \in Places
      BY <1>9
    <3>2. ASSUME NEW r \in Places, r # q PROVE Wheel!Among(ListAt(w, r), S) = <<>>
      <4> DEFINE s == ListAt(w, r)
      <4>1. s \in Seq(Event)
        BY <1>5
      <4>2. \A e : Has(s, e) => e \in Event
        BY <4>1 DEF Has
      <4>3. \A e : Has(s, e) => e \notin S
        BY <1>6, <3>2, <4>2 DEF At
      <4> HIDE DEF s, S
      <4>4. Wheel!Among(s, S) = <<>>
        BY <4>1, <4>3, AmongHas
      <4> QED BY <4>4 DEF s
    <3>3. /\ Wheel!Among(rest(p), S) = <<>> => Wheel!Among(ListAt(u, p), S) = Wheel!Among(list, S)
          /\ Wheel!Among(list, S) = <<>> => Wheel!Among(ListAt(u, p), S) = Wheel!Among(rest(p), S)
      BY <2>6
    <3>4. CASE q = C
      <4>1. p # C /\ rest(p) = ListAt(w, p) /\ p # q
        BY <2>8, <2>11, <3>4
      <4>2. Wheel!Among(rest(p), S) = <<>>
        BY <3>1, <3>2, <4>1
      <4> QED BY <2>3, <3>3, <3>4, <4>2
    <3>5. CASE q # C
      <4>1. p = q /\ rest(p) = ListAt(w, q)
        BY <2>8, <2>11, <3>5
      <4>2. Wheel!Among(list, S) = <<>>
        BY <2>3, <3>2, <3>5
      <4> QED BY <3>3, <4>1, <4>2
    <3> QED BY <3>4, <3>5
  <2> QED BY <2>6, <2>9, <2>10, <2>11 DEF u, w
<1> QED BY <1>11, <1>12

\* A tick: the nodes of the new tick leave the wheel, the others are in their places.
LEMMA TickKeeps ==
  ASSUME WheelInv, firing = <<>>, NEW now, now = (time + 1) % Wheel!Wrap, time' = now,
         Wheel!Execute(Wheel!Shifted(now), now, "late", "idle")
  PROVE  LET u == Wheel!Shifted(now)
             p0 == <<-1, Wheel!NearIndex(now)>>
         IN /\ WheelInv'
            /\ UNCHANGED expire
            /\ firing' = ListAt(u, p0)
            /\ p0 \in Places
            /\ \A p \in Places : ListAt(Wheel!Wheel', p) = IF p = p0 THEN <<>> ELSE ListAt(u, p)
<1> DEFINE u == Wheel!Shifted(now)
           k == Wheel!NearIndex(now)
           p0 == <<-1, k>>
           v == [u EXCEPT !.near[k] = <<>>]
<1>1. time \in Wheel!Time /\ now \in Wheel!Time /\ expire \in [Event -> Wheel!Time \cup {-1}]
  BY WheelTyped, NextTick DEF WheelInv
<1>2. PICK c \in -1 .. 3 : Turns(c, time, now)
  BY <1>1, Turning
<1>3. \A x \in Wheel!Time : Ahead(x, time) /\ x # now => Ahead(x, now)
  BY <1>1, <1>2, PlaceStep
<1>4. \A x \in Wheel!Time : Place(x, now) \in Places /\ (Place(x, now) = p0 <=> x = now)
  BY <1>1, AtOnce, PlaceTyped
<1>5. k \in 0 .. TIME_NEAR - 1
  BY <1>1, Digits
<1>6. /\ u \in WheelType
      /\ \A p \in Places : Once(ListAt(u, p))
      /\ \A p \in Places, e \in Event : Has(ListAt(u, p), e) =>
           expire[e] \in Wheel!Time /\ Ahead(expire[e], time) /\ Place(expire[e], now) = p
      /\ \A e \in Event : expire[e] # -1 => Has(ListAt(u, Place(expire[e], now)), e)
  BY Shift
<1>7. /\ firing' = u.near[k] /\ near' = [u.near EXCEPT ![k] = <<>>] /\ t' = u.t /\ expire' = expire
      /\ timerPc' \in {"late", "idle"}
  <2> HIDE DEF u, k
  <2> QED BY DEF Wheel!Execute, u, k
<1> HIDE DEF u, k
<1>8. p0 \in Places /\ ListAt(u, p0) = u.near[k] /\ ListAt(u, p0) \in Seq(Event)
  <2>1. p0 \in Places /\ ListAt(u, p0) = u.near[k]
    BY <1>5 DEF Places, ListAt
  <2> QED BY <1>6, <2>1, ListTyped
<1>9. v \in WheelType /\ near' = v.near /\ t' = v.t
  <2>1. <<>> \in Seq(Event)
    OBVIOUS
  <2> QED BY <1>5, <1>6, <1>7, <2>1 DEF WheelType
<1>10. \A p \in Places : ListAt(v, p) = IF p = p0 THEN <<>> ELSE ListAt(u, p)
  <2> SUFFICES ASSUME NEW p \in Places PROVE ListAt(v, p) = IF p = p0 THEN <<>> ELSE ListAt(u, p)
    OBVIOUS
  <2>1. u.near \in [0 .. TIME_NEAR - 1 -> Seq(Event)]
    BY <1>6 DEF WheelType
  <2>2. v.near = [u.near EXCEPT ![k] = <<>>] /\ v.t = u.t
    BY <1>7, <1>9
  <2> HIDE DEF v
  <2>3. CASE \E j \in 0 .. TIME_NEAR - 1 : p = <<-1, j>> /\ \A w : ListAt(w, p) = w.near[j]
    <3>1. PICK j \in 0 .. TIME_NEAR - 1 : p = <<-1, j>> /\ \A w : ListAt(w, p) = w.near[j]
      BY <2>3
    <3>2. v.near[j] = IF j = k THEN <<>> ELSE u.near[j]
      BY <2>1, <2>2
    <3>3. p = p0 <=> j = k
      BY <3>1
    <3> QED BY <3>1, <3>2, <3>3
  <2>4. CASE \E i \in Wheel!Level, j \in 0 .. TIME_LEVEL - 1 :
               p = <<i, j>> /\ i # -1 /\ \A w : ListAt(w, p) = w.t[i][j]
    <3>1. ListAt(v, p) = ListAt(u, p) /\ p # p0
      BY <2>2, <2>4
    <3> QED BY <3>1
  <2> QED BY <2>3, <2>4, PlaceCases
<1> HIDE DEF v, p0
<1>11. \A e : ~ Has(<<>>, e)
  BY DEF Has
<1>12. \A p \in Places : Once(ListAt(v, p))
  BY <1>6, <1>10 DEF Once
<1>13. \A p \in Places, e \in Event : Has(ListAt(v, p), e) =>
            expire'[e] \in Wheel!Time /\ Ahead(expire'[e], time') /\ Place(expire'[e], time') = p
  <2> SUFFICES ASSUME NEW p \in Places, NEW e \in Event, Has(ListAt(v, p), e)
               PROVE  expire[e] \in Wheel!Time /\ Ahead(expire[e], now) /\ Place(expire[e], now) = p
    BY <1>7
  <2>1. p # p0 /\ Has(ListAt(u, p), e)
    BY <1>10, <1>11
  <2> QED BY <1>3, <1>4, <1>6, <2>1
<1>14. ASSUME NEW e \in Event, expire'[e] # -1
       PROVE  Has(firing', e) \/ Has(ListAt(v, Place(expire'[e], time')), e)
  <2> DEFINE x == expire[e]
  <2>1. x \in Wheel!Time /\ x # -1 /\ Has(ListAt(u, Place(x, now)), e)
    BY <1>1, <1>6, <1>7, <1>14
  <2>2. Place(x, now) \in Places
    BY <1>4, <2>1
  <2>3. Has(firing', e) \/ Has(ListAt(v, Place(x, now)), e)
    <3> HIDE DEF x
    <3> QED BY <1>7, <1>8, <1>10, <2>1, <2>2
  <2> QED BY <1>7, <2>3
<1>15. \A e \in Event : Has(firing', e) => expire'[e] = time'
  BY <1>4, <1>6, <1>7, <1>8
<1>16. Once(firing') /\ firing' \in Seq(Event) /\ time' \in Wheel!Time /\ timerPc' \in {"idle", "early", "late"}
       /\ expire' \in [Event -> Wheel!Time \cup {-1}]
  BY <1>1, <1>6, <1>7, <1>8
<1>17. WheelInv' /\ Wheel!Wheel' = v
  BY <1>9, <1>12, <1>13, <1>14, <1>15, <1>16, InvFrom
<1> QED BY <1>7, <1>8, <1>10, <1>17 DEF p0, u, k

\* timer_update either ticks or goes on without a change.
LEMMA UpdateKeeps ==
  ASSUME WheelInv, Wheel!Update
  PROVE  /\ WheelInv'
         /\ \/ UNCHANGED <<near, t, time, expire, firing>>
            \/ LET now == (time + 1) % Wheel!Wrap
               IN firing = <<>> /\ time' = now /\ Wheel!Execute(Wheel!Shifted(now), now, "late", "idle")
<1> DEFINE now == (time + 1) % Wheel!Wrap
           k == Wheel!NearIndex(time)
           w == Wheel!Wheel
<1>1. firing = <<>>
  BY DEF Wheel!Update
<1>2. k \in 0 .. TIME_NEAR - 1 /\ near[k] = <<>>
  BY WheelFacts
<1>3. CASE timerPc = "late"
  <2>1. Wheel!Execute(w, time, "late", "idle") /\ UNCHANGED time
    BY <1>3 DEF Wheel!Update
  <2>2. w \in WheelType /\ w.near = near /\ w.t = t /\ time \in Wheel!Time
        /\ expire \in [Event -> Wheel!Time \cup {-1}] /\ firing \in Seq(Event)
    BY WheelTyped DEF WheelInv
  <2>3. firing' = w.near[k] /\ near' = [w.near EXCEPT ![k] = <<>>] /\ t' = w.t /\ expire' = expire
        /\ timerPc' \in {"late", "idle"}
    BY <2>1 DEF Wheel!Execute
  <2>4. near \in [0 .. TIME_NEAR - 1 -> Seq(Event)]
    BY DEF WheelInv, Wheel!TypeOK
  <2> HIDE DEF w, k
  <2>5. near' = near /\ firing' = firing /\ t' = t
    BY <1>1, <1>2, <2>2, <2>3, <2>4
  <2>6. \A p \in Places : Once(ListAt(w, p))
    BY DEF WheelInv, InWheel, w
  <2>7. \A p \in Places, e \in Event : Has(ListAt(w, p), e) =>
            expire[e] \in Wheel!Time /\ Ahead(expire[e], time) /\ Place(expire[e], time) = p
    BY DEF WheelInv, InWheel, w
  <2>8. \A e \in Event : expire[e] # -1 => Has(firing, e) \/ Has(ListAt(w, Place(expire[e], time)), e)
    BY DEF WheelInv, w
  <2>9. Once(firing) /\ \A e \in Event : Has(firing, e) => expire[e] = time
    BY DEF WheelInv
  <2>10. near' = w.near /\ t' = w.t /\ timerPc' \in {"idle", "early", "late"} /\ time' = time
    BY <2>1, <2>2, <2>3, <2>5
  <2>11. WheelInv'
    BY <2>2, <2>3, <2>5, <2>6, <2>7, <2>8, <2>9, <2>10, InvFrom
  <2> QED BY <2>1, <2>3, <2>5, <2>11
<1>4. CASE timerPc # "late"
  <2>1. time' = now /\ Wheel!Execute(Wheel!Shifted(now), now, "late", "idle")
    BY <1>2, <1>4 DEF Wheel!Update
  <2>2. WheelInv'
    <3> HIDE DEF now
    <3>1. now = (time + 1) % Wheel!Wrap
      BY DEF now
    <3> QED BY <1>1, <2>1, <3>1, TickKeeps
  <2> QED BY <1>1, <2>1, <2>2
<1> QED BY <1>3, <1>4

\* The invariant is inductive.
LEMMA WheelNext == WheelInv /\ [Wheel!Next]_(Wheel!vars) => WheelInv'
<1> SUFFICES ASSUME WheelInv, [Wheel!Next]_(Wheel!vars) PROVE WheelInv'
  OBVIOUS
<1>1. CASE Wheel!Update
  BY <1>1, UpdateKeeps
<1>2. CASE Wheel!Send
  BY <1>2, SendKeeps
<1>3. ASSUME NEW e \in Event, NEW d \in Wheel!Delay, Wheel!Timeout(e, d) PROVE WheelInv'
  BY <1>3, TimeoutKeeps
<1>4. CASE UNCHANGED Wheel!vars
  BY <1>4 DEF Wheel!vars, WheelInv, Wheel!TypeOK, InWheel, Wheel!Wheel
<1> QED BY <1>1, <1>2, <1>3, <1>4 DEF Wheel!Next

\* Every node is where its turn is still to come before its tick.
LEMMA NothingLeft ==
  ASSUME WheelInv
  PROVE  Wheel!NothingLeftBehind
<1> SUFFICES ASSUME NEW e \in Event, expire[e] # -1
             PROVE  LET x == expire[e] IN
    \/ /\ e \in Wheel!Range(firing)
       /\ x = time
    \/ /\ e \in Wheel!Range(near[Wheel!NearIndex(x)])
       /\ Wheel!NearIndex(x) > Wheel!NearIndex(time)
       /\ Wheel!From(x, 0) = Wheel!From(time, 0)
    \/ /\ e \in Wheel!Range(t[3][Wheel!LevelIndex(x, 3)])
       /\ Wheel!LevelIndex(x, 3) # Wheel!LevelIndex(time, 3)
    \/ \E i \in Wheel!Level \ {3} :
         /\ e \in Wheel!Range(t[i][Wheel!LevelIndex(x, i)])
         /\ Wheel!LevelIndex(x, i) > Wheel!LevelIndex(time, i)
         /\ Wheel!From(x, i + 1) = Wheel!From(time, i + 1)
  BY DEF Wheel!NothingLeftBehind
<1> DEFINE x == expire[e]
           w == Wheel!Wheel
           p == Place(x, time)
<1>1. time \in Wheel!Time /\ x \in Wheel!Time /\ w \in WheelType /\ w.near = near /\ w.t = t
      /\ firing \in Seq(Event)
  BY WheelTyped DEF WheelInv
<1>2. \A s \in Seq(Event) : Has(s, e) => e \in Wheel!Range(s)
  BY DEF Has, Wheel!Range
<1>3. CASE Has(firing, e)
  BY <1>1, <1>2, <1>3 DEF WheelInv
<1>4. CASE ~ Has(firing, e)
  <2>1. p \in Places /\ Has(ListAt(w, p), e) /\ ListAt(w, p) \in Seq(Event)
    BY <1>1, <1>4, PlaceTyped, ListTyped DEF WheelInv
  <2>2. Ahead(x, time)
    BY <2>1, WheelFacts
  <2> HIDE DEF x, w
  <2>3. x \in Nat /\ time \in Nat /\ x # time
    BY <1>1, <2>2, Digits DEF Ahead
  <2>4. CASE Wheel!From(x, 0) = Wheel!From(time, 0)
    <3> DEFINE k == Wheel!NearIndex(x)
    <3>1. p = <<-1, k>> /\ ListAt(w, p) = near[k]
      BY <1>1, <2>4, PlaceTyped DEF ListAt
    <3>2. Wheel!From(x, 3) = Wheel!From(time, 3)
      BY <1>1, <2>4, AgreeUp
    <3>3. x > time
      BY <2>2, <3>2 DEF Ahead
    <3>4. /\ x = TIME_NEAR * Wheel!From(x, 0) + k
          /\ time = TIME_NEAR * Wheel!From(time, 0) + Wheel!NearIndex(time)
          /\ k \in 0 .. TIME_NEAR - 1 /\ Wheel!NearIndex(time) \in 0 .. TIME_NEAR - 1
          /\ Wheel!From(x, 0) \in Nat /\ TIME_NEAR \in Nat
      BY <1>1, Digits, WheelAssumption
    <3>5. k > Wheel!NearIndex(time)
      BY <2>4, <3>3, <3>4
    <3> QED BY <1>2, <2>1, <2>4, <3>1, <3>5 DEF x
  <2>5. CASE Wheel!From(x, 0) # Wheel!From(time, 0)
    <3> DEFINE i == Wheel!LevelOf(x, time)
               k == Wheel!LevelIndex(x, i)
    <3>1. i \in 0 .. 3 /\ i \in Wheel!Level /\ p = <<i, k>>
      BY <1>1, <2>5, LevelFacts, PlaceTyped
    <3>2. Wheel!From(x, i) # Wheel!From(time, i) /\ Wheel!From(x, i + 1) = Wheel!From(time, i + 1)
      BY <1>1, <2>5, LevelFacts
    <3> HIDE DEF i
    <3>3. ListAt(w, p) = t[i][k]
      BY <1>1, <3>1 DEF ListAt, Wheel!Level
    <3>4. Wheel!LevelIndex(x, i) # Wheel!LevelIndex(time, i)
      BY <1>1, <3>1, <3>2, Agree
    <3>5. CASE i = 3
      BY <1>2, <2>1, <3>3, <3>4, <3>5 DEF x
    <3>6. CASE i # 3
      <4>1. i + 1 \in 0 .. 4 /\ i + 1 <= 3 /\ i \in 0 .. 4
        BY <3>1, <3>6
      <4>2. Wheel!From(x, 3) = Wheel!From(time, 3)
        BY <1>1, <3>2, <4>1, AgreeUp
      <4>3. x > time
        BY <2>2, <4>2 DEF Ahead
      <4>4. Wheel!From(time, i) <= Wheel!From(x, i)
        BY <1>1, <2>3, <4>1, <4>3, Agree
      <4>5. /\ Wheel!From(x, i) = TIME_LEVEL * Wheel!From(x, i + 1) + Wheel!LevelIndex(x, i)
            /\ Wheel!From(time, i) = TIME_LEVEL * Wheel!From(time, i + 1) + Wheel!LevelIndex(time, i)
            /\ Wheel!LevelIndex(x, i) \in 0 .. TIME_LEVEL - 1
            /\ Wheel!LevelIndex(time, i) \in 0 .. TIME_LEVEL - 1
        BY <1>1, <3>1, Digits
      <4>6. Wheel!From(x, i + 1) \in Nat /\ TIME_LEVEL \in Nat
        BY <1>1, <4>1, Digits, WheelAssumption
      <4>7. Wheel!LevelIndex(x, i) > Wheel!LevelIndex(time, i)
        BY <3>2, <3>4, <4>4, <4>5, <4>6
      <4> QED BY <1>2, <2>1, <3>1, <3>2, <3>3, <3>6, <4>7 DEF x
    <3> QED BY <3>5, <3>6
  <2> QED BY <2>4, <2>5
<1> QED BY <1>3, <1>4

-----------------------------------------------------------------------------
(***************************************************************************)
(* What the timer promises: the events due in a number of ticks, and how   *)
(* they come nearer.                                                       *)
(***************************************************************************)
\* Going d ticks around a circle of n.
LEMMA Shifting ==
  ASSUME NEW n \in Nat \ {0}, NEW a \in 0 .. n - 1, NEW x \in 0 .. n - 1, NEW d \in 0 .. n - 1
  PROVE  /\ (a + d) % n \in 0 .. n - 1
         /\ (x - a) % n \in 0 .. n - 1
         /\ (a + d) % n = x => (x - a) % n = d
         /\ (x - a) % n = d => (a + d) % n = x
<1>1. (a + d) % n \in 0 .. n - 1 /\ (x - a) % n \in 0 .. n - 1
  OBVIOUS
<1>2. (a + d) % n = IF a + d < n THEN a + d ELSE (a + d) - n
  <2>1. a + d \in 0 .. 2 * n - 1
    OBVIOUS
  <2> QED BY <2>1, RingIndex
<1>3. (x - a) % n = IF x < a THEN (x - a) + n ELSE x - a
  <2>1. CASE x < a
    <3> DEFINE r == (x - a) + n
    <3>1. r \in 0 .. n - 1 /\ x - a = n * (-1) + r /\ -1 \in Int
      BY <2>1
    <3> HIDE DEF r
    <3>2. (n * (-1) + r) % n = r
      BY <3>1, Quotient
    <3> QED BY <2>1, <3>1, <3>2 DEF r
  <2>2. CASE x >= a
    <3>1. x - a \in 0 .. 2 * n - 1 /\ x - a < n /\ ~ (x < a)
      BY <2>2
    <3> QED BY <3>1, RingIndex
  <2> QED BY <2>1, <2>2
<1> QED BY <1>1, <1>2, <1>3

\* The way around the circle and back.
LEMMA ShiftBack ==
  ASSUME NEW n \in Nat \ {0}, NEW a \in 0 .. n - 1, NEW x \in 0 .. n - 1, NEW d \in 0 .. n - 1,
         (a + d) % n = x
  PROVE  (x - a) % n = d
BY Shifting

LEMMA ShiftThere ==
  ASSUME NEW n \in Nat \ {0}, NEW a \in 0 .. n - 1, NEW x \in 0 .. n - 1, NEW d \in 0 .. n - 1,
         (x - a) % n = d
  PROVE  (a + d) % n = x
BY Shifting

\* The part of a function of sequences where there is something.
Filled(f) == [k \in {j \in DOMAIN f : f[j] # <<>>} |-> f[k]]

Ticks == 1 .. Wheel!Wrap - 1

Coming == [d \in Ticks |-> Wheel!ExpireAt((time + d) % Wheel!Wrap)]

Due == [d \in {Wheel!Remaining(e) : e \in Wheel!Pending} |-> Wheel!ExpireAt((time + d) % Wheel!Wrap)]

\* What is due when an event has been set, and when a tick has gone by.
AfterSet(due, d, e) ==
  [k \in DOMAIN due \cup {d} |-> IF k = d THEN Append(IF k \in DOMAIN due THEN due[k] ELSE <<>>, e) ELSE due[k]]

AfterTick(due) == [d \in {k - 1 : k \in DOMAIN due \ {1}} |-> due[d + 1]]

Appended(f, g, d, e) ==
  /\ DOMAIN g = DOMAIN f
  /\ d \in DOMAIN f
  /\ f[d] \in Seq(Event)
  /\ \A k \in DOMAIN f : g[k] = IF k = d THEN Append(f[k], e) ELSE f[k]

\* One more event is due.
LEMMA FilledSet ==
  ASSUME NEW f, NEW g, NEW d, NEW e \in Event, Appended(f, g, d, e)
  PROVE  Filled(g) = AfterSet(Filled(f), d, e)
<1>1. Append(f[d], e) # <<>>
  BY AppendFacts DEF Appended
<1>2. DOMAIN Filled(g) = DOMAIN Filled(f) \cup {d}
  BY <1>1 DEF Filled, Appended
<1>3. ASSUME NEW k \in DOMAIN Filled(f) \cup {d}
      PROVE  Filled(g)[k] = IF k = d THEN Append(IF k \in DOMAIN Filled(f) THEN Filled(f)[k] ELSE <<>>, e)
                            ELSE Filled(f)[k]
  BY <1>1, <1>3 DEF Filled, Appended
<1> QED BY <1>2, <1>3 DEF Filled, AfterSet

\* Everything is due one tick sooner.
LEMMA FilledTick ==
  ASSUME NEW W \in Nat, W >= 2, NEW f, NEW g, DOMAIN f = 1 .. W - 1, DOMAIN g = 1 .. W - 1,
         \A k \in 1 .. W - 2 : g[k] = f[k + 1], g[W - 1] = <<>>
  PROVE  Filled(g) = AfterTick(Filled(f))
<1> DEFINE D == {k - 1 : k \in DOMAIN Filled(f) \ {1}}
<1>1. \A k : k \in DOMAIN Filled(f) <=> k \in 1 .. W - 1 /\ f[k] # <<>>
  BY DEF Filled
<1>2. \A k : k \in DOMAIN Filled(g) <=> k \in 1 .. W - 1 /\ g[k] # <<>>
  BY DEF Filled
<1>3. ASSUME NEW k \in D PROVE k \in DOMAIN Filled(g)
  <2>1. PICK m \in DOMAIN Filled(f) \ {1} : k = m - 1
    OBVIOUS
  <2>2. m \in 2 .. W - 1 /\ f[m] # <<>> /\ k \in 1 .. W - 2 /\ k + 1 = m
    BY <1>1, <2>1
  <2> QED BY <1>2, <2>2
<1>4. ASSUME NEW k \in DOMAIN Filled(g) PROVE k \in D /\ Filled(g)[k] = Filled(f)[k + 1]
  <2>1. k \in 1 .. W - 1 /\ g[k] # <<>> /\ k # W - 1
    BY <1>2
  <2>2. k \in 1 .. W - 2 /\ g[k] = f[k + 1] /\ k + 1 \in 2 .. W - 1 /\ k = (k + 1) - 1
    BY <2>1
  <2>3. k + 1 \in DOMAIN Filled(f) \ {1}
    BY <1>1, <2>1, <2>2
  <2>4. Filled(f)[k + 1] = f[k + 1] /\ Filled(g)[k] = g[k]
    BY <2>3 DEF Filled
  <2> QED BY <2>2, <2>3, <2>4
<1>5. DOMAIN Filled(g) = D
  BY <1>3, <1>4
<1> HIDE DEF D
<1>6. Filled(g) = [k \in DOMAIN Filled(g) |-> Filled(g)[k]]
  BY DEF Filled
<1>7. Filled(g) = [k \in D |-> Filled(f)[k + 1]]
  BY <1>4, <1>5, <1>6
<1> QED BY <1>7 DEF D, AfterTick

\* Only the empty list has no element.
LEMMA SomeElement ==
  ASSUME NEW T, NEW s \in Seq(T), s # <<>>
  PROVE  \E e \in T : Has(s, e)
<1>1. Len(s) # 0
  BY EmptySeq
<1>2. 1 \in 1 .. Len(s) /\ s[1] \in T
  BY <1>1
<1> QED BY <1>2 DEF Has

\* The range of a list.
LEMMA RangeHas ==
  ASSUME NEW T, NEW s \in Seq(T)
  PROVE  \A e : e \in Wheel!Range(s) <=> Has(s, e)
BY DEF Wheel!Range, Has

DueFacts ==
  /\ Due = Filled(Coming)
  /\ \A x \in Wheel!Time :
       /\ Wheel!ExpireAt(x) = Wheel!Among(ListAt(Wheel!Wheel, Place(x, time)), At(x))
       /\ Wheel!ExpireAt(x) \in Seq(Event)
       /\ \A e \in Event : Has(Wheel!ExpireAt(x), e) <=> expire[e] = x /\ ~ Has(firing, e)
  /\ Wheel!ExpireAt(time) = <<>>

\* The list of an expiry is that of its place.
LEMMA ListForAt ==
  ASSUME NEW w, NEW x \in Wheel!Time, NEW now \in Wheel!Time
  PROVE  Wheel!ListFor(w, x, now) = ListAt(w, Place(x, now))
<1>1. CASE Wheel!From(x, 0) = Wheel!From(now, 0)
  BY <1>1 DEF Wheel!ListFor, ListAt, Place
<1>2. CASE Wheel!From(x, 0) # Wheel!From(now, 0)
  <2> DEFINE i == Wheel!LevelOf(x, now)
  <2>1. i \in Wheel!Level /\ Place(x, now) = <<i, Wheel!LevelIndex(x, i)>>
    BY <1>2, PlaceTyped
  <2>2. i # -1
    BY <2>1 DEF Wheel!Level
  <2>3. Wheel!ListFor(w, x, now) = w.t[i][Wheel!LevelIndex(x, i)]
    BY <1>2 DEF Wheel!ListFor
  <2> HIDE DEF i
  <2> QED BY <2>1, <2>2, <2>3 DEF ListAt
<1> QED BY <1>1, <1>2

\* The invariant says that the lists hold what is due, in every tick.
LEMMA WhatIsDue == WheelInv => DueFacts
<1> SUFFICES ASSUME WheelInv PROVE DueFacts
  OBVIOUS
<1> DEFINE w == Wheel!Wheel
           n == Wheel!Wrap
           X(x) == Wheel!ExpireAt(x)
<1>1. w \in WheelType /\ time \in Wheel!Time /\ -1 \notin Wheel!Time
      /\ expire \in [Event -> Wheel!Time \cup {-1}] /\ firing \in Seq(Event)
  BY WheelTyped DEF WheelInv
<1>2. n \in Nat \ {0} /\ Wheel!Time = 0 .. n - 1
  BY Halves DEF Wheel!Time
<1>3. \A p \in Places, e \in Event : Has(ListAt(w, p), e) =>
         expire[e] \in Wheel!Time /\ expire[e] # time /\ Place(expire[e], time) = p /\ ~ Has(firing, e)
  BY WheelFacts
<1>4. \A e \in Event : expire[e] # -1 => Has(firing, e) \/ Has(ListAt(w, Place(expire[e], time)), e)
  BY DEF WheelInv
<1>5. \A e \in Event : Has(firing, e) => expire[e] = time
  BY DEF WheelInv
<1> HIDE DEF w
<1>6. ASSUME NEW x \in Wheel!Time
      PROVE  /\ X(x) = Wheel!Among(ListAt(w, Place(x, time)), At(x)) /\ X(x) \in Seq(Event)
             /\ \A e \in Event : Has(X(x), e) <=> expire[e] = x /\ ~ Has(firing, e)
  <2> DEFINE s == ListAt(w, Place(x, time))
  <2>1. X(x) = Wheel!Among(s, At(x))
    BY <1>1, ListForAt DEF Wheel!ExpireAt, At, w
  <2>2. Place(x, time) \in Places /\ s \in Seq(Event)
    BY <1>1, PlaceTyped, ListTyped
  <2>3. \A e \in Event : Has(s, e) =>
         expire[e] \in Wheel!Time /\ expire[e] # time /\ ~ Has(firing, e)
    BY <1>3, <2>2
  <2>4. \A e \in Event : expire[e] = x => Has(firing, e) \/ Has(s, e)
    BY <1>1, <1>4
  <2> HIDE DEF s, X
  <2>5. Wheel!Among(s, At(x)) \in Seq(Event) /\ \A e : Has(Wheel!Among(s, At(x)), e) <=> Has(s, e) /\ e \in At(x)
    BY <2>2, AmongHas
  <2>6. \A e \in Event : e \in At(x) <=> expire[e] = x
    BY DEF At
  <2> QED BY <2>1, <2>3, <2>4, <2>5, <2>6 DEF s
<1>7. X(time) = <<>>
  <2>1. ASSUME NEW e, Has(X(time), e) PROVE FALSE
    <3>1. e \in Event
      BY <1>1, <1>6, <2>1 DEF Has
    <3>2. expire[e] = time /\ ~ Has(firing, e)
      BY <1>1, <1>6, <2>1, <3>1
    <3>3. Has(ListAt(w, Place(expire[e], time)), e) /\ Place(expire[e], time) \in Places
      BY <1>1, <1>4, <3>1, <3>2, PlaceTyped
    <3> QED BY <1>3, <3>1, <3>2, <3>3
  <2>2. X(time) \in Seq(Event)
    BY <1>1, <1>6
  <2> HIDE DEF X
  <2> QED BY <2>1, <2>2, SomeElement
<1>8. Due = Filled(Coming)
  <2> DEFINE D == {Wheel!Remaining(e) : e \in Wheel!Pending}
             In(d) == X((time + d) % n)
  <2>1. \A e : e \in Wheel!Pending <=> e \in Event /\ expire[e] # -1 /\ ~ Has(firing, e)
    BY <1>1, RangeHas DEF Wheel!Pending
  <2>2. ASSUME NEW e \in Wheel!Pending
        PROVE  Wheel!Remaining(e) \in Ticks /\ Has(In(Wheel!Remaining(e)), e)
    <3> DEFINE x == expire[e]
               d == Wheel!Remaining(e)
    <3>1. e \in Event /\ x \in Wheel!Time /\ ~ Has(firing, e) /\ x # time
      <4>1. e \in Event /\ x \in Wheel!Time /\ ~ Has(firing, e)
        BY <1>1, <2>1, <2>2
      <4>2. Has(ListAt(w, Place(x, time)), e) /\ Place(x, time) \in Places
        BY <1>1, <1>4, <4>1, PlaceTyped
      <4> QED BY <1>3, <4>1, <4>2
    <3>2. d = (x - time) % n
      BY DEF Wheel!Remaining
    <3> HIDE DEF x, d, n
    <3>0. n \in Nat \ {0} /\ time \in 0 .. n - 1 /\ x \in 0 .. n - 1
      BY <1>1, <1>2, <3>1
    <3>3. d \in 0 .. n - 1 /\ (time + d) % n = x
      <4>1. d \in 0 .. n - 1
        BY <3>0, <3>2
      <4>2. (x - time) % n = d
        BY <3>2
      <4>3. (time + d) % n = x
        BY <3>0, <4>1, <4>2, ShiftThere, Zenon
      <4> QED BY <4>1, <4>3
    <3>4. d # 0
      <4>1. (time + 0) % n = time
        <5>1. time + 0 \in 0 .. 2 * n - 1 /\ time + 0 < n /\ time + 0 = time
          BY <3>0
        <5> QED BY <3>0, <5>1, RingIndex
      <4> QED BY <3>1, <3>3, <4>1
    <3>5. d \in Ticks
      BY <1>2, <3>3, <3>4 DEF Ticks, n
    <3>6. Has(In(d), e)
      BY <1>6, <3>1, <3>3 DEF x
    <3> QED BY <3>5, <3>6 DEF d
  <2>3. ASSUME NEW d \in Ticks PROVE (time + d) % n \in Wheel!Time /\ (In(d) # <<>> => d \in D)
    <3> DEFINE x == (time + d) % n
    <3>1. d \in 0 .. n - 1 /\ d # 0
      BY <1>2 DEF Ticks
    <3>2. x \in Wheel!Time /\ (x - time) % n = d
      <4>1. n \in Nat \ {0} /\ time \in 0 .. n - 1 /\ d \in 0 .. n - 1 /\ x = (time + d) % n
        BY <1>1, <1>2, <3>1
      <4> HIDE DEF n, x
      <4>2. x \in 0 .. n - 1
        BY <4>1, Shifting
      <4>3. (time + d) % n = x
        BY <4>1
      <4>4. (x - time) % n = d
        BY <4>1, <4>2, <4>3, ShiftBack, Zenon
      <4> QED BY <1>2, <4>2, <4>4 DEF n
    <3>3. ASSUME In(d) # <<>> PROVE d \in D
      <4>1. In(d) \in Seq(Event)
        BY <1>6, <3>2
      <4>2. PICK e \in Event : Has(In(d), e)
        <5> HIDE DEF In
        <5> QED BY <3>3, <4>1, SomeElement DEF Has
      <4>3. expire[e] = x /\ ~ Has(firing, e)
        BY <1>6, <3>2, <4>2
      <4>4. e \in Wheel!Pending
        BY <1>1, <2>1, <3>2, <4>3
      <4>5. Wheel!Remaining(e) = d
        BY <3>2, <4>3 DEF Wheel!Remaining
      <4> QED BY <4>4, <4>5
    <3> QED BY <3>2, <3>3
  <2>4. \A e, d : Has(In(d), e) => In(d) # <<>>
    <3>1. \A e : ~ Has(<<>>, e)
      BY DEF Has
    <3> HIDE DEF In
    <3> QED BY <3>1
  <2>5. D = {d \in Ticks : In(d) # <<>>}
    <3>1. ASSUME NEW d \in D PROVE d \in Ticks /\ In(d) # <<>>
      <4>1. PICK e \in Wheel!Pending : d = Wheel!Remaining(e)
        OBVIOUS
      <4> HIDE DEF In
      <4> QED BY <2>2, <2>4, <4>1
    <3> HIDE DEF D, In
    <3> QED BY <2>3, <3>1
  <2>6. Due = [d \in D |-> In(d)]
    BY DEF Due
  <2>7. Filled(Coming) = [d \in {k \in Ticks : In(k) # <<>>} |-> In(d)]
    <3>1. Coming = [d \in Ticks |-> In(d)]
      BY DEF Coming
    <3> HIDE DEF In
    <3> QED BY <3>1 DEF Filled
  <2> HIDE DEF D, In
  <2> QED BY <2>5, <2>6, <2>7
<1> HIDE DEF X
<1> QED BY <1>6, <1>7, <1>8 DEF DueFacts, X, w

\* The same after a step.
LEMMA DueNext == WheelInv' => DueFacts'
BY WhatIsDue, PTL

\* Ticks to come and the times they lead to.
LEMMA WrapFacts ==
  ASSUME Wheel!TypeOK
  PROVE  /\ Wheel!Wrap \in Nat \ {0} /\ Wheel!Wrap >= 2 /\ Wheel!Time = 0 .. Wheel!Wrap - 1
         /\ time \in 0 .. Wheel!Wrap - 1 /\ -1 \notin Wheel!Time
         /\ \A k \in Ticks : k \in 0 .. Wheel!Wrap - 1 /\ (time + k) % Wheel!Wrap \in Wheel!Time
         /\ Wheel!Delay \subseteq Ticks
<1> DEFINE n == Wheel!Wrap
<1>1. n \in Nat \ {0} /\ n >= 2 /\ Wheel!Time = 0 .. n - 1
  BY Halves DEF Wheel!Time
<1>2. time \in 0 .. n - 1 /\ -1 \notin Wheel!Time
  BY <1>1 DEF Wheel!TypeOK
<1>3. ASSUME NEW k \in Ticks PROVE k \in 0 .. n - 1 /\ (time + k) % n \in Wheel!Time
  <2>1. k \in 0 .. n - 1
    BY <1>1 DEF Ticks
  <2> QED BY <1>1, <1>2, <2>1
<1>4. Wheel!Delay \subseteq Ticks
  <2>1. n \div 2 \in Nat /\ n \div 2 <= n
    BY <1>1
  <2> QED BY <1>1, <2>1 DEF Wheel!Delay, Ticks
<1> QED BY <1>1, <1>2, <1>3, <1>4

\* A timeout is behind those that are due in its tick already.
LEMMA TimeoutSets ==
  ASSUME WheelInv, NEW e \in Event, NEW d \in Wheel!Delay, Wheel!Timeout(e, d)
  PROVE  Wheel!Promise!Set(e, d)
<1> DEFINE n == Wheel!Wrap
           w == Wheel!Wheel
           x == Wheel!Expiry(d)
<1>1. /\ WheelInv'
      /\ \A p \in Places : ListAt(Wheel!Wheel', p)
              = IF p = Place(x, time) THEN Append(ListAt(w, p), e) ELSE ListAt(w, p)
      /\ expire[e] = -1 /\ x \in Wheel!Time
      /\ \A p \in Places : ~ Has(ListAt(w, p), e)
  BY TimeoutKeeps
<1>2. expire' = [expire EXCEPT ![e] = x] /\ time' = time /\ firing' = firing
  BY DEF Wheel!Timeout
<1>3. DueFacts /\ DueFacts'
  BY <1>1, WhatIsDue, DueNext
<1>4. Wheel!TypeOK /\ w \in WheelType /\ time \in Wheel!Time /\ expire \in [Event -> Wheel!Time \cup {-1}]
      /\ firing \in Seq(Event)
  BY WheelTyped DEF WheelInv
<1>5. /\ n \in Nat \ {0} /\ Wheel!Time = 0 .. n - 1 /\ time \in 0 .. n - 1 /\ -1 \notin Wheel!Time
      /\ \A k \in Ticks : k \in 0 .. n - 1 /\ (time + k) % n \in Wheel!Time
      /\ d \in Ticks
  BY <1>4, WrapFacts
<1>6. x = (time + d) % n
  BY DEF Wheel!Expiry
<1> HIDE DEF n, w, x
<1>7. ASSUME NEW y \in Wheel!Time
      PROVE  /\ Wheel!ExpireAt(y) = Wheel!Among(ListAt(w, Place(y, time)), At(y))
             /\ Wheel!ExpireAt(y)' = Wheel!Among(ListAt(Wheel!Wheel', Place(y, time)), {c \in Event : expire'[c] = y})
             /\ Wheel!ExpireAt(y) \in Seq(Event)
  <2>1. Wheel!ExpireAt(y) = Wheel!Among(ListAt(w, Place(y, time)), At(y)) /\ Wheel!ExpireAt(y) \in Seq(Event)
    BY <1>3 DEF DueFacts, w
  <2>2. Wheel!ExpireAt(y)' = Wheel!Among(ListAt(Wheel!Wheel', Place(y, time')), At(y)')
    BY <1>3 DEF DueFacts
  <2>3. At(y)' = {c \in Event : expire'[c] = y}
    BY DEF At
  <2> QED BY <1>2, <2>1, <2>2, <2>3
<1>8. ASSUME NEW y \in Wheel!Time
      PROVE  Wheel!ExpireAt(y)' = IF y = x THEN Append(Wheel!ExpireAt(y), e) ELSE Wheel!ExpireAt(y)
  <2> DEFINE p == Place(y, time)
             s == ListAt(w, p)
             S == At(y)
             R == {c \in Event : expire'[c] = y}
  <2>1. p \in Places /\ s \in Seq(Event)
    BY <1>4, PlaceTyped, ListTyped
  <2>2. \A c \in Event : c \in R <=> (IF c = e THEN y = x ELSE c \in S)
    BY <1>2, <1>4 DEF At
  <2>3. e \notin S /\ ~ Has(s, e)
    BY <1>1, <1>5, <2>1 DEF At
  <2>4. ListAt(Wheel!Wheel', p) = IF p = Place(x, time) THEN Append(s, e) ELSE s
    BY <1>1, <2>1
  <2>5. Wheel!ExpireAt(y) = Wheel!Among(s, S) /\ Wheel!ExpireAt(y)' = Wheel!Among(ListAt(Wheel!Wheel', p), R)
    BY <1>7
  <2> HIDE DEF s, S, R
  <2>6. Wheel!Among(s, S) = Wheel!Among(s, R)
    <3>1. \A k \in 1 .. Len(s) : s[k] \in Event /\ s[k] # e
      BY <2>1, <2>3 DEF Has
    <3>2. \A k \in 1 .. Len(s) : s[k] \in S <=> s[k] \in R
      BY <2>2, <3>1
    <3> QED BY <2>1, <3>2, AmongSame
  <2>7. Wheel!Among(Append(s, e), R) = IF e \in R THEN Append(Wheel!Among(s, R), e) ELSE Wheel!Among(s, R)
    BY <2>1, AmongAppend
  <2>8. e \in R <=> y = x
    BY <2>2
  <2>9. y = x => p = Place(x, time)
    OBVIOUS
  <2> QED BY <2>4, <2>5, <2>6, <2>7, <2>8, <2>9
<1>9. \A k \in Ticks : Coming'[k] = IF k = d THEN Append(Coming[k], e) ELSE Coming[k]
  <2> SUFFICES ASSUME NEW k \in Ticks PROVE Coming'[k] = IF k = d THEN Append(Coming[k], e) ELSE Coming[k]
    OBVIOUS
  <2>0. PICK y \in Wheel!Time : y = (time + k) % n
    BY <1>5
  <2>1. Coming[k] = Wheel!ExpireAt(y)
    BY <2>0 DEF Coming, n
  <2>2. Coming'[k] = Wheel!ExpireAt(y)'
    BY <1>2, <2>0 DEF Coming, n
  <2>3. y \in Wheel!Time /\ k \in 0 .. n - 1 /\ y \in 0 .. n - 1 /\ d \in 0 .. n - 1
    BY <1>5
  <2>4. y = x <=> k = d
    <3>1. k = d => y = x
      BY <1>6, <2>0
    <3>2. ASSUME y = x PROVE k = d
      <4>1. (time + k) % n = x /\ (time + d) % n = x
        BY <1>6, <2>0, <3>2
      <4>2. n \in Nat \ {0} /\ time \in 0 .. n - 1 /\ x \in 0 .. n - 1 /\ k \in 0 .. n - 1 /\ d \in 0 .. n - 1
        BY <1>5, <2>3, <3>2
      <4> HIDE DEF Coming, n
      <4>3. time + k \in 0 .. 2 * n - 1 /\ time + d \in 0 .. 2 * n - 1
        BY <4>2
      <4>4. /\ (time + k) % n = IF time + k < n THEN time + k ELSE (time + k) - n
            /\ (time + d) % n = IF time + d < n THEN time + d ELSE (time + d) - n
        BY <4>2, <4>3, RingIndex
      <4>5. /\ x = IF time + k < n THEN time + k ELSE (time + k) - n
            /\ x = IF time + d < n THEN time + d ELSE (time + d) - n
        BY <4>1, <4>4, Zenon
      <4> QED BY <4>2, <4>5
    <3> QED BY <3>1, <3>2
  <2> QED BY <1>8, <2>1, <2>2, <2>3, <2>4
<1>10. DOMAIN Coming = Ticks /\ DOMAIN Coming' = Ticks /\ Coming[d] \in Seq(Event)
  <2>1. Coming[d] = Wheel!ExpireAt((time + d) % n)
    BY <1>5 DEF Coming, n
  <2> QED BY <1>5, <1>7, <2>1 DEF Coming
<1>11. Filled(Coming') = AfterSet(Filled(Coming), d, e)
  <2>1. Appended(Coming, Coming', d, e)
    BY <1>5, <1>9, <1>10 DEF Appended
  <2> QED BY <2>1, FilledSet
<1>12. Due = Filled(Coming) /\ Due' = Filled(Coming')
  BY <1>3 DEF DueFacts
<1>13. Due' = AfterSet(Due, d, e)
  BY <1>11, <1>12
<1>14. e \notin Wheel!Promise!Range(firing)
  <2>1. ~ Has(firing, e)
    BY <1>1, <1>4, <1>5 DEF WheelInv
  <2> QED BY <1>4, <2>1 DEF Wheel!Promise!Range, Has
<1>15. ASSUME NEW k \in DOMAIN Due PROVE e \notin Wheel!Promise!Range(Due[k])
  <2> DEFINE y == (time + k) % n
  <2>1. k \in Ticks /\ Due[k] = Coming[k]
    BY <1>10, <1>12, <1>15 DEF Filled
  <2>2. Due[k] = Wheel!ExpireAt(y) /\ y \in Wheel!Time
    BY <1>5, <2>1 DEF Coming, n
  <2> HIDE DEF y
  <2>3. ~ Has(Wheel!ExpireAt(y), e) /\ Wheel!ExpireAt(y) \in Seq(Event)
    <3>1. /\ Wheel!ExpireAt(y) \in Seq(Event)
          /\ Has(Wheel!ExpireAt(y), e) => expire[e] = y /\ ~ Has(firing, e)
      BY <1>3, <1>4, <2>2 DEF DueFacts
    <3> QED BY <1>1, <1>5, <2>2, <3>1
  <2> QED BY <2>2, <2>3 DEF Wheel!Promise!Range, Has
<1> QED BY <1>2, <1>13, <1>14, <1>15 DEF Wheel!Promise!Set, Wheel!Promise!DueIn, Due, AfterSet

\* What is sent is not due any more, it is being sent.
LEMMA SendFires ==
  ASSUME WheelInv, Wheel!Send
  PROVE  Wheel!Promise!Fire
<1> DEFINE n == Wheel!Wrap
           w == Wheel!Wheel
           h == Head(firing)
<1>1. WheelInv' /\ Wheel!Wheel' = w
  BY SendKeeps
<1>2. DueFacts /\ DueFacts'
  BY <1>1, WhatIsDue, DueNext
<1>3. firing # <<>> /\ firing' = Tail(firing) /\ expire' = [expire EXCEPT ![h] = -1] /\ time' = time
  BY DEF Wheel!Send
<1>4. Wheel!TypeOK /\ w \in WheelType /\ time \in Wheel!Time /\ expire \in [Event -> Wheel!Time \cup {-1}]
      /\ firing \in Seq(Event) /\ Once(firing)
  BY WheelTyped DEF WheelInv
<1>5. /\ n \in Nat \ {0} /\ -1 \notin Wheel!Time
      /\ \A k \in Ticks : k \in 0 .. n - 1 /\ (time + k) % n \in Wheel!Time
  BY <1>4, WrapFacts
<1>6. h \in Event /\ Has(firing, h)
  BY <1>3, <1>4, OnceTail
<1>7. \A p \in Places, e \in Event : Has(ListAt(w, p), e) => ~ Has(firing, e)
  BY WheelFacts
<1> HIDE DEF n, w, h
<1>8. ASSUME NEW y \in Wheel!Time
      PROVE  Wheel!ExpireAt(y)' = Wheel!ExpireAt(y)
  <2> DEFINE p == Place(y, time)
             s == ListAt(w, p)
             S == At(y)
             R == {c \in Event : expire'[c] = y}
  <2>1. p \in Places /\ s \in Seq(Event)
    BY <1>4, PlaceTyped, ListTyped
  <2>2. \A c \in Event : c # h => (c \in R <=> c \in S)
    BY <1>3, <1>4 DEF At
  <2>3. Wheel!ExpireAt(y) = Wheel!Among(s, S)
    BY <1>2 DEF DueFacts, w
  <2>4. Wheel!ExpireAt(y)' = Wheel!Among(s, R)
    <3>1. Wheel!ExpireAt(y)' = Wheel!Among(ListAt(Wheel!Wheel', Place(y, time')), At(y)')
      BY <1>2 DEF DueFacts
    <3>2. At(y)' = R
      BY DEF At
    <3> QED BY <1>1, <1>3, <3>1, <3>2
  <2>5. \A k \in 1 .. Len(s) : s[k] \in Event /\ s[k] # h
    <3>1. ~ Has(s, h)
      BY <1>6, <1>7, <2>1
    <3> HIDE DEF s
    <3> QED BY <2>1, <3>1 DEF Has
  <2> HIDE DEF s, S, R
  <2>6. Wheel!Among(s, S) = Wheel!Among(s, R)
    <3>1. \A k \in 1 .. Len(s) : s[k] \in S <=> s[k] \in R
      BY <2>2, <2>5
    <3> QED BY <2>1, <3>1, AmongSame
  <2> QED BY <2>3, <2>4, <2>6
<1>9. ASSUME NEW k \in Ticks PROVE Coming'[k] = Coming[k]
  <2>1. PICK y \in Wheel!Time : y = (time + k) % n
    BY <1>5
  <2>2. Coming[k] = Wheel!ExpireAt(y)
    BY <2>1 DEF Coming, n
  <2>3. Coming'[k] = Wheel!ExpireAt(y)'
    BY <1>3, <2>1 DEF Coming, n
  <2> QED BY <1>8, <2>2, <2>3
<1>10. Coming' = Coming
  BY <1>9 DEF Coming
<1>11. Due' = Due
  BY <1>2, <1>10 DEF DueFacts
<1> QED BY <1>3, <1>11 DEF Wheel!Promise!Fire, Due

\* A tick: everything is due one tick sooner, and what was due in the next is sent.
LEMMA UpdateTicks ==
  ASSUME WheelInv, firing = <<>>, NEW now, now = (time + 1) % Wheel!Wrap, time' = now,
         Wheel!Execute(Wheel!Shifted(now), now, "late", "idle")
  PROVE  Wheel!Promise!Tick
<1> DEFINE n == Wheel!Wrap
           w == Wheel!Wheel
           u == Wheel!Shifted(now)
           p0 == <<-1, Wheel!NearIndex(now)>>
<1>1. /\ WheelInv' /\ expire' = expire /\ firing' = ListAt(u, p0) /\ p0 \in Places
      /\ \A p \in Places : ListAt(Wheel!Wheel', p) = IF p = p0 THEN <<>> ELSE ListAt(u, p)
  BY TickKeeps
<1>2. /\ u \in WheelType
      /\ \A p \in Places, e \in Event : Has(ListAt(u, p), e) =>
           expire[e] \in Wheel!Time /\ Ahead(expire[e], time) /\ Place(expire[e], now) = p
      /\ \A x \in Wheel!Time : Ahead(x, time) =>
           Wheel!Among(ListAt(u, Place(x, now)), At(x)) = Wheel!Among(ListAt(w, Place(x, time)), At(x))
  BY Shift
<1>3. DueFacts /\ DueFacts'
  BY <1>1, WhatIsDue, DueNext
<1>4. Wheel!TypeOK /\ w \in WheelType /\ time \in Wheel!Time /\ expire \in [Event -> Wheel!Time \cup {-1}]
  BY WheelTyped DEF WheelInv
<1>5. /\ n \in Nat \ {0} /\ n >= 2 /\ Wheel!Time = 0 .. n - 1 /\ time \in 0 .. n - 1 /\ -1 \notin Wheel!Time
      /\ \A k \in Ticks : k \in 0 .. n - 1 /\ (time + k) % n \in Wheel!Time
  BY <1>4, WrapFacts
<1>6. now \in Wheel!Time /\ now # time /\ IF time = n - 1 THEN now = 0 ELSE now = time + 1
  BY <1>4, NextTick
<1>7. \A e \in Event : expire[e] # -1 => Ahead(expire[e], time)
  <2>1. \A e : ~ Has(<<>>, e)
    BY DEF Has
  <2>2. ASSUME NEW e \in Event, expire[e] # -1 PROVE Ahead(expire[e], time)
    <3>1. Has(ListAt(w, Place(expire[e], time)), e)
      BY <2>1, <2>2 DEF WheelInv
    <3>2. Place(expire[e], time) \in Places
      BY <1>4, <2>2, PlaceTyped
    <3> QED BY <3>1, <3>2, WheelFacts
  <2> QED BY <2>2
<1>8. \A x \in Wheel!Time : Place(x, now) \in Places /\ (Place(x, now) = p0 <=> x = now)
  BY <1>6, AtOnce, PlaceTyped
<1> HIDE DEF n, w, u, p0
<1>9. ASSUME NEW x \in Wheel!Time
      PROVE  /\ Wheel!ExpireAt(x) = Wheel!Among(ListAt(w, Place(x, time)), At(x))
             /\ Wheel!ExpireAt(x) \in Seq(Event)
             /\ \A e \in Event : Has(Wheel!ExpireAt(x), e) => Ahead(x, time)
             /\ Wheel!ExpireAt(x)' = Wheel!Among(ListAt(Wheel!Wheel', Place(x, now)), At(x))
             /\ Wheel!ExpireAt(x)' \in Seq(Event)
             /\ \A e \in Event : Has(Wheel!ExpireAt(x)', e) => Ahead(x, time)
  <2>1. /\ Wheel!ExpireAt(x) = Wheel!Among(ListAt(w, Place(x, time)), At(x)) /\ Wheel!ExpireAt(x) \in Seq(Event)
        /\ \A e \in Event : Has(Wheel!ExpireAt(x), e) => expire[e] = x
    BY <1>3 DEF DueFacts, w
  <2>2. /\ Wheel!ExpireAt(x)' = Wheel!Among(ListAt(Wheel!Wheel', Place(x, time')), At(x)')
        /\ Wheel!ExpireAt(x)' \in Seq(Event)
    BY <1>3 DEF DueFacts
  <2>3. At(x)' = At(x)
    BY <1>1 DEF At
  <2>4. \A e \in Event : Has(Wheel!ExpireAt(x)', e) => expire'[e] = x
    BY <1>3 DEF DueFacts
  <2> QED BY <1>1, <1>5, <1>7, <2>1, <2>2, <2>3, <2>4
<1>10. ASSUME NEW x \in Wheel!Time, x # now
       PROVE  Wheel!ExpireAt(x)' = Wheel!ExpireAt(x)
  <2>1. CASE Ahead(x, time)
    BY <1>1, <1>2, <1>8, <1>9, <1>10, <2>1
  <2>2. CASE ~ Ahead(x, time)
    BY <1>9, <2>2, SomeElement
  <2> QED BY <2>1, <2>2
<1>11. Wheel!ExpireAt(now) = firing'
  <2> DEFINE s == ListAt(u, p0)
  <2>1. s \in Seq(Event)
    BY <1>1, <1>2, ListTyped
  <2>2. \A e : Has(s, e) => e \in Event /\ expire[e] = now /\ Ahead(now, time)
    <3>1. \A e : Has(s, e) => e \in Event
      <4> HIDE DEF s
      <4> QED BY <2>1 DEF Has
    <3> QED BY <1>1, <1>2, <1>8, <3>1
  <2>3. CASE Ahead(now, time)
    <3>1. Wheel!ExpireAt(now) = Wheel!Among(s, At(now))
      BY <1>2, <1>6, <1>8, <1>9, <2>3
    <3>2. \A e : Has(s, e) => e \in At(now)
      BY <2>2 DEF At
    <3> HIDE DEF s
    <3>3. Wheel!Among(s, At(now)) = s
      BY <2>1, <3>2, AmongHas
    <3> QED BY <1>1, <3>1, <3>3 DEF s
  <2>4. CASE ~ Ahead(now, time)
    <3>1. Wheel!ExpireAt(now) = <<>>
      BY <1>6, <1>9, <2>4, SomeElement
    <3> HIDE DEF s
    <3>2. s = <<>>
      BY <2>1, <2>2, <2>4, SomeElement
    <3> QED BY <1>1, <3>1, <3>2 DEF s
  <2> QED BY <2>3, <2>4
<1>12. ASSUME NEW y \in Wheel!Time, y = time PROVE Wheel!ExpireAt(y)' = <<>>
  <2>1. ~ Ahead(y, time)
    BY <1>12 DEF Ahead
  <2> QED BY <1>9, <2>1, SomeElement
<1>13. \A k \in Ticks : Coming[k] = Wheel!ExpireAt((time + k) % n)
  BY DEF Coming, n
<1>14. \A k \in Ticks : Coming'[k] = Wheel!ExpireAt((now + k) % n)'
  BY DEF Coming, n
<1>15. ASSUME NEW k \in 1 .. n - 2 PROVE Coming'[k] = Coming[k + 1]
  <2>1. k \in Ticks /\ k + 1 \in Ticks /\ k + 1 \in 0 .. n - 1
    BY <1>5 DEF Ticks, n
  <2>2. PICK x \in Wheel!Time : x = (time + (k + 1)) % n
    BY <1>5, <2>1
  <2>3. (now + k) % n = x
    <3>1. now + k \in 0 .. 2 * n - 1 /\ time + (k + 1) \in 0 .. 2 * n - 1
      BY <1>5, <1>6
    <3>2. /\ (now + k) % n = IF now + k < n THEN now + k ELSE (now + k) - n
          /\ x = IF time + (k + 1) < n THEN time + (k + 1) ELSE (time + (k + 1)) - n
      BY <1>5, <2>2, <3>1, RingIndex
    <3>3. time \in Int /\ now \in Int /\ n \in Int /\ k \in Int /\ 1 <= k /\ k <= n - 2 /\ 0 <= time /\ time <= n - 1
      BY <1>5, <1>6
    <3>4. CASE time = n - 1
      BY <1>6, <3>2, <3>3, <3>4
    <3>5. CASE time # n - 1
      BY <1>6, <3>2, <3>3, <3>5
    <3> QED BY <3>4, <3>5
  <2>4. x # now
    <3> SUFFICES ASSUME x = now PROVE FALSE
      OBVIOUS
    <3>1. (time + (k + 1)) % n = x /\ (time + 1) % n = x /\ x \in 0 .. n - 1 /\ 1 \in 0 .. n - 1
      BY <1>5, <2>2 DEF n
    <3>2. n \in Nat \ {0} /\ time \in 0 .. n - 1 /\ k + 1 \in 0 .. n - 1
      BY <1>5, <2>1
    <3> HIDE DEF n
    <3>3. time + (k + 1) \in 0 .. 2 * n - 1 /\ time + 1 \in 0 .. 2 * n - 1 /\ k \in Nat /\ k # 0
      BY <1>15, <3>1, <3>2
    <3>4. /\ (time + (k + 1)) % n = IF time + (k + 1) < n THEN time + (k + 1) ELSE (time + (k + 1)) - n
          /\ (time + 1) % n = IF time + 1 < n THEN time + 1 ELSE (time + 1) - n
      BY <3>2, <3>3, RingIndex
    <3>5. /\ x = IF time + (k + 1) < n THEN time + (k + 1) ELSE (time + (k + 1)) - n
          /\ x = IF time + 1 < n THEN time + 1 ELSE (time + 1) - n
      BY <3>1, <3>4, Zenon
    <3> QED BY <3>2, <3>3, <3>5
  <2>5. Coming'[k] = Wheel!ExpireAt(x)'
    BY <1>14, <2>1, <2>3
  <2>6. Coming[k + 1] = Wheel!ExpireAt(x)
    BY <1>13, <2>1, <2>2
  <2> QED BY <1>10, <2>4, <2>5, <2>6
<1>16. Coming'[n - 1] = <<>>
  <2>1. n - 1 \in Ticks
    BY <1>5 DEF Ticks, n
  <2>2. PICK y \in Wheel!Time : y = time
    BY <1>4
  <2>3. (now + (n - 1)) % n = y
    <3>1. now + (n - 1) \in 0 .. 2 * n - 1
      BY <1>5, <1>6
    <3>2. (now + (n - 1)) % n = IF now + (n - 1) < n THEN now + (n - 1) ELSE (now + (n - 1)) - n
      BY <1>5, <3>1, RingIndex
    <3> DEFINE z == (now + (n - 1)) % n
    <3>3. z = IF now + (n - 1) < n THEN now + (n - 1) ELSE (now + (n - 1)) - n
      BY <3>2
    <3> HIDE DEF z
    <3>4. time \in Int /\ now \in Int /\ n \in Int /\ 0 <= time /\ time <= n - 1
      BY <1>5, <1>6
    <3>5. now = IF time = n - 1 THEN 0 ELSE time + 1
      BY <1>6, <3>4
    <3>6. z = time
      BY <3>3, <3>4, <3>5
    <3> QED BY <2>2, <3>6 DEF z
  <2>4. Coming'[n - 1] = Wheel!ExpireAt(y)'
    BY <1>14, <2>1, <2>3
  <2> QED BY <1>12, <2>2, <2>4
<1>17. Filled(Coming') = AfterTick(Filled(Coming))
  <2>1. DOMAIN Coming = 1 .. n - 1 /\ DOMAIN Coming' = 1 .. n - 1
    BY DEF Coming, Ticks, n
  <2> QED BY <1>5, <1>15, <1>16, <2>1, FilledTick
<1>18. Due = Filled(Coming) /\ Due' = AfterTick(Due)
  BY <1>3, <1>17 DEF DueFacts
<1>19. firing' = IF 1 \in DOMAIN Due THEN Due[1] ELSE <<>>
  <2>1. 1 \in Ticks
    BY <1>5 DEF Ticks, n
  <2>2. Coming[1] = firing'
    BY <1>11, <1>13, <2>1 DEF n
  <2>3. DOMAIN Coming = Ticks
    BY DEF Coming
  <2> HIDE DEF Coming
  <2> QED BY <1>18, <2>1, <2>2, <2>3 DEF Filled
<1> QED BY <1>18, <1>19 DEF Wheel!Promise!Tick, Wheel!Promise!DueIn, Due, AfterTick

\* Each step of the wheel is one of the promise, or changes nothing in it.
LEMMA WheelImplements ==
  ASSUME WheelInv, [Wheel!Next]_(Wheel!vars)
  PROVE  [Wheel!Promise!Next]_(Wheel!Promise!vars)
<1>1. ASSUME UNCHANGED <<near, t, time, expire, firing>> PROVE UNCHANGED Wheel!Promise!vars
  BY <1>1 DEF Wheel!Promise!vars, Wheel!Remaining, Wheel!Pending, Wheel!ExpireAt, Wheel!Wheel
<1>2. CASE Wheel!Update
  BY <1>1, <1>2, UpdateKeeps, UpdateTicks DEF Wheel!Promise!Next
<1>3. CASE Wheel!Send
  BY <1>3, SendFires DEF Wheel!Promise!Next
<1>4. ASSUME NEW e \in Event, NEW d \in Wheel!Delay, Wheel!Timeout(e, d)
      PROVE  Wheel!Promise!Next
  BY <1>4, TimeoutSets DEF Wheel!Promise!Next
<1>5. CASE UNCHANGED Wheel!vars
  BY <1>1, <1>5 DEF Wheel!vars
<1> QED BY <1>2, <1>3, <1>4, <1>5 DEF Wheel!Next

\* Nothing is due in the empty wheel.
LEMMA WheelStarts ==
  ASSUME Wheel!Init
  PROVE  Wheel!Promise!Init
<1>1. Wheel!Pending = {}
  BY DEF Wheel!Init, Wheel!Pending
<1> QED BY <1>1 DEF Wheel!Init, Wheel!Promise!Init

\* The timing wheel of skynet_timer.c keeps the promise of a timer, with arrays of
\* any sizes and for any timeouts: every timeout fires in its tick, those of a tick
\* in the order they were set, also when the time wraps around; and no node is left
\* behind in a list whose turn has passed.
THEOREM WheelTheorem == Wheel!Spec => ImplementsTimer
<1>1. Wheel!Init => WheelInv
  BY WheelInit
<1>2. WheelInv /\ [Wheel!Next]_(Wheel!vars) => WheelInv'
  BY WheelNext
<1>3. WheelInv => Wheel!TypeOK /\ Wheel!NothingLeftBehind
  BY NothingLeft DEF WheelInv
<1>4. Wheel!Init => Wheel!Promise!Init
  BY WheelStarts
<1>5. WheelInv /\ [Wheel!Next]_(Wheel!vars) => [Wheel!Promise!Next]_(Wheel!Promise!vars)
  BY WheelImplements
<1> QED BY <1>1, <1>2, <1>3, <1>4, <1>5, PTL DEF Wheel!Spec, ImplementsTimer, Wheel!ImplementsTimer, Wheel!Promise!Spec
=============================================================================
