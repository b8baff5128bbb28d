------------------------------ MODULE SichuanHu ------------------------------
(***************************************************************************)
(* How the mahjong room tells that a hand is complete: player.insert keeps *)
(* the hand sorted, and hu.lua reads it once from the left, without going  *)
(* back.  Each turn of its loop looks at the cards that follow the card    *)
(* `a`, counts the groups it recognises, and goes on from a later card.    *)
(* The nested conditions of the loop are a table here: a row is a word of  *)
(* steps from each card to the next one, the groups that are counted, and  *)
(* where the loop goes on.                                                 *)
(*                                                                         *)
(* Left out: the colour of the hand (qing), its gangs and the cards put    *)
(* down, which decide what a complete hand is worth.                       *)
(***************************************************************************)
EXTENDS Naturals, Sequences, FiniteSets, Bags, TLC

CONSTANTS Suits,   \* a set of numbers: card.type
          Ranks,   \* the numbers of a suit, 1..9 in the program
          Sizes    \* the sizes of the hands that are checked

VARIABLES hand,    \* player._cards
          reading, \* "not", "qidui" or "sichuan": the loop that is running
          a,       \* the card the next turn of the loop starts from
          rest,    \* cards[idx..len]
          tally,   \* jiang, tong3, lian3, single, lian2, ge2
          code     \* what the check returned: "none", a kind of hand or an error

vars == <<hand, reading, a, rest, tally, code>>

Cards == Suits \X Ranks
Copies == 4
NoCard == <<0, 0>>

\* The groups the loops count, with their cards: a pair, a triplet, a run, a
\* lone card, two neighbours, and two cards with a gap of one.
Size == [jiang |-> 2, tong3 |-> 3, lian3 |-> 3, single |-> 1, lian2 |-> 2, ge2 |-> 2]
Groups == DOMAIN Size

-----------------------------------------------------------------------------
\* card:mt, for cards whose suit is not given up
More(c, d) == \/ c[1] > d[1]
              \/ c[1] = d[1] /\ c[2] > d[2]

\* player.insert
Insert(h, card) ==
    LET upTo == Cardinality({i \in DOMAIN h : ~More(h[i], card)})
    IN  SubSeq(h, 1, upTo) \o <<card>> \o SubSeq(h, upTo + 1, Len(h))

-----------------------------------------------------------------------------
(* The words.  `E` is an equal card, `N` the next number, `U` the number   *)
(* after that, `F` a greater number of the suit, `O` another suit and `Z`  *)
(* the end of the hand.                                                    *)

E == {"equal"}
N == {"next"}
U == {"two up"}
F == {"further"}
G == U \cup F
O == {"other"}
Z == {"end"}
Y == G \cup O           \* neither equal nor next
X == N \cup Y           \* not equal
C == E \cup X           \* any card

Step(c, d) == CASE c[1] # d[1]        -> "other"
                [] d[2] = c[2]        -> "equal"
                [] d[2] = c[2] + 1    -> "next"
                [] d[2] = c[2] + 2    -> "two up"
                [] OTHER              -> "further"

Matches(word, cards) ==
    \A i \in DOMAIN word :
        (IF i < Len(cards) THEN Step(cards[i], cards[i + 1]) ELSE "end") \in word[i]

Row(word, groups, then, n) == [word |-> word, groups |-> groups, then |-> then, n |-> n]
Go(word, groups, n) == Row(word, groups, "go", n)      \* `a` moves n cards on
Stop(word, groups)  == Row(word, groups, "stop", 0)    \* break, or no card is left
Skip(word, n)       == Row(word, <<>>, "skip", n)      \* `a` stays, n cards are passed over
Fail(word)          == Row(word, <<>>, "fail", 0)      \* an index of a nil value

\* A fault: after a single card an equal one is taken for its successor.
GapRows_adjacent == {
    Stop(<<U, Z>>,                    <<"ge2">>),
    Go(<<U, E \cup N>>,               <<"lian3">>, 3),
    Go(<<U, Y>>,                      <<"ge2">>, 2),
    Go(<<F \cup O>>,                  <<"single">>, 1) }

\* check_qidui
PairRows == {
    Stop(<<E, Z>>,       <<"jiang">>),
    Stop(<<E, E, Z>>,    <<>>),
    Go(<<E, E, E>>,      <<"jiang", "jiang">>, 4),
    Go(<<E, E, X>>,      <<"jiang", "single">>, 3),
    Go(<<E, X>>,         <<"jiang">>, 2),
    Go(<<X>>,            <<"single">>, 1) }

\* check_sichuan, four equal cards
FourRows == {
    Stop(<<E,E,E, Z>>,                <<"jiang">>),
    Stop(<<E,E,E, N, Z>>,             <<"tong3", "lian2">>),
    Stop(<<E,E,E, N, E, Z>>,          <<"jiang", "jiang", "jiang">>),
    Stop(<<E,E,E, N, E, N, Z>>,       <<"jiang", "jiang", "jiang", "single">>),
    Go(<<E,E,E, N, E, N, E>>,         <<"lian3", "lian3", "jiang">>, 8),
    Go(<<E,E,E, N, E, N, X>>,         <<"jiang", "jiang", "jiang", "single">>, 7),
    Stop(<<E,E,E, N, E, E \cup G>>,   <<>>),
    Go(<<E,E,E, N, E, O>>,            <<"jiang", "jiang", "jiang">>, 6),
    Go(<<E,E,E, N, N>>,               <<"tong3", "lian3">>, 6),
    Go(<<E,E,E, N, Y>>,               <<"tong3", "lian2">>, 5),
    Go(<<E,E,E, Y>>,                  <<"jiang", "jiang">>, 4) }

\* three equal cards
ThreeRows == {
    Stop(<<E,E, Z>>,                  <<"tong3">>),
    Stop(<<E,E, N, Z>>,               <<"jiang", "lian2">>),
    Go(<<E,E, N, E>>,                 <<"tong3">>, 3),
    Stop(<<E,E, N, N, Z>>,            <<"lian3", "jiang">>),
    Go(<<E,E, N, N, N>>,              <<"tong3", "lian3">>, 6),
    Go(<<E,E, N, N, E \cup Y>>,       <<"jiang", "lian3">>, 5),
    Go(<<E,E, N, Y>>,                 <<"jiang", "jiang">>, 4),
    Go(<<E,E, Y>>,                    <<"tong3">>, 3) }

\* two equal cards; the sixth row needs `idx < len`, where `idx <= len` is
\* meant: with one card more it is read, and with none the loop fails
TwoRows == {
    Stop(<<E, Z>>,                    <<"jiang">>),
    Stop(<<E, N, Z>>,                 <<"jiang", "single">>),
    Stop(<<E, N, E, Z>>,              <<"jiang", "jiang">>),
    Stop(<<E, N, E,E, Z>>,            <<"jiang", "tong3">>),
    Stop(<<E, N, E,E,E, Z>>,          <<"jiang", "jiang", "jiang">>),
    Stop(<<E, N, E,E,E, N, C, C>>,    <<"jiang", "jiang", "jiang", "single">>),
    Go(<<E, N, E,E,E, N, E, Z>>,      <<"jiang", "lian3", "lian3">>, 8),
    Go(<<E, N, E,E,E, N, X, Z>>,      <<"jiang", "jiang", "jiang", "single">>, 7),
    Fail(<<E, N, E,E,E, N, Z>>),
    Go(<<E, N, E,E,E, Y>>,            <<"jiang", "jiang", "jiang">>, 6),
    Go(<<E, N, E,E, X>>,              <<"jiang", "tong3">>, 5),
    Stop(<<E, N, E, N, Z>>,           <<"lian3", "lian2">>),
    Go(<<E, N, E, N, E>>,             <<"lian3", "lian3">>, 6),
    Go(<<E, N, E, N, X>>,             <<"lian3", "lian2">>, 5),
    Go(<<E, N, E, Y>>,                <<"jiang", "jiang">>, 4) }

TwoRunRows == {
    Stop(<<E, N, N, Z>>,              <<"jiang", "lian2">>),
    Go(<<E, N, N, N>>,                <<"jiang", "lian3">>, 5),
    Stop(<<E, N, N, E \cup Y>>,       <<>>),
    Go(<<E, N, Y>>,                   <<"jiang">>, 2),
    Go(<<E, Y>>,                      <<"jiang">>, 2) }

\* a card and the next number twice or more; after a pair and another suit the
\* innermost condition has no else: `a` stays and three cards are lost
NextTwiceRows == {
    Stop(<<N, Z>>,                    <<"lian2">>),
    Stop(<<N, E, Z \cup G>>,          <<>>),
    Skip(<<N, E, O>>, 3),
    Stop(<<N, E, E, Z \cup Y>>,       <<>>),
    Go(<<N, E, E, N>>,                <<"lian3", "jiang">>, 5),
    Stop(<<N, E, E, E, Z \cup E \cup Y>>, <<>>),
    Go(<<N, E, E, E, N>>,             <<"tong3", "lian3">>, 6),
    Stop(<<N, E, N, Z \cup X>>,       <<>>),
    Stop(<<N, E, N, E, Z \cup E \cup Y>>, <<>>),
    Go(<<N, E, N, E, N>>,             <<"lian3", "lian3">>, 6) }

\* a card, the next number once
NextOnceRows == {
    Stop(<<N, N, Z>>,                 <<"lian3">>),
    Stop(<<N, N, E, Z>>,              <<"lian2", "jiang">>),
    Stop(<<N, N, E, E, Z>>,           <<"lian3", "jiang">>),
    Go(<<N, N, E, E, E>>,             <<"lian3", "tong3">>, 6),
    Go(<<N, N, E, E, X>>,             <<"lian3", "jiang">>, 5),
    Go(<<N, N, E, X>>,                <<"lian3">>, 3),
    Go(<<N, N, X>>,                   <<"lian3">>, 3),
    Go(<<N, Y>>,                      <<"lian2">>, 2) }

\* a gap of one, whose branches for an equal and for a next card are empty;
\* and a card alone
GapRows == {
    Stop(<<U, Z>>,                    <<"ge2">>),
    Skip(<<U, E \cup N>>, 2),
    Go(<<U, Y>>,                      <<"ge2">>, 2),
    Go(<<F \cup O>>,                  <<"single">>, 1) }

SichuanRows == UNION { FourRows, ThreeRows, TwoRows, TwoRunRows,
                       NextTwiceRows, NextOnceRows, GapRows }

-----------------------------------------------------------------------------
None == [g \in Groups |-> 0]

Count(t, groups) == [g \in Groups |-> t[g] + Cardinality({i \in DOMAIN groups : groups[i] = g})]

CardsOf(t) == 2 * t.jiang + 3 * t.tong3 + 3 * t.lian3 + t.single + 2 * t.lian2 + 2 * t.ge2

Init == /\ hand = <<>> /\ rest = <<>> /\ a = NoCard
        /\ reading = "not" /\ tally = None /\ code = "none"

Start(which) == /\ reading' = which
                /\ a' = Head(hand)
                /\ rest' = Tail(hand)
                /\ tally' = None
                /\ UNCHANGED hand

\* The card that is dealt is one of the copies that are not in the hand.
Take(card) ==
    /\ reading = "not"
    /\ \E n \in Sizes : n > Len(hand)
    /\ Cardinality({i \in DOMAIN hand : hand[i] = card}) < Copies
    /\ hand' = Insert(hand, card)
    /\ a' = NoCard /\ rest' = <<>> /\ tally' = None /\ code' = "none"
    /\ UNCHANGED reading

\* check_sichuan_hu and check_sichuan_jiao begin with check_qidui
Check == /\ reading = "not"
         /\ Len(hand) \in Sizes
         /\ Start("qidui")
         /\ code' = "none"

\* One turn of the loop `while idx <= len`.
Turn ==
    /\ reading # "not" /\ rest # <<>>
    /\ \E row \in (IF reading = "qidui" THEN PairRows ELSE SichuanRows) :
          /\ Matches(row.word, <<a>> \o rest)
          /\ tally' = Count(tally, row.groups)
          /\ CASE row.then = "go" /\ row.n <= Len(rest) ->
                    /\ a' = rest[row.n]
                    /\ rest' = SubSeq(rest, row.n + 1, Len(rest))
               [] row.then = "skip" ->
                    /\ rest' = SubSeq(rest, row.n + 1, Len(rest))
                    /\ UNCHANGED a
               [] OTHER -> rest' = <<>> /\ UNCHANGED a
          /\ IF row.then = "fail" THEN reading' = "not" /\ code' = "error"
                                  ELSE UNCHANGED <<reading, code>>
    /\ UNCHANGED hand

\* check_qidui_hu
PairsRead ==
    /\ reading = "qidui" /\ rest = <<>>
    /\ IF tally.jiang = 7
       THEN reading' = "not" /\ code' = "qidui" /\ UNCHANGED <<hand, a, rest, tally>>
       ELSE Start("sichuan") /\ UNCHANGED code

\* The tests of check_sichuan_hu on what was counted.
Hu(t, len) ==
    IF 2 * t.jiang + 3 * t.tong3 + 3 * t.lian3 # len \/ t.jiang # 1 THEN "no"
    ELSE IF len = 2 THEN "jingoudiao"
    ELSE IF 3 * t.tong3 + 2 = len THEN "duidui" ELSE "pinghu"

HuRead ==
    /\ reading = "sichuan" /\ rest = <<>> /\ Len(hand) % 3 = 2
    /\ reading' = "not"
    /\ code' = Hu(tally, Len(hand))
    /\ UNCHANGED <<hand, a, rest, tally>>

\* The assertion of check_sichuan_jiao, and its tests; the hand is one card
\* short.
Jiao(t, len) ==
    IF CardsOf(t) # len THEN "error"
    ELSE IF \/ len = 1 /\ t.single = 1
            \/ len > 1 /\ t.jiang = 2 /\ 3 * t.tong3 + 4 = len
            \/ len = 4 /\ \/ t.jiang = 1 /\ t.lian2 = 1
                          \/ t.single = 1 /\ (t.lian3 = 1 \/ t.ge2 = 1)
            \/ len > 4 /\ \/ t.single = 1 /\ t.jiang = 0 /\ t.lian2 = 0
                          \/ t.single = 0 /\ t.jiang = 1 /\ (t.lian2 = 1 \/ t.ge2 = 1)
    THEN "jiao" ELSE "no"

JiaoRead ==
    /\ reading = "sichuan" /\ rest = <<>> /\ Len(hand) % 3 = 1
    /\ reading' = "not"
    /\ code' = Jiao(tally, Len(hand))
    /\ UNCHANGED <<hand, a, rest, tally>>

\* A tile taken later joins a hand whose check has returned.
Next == \/ \E card \in Cards : Take(card)
        \/ Check \/ Turn \/ PairsRead \/ HuRead \/ JiaoRead

Spec == Init /\ [][Next]_vars
-----------------------------------------------------------------------------
(* What a complete hand is, by the rules of the game.                      *)

Bag(h) == [c \in {h[i] : i \in DOMAIN h} |-> Cardinality({i \in DOMAIN h : h[i] = c})]

Triplets == {c :> 3 : c \in Cards}
Runs == {(c :> 1) (+) (<<c[1], c[2] + 1>> :> 1) (+) (<<c[1], c[2] + 2>> :> 1) : c \in Cards}

\* b is made of groups: they can be taken out of it one after the other.
Grouped(b, groups) ==
    LET left[n \in Nat] ==      \* what may be left when n are taken out
            IF n = 0 THEN {b}
            ELSE UNION {{x (-) g : g \in {f \in groups : f \sqsubseteq x}} : x \in left[n - 1]}
    IN  EmptyBag \in left[BagCardinality(b) \div 3]

PairAnd(h, groups) == \E c \in Cards : /\ (c :> 2) \sqsubseteq Bag(h)
                                       /\ Grouped(Bag(h) (-) (c :> 2), groups)

Complete(h)    == PairAnd(h, Triplets \cup Runs)
AllTriplets(h) == PairAnd(h, Triplets)
SevenPairs(h)  == /\ Len(h) = 14
                  /\ \A c \in DOMAIN Bag(h) : Bag(h)[c] % 2 = 0

-----------------------------------------------------------------------------
TypeOK ==
    /\ hand \in Seq(Cards) /\ rest \in Seq(Cards)
    /\ \A i \in 2..Len(hand) : ~More(hand[i - 1], hand[i])
    /\ reading \in {"not", "qidui", "sichuan"}
    /\ a \in Cards \cup {NoCard}
    /\ tally \in [Groups -> Nat]
    /\ code \in {"none", "no", "jingoudiao", "duidui", "pinghu", "qidui", "jiao", "error"}

\* However the loop moves over the hand, no card is counted in two groups, and
\* none that it has still to read is counted already.
NoCardTwice == reading # "not" /\ rest # <<>> =>
                  CardsOf(tally) + Len(rest) + 1 <= Len(hand)

\* A hand that check_sichuan_hu calls complete is a pair and triplets or runs,
\* or seven pairs; one it calls duidui needs no run.  (It gives up on some
\* complete hands: the loop never goes back to read a card another way.)
NeverTooMuch ==
    /\ code \in {"jingoudiao", "pinghu"} => Complete(hand)
    /\ code = "duidui" => AllTriplets(hand)

\* Seven pairs are found whatever the fours among them, and nothing else is
\* taken for them.
PairsExact == reading = "not" /\ code # "none" => (code = "qidui" <=> SevenPairs(hand))

\* No complete hand of up to five cards is missed: the reading needs no second
\* look before a hand has two groups beside its pair.
SmallHandsFound == code = "no" /\ Len(hand) \in {2, 5} => ~Complete(hand)
=============================================================================
