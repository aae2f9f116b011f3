---------------------------- MODULE PboTreeProofs ----------------------------
(***************************************************************************)
(* The order of siblings: what AbstractNode's binary search, and the items *)
(* that follow the indexes in its signals, rest on; proved for every tree, *)
(* whatever its size and its titles.  Then what every sequence of loads,   *)
(* insertions, removals and renames leaves behind: the subtrees that are   *)
(* removed, the loops over segments, descriptors and selected nodes, and   *)
(* the specification.                                                      *)
(***************************************************************************)
EXTENDS PboTree, SequenceTheorems, FiniteSetTheorems, WellFoundedInduction, TLAPS

(***************************************************************************)
(* Sequences and numbers.                                                  *)
(***************************************************************************)

\* QList::insert
LEMMA InsertAtProperties ==
  ASSUME NEW S, NEW s \in Seq(S), NEW i \in 1 .. Len(s) + 1, NEW e \in S
  PROVE  /\ InsertAt(s, i, e) \in Seq(S)
         /\ Len(InsertAt(s, i, e)) = Len(s) + 1
         /\ \A j \in 1 .. Len(s) + 1:
              InsertAt(s, i, e)[j] = IF j < i THEN s[j]
                                     ELSE IF j = i THEN e ELSE s[j - 1]
<1>. DEFINE a == SubSeq(s, 1, i - 1)
            b == SubSeq(s, i, Len(s))
<1>0. Len(s) \in Nat /\ i \in Nat
  BY LenProperties
<1>1. /\ a \in Seq(S)
      /\ Len(a) = i - 1
      /\ \A j \in 1 .. i - 1: a[j] = s[j]
  BY <1>0, SubSeqProperties, ElementOfSeq
<1>2. /\ b \in Seq(S)
      /\ Len(b) = Len(s) - i + 1
      /\ \A j \in 1 .. Len(s) - i + 1: b[j] = s[i + j - 1]
  BY <1>0, SubSeqProperties, ElementOfSeq
<1>3. <<e>> \in Seq(S) /\ Len(<<e>>) = 1 /\ <<e>>[1] = e
  OBVIOUS
<1>. HIDE DEF a, b
<1>4. /\ a \o <<e>> \in Seq(S)
      /\ Len(a \o <<e>>) = i
      /\ \A j \in 1 .. i: (a \o <<e>>)[j] = IF j < i THEN s[j] ELSE e
  BY <1>0, <1>1, <1>3, ConcatProperties
<1>5. /\ (a \o <<e>>) \o b \in Seq(S)
      /\ Len((a \o <<e>>) \o b) = Len(s) + 1
      /\ \A j \in 1 .. Len(s) + 1:
           ((a \o <<e>>) \o b)[j] = IF j <= i THEN (a \o <<e>>)[j] ELSE b[j - i]
  BY <1>0, <1>2, <1>4, ConcatProperties
<1>6. ASSUME NEW j \in 1 .. Len(s) + 1
      PROVE  ((a \o <<e>>) \o b)[j] = IF j < i THEN s[j]
                                      ELSE IF j = i THEN e ELSE s[j - 1]
  <2>. DEFINE Goal == ((a \o <<e>>) \o b)[j] = IF j < i THEN s[j]
                                            ELSE IF j = i THEN e ELSE s[j - 1]
  <2>0. j \in Nat
    BY <1>0
  <2>1. ASSUME j <= i
        PROVE  Goal
    BY <1>0, <1>4, <1>5, <2>1
  <2>2. ASSUME j > i
        PROVE  Goal
    <3>1. j - i \in 1 .. Len(s) - i + 1 /\ i + (j - i) - 1 = j - 1
      BY <1>0, <2>2
    <3>. QED
      BY <1>0, <1>2, <1>5, <2>2, <3>1
  <2>. HIDE DEF Goal
  <2>3. Goal
    BY <1>0, <2>0, <2>1, <2>2
  <2>. QED
    BY <2>3 DEF Goal
<1>7. InsertAt(s, i, e) = (a \o <<e>>) \o b
  BY DEF InsertAt, a, b
<1>. QED
  BY <1>5, <1>6, <1>7

\* QList::removeAt
LEMMA RemoveAtProperties ==
  ASSUME NEW S, NEW s \in Seq(S), NEW i \in 1 .. Len(s)
  PROVE  /\ RemoveAt(s, i) \in Seq(S)
         /\ Len(RemoveAt(s, i)) = Len(s) - 1
         /\ \A j \in 1 .. Len(s) - 1:
              RemoveAt(s, i)[j] = IF j < i THEN s[j] ELSE s[j + 1]
<1>. DEFINE a == SubSeq(s, 1, i - 1)
            b == SubSeq(s, i + 1, Len(s))
<1>0. Len(s) \in Nat /\ i \in Nat
  BY LenProperties
<1>1. /\ a \in Seq(S)
      /\ Len(a) = i - 1
      /\ \A j \in 1 .. i - 1: a[j] = s[j]
  BY <1>0, SubSeqProperties, ElementOfSeq
<1>2. /\ b \in Seq(S)
      /\ Len(b) = Len(s) - i
      /\ \A j \in 1 .. Len(s) - i: b[j] = s[i + 1 + j - 1]
  BY <1>0, SubSeqProperties, ElementOfSeq
<1>. HIDE DEF a, b
<1>3. /\ a \o b \in Seq(S)
      /\ Len(a \o b) = Len(s) - 1
      /\ \A j \in 1 .. Len(s) - 1:
           (a \o b)[j] = IF j <= i - 1 THEN a[j] ELSE b[j - (i - 1)]
  <2>1. Len(a) + Len(b) = Len(s) - 1
    BY <1>0, <1>1, <1>2
  <2>2. /\ a \o b \in Seq(S)
        /\ Len(a \o b) = Len(a) + Len(b)
        /\ \A j \in 1 .. Len(a) + Len(b):
             (a \o b)[j] = IF j <= Len(a) THEN a[j] ELSE b[j - Len(a)]
    BY <1>1, <1>2, ConcatProperties
  <2>. QED
    BY <1>0, <1>1, <2>1, <2>2
<1>4. ASSUME NEW j \in 1 .. Len(s) - 1
      PROVE  (a \o b)[j] = IF j < i THEN s[j] ELSE s[j + 1]
  <2>. DEFINE Goal == (a \o b)[j] = IF j < i THEN s[j] ELSE s[j + 1]
  <2>0. j \in Nat
    BY <1>0
  <2>1. ASSUME j < i
        PROVE  Goal
    BY <1>0, <1>1, <1>3, <2>1
  <2>2. ASSUME j >= i
        PROVE  Goal
    <3>1. j - (i - 1) \in 1 .. Len(s) - i /\ i + 1 + (j - (i - 1)) - 1 = j + 1
      BY <1>0, <2>2
    <3>. QED
      BY <1>0, <1>2, <1>3, <2>2, <3>1
  <2>. HIDE DEF Goal
  <2>3. Goal
    BY <1>0, <2>0, <2>1, <2>2
  <2>. QED
    BY <2>3 DEF Goal
<1>5. RemoveAt(s, i) = a \o b
  BY DEF RemoveAt, a, b
<1>. QED
  BY <1>3, <1>4, <1>5

\* Of some numbers one is the least.
LEMMA LeastNumber ==
  ASSUME NEW S, S \subseteq Nat, S # {}
  PROVE  \E x \in S: \A y \in S: x <= y
<1>1. \E x \in S: \A y \in S: ~(<<y, x>> \in OpToRel(<, Nat))
  BY NatLessThanWellFounded, WFMin
<1>2. PICK x \in S: \A y \in S: ~(<<y, x>> \in OpToRel(<, Nat))
  BY <1>1
<1>3. ASSUME NEW y \in S
      PROVE  x <= y
  <2>1. x \in Nat /\ y \in Nat
    OBVIOUS
  <2>2. ~(y < x)
    <3>. SUFFICES ASSUME y < x
                  PROVE  FALSE
      OBVIOUS
    <3>1. <<y, x>> \in Nat \X Nat
      BY <2>1
    <3>2. <<y, x>> \in OpToRel(<, Nat)
      BY <3>1, Zenon DEF OpToRel
    <3>. QED
      BY <1>2, <3>2
  <2>. QED
    BY <2>1, <2>2
<1>. QED
  BY <1>3

(***************************************************************************)
(* The order of siblings.                                                  *)
(***************************************************************************)

AnyTitle == [lower: Nat, name: Nat, copy: Nat]

Sibling(node) == node.type \in {"Folder", "File"} /\ node.title \in AnyTitle

\* Nobody comes before himself.
LEMMA LessIsIrreflexive ==
  ASSUME NEW a, Sibling(a)
  PROVE  ~Less(a, a)
<1>1. a.title.lower \in Nat /\ a.title.name \in Nat /\ a.title.copy \in Nat
  BY DEF Sibling, AnyTitle
<1>. QED
  BY <1>1 DEF Less, TitleLess

\* The order of titles is transitive.
LEMMA TitleLessIsTransitive ==
  ASSUME NEW a \in AnyTitle, NEW b \in AnyTitle, NEW c \in AnyTitle,
         TitleLess(a, b), TitleLess(b, c)
  PROVE  TitleLess(a, c)
BY DEF AnyTitle, TitleLess

\* The order of siblings is transitive.
LEMMA LessIsTransitive ==
  ASSUME NEW a, NEW b, NEW c, Sibling(a), Sibling(b), Sibling(c),
         Less(a, b), Less(b, c)
  PROVE  Less(a, c)
<1>1. CASE a.type = b.type /\ b.type = c.type
  BY <1>1, TitleLessIsTransitive DEF Sibling, Less
<1>2. CASE a.type # b.type
  BY <1>2 DEF Sibling, Less
<1>3. CASE b.type # c.type
  BY <1>3 DEF Sibling, Less
<1>. QED
  BY <1>1, <1>2, <1>3

\* Of two siblings with different titles one comes first.
LEMMA LessIsTotal ==
  ASSUME NEW a, NEW b, Sibling(a), Sibling(b), a.title # b.title
  PROVE  Less(a, b) \/ Less(b, a)
<1>1. \/ a.title.lower # b.title.lower
      \/ a.title.name # b.title.name
      \/ a.title.copy # b.title.copy
  BY DEF Sibling, AnyTitle
<1>2. /\ a.title.lower \in Nat /\ a.title.name \in Nat /\ a.title.copy \in Nat
      /\ b.title.lower \in Nat /\ b.title.name \in Nat /\ b.title.copy \in Nat
  BY DEF Sibling, AnyTitle
<1>3. TitleLess(a.title, b.title) \/ TitleLess(b.title, a.title)
  BY <1>1, <1>2 DEF TitleLess
<1>. QED
  BY <1>3 DEF Sibling, Less

\* Every one of the list comes before all that are behind it.
InOrder(nodes, list) ==
  \A i, j \in 1 .. Len(list): i < j => Less(nodes[list[i]], nodes[list[j]])

AreSiblings(nodes, S) == \A m \in S: Sibling(nodes[m])

\* A list is in order if its neighbours are.
LEMMA NeighboursInOrder ==
  ASSUME NEW nodes, NEW S, AreSiblings(nodes, S), NEW list \in Seq(S),
         \A i \in 1 .. Len(list) - 1: Less(nodes[list[i]], nodes[list[i + 1]])
  PROVE  InOrder(nodes, list)
<1>0. Len(list) \in Nat /\ \A i \in 1 .. Len(list): Sibling(nodes[list[i]])
  BY LenProperties, ElementOfSeq DEF AreSiblings
<1>. SUFFICES ASSUME NEW i \in 1 .. Len(list)
              PROVE  \A j \in 1 .. Len(list):
                       i < j => Less(nodes[list[i]], nodes[list[j]])
  BY DEF InOrder
<1>. DEFINE Wrong == {j \in 1 .. Len(list):
                        i < j /\ ~Less(nodes[list[i]], nodes[list[j]])}
<1>1. ASSUME Wrong # {}
      PROVE  FALSE
  <2>1. Wrong \subseteq Nat
    BY <1>0
  <2>2. PICK j \in Wrong: \A k \in Wrong: j <= k
    BY <1>1, <2>1, LeastNumber
  <2>3. /\ j \in 1 .. Len(list) /\ i \in 1 .. Len(list) /\ i < j
        /\ ~Less(nodes[list[i]], nodes[list[j]])
    BY <2>2
  <2>4. /\ j - 1 \in 1 .. Len(list) - 1 /\ j - 1 + 1 = j
        /\ j - 1 \in 1 .. Len(list) /\ i <= j - 1
    BY <1>0, <2>3
  <2>5. Less(nodes[list[j - 1]], nodes[list[j]])
    BY <2>4
  <2>6. i # j - 1
    BY <2>3, <2>5
  <2>7. j - 1 \notin Wrong
    <3>1. ~(j <= j - 1)
      BY <2>3, <1>0
    <3>. HIDE DEF Wrong
    <3>. QED
      BY <2>2, <3>1
  <2>8. Less(nodes[list[i]], nodes[list[j - 1]])
    <3>1. i < j - 1
      BY <1>0, <2>3, <2>4, <2>6
    <3>. QED
      BY <2>4, <2>7, <3>1
  <2>. QED
    BY <1>0, <2>3, <2>4, <2>5, <2>8, LessIsTransitive
<1>. QED
  BY <1>1

\* std::lower_bound splits a list that is in order.
LEMMA IndexSplits ==
  ASSUME NEW nodes, NEW S, AreSiblings(nodes, S), NEW list \in Seq(S),
         InOrder(nodes, list), NEW n, Sibling(nodes[n])
  PROVE  /\ IndexFor(nodes, list, n) \in 1 .. Len(list) + 1
         /\ \A i \in 1 .. Len(list):
              Less(nodes[list[i]], nodes[n]) <=> i < IndexFor(nodes, list, n)
<1>0. Len(list) \in Nat /\ \A i \in 1 .. Len(list): Sibling(nodes[list[i]])
  BY LenProperties, ElementOfSeq DEF AreSiblings
<1>. DEFINE Before == {i \in 1 .. Len(list): Less(nodes[list[i]], nodes[n])}
            Rest == {i \in 1 .. Len(list): ~Less(nodes[list[i]], nodes[n])}
<1>1. \E m \in 0 .. Len(list): Before = 1 .. m
  <2>1. CASE Rest = {}
    <3>1. Before = 1 .. Len(list)
      BY <2>1
    <3>. QED
      BY <1>0, <3>1
  <2>2. CASE Rest # {}
    <3>1. Rest \subseteq Nat
      BY <1>0
    <3>2. PICK k \in Rest: \A j \in Rest: k <= j
      BY <2>2, <3>1, LeastNumber
    <3>3. k \in 1 .. Len(list) /\ ~Less(nodes[list[k]], nodes[n])
      BY <3>2
    <3>4. ASSUME NEW i \in 1 .. Len(list)
          PROVE  i \in Before <=> i <= k - 1
      <4>1. i \in Nat /\ k \in Nat
        BY <1>0, <3>3
      <4>2. ASSUME i < k
            PROVE  i \in Before
        <5>1. i \notin Rest
          BY <3>2, <4>1, <4>2
        <5>. QED
          BY <5>1
      <4>3. ASSUME i >= k
            PROVE  i \notin Before
        <5>1. CASE i = k
          BY <3>3, <5>1
        <5>2. CASE i # k
          <6>1. Less(nodes[list[k]], nodes[list[i]])
            BY <3>3, <4>1, <4>3, <5>2 DEF InOrder
          <6>. QED
            BY <1>0, <3>3, <6>1, LessIsTransitive
        <5>. QED
          BY <5>1, <5>2
      <4>. HIDE DEF Before
      <4>. QED
        BY <4>1, <4>2, <4>3
    <3>5. k - 1 \in 0 .. Len(list) /\ k \in Nat
      BY <1>0, <3>3
    <3>6. Before \subseteq 1 .. Len(list)
      OBVIOUS
    <3>. HIDE DEF Before
    <3>7. Before = 1 .. k - 1
      <4>1. ASSUME NEW i \in Before
            PROVE  i \in 1 .. k - 1
        <5>1. i \in 1 .. Len(list)
          BY <3>6
        <5>. QED
          BY <1>0, <3>4, <3>5, <5>1
      <4>2. ASSUME NEW i \in 1 .. k - 1
            PROVE  i \in Before
        <5>1. i \in 1 .. Len(list) /\ i <= k - 1
          BY <1>0, <3>5
        <5>. QED
          BY <3>4, <5>1
      <4>. QED
        BY <4>1, <4>2
    <3>. QED
      BY <3>5, <3>7
  <2>. QED
    BY <2>1, <2>2
<1>2. PICK m \in 0 .. Len(list): Before = 1 .. m
  BY <1>1
<1>3. Cardinality(Before) = m
  <2>1. m \in Nat /\ 1 \in Int /\ m \in Int
    BY <1>0, <1>2
  <2>2. Cardinality(1 .. m) = IF 1 > m THEN 0 ELSE m - 1 + 1
    BY <2>1, FS_Interval
  <2>. HIDE DEF Before
  <2>3. Cardinality(Before) = IF 1 > m THEN 0 ELSE m - 1 + 1
    BY <1>2, <2>2
  <2>. QED
    BY <2>1, <2>3
<1>4. IndexFor(nodes, list, n) = 1 + m
  BY <1>3 DEF IndexFor
<1>5. ASSUME NEW i \in 1 .. Len(list)
      PROVE  Less(nodes[list[i]], nodes[n]) <=> i < 1 + m
  <2>1. i \in Before <=> i \in 1 .. m
    BY <1>2
  <2>. QED
    BY <1>0, <2>1
<1>. QED
  BY <1>0, <1>4, <1>5

\* std::lower_bound finds what is in the list.
LEMMA IndexOfMember ==
  ASSUME NEW nodes, NEW S, AreSiblings(nodes, S), NEW list \in Seq(S),
         InOrder(nodes, list), NEW k \in 1 .. Len(list)
  PROVE  IndexFor(nodes, list, list[k]) = k
<1>. DEFINE f == IndexFor(nodes, list, list[k])
<1>0. Len(list) \in Nat /\ Sibling(nodes[list[k]])
  BY LenProperties, ElementOfSeq DEF AreSiblings
<1>1. /\ f \in 1 .. Len(list) + 1
      /\ \A i \in 1 .. Len(list): Less(nodes[list[i]], nodes[list[k]]) <=> i < f
  BY <1>0, IndexSplits
<1>. HIDE DEF f
<1>2. ~(k < f)
  BY <1>0, <1>1, LessIsIrreflexive
<1>3. ~(f < k)
  <2>. SUFFICES ASSUME f < k
                PROVE  FALSE
    OBVIOUS
  <2>1. f \in 1 .. Len(list)
    BY <1>0, <1>1
  <2>2. Less(nodes[list[f]], nodes[list[k]])
    BY <2>1 DEF InOrder
  <2>3. f < f
    BY <1>1, <2>1, <2>2
  <2>. QED
    BY <2>1, <2>3, <1>0
<1>4. f = k
  BY <1>0, <1>1, <1>2, <1>3
<1>. QED
  BY <1>4 DEF f

\* addChild keeps the list in order, and the index in its signal is where the
\* new child is.
LEMMA InsertedInOrder ==
  ASSUME NEW nodes, NEW S, AreSiblings(nodes, S), NEW list \in Seq(S),
         InOrder(nodes, list), NEW n \in S,
         \A m \in ToSet(list): nodes[m].title # nodes[n].title,
         NEW new, new = InsertAt(list, IndexFor(nodes, list, n), n)
  PROVE  /\ IndexFor(nodes, list, n) \in 1 .. Len(list) + 1
         /\ new \in Seq(S)
         /\ InOrder(nodes, new)
         /\ ToSet(new) = ToSet(list) \union {n}
         /\ IndexFor(nodes, new, n) = IndexFor(nodes, list, n)
<1>0. Len(list) \in Nat /\ Sibling(nodes[n])
        /\ DOMAIN list = 1 .. Len(list)
        /\ \A i \in 1 .. Len(list): Sibling(nodes[list[i]])
  BY LenProperties, ElementOfSeq DEF AreSiblings
<1>1. PICK k \in 1 .. Len(list) + 1:
        /\ k = IndexFor(nodes, list, n)
        /\ \A i \in 1 .. Len(list): Less(nodes[list[i]], nodes[n]) <=> i < k
  BY <1>0, IndexSplits
<1>2. /\ new \in Seq(S)
      /\ Len(new) = Len(list) + 1
      /\ \A j \in 1 .. Len(list) + 1:
           new[j] = IF j < k THEN list[j] ELSE IF j = k THEN n ELSE list[j - 1]
  BY <1>1, InsertAtProperties
<1>3. \A i \in 1 .. Len(list): i >= k => Less(nodes[n], nodes[list[i]])
  <2>. SUFFICES ASSUME NEW i \in 1 .. Len(list), i >= k
                PROVE  Less(nodes[n], nodes[list[i]])
    OBVIOUS
  <2>1. nodes[list[i]].title # nodes[n].title
    BY <1>0 DEF ToSet
  <2>2. ~Less(nodes[list[i]], nodes[n])
    BY <1>0, <1>1
  <2>. QED
    BY <1>0, <2>1, <2>2, LessIsTotal
<1>4. InOrder(nodes, new)
  <2>. SUFFICES ASSUME NEW i \in 1 .. Len(list) + 1, NEW j \in 1 .. Len(list) + 1,
                       i < j
                PROVE  Less(nodes[new[i]], nodes[new[j]])
    BY <1>2 DEF InOrder
  <2>0. i \in Nat /\ j \in Nat /\ k \in Nat
    BY <1>0, <1>1
  <2>1. CASE j < k
    <3>1. i \in 1 .. Len(list) /\ j \in 1 .. Len(list) /\ i < k
      BY <1>0, <1>1, <2>0, <2>1
    <3>. QED
      BY <1>2, <2>1, <3>1 DEF InOrder
  <2>2. CASE j = k
    <3>1. i \in 1 .. Len(list) /\ i < k
      BY <1>0, <1>1, <2>0, <2>2
    <3>. QED
      BY <1>1, <1>2, <2>2, <3>1
  <2>3. CASE j > k /\ i = k
    <3>1. j - 1 \in 1 .. Len(list) /\ j - 1 >= k
      BY <1>0, <1>1, <2>0, <2>3
    <3>2. new[i] = n /\ new[j] = list[j - 1]
      BY <1>2, <2>0, <2>3
    <3>. QED
      BY <1>3, <3>1, <3>2
  <2>4. CASE j > k /\ i < k
    <3>1. j - 1 \in 1 .. Len(list) /\ i \in 1 .. Len(list) /\ i < j - 1
      BY <1>0, <1>1, <2>0, <2>4
    <3>2. new[i] = list[i] /\ new[j] = list[j - 1]
      BY <1>2, <2>0, <2>4
    <3>. QED
      BY <3>1, <3>2 DEF InOrder
  <2>5. CASE j > k /\ i > k
    <3>1. j - 1 \in 1 .. Len(list) /\ i - 1 \in 1 .. Len(list) /\ i - 1 < j - 1
      BY <1>0, <1>1, <2>0, <2>5
    <3>2. new[i] = list[i - 1] /\ new[j] = list[j - 1]
      BY <1>2, <2>0, <2>5
    <3>. QED
      BY <3>1, <3>2 DEF InOrder
  <2>. QED
    BY <2>0, <2>1, <2>2, <2>3, <2>4, <2>5
<1>5. ToSet(new) = ToSet(list) \union {n}
  <2>0. DOMAIN new = 1 .. Len(list) + 1
    BY <1>2, LenProperties
  <2>1. ASSUME NEW x \in ToSet(new)
        PROVE  x \in ToSet(list) \union {n}
    <3>1. PICK j \in 1 .. Len(list) + 1: x = new[j]
      BY <2>0 DEF ToSet
    <3>2. j < k => j \in 1 .. Len(list)
      BY <1>0, <1>1
    <3>3. j > k => j - 1 \in 1 .. Len(list)
      BY <1>0, <1>1
    <3>4. j \in Nat /\ k \in Nat
      BY <1>0, <1>1
    <3>5. x = n \/ \E i \in 1 .. Len(list): x = list[i]
      BY <1>2, <3>1, <3>2, <3>3, <3>4
    <3>. QED
      BY <1>0, <3>5 DEF ToSet
  <2>2. n \in ToSet(new)
    <3>1. k \in 1 .. Len(list) + 1 /\ new[k] = n
      BY <1>0, <1>1, <1>2
    <3>. QED
      BY <2>0, <3>1 DEF ToSet
  <2>3. ASSUME NEW x \in ToSet(list)
        PROVE  x \in ToSet(new)
    <3>1. PICK i \in 1 .. Len(list): x = list[i]
      BY <1>0 DEF ToSet
    <3>2. CASE i < k
      <4>1. i \in 1 .. Len(list) + 1 /\ new[i] = list[i]
        BY <1>0, <1>2, <3>2
      <4>. QED
        BY <2>0, <3>1, <4>1 DEF ToSet
    <3>3. CASE i >= k
      <4>1. i + 1 \in 1 .. Len(list) + 1 /\ i + 1 > k /\ i + 1 - 1 = i
        BY <1>0, <1>1, <3>3
      <4>2. new[i + 1] = list[i]
        BY <1>0, <1>1, <1>2, <4>1
      <4>. QED
        BY <2>0, <3>1, <4>1, <4>2 DEF ToSet
    <3>. QED
      BY <1>0, <1>1, <3>2, <3>3
  <2>. QED
    BY <2>1, <2>2, <2>3
<1>6. IndexFor(nodes, new, n) = k
  <2>1. k \in 1 .. Len(new) /\ new[k] = n
    BY <1>0, <1>1, <1>2
  <2>. QED
    BY <1>2, <1>4, <2>1, IndexOfMember
<1>. QED
  BY <1>1, <1>2, <1>4, <1>5, <1>6

\* removeChild keeps the list in order, and takes away the one it is to take.
LEMMA RemovedInOrder ==
  ASSUME NEW nodes, NEW S, AreSiblings(nodes, S), NEW list \in Seq(S),
         InOrder(nodes, list), NEW k \in 1 .. Len(list),
         NEW new, new = RemoveAt(list, k)
  PROVE  /\ new \in Seq(S)
         /\ InOrder(nodes, new)
         /\ ToSet(new) = ToSet(list) \ {list[k]}
<1>0. Len(list) \in Nat /\ k \in Nat
        /\ DOMAIN list = 1 .. Len(list)
        /\ \A i \in 1 .. Len(list): Sibling(nodes[list[i]])
  BY LenProperties, ElementOfSeq DEF AreSiblings
<1>1. /\ new \in Seq(S)
      /\ Len(new) = Len(list) - 1
      /\ \A j \in 1 .. Len(list) - 1:
           new[j] = IF j < k THEN list[j] ELSE list[j + 1]
  BY RemoveAtProperties
<1>2. \A i \in 1 .. Len(list): i # k => list[i] # list[k]
  <2>. SUFFICES ASSUME NEW i \in 1 .. Len(list), i # k, list[i] = list[k]
                PROVE  FALSE
    OBVIOUS
  <2>1. i < k \/ k < i
    BY <1>0
  <2>2. Less(nodes[list[k]], nodes[list[k]])
    BY <2>1 DEF InOrder
  <2>. QED
    BY <1>0, <2>2, LessIsIrreflexive
<1>3. InOrder(nodes, new)
  <2>. SUFFICES ASSUME NEW i \in 1 .. Len(list) - 1, NEW j \in 1 .. Len(list) - 1,
                       i < j
                PROVE  Less(nodes[new[i]], nodes[new[j]])
    BY <1>1 DEF InOrder
  <2>0. /\ i \in 1 .. Len(list) /\ i + 1 \in 1 .. Len(list)
        /\ j \in 1 .. Len(list) /\ j + 1 \in 1 .. Len(list)
        /\ i \in Nat /\ j \in Nat
    BY <1>0
  <2>1. CASE j < k
    BY <1>0, <1>1, <2>0, <2>1 DEF InOrder
  <2>2. CASE j >= k /\ i < k
    <3>1. new[i] = list[i] /\ new[j] = list[j + 1] /\ i < j + 1
      BY <1>0, <1>1, <2>0, <2>2
    <3>. QED
      BY <2>0, <3>1 DEF InOrder
  <2>3. CASE j >= k /\ i >= k
    <3>1. new[i] = list[i + 1] /\ new[j] = list[j + 1] /\ i + 1 < j + 1
      BY <1>0, <1>1, <2>0, <2>3
    <3>. QED
      BY <2>0, <3>1 DEF InOrder
  <2>. QED
    BY <1>0, <2>0, <2>1, <2>2, <2>3
<1>4. ToSet(new) = ToSet(list) \ {list[k]}
  <2>0. DOMAIN new = 1 .. Len(list) - 1
    BY <1>1, LenProperties
  <2>1. ASSUME NEW x \in ToSet(new)
        PROVE  x \in ToSet(list) \ {list[k]}
    <3>1. PICK j \in 1 .. Len(list) - 1: x = new[j]
      BY <2>0 DEF ToSet
    <3>2. /\ j \in 1 .. Len(list) /\ j + 1 \in 1 .. Len(list)
          /\ j < k => j # k
          /\ ~(j < k) => j + 1 # k
      BY <1>0
    <3>3. \E i \in 1 .. Len(list): i # k /\ x = list[i]
      BY <1>1, <3>1, <3>2
    <3>. QED
      BY <1>0, <1>2, <3>3 DEF ToSet
  <2>2. ASSUME NEW x \in ToSet(list), x # list[k]
        PROVE  x \in ToSet(new)
    <3>1. PICK i \in 1 .. Len(list): x = list[i]
      BY <1>0 DEF ToSet
    <3>2. i # k
      BY <2>2, <3>1
    <3>3. CASE i < k
      <4>1. i \in 1 .. Len(list) - 1 /\ new[i] = list[i]
        BY <1>0, <1>1, <3>3
      <4>. QED
        BY <2>0, <3>1, <4>1 DEF ToSet
    <3>4. CASE i > k
      <4>1. i - 1 \in 1 .. Len(list) - 1 /\ ~(i - 1 < k) /\ i - 1 + 1 = i
        BY <1>0, <3>4
      <4>2. new[i - 1] = list[i]
        BY <1>1, <4>1
      <4>. QED
        BY <2>0, <3>1, <4>1, <4>2 DEF ToSet
    <3>. QED
      BY <1>0, <3>2, <3>3, <3>4
  <2>. QED
    BY <2>1, <2>2
<1>. QED
  BY <1>1, <1>3, <1>4

\* The order goes by types and titles only.
LEMMA SameOrder ==
  ASSUME NEW nodes, NEW new, NEW S,
         \A m \in S: new[m].type = nodes[m].type /\ new[m].title = nodes[m].title,
         NEW list \in Seq(S)
  PROVE  /\ InOrder(nodes, list) <=> InOrder(new, list)
         /\ \A n \in S: IndexFor(new, list, n) = IndexFor(nodes, list, n)
<1>0. \A i \in 1 .. Len(list): list[i] \in S
  BY ElementOfSeq
<1>1. ASSUME NEW m \in S, NEW n \in S
      PROVE  Less(new[m], new[n]) <=> Less(nodes[m], nodes[n])
  BY DEF Less
<1>2. InOrder(nodes, list) <=> InOrder(new, list)
  BY <1>0, <1>1 DEF InOrder
<1>3. ASSUME NEW n \in S
      PROVE  IndexFor(new, list, n) = IndexFor(nodes, list, n)
  <2>1. {i \in 1 .. Len(list): Less(new[list[i]], new[n])}
          = {i \in 1 .. Len(list): Less(nodes[list[i]], nodes[n])}
    BY <1>0, <1>1
  <2>. QED
    BY <2>1 DEF IndexFor
<1>. QED
  BY <1>2, <1>3

(***************************************************************************)
(* Trees.                                                                  *)
(***************************************************************************)

NodeFields == {"type", "title", "parent", "map", "list"}

Below(nodes) == DOMAIN nodes \ {Root}

TreeShape(nodes) ==
  /\ None \notin DOMAIN nodes
  /\ \A n \in DOMAIN nodes:
       /\ DOMAIN nodes[n] = NodeFields
       /\ nodes[n].title \in AnyTitle
       /\ nodes[n].parent # n
       /\ nodes[n].parent \in DOMAIN nodes \union {None}
       /\ nodes[n].list \in Seq(Below(nodes))
  /\ \A n \in Below(nodes):
       /\ nodes[n].type \in {"Folder", "File"}
       /\ nodes[n].parent \in DOMAIN nodes

\* The children of q are n, perhaps, and those that the list and the map say.
SiblingsBut(nodes, q, n) ==
  LET list == nodes[q].list
  IN  /\ {m \in DOMAIN nodes \ {n}: nodes[m].parent = q} = ToSet(list)
      /\ DOMAIN nodes[q].map = {Key(nodes[m].title): m \in ToSet(list)}
      /\ \A m \in ToSet(list): GetChild(nodes, q, nodes[m].title) = m
      /\ InOrder(nodes, list)

Consistent(nodes) ==
  TreeShape(nodes) /\ \A q \in DOMAIN nodes: SiblingsConsistent(nodes, q)

\* The node n is not, or not any more, among the children of its parent.
Detached(nodes, n) ==
  /\ TreeShape(nodes)
  /\ n \in Below(nodes)
  /\ \A q \in DOMAIN nodes: SiblingsBut(nodes, q, n)

\* Whoever is below the root has a type and a title to be compared by.
LEMMA ShapeGivesSiblings ==
  ASSUME NEW nodes, TreeShape(nodes)
  PROVE  AreSiblings(nodes, Below(nodes))
BY DEF TreeShape, AreSiblings, Below, Sibling

\* The children of a whole tree are in order.
LEMMA ConsistentInOrder ==
  ASSUME NEW nodes, Consistent(nodes), NEW q \in DOMAIN nodes
  PROVE  InOrder(nodes, nodes[q].list)
<1>1. nodes[q].list \in Seq(Below(nodes)) /\ AreSiblings(nodes, Below(nodes))
  BY ShapeGivesSiblings DEF Consistent, TreeShape
<1>2. \A i \in 1 .. Len(nodes[q].list) - 1:
        Less(nodes[nodes[q].list[i]], nodes[nodes[q].list[i + 1]])
  BY DEF Consistent, SiblingsConsistent
<1>. QED
  BY <1>1, <1>2, NeighboursInOrder

\* Titles that have one key differ in case at most.
LEMMA DifferentKeys ==
  ASSUME NEW t \in AnyTitle, NEW u \in AnyTitle, Key(t) # Key(u)
  PROVE  t # u
BY DEF Key

\* What addChild changes, and what it leaves alone.
ChildAdded(nodes, p, n, new) ==
  /\ p \in DOMAIN nodes
  /\ DOMAIN new = DOMAIN nodes
  /\ \A m \in DOMAIN nodes: /\ DOMAIN new[m] = NodeFields
                            /\ new[m].type = nodes[m].type
                            /\ new[m].title = nodes[m].title
                            /\ new[m].parent = nodes[m].parent
                            /\ m # p => new[m] = nodes[m]
  /\ new[p].list = InsertAt(nodes[p].list,
                            IndexFor(nodes, nodes[p].list, n), n)
  /\ DOMAIN new[p].map = DOMAIN nodes[p].map \union {Key(nodes[n].title)}
  /\ new[p].map[Key(nodes[n].title)] = n
  /\ \A k \in DOMAIN nodes[p].map:
       k # Key(nodes[n].title) => new[p].map[k] = nodes[p].map[k]

\* addChild changes the map and the list of the parent, and nothing else.
LEMMA AddChildIsLocal ==
  ASSUME NEW nodes, NEW n, Detached(nodes, n), NEW p, p = nodes[n].parent,
         NEW new, new = AddChild(nodes, p, n)
  PROVE  ChildAdded(nodes, p, n, new)
<1>1. p \in DOMAIN nodes /\ \A m \in DOMAIN nodes: DOMAIN nodes[m] = NodeFields
  BY DEF Detached, TreeShape
<1>. DEFINE key == Key(nodes[n].title)
            map == [k \in DOMAIN nodes[p].map \union {key} |->
                      IF k = key THEN n ELSE nodes[p].map[k]]
            list == InsertAt(nodes[p].list, IndexFor(nodes, nodes[p].list, n), n)
<1>2. new = [nodes EXCEPT ![p].map = map, ![p].list = list]
  BY DEF AddChild
<1>. HIDE DEF map, list, key
<1>3. /\ DOMAIN new = DOMAIN nodes
      /\ \A m \in DOMAIN nodes: m # p => new[m] = nodes[m]
      /\ new[p] = [nodes[p] EXCEPT !.map = map, !.list = list]
  BY <1>1, <1>2
<1>4. /\ DOMAIN new[p] = NodeFields
      /\ new[p].type = nodes[p].type
      /\ new[p].title = nodes[p].title
      /\ new[p].parent = nodes[p].parent
      /\ new[p].map = map
      /\ new[p].list = list
  BY <1>1, <1>3 DEF NodeFields
<1>5. /\ DOMAIN map = DOMAIN nodes[p].map \union {key}
      /\ map[key] = n
      /\ \A k \in DOMAIN nodes[p].map: k # key => map[k] = nodes[p].map[k]
  BY DEF map
<1>. QED
  BY <1>1, <1>3, <1>4, <1>5 DEF list, key, ChildAdded

\* addChild of a node whose key is free makes the tree whole again, and its
\* signal says where the node is.
LEMMA AddChildKeeps ==
  ASSUME NEW nodes, NEW n, Detached(nodes, n), NEW p, p = nodes[n].parent,
         Key(nodes[n].title) \notin DOMAIN nodes[p].map,
         NEW new, new = AddChild(nodes, p, n)
  PROVE  /\ Consistent(new)
         /\ IndexOf(new, n) = IndexFor(nodes, nodes[p].list, n)
<1>. DEFINE S == Below(nodes)
<1>1. /\ p \in DOMAIN nodes
      /\ DOMAIN new = DOMAIN nodes
      /\ \A m \in DOMAIN nodes: /\ DOMAIN new[m] = NodeFields
                                /\ new[m].type = nodes[m].type
                                /\ new[m].title = nodes[m].title
                                /\ new[m].parent = nodes[m].parent
                                /\ m # p => new[m] = nodes[m]
      /\ new[p].list = InsertAt(nodes[p].list,
                                IndexFor(nodes, nodes[p].list, n), n)
      /\ DOMAIN new[p].map = DOMAIN nodes[p].map \union {Key(nodes[n].title)}
      /\ new[p].map[Key(nodes[n].title)] = n
      /\ \A k \in DOMAIN nodes[p].map:
           k # Key(nodes[n].title) => new[p].map[k] = nodes[p].map[k]
  <2>1. ChildAdded(nodes, p, n, new)
    BY AddChildIsLocal
  <2>. QED
    BY <2>1 DEF ChildAdded
<1>. DEFINE list == nodes[p].list
            key == Key(nodes[n].title)
<1>2. /\ TreeShape(nodes)
      /\ n \in S /\ S \subseteq DOMAIN nodes
      /\ AreSiblings(nodes, S)
      /\ \A q \in DOMAIN nodes: nodes[q].list \in Seq(S)
      /\ \A q \in DOMAIN nodes: SiblingsBut(nodes, q, n)
  BY ShapeGivesSiblings DEF Detached, TreeShape, Below
<1>. HIDE DEF S
<1>3. \A q \in DOMAIN nodes: ToSet(nodes[q].list) \subseteq S
  <2>. SUFFICES ASSUME NEW q \in DOMAIN nodes, NEW m \in ToSet(nodes[q].list)
                PROVE  m \in S
    OBVIOUS
  <2>1. PICK i \in DOMAIN nodes[q].list: m = nodes[q].list[i]
    BY DEF ToSet
  <2>. QED
    BY <1>2, <2>1, ElementOfSeq, LenProperties
<1>4. \A m \in ToSet(list): Key(nodes[m].title) # key
  BY <1>1, <1>2 DEF SiblingsBut
<1>5. \A m \in ToSet(list): nodes[m].title # nodes[n].title
  BY <1>4
<1>6. /\ new[p].list \in Seq(S)
      /\ InOrder(nodes, new[p].list)
      /\ ToSet(new[p].list) = ToSet(list) \union {n}
      /\ IndexFor(nodes, new[p].list, n) = IndexFor(nodes, list, n)
  <2>1. list \in Seq(S) /\ InOrder(nodes, list)
    BY <1>1, <1>2 DEF SiblingsBut
  <2>2. new[p].list = InsertAt(list, IndexFor(nodes, list, n), n)
    BY <1>1
  <2>3. n \in S /\ AreSiblings(nodes, S)
    BY <1>2
  <2>. HIDE DEF list
  <2>. QED
    BY <1>5, <2>1, <2>2, <2>3, InsertedInOrder
<1>10. \A m \in S: new[m].type = nodes[m].type /\ new[m].title = nodes[m].title
  BY <1>1, <1>2
<1>7. TreeShape(new)
  <2>1. Below(new) = S
    BY <1>1 DEF Below, S
  <2>2. \A m \in DOMAIN nodes: new[m].list \in Seq(S)
    BY <1>1, <1>2, <1>6
  <2>. QED
    BY <1>1, <1>2, <2>1, <2>2 DEF TreeShape, S
<1>8. ASSUME NEW q \in DOMAIN nodes
      PROVE  SiblingsConsistent(new, q)
  <2>1. new[q].list \in Seq(S) /\ InOrder(nodes, new[q].list)
    BY <1>1, <1>2, <1>6 DEF SiblingsBut
  <2>2. InOrder(new, new[q].list)
    BY <1>10, <2>1, SameOrder
  <2>3. \A i \in 1 .. Len(new[q].list) - 1:
          Less(new[new[q].list[i]], new[new[q].list[i + 1]])
    <3>1. Len(new[q].list) \in Nat
      BY <2>1, LenProperties
    <3>2. ASSUME NEW i \in 1 .. Len(new[q].list) - 1
          PROVE  /\ i \in 1 .. Len(new[q].list) /\ i + 1 \in 1 .. Len(new[q].list)
                 /\ i < i + 1
      BY <3>1
    <3>. QED
      BY <2>2, <3>2 DEF InOrder
  <2>4. {m \in DOMAIN new: new[m].parent = q} = ToSet(new[q].list)
    <3>1. {m \in DOMAIN nodes \ {n}: nodes[m].parent = q} = ToSet(nodes[q].list)
      BY <1>2 DEF SiblingsBut
    <3>2. CASE q = p
      BY <1>1, <1>2, <1>6, <3>1, <3>2
    <3>3. CASE q # p
      BY <1>1, <1>2, <3>1, <3>3
    <3>. QED
      BY <3>2, <3>3
  <2>5. ToSet(new[q].list) \subseteq DOMAIN nodes
    BY <1>1, <2>4
  <2>6. DOMAIN new[q].map = {Key(new[m].title): m \in ToSet(new[q].list)}
    <3>1. DOMAIN nodes[q].map = {Key(nodes[m].title): m \in ToSet(nodes[q].list)}
      BY <1>2 DEF SiblingsBut
    <3>2. {Key(new[m].title): m \in ToSet(new[q].list)}
            = {Key(nodes[m].title): m \in ToSet(new[q].list)}
      BY <1>1, <2>5
    <3>3. CASE q = p
      <4>1. {Key(nodes[m].title): m \in ToSet(list) \union {n}}
              = {Key(nodes[m].title): m \in ToSet(list)} \union {key}
        OBVIOUS
      <4>2. ToSet(new[q].list) = ToSet(list) \union {n}
        BY <1>6, <3>3
      <4>3. DOMAIN new[q].map = {Key(nodes[m].title): m \in ToSet(list)} \union {key}
        BY <1>1, <3>1, <3>3
      <4>. HIDE DEF list, key
      <4>. QED
        BY <3>2, <4>1, <4>2, <4>3
    <3>4. CASE q # p
      BY <1>1, <3>1, <3>2, <3>4
    <3>. QED
      BY <3>3, <3>4
  <2>7. ASSUME NEW m \in ToSet(new[q].list)
        PROVE  GetChild(new, q, new[m].title) = m
    <3>1. new[m].title = nodes[m].title
            /\ Key(nodes[m].title) \in DOMAIN new[q].map
      BY <1>1, <2>5, <2>6
    <3>2. new[q].map[Key(nodes[m].title)] = m
      <4>1. CASE m \in ToSet(nodes[q].list)
        <5>1. GetChild(nodes, q, nodes[m].title) = m
                /\ Key(nodes[m].title) \in DOMAIN nodes[q].map
          BY <1>2, <4>1 DEF SiblingsBut
        <5>2. nodes[q].map[Key(nodes[m].title)] = m
          BY <5>1 DEF GetChild, HasChild
        <5>3. CASE q = p
          BY <1>1, <1>4, <4>1, <5>1, <5>2, <5>3
        <5>4. CASE q # p
          BY <1>1, <5>2, <5>4
        <5>. QED
          BY <5>3, <5>4
      <4>2. CASE m \notin ToSet(nodes[q].list)
        <5>1. q = p /\ m = n
          BY <1>1, <1>6, <4>2
        <5>. QED
          BY <1>1, <5>1
      <4>. QED
        BY <4>1, <4>2
    <3>. QED
      BY <3>1, <3>2 DEF GetChild, HasChild
  <2>. QED
    BY <2>3, <2>4, <2>6, <2>7 DEF SiblingsConsistent
<1>9. IndexOf(new, n) = IndexFor(nodes, list, n)
  <2>1. new[n].parent = p
    BY <1>1, <1>2
  <2>. HIDE DEF list, key
  <2>2. IndexFor(new, new[p].list, n) = IndexFor(nodes, new[p].list, n)
    <3>1. n \in S /\ new[p].list \in Seq(S)
      BY <1>2, <1>6
    <3>2. ASSUME NEW l \in Seq(S), NEW k \in S
          PROVE  IndexFor(new, l, k) = IndexFor(nodes, l, k)
      BY <1>10, SameOrder
    <3>. QED
      BY <3>1, <3>2
  <2>. QED
    BY <1>6, <2>1, <2>2 DEF IndexOf
<1>. QED
  BY <1>1, <1>7, <1>8, <1>9 DEF Consistent

\* What removeChild changes, and what it leaves alone; k is where the child is.
ChildRemoved(nodes, p, n, k, new) ==
  /\ p \in DOMAIN nodes
  /\ k \in 1 .. Len(nodes[p].list)
  /\ nodes[p].list[k] = n
  /\ IndexFor(nodes, nodes[p].list, n) = k
  /\ DOMAIN new = DOMAIN nodes
  /\ \A m \in DOMAIN nodes: /\ DOMAIN new[m] = NodeFields
                            /\ new[m].type = nodes[m].type
                            /\ new[m].title = nodes[m].title
                            /\ new[m].parent = nodes[m].parent
                            /\ m # p => new[m] = nodes[m]
  /\ new[p].list = RemoveAt(nodes[p].list, k)
  /\ DOMAIN new[p].map = DOMAIN nodes[p].map \ {Key(nodes[n].title)}
  /\ \A key \in DOMAIN nodes[p].map:
       key # Key(nodes[n].title) => new[p].map[key] = nodes[p].map[key]

\* removeChild finds the child, and changes the map and the list of the parent.
LEMMA RemoveChildIsLocal ==
  ASSUME NEW nodes, NEW n, Consistent(nodes), n \in Below(nodes),
         NEW p, p = nodes[n].parent, NEW new, new = RemoveChild(nodes, p, n)
  PROVE  \E k: ChildRemoved(nodes, p, n, k, new)
<1>1. /\ p \in DOMAIN nodes
      /\ n \in DOMAIN nodes
      /\ \A m \in DOMAIN nodes: DOMAIN nodes[m] = NodeFields
      /\ nodes[p].list \in Seq(Below(nodes))
      /\ AreSiblings(nodes, Below(nodes))
      /\ InOrder(nodes, nodes[p].list)
      /\ SiblingsConsistent(nodes, p)
  BY ShapeGivesSiblings, ConsistentInOrder DEF Consistent, TreeShape, Below
<1>2. n \in ToSet(nodes[p].list)
  BY <1>1 DEF SiblingsConsistent
<1>3. PICK k \in 1 .. Len(nodes[p].list): nodes[p].list[k] = n
  BY <1>1, <1>2, LenProperties DEF ToSet
<1>4. IndexFor(nodes, nodes[p].list, n) = k
  BY <1>1, <1>3, IndexOfMember
<1>. DEFINE list == RemoveAt(nodes[p].list, k)
            key == Key(nodes[n].title)
            map == Without(nodes[p].map, {key})
<1>5. new = [nodes EXCEPT ![p].map = map, ![p].list = list]
  BY <1>4 DEF RemoveChild
<1>6. /\ DOMAIN map = DOMAIN nodes[p].map \ {key}
      /\ \A x \in DOMAIN nodes[p].map: x # key => map[x] = nodes[p].map[x]
  BY DEF Without
<1>. HIDE DEF map, list, key
<1>7. /\ DOMAIN new = DOMAIN nodes
      /\ \A m \in DOMAIN nodes: m # p => new[m] = nodes[m]
      /\ new[p] = [nodes[p] EXCEPT !.map = map, !.list = list]
  BY <1>1, <1>5
<1>8. /\ DOMAIN new[p] = NodeFields
      /\ new[p].type = nodes[p].type
      /\ new[p].title = nodes[p].title
      /\ new[p].parent = nodes[p].parent
      /\ new[p].map = map
      /\ new[p].list = list
  BY <1>1, <1>7 DEF NodeFields
<1>9. ChildRemoved(nodes, p, n, k, new)
  BY <1>1, <1>3, <1>4, <1>6, <1>7, <1>8 DEF ChildRemoved, list, key
<1>. QED
  BY <1>9

\* Who is removed is nobody's child, and the rest of the tree is whole.
LEMMA RemoveChildDetaches ==
  ASSUME NEW nodes, NEW n, Consistent(nodes), n \in Below(nodes),
         NEW p, p = nodes[n].parent, NEW k, NEW new,
         ChildRemoved(nodes, p, n, k, new)
  PROVE  Detached(new, n)
<1>. DEFINE S == Below(nodes)
<1>1. /\ TreeShape(nodes)
      /\ S \subseteq DOMAIN nodes
      /\ AreSiblings(nodes, S)
      /\ \A q \in DOMAIN nodes: /\ nodes[q].list \in Seq(S)
                                /\ InOrder(nodes, nodes[q].list)
                                /\ SiblingsConsistent(nodes, q)
  BY ShapeGivesSiblings, ConsistentInOrder DEF Consistent, TreeShape, Below
<1>2. /\ p \in DOMAIN nodes
      /\ k \in 1 .. Len(nodes[p].list)
      /\ nodes[p].list[k] = n
      /\ DOMAIN new = DOMAIN nodes
      /\ \A m \in DOMAIN nodes: /\ DOMAIN new[m] = NodeFields
                                /\ new[m].type = nodes[m].type
                                /\ new[m].title = nodes[m].title
                                /\ new[m].parent = nodes[m].parent
                                /\ m # p => new[m] = nodes[m]
      /\ new[p].list = RemoveAt(nodes[p].list, k)
  BY DEF ChildRemoved
<1>3. /\ DOMAIN new[p].map = DOMAIN nodes[p].map \ {Key(nodes[n].title)}
      /\ \A key \in DOMAIN nodes[p].map:
           key # Key(nodes[n].title) => new[p].map[key] = nodes[p].map[key]
  BY DEF ChildRemoved
<1>4. Below(new) = S
  BY <1>2 DEF Below
<1>. HIDE DEF S
<1>5. /\ new[p].list \in Seq(S)
      /\ InOrder(nodes, new[p].list)
      /\ ToSet(new[p].list) = ToSet(nodes[p].list) \ {n}
  <2>. DEFINE list == nodes[p].list
  <2>1. list \in Seq(S) /\ InOrder(nodes, list) /\ AreSiblings(nodes, S)
    BY <1>1, <1>2
  <2>2. k \in 1 .. Len(list) /\ list[k] = n /\ new[p].list = RemoveAt(list, k)
    BY <1>2
  <2>. HIDE DEF list
  <2>3. /\ new[p].list \in Seq(S)
        /\ InOrder(nodes, new[p].list)
        /\ ToSet(new[p].list) = ToSet(list) \ {list[k]}
    BY <2>1, <2>2, RemovedInOrder
  <2>. QED
    BY <2>2, <2>3 DEF list
<1>6. TreeShape(new)
  <2>1. \A m \in DOMAIN nodes: new[m].list \in Seq(S)
    BY <1>1, <1>2, <1>5
  <2>. QED
    BY <1>1, <1>2, <1>4, <2>1 DEF TreeShape, S
<1>7. \A m \in S: new[m].type = nodes[m].type /\ new[m].title = nodes[m].title
  BY <1>1, <1>2
<1>8. ASSUME NEW q \in DOMAIN nodes
      PROVE  SiblingsBut(new, q, n)
  <2>1. new[q].list \in Seq(S) /\ InOrder(nodes, new[q].list)
    BY <1>1, <1>2, <1>5
  <2>2. InOrder(new, new[q].list)
    BY <1>7, <2>1, SameOrder
  <2>3. {m \in DOMAIN nodes: nodes[m].parent = q} = ToSet(nodes[q].list)
    BY <1>1 DEF SiblingsConsistent
  <2>4. ToSet(new[q].list) = ToSet(nodes[q].list) \ {n}
    <3>1. CASE q = p
      BY <1>5, <3>1
    <3>2. CASE q # p
      <4>1. n \notin ToSet(nodes[q].list)
        BY <2>3, <3>2
      <4>2. new[q] = nodes[q]
        BY <1>2, <3>2
      <4>. QED
        BY <4>1, <4>2
    <3>. QED
      BY <3>1, <3>2
  <2>5. {m \in DOMAIN new \ {n}: new[m].parent = q} = ToSet(new[q].list)
    BY <1>2, <2>3, <2>4
  <2>6. \A m \in ToSet(nodes[q].list):
          /\ m \in DOMAIN nodes
          /\ Key(nodes[m].title) \in DOMAIN nodes[q].map
          /\ nodes[q].map[Key(nodes[m].title)] = m
    BY <1>1, <2>3 DEF SiblingsConsistent, GetChild, HasChild
  <2>7. \A m \in ToSet(new[q].list): q = p => Key(nodes[m].title) # Key(nodes[n].title)
    <3>. SUFFICES ASSUME NEW m \in ToSet(new[q].list), q = p,
                         Key(nodes[m].title) = Key(nodes[n].title)
                  PROVE  FALSE
      OBVIOUS
    <3>1. m \in ToSet(nodes[q].list) /\ m # n
      BY <2>4
    <3>2. n \in ToSet(nodes[q].list)
      BY <2>3 DEF Below
    <3>. QED
      BY <2>6, <3>1, <3>2
  <2>8. DOMAIN new[q].map = {Key(new[m].title): m \in ToSet(new[q].list)}
    <3>1. DOMAIN nodes[q].map = {Key(nodes[m].title): m \in ToSet(nodes[q].list)}
      BY <1>1 DEF SiblingsConsistent
    <3>2. {Key(new[m].title): m \in ToSet(new[q].list)}
            = {Key(nodes[m].title): m \in ToSet(new[q].list)}
      BY <1>2, <2>4, <2>6
    <3>3. CASE q = p
      <4>1. {Key(nodes[m].title): m \in ToSet(nodes[q].list) \ {n}}
              = {Key(nodes[m].title): m \in ToSet(nodes[q].list)} \ {Key(nodes[n].title)}
        BY <2>4, <2>7, <3>3
      <4>. QED
        BY <1>3, <2>4, <3>1, <3>2, <3>3, <4>1
    <3>4. CASE q # p
      <4>1. new[q] = nodes[q] /\ ToSet(new[q].list) = ToSet(nodes[q].list)
        BY <1>2, <3>4
      <4>. QED
        BY <3>1, <3>2, <4>1
    <3>. QED
      BY <3>3, <3>4
  <2>9. ASSUME NEW m \in ToSet(new[q].list)
        PROVE  GetChild(new, q, new[m].title) = m
    <3>1. m \in ToSet(nodes[q].list)
      BY <2>4
    <3>2. /\ new[m].title = nodes[m].title
          /\ Key(nodes[m].title) \in DOMAIN nodes[q].map
          /\ nodes[q].map[Key(nodes[m].title)] = m
      BY <1>2, <2>6, <3>1
    <3>3. Key(nodes[m].title) \in DOMAIN new[q].map
      BY <2>8, <3>2
    <3>4. new[q].map[Key(nodes[m].title)] = m
      <4>1. CASE q = p
        BY <1>3, <2>7, <3>2, <4>1
      <4>2. CASE q # p
        BY <1>2, <3>2, <4>2
      <4>. QED
        BY <4>1, <4>2
    <3>. QED
      BY <3>2, <3>3, <3>4 DEF GetChild, HasChild
  <2>. QED
    BY <2>2, <2>5, <2>8, <2>9 DEF SiblingsBut
<1>9. n \in Below(new)
  BY <1>2 DEF Below
<1>. QED
  BY <1>2, <1>6, <1>8, <1>9 DEF Detached

(***************************************************************************)
(* A new title: PboNode::setTitle takes the node from its parent, gives it *)
(* the title and adds it again.                                            *)
(***************************************************************************)

\* What a title that is assigned to a node changes.
Retitled(nodes, n, title, new) ==
  /\ DOMAIN new = DOMAIN nodes
  /\ \A m \in DOMAIN nodes: /\ DOMAIN new[m] = NodeFields
                            /\ new[m].type = nodes[m].type
                            /\ new[m].parent = nodes[m].parent
                            /\ new[m].map = nodes[m].map
                            /\ new[m].list = nodes[m].list
                            /\ m # n => new[m].title = nodes[m].title
  /\ new[n].title = title

\* A title that is assigned changes nothing else.
LEMMA RetitleIsLocal ==
  ASSUME NEW nodes, NEW n \in DOMAIN nodes, TreeShape(nodes), NEW title,
         NEW new, new = [nodes EXCEPT ![n].title = title]
  PROVE  Retitled(nodes, n, title, new)
<1>1. \A m \in DOMAIN nodes: DOMAIN nodes[m] = NodeFields
  BY DEF TreeShape
<1>2. /\ DOMAIN new = DOMAIN nodes
      /\ \A m \in DOMAIN nodes: m # n => new[m] = nodes[m]
      /\ new[n] = [nodes[n] EXCEPT !.title = title]
  OBVIOUS
<1>3. /\ DOMAIN new[n] = NodeFields
      /\ new[n].type = nodes[n].type
      /\ new[n].title = title
      /\ new[n].parent = nodes[n].parent
      /\ new[n].map = nodes[n].map
      /\ new[n].list = nodes[n].list
  BY <1>1, <1>2 DEF NodeFields
<1>. QED
  BY <1>1, <1>2, <1>3 DEF Retitled

\* A node that is nobody's child may have any title.
LEMMA DetachedMayBeRetitled ==
  ASSUME NEW nodes, NEW n, Detached(nodes, n), NEW title \in AnyTitle,
         NEW new, Retitled(nodes, n, title, new)
  PROVE  Detached(new, n)
<1>1. /\ TreeShape(nodes)
      /\ n \in Below(nodes)
      /\ n \in DOMAIN nodes
      /\ \A q \in DOMAIN nodes: SiblingsBut(nodes, q, n)
  BY DEF Detached, Below
<1>2. /\ DOMAIN new = DOMAIN nodes
      /\ \A m \in DOMAIN nodes: /\ DOMAIN new[m] = NodeFields
                                /\ new[m].type = nodes[m].type
                                /\ new[m].parent = nodes[m].parent
                                /\ new[m].map = nodes[m].map
                                /\ new[m].list = nodes[m].list
                                /\ m # n => new[m].title = nodes[m].title
      /\ new[n].title = title
  BY DEF Retitled
<1>3. Below(new) = Below(nodes)
  BY <1>2 DEF Below
<1>4. TreeShape(new)
  <2>1. \A m \in DOMAIN nodes: new[m].title \in AnyTitle
    BY <1>1, <1>2 DEF TreeShape
  <2>2. \A m \in DOMAIN nodes: new[m].list \in Seq(Below(nodes))
    BY <1>1, <1>2 DEF TreeShape
  <2>3. /\ None \notin DOMAIN new
        /\ \A m \in DOMAIN new: /\ DOMAIN new[m] = NodeFields
                               /\ new[m].parent # m
                               /\ new[m].parent \in DOMAIN new \union {None}
    BY <1>1, <1>2 DEF TreeShape
  <2>4. \A m \in Below(nodes): /\ new[m].type \in {"Folder", "File"}
                               /\ new[m].parent \in DOMAIN new
    BY <1>1, <1>2 DEF TreeShape, Below
  <2>. QED
    BY <1>2, <1>3, <2>1, <2>2, <2>3, <2>4 DEF TreeShape
<1>5. ASSUME NEW q \in DOMAIN nodes
      PROVE  SiblingsBut(new, q, n)
  <2>. DEFINE list == nodes[q].list
  <2>1. new[q].list = list /\ new[q].map = nodes[q].map
    BY <1>2
  <2>2. /\ {m \in DOMAIN nodes \ {n}: nodes[m].parent = q} = ToSet(list)
        /\ DOMAIN nodes[q].map = {Key(nodes[m].title): m \in ToSet(list)}
        /\ \A m \in ToSet(list): GetChild(nodes, q, nodes[m].title) = m
        /\ InOrder(nodes, list)
    BY <1>1 DEF SiblingsBut
  <2>3. list \in Seq(Below(nodes))
    BY <1>1 DEF TreeShape
  <2>. HIDE DEF list
  <2>4. \A m \in ToSet(list): m \in DOMAIN nodes /\ new[m].title = nodes[m].title
                                                 /\ new[m].type = nodes[m].type
    BY <1>2, <2>2
  <2>5. {m \in DOMAIN new \ {n}: new[m].parent = q} = ToSet(list)
    BY <1>2, <2>2
  <2>6. {Key(new[m].title): m \in ToSet(list)} = {Key(nodes[m].title): m \in ToSet(list)}
    BY <2>4
  <2>7. \A m \in ToSet(list): GetChild(new, q, new[m].title) = m
    BY <2>1, <2>2, <2>4 DEF GetChild, HasChild
  <2>8. InOrder(new, list)
    <3>1. \A i \in 1 .. Len(list): list[i] \in ToSet(list)
      BY <2>3, LenProperties DEF ToSet
    <3>. SUFFICES ASSUME NEW i \in 1 .. Len(list), NEW j \in 1 .. Len(list), i < j
                  PROVE  Less(new[list[i]], new[list[j]])
      BY DEF InOrder
    <3>2. Less(nodes[list[i]], nodes[list[j]])
      BY <2>2 DEF InOrder
    <3>. QED
      BY <2>4, <3>1, <3>2 DEF Less
  <2>9. SiblingsBut(new, q, n)
    BY <2>1, <2>2, <2>5, <2>6, <2>7, <2>8 DEF SiblingsBut
  <2>. QED
    BY <2>9
<1>. QED
  BY <1>1, <1>2, <1>3, <1>4, <1>5 DEF Detached

\* A title that verifyTitle accepts takes nobody's place in the map.
LEMMA AcceptedKeyIsFree ==
  ASSUME NEW nodes, NEW n, Consistent(nodes), n \in Below(nodes),
         NEW p, p = nodes[n].parent, NEW title,
         GetChild(nodes, p, title) \in {None, n}
  PROVE  Key(title) \notin DOMAIN nodes[p].map \ {Key(nodes[n].title)}
<1>. SUFFICES ASSUME Key(title) \in DOMAIN nodes[p].map,
                     Key(title) # Key(nodes[n].title)
              PROVE  FALSE
  OBVIOUS
<1>1. /\ p \in DOMAIN nodes
      /\ SiblingsConsistent(nodes, p)
      /\ None \notin DOMAIN nodes
  BY DEF Consistent, TreeShape
<1>2. PICK m \in ToSet(nodes[p].list): Key(title) = Key(nodes[m].title)
  BY <1>1 DEF SiblingsConsistent
<1>3. m \in DOMAIN nodes
  BY <1>1 DEF SiblingsConsistent
<1>4. GetChild(nodes, p, title) = m
  BY <1>1, <1>2 DEF SiblingsConsistent, GetChild, HasChild
<1>. QED
  BY <1>1, <1>2, <1>3, <1>4

\* What setTitle does: k is where the node was.
TitleSet(nodes, p, n, title, k, new) ==
  /\ Consistent(new)
  /\ p \in DOMAIN nodes
  /\ k \in 1 .. Len(nodes[p].list)
  /\ nodes[p].list[k] = n
  /\ IndexOf(nodes, n) = k
  /\ DOMAIN new = DOMAIN nodes
  /\ \A m \in DOMAIN nodes: /\ new[m].type = nodes[m].type
                            /\ new[m].parent = nodes[m].parent
                            /\ m # n => new[m].title = nodes[m].title
  /\ new[n].title = title
  /\ \A m \in DOMAIN nodes: m # p => new[m].list = nodes[m].list
  /\ new[p].list = InsertAt(RemoveAt(nodes[p].list, k), IndexOf(new, n), n)

\* PboNode::setTitle with a title that verifyTitle accepts.
LEMMA SetTitleKeeps ==
  ASSUME NEW nodes, NEW n, Consistent(nodes), n \in Below(nodes),
         NEW p, p = nodes[n].parent, NEW title \in AnyTitle,
         GetChild(nodes, p, title) \in {None, n},
         NEW new, new = AddChild([RemoveChild(nodes, p, n) EXCEPT ![n].title = title],
                                 p, n)
  PROVE  \E k: TitleSet(nodes, p, n, title, k, new)
<1>. DEFINE removed == RemoveChild(nodes, p, n)
            retitled == [removed EXCEPT ![n].title = title]
<1>1. /\ n \in DOMAIN nodes
      /\ p \in DOMAIN nodes
      /\ p # n
  BY DEF Consistent, TreeShape, Below
<1>2. PICK k: ChildRemoved(nodes, p, n, k, removed)
  BY RemoveChildIsLocal
<1>3. new = AddChild(retitled, p, n)
  OBVIOUS
<1>. HIDE DEF removed
<1>4. Detached(removed, n)
  BY <1>2, RemoveChildDetaches
<1>5. Retitled(removed, n, title, retitled)
  <2>1. TreeShape(removed) /\ n \in DOMAIN removed
    BY <1>4 DEF Detached, Below
  <2>. QED
    BY <2>1, RetitleIsLocal
<1>. HIDE DEF retitled
<1>6. Detached(retitled, n)
  BY <1>4, <1>5, DetachedMayBeRetitled
<1>7. /\ k \in 1 .. Len(nodes[p].list)
      /\ nodes[p].list[k] = n
      /\ IndexFor(nodes, nodes[p].list, n) = k
      /\ DOMAIN removed = DOMAIN nodes
      /\ \A m \in DOMAIN nodes: /\ removed[m].type = nodes[m].type
                                /\ removed[m].title = nodes[m].title
                                /\ removed[m].parent = nodes[m].parent
                                /\ m # p => removed[m] = nodes[m]
      /\ removed[p].list = RemoveAt(nodes[p].list, k)
      /\ DOMAIN removed[p].map = DOMAIN nodes[p].map \ {Key(nodes[n].title)}
  BY <1>2 DEF ChildRemoved
<1>8. /\ DOMAIN retitled = DOMAIN nodes
      /\ \A m \in DOMAIN nodes: /\ retitled[m].type = nodes[m].type
                                /\ retitled[m].parent = nodes[m].parent
                                /\ retitled[m].map = removed[m].map
                                /\ retitled[m].list = removed[m].list
                                /\ m # n => retitled[m].title = nodes[m].title
      /\ retitled[n].title = title
  BY <1>5, <1>7 DEF Retitled
<1>9. Key(retitled[n].title) \notin DOMAIN retitled[p].map
  <2>1. Key(title) \notin DOMAIN nodes[p].map \ {Key(nodes[n].title)}
    BY AcceptedKeyIsFree
  <2>2. DOMAIN retitled[p].map = DOMAIN nodes[p].map \ {Key(nodes[n].title)}
    BY <1>1, <1>7, <1>8
  <2>. QED
    BY <1>8, <2>1, <2>2
<1>10. p = retitled[n].parent
  BY <1>1, <1>8
<1>11. /\ Consistent(new)
       /\ IndexOf(new, n) = IndexFor(retitled, retitled[p].list, n)
  BY <1>3, <1>6, <1>9, <1>10, AddChildKeeps
<1>12. ChildAdded(retitled, p, n, new)
  BY <1>3, <1>6, <1>10, AddChildIsLocal
<1>13. /\ DOMAIN new = DOMAIN retitled
       /\ \A m \in DOMAIN retitled: /\ new[m].type = retitled[m].type
                                    /\ new[m].parent = retitled[m].parent
                                    /\ new[m].title = retitled[m].title
                                    /\ m # p => new[m] = retitled[m]
       /\ new[p].list = InsertAt(retitled[p].list,
                                 IndexFor(retitled, retitled[p].list, n), n)
  BY <1>12 DEF ChildAdded
<1>14. /\ DOMAIN new = DOMAIN nodes
       /\ \A m \in DOMAIN nodes: /\ new[m].type = nodes[m].type
                                 /\ new[m].parent = nodes[m].parent
                                 /\ m # n => new[m].title = nodes[m].title
       /\ new[n].title = title
  BY <1>1, <1>8, <1>13
<1>15. ASSUME NEW m \in DOMAIN nodes, m # p
       PROVE  new[m].list = nodes[m].list
  BY <1>7, <1>8, <1>13, <1>15
<1>16. new[p].list = InsertAt(RemoveAt(nodes[p].list, k), IndexOf(new, n), n)
  BY <1>1, <1>7, <1>8, <1>11, <1>13
<1>17. IndexOf(nodes, n) = k
  BY <1>7 DEF IndexOf
<1>18. TitleSet(nodes, p, n, title, k, new)
  BY <1>1, <1>7, <1>11, <1>14, <1>15, <1>16, <1>17 DEF TitleSet
<1>. QED
  BY <1>18

\* A renaming, in the terms of setTitle.
LEMMA RenameSetsTitle ==
  ASSUME TreeShape(tree), ChildrenConsistent, NEW n \in Below(tree),
         NEW title \in AnyTitle, Rename(n, title)
  PROVE  \E k: TitleSet(tree, tree[n].parent, n, title, k, tree')
<1>. DEFINE p == tree[n].parent
<1>1. Consistent(tree)
  BY DEF Consistent, ChildrenConsistent
<1>2. GetChild(tree, p, title) \in {None, n}
  BY DEF Rename, MayBeTitled
<1>3. tree' = AddChild([RemoveChild(tree, p, n) EXCEPT ![n].title = title], p, n)
  BY DEF Rename, Becomes, SetTitle, Scene
<1>. HIDE DEF p
<1>4. p = tree[n].parent
  BY DEF p
<1>. QED
  BY <1>1, <1>2, <1>3, <1>4, SetTitleKeeps

\* A node of a whole tree, renamed to anything the dialog lets through, leaves
\* the tree whole: map, list and parents agree, no two siblings have the same
\* key, the list is in order for the next binary search.
THEOREM RenameKeepsChildren ==
  ASSUME TreeShape(tree), ChildrenConsistent, NEW n \in Below(tree),
         NEW title \in AnyTitle, Rename(n, title)
  PROVE  TreeShape(tree)' /\ ChildrenConsistent'
<1>1. PICK k: TitleSet(tree, tree[n].parent, n, title, k, tree')
  BY RenameSetsTitle
<1>2. Consistent(tree')
  BY <1>1 DEF TitleSet
<1>. QED
  BY <1>2 DEF Consistent, ChildrenConsistent, TreeShape, SiblingsConsistent,
              NodeFields, Below, GetChild, HasChild

(***************************************************************************)
(* The items follow the nodes by the indexes in signals alone.             *)
(***************************************************************************)

\* What QList::insert makes of a list.
Inserted(s, i, e, new) ==
  /\ Len(new) = Len(s) + 1
  /\ \A j \in 1 .. Len(s) + 1:
       new[j] = IF j < i THEN s[j] ELSE IF j = i THEN e ELSE s[j - 1]

\* Taking an item away and putting it where it was changes nothing.
LEMMA PutBack ==
  ASSUME NEW S, NEW s \in Seq(S), NEW k \in 1 .. Len(s)
  PROVE  InsertAt(RemoveAt(s, k), k, s[k]) = s
<1>. DEFINE r == RemoveAt(s, k)
<1>1. Len(s) \in Nat /\ k \in Nat /\ s[k] \in S
  BY LenProperties, ElementOfSeq
<1>2. /\ r \in Seq(S)
      /\ Len(r) = Len(s) - 1
      /\ \A j \in 1 .. Len(s) - 1: r[j] = IF j < k THEN s[j] ELSE s[j + 1]
  BY RemoveAtProperties
<1>. HIDE DEF r
<1>3. k \in 1 .. Len(r) + 1
  BY <1>1, <1>2
<1>. DEFINE e == s[k]
            t == InsertAt(r, k, e)
<1>4. e \in S
  BY <1>1
<1>. HIDE DEF e
<1>5. /\ t \in Seq(S)
      /\ Len(t) = Len(r) + 1
      /\ \A j \in 1 .. Len(r) + 1:
           t[j] = IF j < k THEN r[j] ELSE IF j = k THEN e ELSE r[j - 1]
  <2>1. ASSUME NEW q \in Seq(S), NEW i \in 1 .. Len(q) + 1, NEW x \in S
        PROVE  InsertAt(q, i, x) \in Seq(S) /\ Inserted(q, i, x, InsertAt(q, i, x))
    BY InsertAtProperties DEF Inserted
  <2>2. t \in Seq(S) /\ Inserted(r, k, e, t)
    BY <1>2, <1>3, <1>4, <2>1
  <2>. QED
    BY <2>2 DEF Inserted
<1>. HIDE DEF t
<1>6. Len(t) = Len(s)
  BY <1>1, <1>2, <1>5
<1>7. ASSUME NEW j \in 1 .. Len(s)
      PROVE  t[j] = s[j]
  <2>1. j \in Nat /\ j \in 1 .. Len(r) + 1
    BY <1>1, <1>2
  <2>2. CASE j < k
    <3>1. j \in 1 .. Len(s) - 1
      BY <1>1, <2>1, <2>2
    <3>. QED
      BY <1>2, <1>5, <2>1, <2>2, <3>1
  <2>3. CASE j = k
    BY <1>1, <1>5, <2>1, <2>3 DEF e
  <2>4. CASE j > k
    <3>1. /\ j - 1 \in 1 .. Len(s) - 1
          /\ ~(j - 1 < k)
          /\ (j - 1) + 1 = j
          /\ ~(j < k) /\ j # k
      BY <1>1, <2>1, <2>4
    <3>2. r[j - 1] = s[j]
      BY <1>2, <3>1
    <3>3. t[j] = r[j - 1]
      BY <1>5, <2>1, <3>1
    <3>. QED
      BY <3>2, <3>3
  <2>. QED
    BY <1>1, <2>1, <2>2, <2>3, <2>4
<1>8. t = s
  BY <1>5, <1>6, <1>7, SeqEqual
<1>. QED
  BY <1>8 DEF t, r, e

\* The item of a renamed node gets its new text, and moves to the place that
\* the binary search gave the node, whether the signal says it moves or not.
THEOREM RenameMovesItem ==
  ASSUME TreeShape(tree), ChildrenConsistent, ViewMirrorsTree,
         NEW n \in Below(tree), NEW title \in AnyTitle, Rename(n, title)
  PROVE  ViewMirrorsTree'
<1>. DEFINE p == tree[n].parent
            prev == IndexOf(tree, n)
            new == IndexOf(tree', n)
            moved == IF prev # new THEN OnNodeChildMoved(view, p, prev, new) ELSE view
<1>1. view' = [moved EXCEPT ![n].text = title]
  BY DEF Rename, Becomes, SetTitle, Scene, OnNodeTitleChanged
<1>2. PICK k: TitleSet(tree, p, n, title, k, tree')
  BY RenameSetsTitle
<1>3. /\ n \in DOMAIN tree
      /\ p \in DOMAIN tree
      /\ p # n
      /\ tree[p].list \in Seq(Below(tree))
  BY DEF TreeShape, Below
<1>4. /\ k \in 1 .. Len(tree[p].list)
      /\ tree[p].list[k] = n
      /\ prev = k
      /\ DOMAIN tree' = DOMAIN tree
      /\ \A m \in DOMAIN tree: m # n => tree'[m].title = tree[m].title
      /\ tree'[n].title = title
      /\ \A m \in DOMAIN tree: m # p => tree'[m].list = tree[m].list
      /\ tree'[p].list = InsertAt(RemoveAt(tree[p].list, k), new, n)
  BY <1>2 DEF TitleSet
<1>5. /\ DOMAIN view = DOMAIN tree
      /\ \A m \in DOMAIN tree: view[m] = [text |-> tree[m].title, items |-> tree[m].list]
  BY DEF ViewMirrorsTree, ShowTree
<1>. HIDE DEF p, prev, new
<1>6. /\ DOMAIN moved = DOMAIN tree
      /\ \A m \in DOMAIN tree: m # p => moved[m] = view[m]
      /\ moved[p] = [text |-> tree[p].title, items |-> tree'[p].list]
  <2>1. CASE prev # new
    <3>1. moved = [view EXCEPT ![p].items =
                     InsertAt(RemoveAt(view[p].items, k), new, view[p].items[k])]
      BY <1>4, <2>1 DEF OnNodeChildMoved
    <3>2. view[p].items = tree[p].list /\ view[p].text = tree[p].title
      BY <1>3, <1>5
    <3>3. moved = [view EXCEPT ![p].items = tree'[p].list]
      BY <1>4, <3>1, <3>2
    <3>. HIDE DEF moved
    <3>. QED
      BY <1>3, <1>5, <3>3
  <2>2. CASE prev = new
    <3>1. tree'[p].list = tree[p].list
      BY <1>3, <1>4, <2>2, PutBack
    <3>2. moved = view
      BY <2>2
    <3>. HIDE DEF moved
    <3>. QED
      BY <1>3, <1>5, <3>1, <3>2
  <2>. QED
    BY <2>1, <2>2
<1>. HIDE DEF moved
<1>7. /\ DOMAIN view' = DOMAIN tree
      /\ \A m \in DOMAIN tree: m # n => view'[m] = moved[m]
      /\ view'[n] = [moved[n] EXCEPT !.text = title]
  BY <1>1, <1>3, <1>6
<1>8. \A m \in DOMAIN tree:
        view'[m] = [text |-> tree'[m].title, items |-> tree'[m].list]
  <2>1. \A m \in DOMAIN tree \ {n, p}:
          view'[m] = [text |-> tree'[m].title, items |-> tree'[m].list]
    BY <1>4, <1>5, <1>6, <1>7
  <2>2. view'[n] = [text |-> title, items |-> tree[n].list]
    BY <1>3, <1>5, <1>6, <1>7
  <2>3. view'[p] = [text |-> tree[p].title, items |-> tree'[p].list]
    BY <1>3, <1>6, <1>7
  <2>. QED
    BY <1>3, <1>4, <2>1, <2>2, <2>3
<1>9. view' = [m \in DOMAIN tree' |-> [text |-> tree'[m].title, items |-> tree'[m].list]]
  <2>1. view' = [m \in DOMAIN view' |-> view'[m]]
    BY <1>1, <1>5, <1>6
  <2>. QED
    BY <1>4, <1>7, <1>8, <2>1
<1>. QED
  BY <1>9 DEF ViewMirrorsTree, ShowTree

(***************************************************************************)
(* A new node: PboNode::createNode.                                        *)
(***************************************************************************)

\* A new node was not there.
LEMMA FreshIsFree ==
  ASSUME NEW s, FreeNodes(s) # {}
  PROVE  FreshNode(s) \in FreeNodes(s)
<1>1. FreeNodes(s) \subseteq Nat
  BY BoundsAssumption DEF FreeNodes
<1>2. \E n \in FreeNodes(s): \A m \in FreeNodes(s): n <= m
  BY <1>1, LeastNumber
<1>. QED
  BY <1>2 DEF FreshNode

\* A node that was not there, without children, is nobody's child yet.
LEMMA NewNodeIsDetached ==
  ASSUME NEW nodes, Consistent(nodes), NEW n, n \notin DOMAIN nodes,
         n # None, n # Root, NEW p \in DOMAIN nodes,
         NEW type \in {"Folder", "File"}, NEW title \in AnyTitle,
         NEW new, new = [m \in DOMAIN nodes \union {n} |->
                           IF m = n THEN NewNode(type, title, p) ELSE nodes[m]]
  PROVE  Detached(new, n)
<1>1. /\ DOMAIN new = DOMAIN nodes \union {n}
      /\ \A m \in DOMAIN nodes: new[m] = nodes[m]
      /\ new[n] = NewNode(type, title, p)
  OBVIOUS
<1>2. /\ DOMAIN new[n] = NodeFields
      /\ new[n].type = type
      /\ new[n].title = title
      /\ new[n].parent = p
      /\ new[n].map = <<>>
      /\ new[n].list = <<>>
  BY <1>1 DEF NewNode, NodeFields
<1>3. /\ TreeShape(nodes)
      /\ \A q \in DOMAIN nodes: /\ SiblingsConsistent(nodes, q)
                                /\ InOrder(nodes, nodes[q].list)
  BY ConsistentInOrder DEF Consistent
<1>4. Below(new) = Below(nodes) \union {n}
  BY <1>1 DEF Below
<1>5. TreeShape(new)
  <2>1. ASSUME NEW m \in DOMAIN new
        PROVE  new[m].list \in Seq(Below(new))
    <3>1. CASE m = n
      <4>1. <<>> \in Seq(Below(new))
        BY EmptySeq
      <4>. QED
        BY <1>2, <3>1, <4>1
    <3>2. CASE m # n
      <4>1. new[m].list \in Seq(Below(nodes))
        BY <1>1, <1>3, <3>2 DEF TreeShape
      <4>2. Below(nodes) \subseteq Below(new)
        BY <1>4
      <4>. QED
        BY <4>1, <4>2, SeqMonotonic
    <3>. QED
      BY <3>1, <3>2
  <2>2. \A m \in DOMAIN new: /\ DOMAIN new[m] = NodeFields
                             /\ new[m].title \in AnyTitle
                             /\ new[m].parent # m
                             /\ new[m].parent \in DOMAIN new \union {None}
    BY <1>1, <1>2, <1>3 DEF TreeShape
  <2>3. \A m \in Below(new): /\ new[m].type \in {"Folder", "File"}
                             /\ new[m].parent \in DOMAIN new
    BY <1>1, <1>2, <1>3, <1>4 DEF TreeShape, Below
  <2>4. None \notin DOMAIN new
    BY <1>1, <1>3 DEF TreeShape
  <2>. QED
    BY <2>1, <2>2, <2>3, <2>4 DEF TreeShape
<1>6. ASSUME NEW q \in DOMAIN new
      PROVE  SiblingsBut(new, q, n)
  <2>1. CASE q = n
    <3>1. {m \in DOMAIN nodes: nodes[m].parent = n} = {}
      BY <1>3 DEF TreeShape
    <3>2. {m \in DOMAIN new \ {n}: new[m].parent = n} = {}
      BY <1>1, <3>1
    <3>3. ToSet(new[n].list) = {} /\ Len(new[n].list) = 0 /\ DOMAIN new[n].map = {}
      BY <1>2 DEF ToSet
    <3>4. {Key(new[m].title): m \in {}} = {}
      OBVIOUS
    <3>5. InOrder(new, new[n].list)
      BY <3>3 DEF InOrder
    <3>. QED
      BY <2>1, <3>2, <3>3, <3>4, <3>5 DEF SiblingsBut
  <2>2. CASE q # n
    <3>. DEFINE list == nodes[q].list
    <3>1. q \in DOMAIN nodes /\ new[q] = nodes[q]
      BY <1>1, <2>2
    <3>2. /\ {m \in DOMAIN nodes: nodes[m].parent = q} = ToSet(list)
          /\ DOMAIN nodes[q].map = {Key(nodes[m].title): m \in ToSet(list)}
          /\ \A m \in ToSet(list): GetChild(nodes, q, nodes[m].title) = m
          /\ InOrder(nodes, list)
      BY <1>3, <3>1 DEF SiblingsConsistent
    <3>3. list \in Seq(Below(nodes))
      BY <1>3, <3>1 DEF TreeShape
    <3>. HIDE DEF list
    <3>4. \A m \in ToSet(list): m \in DOMAIN nodes /\ new[m] = nodes[m]
      BY <1>1, <3>2
    <3>5. {m \in DOMAIN new \ {n}: new[m].parent = q} = ToSet(list)
      BY <1>1, <3>2
    <3>6. {Key(new[m].title): m \in ToSet(list)} = {Key(nodes[m].title): m \in ToSet(list)}
      BY <3>4
    <3>7. \A m \in ToSet(list): GetChild(new, q, new[m].title) = m
      BY <3>1, <3>2, <3>4 DEF GetChild, HasChild
    <3>8. InOrder(new, list)
      <4>1. \A m \in Below(nodes): new[m].type = nodes[m].type
                                   /\ new[m].title = nodes[m].title
        BY <1>1 DEF Below
      <4>. QED
        BY <3>2, <3>3, <4>1, SameOrder
    <3>9. new[q].list = list /\ DOMAIN new[q].map = {Key(new[m].title): m \in ToSet(list)}
      BY <3>1, <3>2, <3>6 DEF list
    <3>. QED
      BY <3>5, <3>7, <3>8, <3>9 DEF SiblingsBut
  <2>. QED
    BY <2>1, <2>2
<1>7. n \in Below(new)
  BY <1>4
<1>. QED
  BY <1>5, <1>6, <1>7 DEF Detached

\* A scene, as Scene(TRUE) and the operations on it make it.
IsScene(s) ==
  s = [tree |-> s.tree, view |-> s.view, emits |-> s.emits,
       changed |-> s.changed, outcome |-> s.outcome]

\* What createNode makes: one more node, which is shown if the others are.
NodeCreated(s, p, title, type, n, new) ==
  /\ IsScene(new)
  /\ new.emits = s.emits /\ new.changed = s.changed /\ new.outcome = s.outcome
  /\ n \in (1 .. MaxNodes) \ DOMAIN s.tree
  /\ DOMAIN new.tree = DOMAIN s.tree \union {n}
  /\ \A m \in DOMAIN s.tree: /\ new.tree[m].type = s.tree[m].type
                             /\ new.tree[m].title = s.tree[m].title
                             /\ new.tree[m].parent = s.tree[m].parent
  /\ new.tree[n].type = type
  /\ new.tree[n].title = title
  /\ new.tree[n].parent = p
  /\ DOMAIN new.tree[n].map = {}
  /\ Consistent(new.tree)
  /\ s.emits /\ s.view = ShowTree(s.tree) => new.view = ShowTree(new.tree)

\* A node that is created under a title whose key is free leaves the tree
\* whole, and the item that the signal makes is where the node is.
LEMMA CreatedNodeIsShown ==
  ASSUME NEW s, IsScene(s), Consistent(s.tree), FreeNodes(s) # {},
         NEW p \in DOMAIN s.tree, NEW type \in {"Folder", "File"},
         NEW title \in AnyTitle, ~HasChild(s.tree, p, title),
         NEW new, new = CreateNode(s, p, title, type)
  PROVE  NodeCreated(s, p, title, type, FreshNode(s), new)
<1>. DEFINE n == FreshNode(s)
            nodes == [m \in DOMAIN s.tree \union {n} |->
                        IF m = n THEN NewNode(type, title, p) ELSE s.tree[m]]
            added == AddChild(nodes, p, n)
            index == IndexOf(added, n)
            shown == OnNodeChildCreated(s.view, p, n, title, index)
<1>1. /\ n \in (1 .. MaxNodes) \ DOMAIN s.tree
      /\ n \notin DOMAIN s.tree
      /\ n # None
      /\ n # Root
  <2>1. n \in (1 .. MaxNodes) \ DOMAIN s.tree
    BY FreshIsFree DEF FreeNodes
  <2>. HIDE DEF n
  <2>. QED
    BY <2>1 DEF None, Root
<1>2. /\ IsScene(new)
      /\ new.emits = s.emits /\ new.changed = s.changed /\ new.outcome = s.outcome
      /\ new.tree = added
      /\ s.emits => new.view = shown
  <2>1. new = [s EXCEPT !.tree = added,
                        !.view = IF s.emits
                                 THEN OnNodeChildCreated(s.view, p, n, title, index)
                                 ELSE s.view]
    BY DEF CreateNode
  <2>. HIDE DEF n, added, index, shown
  <2>2. new = [s EXCEPT !.tree = added, !.view = IF s.emits THEN shown ELSE s.view]
    BY <2>1 DEF shown
  <2>. QED
    BY <2>2 DEF IsScene
<1>. HIDE DEF n, shown
<1>3. /\ DOMAIN nodes = DOMAIN s.tree \union {n}
      /\ \A m \in DOMAIN s.tree: nodes[m] = s.tree[m]
      /\ nodes[n] = NewNode(type, title, p)
  BY <1>1
<1>4. /\ nodes[n].type = type
      /\ nodes[n].title = title
      /\ nodes[n].parent = p
      /\ nodes[n].list = <<>>
      /\ DOMAIN nodes[n].map = {}
  BY <1>3 DEF NewNode
<1>5. Detached(nodes, n)
  BY <1>1, NewNodeIsDetached
<1>. HIDE DEF nodes
<1>6. Key(nodes[n].title) \notin DOMAIN nodes[p].map
  BY <1>3, <1>4 DEF HasChild
<1>7. /\ Consistent(added)
      /\ index = IndexFor(nodes, nodes[p].list, n)
  BY <1>4, <1>5, <1>6, AddChildKeeps
<1>8. ChildAdded(nodes, p, n, added)
  BY <1>4, <1>5, AddChildIsLocal
<1>. HIDE DEF added, index
<1>9. /\ DOMAIN added = DOMAIN s.tree \union {n}
      /\ \A m \in DOMAIN s.tree: /\ added[m].type = s.tree[m].type
                                 /\ added[m].title = s.tree[m].title
                                 /\ added[m].parent = s.tree[m].parent
                                 /\ m # p => added[m].list = s.tree[m].list
      /\ added[n].type = type
      /\ added[n].title = title
      /\ added[n].parent = p
      /\ added[n].list = <<>>
      /\ DOMAIN added[n].map = {}
      /\ added[p].list = InsertAt(s.tree[p].list, index, n)
  <2>1. /\ DOMAIN added = DOMAIN nodes
        /\ \A m \in DOMAIN nodes: /\ added[m].type = nodes[m].type
                                  /\ added[m].title = nodes[m].title
                                  /\ added[m].parent = nodes[m].parent
                                  /\ m # p => added[m] = nodes[m]
        /\ added[p].list = InsertAt(nodes[p].list, IndexFor(nodes, nodes[p].list, n), n)
    BY <1>8 DEF ChildAdded
  <2>2. n # p
    BY <1>1
  <2>. QED
    BY <1>3, <1>4, <1>7, <2>1, <2>2
<1>10. ASSUME s.view = ShowTree(s.tree)
       PROVE  shown = ShowTree(added)
  <2>1. /\ DOMAIN s.view = DOMAIN s.tree
        /\ \A m \in DOMAIN s.tree:
             s.view[m] = [text |-> s.tree[m].title, items |-> s.tree[m].list]
    BY <1>10 DEF ShowTree
  <2>2. /\ DOMAIN shown = DOMAIN s.view \union {n}
        /\ shown[n] = [text |-> title, items |-> <<>>]
        /\ shown[p] = [s.view[p] EXCEPT !.items = InsertAt(s.view[p].items, index, n)]
        /\ \A m \in DOMAIN s.view: m # p => shown[m] = s.view[m]
    BY <1>1, <2>1 DEF shown, OnNodeChildCreated, NewItem
  <2>3. /\ s.view[p].items = s.tree[p].list
        /\ s.view[p] = [text |-> s.tree[p].title, items |-> s.tree[p].list]
    BY <2>1
  <2>4. shown = [m \in DOMAIN shown |-> shown[m]]
    BY DEF shown, OnNodeChildCreated
  <2>5. /\ DOMAIN shown = DOMAIN added
        /\ shown[p] = [text |-> s.tree[p].title, items |-> added[p].list]
    BY <1>9, <2>1, <2>2, <2>3
  <2>6. \A m \in DOMAIN added: shown[m] = [text |-> added[m].title, items |-> added[m].list]
    BY <1>9, <2>1, <2>2, <2>5
  <2>. QED
    BY <2>4, <2>5, <2>6 DEF ShowTree
<1>11. NodeCreated(s, p, title, type, n, new)
  BY <1>1, <1>2, <1>7, <1>9, <1>10 DEF NodeCreated
<1>. QED
  BY <1>11 DEF n

(***************************************************************************)
(* What is below a node.                                                   *)
(***************************************************************************)

\* A node is reached from itself.
LEMMA ReachedHasStart ==
  ASSUME NEW n, NEW links
  PROVE  n \in Reached(n, links)
BY DEF Reached

\* No link leaves what is reached.
LEMMA ReachedIsClosed ==
  ASSUME NEW n, NEW links
  PROVE  Closed(Reached(n, links), links)
<1>. DEFINE all == {n} \union {link[2]: link \in links}
<1>. SUFFICES ASSUME NEW link \in links, link[1] \in Reached(n, links)
              PROVE  link[2] \in Reached(n, links)
  BY DEF Closed
<1>1. link[2] \in all
  OBVIOUS
<1>2. ASSUME NEW S \in SUBSET all, n \in S, Closed(S, links)
      PROVE  link[2] \in S
  <2>1. link[1] \in S
    BY <1>2 DEF Reached
  <2>. QED
    BY <1>2, <2>1 DEF Closed
<1>. QED
  BY <1>1, <1>2 DEF Reached

\* A set with the start that no link leaves has all that is reached.
LEMMA ReachedIsLeast ==
  ASSUME NEW n, NEW links, NEW T, n \in T, Closed(T, links)
  PROVE  Reached(n, links) \subseteq T
<1>. DEFINE all == {n} \union {link[2]: link \in links}
            S == T \cap all
<1>1. S \in SUBSET all /\ n \in S
  OBVIOUS
<1>2. Closed(S, links)
  BY DEF Closed
<1>3. \A m \in Reached(n, links): m \in S
  BY <1>1, <1>2 DEF Reached
<1>. QED
  BY <1>3

\* Nothing is reached but the start and the ends of links from what is reached.
LEMMA ReachedHasSource ==
  ASSUME NEW n, NEW links, NEW m \in Reached(n, links), m # n
  PROVE  \E link \in links: link[1] \in Reached(n, links) /\ link[2] = m
<1>. DEFINE R == Reached(n, links)
            T == R \ {m}
<1>. SUFFICES ASSUME \A link \in links: link[1] \in R => link[2] # m
              PROVE  FALSE
  OBVIOUS
<1>1. n \in R /\ Closed(R, links)
  BY ReachedHasStart, ReachedIsClosed
<1>. HIDE DEF R
<1>2. n \in T /\ Closed(T, links)
  BY <1>1 DEF Closed
<1>. HIDE DEF T
<1>3. R \subseteq T
  BY <1>2, ReachedIsLeast DEF R
<1>. QED
  BY <1>3 DEF T, R

\* The links from parents to children.
ChildLinks(nodes) == {<<nodes[m].parent, m>>: m \in Below(nodes)}

\* A set of nodes that has, with a node, its children.
HasChildrenOf(T, nodes) == \A m \in Below(nodes): nodes[m].parent \in T => m \in T

\* No link to a child leaves such a set, and no other set is like that.
LEMMA ChildLinksClosed ==
  ASSUME NEW T, NEW nodes
  PROVE  Closed(T, ChildLinks(nodes)) <=> HasChildrenOf(T, nodes)
<1>1. ASSUME Closed(T, ChildLinks(nodes)), NEW m \in Below(nodes),
             nodes[m].parent \in T
      PROVE  m \in T
  <2>. DEFINE link == <<nodes[m].parent, m>>
  <2>1. link \in ChildLinks(nodes) /\ link[1] = nodes[m].parent /\ link[2] = m
    BY DEF ChildLinks
  <2>. QED
    BY <1>1, <2>1 DEF Closed
<1>2. ASSUME HasChildrenOf(T, nodes), NEW link \in ChildLinks(nodes), link[1] \in T
      PROVE  link[2] \in T
  <2>1. PICK m \in Below(nodes): link = <<nodes[m].parent, m>>
    BY DEF ChildLinks
  <2>. QED
    BY <1>2, <2>1 DEF HasChildrenOf
<1>. QED
  BY <1>1, <1>2 DEF Closed, HasChildrenOf

\* A node is below itself, and so are the children of what is below it.
LEMMA BelowItself ==
  ASSUME NEW nodes, NEW n
  PROVE  /\ n \in NodesBelow(nodes, n)
         /\ HasChildrenOf(NodesBelow(nodes, n), nodes)
<1>1. NodesBelow(nodes, n) = Reached(n, ChildLinks(nodes))
  BY DEF NodesBelow, ChildLinks, Below
<1>. QED
  BY <1>1, ReachedHasStart, ReachedIsClosed, ChildLinksClosed

\* A set with a node and the children of its members has all that is below.
LEMMA BelowIsLeast ==
  ASSUME NEW nodes, NEW n, NEW T, n \in T, HasChildrenOf(T, nodes)
  PROVE  NodesBelow(nodes, n) \subseteq T
<1>1. NodesBelow(nodes, n) = Reached(n, ChildLinks(nodes))
  BY DEF NodesBelow, ChildLinks, Below
<1>. QED
  BY <1>1, ReachedIsLeast, ChildLinksClosed

\* What is below a node and not the node itself has its parent there.
LEMMA ParentIsBelow ==
  ASSUME NEW nodes, NEW n, NEW m \in NodesBelow(nodes, n), m # n
  PROVE  m \in Below(nodes) /\ nodes[m].parent \in NodesBelow(nodes, n)
<1>1. NodesBelow(nodes, n) = Reached(n, ChildLinks(nodes))
  BY DEF NodesBelow, ChildLinks, Below
<1>2. PICK link \in ChildLinks(nodes):
        link[1] \in Reached(n, ChildLinks(nodes)) /\ link[2] = m
  BY <1>1, ReachedHasSource
<1>3. PICK k \in Below(nodes): link = <<nodes[k].parent, k>>
  BY DEF ChildLinks
<1>. QED
  BY <1>1, <1>2, <1>3

\* What is below what is below a node.
LEMMA BelowIsTransitive ==
  ASSUME NEW nodes, NEW n, NEW m \in NodesBelow(nodes, n)
  PROVE  NodesBelow(nodes, m) \subseteq NodesBelow(nodes, n)
BY BelowItself, BelowIsLeast

(***************************************************************************)
(* A tree: every node is below the root.                                   *)
(***************************************************************************)

Rooted(nodes) == NodesBelow(nodes, Root) = DOMAIN nodes

\* A node is below none of its children.
LEMMA ParentIsNotBelow ==
  ASSUME NEW nodes, Rooted(nodes), NEW n \in Below(nodes)
  PROVE  /\ Root \notin NodesBelow(nodes, n)
         /\ NodesBelow(nodes, n) \subseteq Below(nodes)
         /\ nodes[n].parent \notin NodesBelow(nodes, n)
<1>. DEFINE C == NodesBelow(nodes, n)
            X == DOMAIN nodes \ C
<1>1. C \subseteq Below(nodes)
  <2>1. HasChildrenOf(Below(nodes), nodes)
    BY DEF HasChildrenOf
  <2>. QED
    BY <2>1, BelowIsLeast
<1>2. Root \notin C /\ Root \in DOMAIN nodes
  BY <1>1, BelowItself DEF Below, Rooted
<1>3. n \in C /\ HasChildrenOf(C, nodes)
  BY BelowItself
<1>4. \A m \in C: m # n => nodes[m].parent \in C
  BY ParentIsBelow
<1>5. NodesBelow(nodes, Root) = DOMAIN nodes
  BY DEF Rooted
<1>6. ASSUME nodes[n].parent \in C
      PROVE  FALSE
  <2>1. HasChildrenOf(X, nodes)
    BY <1>4, <1>6 DEF HasChildrenOf, Below
  <2>2. Root \in X
    BY <1>2
  <2>3. NodesBelow(nodes, Root) \subseteq X
    BY <2>1, <2>2, BelowIsLeast
  <2>. QED
    BY <1>3, <1>5, <2>3 DEF Below
<1>. QED
  BY <1>1, <1>2, <1>6

(***************************************************************************)
(* Children and their keys.                                                *)
(***************************************************************************)

\* A list is a list of whatever has its members.
LEMMA SeqOfMembers ==
  ASSUME NEW S, NEW list \in Seq(S), NEW T, ToSet(list) \subseteq T
  PROVE  list \in Seq(T)
<1>1. /\ Len(list) \in Nat
      /\ list \in [1 .. Len(list) -> S]
      /\ DOMAIN list = 1 .. Len(list)
  BY LenProperties
<1>2. \A i \in 1 .. Len(list): list[i] \in T
  BY <1>1 DEF ToSet
<1>3. list \in [1 .. Len(list) -> T]
  BY <1>1, <1>2
<1>. QED
  BY <1>1, <1>3

\* Who is found under a title is the child that has its key, and the only one.
LEMMA ChildOfKey ==
  ASSUME NEW nodes, Consistent(nodes), NEW p \in DOMAIN nodes, NEW title
  PROVE  /\ GetChild(nodes, p, title) # None =>
              /\ HasChild(nodes, p, title)
              /\ GetChild(nodes, p, title) \in Below(nodes)
              /\ nodes[GetChild(nodes, p, title)].parent = p
              /\ Key(nodes[GetChild(nodes, p, title)].title) = Key(title)
         /\ \A m \in Below(nodes):
              nodes[m].parent = p /\ Key(nodes[m].title) = Key(title)
                => GetChild(nodes, p, title) = m /\ HasChild(nodes, p, title)
<1>1. /\ SiblingsConsistent(nodes, p)
      /\ nodes[p].list \in Seq(Below(nodes))
  BY DEF Consistent, TreeShape
<1>2. ToSet(nodes[p].list) \subseteq Below(nodes)
  <2>. SUFFICES ASSUME NEW m \in ToSet(nodes[p].list)
                PROVE  m \in Below(nodes)
    OBVIOUS
  <2>1. PICK i \in DOMAIN nodes[p].list: m = nodes[p].list[i]
    BY DEF ToSet
  <2>. QED
    BY <1>1, <2>1, ElementOfSeq, LenProperties
<1>3. /\ {m \in DOMAIN nodes: nodes[m].parent = p} = ToSet(nodes[p].list)
      /\ DOMAIN nodes[p].map = {Key(nodes[m].title): m \in ToSet(nodes[p].list)}
      /\ \A m \in ToSet(nodes[p].list): GetChild(nodes, p, nodes[m].title) = m
  BY <1>1 DEF SiblingsConsistent
<1>4. \A m \in ToSet(nodes[p].list):
        /\ Key(nodes[m].title) \in DOMAIN nodes[p].map
        /\ nodes[p].map[Key(nodes[m].title)] = m
  BY <1>3 DEF GetChild, HasChild
<1>5. ASSUME GetChild(nodes, p, title) # None
      PROVE  /\ HasChild(nodes, p, title)
             /\ GetChild(nodes, p, title) \in Below(nodes)
             /\ nodes[GetChild(nodes, p, title)].parent = p
             /\ Key(nodes[GetChild(nodes, p, title)].title) = Key(title)
  <2>1. HasChild(nodes, p, title) /\ GetChild(nodes, p, title) = nodes[p].map[Key(title)]
    BY <1>5 DEF GetChild
  <2>2. PICK m \in ToSet(nodes[p].list): Key(nodes[m].title) = Key(title)
    BY <1>3, <2>1 DEF HasChild
  <2>3. GetChild(nodes, p, title) = m
    BY <1>4, <2>1, <2>2
  <2>. QED
    BY <1>2, <1>3, <2>1, <2>2, <2>3
<1>6. ASSUME NEW m \in Below(nodes), nodes[m].parent = p, Key(nodes[m].title) = Key(title)
      PROVE  GetChild(nodes, p, title) = m /\ HasChild(nodes, p, title)
  <2>1. m \in ToSet(nodes[p].list)
    BY <1>3, <1>6 DEF Below
  <2>. QED
    BY <1>4, <1>6, <2>1 DEF GetChild, HasChild
<1>. QED
  BY <1>5, <1>6

\* Who is a child by the map is found by the map.
LEMMA ChildIsFound ==
  ASSUME NEW nodes, Consistent(nodes), NEW p \in DOMAIN nodes, NEW title,
         HasChild(nodes, p, title)
  PROVE  GetChild(nodes, p, title) # None
<1>1. /\ SiblingsConsistent(nodes, p)
      /\ None \notin DOMAIN nodes
  BY DEF Consistent, TreeShape
<1>2. PICK m \in ToSet(nodes[p].list): Key(nodes[m].title) = Key(title)
  BY <1>1 DEF SiblingsConsistent, HasChild
<1>3. m \in DOMAIN nodes
  BY <1>1 DEF SiblingsConsistent
<1>4. GetChild(nodes, p, title) = m
  BY <1>1, <1>2 DEF SiblingsConsistent, GetChild, HasChild
<1>. QED
  BY <1>1, <1>3, <1>4

\* A folder is empty when nobody is its child.
LEMMA ListOfChildren ==
  ASSUME NEW nodes, Consistent(nodes), NEW p \in DOMAIN nodes
  PROVE  nodes[p].list = <<>> <=> \A m \in DOMAIN nodes: nodes[m].parent # p
<1>1. /\ {m \in DOMAIN nodes: nodes[m].parent = p} = ToSet(nodes[p].list)
      /\ nodes[p].list \in Seq(Below(nodes))
  BY DEF Consistent, TreeShape, SiblingsConsistent
<1>2. nodes[p].list = <<>> <=> ToSet(nodes[p].list) = {}
  <2>. DEFINE list == nodes[p].list
  <2>1. list \in Seq(Below(nodes)) /\ Len(list) \in Nat /\ DOMAIN list = 1 .. Len(list)
    BY <1>1, LenProperties
  <2>. HIDE DEF list
  <2>2. ASSUME list # <<>>
        PROVE  ToSet(list) # {}
    <3>1. 1 \in DOMAIN list
      BY <2>1, <2>2, EmptySeq
    <3>. QED
      BY <3>1 DEF ToSet
  <2>3. ASSUME list = <<>>
        PROVE  ToSet(list) = {}
    BY <2>3 DEF ToSet
  <2>4. list = <<>> <=> ToSet(list) = {}
    BY <2>2, <2>3
  <2>. QED
    BY <2>4 DEF list
<1>. QED
  BY <1>1, <1>2

(***************************************************************************)
(* A node that goes with what is below it: PboNode::removeNode.            *)
(***************************************************************************)

\* The links of the items are those of the nodes they show.
LEMMA ItemsFollowLinks ==
  ASSUME NEW nodes, Consistent(nodes), NEW n
  PROVE  ItemsBelow(ShowTree(nodes), n) = NodesBelow(nodes, n)
<1>. DEFINE shown == ShowTree(nodes)
            links == UNION {{m} \X ToSet(shown[m].items): m \in DOMAIN shown}
<1>1. DOMAIN shown = DOMAIN nodes /\ \A m \in DOMAIN nodes: shown[m].items = nodes[m].list
  BY DEF ShowTree
<1>2. \A m \in DOMAIN nodes:
        /\ ToSet(nodes[m].list) = {k \in DOMAIN nodes: nodes[k].parent = m}
        /\ ToSet(nodes[m].list) \subseteq Below(nodes)
  <2>. SUFFICES ASSUME NEW m \in DOMAIN nodes
                PROVE  /\ ToSet(nodes[m].list) = {k \in DOMAIN nodes: nodes[k].parent = m}
                       /\ ToSet(nodes[m].list) \subseteq Below(nodes)
    OBVIOUS
  <2>1. /\ ToSet(nodes[m].list) = {k \in DOMAIN nodes: nodes[k].parent = m}
        /\ nodes[m].list \in Seq(Below(nodes))
    BY DEF Consistent, TreeShape, SiblingsConsistent
  <2>2. \A i \in DOMAIN nodes[m].list: nodes[m].list[i] \in Below(nodes)
    BY <2>1, ElementOfSeq, LenProperties
  <2>. QED
    BY <2>1, <2>2 DEF ToSet
<1>3. \A m \in Below(nodes): nodes[m].parent \in DOMAIN nodes /\ m \in DOMAIN nodes
  BY DEF Consistent, TreeShape, Below
<1>. HIDE DEF shown
<1>4. links \subseteq ChildLinks(nodes)
  <2>. SUFFICES ASSUME NEW m \in DOMAIN shown, NEW k \in ToSet(shown[m].items)
                PROVE  <<m, k>> \in ChildLinks(nodes)
    OBVIOUS
  <2>1. k \in Below(nodes) /\ nodes[k].parent = m
    BY <1>1, <1>2
  <2>. QED
    BY <2>1 DEF ChildLinks
<1>5. ChildLinks(nodes) \subseteq links
  <2>. SUFFICES ASSUME NEW k \in Below(nodes)
                PROVE  <<nodes[k].parent, k>> \in links
    BY DEF ChildLinks
  <2>. DEFINE m == nodes[k].parent
  <2>1. m \in DOMAIN shown /\ k \in ToSet(shown[m].items)
    BY <1>1, <1>2, <1>3
  <2>. HIDE DEF m
  <2>2. <<m, k>> \in {m} \X ToSet(shown[m].items)
    BY <2>1
  <2>3. <<m, k>> \in links
    BY <2>1, <2>2
  <2>. QED
    BY <2>3 DEF m
<1>6. links = ChildLinks(nodes)
  BY <1>4, <1>5
<1>7. ItemsBelow(shown, n) = Reached(n, links)
  BY DEF ItemsBelow
<1>8. NodesBelow(nodes, n) = Reached(n, ChildLinks(nodes))
  BY DEF NodesBelow, ChildLinks, Below
<1>. HIDE DEF links
<1>. QED
  BY <1>6, <1>7, <1>8 DEF shown

\* The nodes that are left when D goes.
LeftOver(nodes, D, new) ==
  /\ DOMAIN new = DOMAIN nodes \ D
  /\ \A m \in DOMAIN new: /\ new[m].type = nodes[m].type
                          /\ new[m].title = nodes[m].title
                          /\ new[m].parent = nodes[m].parent

\* What was below a node and has not gone is still below it.
LEMMA StillBelow ==
  ASSUME NEW nodes, NEW D, HasChildrenOf(D, nodes), NEW new,
         LeftOver(nodes, D, new), NEW n
  PROVE  NodesBelow(nodes, n) \subseteq NodesBelow(new, n) \union D
<1>. DEFINE T == NodesBelow(new, n) \union D
<1>1. n \in NodesBelow(new, n) /\ HasChildrenOf(NodesBelow(new, n), new)
  BY BelowItself
<1>2. HasChildrenOf(T, nodes)
  BY <1>1 DEF HasChildrenOf, LeftOver, Below
<1>3. n \in T
  BY <1>1
<1>. HIDE DEF T
<1>4. NodesBelow(nodes, n) \subseteq T
  BY <1>2, <1>3, BelowIsLeast
<1>. QED
  BY <1>4 DEF T

\* And nothing comes there.
LEMMA NothingNewBelow ==
  ASSUME NEW nodes, NEW D, NEW new, LeftOver(nodes, D, new), NEW n
  PROVE  NodesBelow(new, n) \subseteq NodesBelow(nodes, n)
<1>1. n \in NodesBelow(nodes, n) /\ HasChildrenOf(NodesBelow(nodes, n), nodes)
  BY BelowItself
<1>2. HasChildrenOf(NodesBelow(nodes, n), new)
  BY <1>1 DEF HasChildrenOf, LeftOver, Below
<1>. QED
  BY <1>1, <1>2, BelowIsLeast

\* A tree without a subtree is a tree.
LEMMA LeftOverRooted ==
  ASSUME NEW nodes, Rooted(nodes), NEW D, HasChildrenOf(D, nodes), Root \notin D,
         NEW new, LeftOver(nodes, D, new)
  PROVE  Rooted(new)
<1>1. NodesBelow(nodes, Root) = DOMAIN nodes
  BY DEF Rooted
<1>2. DOMAIN new \subseteq NodesBelow(new, Root)
  BY <1>1, StillBelow DEF LeftOver
<1>3. Root \in DOMAIN new
  BY <1>1, BelowItself DEF LeftOver
<1>4. NodesBelow(new, Root) \subseteq DOMAIN new
  BY <1>3, ParentIsBelow DEF Below
<1>. QED
  BY <1>2, <1>4 DEF Rooted

\* A detached node may go with what is below it.
LEMMA DetachedMayGo ==
  ASSUME NEW nodes, NEW n, Detached(nodes, n), NEW D, n \in D, D \subseteq Below(nodes),
         HasChildrenOf(D, nodes), \A m \in D: m # n => nodes[m].parent \in D,
         NEW new, new = Without(nodes, D)
  PROVE  Consistent(new) /\ LeftOver(nodes, D, new)
<1>1. /\ DOMAIN new = DOMAIN nodes \ D
      /\ \A m \in DOMAIN new: new[m] = nodes[m]
  BY DEF Without
<1>2. LeftOver(nodes, D, new)
  BY <1>1 DEF LeftOver
<1>3. /\ TreeShape(nodes)
      /\ \A q \in DOMAIN nodes: SiblingsBut(nodes, q, n)
  BY DEF Detached
<1>4. Below(new) = Below(nodes) \ D
  BY <1>1 DEF Below
<1>5. \A m \in Below(nodes): nodes[m].parent \in D => m \in D
  BY DEF HasChildrenOf
<1>6. ASSUME NEW q \in DOMAIN new
      PROVE  /\ {m \in DOMAIN new: new[m].parent = q} = ToSet(nodes[q].list)
             /\ nodes[q].list \in Seq(Below(nodes))
             /\ nodes[q].list \in Seq(Below(new))
             /\ q \in DOMAIN nodes
             /\ new[q] = nodes[q]
  <2>1. /\ q \in DOMAIN nodes /\ q \notin D /\ new[q] = nodes[q]
        /\ nodes[q].list \in Seq(Below(nodes))
    BY <1>1, <1>3 DEF TreeShape
  <2>2. {m \in DOMAIN nodes \ {n}: nodes[m].parent = q} = ToSet(nodes[q].list)
    BY <1>3, <2>1 DEF SiblingsBut
  <2>3. \A m \in DOMAIN nodes \ {n}: nodes[m].parent = q => m \in DOMAIN new
    BY <1>1, <2>1
  <2>4. {m \in DOMAIN new: new[m].parent = q} = ToSet(nodes[q].list)
    BY <1>1, <2>2, <2>3
  <2>5. ToSet(nodes[q].list) \subseteq Below(nodes)
    <3>1. \A i \in DOMAIN nodes[q].list: nodes[q].list[i] \in Below(nodes)
      BY <2>1, ElementOfSeq, LenProperties
    <3>. QED
      BY <3>1 DEF ToSet
  <2>6. ToSet(nodes[q].list) \subseteq Below(new)
    BY <1>1, <1>4, <2>4, <2>5
  <2>7. nodes[q].list \in Seq(Below(new))
    BY <2>1, <2>6, SeqOfMembers
  <2>. QED
    BY <2>1, <2>4, <2>7
<1>7. TreeShape(new)
  <2>1. \A m \in DOMAIN new: new[m].list \in Seq(Below(new))
    BY <1>6
  <2>2. \A m \in DOMAIN new: /\ DOMAIN new[m] = NodeFields
                             /\ new[m].title \in AnyTitle
                             /\ new[m].parent # m
    BY <1>1, <1>3 DEF TreeShape
  <2>3. \A m \in Below(new): /\ new[m].type \in {"Folder", "File"}
                             /\ new[m].parent \in DOMAIN new
    <3>. SUFFICES ASSUME NEW m \in Below(new)
                  PROVE  /\ new[m].type \in {"Folder", "File"}
                         /\ new[m].parent \in DOMAIN new
      OBVIOUS
    <3>1. m \in Below(nodes) /\ m \notin D /\ new[m] = nodes[m]
      BY <1>1, <1>4 DEF Below
    <3>2. nodes[m].type \in {"Folder", "File"} /\ nodes[m].parent \in DOMAIN nodes
      BY <1>3, <3>1 DEF TreeShape
    <3>3. nodes[m].parent \notin D
      BY <1>5, <3>1
    <3>. QED
      BY <1>1, <3>1, <3>2, <3>3
  <2>4. \A m \in DOMAIN new: new[m].parent \in DOMAIN new \union {None}
    <3>. SUFFICES ASSUME NEW m \in DOMAIN new, m = Root
                  PROVE  new[m].parent \in DOMAIN new \union {None}
      BY <2>3 DEF Below
    <3>1. /\ m \in DOMAIN nodes /\ new[m] = nodes[m]
          /\ nodes[m].parent \in DOMAIN nodes \union {None}
      BY <1>1, <1>3 DEF TreeShape
    <3>2. ASSUME nodes[m].parent \in DOMAIN nodes
          PROVE  nodes[m].parent \notin D
      <4>1. m # n
        BY DEF Below
      <4>2. m \in ToSet(nodes[nodes[m].parent].list)
        BY <1>3, <3>1, <3>2, <4>1 DEF SiblingsBut
      <4>3. nodes[nodes[m].parent].list \in Seq(Below(nodes))
        BY <1>3, <3>2 DEF TreeShape
      <4>4. m \in Below(nodes)
        BY <4>2, <4>3, ElementOfSeq, LenProperties DEF ToSet
      <4>. QED
        BY <4>4 DEF Below
    <3>. QED
      BY <1>1, <3>1, <3>2
  <2>5. None \notin DOMAIN new
    BY <1>1, <1>3 DEF TreeShape
  <2>. QED
    BY <2>1, <2>2, <2>3, <2>4, <2>5 DEF TreeShape
<1>8. ASSUME NEW q \in DOMAIN new
      PROVE  SiblingsConsistent(new, q)
  <2>. DEFINE list == nodes[q].list
  <2>1. /\ {m \in DOMAIN new: new[m].parent = q} = ToSet(list)
        /\ list \in Seq(Below(nodes))
        /\ q \in DOMAIN nodes
        /\ new[q] = nodes[q]
    BY <1>6
  <2>2. /\ DOMAIN nodes[q].map = {Key(nodes[m].title): m \in ToSet(list)}
        /\ \A m \in ToSet(list): GetChild(nodes, q, nodes[m].title) = m
        /\ InOrder(nodes, list)
    BY <1>3, <2>1 DEF SiblingsBut
  <2>3. new[q].list = list
    BY <2>1
  <2>. HIDE DEF list
  <2>4. \A m \in ToSet(list): new[m] = nodes[m]
    BY <1>1, <2>1
  <2>5. {Key(new[m].title): m \in ToSet(list)} = {Key(nodes[m].title): m \in ToSet(list)}
    BY <2>4
  <2>6. \A m \in ToSet(list): GetChild(new, q, new[m].title) = m
    BY <2>1, <2>2, <2>4 DEF GetChild, HasChild
  <2>7. ASSUME NEW i \in 1 .. Len(list) - 1
        PROVE  Less(new[list[i]], new[list[i + 1]])
    <3>1. Len(list) \in Nat /\ DOMAIN list = 1 .. Len(list)
      BY <2>1, LenProperties
    <3>2. i \in 1 .. Len(list) /\ i + 1 \in 1 .. Len(list) /\ i < i + 1
      BY <3>1
    <3>3. list[i] \in ToSet(list) /\ list[i + 1] \in ToSet(list)
      BY <3>1, <3>2 DEF ToSet
    <3>4. Less(nodes[list[i]], nodes[list[i + 1]])
      BY <2>2, <3>2 DEF InOrder
    <3>. QED
      BY <2>4, <3>3, <3>4
  <2>. QED
    BY <2>1, <2>2, <2>3, <2>5, <2>6, <2>7 DEF SiblingsConsistent
<1>. QED
  BY <1>2, <1>7, <1>8 DEF Consistent

\* What removeNode leaves, in the tree and among the items.
NodeRemoved(s, n, new) ==
  /\ IsScene(new)
  /\ new.emits = s.emits /\ new.changed = s.changed /\ new.outcome = s.outcome
  /\ LeftOver(s.tree, NodesBelow(s.tree, n), new.tree)
  /\ Consistent(new.tree)
  /\ Rooted(new.tree)
  /\ s.emits /\ s.view = ShowTree(s.tree) => new.view = ShowTree(new.tree)

\* removeNode takes the node, what is below it, and their items.
LEMMA RemovedNodeIsGone ==
  ASSUME NEW s, IsScene(s), Consistent(s.tree), Rooted(s.tree),
         NEW n \in Below(s.tree), NEW new, new = RemoveNode(s, n)
  PROVE  NodeRemoved(s, n, new)
<1>. DEFINE nodes == s.tree
            p == nodes[n].parent
            D == NodesBelow(nodes, n)
            removed == RemoveChild(nodes, p, n)
            left == Without(removed, D)
            index == IndexOf(nodes, n)
            shown == OnNodeChildRemoved(s.view, p, index)
<1>1. /\ IsScene(new)
      /\ new.emits = s.emits /\ new.changed = s.changed /\ new.outcome = s.outcome
      /\ new.tree = left
      /\ s.emits => new.view = shown
  <2>1. new = [s EXCEPT !.tree = left, !.view = IF s.emits THEN shown ELSE s.view]
    BY DEF RemoveNode
  <2>. HIDE DEF left, shown
  <2>. QED
    BY <2>1 DEF IsScene
<1>2. PICK k: ChildRemoved(nodes, p, n, k, removed)
  BY RemoveChildIsLocal
<1>3. Detached(removed, n)
  BY <1>2, RemoveChildDetaches
<1>. HIDE DEF removed
<1>4. /\ p \in DOMAIN nodes
      /\ k \in 1 .. Len(nodes[p].list)
      /\ nodes[p].list[k] = n
      /\ IndexFor(nodes, nodes[p].list, n) = k
      /\ DOMAIN removed = DOMAIN nodes
      /\ \A m \in DOMAIN nodes: /\ removed[m].type = nodes[m].type
                                /\ removed[m].title = nodes[m].title
                                /\ removed[m].parent = nodes[m].parent
                                /\ m # p => removed[m] = nodes[m]
      /\ removed[p].list = RemoveAt(nodes[p].list, k)
  BY <1>2 DEF ChildRemoved
<1>5. /\ n \in D /\ HasChildrenOf(D, nodes)
      /\ Root \notin D /\ D \subseteq Below(nodes) /\ p \notin D
      /\ \A m \in D: m # n => nodes[m].parent \in D
  BY BelowItself, ParentIsNotBelow, ParentIsBelow
<1>. HIDE DEF D
<1>6. /\ Below(removed) = Below(nodes)
      /\ HasChildrenOf(D, removed)
      /\ \A m \in D: m # n => removed[m].parent \in D
  BY <1>4, <1>5 DEF Below, HasChildrenOf
<1>7. Consistent(left) /\ LeftOver(removed, D, left)
  BY <1>3, <1>5, <1>6, DetachedMayGo
<1>8. LeftOver(nodes, D, left)
  BY <1>4, <1>7 DEF LeftOver
<1>9. Rooted(left)
  BY <1>5, <1>8, LeftOverRooted
<1>10. ASSUME s.view = ShowTree(nodes)
       PROVE  shown = ShowTree(left)
  <2>1. /\ DOMAIN s.view = DOMAIN nodes
        /\ \A m \in DOMAIN nodes:
             s.view[m] = [text |-> nodes[m].title, items |-> nodes[m].list]
    BY <1>10 DEF ShowTree
  <2>2. index = k
    BY <1>4 DEF IndexOf
  <2>3. ItemsBelow(s.view, n) = D
    BY <1>10, ItemsFollowLinks DEF D
  <2>4. /\ p \in DOMAIN nodes
        /\ nodes[p].list[k] = n
        /\ \A m \in DOMAIN nodes: /\ removed[m].title = nodes[m].title
                                  /\ m # p => removed[m].list = nodes[m].list
        /\ removed[p].list = RemoveAt(nodes[p].list, k)
    BY <1>4
  <2>5. DOMAIN left = DOMAIN nodes \ D /\ \A m \in DOMAIN left: left[m] = removed[m]
    BY <1>4 DEF Without, left
  <2>. HIDE DEF p, nodes, index, left
  <2>6. s.view[p] = [text |-> nodes[p].title, items |-> nodes[p].list]
    BY <2>1, <2>4
  <2>7. s.view[p].items = nodes[p].list /\ s.view[p].items[k] = n
    BY <2>4, <2>6
  <2>. DEFINE without == [s.view EXCEPT ![p].items = RemoveAt(@, k)]
  <2>8. shown = Without(without, D)
    BY <2>2, <2>3, <2>7 DEF OnNodeChildRemoved, shown
  <2>9. /\ DOMAIN without = DOMAIN nodes
        /\ \A m \in DOMAIN nodes: m # p => without[m] = s.view[m]
        /\ without[p] = [text |-> nodes[p].title, items |-> RemoveAt(nodes[p].list, k)]
    BY <2>1, <2>4, <2>6
  <2>. HIDE DEF without, shown
  <2>10. ASSUME NEW m \in DOMAIN left
         PROVE  without[m] = [text |-> left[m].title, items |-> left[m].list]
    <3>1. m \in DOMAIN nodes /\ left[m] = removed[m]
      BY <2>5
    <3>2. CASE m = p
      BY <2>4, <2>9, <3>1, <3>2
    <3>3. CASE m # p
      BY <2>1, <2>4, <2>9, <3>1, <3>3
    <3>. QED
      BY <3>2, <3>3
  <2>11. shown = [m \in DOMAIN left |-> without[m]]
    BY <2>5, <2>8, <2>9 DEF Without
  <2>. QED
    BY <2>10, <2>11 DEF ShowTree
<1>11. LeftOver(nodes, NodesBelow(nodes, n), left)
  BY <1>8 DEF D
<1>. HIDE DEF left, shown
<1>. QED
  BY <1>1, <1>7, <1>9, <1>10, <1>11 DEF NodeRemoved

(***************************************************************************)
(* What a scene keeps from one operation to the next.                      *)
(***************************************************************************)

Typed(nodes) ==
  /\ DOMAIN nodes \subseteq 0 .. MaxNodes
  /\ \A n \in DOMAIN nodes: /\ nodes[n].type = "Container" <=> n = Root
                            /\ nodes[n].title \in AllTitles

FilesAreLeaves(nodes) ==
  \A m \in Below(nodes): nodes[nodes[m].parent].type # "File"

Whole(nodes) ==
  Consistent(nodes) /\ Rooted(nodes) /\ Typed(nodes) /\ FilesAreLeaves(nodes)

GoodScene(s) ==
  /\ IsScene(s)
  /\ Whole(s.tree)
  /\ s.emits => s.view = ShowTree(s.tree)
  /\ s.changed \in BOOLEAN

EmptyFolders(nodes) ==
  {n \in DOMAIN nodes: /\ nodes[n].type = "Folder"
                       /\ \A m \in DOMAIN nodes: nodes[m].parent # n}

\* Titles with and without a number.
LEMMA CopiesAreTitles ==
  ASSUME NEW t \in Titles, NEW k \in Nat
  PROVE  /\ CopyTitle(t, k) \in AnyTitle
         /\ CopyTitle(t, k).copy = k
         /\ k <= MaxCopy => CopyTitle(t, k) \in AllTitles
         /\ t = CopyTitle(t, 0)
<1>1. /\ t = [lower |-> t.lower, name |-> t.name, copy |-> 0]
      /\ t.lower \in Nat /\ t.name \in Nat
  BY TitlesAssumption DEF Title
<1>2. CopyTitle(t, k) = [lower |-> t.lower, name |-> t.name, copy |-> k]
  BY <1>1 DEF CopyTitle
<1>3. t = CopyTitle(t, 0)
  BY <1>1 DEF CopyTitle
<1>4. CopyTitle(t, k) \in AnyTitle /\ CopyTitle(t, k).copy = k
  BY <1>1, <1>2 DEF AnyTitle
<1>5. ASSUME k <= MaxCopy
      PROVE  CopyTitle(t, k) \in AllTitles
  BY <1>5, BoundsAssumption DEF AllTitles
<1>. QED
  BY <1>3, <1>4, <1>5

\* Titles in a tree are titles, and have no number above the bound.
LEMMA AllTitlesAreTitles ==
  ASSUME NEW t \in AllTitles
  PROVE  t \in AnyTitle /\ t.copy <= MaxCopy
<1>1. PICK u \in Titles, k \in 0 .. MaxCopy: t = CopyTitle(u, k)
  BY DEF AllTitles
<1>. QED
  BY <1>1, CopiesAreTitles, BoundsAssumption

\* A tree with one more node.
LEMMA GrownRooted ==
  ASSUME NEW nodes, Rooted(nodes), NEW n, n \notin DOMAIN nodes, n # Root,
         NEW p \in DOMAIN nodes, NEW new, DOMAIN new = DOMAIN nodes \union {n},
         \A m \in DOMAIN nodes: new[m].parent = nodes[m].parent,
         new[n].parent = p
  PROVE  /\ Rooted(new)
         /\ \A a: NodesBelow(nodes, a) \subseteq NodesBelow(new, a)
         /\ \A a: p \in NodesBelow(nodes, a) => n \in NodesBelow(new, a)
<1>1. ASSUME NEW a
      PROVE  NodesBelow(nodes, a) \subseteq NodesBelow(new, a)
  <2>1. a \in NodesBelow(new, a) /\ HasChildrenOf(NodesBelow(new, a), new)
    BY BelowItself
  <2>2. HasChildrenOf(NodesBelow(new, a), nodes)
    BY <2>1 DEF HasChildrenOf, Below
  <2>. QED
    BY <2>1, <2>2, BelowIsLeast
<1>2. ASSUME NEW a, p \in NodesBelow(nodes, a)
      PROVE  n \in NodesBelow(new, a)
  <2>1. p \in NodesBelow(new, a)
    BY <1>1, <1>2
  <2>2. HasChildrenOf(NodesBelow(new, a), new)
    BY BelowItself
  <2>. QED
    BY <2>1, <2>2 DEF HasChildrenOf, Below
<1>3. NodesBelow(nodes, Root) = DOMAIN nodes /\ Root \in DOMAIN nodes
  BY BelowItself DEF Rooted
<1>4. DOMAIN new \subseteq NodesBelow(new, Root)
  BY <1>1, <1>2, <1>3
<1>5. NodesBelow(new, Root) \subseteq DOMAIN new
  BY <1>3, ParentIsBelow DEF Below
<1>6. Rooted(new)
  BY <1>4, <1>5 DEF Rooted
<1>. QED
  BY <1>1, <1>2, <1>6

\* What is below a node of the tree is in the tree.
LEMMA BelowIsThere ==
  ASSUME NEW nodes, NEW n \in DOMAIN nodes
  PROVE  NodesBelow(nodes, n) \subseteq DOMAIN nodes
BY ParentIsBelow DEF Below

\* createNode in a whole tree: what it leaves, and what is below what.
CreationIsGood(s, p, title, type, n, new) ==
  /\ NodeCreated(s, p, title, type, n, new)
  /\ GoodScene(new)
  /\ \A a: NodesBelow(s.tree, a) \subseteq NodesBelow(new.tree, a)
  /\ \A a: p \in NodesBelow(s.tree, a) => n \in NodesBelow(new.tree, a)
  /\ \A m \in DOMAIN new.tree: new.tree[m].parent # n
  /\ EmptyFolders(new.tree) \subseteq (EmptyFolders(s.tree) \ {p}) \union {n}

\* createNode under a key that is free keeps the tree whole and shown.
LEMMA CreatedIsGood ==
  ASSUME NEW s, GoodScene(s), FreeNodes(s) # {}, NEW p \in DOMAIN s.tree,
         NEW type \in {"Folder", "File"}, NEW title \in AllTitles,
         s.tree[p].type # "File", ~HasChild(s.tree, p, title),
         NEW n, n = FreshNode(s), NEW new, new = CreateNode(s, p, title, type)
  PROVE  CreationIsGood(s, p, title, type, n, new)
<1>1. IsScene(s) /\ Consistent(s.tree) /\ Rooted(s.tree) /\ Typed(s.tree)
  BY DEF GoodScene, Whole
<1>2. NodeCreated(s, p, title, type, n, new)
  BY <1>1, AllTitlesAreTitles, CreatedNodeIsShown
<1>3. /\ IsScene(new) /\ Consistent(new.tree)
      /\ new.emits = s.emits /\ new.changed = s.changed
      /\ n \in 1 .. MaxNodes /\ n \notin DOMAIN s.tree
      /\ DOMAIN new.tree = DOMAIN s.tree \union {n}
      /\ \A m \in DOMAIN s.tree: /\ new.tree[m].type = s.tree[m].type
                                 /\ new.tree[m].title = s.tree[m].title
                                 /\ new.tree[m].parent = s.tree[m].parent
      /\ new.tree[n].type = type
      /\ new.tree[n].title = title
      /\ new.tree[n].parent = p
      /\ s.emits /\ s.view = ShowTree(s.tree) => new.view = ShowTree(new.tree)
  BY <1>2 DEF NodeCreated
<1>4. n # Root /\ n # None /\ n \in 0 .. MaxNodes
  BY <1>3, BoundsAssumption DEF Root, None
<1>5. /\ Rooted(new.tree)
      /\ \A a: NodesBelow(s.tree, a) \subseteq NodesBelow(new.tree, a)
      /\ \A a: p \in NodesBelow(s.tree, a) => n \in NodesBelow(new.tree, a)
  <2>. DEFINE nodes == s.tree
              grown == new.tree
  <2>1. /\ Rooted(nodes) /\ n \notin DOMAIN nodes /\ n # Root /\ p \in DOMAIN nodes
        /\ DOMAIN grown = DOMAIN nodes \union {n} /\ grown[n].parent = p
        /\ \A m \in DOMAIN nodes: grown[m].parent = nodes[m].parent
    BY <1>1, <1>3, <1>4
  <2>. HIDE DEF nodes, grown
  <2>2. /\ Rooted(grown)
        /\ \A a: NodesBelow(nodes, a) \subseteq NodesBelow(grown, a)
        /\ \A a: p \in NodesBelow(nodes, a) => n \in NodesBelow(grown, a)
    BY <2>1, GrownRooted
  <2>. QED
    BY <2>2 DEF nodes, grown
<1>6. Typed(new.tree)
  BY <1>1, <1>3, <1>4 DEF Typed
<1>a. FilesAreLeaves(new.tree)
  <2>1. \A m \in Below(s.tree): /\ s.tree[m].parent \in DOMAIN s.tree
                                /\ s.tree[s.tree[m].parent].type # "File"
    BY DEF GoodScene, Whole, Consistent, TreeShape, FilesAreLeaves
  <2>. SUFFICES ASSUME NEW m \in Below(new.tree)
                PROVE  new.tree[new.tree[m].parent].type # "File"
    BY DEF FilesAreLeaves
  <2>2. CASE m = n
    BY <1>3, <2>2
  <2>3. CASE m # n
    BY <1>3, <2>1, <2>3 DEF Below
  <2>. QED
    BY <2>2, <2>3
<1>7. GoodScene(new)
  BY <1>3, <1>5, <1>6, <1>a DEF GoodScene, Whole
<1>8. \A m \in DOMAIN new.tree: new.tree[m].parent # n
  BY <1>1, <1>3, <1>4 DEF Consistent, TreeShape
<1>9. EmptyFolders(new.tree) \subseteq (EmptyFolders(s.tree) \ {p}) \union {n}
  BY <1>3 DEF EmptyFolders
<1>. QED
  BY <1>2, <1>5, <1>7, <1>8, <1>9 DEF CreationIsGood

\* removeNode in a whole tree.
LEMMA RemovedIsGood ==
  ASSUME NEW s, GoodScene(s), NEW n \in Below(s.tree),
         NEW new, new = RemoveNode(s, n)
  PROVE  /\ NodeRemoved(s, n, new)
         /\ GoodScene(new)
         /\ EmptyFolders(new.tree) \subseteq EmptyFolders(s.tree) \union {s.tree[n].parent}
<1>. DEFINE D == NodesBelow(s.tree, n)
<1>1. IsScene(s) /\ Consistent(s.tree) /\ Rooted(s.tree) /\ Typed(s.tree)
  BY DEF GoodScene, Whole
<1>2. NodeRemoved(s, n, new)
  BY <1>1, RemovedNodeIsGone
<1>3. /\ IsScene(new) /\ Consistent(new.tree) /\ Rooted(new.tree)
      /\ new.emits = s.emits /\ new.changed = s.changed
      /\ DOMAIN new.tree = DOMAIN s.tree \ D
      /\ \A m \in DOMAIN new.tree: /\ new.tree[m].type = s.tree[m].type
                                   /\ new.tree[m].title = s.tree[m].title
                                   /\ new.tree[m].parent = s.tree[m].parent
      /\ s.emits /\ s.view = ShowTree(s.tree) => new.view = ShowTree(new.tree)
  BY <1>2 DEF NodeRemoved, LeftOver
<1>4. \A m \in D: m # n => s.tree[m].parent \in D
  BY ParentIsBelow
<1>. HIDE DEF D
<1>5. Typed(new.tree)
  BY <1>1, <1>3 DEF Typed
<1>a. FilesAreLeaves(new.tree)
  <2>1. \A m \in Below(s.tree): s.tree[s.tree[m].parent].type # "File"
    BY DEF GoodScene, Whole, FilesAreLeaves
  <2>2. \A m \in Below(new.tree): new.tree[m].parent \in DOMAIN new.tree
    BY <1>3 DEF Consistent, TreeShape
  <2>. QED
    BY <1>3, <2>1, <2>2 DEF FilesAreLeaves, Below
<1>6. GoodScene(new)
  BY <1>3, <1>5, <1>a DEF GoodScene, Whole
<1>7. EmptyFolders(new.tree) \subseteq EmptyFolders(s.tree) \union {s.tree[n].parent}
  <2>. SUFFICES ASSUME NEW f \in EmptyFolders(new.tree), f # s.tree[n].parent
                PROVE  f \in EmptyFolders(s.tree)
    OBVIOUS
  <2>1. /\ f \in DOMAIN s.tree /\ f \notin D /\ s.tree[f].type = "Folder"
        /\ \A m \in DOMAIN new.tree: s.tree[m].parent # f
    BY <1>3 DEF EmptyFolders
  <2>2. \A m \in D: s.tree[m].parent # f
    BY <1>4, <2>1
  <2>3. \A m \in DOMAIN s.tree: s.tree[m].parent # f
    BY <1>3, <2>1, <2>2
  <2>. QED
    BY <2>1, <2>3 DEF EmptyFolders
<1>. QED
  BY <1>2, <1>6, <1>7

(***************************************************************************)
(* The segments of a path: PboNode::createHierarchy.                       *)
(***************************************************************************)

\* There is a number for a copy: no node has one above the bound.
LEMMA PickedTitleIsFree ==
  ASSUME NEW s, Whole(s.tree), NEW p \in DOMAIN s.tree, NEW t \in Titles
  PROVE  /\ ~HasChild(s.tree, p, PickTitle(s, p, t))
         /\ PickTitle(s, p, t).copy \in Nat
         /\ PickTitle(s, p, t).copy <= MaxCopy => PickTitle(s, p, t) \in AllTitles
<1>. DEFINE free == {k \in 1 .. MaxCopy + 1: ~HasChild(s.tree, p, CopyTitle(t, k))}
            last == CopyTitle(t, MaxCopy + 1)
<1>1. MaxCopy + 1 \in free
  <2>1. MaxCopy + 1 \in Nat /\ MaxCopy + 1 \in 1 .. MaxCopy + 1
    BY BoundsAssumption
  <2>2. ASSUME HasChild(s.tree, p, last)
        PROVE  FALSE
    <3>1. Consistent(s.tree) /\ Typed(s.tree)
      BY DEF Whole
    <3>2. GetChild(s.tree, p, last) # None
      BY <2>2, <3>1, ChildIsFound
    <3>3. PICK m \in Below(s.tree): Key(s.tree[m].title) = Key(last)
      BY <3>1, <3>2, ChildOfKey
    <3>4. s.tree[m].title \in AnyTitle /\ s.tree[m].title.copy <= MaxCopy
      BY <3>1, AllTitlesAreTitles DEF Typed, Below
    <3>5. last \in AnyTitle /\ last.copy = MaxCopy + 1
      BY <2>1, CopiesAreTitles
    <3>. HIDE DEF last
    <3>6. Key(s.tree[m].title).copy = s.tree[m].title.copy /\ Key(last).copy = last.copy
      BY <3>4, <3>5 DEF Key, AnyTitle
    <3>. QED
      BY <3>3, <3>4, <3>5, <3>6, BoundsAssumption DEF AnyTitle
  <2>. QED
    BY <2>1, <2>2
<1>2. free \subseteq Nat
  BY BoundsAssumption
<1>3. \A k \in free: ~HasChild(s.tree, p, CopyTitle(t, k))
  OBVIOUS
<1>. DEFINE k == CHOOSE k \in free: \A j \in free: k <= j
<1>4. PickTitle(s, p, t) = CopyTitle(t, k)
  BY DEF PickTitle
<1>. HIDE DEF free
<1>5. k \in free
  <2>1. \E i \in free: \A j \in free: i <= j
    BY <1>1, <1>2, LeastNumber
  <2>. QED
    BY <2>1
<1>. HIDE DEF k
<1>. QED
  BY <1>2, <1>3, <1>4, <1>5, CopiesAreTitles

\* Where createHierarchy has got to, from the scene and the node it began with.
OnTheWay(c, d) ==
  /\ d = [scene |-> d.scene, node |-> d.node]
  /\ GoodScene(d.scene)
  /\ d.scene.emits = c.scene.emits
  /\ d.scene.changed = c.scene.changed
  /\ d.scene.outcome \in {"done", "thrown", "full"}
  /\ c.scene.outcome # "done" => d.scene.outcome = c.scene.outcome
  /\ c.node \in DOMAIN d.scene.tree
  /\ d.scene.tree[c.node].type = c.scene.tree[c.node].type
  /\ d.node \in NodesBelow(d.scene.tree, c.node)
  /\ d.scene.outcome = "done" =>
       /\ EmptyFolders(d.scene.tree) \subseteq {d.node}
       /\ \/ d.scene.tree = c.scene.tree
          \/ \A m \in DOMAIN d.scene.tree: d.scene.tree[m].parent # d.node
  /\ d.scene.outcome = "thrown" => d.scene.tree = c.scene.tree

\* There can be something in the node it has got to.
AtFolder(d) ==
  d.scene.outcome = "done" => d.scene.tree[d.node].type # "File"

\* A segment that is created leaves createHierarchy on its way.
LEMMA CreatedOnTheWay ==
  ASSUME NEW c, NEW d, OnTheWay(c, d), d.scene.outcome = "done",
         NEW s, GoodScene(s), s.emits = c.scene.emits, s.changed = c.scene.changed,
         s.outcome = "done",
         c.node \in DOMAIN s.tree, d.node \in NodesBelow(s.tree, c.node),
         s.tree[c.node].type = c.scene.tree[c.node].type,
         s.tree[d.node].type # "File",
         EmptyFolders(s.tree) \subseteq {d.node},
         NEW title, title.copy <= MaxCopy => title \in AllTitles,
         ~(title.copy <= MaxCopy) => title.copy > MaxCopy,
         ~HasChild(s.tree, d.node, title), NEW type \in {"Folder", "File"},
         NEW new, new = Created(d, s, title, type)
  PROVE  /\ OnTheWay(c, new)
         /\ new.scene.outcome = "done" => new.scene.tree[new.node].type = type
<1>1. CASE FreeNodes(s) = {} \/ title.copy > MaxCopy
  <2>1. new = [d EXCEPT !.scene.outcome = "full"]
    BY <1>1 DEF Created
  <2>. DEFINE e == [d.scene EXCEPT !.outcome = "full"]
  <2>2. new = [scene |-> e, node |-> d.node]
    BY <2>1 DEF OnTheWay
  <2>3. /\ IsScene(e) /\ e.outcome = "full" /\ e.tree = d.scene.tree
        /\ e.view = d.scene.view /\ e.emits = d.scene.emits
        /\ e.changed = d.scene.changed
    BY DEF OnTheWay, GoodScene, IsScene
  <2>. HIDE DEF e
  <2>4. new.scene = e /\ new.node = d.node
    BY <2>2
  <2>5. GoodScene(e)
    BY <2>3 DEF OnTheWay, GoodScene
  <2>. QED
    BY <2>2, <2>3, <2>4, <2>5 DEF OnTheWay
<1>2. CASE ~(FreeNodes(s) = {} \/ title.copy > MaxCopy)
  <2>. DEFINE e == CreateNode(s, d.node, title, type)
              n == FreshNode(s)
  <2>1. new = [scene |-> e, node |-> n]
    BY <1>2 DEF Created
  <2>2. d.node \in DOMAIN s.tree
    BY BelowIsThere
  <2>a. e = CreateNode(s, d.node, title, type) /\ n = FreshNode(s)
    OBVIOUS
  <2>. HIDE DEF e, n
  <2>b. title \in AllTitles /\ FreeNodes(s) # {}
    BY <1>2
  <2>c. CreationIsGood(s, d.node, title, type, n, e)
    BY <2>a, <2>b, <2>2, CreatedIsGood
  <2>3. /\ NodeCreated(s, d.node, title, type, n, e)
        /\ GoodScene(e)
        /\ \A a: d.node \in NodesBelow(s.tree, a) => n \in NodesBelow(e.tree, a)
        /\ \A m \in DOMAIN e.tree: e.tree[m].parent # n
        /\ EmptyFolders(e.tree) \subseteq (EmptyFolders(s.tree) \ {d.node}) \union {n}
    BY <2>c DEF CreationIsGood
  <2>4. /\ e.emits = s.emits /\ e.changed = s.changed /\ e.outcome = s.outcome
        /\ DOMAIN s.tree \subseteq DOMAIN e.tree
        /\ e.tree[n].type = type
        /\ \A m \in DOMAIN s.tree: e.tree[m].type = s.tree[m].type
    BY <2>3 DEF NodeCreated
  <2>5. new.scene = e /\ new.node = n
    BY <2>1
  <2>. QED
    BY <2>1, <2>3, <2>4, <2>5 DEF OnTheWay
<1>. QED
  BY <1>1, <1>2

\* A segment that is in nobody's way, moved into, replaced, copied or refused.
LEMMA PutKeeps ==
  ASSUME NEW c, NEW d, OnTheWay(c, d), AtFolder(d), NEW title \in Titles,
         NEW type \in {"Folder", "File"}, NEW onConflict,
         NEW new, new = Put(d, title, type, onConflict)
  PROVE  /\ OnTheWay(c, new)
         /\ new.scene.outcome = "done" => new.scene.tree[new.node].type = type
<1>. DEFINE s == d.scene
            node == d.node
            existing == GetChild(s.tree, node, title)
<1>1. CASE s.outcome # "done"
  BY <1>1 DEF Put
<1>2. ASSUME s.outcome = "done"
      PROVE  /\ OnTheWay(c, new)
             /\ new.scene.outcome = "done" => new.scene.tree[new.node].type = type
  <2>1. /\ GoodScene(s) /\ s.emits = c.scene.emits /\ s.changed = c.scene.changed
        /\ c.node \in DOMAIN s.tree /\ node \in NodesBelow(s.tree, c.node)
        /\ s.tree[c.node].type = c.scene.tree[c.node].type
        /\ s.tree[node].type # "File"
        /\ EmptyFolders(s.tree) \subseteq {node}
        /\ \/ s.tree = c.scene.tree
           \/ \A m \in DOMAIN s.tree: s.tree[m].parent # node
        /\ d = [scene |-> s, node |-> node]
    BY <1>2 DEF OnTheWay, AtFolder
  <2>2. Whole(s.tree) /\ Consistent(s.tree) /\ Rooted(s.tree) /\ IsScene(s)
    BY <2>1 DEF GoodScene, Whole
  <2>3. node \in DOMAIN s.tree
    BY <2>1, BelowIsThere
  <2>4. title \in AllTitles /\ title.copy <= MaxCopy /\ title.copy \in Nat
    <3>1. title = CopyTitle(title, 0) /\ CopyTitle(title, 0).copy = 0
      BY CopiesAreTitles
    <3>2. title.copy = 0 /\ 0 <= MaxCopy
      BY <3>1, BoundsAssumption
    <3>. QED
      BY <3>1, <3>2, CopiesAreTitles
  <2>5. new = IF existing = None THEN Created(d, s, title, type)
              ELSE IF type = "Folder" /\ s.tree[existing].type = "Folder"
              THEN [d EXCEPT !.node = existing]
              ELSE CASE onConflict = "Replace" ->
                          Created(d, RemoveNode(s, existing), title, type)
                     [] onConflict = "Copy" ->
                          Created(d, s, PickTitle(s, node, title), type)
                     [] OTHER -> [d EXCEPT !.scene.outcome = "thrown"]
    BY <1>2 DEF Put
  <2>6. ASSUME existing # None
        PROVE  /\ existing \in Below(s.tree)
               /\ s.tree[existing].parent = node
               /\ Key(s.tree[existing].title) = Key(title)
               /\ s.tree = c.scene.tree
    <3>1. /\ existing \in Below(s.tree)
          /\ s.tree[existing].parent = node
          /\ Key(s.tree[existing].title) = Key(title)
      BY <2>2, <2>3, <2>6, ChildOfKey
    <3>. QED
      BY <2>1, <3>1 DEF Below
  <2>s. s = d.scene /\ node = d.node /\ existing = GetChild(s.tree, node, title)
    OBVIOUS
  <2>. HIDE DEF s, node, existing
  <2>7. CASE existing = None
    <3>1. ~HasChild(s.tree, node, title)
      BY <2>2, <2>3, <2>7, <2>s, ChildIsFound
    <3>2. new = Created(d, s, title, type)
      BY <2>5, <2>7
    <3>. QED
      BY <1>2, <2>1, <2>4, <2>s, <3>1, <3>2, CreatedOnTheWay
  <2>8. CASE existing # None /\ type = "Folder" /\ s.tree[existing].type = "Folder"
    <3>1. new = [scene |-> s, node |-> existing]
      BY <2>1, <2>5, <2>8
    <3>2. existing \in NodesBelow(s.tree, c.node)
      BY <2>1, <2>6, <2>8, BelowItself DEF HasChildrenOf
    <3>3. EmptyFolders(s.tree) = {}
      BY <2>1, <2>6, <2>8 DEF EmptyFolders, Below
    <3>. QED
      BY <1>2, <2>1, <2>6, <2>8, <3>1, <3>2, <3>3 DEF OnTheWay
  <2>9. CASE /\ existing # None /\ ~(type = "Folder" /\ s.tree[existing].type = "Folder")
             /\ onConflict = "Replace"
    <3>. DEFINE r == RemoveNode(s, existing)
    <3>1. new = Created(d, r, title, type)
      BY <2>5, <2>9
    <3>2. r = RemoveNode(s, existing)
      OBVIOUS
    <3>. HIDE DEF r
    <3>3. /\ NodeRemoved(s, existing, r)
          /\ GoodScene(r)
          /\ EmptyFolders(r.tree) \subseteq EmptyFolders(s.tree) \union {s.tree[existing].parent}
      BY <2>1, <2>6, <2>9, <3>2, RemovedIsGood
    <3>4. node \notin NodesBelow(s.tree, existing)
      BY <2>2, <2>6, <2>9, ParentIsNotBelow
    <3>5. c.node \notin NodesBelow(s.tree, existing)
      BY <2>1, <3>4, BelowIsTransitive
    <3>6. LeftOver(s.tree, NodesBelow(s.tree, existing), r.tree)
      BY <3>3 DEF NodeRemoved
    <3>7. /\ c.node \in DOMAIN r.tree
          /\ node \in DOMAIN r.tree
          /\ r.tree[c.node].type = s.tree[c.node].type
          /\ r.tree[node].type = s.tree[node].type
          /\ r.emits = s.emits /\ r.changed = s.changed /\ r.outcome = s.outcome
      BY <2>1, <2>3, <3>3, <3>4, <3>5, <3>6 DEF LeftOver, NodeRemoved
    <3>8. node \in NodesBelow(r.tree, c.node)
      BY <2>1, <3>4, <3>6, BelowItself, StillBelow
    <3>9. ASSUME HasChild(r.tree, node, title)
          PROVE  FALSE
      <4>1. Consistent(r.tree)
        BY <3>3 DEF NodeRemoved
      <4>2. PICK m \in Below(r.tree): /\ r.tree[m].parent = node
                                      /\ Key(r.tree[m].title) = Key(title)
        BY <3>7, <3>9, <4>1, ChildIsFound, ChildOfKey
      <4>3. /\ m \in Below(s.tree) /\ m \notin NodesBelow(s.tree, existing)
            /\ s.tree[m].parent = node
            /\ Key(s.tree[m].title) = Key(title)
        BY <3>6, <4>2 DEF LeftOver, Below
      <4>4. existing = m
        BY <2>2, <2>3, <2>s, <4>3, ChildOfKey
      <4>. QED
        BY <4>3, <4>4, BelowItself
    <3>. QED
      BY <1>2, <2>1, <2>4, <2>6, <2>9, <2>s, <3>1, <3>3, <3>7, <3>8, <3>9, CreatedOnTheWay
  <2>10. CASE /\ existing # None /\ ~(type = "Folder" /\ s.tree[existing].type = "Folder")
              /\ onConflict = "Copy"
    <3>. DEFINE picked == PickTitle(s, node, title)
    <3>1. new = Created(d, s, picked, type)
      BY <2>5, <2>10
    <3>2. /\ ~HasChild(s.tree, node, picked)
          /\ picked.copy \in Nat
          /\ picked.copy <= MaxCopy => picked \in AllTitles
      BY <2>2, <2>3, PickedTitleIsFree
    <3>. HIDE DEF picked
    <3>3. ~(picked.copy <= MaxCopy) => picked.copy > MaxCopy
      BY <3>2, BoundsAssumption
    <3>. QED
      BY <1>2, <2>1, <2>s, <3>1, <3>2, <3>3, CreatedOnTheWay
  <2>11. CASE /\ existing # None /\ ~(type = "Folder" /\ s.tree[existing].type = "Folder")
              /\ onConflict \notin {"Replace", "Copy"}
    <3>. DEFINE e == [s EXCEPT !.outcome = "thrown"]
    <3>1. new = [scene |-> e, node |-> node]
      BY <2>1, <2>5, <2>11
    <3>2. /\ IsScene(e) /\ e.outcome = "thrown" /\ e.tree = s.tree
          /\ e.view = s.view /\ e.emits = s.emits
          /\ e.changed = s.changed
      BY <2>2 DEF IsScene
    <3>. HIDE DEF e
    <3>3. GoodScene(e)
      BY <2>1, <3>2 DEF GoodScene
    <3>4. new.scene = e /\ new.node = node
      BY <3>1
    <3>. QED
      BY <1>2, <2>1, <2>s, <2>6, <2>11, <3>1, <3>2, <3>3, <3>4 DEF OnTheWay
  <2>. QED
    BY <2>7, <2>8, <2>9, <2>10, <2>11
<1>. QED
  BY <1>1, <1>2

\* The folders of a path, one round for each.
Descend(c, d, i) == Put(d, c.path[i], "Folder", c.onConflict)

IsOnTheWay(c, d, i) == OnTheWay(c, d) /\ AtFolder(d)

Descent == INSTANCE Iteration WITH Step <- Descend, Good <- IsOnTheWay

\* What every folder of a path keeps holds after the last one.
LEMMA DescentKeeps ==
  \A n \in Nat: \A c, base, f:
    /\ f = CHOOSE g: g = [i \in 0 .. n |-> IF i = 0 THEN base
                                           ELSE Descend(c, g[i - 1], i)]
    /\ IsOnTheWay(c, base, 0)
    /\ \A i \in 1 .. n: \A d:
         IsOnTheWay(c, d, i - 1) => IsOnTheWay(c, Descend(c, d, i), i)
    => IsOnTheWay(c, f[n], n)
BY Descent!LoopKeeps

\* What createHierarchy promises: a whole tree, without an empty folder unless
\* it throws, and as it was if it throws; listeners hear of the rest.
HierarchyCreated(s, p, new) ==
  /\ GoodScene(new)
  /\ new.emits = s.emits
  /\ new.outcome \in {"done", "thrown", "full"}
  /\ p \in DOMAIN new.tree
  /\ new.tree[p].type = s.tree[p].type
  /\ new.outcome # "full" => EmptyFolders(new.tree) = {}
  /\ new.outcome = "thrown" => new.tree = s.tree
  /\ new.changed <=> s.changed \/ (s.emits /\ new.outcome = "done")

\* createHierarchy keeps what it promises, for paths of any length.
LEMMA CreateHierarchyKeeps ==
  ASSUME NEW s, GoodScene(s), s.outcome \in {"done", "thrown", "full"},
         s.outcome # "full" => EmptyFolders(s.tree) = {},
         s.emits \in BOOLEAN, NEW p \in DOMAIN s.tree, s.tree[p].type # "File",
         NEW path \in Seq(Titles), Len(path) # 0, NEW onConflict
  PROVE  HierarchyCreated(s, p, CreateHierarchy(s, p, path, onConflict).scene)
<1>. DEFINE n == Len(path) - 1
            descend[i \in 0 .. n] ==
              IF i = 0 THEN [scene |-> s, node |-> p]
              ELSE Put(descend[i - 1], path[i], "Folder", onConflict)
            file == Put(descend[n], Last(path), "File", onConflict)
            c == [scene |-> s, node |-> p, path |-> path, onConflict |-> onConflict]
            base == [scene |-> s, node |-> p]
<1>1. CreateHierarchy(s, p, path, onConflict) =
        [file EXCEPT !.scene.changed = @ \/ (s.emits /\ file.scene.outcome = "done")]
  BY DEF CreateHierarchy
<1>2. descend = CHOOSE g: g = [i \in 0 .. n |-> IF i = 0 THEN base
                                                ELSE Descend(c, g[i - 1], i)]
  BY DEF Descend
<1>3. n \in Nat /\ n + 1 = Len(path)
  BY LenProperties
<1>4. c.scene = s /\ c.node = p /\ c.path = path /\ c.onConflict = onConflict
  OBVIOUS
<1>5. base.scene = s /\ base.node = p /\ base = [scene |-> base.scene, node |-> base.node]
  OBVIOUS
<1>6. file = Put(descend[n], Last(path), "File", onConflict)
  OBVIOUS
<1>. HIDE DEF n, c, base, descend, file
<1>7. IsOnTheWay(c, base, 0)
  <2>1. p \in NodesBelow(s.tree, p)
    BY BelowItself
  <2>. QED
    BY <1>4, <1>5, <2>1 DEF IsOnTheWay, OnTheWay, AtFolder, GoodScene
<1>8. ASSUME NEW i \in 1 .. n, NEW d, IsOnTheWay(c, d, i - 1)
      PROVE  IsOnTheWay(c, Descend(c, d, i), i)
  <2>1. path[i] \in Titles
    BY <1>3, ElementOfSeq
  <2>2. OnTheWay(c, d) /\ AtFolder(d)
    BY <1>8 DEF IsOnTheWay
  <2>. QED
    BY <1>4, <2>1, <2>2, PutKeeps DEF IsOnTheWay, AtFolder, Descend
<1>9. IsOnTheWay(c, descend[n], n)
  BY <1>2, <1>3, <1>7, <1>8, DescentKeeps
<1>10. Last(path) \in Titles
  BY <1>3, ElementOfSeq DEF Last
<1>11. /\ OnTheWay(c, file)
       /\ file.scene.outcome = "done" => file.scene.tree[file.node].type = "File"
  BY <1>6, <1>9, <1>10, PutKeeps DEF IsOnTheWay
<1>. DEFINE new == CreateHierarchy(s, p, path, onConflict).scene
<1>12. /\ IsScene(new) /\ new.tree = file.scene.tree /\ new.view = file.scene.view
       /\ new.emits = file.scene.emits /\ new.outcome = file.scene.outcome
       /\ new.changed = (file.scene.changed \/ (s.emits /\ file.scene.outcome = "done"))
  <2>1. IsScene(file.scene) /\ file = [scene |-> file.scene, node |-> file.node]
    BY <1>11 DEF OnTheWay, GoodScene
  <2>. QED
    BY <1>1, <2>1 DEF IsScene
<1>. HIDE DEF new
<1>13. GoodScene(new)
  BY <1>11, <1>12 DEF OnTheWay, GoodScene
<1>14. new.outcome # "full" => EmptyFolders(new.tree) = {}
  <2>1. new.outcome = "done" => EmptyFolders(new.tree) \subseteq {file.node}
    BY <1>11, <1>12 DEF OnTheWay
  <2>2. new.outcome = "done" => EmptyFolders(new.tree) = {}
    BY <1>11, <1>12, <2>1 DEF EmptyFolders
  <2>3. /\ new.outcome \in {"done", "thrown", "full"}
        /\ new.outcome = "thrown" => new.tree = s.tree /\ s.outcome # "full"
    BY <1>4, <1>11, <1>12 DEF OnTheWay
  <2>. QED
    BY <2>2, <2>3
<1>15. HierarchyCreated(s, p, new)
  BY <1>4, <1>11, <1>12, <1>13, <1>14 DEF OnTheWay, HierarchyCreated
<1>. QED
  BY <1>15 DEF new

(***************************************************************************)
(* A node that goes with the folders it would leave empty:                 *)
(* PboNode::removeFromHierarchy.                                           *)
(***************************************************************************)

\* The links from nodes without siblings to the folders they are in.
OnlyChildLinks(nodes) == {<<m, nodes[m].parent>>: m \in OnlyChildren(nodes)}

Emptied(nodes, n) == Reached(n, OnlyChildLinks(nodes))

\* With an only child goes its parent.
LEMMA EmptiedIsClosed ==
  ASSUME NEW nodes, NEW n
  PROVE  /\ n \in Emptied(nodes, n)
         /\ \A m \in OnlyChildren(nodes): m \in Emptied(nodes, n) =>
              nodes[m].parent \in Emptied(nodes, n)
<1>1. n \in Emptied(nodes, n)
  BY ReachedHasStart DEF Emptied
<1>2. Closed(Emptied(nodes, n), OnlyChildLinks(nodes))
  BY ReachedIsClosed DEF Emptied
<1>3. ASSUME NEW m \in OnlyChildren(nodes), m \in Emptied(nodes, n)
      PROVE  nodes[m].parent \in Emptied(nodes, n)
  <2>1. <<m, nodes[m].parent>> \in OnlyChildLinks(nodes)
    BY DEF OnlyChildLinks
  <2>. QED
    BY <1>2, <1>3, <2>1 DEF Closed
<1>. QED
  BY <1>1, <1>3

\* A set with the node and the parents of only children has all that goes.
LEMMA EmptiedIsLeast ==
  ASSUME NEW nodes, NEW n, NEW T, n \in T,
         \A m \in OnlyChildren(nodes): m \in T => nodes[m].parent \in T
  PROVE  Emptied(nodes, n) \subseteq T
<1>1. Closed(T, OnlyChildLinks(nodes))
  BY DEF Closed, OnlyChildLinks
<1>. QED
  BY <1>1, ReachedIsLeast DEF Emptied

\* But for the node itself, who goes has an only child that goes.
LEMMA EmptiedHasSource ==
  ASSUME NEW nodes, NEW n, NEW q \in Emptied(nodes, n), q # n
  PROVE  \E m \in OnlyChildren(nodes): m \in Emptied(nodes, n) /\ nodes[m].parent = q
<1>1. PICK link \in OnlyChildLinks(nodes): link[1] \in Emptied(nodes, n) /\ link[2] = q
  BY ReachedHasSource DEF Emptied
<1>. QED
  BY <1>1 DEF OnlyChildLinks

\* An only child has no siblings.
LEMMA OnlyChildIsAlone ==
  ASSUME NEW nodes, Consistent(nodes), NEW m \in OnlyChildren(nodes),
         NEW k \in Below(nodes), nodes[k].parent = nodes[m].parent
  PROVE  k = m
<1>. DEFINE p == nodes[m].parent
            list == nodes[p].list
<1>1. m \in Below(nodes) /\ p \in Below(nodes) /\ Len(list) = 1
  BY DEF OnlyChildren, Below, Consistent, TreeShape
<1>2. list \in Seq(Below(nodes)) /\ m \in ToSet(list) /\ k \in ToSet(list)
  BY <1>1 DEF Consistent, TreeShape, SiblingsConsistent, Below
<1>. QED
  BY <1>1, <1>2 DEF ToSet

\* Who has a sibling, and is not in the root, leaves one behind.
LEMMA SiblingIsLeft ==
  ASSUME NEW nodes, Consistent(nodes), NEW m \in Below(nodes),
         m \notin OnlyChildren(nodes), nodes[m].parent # Root
  PROVE  \E k \in Below(nodes): k # m /\ nodes[k].parent = nodes[m].parent
<1>. DEFINE p == nodes[m].parent
            list == nodes[p].list
<1>1. p \in Below(nodes) /\ Len(list) # 1
  BY DEF OnlyChildren, Below, Consistent, TreeShape
<1>2. /\ list \in Seq(Below(nodes))
      /\ {k \in DOMAIN nodes: nodes[k].parent = p} = ToSet(list)
      /\ m \in ToSet(list)
  BY <1>1 DEF Consistent, TreeShape, SiblingsConsistent, Below
<1>3. InOrder(nodes, list) /\ AreSiblings(nodes, Below(nodes))
  BY <1>1, ConsistentInOrder, ShapeGivesSiblings DEF Below, Consistent
<1>. HIDE DEF p, list
<1>4. Len(list) \in Nat /\ Len(list) > 1
  <2>1. Len(list) \in Nat /\ DOMAIN list = 1 .. Len(list)
    BY <1>2, LenProperties
  <2>2. PICK i \in 1 .. Len(list): list[i] = m
    BY <1>2, <2>1 DEF ToSet
  <2>. QED
    BY <1>1, <2>1, <2>2
<1>5. list[1] \in Below(nodes) /\ list[2] \in Below(nodes) /\ list[1] # list[2]
  BY <1>2, <1>3, <1>4, ElementOfSeq, LessIsIrreflexive DEF InOrder, AreSiblings
<1>6. list[1] \in ToSet(list) /\ list[2] \in ToSet(list)
  BY <1>2, <1>4 DEF ToSet
<1>. QED
  BY <1>2, <1>5, <1>6 DEF p

\* Who goes, from the bottom to the top, is in the tree, has the node below
\* it, and the top has a sibling or is in the root.
LEMMA TopIsThere ==
  ASSUME NEW nodes, Consistent(nodes), Rooted(nodes), NEW n \in Below(nodes),
         NEW top, top = CHOOSE m \in Emptied(nodes, n): m \notin OnlyChildren(nodes)
  PROVE  /\ Emptied(nodes, n) \subseteq Below(nodes)
         /\ \A m \in Emptied(nodes, n): n \in NodesBelow(nodes, m)
         /\ top \in Emptied(nodes, n) /\ top \notin OnlyChildren(nodes)
<1>1. Emptied(nodes, n) \subseteq Below(nodes)
  <2>1. \A m \in OnlyChildren(nodes): nodes[m].parent \in Below(nodes)
    BY DEF OnlyChildren, Below, Consistent, TreeShape
  <2>. QED
    BY <2>1, EmptiedIsLeast
<1>2. Emptied(nodes, n) \subseteq {m \in DOMAIN nodes: n \in NodesBelow(nodes, m)}
  <2>. DEFINE T == {m \in DOMAIN nodes: n \in NodesBelow(nodes, m)}
  <2>1. n \in T
    BY BelowItself DEF Below
  <2>2. ASSUME NEW m \in OnlyChildren(nodes), m \in T
        PROVE  nodes[m].parent \in T
    <3>1. m \in Below(nodes) /\ nodes[m].parent \in DOMAIN nodes
      BY DEF OnlyChildren, Below, Consistent, TreeShape
    <3>2. m \in NodesBelow(nodes, nodes[m].parent)
      BY <3>1, BelowItself DEF HasChildrenOf
    <3>. QED
      BY <2>2, <3>1, <3>2, BelowIsTransitive
  <2>. HIDE DEF T
  <2>3. Emptied(nodes, n) \subseteq T
    BY <2>1, <2>2, EmptiedIsLeast
  <2>. QED
    BY <2>3 DEF T
<1>3. ASSUME Emptied(nodes, n) \subseteq OnlyChildren(nodes)
      PROVE  FALSE
  <2>. DEFINE T == DOMAIN nodes \ Emptied(nodes, n)
  <2>1. Root \in T
    <3>1. Root \in DOMAIN nodes
      BY BelowItself DEF Rooted
    <3>. QED
      BY <1>1, <3>1 DEF Below
  <2>2. ASSUME NEW m \in Below(nodes), nodes[m].parent \in T
        PROVE  m \in T
    BY <1>3, <2>2, EmptiedIsClosed DEF Below
  <2>3. HasChildrenOf(T, nodes)
    BY <2>2 DEF HasChildrenOf
  <2>. HIDE DEF T
  <2>4. NodesBelow(nodes, Root) \subseteq T
    BY <2>1, <2>3, BelowIsLeast
  <2>. QED
    BY <2>4, EmptiedIsClosed DEF T, Rooted, Below
<1>4. top \in Emptied(nodes, n) /\ top \notin OnlyChildren(nodes)
  BY <1>3
<1>. QED
  BY <1>1, <1>2, <1>4

\* Nothing is below the top but what goes and what is below the node.
LEMMA BelowTheTop ==
  ASSUME NEW nodes, Consistent(nodes), Rooted(nodes), NEW n \in Below(nodes),
         NEW top \in Emptied(nodes, n)
  PROVE  NodesBelow(nodes, top) \subseteq Emptied(nodes, n) \union NodesBelow(nodes, n)
<1>. DEFINE T == Emptied(nodes, n) \union NodesBelow(nodes, n)
<1>1. ASSUME NEW m \in Below(nodes), nodes[m].parent \in T
      PROVE  m \in T
  <2>1. CASE nodes[m].parent \in NodesBelow(nodes, n)
    BY <2>1, BelowItself DEF HasChildrenOf
  <2>2. CASE nodes[m].parent \notin NodesBelow(nodes, n)
    <3>1. nodes[m].parent \in Emptied(nodes, n) /\ nodes[m].parent # n
      BY <1>1, <2>2, BelowItself
    <3>2. PICK o \in OnlyChildren(nodes):
            o \in Emptied(nodes, n) /\ nodes[o].parent = nodes[m].parent
      BY <3>1, EmptiedHasSource
    <3>3. m = o
      BY <3>2, OnlyChildIsAlone
    <3>. QED
      BY <3>2, <3>3
  <2>. QED
    BY <2>1, <2>2
<1>2. HasChildrenOf(T, nodes) /\ top \in T
  BY <1>1 DEF HasChildrenOf
<1>. HIDE DEF T
<1>3. NodesBelow(nodes, top) \subseteq T
  BY <1>2, BelowIsLeast
<1>. QED
  BY <1>3 DEF T

\* What removeFromHierarchy promises: no folder is left empty, and nothing
\* goes that is not with the node in the end.
HierarchyRemoved(s, n, new) ==
  /\ GoodScene(new)
  /\ new.emits = s.emits /\ new.outcome = s.outcome /\ new.changed = TRUE
  /\ EmptyFolders(new.tree) \subseteq EmptyFolders(s.tree)
  /\ \A m \in Below(s.tree):
       n \notin NodesBelow(s.tree, m) /\ m \notin NodesBelow(s.tree, n)
         => m \in Below(new.tree)
  /\ \A m: NodesBelow(new.tree, m) \subseteq NodesBelow(s.tree, m)

\* removeFromHierarchy keeps what it promises.
LEMMA RemoveFromHierarchyKeeps ==
  ASSUME NEW s, GoodScene(s), NEW n \in Below(s.tree)
  PROVE  HierarchyRemoved(s, n, RemoveFromHierarchy(s, n))
<1>. DEFINE top == CHOOSE m \in Emptied(s.tree, n): m \notin OnlyChildren(s.tree)
            r == RemoveNode(s, top)
            new == RemoveFromHierarchy(s, n)
            p == s.tree[top].parent
<1>1. new = [r EXCEPT !.changed = TRUE]
  BY DEF RemoveFromHierarchy, Emptied, OnlyChildLinks
<1>2. Consistent(s.tree) /\ Rooted(s.tree) /\ Typed(s.tree)
  BY DEF GoodScene, Whole
<1>3. /\ Emptied(s.tree, n) \subseteq Below(s.tree)
      /\ \A m \in Emptied(s.tree, n): n \in NodesBelow(s.tree, m)
      /\ top \in Emptied(s.tree, n) /\ top \notin OnlyChildren(s.tree)
  BY <1>2, TopIsThere
<1>4. r = RemoveNode(s, top)
  OBVIOUS
<1>. HIDE DEF top, r, new, p
<1>5. top \in Below(s.tree)
  BY <1>3
<1>6. /\ NodeRemoved(s, top, r)
      /\ GoodScene(r)
      /\ EmptyFolders(r.tree) \subseteq EmptyFolders(s.tree) \union {s.tree[top].parent}
  BY <1>4, <1>5, RemovedIsGood
<1>7. LeftOver(s.tree, NodesBelow(s.tree, top), r.tree)
  BY <1>6 DEF NodeRemoved
<1>8. /\ IsScene(new) /\ new.tree = r.tree /\ new.view = r.view /\ new.emits = r.emits
      /\ new.outcome = r.outcome /\ new.changed = TRUE
  BY <1>1, <1>6 DEF NodeRemoved, IsScene
<1>9. GoodScene(new)
  BY <1>6, <1>8 DEF GoodScene
<1>10. EmptyFolders(new.tree) \subseteq EmptyFolders(s.tree)
  <2>1. ASSUME p \in EmptyFolders(r.tree)
        PROVE  FALSE
    <3>1. p # Root
      <4>1. p \in DOMAIN s.tree /\ s.tree[p].type = "Folder"
        BY <1>7, <2>1 DEF EmptyFolders, LeftOver
      <4>. QED
        BY <1>2, <4>1 DEF Typed
    <3>2. PICK k \in Below(s.tree): k # top /\ s.tree[k].parent = p
      BY <1>2, <1>3, <1>5, <3>1, SiblingIsLeft DEF p
    <3>3. k \notin NodesBelow(s.tree, top)
      BY <1>2, <1>5, <3>2, ParentIsBelow, ParentIsNotBelow DEF p
    <3>4. k \in DOMAIN r.tree /\ r.tree[k].parent = p
      BY <1>7, <3>2, <3>3 DEF LeftOver, Below
    <3>. QED
      BY <2>1, <3>4 DEF EmptyFolders
  <2>. QED
    BY <1>6, <1>8, <2>1 DEF p
<1>11. ASSUME NEW m \in Below(s.tree), n \notin NodesBelow(s.tree, m),
              m \notin NodesBelow(s.tree, n)
       PROVE  m \in Below(new.tree)
  <2>1. m \notin NodesBelow(s.tree, top)
    BY <1>2, <1>3, <1>11, BelowTheTop
  <2>. QED
    BY <1>7, <1>8, <2>1 DEF LeftOver, Below
<1>12. \A m: NodesBelow(new.tree, m) \subseteq NodesBelow(s.tree, m)
  BY <1>7, <1>8, NothingNewBelow
<1>13. new.emits = s.emits /\ new.outcome = s.outcome
  BY <1>6, <1>8 DEF NodeRemoved
<1>14. HierarchyRemoved(s, n, new)
  BY <1>8, <1>9, <1>10, <1>11, <1>12, <1>13 DEF HierarchyRemoved
<1>. QED
  BY <1>14 DEF new

(***************************************************************************)
(* The specification.                                                      *)
(***************************************************************************)

\* A document that is there is whole and shown, and has no empty folder.
DocumentInv == /\ Whole(tree)
               /\ view = ShowTree(tree)
               /\ EmptyFolders(tree) = {}

IInv ==
  /\ loaded \in BOOLEAN
  /\ changed \in BOOLEAN
  /\ outcome \in {"done", "thrown", "crashed"}
  /\ IF loaded THEN DocumentInv ELSE tree = <<>> /\ view = <<>>

\* The scene an operation starts with.
LEMMA StartIsGood ==
  ASSUME DocumentInv
  PROVE  /\ GoodScene(Scene(TRUE))
         /\ Scene(TRUE).tree = tree /\ Scene(TRUE).emits = TRUE
         /\ Scene(TRUE).changed = FALSE /\ Scene(TRUE).outcome = "done"
BY DEF DocumentInv, GoodScene, Scene, IsScene

\* What an operation may end with.
GoodEnd(s) ==
  /\ GoodScene(s)
  /\ s.emits
  /\ s.outcome \in {"done", "thrown", "crashed", "full"}
  /\ s.outcome # "full" => EmptyFolders(s.tree) = {}
  /\ s.outcome # "full" => s.changed \/ s.tree = tree

\* A step that ends with a good scene leaves a good document, announced.
LEMMA EndIsGood ==
  ASSUME loaded \in BOOLEAN, loaded, NEW s, GoodEnd(s), Becomes(s)
  PROVE  IInv' /\ (tree' # tree => changed')
<1>1. /\ s.outcome \in {"done", "thrown", "crashed"}
      /\ tree' = s.tree /\ view' = s.view /\ changed' = s.changed
      /\ outcome' = s.outcome /\ loaded' = loaded
  BY DEF Becomes, GoodEnd
<1>2. Whole(s.tree) /\ s.view = ShowTree(s.tree) /\ EmptyFolders(s.tree) = {}
      /\ s.changed \in BOOLEAN
  BY <1>1 DEF GoodEnd, GoodScene
<1>3. Whole(tree') /\ view' = ShowTree(tree') /\ EmptyFolders(tree') = {}
  BY <1>1, <1>2
<1>4. DocumentInv'
  BY <1>3 DEF DocumentInv
<1>. QED
  BY <1>1, <1>2, <1>4 DEF IInv, GoodEnd

\* The paths that come in.
LEMMA PathsAreSeqs ==
  ASSUME NEW path \in Paths
  PROVE  path \in Seq(Titles) /\ Len(path) # 0
<1>1. CASE path \in {<<t>>: t \in Titles}
  <2>1. PICK t \in Titles: path = <<t>>
    BY <1>1
  <2>. QED
    BY <2>1
<1>2. CASE path \in Titles \X Titles
  <2>1. PICK t \in Titles, u \in Titles: path = <<t, u>>
    BY <1>2
  <2>. QED
    BY <2>1
<1>. QED
  BY <1>1, <1>2 DEF Paths

\* Descriptors come in lists that are not empty.
LEMMA ListsAreSeqs ==
  ASSUME NEW list \in DescriptorLists
  PROVE  list \in Seq(Paths) /\ Len(list) # 0
<1>1. CASE list \in {<<d>>: d \in Paths}
  <2>1. PICK d \in Paths: list = <<d>>
    BY <1>1
  <2>. QED
    BY <2>1
<1>2. CASE list \in Paths \X Paths
  <2>1. PICK d \in Paths, e \in Paths: list = <<d, e>>
    BY <1>2
  <2>. QED
    BY <2>1
<1>. QED
  BY <1>1, <1>2 DEF DescriptorLists

(***************************************************************************)
(* PboModel::createNodeSet, one descriptor after the other.                *)
(***************************************************************************)

Insert(c, s, i) ==
  InsertNode(s, c.node, c.list[i],
             IF c.list[i] \in DOMAIN c.choice THEN c.choice[c.list[i]] ELSE "Unset")

Inserting(c, s, i) ==
  /\ GoodScene(s)
  /\ s.emits = TRUE
  /\ s.outcome \in {"done", "thrown", "crashed", "full"}
  /\ c.node \in DOMAIN s.tree /\ s.tree[c.node].type # "File"
  /\ s.outcome # "full" => EmptyFolders(s.tree) = {}
  /\ s.outcome # "full" => s.changed \/ s.tree = c.tree

Insertion == INSTANCE Iteration WITH Step <- Insert, Good <- Inserting

\* What every descriptor keeps holds after the last one.
LEMMA InsertionKeeps ==
  \A n \in Nat: \A c, base, f:
    /\ f = CHOOSE g: g = [i \in 0 .. n |-> IF i = 0 THEN base
                                           ELSE Insert(c, g[i - 1], i)]
    /\ Inserting(c, base, 0)
    /\ \A i \in 1 .. n: \A d:
         Inserting(c, d, i - 1) => Inserting(c, Insert(c, d, i), i)
    => Inserting(c, f[n], n)
BY Insertion!LoopKeeps

\* A descriptor that is skipped, inserted or refused, or that crashes.
LEMMA InsertKeeps ==
  ASSUME NEW c, NEW s, NEW i, Inserting(c, s, i - 1), c.list[i] \in Paths
  PROVE  Inserting(c, Insert(c, s, i), i)
<1>. DEFINE path == c.list[i]
            r == IF path \in DOMAIN c.choice THEN c.choice[path] ELSE "Unset"
            new == Insert(c, s, i)
<1>1. new = IF s.outcome # "done" \/ r = "Skip" THEN s
            ELSE IF r \in {"Copy", "Replace"} /\ Get(s.tree, c.node, path) = None
            THEN [s EXCEPT !.outcome = "crashed"]
            ELSE CreateHierarchy(s, c.node, path, r).scene
  BY DEF Insert, InsertNode
<1>2. path \in Seq(Titles) /\ Len(path) # 0
  BY PathsAreSeqs
<1>. HIDE DEF path, r, new
<1>3. CASE s.outcome # "done" \/ r = "Skip"
  BY <1>1, <1>3 DEF new, Inserting
<1>4. CASE /\ ~(s.outcome # "done" \/ r = "Skip")
           /\ r \in {"Copy", "Replace"} /\ Get(s.tree, c.node, path) = None
  <2>1. new = [s EXCEPT !.outcome = "crashed"]
    BY <1>1, <1>4
  <2>2. /\ IsScene(new) /\ new.outcome = "crashed" /\ new.tree = s.tree
        /\ new.view = s.view /\ new.emits = s.emits /\ new.changed = s.changed
    BY <2>1 DEF Inserting, GoodScene, IsScene
  <2>3. GoodScene(new)
    BY <2>2 DEF Inserting, GoodScene
  <2>4. Inserting(c, new, i)
    BY <1>4, <2>2, <2>3 DEF Inserting
  <2>. QED
    BY <2>4 DEF new
<1>5. CASE /\ ~(s.outcome # "done" \/ r = "Skip")
           /\ ~(r \in {"Copy", "Replace"} /\ Get(s.tree, c.node, path) = None)
  <2>1. new = CreateHierarchy(s, c.node, path, r).scene
    BY <1>1, <1>5
  <2>2. HierarchyCreated(s, c.node, new)
    BY <1>2, <1>5, <2>1, CreateHierarchyKeeps DEF Inserting
  <2>3. Inserting(c, new, i)
    BY <1>5, <2>2 DEF Inserting, HierarchyCreated
  <2>. QED
    BY <2>3 DEF new
<1>. QED
  BY <1>3, <1>4, <1>5

\* createNodeSet, whatever the descriptors and the answers.
LEMMA CreateNodeSetKeeps ==
  ASSUME loaded \in BOOLEAN, loaded, DocumentInv,
         NEW p \in DOMAIN tree, tree[p].type # "File", NEW list \in DescriptorLists, NEW choice, CreateNodeSet(p, list, choice)
  PROVE  IInv' /\ (tree' # tree => changed')
<1>. DEFINE n == Len(list)
            insert[i \in 0 .. n] ==
              IF i = 0 THEN Scene(TRUE)
              ELSE InsertNode(insert[i - 1], p, list[i],
                              IF list[i] \in DOMAIN choice THEN choice[list[i]]
                                                           ELSE "Unset")
            base == Scene(TRUE)
            c == [node |-> p, list |-> list, choice |-> choice, tree |-> tree]
<1>1. Becomes(insert[n])
  BY DEF CreateNodeSet
<1>2. insert = CHOOSE g: g = [i \in 0 .. n |-> IF i = 0 THEN base
                                               ELSE Insert(c, g[i - 1], i)]
  BY DEF Insert
<1>3. list \in Seq(Paths) /\ n \in Nat /\ n = Len(list)
  BY ListsAreSeqs, LenProperties
<1>4. c.node = p /\ c.list = list /\ c.tree = tree
  OBVIOUS
<1>5. Inserting(c, base, 0)
  BY <1>4, StartIsGood DEF Inserting, DocumentInv
<1>. HIDE DEF n, insert, base, c
<1>6. ASSUME NEW i \in 1 .. n, NEW d, Inserting(c, d, i - 1)
      PROVE  Inserting(c, Insert(c, d, i), i)
  <2>1. c.list[i] \in Paths
    BY <1>3, <1>4, ElementOfSeq
  <2>. QED
    BY <1>6, <2>1, InsertKeeps
<1>7. Inserting(c, insert[n], n)
  BY <1>2, <1>3, <1>5, <1>6, InsertionKeeps
<1>8. GoodEnd(insert[n])
  BY <1>4, <1>7 DEF Inserting, GoodEnd
<1>. QED
  BY <1>1, <1>8, EndIsGood

(***************************************************************************)
(* selectionRemove, one selected node after the other.                     *)
(***************************************************************************)

DropNext(c, s, i) == Drop(s, c[i])

\* Those that are still to be removed are there, and apart from each other.
Dropping(c, s, i) ==
  /\ GoodScene(s)
  /\ s.emits = TRUE
  /\ s.outcome = "done"
  /\ EmptyFolders(s.tree) = {}
  /\ i # 0 => s.changed
  /\ \A j \in i + 1 .. Len(c): c[j] \in Below(s.tree)
  /\ \A j, k \in i + 1 .. Len(c): j # k => c[j] \notin NodesBelow(s.tree, c[k])

Removal == INSTANCE Iteration WITH Step <- DropNext, Good <- Dropping

\* What every removal keeps holds after the last one.
LEMMA RemovalKeeps ==
  \A n \in Nat: \A c, base, f:
    /\ f = CHOOSE g: g = [i \in 0 .. n |-> IF i = 0 THEN base
                                           ELSE DropNext(c, g[i - 1], i)]
    /\ Dropping(c, base, 0)
    /\ \A i \in 1 .. n: \A d:
         Dropping(c, d, i - 1) => Dropping(c, DropNext(c, d, i), i)
    => Dropping(c, f[n], n)
BY Removal!LoopKeeps

\* A removal takes none of the selected nodes that are still to come.
LEMMA DropKeeps ==
  ASSUME NEW c, Len(c) \in Nat, NEW i \in 1 .. Len(c), NEW s, Dropping(c, s, i - 1)
  PROVE  Dropping(c, DropNext(c, s, i), i)
<1>. DEFINE n == c[i]
            new == DropNext(c, s, i)
<1>1. /\ i - 1 + 1 = i
      /\ i \in i .. Len(c) /\ i # 0
      /\ \A j \in i + 1 .. Len(c): j \in i .. Len(c) /\ j # i
  OBVIOUS
<1>2. /\ GoodScene(s) /\ s.emits = TRUE /\ s.outcome = "done"
      /\ EmptyFolders(s.tree) = {}
      /\ \A j \in i .. Len(c): c[j] \in Below(s.tree)
      /\ \A j, k \in i .. Len(c): j # k => c[j] \notin NodesBelow(s.tree, c[k])
  BY <1>1 DEF Dropping
<1>3. n \in Below(s.tree)
  BY <1>1, <1>2
<1>4. new = RemoveFromHierarchy(s, n)
  BY <1>3 DEF DropNext, Drop, Below
<1>. HIDE DEF new
<1>5. HierarchyRemoved(s, n, new)
  BY <1>2, <1>3, <1>4, RemoveFromHierarchyKeeps
<1>6. \A j \in i + 1 .. Len(c): c[j] \in Below(new.tree)
  BY <1>1, <1>2, <1>5 DEF HierarchyRemoved
<1>7. \A j, k \in i + 1 .. Len(c): j # k => c[j] \notin NodesBelow(new.tree, c[k])
  BY <1>1, <1>2, <1>5 DEF HierarchyRemoved
<1>8. Dropping(c, new, i)
  BY <1>1, <1>2, <1>5, <1>6, <1>7 DEF HierarchyRemoved, Dropping
<1>. QED
  BY <1>8 DEF new

\* selectionRemove, in whatever order the nodes are selected.
LEMMA SelectionRemoveKeeps ==
  ASSUME loaded \in BOOLEAN, loaded, DocumentInv, NEW S \in Selections,
         NEW nodes \in SetToSeqs(S), SelectionRemove(nodes)
  PROVE  IInv' /\ (tree' # tree => changed')
<1>. DEFINE n == Len(nodes)
            drop[i \in 0 .. n] == IF i = 0 THEN Scene(TRUE)
                                  ELSE Drop(drop[i - 1], nodes[i])
            base == Scene(TRUE)
<1>1. Becomes(drop[n])
  BY DEF SelectionRemove
<1>2. drop = CHOOSE g: g = [i \in 0 .. n |-> IF i = 0 THEN base
                                             ELSE DropNext(nodes, g[i - 1], i)]
  BY DEF DropNext
<1>3. /\ S \subseteq Below(tree)
      /\ \A a, b \in S: a # b => a \notin NodesBelow(tree, b)
      /\ Cardinality(S) \in 1 .. 2
  BY DEF Selections, Below
<1>4. /\ n = Cardinality(S) /\ n \in Nat /\ n # 0
      /\ \A i \in 1 .. n: nodes[i] \in S
      /\ \A i, j \in 1 .. n: i # j => nodes[i] # nodes[j]
  <2>1. /\ nodes \in [1 .. Cardinality(S) -> S] /\ Cardinality(S) \in Nat
        /\ \A i, j \in 1 .. Cardinality(S): i # j => nodes[i] # nodes[j]
    BY <1>3 DEF SetToSeqs
  <2>2. Len(nodes) = Cardinality(S)
    BY <2>1
  <2>. QED
    BY <1>3, <2>1, <2>2
<1>5. Dropping(nodes, base, 0)
  <2>1. /\ GoodScene(base) /\ base.tree = tree /\ base.emits = TRUE
        /\ base.outcome = "done" /\ EmptyFolders(base.tree) = {}
    BY StartIsGood DEF DocumentInv
  <2>. HIDE DEF base
  <2>2. \A j \in 0 + 1 .. Len(nodes): j \in 1 .. n
    BY <1>4
  <2>3. \A j \in 1 .. n: nodes[j] \in Below(tree)
    BY <1>3, <1>4
  <2>4. \A j, k \in 1 .. n: j # k => nodes[j] \notin NodesBelow(tree, nodes[k])
    BY <1>3, <1>4
  <2>. QED
    BY <2>1, <2>2, <2>3, <2>4 DEF Dropping
<1>6. n = Len(nodes)
  OBVIOUS
<1>. HIDE DEF n, drop, base
<1>7. ASSUME NEW i \in 1 .. n, NEW d, Dropping(nodes, d, i - 1)
      PROVE  Dropping(nodes, DropNext(nodes, d, i), i)
  BY <1>4, <1>6, <1>7, DropKeeps
<1>8. Dropping(nodes, drop[n], n)
  BY <1>2, <1>4, <1>5, <1>7, RemovalKeeps
<1>9. GoodEnd(drop[n])
  BY <1>4, <1>8 DEF Dropping, GoodEnd
<1>. QED
  BY <1>1, <1>9, EndIsGood

(***************************************************************************)
(* The rename dialog.                                                      *)
(***************************************************************************)

\* The rename dialog, with any title that it lets through.
LEMMA RenameKeeps ==
  ASSUME loaded \in BOOLEAN, loaded, DocumentInv, NEW n \in Below(tree),
         NEW t \in Titles, NEW k \in {0, 1}, Rename(n, CopyTitle(t, k))
  PROVE  IInv' /\ (tree' # tree => changed')
<1>. DEFINE title == CopyTitle(t, k)
            p == tree[n].parent
<1>1. title \in AnyTitle /\ title \in AllTitles
  <2>1. k \in Nat /\ k <= MaxCopy
    BY BoundsAssumption
  <2>. QED
    BY <2>1, CopiesAreTitles
<1>2. Rename(n, title)
  OBVIOUS
<1>. HIDE DEF title
<1>3. /\ Consistent(tree) /\ TreeShape(tree) /\ Rooted(tree) /\ Typed(tree)
      /\ ChildrenConsistent /\ ViewMirrorsTree /\ EmptyFolders(tree) = {}
  BY DEF DocumentInv, Whole, Consistent, ChildrenConsistent, ViewMirrorsTree
<1>4. loaded' = loaded /\ changed' = TRUE /\ outcome' = "done"
  BY <1>2 DEF Rename, Becomes, SetTitle, Scene
<1>5. ViewMirrorsTree'
  BY <1>1, <1>2, <1>3, RenameMovesItem
<1>. DEFINE new == tree'
<1>6. PICK i: TitleSet(tree, p, n, title, i, new)
  BY <1>1, <1>2, <1>3, RenameSetsTitle
<1>. HIDE DEF new
<1>7. /\ Consistent(new)
      /\ DOMAIN new = DOMAIN tree
      /\ \A m \in DOMAIN tree: /\ new[m].type = tree[m].type
                               /\ new[m].parent = tree[m].parent
                               /\ m # n => new[m].title = tree[m].title
      /\ new[n].title = title
  BY <1>6 DEF TitleSet
<1>8. Rooted(new)
  <2>1. \A T: HasChildrenOf(T, tree) <=> HasChildrenOf(T, new)
    BY <1>7 DEF HasChildrenOf, Below
  <2>2. NodesBelow(tree, Root) = NodesBelow(new, Root)
    BY <2>1, BelowItself, BelowIsLeast
  <2>. QED
    BY <1>3, <1>7, <2>2 DEF Rooted
<1>9. Typed(new)
  BY <1>1, <1>3, <1>7 DEF Typed
<1>10. EmptyFolders(new) = {}
  BY <1>3, <1>7 DEF EmptyFolders
<1>a. FilesAreLeaves(new)
  BY <1>3, <1>7 DEF FilesAreLeaves, DocumentInv, Whole, TreeShape, Below
<1>11. DocumentInv'
  <2>1. Whole(new) /\ EmptyFolders(new) = {}
    BY <1>7, <1>8, <1>9, <1>10, <1>a DEF Whole
  <2>2. Whole(tree') /\ EmptyFolders(tree') = {} /\ view' = ShowTree(tree')
    BY <1>5, <2>1 DEF new, ViewMirrorsTree
  <2>. QED
    BY <2>2 DEF DocumentInv
<1>. QED
  BY <1>4, <1>11 DEF IInv

(***************************************************************************)
(* DocumentReader::read, one entry after the other.                        *)
(***************************************************************************)

ReadNext(c, s, i) == CreateHierarchy(s, Root, c[i], "Copy").scene

Reading(c, s, i) ==
  /\ GoodScene(s)
  /\ s.emits = FALSE
  /\ s.outcome \in {"done", "thrown", "full"}
  /\ Root \in DOMAIN s.tree
  /\ s.outcome # "full" => EmptyFolders(s.tree) = {}

Entering == INSTANCE Iteration WITH Step <- ReadNext, Good <- Reading

\* What every entry keeps holds after the last one.
LEMMA EnteringKeeps ==
  \A n \in Nat: \A c, base, f:
    /\ f = CHOOSE g: g = [i \in 0 .. n |-> IF i = 0 THEN base
                                           ELSE ReadNext(c, g[i - 1], i)]
    /\ Reading(c, base, 0)
    /\ \A i \in 1 .. n: \A d:
         Reading(c, d, i - 1) => Reading(c, ReadNext(c, d, i), i)
    => Reading(c, f[n], n)
BY Entering!LoopKeeps

\* A document without entries.
EmptyTree == [n \in {Root} |-> NewNode("Container", RootTitle, None)]

\* The tree that reading starts with is whole.
LEMMA EmptyTreeIsWhole ==
  ASSUME Titles # {}
  PROVE  Whole(EmptyTree) /\ EmptyFolders(EmptyTree) = {}
<1>. DEFINE e == EmptyTree
<1>1. /\ DOMAIN e = {Root} /\ DOMAIN e[Root] = NodeFields
      /\ e[Root].type = "Container" /\ e[Root].title = RootTitle
      /\ e[Root].parent = None /\ e[Root].list = <<>> /\ e[Root].map = <<>>
  BY DEF EmptyTree, NewNode, NodeFields
<1>2. RootTitle \in AnyTitle /\ RootTitle \in AllTitles
  <2>1. RootTitle \in Titles
    BY DEF RootTitle
  <2>2. RootTitle = CopyTitle(RootTitle, 0) /\ 0 <= MaxCopy
    BY <2>1, CopiesAreTitles, BoundsAssumption
  <2>. QED
    BY <2>1, <2>2, CopiesAreTitles
<1>. HIDE DEF e
<1>3. Root # None /\ Root \in 0 .. MaxNodes /\ Below(e) = {}
  BY <1>1, BoundsAssumption DEF Root, None, Below
<1>4. TreeShape(e)
  <2>1. <<>> \in Seq(Below(e))
    BY EmptySeq
  <2>. QED
    BY <1>1, <1>2, <1>3, <2>1 DEF TreeShape
<1>5. SiblingsConsistent(e, Root)
  BY <1>1, <1>3 DEF SiblingsConsistent, ToSet
<1>6. Rooted(e)
  <2>1. Root \in NodesBelow(e, Root)
    BY BelowItself
  <2>2. NodesBelow(e, Root) \subseteq DOMAIN e
    BY <1>1, BelowIsThere
  <2>. QED
    BY <1>1, <2>1, <2>2 DEF Rooted
<1>7. Typed(e)
  BY <1>1, <1>2, <1>3 DEF Typed
<1>8. EmptyFolders(e) = {}
  BY <1>1 DEF EmptyFolders
<1>9. Whole(e)
  BY <1>1, <1>3, <1>4, <1>5, <1>6, <1>7 DEF Whole, Consistent, FilesAreLeaves
<1>. QED
  BY <1>8, <1>9 DEF e

\* Reading a file leaves a whole document, and its items.
LEMMA LoadKeeps ==
  ASSUME NEW entries \in DescriptorLists, Load(entries)
  PROVE  IInv'
<1>. DEFINE n == Len(entries)
            base == [Scene(FALSE) EXCEPT
                       !.tree = [m \in {Root} |-> NewNode("Container", RootTitle, None)]]
            read[i \in 0 .. n] ==
              IF i = 0 THEN base
              ELSE CreateHierarchy(read[i - 1], Root, entries[i], "Copy").scene
<1>1. /\ read[n].outcome # "full"
      /\ tree' = read[n].tree /\ view' = ShowTree(read[n].tree)
      /\ loaded' = TRUE /\ changed' = FALSE /\ outcome' = "done"
  BY DEF Load
<1>2. read = CHOOSE g: g = [i \in 0 .. n |-> IF i = 0 THEN base
                                             ELSE ReadNext(entries, g[i - 1], i)]
  BY DEF ReadNext
<1>3. entries \in Seq(Paths) /\ n \in Nat /\ n = Len(entries) /\ n # 0
  BY ListsAreSeqs, LenProperties
<1>4. Titles # {}
  <2>1. entries[1] \in Paths
    BY <1>3, ElementOfSeq
  <2>2. entries[1] \in Seq(Titles) /\ Len(entries[1]) # 0
    BY <2>1, PathsAreSeqs
  <2>3. entries[1][1] \in Titles
    BY <2>2, ElementOfSeq, LenProperties
  <2>. QED
    BY <2>3
<1>5. Reading(entries, base, 0)
  <2>1. /\ IsScene(base) /\ base.tree = EmptyTree /\ base.emits = FALSE
        /\ base.changed = FALSE /\ base.outcome = "done"
    <3>1. base = [Scene(FALSE) EXCEPT !.tree = EmptyTree]
      BY DEF EmptyTree
    <3>. HIDE DEF base
    <3>2. base = [tree |-> EmptyTree, view |-> view, emits |-> FALSE,
                  changed |-> FALSE, outcome |-> "done"]
      BY <3>1 DEF Scene
    <3>. QED
      BY <3>2 DEF IsScene
  <2>. HIDE DEF base
  <2>2. GoodScene(base)
    BY <1>4, <2>1, EmptyTreeIsWhole DEF GoodScene
  <2>3. Root \in DOMAIN base.tree
    BY <2>1 DEF EmptyTree
  <2>. QED
    BY <1>4, <2>1, <2>2, <2>3, EmptyTreeIsWhole DEF Reading
<1>. HIDE DEF n, base, read
<1>6. ASSUME NEW i \in 1 .. n, NEW d, Reading(entries, d, i - 1)
      PROVE  Reading(entries, ReadNext(entries, d, i), i)
  <2>1. entries[i] \in Seq(Titles) /\ Len(entries[i]) # 0
    <3>1. entries[i] \in Paths
      BY <1>3, ElementOfSeq
    <3>. QED
      BY <3>1, PathsAreSeqs
  <2>2. HierarchyCreated(d, Root, ReadNext(entries, d, i))
    <3>1. d.tree[Root].type # "File"
      BY <1>6 DEF Reading, GoodScene, Whole, Typed
    <3>. QED
      BY <1>6, <2>1, <3>1, CreateHierarchyKeeps DEF Reading, ReadNext
  <2>. QED
    BY <1>6, <2>2 DEF HierarchyCreated, Reading
<1>7. Reading(entries, read[n], n)
  BY <1>2, <1>3, <1>5, <1>6, EnteringKeeps
<1>8. Whole(read[n].tree) /\ EmptyFolders(read[n].tree) = {}
  BY <1>1, <1>7 DEF Reading, GoodScene
<1>9. Whole(tree') /\ EmptyFolders(tree') = {} /\ view' = ShowTree(tree')
  BY <1>1, <1>8
<1>10. DocumentInv'
  BY <1>9 DEF DocumentInv
<1>. QED
  BY <1>1, <1>10 DEF IInv

(***************************************************************************)
(* Every step.                                                             *)
(***************************************************************************)

\* An edit keeps the document whole, shown and announced.
LEMMA EditKeeps ==
  ASSUME IInv, Edit
  PROVE  IInv' /\ (tree' # tree => changed')
<1>1. loaded \in BOOLEAN /\ loaded /\ DocumentInv
  BY DEF IInv, Edit
<1>2. CASE \E p \in Folders: \E list \in DescriptorLists: AddFiles(p, list)
  <2>1. PICK p \in Folders, list \in DescriptorLists: AddFiles(p, list)
    BY <1>2
  <2>2. PICK choice: CreateNodeSet(p, list, choice)
    BY <2>1 DEF AddFiles
  <2>3. p \in DOMAIN tree /\ tree[p].type # "File"
    BY <2>1 DEF Folders
  <2>. QED
    BY <1>1, <2>2, <2>3, CreateNodeSetKeeps
<1>3. CASE \E S \in Selections: \E nodes \in SetToSeqs(S): SelectionRemove(nodes)
  BY <1>1, <1>3, SelectionRemoveKeeps
<1>4. CASE \E n \in DOMAIN tree \ {Root}: \E t \in Titles: \E k \in {0, 1}:
             Rename(n, CopyTitle(t, k))
  BY <1>1, <1>4, RenameKeeps DEF Below
<1>. QED
  BY <1>2, <1>3, <1>4 DEF Edit

\* Closing the document leaves nothing.
LEMMA UnloadKeeps ==
  ASSUME Unload
  PROVE  IInv'
BY DEF Unload, IInv

\* The window starts without a document.
LEMMA InitGivesIInv == Init => IInv
BY DEF Init, IInv

\* No step breaks the invariant.
LEMMA StepKeepsIInv == IInv /\ [Next]_vars => IInv'
<1>. SUFFICES ASSUME IInv, [Next]_vars
              PROVE  IInv'
  OBVIOUS
<1>1. ASSUME NEW entries \in DescriptorLists, Load(entries)
      PROVE  IInv'
  BY <1>1, LoadKeeps
<1>2. CASE Unload
  BY <1>2, UnloadKeeps
<1>3. CASE Edit
  BY <1>3, EditKeeps
<1>4. CASE UNCHANGED vars
  BY <1>4 DEF vars, IInv, DocumentInv
<1>. QED
  BY <1>1, <1>2, <1>3, <1>4 DEF Next

\* A document is a whole tree that is shown, without an empty folder, after
\* any sequence of loads, insertions, removals and renames.
THEOREM DocumentsStayWhole == Spec => []IInv
BY InitGivesIInv, StepKeepsIInv, PTL DEF Spec

\* A whole document has its types.
LEMMA WholeIsTyped == IInv => TypeOK
<1>. SUFFICES ASSUME IInv
              PROVE  TypeOK
  OBVIOUS
<1>1. CASE ~loaded
  BY <1>1 DEF IInv, TypeOK
<1>2. CASE loaded
  <2>1. DocumentInv /\ Consistent(tree) /\ TreeShape(tree) /\ Typed(tree)
    BY <1>2 DEF IInv, DocumentInv, Whole, Consistent
  <2>2. ASSUME NEW n \in DOMAIN tree
        PROVE  /\ tree[n].type = "Container" <=> n = Root
               /\ tree[n].type \in {"Container", "Folder", "File"}
               /\ tree[n].title \in AllTitles
               /\ tree[n].parent \in DOMAIN tree \union {None}
    BY <2>1 DEF Typed, TreeShape, Below
  <2>3. ASSUME NEW n \in DOMAIN tree
        PROVE  DOMAIN tree[n].map \subseteq {Key(t): t \in AllTitles}
    <3>1. /\ ToSet(tree[n].list) \subseteq DOMAIN tree
          /\ DOMAIN tree[n].map = {Key(tree[m].title): m \in ToSet(tree[n].list)}
      BY <2>1 DEF Consistent, SiblingsConsistent
    <3>. QED
      BY <2>1, <3>1 DEF Typed
  <2>4. ASSUME NEW n \in DOMAIN tree
        PROVE  tree[n].list \in Seq(DOMAIN tree)
    <3>1. /\ tree[n].list \in Seq(Below(tree))
          /\ ToSet(tree[n].list) \subseteq DOMAIN tree
      BY <2>1 DEF Consistent, TreeShape, SiblingsConsistent
    <3>. QED
      BY <3>1, SeqOfMembers
  <2>5. /\ DOMAIN view = DOMAIN tree
        /\ \A n \in DOMAIN view: view[n].text \in AllTitles
    BY <2>1, <2>2 DEF DocumentInv, ShowTree
  <2>6. DOMAIN tree \subseteq 0 .. MaxNodes
    BY <2>1 DEF Typed
  <2>. QED
    BY <2>2, <2>3, <2>4, <2>5, <2>6 DEF TypeOK, IInv
<1>. QED
  BY <1>1, <1>2 DEF IInv

\* A whole document has what the properties say.
LEMMA WholeIsConsistent ==
  IInv => ChildrenConsistent /\ ViewMirrorsTree /\ NoDanglingNode /\ NoEmptyFolder
<1>. SUFFICES ASSUME IInv
              PROVE  ChildrenConsistent /\ ViewMirrorsTree /\ NoDanglingNode /\ NoEmptyFolder
  OBVIOUS
<1>1. NoDanglingNode
  BY DEF IInv, NoDanglingNode
<1>2. CASE ~loaded
  BY <1>1, <1>2 DEF IInv, ChildrenConsistent, ViewMirrorsTree, NoEmptyFolder, ShowTree
<1>3. CASE loaded
  <2>1. DocumentInv /\ Consistent(tree)
    BY <1>3 DEF IInv, DocumentInv, Whole
  <2>2. NoEmptyFolder
    BY <2>1, ListOfChildren DEF DocumentInv, NoEmptyFolder, EmptyFolders
  <2>. QED
    BY <1>1, <2>1, <2>2 DEF DocumentInv, Consistent, ChildrenConsistent, ViewMirrorsTree
<1>. QED
  BY <1>2, <1>3 DEF IInv

\* The maps, the lists, the titles and the items have their types.
THEOREM TreeTypeCorrect == Spec => []TypeOK
BY DocumentsStayWhole, WholeIsTyped, PTL

\* Whatever is loaded, inserted, replaced, removed and renamed, and however
\* often: every binary search over siblings finds who it looks for.
THEOREM SiblingsStayConsistent == Spec => []ChildrenConsistent
BY DocumentsStayWhole, WholeIsConsistent, PTL

\* The items show the nodes, though they know of them by indexes alone.
THEOREM ItemsFollowNodes == Spec => []ViewMirrorsTree
BY DocumentsStayWhole, WholeIsConsistent, PTL

\* A removal of several nodes never comes to one that has gone.
THEOREM RemovalsFindTheirNodes == Spec => []NoDanglingNode
BY DocumentsStayWhole, WholeIsConsistent, PTL

\* No folder is ever left empty, to be lost with the next save.
THEOREM FoldersAreNotEmpty == Spec => []NoEmptyFolder
BY DocumentsStayWhole, WholeIsConsistent, PTL

\* Every step that changes the document tells the window so.
THEOREM EditsAreAnnounced == Spec => ChangesAnnounced
<1>1. IInv /\ [Next]_vars => [loaded /\ loaded' /\ tree' # tree => changed']_vars
  <2>. SUFFICES ASSUME IInv, Next, loaded, loaded', tree' # tree
                PROVE  changed'
    OBVIOUS
  <2>1. Edit
    BY DEF Next, Load, Unload
  <2>. QED
    BY <2>1, EditKeeps
<1>. QED
  BY <1>1, DocumentsStayWhole, PTL DEF Spec, ChangesAnnounced
=============================================================================
