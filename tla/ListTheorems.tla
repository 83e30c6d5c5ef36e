---------------------------- MODULE ListTheorems ----------------------------
(***************************************************************************)
(* Facts about numbers, lists and sums that the proofs of both graphs      *)
(* rest on: what a sorted list holds, and what a sum over a finite set is. *)
(*                                                                         *)
(* Induction is stated over a set of numbers, or of sets: what is to be    *)
(* shown of each of them is that it belongs to the set.                    *)
(***************************************************************************)
EXTENDS Orders, SequencesExt, TLAPS, FiniteSetTheorems, WellFoundedInduction

(***************************************************************************)
(* Numbers and finite sets, one after the other.                           *)
(***************************************************************************)
\* Numbers have a least one, however many there are.
LEMMA LeastExists == ASSUME NEW T, T \subseteq Nat, T # {} PROVE \E x \in T : \A y \in T : x <= y
<1> DEFINE R == OpToRel(<, Nat)
<1>1. IsWellFoundedOn(R, Nat)
    BY NatLessThanWellFounded
<1>2. \A x, y \in Nat : y < x => <<y, x>> \in R
    BY DEF OpToRel
<1> HIDE DEF R
<1>3. PICK x \in T : \A y \in T : ~(<<y, x>> \in R)
    BY <1>1, WFMin
<1>4. \A y \in T : ~(y < x)
    BY <1>2, <1>3
<1> QED
    BY <1>4

\* What holds of 0 and of the successor of each number it holds of.
LEMMA NumberByNumber ==
  ASSUME NEW Q, 0 \in Q, \A n \in Nat : n \in Q => n + 1 \in Q
  PROVE  \A n \in Nat : n \in Q
<1> DEFINE open == Nat \ Q
<1>1. ASSUME open # {} PROVE FALSE
  <2>1. PICK m \in open : \A k \in open : m <= k
      BY <1>1, LeastExists
  <2>2. m - 1 \in Nat /\ m - 1 \notin open
      BY <2>1
  <2>3. m - 1 \in Q /\ (m - 1) + 1 = m
      BY <2>2
  <2>4. m \in Q
      BY <2>2, <2>3
  <2> QED
      BY <2>1, <2>4
<1> QED
    BY <1>1

\* What holds of a subset of a finite set once it does with any element less.
LEMMA ElementByElement ==
  ASSUME NEW S, IsFiniteSet(S), NEW Q,
         \A T \in SUBSET S : (\A x \in T : T \ {x} \in Q) => T \in Q
  PROVE  \A T \in SUBSET S : T \in Q
<1> DEFINE open == {n \in Nat : \E T \in SUBSET S : Cardinality(T) = n /\ T \notin Q}
<1>1. ASSUME open # {} PROVE FALSE
  <2>1. PICK n \in open : \A k \in open : n <= k
      BY <1>1, LeastExists
  <2>2. PICK T \in SUBSET S : Cardinality(T) = n /\ T \notin Q
      BY <2>1
  <2>3. ASSUME NEW x \in T PROVE T \ {x} \in Q
    <3>1. IsFiniteSet(T) /\ Cardinality(T \ {x}) = n - 1 /\ IsFiniteSet(T \ {x})
        BY <2>2, FS_Subset, FS_RemoveElement
    <3>2. Cardinality(T \ {x}) \in Nat
        BY <3>1, FS_CardinalityType
    <3>3. n \in Nat /\ ~(n <= n - 1)
        OBVIOUS
    <3>4. Cardinality(T \ {x}) \notin open
      <4> HIDE DEF open
      <4> QED
          BY <2>1, <3>1, <3>3, Zenon
    <3> QED
        BY <3>2, <3>4
  <2> QED
      BY <2>2, <2>3
<1> QED
  <2> SUFFICES ASSUME NEW T \in SUBSET S PROVE T \in Q
      OBVIOUS
  <2>1. Cardinality(T) \in Nat
      BY FS_Subset, FS_CardinalityType
  <2> QED
      BY <1>1, <2>1

\* The least and the greatest of a set of numbers.
LEMMA LeastIsOneOf ==
  ASSUME NEW T, T \subseteq Nat, T # {}
  PROVE  Min(T) \in T
<1>1. \E x \in T : \A y \in T : x <= y
    BY LeastExists
<1> QED
    BY <1>1 DEF Min

(***************************************************************************)
(* Lists.                                                                  *)
(***************************************************************************)
IsList(s) == s \in Seq(Range(s))

\* What comes before an element of a finite strict order.
Predecessors(S, R, x) == {y \in S : <<y, x>> \in R}

StrictOrder(S, R) ==
  /\ \A x \in S : <<x, x>> \notin R
  /\ \A x, y, z \in S : <<x, y>> \in R /\ <<y, z>> \in R => <<x, z>> \in R
  /\ \A x, y \in S : x # y => <<x, y>> \in R \/ <<y, x>> \in R

\* In a strict order of a finite set there is one element for each place.
LEMMA PlaceOfEach ==
  ASSUME NEW S, IsFiniteSet(S), NEW R, StrictOrder(S, R)
  PROVE  \A k \in 1..Cardinality(S) : \E x \in S : Cardinality(Predecessors(S, R, x)) = k - 1
<1> DEFINE n == Cardinality(S)
           place == [x \in S |-> Cardinality(Predecessors(S, R, x))]
<1>1. n \in Nat
    BY FS_CardinalityType
<1>2. ASSUME NEW x \in S
      PROVE  /\ IsFiniteSet(Predecessors(S, R, x)) /\ Cardinality(Predecessors(S, R, x)) \in 0..(n - 1)
             /\ x \notin Predecessors(S, R, x)
  <2>1. x \notin Predecessors(S, R, x) /\ Predecessors(S, R, x) \subseteq S
      BY DEF Predecessors, StrictOrder
  <2>2. IsFiniteSet(Predecessors(S, R, x)) /\ Cardinality(Predecessors(S, R, x)) <= n
        /\ Cardinality(Predecessors(S, R, x)) # n
      BY <2>1, FS_Subset
  <2>3. Cardinality(Predecessors(S, R, x)) \in Nat
      BY <2>2, FS_CardinalityType
  <2> QED
      BY <1>1, <2>1, <2>2, <2>3
<1>3. ASSUME NEW x \in S, NEW y \in S, <<x, y>> \in R
      PROVE  Cardinality(Predecessors(S, R, x)) < Cardinality(Predecessors(S, R, y))
  <2> DEFINE upTo == Predecessors(S, R, x) \cup {x}
  <2>1. upTo \subseteq Predecessors(S, R, y)
      BY <1>3 DEF Predecessors, StrictOrder
  <2>2. Cardinality(upTo) = Cardinality(Predecessors(S, R, x)) + 1
      BY <1>2, FS_AddElement
  <2>3. Cardinality(upTo) <= Cardinality(Predecessors(S, R, y))
      BY <1>2, <2>1, FS_Subset
  <2>4. Cardinality(Predecessors(S, R, x)) \in Int /\ Cardinality(Predecessors(S, R, y)) \in Int
      BY <1>2
  <2> QED
      BY <2>2, <2>3, <2>4
<1>4. place \in Injection(S, 0..(n - 1))
  <2>1. place \in [S -> 0..(n - 1)]
      BY <1>2
  <2>2. \A x, y \in S : place[x] = place[y] => x = y
    <3> SUFFICES ASSUME NEW x \in S, NEW y \in S, x # y PROVE place[x] # place[y]
        OBVIOUS
    <3>1. Cardinality(Predecessors(S, R, x)) < Cardinality(Predecessors(S, R, y))
          \/ Cardinality(Predecessors(S, R, y)) < Cardinality(Predecessors(S, R, x))
        BY <1>3 DEF StrictOrder
    <3>2. Cardinality(Predecessors(S, R, x)) \in Int /\ Cardinality(Predecessors(S, R, y)) \in Int
        BY <1>2
    <3> QED
        BY <3>1, <3>2
  <2> QED
      BY <2>1, <2>2 DEF Injection, IsInjective
<1>5. IsFiniteSet(0..(n - 1)) /\ Cardinality(0..(n - 1)) = n
    BY <1>1, FS_Interval
<1>6. place \in Surjection(S, 0..(n - 1))
  <2> HIDE DEF place
  <2> QED
      BY <1>4, <1>5, FS_Injection
<1> SUFFICES ASSUME NEW k \in 1..n PROVE \E x \in S : place[x] = k - 1
    BY DEF place
<1>7. k - 1 \in 0..(n - 1)
    BY <1>1
<1> HIDE DEF place
<1> QED
    BY <1>6, <1>7 DEF Surjection

\* The list sorted by a strict order has each element once, in that order.
LEMMA SortedBy ==
  ASSUME NEW S, IsFiniteSet(S), NEW R, StrictOrder(S, R), NEW f,
         \A k \in 1..Cardinality(S) : f[k] = CHOOSE x \in S : Cardinality(Predecessors(S, R, x)) = k - 1
  PROVE  /\ \A k \in 1..Cardinality(S) : f[k] \in S
         /\ \A x \in S : \E k \in 1..Cardinality(S) : f[k] = x
         /\ \A k, l \in 1..Cardinality(S) : k < l => <<f[k], f[l]>> \in R /\ f[k] # f[l]
<1> DEFINE n == Cardinality(S)
           g == [k \in 1..n |-> f[k]]
<1>1. n \in Nat
    BY FS_CardinalityType
<1>2. \A k \in 1..n : f[k] \in S /\ Cardinality(Predecessors(S, R, f[k])) = k - 1
  <2> SUFFICES ASSUME NEW k \in 1..n PROVE f[k] \in S /\ Cardinality(Predecessors(S, R, f[k])) = k - 1
      OBVIOUS
  <2>1. \E x \in S : Cardinality(Predecessors(S, R, x)) = k - 1
      BY PlaceOfEach
  <2> QED
      BY <2>1
<1>3. \A k, l \in 1..n : k # l => f[k] # f[l]
  <2> SUFFICES ASSUME NEW k \in 1..n, NEW l \in 1..n, k # l PROVE f[k] # f[l]
      OBVIOUS
  <2>1. k - 1 # l - 1
      OBVIOUS
  <2> QED
      BY <1>2, <2>1
<1>4. g \in Surjection(1..n, S)
  <2>1. g \in Injection(1..n, S)
    <3>1. g \in [1..n -> S]
        BY <1>2
    <3>2. \A k, l \in 1..n : g[k] = g[l] => k = l
        BY <1>3
    <3> HIDE DEF g
    <3> QED
        BY <3>1, <3>2 DEF Injection, IsInjective
  <2>2. Cardinality(1..n) = n
      BY <1>1, FS_Interval
  <2> HIDE DEF g
  <2> QED
      BY <2>1, <2>2, FS_Injection
<1>5. \A x \in S : \E k \in 1..n : f[k] = x
    BY <1>4 DEF Surjection
<1>6. ASSUME NEW k \in 1..n, NEW l \in 1..n, k < l PROVE <<f[k], f[l]>> \in R
  <2>1. <<f[k], f[l]>> \in R \/ <<f[l], f[k]>> \in R
      BY <1>2, <1>3, <1>6 DEF StrictOrder
  <2>2. ASSUME <<f[l], f[k]>> \in R PROVE FALSE
    <3>1. Predecessors(S, R, f[l]) \subseteq Predecessors(S, R, f[k])
        BY <1>2, <2>2 DEF StrictOrder, Predecessors
    <3>2. IsFiniteSet(Predecessors(S, R, f[k]))
        BY FS_Subset DEF Predecessors
    <3>3. Cardinality(Predecessors(S, R, f[l])) <= Cardinality(Predecessors(S, R, f[k]))
        BY <3>1, <3>2, FS_Subset
    <3>4. l - 1 <= k - 1
        BY <1>2, <3>3
    <3> QED
        BY <1>6, <3>4
  <2> QED
      BY <2>1, <2>2
<1> QED
    BY <1>2, <1>3, <1>5, <1>6

\* The first few of a strict order are that many.
LEMMA FirstFew ==
  ASSUME NEW S, IsFiniteSet(S), NEW R, StrictOrder(S, R), NEW m \in 0..Cardinality(S)
  PROVE  Cardinality({x \in S : Cardinality(Predecessors(S, R, x)) < m}) = m
<1> DEFINE n == Cardinality(S)
           f == [k \in 1..n |-> CHOOSE x \in S : Cardinality(Predecessors(S, R, x)) = k - 1]
           few == {x \in S : Cardinality(Predecessors(S, R, x)) < m}
           h == [k \in 1..m |-> f[k]]
<1>1. n \in Nat /\ m \in Nat /\ m <= n
    BY FS_CardinalityType
<1>2. ASSUME NEW k \in 1..n PROVE f[k] \in S /\ Cardinality(Predecessors(S, R, f[k])) = k - 1
  <2>1. \E x \in S : Cardinality(Predecessors(S, R, x)) = k - 1
      BY PlaceOfEach
  <2> QED
      BY <2>1
<1>3. \A k \in 1..n : f[k] = CHOOSE x \in S : Cardinality(Predecessors(S, R, x)) = k - 1
    OBVIOUS
<1> HIDE DEF f
<1>4. \A x \in S : \E k \in 1..n : f[k] = x
    BY <1>3, SortedBy
<1>5. \A k, l \in 1..n : f[k] = f[l] => k = l
    BY <1>1, <1>2
<1>6. \A k \in 1..m : k \in 1..n /\ k - 1 < m
    BY <1>1
<1>7. h \in [1..m -> few]
    BY <1>2, <1>6
<1>8. \A k, l \in 1..m : h[k] = h[l] => k = l
    BY <1>5, <1>6
<1>9. \A x \in few : \E k \in 1..m : h[k] = x
  <2> SUFFICES ASSUME NEW x \in few PROVE \E k \in 1..m : f[k] = x
      OBVIOUS
  <2>1. PICK k \in 1..n : f[k] = x
      BY <1>4
  <2>2. k - 1 < m
      BY <1>2, <2>1
  <2> QED
      BY <1>1, <2>1, <2>2
<1> HIDE DEF h, few
<1>10. h \in Bijection(1..m, few)
    BY <1>7, <1>8, <1>9 DEF Bijection, Injection, Surjection, IsInjective
<1>11. Cardinality(few) = m
    BY <1>1, <1>10, FS_CountingElements DEF ExistsBijection
<1> QED
    BY <1>11 DEF few

\* The elements of a list that is built from its places.
LEMMA ListOfPlaces ==
  ASSUME NEW n \in Nat, NEW f, f = [k \in 1..n |-> f[k]]
  PROVE  SubSeq(f, 1, n) = f /\ IsList(f) /\ Len(f) = n /\ DOMAIN f = 1..n
<1>1. f \in Seq(Range(f)) /\ Len(f) = n
    BY DEF Range
<1>2. SubSeq(f, 1, n) = f
    BY <1>1
<1> QED
    BY <1>1, <1>2 DEF IsList

LEMMA ListBuiltOf ==
  ASSUME NEW n \in Nat, NEW f, f = [k \in 1..n |-> f[k]], NEW T, \A k \in 1..n : f[k] \in T
  PROVE  SubSeq(f, 1, n) \in Seq(T)
<1>1. f \in Seq(T)
    OBVIOUS
<1> QED
    BY <1>1, ListOfPlaces

LEMMA AnySequenceIsAList ==
  ASSUME NEW T, NEW s \in Seq(T)
  PROVE  IsList(s) /\ Range(s) \subseteq T
<1>1. Len(s) \in Nat /\ s = [k \in 1..Len(s) |-> s[k]] /\ \A k \in 1..Len(s) : s[k] \in T
    OBVIOUS
<1>2. DOMAIN s = 1..Len(s)
    OBVIOUS
<1> QED
    BY <1>1, <1>2, ListOfPlaces DEF Range

LEMMA ListFacts ==
  ASSUME NEW s, IsList(s)
  PROVE  Len(s) \in Nat /\ DOMAIN s = 1..Len(s) /\ IsFiniteSet(DOMAIN s)
<1>1. Len(s) \in Nat /\ DOMAIN s = 1..Len(s)
    BY DEF IsList
<1> QED
    BY <1>1, FS_Interval

\* A finite set in a strict order
InOrderOf(S, R) ==
  SubSeq([k \in 1..Cardinality(S) |-> CHOOSE x \in S : Cardinality(Predecessors(S, R, x)) = k - 1],
         1, Cardinality(S))

LEMMA InOrderOfIs ==
  ASSUME NEW S, IsFiniteSet(S), NEW R, StrictOrder(S, R)
  PROVE  LET s == InOrderOf(S, R)
         IN  /\ IsList(s) /\ s \in Seq(S) /\ Len(s) = Cardinality(S) /\ DOMAIN s = 1..Cardinality(S)
             /\ Range(s) = S
             /\ \A k, l \in DOMAIN s : k < l => <<s[k], s[l]>> \in R /\ s[k] # s[l]
<1> DEFINE n == Cardinality(S)
           f == [k \in 1..n |-> CHOOSE x \in S : Cardinality(Predecessors(S, R, x)) = k - 1]
           s == InOrderOf(S, R)
<1>1. n \in Nat
    BY FS_CardinalityType
<1>2. s = SubSeq(f, 1, n)
    BY DEF InOrderOf
<1>3. f = [k \in 1..n |-> f[k]]
    OBVIOUS
<1>4. \A k \in 1..n : f[k] = CHOOSE x \in S : Cardinality(Predecessors(S, R, x)) = k - 1
    OBVIOUS
<1> HIDE DEF f, s
<1>5. /\ \A k \in 1..n : f[k] \in S
      /\ \A x \in S : \E k \in 1..n : f[k] = x
      /\ \A k, l \in 1..n : k < l => <<f[k], f[l]>> \in R /\ f[k] # f[l]
    BY <1>4, SortedBy
<1>6. s = f /\ IsList(f) /\ Len(f) = n /\ DOMAIN f = 1..n
    BY <1>1, <1>2, <1>3, ListOfPlaces, Zenon
<1>7. f \in Seq(S)
    BY <1>1, <1>3, <1>5, <1>6, ListBuiltOf
<1>8. Range(f) = S
    BY <1>5, <1>6 DEF Range
<1> QED
    BY <1>5, <1>6, <1>7, <1>8 DEF s

\* What sorting a set of numbers means.
LEMMA InOrderIs ==
  ASSUME NEW S
  PROVE  InOrder(S) = SubSeq([k \in 1..Cardinality(S) |->
                                CHOOSE x \in S : Cardinality({y \in S : y < x}) = k - 1], 1, Cardinality(S))
BY DEF InOrder, Sorted, Listing

\* A set of positions, in order.
LEMMA PositionsInOrder ==
  ASSUME NEW S, S \subseteq Nat, IsFiniteSet(S)
  PROVE  /\ InOrder(S) \in Seq(S)
         /\ DOMAIN InOrder(S) = 1..Cardinality(S) /\ Len(InOrder(S)) = Cardinality(S)
         /\ \A k \in 1..Cardinality(S) : InOrder(S)[k] \in S
         /\ \A x \in S : \E k \in 1..Cardinality(S) : InOrder(S)[k] = x
         /\ \A k, l \in 1..Cardinality(S) : k < l => InOrder(S)[k] < InOrder(S)[l]
         /\ \A k, l \in 1..Cardinality(S) : InOrder(S)[k] = InOrder(S)[l] => k = l
<1> DEFINE n == Cardinality(S)
           R == {p \in Nat \X Nat : p[1] < p[2]}
           At(k) == CHOOSE x \in S : Cardinality({y \in S : y < x}) = k - 1
           f == [k \in 1..n |-> At(k)]
<1>1. n \in Nat
    BY FS_CardinalityType
<1>2. StrictOrder(S, R)
    BY DEF StrictOrder
<1>3. \A x \in S : Predecessors(S, R, x) = {y \in S : y < x}
    BY DEF Predecessors
<1>4. \A x, y : <<x, y>> \in R => x < y
    OBVIOUS
<1>5. InOrder(S) = SubSeq(f, 1, n)
    BY InOrderIs
<1>6. \A k \in 1..n : f[k] = CHOOSE x \in S : Cardinality(Predecessors(S, R, x)) = k - 1
  <2> HIDE DEF R
  <2> SUFFICES ASSUME NEW k \in 1..n
               PROVE  At(k) = CHOOSE x \in S : Cardinality(Predecessors(S, R, x)) = k - 1
      OBVIOUS
  <2>1. \A x \in S : Cardinality({y \in S : y < x}) = k - 1 <=> Cardinality(Predecessors(S, R, x)) = k - 1
      BY <1>3, Zenon
  <2> QED
      BY <2>1, Zenon
<1> HIDE DEF At
<1>7. f = [k \in 1..n |-> f[k]]
    OBVIOUS
<1> HIDE DEF f, R
<1>8. InOrder(S) = f /\ DOMAIN f = 1..n /\ Len(f) = n
    BY <1>1, <1>5, <1>7, ListOfPlaces, Zenon
<1>9. /\ \A k \in 1..n : f[k] \in S
      /\ \A x \in S : \E k \in 1..n : f[k] = x
      /\ \A k, l \in 1..n : k < l => f[k] < f[l] /\ f[k] # f[l]
  <2>1. /\ \A k \in 1..n : f[k] \in S
        /\ \A x \in S : \E k \in 1..n : f[k] = x
        /\ \A k, l \in 1..n : k < l => <<f[k], f[l]>> \in R /\ f[k] # f[l]
      BY <1>2, <1>6, SortedBy
  <2> QED
      BY <1>4, <2>1
<1>10. f \in Seq(S)
    BY <1>1, <1>7, <1>9, ListBuiltOf, ListOfPlaces
<1>11. \A k, l \in 1..n : f[k] = f[l] => k = l
    BY <1>9
<1> QED
    BY <1>8, <1>9, <1>10, <1>11

\* The elements of a list at some of its positions.
LEMMA AtPositionsOf ==
  ASSUME NEW s, IsList(s), NEW S \in SUBSET DOMAIN s
  PROVE  /\ IsList(AtPositions(s, S))
         /\ DOMAIN AtPositions(s, S) = 1..Cardinality(S)
         /\ \A k \in DOMAIN AtPositions(s, S) : InOrder(S)[k] \in S /\ AtPositions(s, S)[k] = s[InOrder(S)[k]]
<1> DEFINE f == [k \in 1..Cardinality(S) |-> s[InOrder(S)[k]]]
<1>1. S \subseteq Nat /\ IsFiniteSet(S) /\ Cardinality(S) \in Nat
    BY ListFacts, FS_Subset, FS_CardinalityType
<1>2. AtPositions(s, S) = SubSeq(f, 1, Cardinality(S))
    BY DEF AtPositions, Listing
<1>3. f = [k \in 1..Cardinality(S) |-> f[k]]
    OBVIOUS
<1>4. AtPositions(s, S) = f /\ IsList(f) /\ DOMAIN f = 1..Cardinality(S)
  <2> HIDE DEF f
  <2> QED
      BY <1>1, <1>2, <1>3, ListOfPlaces, Zenon
<1>5. \A k \in 1..Cardinality(S) : f[k] = s[InOrder(S)[k]]
    OBVIOUS
<1> HIDE DEF f
<1> QED
    BY <1>1, <1>4, <1>5, PositionsInOrder

\* The first elements of a list.
LEMMA FirstOnesOf ==
  ASSUME NEW s, IsList(s), NEW n \in Nat
  PROVE  /\ IsList(FirstOnes(s, n))
         /\ Len(FirstOnes(s, n)) \in 0..n
         /\ DOMAIN FirstOnes(s, n) \subseteq DOMAIN s
         /\ \A k \in DOMAIN FirstOnes(s, n) : FirstOnes(s, n)[k] = s[k]
<1> DEFINE m == IF Len(s) < n THEN Len(s) ELSE n
<1>1. Len(s) \in Nat /\ DOMAIN s = 1..Len(s)
    BY ListFacts
<1>2. m \in 0..n /\ m <= Len(s)
    BY <1>1
<1>3. FirstOnes(s, n) = SubSeq(s, 1, m)
    BY DEF FirstOnes
<1> HIDE DEF m
<1>4. /\ SubSeq(s, 1, m) \in Seq(Range(s)) /\ Len(SubSeq(s, 1, m)) = m
      /\ \A k \in 1..m : SubSeq(s, 1, m)[k] = s[k]
    BY <1>1, <1>2 DEF IsList
<1>5. DOMAIN SubSeq(s, 1, m) = 1..m
    BY <1>4, <1>2
<1>6. IsList(SubSeq(s, 1, m))
    BY <1>4, AnySequenceIsAList
<1> QED
    BY <1>1, <1>2, <1>3, <1>4, <1>5, <1>6

\* What is in a part of a list is in the list.
LEMMA PartsOfLists ==
  ASSUME NEW s, IsList(s)
  PROVE  /\ \A n \in Nat : IsList(FirstOnes(s, n)) /\ Range(FirstOnes(s, n)) \subseteq Range(s)
         /\ \A S \in SUBSET DOMAIN s :
              IsList(AtPositions(s, S)) /\ Range(AtPositions(s, S)) \subseteq {s[i] : i \in S}
<1>1. ASSUME NEW n \in Nat PROVE IsList(FirstOnes(s, n)) /\ Range(FirstOnes(s, n)) \subseteq Range(s)
    BY FirstOnesOf DEF Range
<1>2. ASSUME NEW S \in SUBSET DOMAIN s
      PROVE  IsList(AtPositions(s, S)) /\ Range(AtPositions(s, S)) \subseteq {s[i] : i \in S}
    BY AtPositionsOf DEF Range
<1> QED
    BY <1>1, <1>2

LEMMA FirstOfThem ==
  ASSUME NEW T, NEW s \in Seq(T), NEW n \in Nat
  PROVE  FirstOnes(s, n) \in Seq(T)
<1>1. IsList(s) /\ Range(s) \subseteq T
    BY AnySequenceIsAList
<1>2. IsList(FirstOnes(s, n)) /\ Range(FirstOnes(s, n)) \subseteq T
    BY <1>1, PartsOfLists
<1> QED
    BY <1>2 DEF IsList

LEMMA PartOfThem ==
  ASSUME NEW T, NEW s \in Seq(T), NEW S \in SUBSET DOMAIN s, NEW X, \A i \in S : s[i] \in X
  PROVE  AtPositions(s, S) \in Seq(X)
<1>1. IsList(s)
    BY AnySequenceIsAList
<1>2. IsList(AtPositions(s, S)) /\ Range(AtPositions(s, S)) \subseteq {s[i] : i \in S}
    BY <1>1, PartsOfLists
<1>3. Range(AtPositions(s, S)) \subseteq X
    BY <1>2
<1> QED
    BY <1>2, <1>3 DEF IsList

\* The lists of a list of lists, one after the other.
FlattenedBy(lists, g) ==
  [i \in 1..Len(lists) |-> IF i = 1 THEN lists[i] ELSE g[i - 1] \o lists[i]]

LEMMA FlatteningExists ==
  ASSUME NEW T, NEW lists \in Seq(Seq(T))
  PROVE  \E g : g = FlattenedBy(lists, g)
<1> DEFINE n == Len(lists)
           Flattens(g, m) == \A i \in 1..m : g[i] = IF i = 1 THEN lists[i] ELSE g[i - 1] \o lists[i]
           open == {m \in Nat : ~\E g : g = [i \in 1..m |-> g[i]] /\ Flattens(g, m)}
<1>1. n \in Nat
    OBVIOUS
<1>2. ASSUME open # {} PROVE FALSE
  <2>1. PICK m \in open : \A k \in open : m <= k
      BY <1>2, LeastExists
  <2>2. CASE m = 0
    <3> DEFINE g == [i \in 1..0 |-> i]
    <3>1. g = [i \in 1..0 |-> g[i]] /\ Flattens(g, 0)
        OBVIOUS
    <3> QED
        BY <2>1, <2>2, <3>1
  <2>3. CASE m # 0
    <3>1. m - 1 \in Nat /\ m - 1 \notin open
        BY <2>1, <2>3
    <3>2. PICK g : g = [i \in 1..(m - 1) |-> g[i]] /\ Flattens(g, m - 1)
        BY <3>1
    <3> DEFINE last == IF m = 1 THEN lists[m] ELSE g[m - 1] \o lists[m]
               h == [i \in 1..m |-> IF i = m THEN last ELSE g[i]]
    <3>3. h = [i \in 1..m |-> h[i]] /\ h[m] = last /\ \A i \in 1..(m - 1) : h[i] = g[i]
      <4> HIDE DEF last
      <4>1. m \in 1..m /\ \A i \in 1..(m - 1) : i \in 1..m /\ i # m
          BY <2>1, <2>3
      <4> QED
          BY <4>1
    <3> HIDE DEF h
    <3>4. ASSUME NEW i \in 1..m PROVE h[i] = IF i = 1 THEN lists[i] ELSE h[i - 1] \o lists[i]
      <4>1. CASE i = m
        <5>1. CASE i = 1
            BY <3>3, <4>1, <5>1
        <5>2. CASE i # 1
          <6>1. i - 1 \in 1..(m - 1)
              BY <4>1, <5>2, <2>1
          <6> QED
              BY <3>3, <4>1, <5>2, <6>1
        <5> QED
            BY <5>1, <5>2
      <4>2. CASE i # m
        <5>1. i \in 1..(m - 1) /\ (i # 1 => i - 1 \in 1..(m - 1))
            BY <4>2, <2>1
        <5>2. g[i] = IF i = 1 THEN lists[i] ELSE g[i - 1] \o lists[i]
            BY <3>2, <5>1
        <5> QED
            BY <3>3, <5>1, <5>2
      <4> QED
          BY <4>1, <4>2
    <3>5. Flattens(h, m)
        BY <3>4
    <3> HIDE DEF Flattens
    <3> QED
        BY <2>1, <3>3, <3>5
  <2> QED
      BY <2>2, <2>3
<1> HIDE DEF Flattens
<1>3. PICK g : g = [i \in 1..n |-> g[i]] /\ Flattens(g, n)
    BY <1>1, <1>2
<1>4. g = FlattenedBy(lists, g)
  <2>1. \A i \in 1..n : g[i] = IF i = 1 THEN lists[i] ELSE g[i - 1] \o lists[i]
      BY <1>3 DEF Flattens
  <2> QED
      BY <1>3, <2>1 DEF FlattenedBy
<1> QED
    BY <1>4

LEMMA FlatteningKeeps ==
  ASSUME NEW T, NEW lists \in Seq(Seq(T))
  PROVE  FlattenSeq(lists) \in Seq(T)
<1> DEFINE n == Len(lists)
           flat == CHOOSE g : g = FlattenedBy(lists, g)
           open == {i \in 1..n : flat[i] \notin Seq(T)}
<1>1. flat = FlattenedBy(lists, flat)
    BY FlatteningExists
<1>2. FlattenSeq(lists) = IF n = 0 THEN lists ELSE flat[n]
    BY DEF FlattenSeq, FlattenedBy
<1> HIDE DEF flat
<1>3. n \in Nat /\ \A i \in 1..n : lists[i] \in Seq(T)
    OBVIOUS
<1>4. \A i \in 1..n : flat[i] = IF i = 1 THEN lists[i] ELSE flat[i - 1] \o lists[i]
    BY <1>1 DEF FlattenedBy
<1>5. ASSUME open # {} PROVE FALSE
  <2>1. open \subseteq Nat
      BY <1>3
  <2>2. PICK i \in open : \A k \in open : i <= k
      BY <1>5, <2>1, LeastExists
  <2>3. i # 1 /\ i - 1 \in 1..n /\ i - 1 \notin open
      BY <1>3, <1>4, <2>2
  <2>4. flat[i - 1] \o lists[i] \in Seq(T)
      BY <1>3, <2>2, <2>3
  <2> QED
      BY <1>4, <2>2, <2>3, <2>4
<1>6. CASE n = 0
    BY <1>2, <1>6
<1>7. CASE n # 0
    BY <1>2, <1>3, <1>5, <1>7
<1> QED
    BY <1>6, <1>7

LEMMA GreatestIsOneOf ==
  ASSUME NEW S, S \subseteq Int, IsFiniteSet(S), S # {}
  PROVE  Max(S) \in S /\ \A y \in S : Max(S) >= y
<1> DEFINE R == {p \in S \X S : p[1] > p[2]}
<1>1. StrictOrder(S, R)
    BY DEF StrictOrder
<1>2. 1 \in 1..Cardinality(S)
    BY FS_CardinalityType, FS_EmptySet
<1>3. \A x \in S : Predecessors(S, R, x) = {y \in S : y > x}
    BY DEF Predecessors
<1> HIDE DEF R
<1>4. PICK x \in S : Cardinality(Predecessors(S, R, x)) = 1 - 1
    BY <1>1, <1>2, PlaceOfEach
<1>5. Predecessors(S, R, x) \subseteq S /\ Cardinality(Predecessors(S, R, x)) = 0
    BY <1>4 DEF Predecessors
<1>6. Predecessors(S, R, x) = {}
    BY <1>5, FS_Subset, FS_EmptySet
<1>7. \A y \in S : x >= y
    BY <1>3, <1>6
<1> QED
    BY <1>7 DEF Max

\* A set of confidence states has a least one, which bounds every member.
LEMMA LeastConfidence ==
  ASSUME NEW S, S \subseteq 0..3, S # {}
  PROVE  Min(S) \in S /\ \A c \in S : Min(S) <= c
<1>1. S \subseteq Nat
    OBVIOUS
<1>2. \E x \in S : \A y \in S : x <= y
    BY <1>1, LeastExists
<1> QED
    BY <1>2 DEF Min

(***************************************************************************)
(* Sums over a finite set.                                                 *)
(***************************************************************************)
SomeOf(S) == CHOOSE x \in S : TRUE

\* The function by which a sum is computed, from the sums over the smaller sets
SumStep(f, S, g) == [s \in SUBSET S |-> IF s = {} THEN 0 ELSE f[SomeOf(s)] + g[s \ {SomeOf(s)}]]

LEMMA SumIs ==
  ASSUME NEW f, NEW S
  PROVE  SumFunctionOnSet(f, S) = (CHOOSE g : g = SumStep(f, S, g))[S]
BY DEF SumFunctionOnSet, FoldFunctionOnSet, MapThenFoldSet, SumStep, SomeOf

\* There is such a function.
LEMMA SumStepExists ==
  ASSUME NEW f, NEW S, IsFiniteSet(S)
  PROVE  \E g : g = SumStep(f, S, g)
<1> DEFINE Rest(s) == s \ {SomeOf(s)}
           Settles(g, n) == \A s \in SUBSET S : Cardinality(s) <= n =>
                              g[s] = IF s = {} THEN 0 ELSE f[SomeOf(s)] + g[Rest(s)]
           Q == {n \in Nat : \E g : Settles(g, n)}
<1>1. \A s \in SUBSET S : IsFiniteSet(s) /\ Cardinality(s) \in Nat /\ (Cardinality(s) = 0 <=> s = {})
    BY FS_Subset, FS_CardinalityType, FS_EmptySet
<1>2. \A s \in SUBSET S : s # {} => Rest(s) \in SUBSET S /\ Cardinality(Rest(s)) = Cardinality(s) - 1
  <2> SUFFICES ASSUME NEW s \in SUBSET S, s # {}
               PROVE  Rest(s) \in SUBSET S /\ Cardinality(Rest(s)) = Cardinality(s) - 1
      OBVIOUS
  <2>1. SomeOf(s) \in s
      BY DEF SomeOf
  <2> QED
      BY <1>1, <2>1, FS_RemoveElement
<1> HIDE DEF Rest
<1>3. 0 \in Q
  <2> DEFINE g == [s \in SUBSET S |-> 0]
  <2>1. Settles(g, 0)
      BY <1>1
  <2> QED
      BY <2>1
<1>4. ASSUME NEW n \in Nat, n \in Q PROVE n + 1 \in Q
  <2>1. PICK g : Settles(g, n)
      BY <1>4
  <2> DEFINE h == [s \in SUBSET S |-> IF s = {} THEN 0
                                      ELSE f[SomeOf(s)] + (IF Cardinality(s) <= n + 1 THEN g[Rest(s)] ELSE 0)]
  <2>2. ASSUME NEW s \in SUBSET S, Cardinality(s) <= n PROVE h[s] = g[s]
      BY <1>1, <2>1, <2>2
  <2>3. ASSUME NEW s \in SUBSET S, Cardinality(s) <= n + 1, s # {}
        PROVE  h[s] = f[SomeOf(s)] + g[Rest(s)] /\ h[Rest(s)] = g[Rest(s)]
    <3>1. h[s] = f[SomeOf(s)] + g[Rest(s)]
        BY <2>3
    <3>2. Rest(s) \in SUBSET S /\ Cardinality(Rest(s)) <= n
        BY <1>1, <1>2, <2>3
    <3> HIDE DEF h
    <3> QED
        BY <2>2, <3>1, <3>2
  <2>4. h[{}] = 0
      OBVIOUS
  <2> HIDE DEF h
  <2>5. Settles(h, n + 1)
      BY <2>3, <2>4
  <2> QED
      BY <2>5
<1> HIDE DEF Q
<1>5. Cardinality(S) \in Q
    BY <1>1, <1>3, <1>4, NumberByNumber
<1>6. PICK g : Settles(g, Cardinality(S))
    BY <1>5 DEF Q
<1> DEFINE h == [s \in SUBSET S |-> g[s]]
<1>7. \A s \in SUBSET S : Cardinality(s) <= Cardinality(S)
    BY FS_Subset
<1>8. \A s \in SUBSET S : g[s] = IF s = {} THEN 0 ELSE f[SomeOf(s)] + h[Rest(s)]
    BY <1>2, <1>6, <1>7
<1>9. h = SumStep(f, S, h)
  <2>1. h = [s \in SUBSET S |-> IF s = {} THEN 0 ELSE f[SomeOf(s)] + h[Rest(s)]]
    <3> DEFINE V(s) == IF s = {} THEN 0 ELSE f[SomeOf(s)] + h[Rest(s)]
    <3>1. \A s \in SUBSET S : g[s] = V(s)
        BY <1>8
    <3> HIDE DEF V
    <3>2. [s \in SUBSET S |-> g[s]] = [s \in SUBSET S |-> V(s)]
        BY <3>1
    <3> QED
        BY <3>2 DEF V
  <2> HIDE DEF h
  <2> QED
      BY <2>1 DEF SumStep, Rest
<1> QED
    BY <1>9

\* The functions for two sets agree where both are defined.
LEMMA SumStepsAgree ==
  ASSUME NEW f, NEW S, IsFiniteSet(S), NEW T \in SUBSET S,
         NEW g, g = SumStep(f, S, g), NEW h, h = SumStep(f, T, h)
  PROVE  g[T] = h[T]
<1> DEFINE Q == {s \in SUBSET T : g[s] = h[s]}
<1>1. IsFiniteSet(T)
    BY FS_Subset
<1>2. ASSUME NEW s \in SUBSET T, \A x \in s : s \ {x} \in Q PROVE s \in Q
  <2>1. /\ g[s] = IF s = {} THEN 0 ELSE f[SomeOf(s)] + g[s \ {SomeOf(s)}]
        /\ h[s] = IF s = {} THEN 0 ELSE f[SomeOf(s)] + h[s \ {SomeOf(s)}]
    <3>1. s \in SUBSET S
        OBVIOUS
    <3> QED
        BY <3>1, Zenon DEF SumStep
  <2>2. s # {} => SomeOf(s) \in s
      BY DEF SomeOf
  <2>3. s # {} => g[s \ {SomeOf(s)}] = h[s \ {SomeOf(s)}]
      BY <1>2, <2>2
  <2> QED
      BY <2>1, <2>3
<1> HIDE DEF Q
<1>3. T \in Q
    BY <1>1, <1>2, ElementByElement
<1> QED
    BY <1>3 DEF Q

LEMMA SumOfNone == \A f : SumFunctionOnSet(f, {}) = 0
<1> SUFFICES ASSUME NEW f PROVE SumFunctionOnSet(f, {}) = 0
    OBVIOUS
<1> DEFINE iter == CHOOSE g : g = SumStep(f, {}, g)
<1>1. iter = SumStep(f, {}, iter)
    BY SumStepExists, FS_EmptySet
<1> HIDE DEF iter
<1>2. iter[{}] = 0
    BY <1>1 DEF SumStep
<1> QED
    BY <1>2, SumIs DEF iter

\* A sum starts with some element of its set.
LEMMA SumStarts ==
  ASSUME NEW f, NEW S, IsFiniteSet(S), S # {}
  PROVE  SomeOf(S) \in S /\ SumFunctionOnSet(f, S) = f[SomeOf(S)] + SumFunctionOnSet(f, S \ {SomeOf(S)})
<1> DEFINE T == S \ {SomeOf(S)}
           iter == CHOOSE g : g = SumStep(f, S, g)
           rest == CHOOSE g : g = SumStep(f, T, g)
<1>1. SomeOf(S) \in S
    BY DEF SomeOf
<1>2. IsFiniteSet(T) /\ T \in SUBSET S
    BY FS_Subset
<1>3. iter = SumStep(f, S, iter)
    BY SumStepExists
<1>4. rest = SumStep(f, T, rest)
  <2> HIDE DEF T
  <2> QED
      BY <1>2, SumStepExists
<1>5. SumFunctionOnSet(f, S) = iter[S] /\ SumFunctionOnSet(f, T) = rest[T]
  <2> HIDE DEF T
  <2> QED
      BY SumIs
<1> HIDE DEF iter, rest
<1>6. iter[S] = f[SomeOf(S)] + iter[T]
    BY <1>3, Zenon DEF SumStep
<1>7. iter[T] = rest[T]
  <2> HIDE DEF T
  <2> QED
      BY <1>2, <1>3, <1>4, SumStepsAgree
<1> QED
    BY <1>1, <1>5, <1>6, <1>7

LEMMA SumIsANumber ==
  ASSUME NEW N, N \in {Nat, Int}, NEW f, NEW S, IsFiniteSet(S), \A x \in S : f[x] \in N
  PROVE  \A T \in SUBSET S : SumFunctionOnSet(f, T) \in N
<1> DEFINE Q == {T \in SUBSET S : SumFunctionOnSet(f, T) \in N}
<1>1. ASSUME NEW T \in SUBSET S, \A x \in T : T \ {x} \in Q PROVE T \in Q
  <2>1. CASE T = {}
      BY <2>1, SumOfNone
  <2>2. CASE T # {}
    <3>1. SomeOf(T) \in T /\ SumFunctionOnSet(f, T) = f[SomeOf(T)] + SumFunctionOnSet(f, T \ {SomeOf(T)})
        BY <2>2, SumStarts, FS_Subset
    <3>2. SumFunctionOnSet(f, T \ {SomeOf(T)}) \in N /\ f[SomeOf(T)] \in N
        BY <1>1, <3>1
    <3>3. \A a, b \in N : a + b \in N
        OBVIOUS
    <3> QED
        BY <3>1, <3>2, <3>3
  <2> QED
      BY <2>1, <2>2
<1> HIDE DEF Q
<1>2. \A T \in SUBSET S : T \in Q
    BY <1>1, ElementByElement
<1> QED
    BY <1>2 DEF Q

\* It may as well start with any other.
LEMMA SumTakesOut ==
  ASSUME NEW f, NEW S, IsFiniteSet(S), \A x \in S : f[x] \in Int
  PROVE  \A T \in SUBSET S, x \in S : x \in T =>
           SumFunctionOnSet(f, T) = f[x] + SumFunctionOnSet(f, T \ {x})
<1> DEFINE Sum(T) == SumFunctionOnSet(f, T)
           Q == {T \in SUBSET S : \A x \in T : Sum(T) = f[x] + Sum(T \ {x})}
<1>1. \A T \in SUBSET S : Sum(T) \in Int
    BY SumIsANumber
<1>2. ASSUME NEW T \in SUBSET S, \A x \in T : T \ {x} \in Q PROVE T \in Q
  <2>1. CASE T = {}
      BY <2>1
  <2>2. CASE T # {}
    <3> DEFINE c == SomeOf(T)
    <3>1. c \in T /\ Sum(T) = f[c] + Sum(T \ {c})
        BY <2>2, SumStarts, FS_Subset
    <3>2. T \ {c} \in Q /\ f[c] \in Int
        BY <1>2, <3>1
    <3> HIDE DEF c
    <3>3. ASSUME NEW x \in T, x # c PROVE Sum(T) = f[x] + Sum(T \ {x})
      <4>1. x \in T \ {c} /\ c \in T \ {x} /\ f[x] \in Int
          BY <3>1, <3>3
      <4>2. T \ {x} \in Q
          BY <1>2
      <4>3. (T \ {c}) \ {x} = (T \ {x}) \ {c}
          OBVIOUS
      <4>4. Sum(T \ {c}) = f[x] + Sum((T \ {x}) \ {c})
          BY <3>2, <4>1, <4>3, Zenon
      <4>5. Sum(T \ {x}) = f[c] + Sum((T \ {x}) \ {c})
          BY <4>1, <4>2
      <4>6. (T \ {x}) \ {c} \in SUBSET S
          OBVIOUS
      <4>7. Sum((T \ {x}) \ {c}) \in Int
          BY <1>1, <4>6
      <4> HIDE DEF Sum
      <4>8. \A r \in Int : f[c] + (f[x] + r) = f[x] + (f[c] + r)
          BY <3>2, <4>1
      <4> QED
          BY <3>1, <4>4, <4>5, <4>7, <4>8
    <3>4. \A x \in T : Sum(T) = f[x] + Sum(T \ {x})
        BY <3>1, <3>3
    <3> QED
        BY <3>4
  <2> QED
      BY <2>1, <2>2
<1> HIDE DEF Q
<1>3. \A T \in SUBSET S : T \in Q
    BY <1>2, ElementByElement
<1> QED
    BY <1>3 DEF Q

\* Only what is summed matters.
LEMMA SumOfTheSame ==
  ASSUME NEW f, NEW g, NEW S, IsFiniteSet(S), \A x \in S : f[x] = g[x]
  PROVE  SumFunctionOnSet(f, S) = SumFunctionOnSet(g, S)
<1> DEFINE Q == {T \in SUBSET S : SumFunctionOnSet(f, T) = SumFunctionOnSet(g, T)}
<1>1. ASSUME NEW T \in SUBSET S, \A x \in T : T \ {x} \in Q PROVE T \in Q
  <2>1. CASE T = {}
      BY <2>1, SumOfNone
  <2>2. CASE T # {}
    <3>1. IsFiniteSet(T)
        BY FS_Subset
    <3>2. /\ SomeOf(T) \in T
          /\ SumFunctionOnSet(f, T) = f[SomeOf(T)] + SumFunctionOnSet(f, T \ {SomeOf(T)})
          /\ SumFunctionOnSet(g, T) = g[SomeOf(T)] + SumFunctionOnSet(g, T \ {SomeOf(T)})
        BY <2>2, <3>1, SumStarts
    <3>3. SumFunctionOnSet(f, T \ {SomeOf(T)}) = SumFunctionOnSet(g, T \ {SomeOf(T)})
        BY <1>1, <3>2
    <3> QED
        BY <3>2, <3>3
  <2> QED
      BY <2>1, <2>2
<1> HIDE DEF Q
<1>2. \A T \in SUBSET S : T \in Q
    BY <1>1, ElementByElement
<1> QED
    BY <1>2 DEF Q

\* A sum in two parts.
LEMMA SumInParts ==
  ASSUME NEW f, NEW S, IsFiniteSet(S), \A x \in S : f[x] \in Int, NEW A \in SUBSET S
  PROVE  SumFunctionOnSet(f, S) = SumFunctionOnSet(f, A) + SumFunctionOnSet(f, S \ A)
<1> DEFINE Sum(T) == SumFunctionOnSet(f, T)
           B == S \ A
           Q == {T \in SUBSET A : Sum(T \cup B) = Sum(T) + Sum(B)}
<1>1. \A T \in SUBSET S : Sum(T) \in Int
    BY SumIsANumber
<1>2. \A T \in SUBSET S, x \in S : x \in T => Sum(T) = f[x] + Sum(T \ {x})
    BY SumTakesOut
<1>3. ASSUME NEW T \in SUBSET A, \A x \in T : T \ {x} \in Q PROVE T \in Q
  <2>1. CASE T = {}
    <3>1. T \cup B = B /\ Sum(T) = 0
        BY <2>1, SumOfNone
    <3>2. Sum(B) \in Int
        BY <1>1
    <3>3. Sum(T \cup B) = Sum(B)
        BY <3>1
    <3> HIDE DEF Sum
    <3>4. Sum(T \cup B) = Sum(T) + Sum(B)
        BY <3>1, <3>2, <3>3
    <3> QED
        BY <3>4
  <2>2. CASE T # {}
    <3>1. PICK x \in T : TRUE
        BY <2>2
    <3>2. (T \cup B) \ {x} = (T \ {x}) \cup B /\ x \in S /\ T \cup B \in SUBSET S /\ T \in SUBSET S
        OBVIOUS
    <3>3. Sum(T \cup B) = f[x] + Sum((T \ {x}) \cup B)
        BY <1>2, <3>1, <3>2
    <3>4. Sum((T \ {x}) \cup B) = Sum(T \ {x}) + Sum(B)
        BY <1>3, <3>1
    <3>5. Sum(T) = f[x] + Sum(T \ {x})
        BY <1>2, <3>1, <3>2
    <3>6. f[x] \in Int /\ Sum(B) \in Int /\ Sum(T \ {x}) \in Int
        BY <1>1, <3>2
    <3> HIDE DEF Sum, B
    <3> QED
        BY <3>3, <3>4, <3>5, <3>6
  <2> QED
      BY <2>1, <2>2
<1> HIDE DEF Q
<1>4. IsFiniteSet(A) /\ A \in SUBSET A
    BY FS_Subset
<1>5. A \in Q
    BY <1>3, <1>4, ElementByElement
<1>6. A \cup B = S
    OBVIOUS
<1> QED
    BY <1>5, <1>6 DEF Q

\* A sum of sums.
LEMMA SumOfBoth ==
  ASSUME NEW f, NEW g, NEW h, NEW S, IsFiniteSet(S),
         \A x \in S : f[x] \in Int /\ g[x] \in Int /\ h[x] = f[x] + g[x]
  PROVE  SumFunctionOnSet(h, S) = SumFunctionOnSet(f, S) + SumFunctionOnSet(g, S)
<1> DEFINE F(T) == SumFunctionOnSet(f, T)
           G(T) == SumFunctionOnSet(g, T)
           H(T) == SumFunctionOnSet(h, T)
           Q == {T \in SUBSET S : H(T) = F(T) + G(T)}
<1>1. \A T \in SUBSET S : F(T) \in Int /\ G(T) \in Int
    BY SumIsANumber
<1>2. /\ \A T \in SUBSET S, x \in S : x \in T => F(T) = f[x] + F(T \ {x})
      /\ \A T \in SUBSET S, x \in S : x \in T => G(T) = g[x] + G(T \ {x})
      /\ \A T \in SUBSET S, x \in S : x \in T => H(T) = h[x] + H(T \ {x})
  <2>1. \A x \in S : h[x] \in Int
      OBVIOUS
  <2> QED
      BY <2>1, SumTakesOut
<1>3. F({}) = 0 /\ G({}) = 0 /\ H({}) = 0
    BY SumOfNone
<1> HIDE DEF F, G, H
<1>4. ASSUME NEW T \in SUBSET S, \A x \in T : T \ {x} \in Q PROVE T \in Q
  <2>1. CASE T = {}
      BY <1>3, <2>1
  <2>2. CASE T # {}
    <3>1. PICK x \in T : TRUE
        BY <2>2
    <3>2. H(T \ {x}) = F(T \ {x}) + G(T \ {x}) /\ T \ {x} \in SUBSET S /\ x \in S
        BY <1>4, <3>1
    <3>3. F(T \ {x}) \in Int /\ G(T \ {x}) \in Int
        BY <1>1, <3>2
    <3>4. F(T) = f[x] + F(T \ {x}) /\ G(T) = g[x] + G(T \ {x}) /\ H(T) = h[x] + H(T \ {x})
        BY <1>2, <3>2
    <3>5. H(T) = F(T) + G(T)
        BY <3>2, <3>3, <3>4
    <3> QED
        BY <3>5
  <2> QED
      BY <2>1, <2>2
<1> HIDE DEF Q
<1>5. \A T \in SUBSET S : T \in Q
    BY <1>4, ElementByElement
<1> QED
    BY <1>5 DEF Q, F, G, H

\* A sum over other names of the same things.
LEMMA SumRenamed ==
  ASSUME NEW f, NEW S, IsFiniteSet(S), NEW name, \A x, y \in S : name[x] = name[y] => x = y,
         NEW g, \A x \in S : f[name[x]] \in Int /\ g[x] = f[name[x]]
  PROVE  SumFunctionOnSet(f, {name[x] : x \in S}) = SumFunctionOnSet(g, S)
<1> DEFINE Names(T) == {name[x] : x \in T}
           Q == {T \in SUBSET S : SumFunctionOnSet(f, Names(T)) = SumFunctionOnSet(g, T)}
<1>1. IsFiniteSet(Names(S)) /\ \A y \in Names(S) : f[y] \in Int
  <2> DEFINE h == [x \in S |-> name[x]]
  <2>1. h \in Surjection(S, Names(S))
      BY DEF Surjection
  <2> HIDE DEF h
  <2>2. IsFiniteSet(Names(S))
    <3> HIDE DEF Names
    <3> QED
        BY <2>1, FS_Surjection
  <2> QED
      BY <2>2
<1>2. \A T \in SUBSET Names(S), y \in Names(S) : y \in T =>
        SumFunctionOnSet(f, T) = f[y] + SumFunctionOnSet(f, T \ {y})
  <2> HIDE DEF Names
  <2> QED
      BY <1>1, SumTakesOut
<1>3. \A T \in SUBSET S, x \in S : x \in T =>
        SumFunctionOnSet(g, T) = g[x] + SumFunctionOnSet(g, T \ {x})
    BY SumTakesOut
<1>4. ASSUME NEW T \in SUBSET S, \A x \in T : T \ {x} \in Q PROVE T \in Q
  <2>1. CASE T = {}
    <3>1. Names(T) = {}
        BY <2>1
    <3> QED
        BY <2>1, <3>1, SumOfNone
  <2>2. CASE T # {}
    <3>1. PICK x \in T : TRUE
        BY <2>2
    <3>2. Names(T \ {x}) = Names(T) \ {name[x]} /\ name[x] \in Names(T) /\ Names(T) \in SUBSET Names(S)
        BY <3>1
    <3>3. SumFunctionOnSet(f, Names(T \ {x})) = SumFunctionOnSet(g, T \ {x})
        BY <1>4, <3>1
    <3> HIDE DEF Names
    <3>4. SumFunctionOnSet(f, Names(T)) = f[name[x]] + SumFunctionOnSet(f, Names(T \ {x}))
      <4>1. name[x] \in Names(S)
          BY <3>2
      <4>2. SumFunctionOnSet(f, Names(T)) = f[name[x]] + SumFunctionOnSet(f, Names(T) \ {name[x]})
          BY <1>2, <3>2, <4>1, Zenon
      <4> QED
          BY <3>2, <4>2, Zenon
    <3>5. SumFunctionOnSet(g, T) = g[x] + SumFunctionOnSet(g, T \ {x}) /\ g[x] = f[name[x]]
        BY <1>3, <3>1
    <3>6. SumFunctionOnSet(f, Names(T)) = SumFunctionOnSet(g, T)
        BY <3>3, <3>4, <3>5
    <3> QED
        BY <3>6
  <2> QED
      BY <2>1, <2>2
<1> HIDE DEF Q
<1>5. \A T \in SUBSET S : T \in Q
    BY <1>4, ElementByElement
<1> QED
    BY <1>5 DEF Q

\* What is spread over some elements is all there.
LEMMA SumOfShares ==
  ASSUME NEW S, IsFiniteSet(S), NEW G, IsFiniteSet(G), NEW owner, \A g \in G : owner[g] \in S,
         NEW share, \A i \in S : share[i] = Cardinality({g \in G : owner[g] = i})
  PROVE  SumFunctionOnSet(share, S) = Cardinality(G)
<1> DEFINE Of(T, i) == {g \in T : owner[g] = i}
           Shares(T) == [i \in S |-> Cardinality(Of(T, i))]
           Q == {T \in SUBSET G : SumFunctionOnSet(Shares(T), S) = Cardinality(T)}
<1>1. \A T \in SUBSET G, i \in S : IsFiniteSet(T) /\ IsFiniteSet(Of(T, i)) /\ Shares(T)[i] \in Nat
    BY FS_Subset, FS_CardinalityType
<1>2. ASSUME NEW T \in SUBSET G, \A x \in T : T \ {x} \in Q PROVE T \in Q
  <2>1. CASE T = {}
    <3>1. \A i \in S : Of(T, i) = {}
        BY <2>1
    <3>2. \A i \in S : Shares(T)[i] = 0
        BY <3>1, FS_EmptySet
    <3> HIDE DEF Shares
    <3>3. SumFunctionOnSet(Shares(T), S) = 0
      <4> DEFINE Z == {U \in SUBSET S : SumFunctionOnSet(Shares(T), U) = 0}
      <4>1. ASSUME NEW U \in SUBSET S, \A x \in U : U \ {x} \in Z PROVE U \in Z
        <5>1. CASE U = {}
            BY <5>1, SumOfNone
        <5>2. CASE U # {}
          <6>1. SomeOf(U) \in U
                /\ SumFunctionOnSet(Shares(T), U)
                     = Shares(T)[SomeOf(U)] + SumFunctionOnSet(Shares(T), U \ {SomeOf(U)})
              BY <5>2, SumStarts, FS_Subset
          <6>2. SumFunctionOnSet(Shares(T), U \ {SomeOf(U)}) = 0
              BY <4>1, <6>1
          <6> QED
              BY <3>2, <6>1, <6>2
        <5> QED
            BY <5>1, <5>2
      <4> HIDE DEF Z
      <4>2. \A U \in SUBSET S : U \in Z
          BY <4>1, ElementByElement
      <4> QED
          BY <4>2 DEF Z
    <3> QED
        BY <2>1, <3>3, FS_EmptySet
  <2>2. CASE T # {}
    <3>1. PICK x \in T : TRUE
        BY <2>2
    <3> DEFINE rest == T \ {x}
               i == owner[x]
    <3>2. i \in S /\ x \in G /\ rest \in SUBSET G
        OBVIOUS
    <3>3. Of(rest, i) = Of(T, i) \ {x} /\ x \in Of(T, i)
        OBVIOUS
    <3>4. Shares(rest)[i] = Shares(T)[i] - 1
      <4>1. Cardinality(Of(T, i) \ {x}) = Cardinality(Of(T, i)) - 1
        <5>1. IsFiniteSet(Of(T, i))
            BY <1>1, <3>2
        <5> HIDE DEF Of, i
        <5> QED
            BY <3>3, <5>1, FS_RemoveElement
      <4>2. Shares(rest)[i] = Cardinality(Of(rest, i)) /\ Shares(T)[i] = Cardinality(Of(T, i))
          BY <3>2
      <4> HIDE DEF Of, i, rest, Shares
      <4> QED
          BY <3>3, <4>1, <4>2
    <3>5. \A j \in S \ {i} : Of(rest, j) = Of(T, j)
        OBVIOUS
    <3>6. \A j \in S \ {i} : Shares(rest)[j] = Shares(T)[j]
        BY <3>5
    <3>7. SumFunctionOnSet(Shares(rest), S) = Cardinality(rest) /\ Cardinality(rest) = Cardinality(T) - 1
      <4>1. SumFunctionOnSet(Shares(rest), S) = Cardinality(rest)
          BY <1>2, <3>1
      <4>2. IsFiniteSet(T)
          BY FS_Subset
      <4>3. Cardinality(rest) = Cardinality(T) - 1
        <5> HIDE DEF Q
        <5> QED
            BY <3>1, <4>2, FS_RemoveElement
      <4> QED
          BY <4>1, <4>3
    <3>8. Cardinality(T) \in Nat
        BY <1>1, FS_CardinalityType
    <3>9. /\ \A j \in S : Shares(T)[j] \in Int /\ Shares(rest)[j] \in Int
          /\ IsFiniteSet(S \ {i})
      <4>1. IsFiniteSet(S \ {i})
          BY FS_RemoveElement
      <4>2. \A j \in S : Shares(T)[j] \in Nat /\ Shares(rest)[j] \in Nat
        <5> HIDE DEF Shares, rest
        <5> QED
            BY <1>1, <3>2
      <4> HIDE DEF Shares, rest
      <4> QED
          BY <4>1, <4>2
    <3> HIDE DEF Shares, rest, i
    <3>10. SumFunctionOnSet(Shares(rest), S \ {i}) = SumFunctionOnSet(Shares(T), S \ {i})
        BY <3>6, <3>9, SumOfTheSame
    <3>11. SumFunctionOnSet(Shares(T), S) = Shares(T)[i] + SumFunctionOnSet(Shares(T), S \ {i})
      <4>1. \A U \in SUBSET S, y \in S : y \in U =>
              SumFunctionOnSet(Shares(T), U) = Shares(T)[y] + SumFunctionOnSet(Shares(T), U \ {y})
          BY <3>9, SumTakesOut
      <4> QED
          BY <3>2, <4>1
    <3>12. SumFunctionOnSet(Shares(rest), S) = Shares(rest)[i] + SumFunctionOnSet(Shares(rest), S \ {i})
      <4>1. \A U \in SUBSET S, y \in S : y \in U =>
              SumFunctionOnSet(Shares(rest), U) = Shares(rest)[y] + SumFunctionOnSet(Shares(rest), U \ {y})
          BY <3>9, SumTakesOut
      <4> QED
          BY <3>2, <4>1
    <3>13. SumFunctionOnSet(Shares(T), S \ {i}) \in Int
        BY <3>9, SumIsANumber
    <3>14. SumFunctionOnSet(Shares(T), S) = Cardinality(T)
        BY <3>2, <3>4, <3>7, <3>8, <3>9, <3>10, <3>11, <3>12, <3>13
    <3> QED
        BY <3>14
  <2> QED
      BY <2>1, <2>2
<1>3. \A T \in SUBSET G : T \in Q
  <2> HIDE DEF Q
  <2> QED
      BY <1>2, ElementByElement
<1>4. SumFunctionOnSet(Shares(G), S) = Cardinality(G)
    BY <1>3
<1>5. \A i \in S : share[i] = Shares(G)[i]
    OBVIOUS
<1> HIDE DEF Shares
<1> QED
    BY <1>4, <1>5, SumOfTheSame

\* A sum of ones counts.
LEMMA SumOfOnes ==
  ASSUME NEW S, IsFiniteSet(S), NEW f, \A x \in S : f[x] = 1
  PROVE  SumFunctionOnSet(f, S) = Cardinality(S)
<1> DEFINE Q == {T \in SUBSET S : SumFunctionOnSet(f, T) = Cardinality(T)}
<1>1. ASSUME NEW T \in SUBSET S, \A x \in T : T \ {x} \in Q PROVE T \in Q
  <2>1. CASE T = {}
      BY <2>1, SumOfNone, FS_EmptySet
  <2>2. CASE T # {}
    <3>1. IsFiniteSet(T) /\ Cardinality(T) \in Nat
        BY FS_Subset, FS_CardinalityType
    <3>2. SomeOf(T) \in T /\ SumFunctionOnSet(f, T) = f[SomeOf(T)] + SumFunctionOnSet(f, T \ {SomeOf(T)})
        BY <2>2, <3>1, SumStarts
    <3>3. SumFunctionOnSet(f, T \ {SomeOf(T)}) = Cardinality(T \ {SomeOf(T)})
        BY <1>1, <3>2
    <3>4. Cardinality(T \ {SomeOf(T)}) = Cardinality(T) - 1
        BY <3>1, <3>2, FS_RemoveElement
    <3>5. f[SomeOf(T)] = 1
        BY <3>2
    <3> QED
        BY <3>1, <3>2, <3>3, <3>4, <3>5
  <2> QED
      BY <2>1, <2>2
<1> HIDE DEF Q
<1>2. \A T \in SUBSET S : T \in Q
    BY <1>1, ElementByElement
<1> QED
    BY <1>2 DEF Q

\* What a finite set names is finite.
LEMMA NamedAreFinite ==
  ASSUME NEW S, IsFiniteSet(S), NEW name
  PROVE  IsFiniteSet({name[x] : x \in S})
<1> DEFINE T == {name[x] : x \in S}
           f == [x \in S |-> name[x]]
<1>1. f \in Surjection(S, T)
    BY DEF Surjection
<1> QED
    BY <1>1, FS_Surjection

\* The elements at some positions of a list are all of those, and so many.
LEMMA PartHasAll ==
  ASSUME NEW s, IsList(s), NEW S \in SUBSET DOMAIN s
  PROVE  Range(AtPositions(s, S)) = {s[i] : i \in S} /\ Len(AtPositions(s, S)) = Cardinality(S)
<1> DEFINE part == AtPositions(s, S)
           n == Cardinality(S)
<1>1. IsFiniteSet(DOMAIN s) /\ DOMAIN s \subseteq Nat
    BY ListFacts
<1>2. IsFiniteSet(S) /\ S \subseteq Nat /\ n \in Nat
    BY <1>1, FS_Subset, FS_CardinalityType
<1>3. IsList(part) /\ DOMAIN part = 1..n /\ \A k \in DOMAIN part : part[k] = s[InOrder(S)[k]]
    BY AtPositionsOf
<1>4. Range(part) \subseteq {s[i] : i \in S}
    BY PartsOfLists
<1>5. ASSUME NEW i \in S PROVE s[i] \in Range(part)
  <2>1. PICK k \in 1..n : InOrder(S)[k] = i
      BY <1>2, PositionsInOrder
  <2> HIDE DEF part, n
  <2>2. part[k] = s[i] /\ k \in DOMAIN part
      BY <1>3, <2>1
  <2> QED
      BY <2>2 DEF Range
<1>6. Len(part) = n
  <2> HIDE DEF part, n
  <2>1. Len(part) \in Nat /\ DOMAIN part = 1..Len(part)
      BY <1>3, ListFacts
  <2> QED
      BY <1>2, <1>3, <2>1
<1> QED
    BY <1>4, <1>5, <1>6
=============================================================================
