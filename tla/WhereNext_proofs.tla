-------------------------- MODULE WhereNext_proofs --------------------------
(***************************************************************************)
(* Theorems about WhereNext, for every table of regions, every corpus,     *)
(* every set of requests and every limit with 4 * MaxExplained + 3 <=      *)
(* Budget.                                                                 *)
(*                                                                         *)
(* The first parts say what the lists are that the nodes hand on: a list   *)
(* sorted by a strict order has a place for each element, so what the      *)
(* retrievers, the fusion, the rerankers and the assembly return are       *)
(* chunks of the corpus that pass the filters. What a recursive function   *)
(* of the model computes is shown by a least counterexample.               *)
(*                                                                         *)
(* IInv says how much of the budget each node may find spent, that no      *)
(* candidate is ruled out, that the evidence fits the shortlist and the    *)
(* trip, that the stand-in's sentences are supported, and, from the        *)
(* grounding check on, what the report promises of all of these.           *)
(*                                                                         *)
(* TypeInv says besides that the two lists have each region of the table   *)
(* once; for that the scores of any two regions must compare, which is to  *)
(* say that each component of a score is a number.                         *)
(***************************************************************************)
EXTENDS WhereNext, ListTheorems

(***************************************************************************)
(* What a search finds.                                                    *)
(***************************************************************************)
\* Chunks by how close they are.
LEMMA ByCloseness ==
  ASSUME NEW S \in SUBSET Corpus, \A c \in S : c.close # NoVector
  PROVE  Sorted(S, LAMBDA c, d : c.close > d.close) \in Seq(S)
<1> DEFINE n == Cardinality(S)
           R == {p \in S \X S : p[1].close > p[2].close}
           At(k) == CHOOSE x \in S : Cardinality({y \in S : y.close > x.close}) = k - 1
           f == [k \in 1..n |-> At(k)]
<1>1. IsFiniteSet(S) /\ n \in Nat
    BY CorpusAssumption, FS_Subset, FS_CardinalityType
<1>2. StrictOrder(S, R)
    BY CorpusAssumption DEF StrictOrder
<1>3. \A x \in S : Predecessors(S, R, x) = {y \in S : y.close > x.close}
    BY DEF Predecessors
<1>4. ASSUME NEW k \in 1..n PROVE \E x \in S : Cardinality({y \in S : y.close > x.close}) = k - 1
  <2> HIDE DEF R
  <2>1. PICK x \in S : Cardinality(Predecessors(S, R, x)) = k - 1
      BY <1>1, <1>2, PlaceOfEach
  <2>2. Cardinality({y \in S : y.close > x.close}) = k - 1
      BY <1>3, <2>1, Zenon
  <2> QED
      BY <2>2
<1>5. \A k \in 1..n : At(k) \in S
    BY <1>4
<1>6. Sorted(S, LAMBDA c, d : c.close > d.close) = SubSeq(f, 1, n)
    BY DEF Sorted, Listing
<1> HIDE DEF At
<1>7. f = [k \in 1..n |-> f[k]] /\ \A k \in 1..n : f[k] \in S
    BY <1>5
<1> HIDE DEF f
<1> QED
    BY <1>1, <1>6, <1>7, ListBuiltOf

\* Chunks by their lexical score.
LEMMA ByLexicalScore ==
  ASSUME NEW S \in SUBSET Corpus, \A c \in S : c.lexical > 0
  PROVE  Sorted(S, LAMBDA c, d : c.lexical > d.lexical) \in Seq(S)
<1> DEFINE n == Cardinality(S)
           R == {p \in S \X S : p[1].lexical > p[2].lexical}
           At(k) == CHOOSE x \in S : Cardinality({y \in S : y.lexical > x.lexical}) = k - 1
           f == [k \in 1..n |-> At(k)]
<1>1. IsFiniteSet(S) /\ n \in Nat
    BY CorpusAssumption, FS_Subset, FS_CardinalityType
<1>2. StrictOrder(S, R)
    BY CorpusAssumption DEF StrictOrder
<1>3. \A x \in S : Predecessors(S, R, x) = {y \in S : y.lexical > x.lexical}
    BY DEF Predecessors
<1>4. ASSUME NEW k \in 1..n PROVE \E x \in S : Cardinality({y \in S : y.lexical > x.lexical}) = k - 1
  <2> HIDE DEF R
  <2>1. PICK x \in S : Cardinality(Predecessors(S, R, x)) = k - 1
      BY <1>1, <1>2, PlaceOfEach
  <2>2. Cardinality({y \in S : y.lexical > x.lexical}) = k - 1
      BY <1>3, <2>1, Zenon
  <2> QED
      BY <2>2
<1>5. \A k \in 1..n : At(k) \in S
    BY <1>4
<1>6. Sorted(S, LAMBDA c, d : c.lexical > d.lexical) = SubSeq(f, 1, n)
    BY DEF Sorted, Listing
<1> HIDE DEF At
<1>7. f = [k \in 1..n |-> f[k]] /\ \A k \in 1..n : f[k] \in S
    BY <1>5
<1> HIDE DEF f
<1> QED
    BY <1>1, <1>6, <1>7, ListBuiltOf

\* What one retriever finds.
LEMMA TopRowsOf ==
  ASSUME NEW filters, NEW S \in SUBSET Corpus, NEW rows \in Seq(S)
  PROVE  TopRows(rows, filters) \in Seq({c \in S : InSeason(c, filters.month)})
<1> DEFINE first == FirstOnes(rows, 3 * CandidateK)
           fit == {i \in DOMAIN first : InSeason(first[i], filters.month)}
<1>1. 3 * CandidateK \in Nat /\ CandidateK \in Nat
    BY SearchAssumption
<1>2. first \in Seq(S)
    BY <1>1, FirstOfThem
<1>3. \A i \in fit : first[i] \in S
    BY <1>2
<1>4. fit \in SUBSET DOMAIN first
    OBVIOUS
<1>5. \A i \in fit : first[i] \in {c \in S : InSeason(c, filters.month)}
    BY <1>3
<1>6. TopRows(rows, filters) = FirstOnes(AtPositions(first, fit), CandidateK)
    BY DEF TopRows
<1> HIDE DEF fit, first
<1>7. AtPositions(first, fit) \in Seq({c \in S : InSeason(c, filters.month)})
    BY <1>2, <1>4, <1>5, PartOfThem
<1> QED
    BY <1>1, <1>6, <1>7, FirstOfThem

Fitting(filters) == {c \in Corpus : Passes(c, filters) /\ InSeason(c, filters.month)}

LEMMA RetrieversFind ==
  ASSUME NEW filters
  PROVE  DenseSearch(filters) \in Seq(Fitting(filters)) /\ KeywordSearch(filters) \in Seq(Fitting(filters))
<1> DEFINE S == {c \in Corpus : c.close # NoVector /\ Passes(c, filters)}
           T == {c \in Corpus : c.lexical > 0 /\ Passes(c, filters)}
<1>1. DenseSearch(filters) \in Seq({c \in S : InSeason(c, filters.month)})
  <2>1. Sorted(S, LAMBDA c, d : c.close > d.close) \in Seq(S)
      BY ByCloseness
  <2>2. DenseSearch(filters) = TopRows(Sorted(S, LAMBDA c, d : c.close > d.close), filters)
      BY DEF DenseSearch
  <2>3. S \in SUBSET Corpus
      OBVIOUS
  <2> QED
      BY <2>1, <2>2, <2>3, TopRowsOf
<1>2. KeywordSearch(filters) \in Seq({c \in T : InSeason(c, filters.month)})
  <2>1. Sorted(T, LAMBDA c, d : c.lexical > d.lexical) \in Seq(T)
      BY ByLexicalScore
  <2>2. KeywordSearch(filters) = TopRows(Sorted(T, LAMBDA c, d : c.lexical > d.lexical), filters)
      BY DEF KeywordSearch
  <2>3. T \in SUBSET Corpus
      OBVIOUS
  <2> QED
      BY <2>1, <2>2, <2>3, TopRowsOf
<1>3. /\ {c \in S : InSeason(c, filters.month)} \subseteq Fitting(filters)
      /\ {c \in T : InSeason(c, filters.month)} \subseteq Fitting(filters)
    BY DEF Fitting
<1> HIDE DEF S, T
<1> QED
    BY <1>1, <1>2, <1>3

\* The ranks of the fused list, and its scores, are numbers.
LEMMA RankIsANumber ==
  ASSUME NEW T, NEW s \in Seq(T), NEW c \in Range(s)
  PROVE  Rank(s, c) \in Nat /\ Rank(s, c) >= 1 /\ s[Rank(s, c)] = c
<1> DEFINE at == {i \in DOMAIN s : s[i] = c}
<1>1. at \subseteq Nat /\ at # {} /\ \A i \in at : i >= 1
    BY DEF Range
<1>2. Rank(s, c) = Min(at)
    BY DEF Rank
<1> HIDE DEF at
<1>3. Min(at) \in at
    BY <1>1, LeastIsOneOf
<1>4. s[Min(at)] = c
    BY <1>3 DEF at
<1> QED
    BY <1>1, <1>2, <1>3, <1>4

LEMMA ContributionIsANumber ==
  ASSUME NEW T, NEW s \in Seq(T), NEW weight \in Nat, NEW c
  PROVE  Contribution(s, weight, c) \in Int
<1>1. CASE c \in Range(s)
  <2>1. RrfK + Rank(s, c) \in Nat /\ RrfK + Rank(s, c) > 0
      BY <1>1, RankIsANumber, SearchAssumption
  <2>2. 10000 * weight \in Int
      OBVIOUS
  <2>3. \A a \in Int : \A b \in Nat : b > 0 => a \div b \in Int
      OBVIOUS
  <2> QED
      BY <1>1, <2>1, <2>2, <2>3 DEF Contribution
<1>2. CASE c \notin Range(s)
    BY <1>2 DEF Contribution
<1> QED
    BY <1>1, <1>2

LEMMA ScoreIsANumber ==
  ASSUME NEW T, NEW dense \in Seq(T), NEW keyword \in Seq(T), NEW c
  PROVE  FusedScore(dense, keyword, c) \in Int
<1>1. Contribution(dense, DenseWeight, c) \in Int /\ Contribution(keyword, 100, c) \in Int
    BY ContributionIsANumber, SearchAssumption
<1> QED
    BY <1>1 DEF FusedScore

LEMMA BestRankIsANumber ==
  ASSUME NEW T, NEW dense \in Seq(T), NEW keyword \in Seq(T), NEW c \in Range(dense) \cup Range(keyword)
  PROVE  BestRank(dense, keyword, c) \in Nat
<1> DEFINE ranks == {Rank(list, c) : list \in {l \in {dense, keyword} : c \in Range(l)}}
<1>1. ranks \subseteq Nat /\ ranks # {}
    BY RankIsANumber
<1>2. BestRank(dense, keyword, c) = Min(ranks)
    BY DEF BestRank
<1> HIDE DEF ranks
<1> QED
    BY <1>1, <1>2, LeastIsOneOf

\* The order of keys of three numbers.
ComesFirst(a, b) ==
  \/ a[1] < b[1]
  \/ a[1] = b[1] /\ a[2] < b[2]
  \/ a[1] = b[1] /\ a[2] = b[2] /\ a[3] < b[3]

IsKey(a) == a[1] \in Int /\ a[2] \in Int /\ a[3] \in Int

LEMMA KeysAreCompared ==
  ASSUME NEW a, NEW b
  PROVE  (\E i \in 1..3 : a[i] < b[i] /\ \A j \in 1..(i - 1) : a[j] = b[j]) <=> ComesFirst(a, b)
<1>1. \A j : j \in 1..3 <=> j = 1 \/ j = 2 \/ j = 3
    OBVIOUS
<1>2. /\ \A j : j \in 1..(1 - 1) <=> FALSE
      /\ \A j : j \in 1..(2 - 1) <=> j = 1
      /\ \A j : j \in 1..(3 - 1) <=> j = 1 \/ j = 2
    OBVIOUS
<1> QED
    BY <1>1, <1>2, Zenon DEF ComesFirst

LEMMA KeysAreOrdered ==
  ASSUME NEW a, NEW b, NEW c, IsKey(a), IsKey(b), IsKey(c)
  PROVE  /\ ~ComesFirst(a, a)
         /\ ComesFirst(a, b) /\ ComesFirst(b, c) => ComesFirst(a, c)
         /\ a[3] # b[3] => ComesFirst(a, b) \/ ComesFirst(b, a)
<1> USE DEF ComesFirst, IsKey
<1>1. ~ComesFirst(a, a)
    OBVIOUS
<1>2. ASSUME ComesFirst(a, b), ComesFirst(b, c) PROVE ComesFirst(a, c)
    BY <1>2
<1>3. a[3] # b[3] => ComesFirst(a, b) \/ ComesFirst(b, a)
    OBVIOUS
<1> QED
    BY <1>1, <1>2, <1>3, Zenon

\* The fused list: what either retriever found, each chunk once.
LEMMA FusionFinds ==
  ASSUME NEW T \in SUBSET Corpus, NEW dense \in Seq(T), NEW keyword \in Seq(T)
  PROVE  Fused(dense, keyword) \in Seq(T)
<1> DEFINE found == Range(dense) \cup Range(keyword)
           key == [c \in found |-> <<-FusedScore(dense, keyword, c), BestRank(dense, keyword, c), c.id>>]
           Before(c, d) == \E i \in 1..3 : key[c][i] < key[d][i] /\ \A j \in 1..(i - 1) : key[c][j] = key[d][j]
           n == Cardinality(found)
           R == {p \in found \X found : Before(p[1], p[2])}
           At(k) == CHOOSE x \in found : Cardinality({y \in found : Before(y, x)}) = k - 1
           f == [k \in 1..n |-> At(k)]
<1>1. found \subseteq T
    BY AnySequenceIsAList
<1>2. IsFiniteSet(found) /\ n \in Nat
    BY <1>1, CorpusAssumption, FS_Subset, FS_CardinalityType
<1>3. \A c \in found : IsKey(key[c]) /\ key[c][3] = c.id
  <2> SUFFICES ASSUME NEW c \in found
               PROVE  /\ -FusedScore(dense, keyword, c) \in Int /\ BestRank(dense, keyword, c) \in Int
                      /\ c.id \in Int
      BY DEF IsKey
  <2> QED
      BY <1>1, ScoreIsANumber, BestRankIsANumber, CorpusAssumption
<1>4. \A c, d \in found : c # d => key[c][3] # key[d][3]
    BY <1>1, <1>3, CorpusAssumption
<1> HIDE DEF key
<1>5. \A c, d : Before(c, d) <=> ComesFirst(key[c], key[d])
    BY KeysAreCompared
<1> HIDE DEF Before
<1>6. StrictOrder(found, R)
  <2>1. \A c \in found : ~Before(c, c)
      BY <1>3, <1>5, KeysAreOrdered
  <2>2. \A c, d, e \in found : Before(c, d) /\ Before(d, e) => Before(c, e)
      BY <1>3, <1>5, KeysAreOrdered
  <2>3. \A c, d \in found : c # d => Before(c, d) \/ Before(d, c)
      BY <1>3, <1>4, <1>5, KeysAreOrdered
  <2> QED
      BY <2>1, <2>2, <2>3 DEF StrictOrder
<1>7. \A x \in found : Predecessors(found, R, x) = {y \in found : Before(y, x)}
    BY DEF Predecessors
<1>8. ASSUME NEW k \in 1..n PROVE \E x \in found : Cardinality({y \in found : Before(y, x)}) = k - 1
  <2> HIDE DEF R
  <2>1. PICK x \in found : Cardinality(Predecessors(found, R, x)) = k - 1
      BY <1>2, <1>6, PlaceOfEach
  <2>2. Cardinality({y \in found : Before(y, x)}) = k - 1
      BY <1>7, <2>1, Zenon
  <2> QED
      BY <2>2
<1>9. \A k \in 1..n : At(k) \in found
    BY <1>8
<1>10. Fused(dense, keyword) = FirstOnes(SubSeq(f, 1, n), CandidateK)
    BY DEF Fused, Sorted, Listing, Before, key
<1> HIDE DEF At
<1>11. f = [k \in 1..n |-> f[k]] /\ \A k \in 1..n : f[k] \in T
    BY <1>1, <1>9
<1> HIDE DEF f
<1> QED
    BY <1>2, <1>10, <1>11, ListBuiltOf, FirstOfThem, SearchAssumption

\* What is nearest to the query, most trusted and freshest comes first.
LEMMA HeuristicKeeps ==
  ASSUME NEW T \in SUBSET Corpus, NEW list \in Seq(T), NEW score, NEW topics,
         \A c \in Range(list) : score[c] \in Int
  PROVE  HeuristicRerank(list, score, topics) \in Seq(T)
<1> DEFINE S == Range(list)
           scores == {1} \cup {score[c] : c \in Range(list)}
           best == Max(scores)
           Relevance(c) == 4500 * Rounded(1000 * score[c], best)
                      + 1375 * (TrustScore[c.trust] + FreshnessScore[Freshness(c)]
                                + (IF topics = {} \/ c.topic \in topics THEN 1000 ELSE 350) + c.coverage)
           relevance == [c \in Range(list) |-> Relevance(c)]
           Before(c, d) == relevance[c] > relevance[d] \/ (relevance[c] = relevance[d] /\ Rank(list, c) < Rank(list, d))
           n == Cardinality(S)
           R == {p \in S \X S : Before(p[1], p[2])}
           At(k) == CHOOSE x \in S : Cardinality({y \in S : Before(y, x)}) = k - 1
           f == [k \in 1..n |-> At(k)]
<1>1. S \subseteq T
    BY AnySequenceIsAList
<1>2. IsFiniteSet(S) /\ n \in Nat
    BY <1>1, CorpusAssumption, FS_Subset, FS_CardinalityType
<1>3. best \in Int /\ best >= 1
  <2> DEFINE g == [c \in S |-> score[c]]
             image == {score[c] : c \in Range(list)}
  <2>1. g \in Surjection(S, image)
      BY DEF Surjection
  <2>2. IsFiniteSet(image)
    <3> HIDE DEF g, image
    <3> QED
        BY <1>2, <2>1, FS_Surjection
  <2>3. scores = image \cup {1} /\ image \subseteq Int
      OBVIOUS
  <2> HIDE DEF image, scores
  <2>4. IsFiniteSet(image \cup {1})
      BY <2>2, FS_AddElement
  <2>5. IsFiniteSet(scores)
      BY <2>3, <2>4, Zenon
  <2>6. scores \subseteq Int /\ 1 \in scores
      BY <2>3
  <2> QED
      BY <2>5, <2>6, GreatestIsOneOf
<1> HIDE DEF best
<1>4. \A c \in S : relevance[c] \in Int
  <2> SUFFICES ASSUME NEW c \in S PROVE Relevance(c) \in Int
      OBVIOUS
  <2>1. Rounded(1000 * score[c], best) \in Int
    <3>1. 2 * (1000 * score[c]) + best \in Int /\ 2 * best \in Int /\ 2 * best > 0
        BY <1>3
    <3>2. \A a, b \in Int : b > 0 => a \div b \in Int
        OBVIOUS
    <3> QED
        BY <3>1, <3>2 DEF Rounded
  <2>2. c.trust \in DOMAIN TrustScore /\ c.coverage \in Nat
      BY <1>1, CorpusAssumption
  <2>3. TrustScore[c.trust] \in Int
      BY <2>2 DEF TrustScore
  <2>4. FreshnessScore[Freshness(c)] \in Int
      BY DEF FreshnessScore, Freshness
  <2>5. (IF topics = {} \/ c.topic \in topics THEN 1000 ELSE 350) \in Int
      OBVIOUS
  <2> DEFINE matched == Rounded(1000 * score[c], best)
             trusted == TrustScore[c.trust]
             fresh == FreshnessScore[Freshness(c)]
             topical == IF topics = {} \/ c.topic \in topics THEN 1000 ELSE 350
             covered == c.coverage
  <2>6. matched \in Int /\ trusted \in Int /\ fresh \in Int /\ topical \in Int /\ covered \in Int
      BY <2>1, <2>2, <2>3, <2>4, <2>5
  <2>7. Relevance(c) = 4500 * matched + 1375 * (trusted + fresh + topical + covered)
      OBVIOUS
  <2> HIDE DEF Relevance, matched, trusted, fresh, topical, covered
  <2>8. 4500 * matched + 1375 * (trusted + fresh + topical + covered) \in Int
      BY <2>6
  <2> QED
      BY <2>7, <2>8
<1> HIDE DEF relevance
<1>5. \A c \in S : Rank(list, c) \in Int /\ list[Rank(list, c)] = c
    BY RankIsANumber
<1>6. StrictOrder(S, R)
  <2>1. \A c \in S : ~Before(c, c)
      BY <1>4, <1>5
  <2>2. \A c, d, e \in S : Before(c, d) /\ Before(d, e) => Before(c, e)
      BY <1>4, <1>5
  <2>3. \A c, d \in S : c # d => Rank(list, c) # Rank(list, d)
      BY <1>5
  <2>4. \A c, d \in S : c # d => Before(c, d) \/ Before(d, c)
      BY <1>4, <1>5, <2>3
  <2> HIDE DEF Before
  <2> QED
      BY <2>1, <2>2, <2>4 DEF StrictOrder
<1> HIDE DEF Before
<1>7. \A x \in S : Predecessors(S, R, x) = {y \in S : Before(y, x)}
    BY DEF Predecessors
<1>8. ASSUME NEW k \in 1..n PROVE \E x \in S : Cardinality({y \in S : Before(y, x)}) = k - 1
  <2> HIDE DEF R
  <2>1. PICK x \in S : Cardinality(Predecessors(S, R, x)) = k - 1
      BY <1>2, <1>6, PlaceOfEach
  <2>2. Cardinality({y \in S : Before(y, x)}) = k - 1
      BY <1>7, <2>1, Zenon
  <2> QED
      BY <2>2
<1>9. \A k \in 1..n : At(k) \in S
    BY <1>8
<1>10. HeuristicRerank(list, score, topics) = SubSeq(f, 1, n)
    BY DEF HeuristicRerank, Sorted, Listing, Before, relevance, best
<1> HIDE DEF At
<1>11. f = [k \in 1..n |-> f[k]] /\ \A k \in 1..n : f[k] \in T
    BY <1>1, <1>9
<1> HIDE DEF f
<1> QED
    BY <1>2, <1>10, <1>11, ListBuiltOf

\* The chunks that a model listed come first, whatever else it listed.
LEMMA ModelKeeps ==
  ASSUME NEW T \in SUBSET Corpus, NEW list \in Seq(T), NEW Known, NEW listed \in Seq(Known), NEW fallback \in Seq(T)
  PROVE  ModelRerank(list, listed, fallback) \in Seq(T)
<1> DEFINE at(i) == {c \in Range(list) : c.id = listed[i]}
           known == {i \in DOMAIN listed : at(i) # {} /\ \A j \in 1..(i - 1) : listed[j] # listed[i]}
           first == InOrder(known)
           ChunkAt(k) == CHOOSE c \in at(first[k]) : TRUE
           f == [k \in 1..Len(first) |-> ChunkAt(k)]
           chosen == SubSeq(f, 1, Len(first))
           others == {i \in DOMAIN list : list[i] \notin Range(chosen)}
<1>1. known \subseteq Nat /\ IsFiniteSet(known)
  <2>1. IsFiniteSet(DOMAIN listed) /\ DOMAIN listed \subseteq Nat
      BY AnySequenceIsAList, ListFacts
  <2>2. known \in SUBSET DOMAIN listed
      OBVIOUS
  <2> HIDE DEF known
  <2> QED
      BY <2>1, <2>2, FS_Subset
<1>2. Len(first) \in Nat /\ \A k \in 1..Len(first) : first[k] \in known
  <2> HIDE DEF known
  <2>1. first \in Seq(known)
      BY <1>1, PositionsInOrder
  <2> QED
      BY <2>1
<1>3. Range(list) \subseteq T
    BY AnySequenceIsAList
<1>4. \A k \in 1..Len(first) : at(first[k]) # {}
    BY <1>2
<1>5. \A k \in 1..Len(first) : ChunkAt(k) \in T
    BY <1>3, <1>4
<1>8. ModelRerank(list, listed, fallback)
        = IF chosen = <<>> THEN fallback ELSE chosen \o AtPositions(list, others)
    BY DEF ModelRerank, Listing
<1> HIDE DEF ChunkAt
<1>6. f = [k \in 1..Len(first) |-> f[k]] /\ \A k \in 1..Len(first) : f[k] \in T
    BY <1>5
<1>7. chosen \in Seq(T)
  <2> HIDE DEF f, first
  <2> QED
      BY <1>2, <1>6, ListBuiltOf
<1> HIDE DEF chosen
<1>9. AtPositions(list, others) \in Seq(T)
    BY PartOfThem
<1> HIDE DEF others
<1> QED
    BY <1>7, <1>8, <1>9

(***************************************************************************)
(* Near-duplicates.                                                        *)
(***************************************************************************)
\* Which chunks are kept is settled one after the other.
LEMMA KeptOnesExist ==
  ASSUME NEW s, NEW n \in Nat
  PROVE  \E K \in SUBSET (1..n) :
           \A i \in 1..n : i \in K <=> \A j \in 1..(i - 1) : SaysTheSame(s[i], s[j]) => j \notin K
<1> DEFINE Settles(K, m) ==
             \A i \in 1..m : i \in K <=> \A j \in 1..(i - 1) : SaysTheSame(s[i], s[j]) => j \notin K
           open == {m \in Nat : ~\E K \in SUBSET (1..m) : Settles(K, m)}
<1>1. ASSUME open # {} PROVE FALSE
  <2>1. PICK m \in open : \A k \in open : m <= k
      BY <1>1, LeastExists
  <2>2. CASE m = 0
    <3>1. {} \in SUBSET (1..0) /\ Settles({}, 0)
        OBVIOUS
    <3> QED
        BY <2>1, <2>2, <3>1
  <2>3. CASE m # 0
    <3>1. m - 1 \in Nat /\ m - 1 \notin open
        BY <2>1, <2>3
    <3>2. PICK K \in SUBSET (1..(m - 1)) : Settles(K, m - 1)
        BY <3>1
    <3> DEFINE alone == \A j \in 1..(m - 1) : SaysTheSame(s[m], s[j]) => j \notin K
               L == IF alone THEN K \cup {m} ELSE K
    <3>3. L \in SUBSET (1..m) /\ (m \in L <=> alone) /\ \A j \in 1..(m - 1) : j \in L <=> j \in K
        BY <3>1, <2>1
    <3>4. ASSUME NEW i \in 1..m
          PROVE  i \in L <=> \A j \in 1..(i - 1) : SaysTheSame(s[i], s[j]) => j \notin L
      <4> HIDE DEF L
      <4>1. CASE i = m
          BY <3>3, <4>1
      <4>2. CASE i # m
        <5>1. i \in 1..(m - 1) /\ \A j \in 1..(i - 1) : j \in 1..(m - 1)
            BY <4>2, <2>1
        <5>2. i \in K <=> \A j \in 1..(i - 1) : SaysTheSame(s[i], s[j]) => j \notin K
            BY <3>2, <5>1
        <5> QED
            BY <3>3, <5>1, <5>2, Zenon
      <4> QED
          BY <4>1, <4>2
    <3>5. Settles(L, m)
        BY <3>4
    <3> HIDE DEF L, Settles
    <3> QED
        BY <2>1, <3>3, <3>5
  <2> QED
      BY <2>2, <2>3
<1> HIDE DEF Settles
<1>2. \E K \in SUBSET (1..n) : Settles(K, n)
    BY <1>1
<1> QED
    BY <1>2 DEF Settles

KeptOf(s, kept) == [i \in DOMAIN s |-> \A j \in 1..(i - 1) : SaysTheSame(s[i], s[j]) => ~kept[j]]

LEMMA KeptFunctionExists ==
  ASSUME NEW s, IsList(s)
  PROVE  \E kept : kept = KeptOf(s, kept)
<1>1. DOMAIN s = 1..Len(s) /\ Len(s) \in Nat
    BY ListFacts
<1>2. PICK K \in SUBSET (1..Len(s)) :
        \A i \in 1..Len(s) : i \in K <=> \A j \in 1..(i - 1) : SaysTheSame(s[i], s[j]) => j \notin K
    BY <1>1, KeptOnesExist
<1> DEFINE kept == [i \in DOMAIN s |-> i \in K]
<1>3. ASSUME NEW i \in DOMAIN s
      PROVE  i \in K <=> \A j \in 1..(i - 1) : SaysTheSame(s[i], s[j]) => ~kept[j]
  <2>1. i \in 1..Len(s) /\ \A j \in 1..(i - 1) : j \in DOMAIN s
      BY <1>1
  <2>2. \A j \in 1..(i - 1) : kept[j] <=> j \in K
      BY <2>1, Zenon
  <2>3. i \in K <=> \A j \in 1..(i - 1) : SaysTheSame(s[i], s[j]) => j \notin K
      BY <1>2, <2>1
  <2> HIDE DEF kept
  <2> QED
      BY <2>2, <2>3, Zenon
<1>4. kept = KeptOf(s, kept)
  <2>1. KeptOf(s, kept) = [i \in DOMAIN s |-> \A j \in 1..(i - 1) : SaysTheSame(s[i], s[j]) => ~kept[j]]
      BY DEF KeptOf
  <2>2. \A i \in DOMAIN s : (i \in K) = (\A j \in 1..(i - 1) : SaysTheSame(s[i], s[j]) => ~kept[j])
    <3> HIDE DEF kept
    <3> TAKE i \in DOMAIN s
    <3> DEFINE alone == \A j \in 1..(i - 1) : SaysTheSame(s[i], s[j]) => ~kept[j]
    <3>1. i \in K <=> alone
        BY <1>3
    <3>2. alone \in BOOLEAN /\ (i \in K) \in BOOLEAN
        OBVIOUS
    <3> HIDE DEF alone
    <3>3. (i \in K) = alone
        BY <3>1, <3>2
    <3> QED
        BY <3>3 DEF alone
  <2> QED
      BY <2>1, <2>2, Zenon
<1> QED
    BY <1>4

\* Of two chunks that say the same at most one is kept.
LEMMA NothingIsToldTwice ==
  ASSUME NEW s, IsList(s), NEW i \in DOMAIN Deduplicate(s), NEW j \in DOMAIN Deduplicate(s), i # j
  PROVE  ~SaysTheSame(Deduplicate(s)[i], Deduplicate(s)[j])
<1> DEFINE kept == CHOOSE k : k = KeptOf(s, k)
           places == {p \in DOMAIN s : kept[p]}
           o == InOrder(places)
<1>1. Deduplicate(s) = AtPositions(s, places)
    BY DEF Deduplicate, KeptOf
<1>2. kept = KeptOf(s, kept)
    BY KeptFunctionExists
<1> HIDE DEF kept
<1>3. places \in SUBSET DOMAIN s
    OBVIOUS
<1>4. \A p, q \in places : q < p => ~SaysTheSame(s[p], s[q])
  <2> SUFFICES ASSUME NEW p \in places, NEW q \in places, q < p PROVE ~SaysTheSame(s[p], s[q])
      OBVIOUS
  <2>1. q \in 1..(p - 1)
      BY <1>3, ListFacts
  <2>2. kept[p] = \A r \in 1..(p - 1) : SaysTheSame(s[p], s[r]) => ~kept[r]
      BY <1>2, Zenon DEF KeptOf
  <2>3. kept[p] /\ kept[q]
      OBVIOUS
  <2> QED
      BY <2>1, <2>2, <2>3, Zenon
<1> HIDE DEF places
<1>5. /\ DOMAIN Deduplicate(s) = 1..Cardinality(places)
      /\ o[i] \in places /\ Deduplicate(s)[i] = s[o[i]]
      /\ o[j] \in places /\ Deduplicate(s)[j] = s[o[j]]
    BY <1>1, <1>3, AtPositionsOf
<1>6. places \subseteq Nat /\ IsFiniteSet(places)
    BY <1>3, ListFacts, FS_Subset
<1>7. o[i] # o[j]
    BY <1>5, <1>6, PositionsInOrder
<1>8. \A c, d : SaysTheSame(c, d) <=> SaysTheSame(d, c)
  <2>1. \A c, d : {c.id, d.id} = {d.id, c.id}
      OBVIOUS
  <2> QED
      BY <2>1, Zenon DEF SaysTheSame
<1>9. o[i] < o[j] \/ o[j] < o[i]
    BY <1>5, <1>6, <1>7
<1> QED
    BY <1>4, <1>5, <1>8, <1>9

(***************************************************************************)
(* The assembled context.                                                  *)
(***************************************************************************)
\* Some of a list in its order, and no chunk of instructions, whatever is left out
\* as a near-duplicate or for want of tokens.
LEMMA AssemblyKeeps ==
  ASSUME NEW T, NEW list \in Seq(T), NEW budget
  PROVE  Assemble(list, budget) \in Seq({c \in T : ~Hostile(c)})
<1> DEFINE safe == {i \in DOMAIN list : ~Hostile(list[i])}
           first == AtPositions(list, safe)
           X == {c \in T : ~Hostile(c)}
<1>1. first \in Seq(X)
  <2>1. safe \in SUBSET DOMAIN list /\ \A i \in safe : list[i] \in X
      OBVIOUS
  <2> HIDE DEF safe, X
  <2> QED
      BY <2>1, PartOfThem
<1> HIDE DEF X, first
<1>2. Deduplicate(first) \in Seq(X)
  <2> DEFINE kept[i \in DOMAIN first] ==
               \A j \in 1..(i - 1) : SaysTheSame(first[i], first[j]) => ~kept[j]
             places == {i \in DOMAIN first : kept[i]}
  <2>1. Deduplicate(first) = AtPositions(first, places)
      BY DEF Deduplicate
  <2>2. places \in SUBSET DOMAIN first
      OBVIOUS
  <2> HIDE DEF places
  <2>3. \A i \in places : first[i] \in X
      BY <1>1, <2>2
  <2> QED
      BY <1>1, <2>1, <2>2, <2>3, PartOfThem
<1>3. \A l \in Seq(X) : WithinBudget(l, budget) \in Seq(X)
  <2> SUFFICES ASSUME NEW l \in Seq(X) PROVE WithinBudget(l, budget) \in Seq(X)
      OBVIOUS
  <2> DEFINE Cost(n) == MapThenSumSet(LAMBDA i : l[i].tokens, 1..n)
             paid == {n \in DOMAIN l : n = 1 \/ Cost(n) <= budget}
  <2>1. WithinBudget(l, budget) = FirstOnes(l, Cardinality(paid))
      BY DEF WithinBudget
  <2>2. IsFiniteSet(DOMAIN l) /\ paid \in SUBSET DOMAIN l
      BY AnySequenceIsAList, ListFacts
  <2> HIDE DEF paid
  <2>3. Cardinality(paid) \in Nat
      BY <2>2, FS_Subset, FS_CardinalityType
  <2> QED
      BY <2>1, <2>3, FirstOfThem
<1>4. Assemble(list, budget) = WithinBudget(Deduplicate(first), budget)
    BY DEF Assemble, first
<1>5. Assemble(list, budget) \in Seq(X)
    BY <1>2, <1>3, <1>4
<1> QED
    BY <1>5 DEF X

\* Of two chunks of a context that say the same there is only one.
LEMMA AssemblyTellsOnce ==
  ASSUME NEW T, NEW list \in Seq(T), NEW budget,
         NEW i \in DOMAIN Assemble(list, budget), NEW j \in DOMAIN Assemble(list, budget), i # j
  PROVE  ~SaysTheSame(Assemble(list, budget)[i], Assemble(list, budget)[j])
<1> DEFINE first == AtPositions(list, {p \in DOMAIN list : ~Hostile(list[p])})
           told == Deduplicate(first)
           Cost(n) == MapThenSumSet(LAMBDA p : told[p].tokens, 1..n)
           paid == {n \in DOMAIN told : n = 1 \/ Cost(n) <= budget}
<1>1. Assemble(list, budget) = FirstOnes(told, Cardinality(paid))
    BY DEF Assemble, WithinBudget
<1>2. IsList(first)
  <2> DEFINE safe == {p \in DOMAIN list : ~Hostile(list[p])}
  <2>1. safe \in SUBSET DOMAIN list
      OBVIOUS
  <2> HIDE DEF safe
  <2>2. IsList(AtPositions(list, safe))
      BY <2>1, AnySequenceIsAList, PartsOfLists
  <2> QED
      BY <2>2 DEF safe
<1> HIDE DEF first
<1>3. IsList(told)
  <2> DEFINE kept[p \in DOMAIN first] == \A q \in 1..(p - 1) : SaysTheSame(first[p], first[q]) => ~kept[q]
             places == {p \in DOMAIN first : kept[p]}
  <2>1. told = AtPositions(first, places) /\ places \in SUBSET DOMAIN first
      BY DEF Deduplicate
  <2> HIDE DEF places, told
  <2> QED
      BY <1>2, <2>1, PartsOfLists
<1>4. \A p, q \in DOMAIN told : p # q => ~SaysTheSame(told[p], told[q])
    BY <1>2, NothingIsToldTwice
<1>5. paid \in SUBSET DOMAIN told
    OBVIOUS
<1> HIDE DEF told, paid
<1>6. Cardinality(paid) \in Nat
    BY <1>3, <1>5, ListFacts, FS_Subset, FS_CardinalityType
<1>7. /\ i \in DOMAIN told /\ Assemble(list, budget)[i] = told[i]
      /\ j \in DOMAIN told /\ Assemble(list, budget)[j] = told[j]
    BY <1>1, <1>3, <1>6, FirstOnesOf
<1> QED
    BY <1>4, <1>7

SearchStrategies == {"vector", "keyword", "hybrid", "hybrid_rerank"}

\* A search finds chunks that pass its filters and hold in the month.
LEMMA SearchFinds ==
  ASSUME NEW filters, NEW limit \in Nat, NEW budget, NEW strategy \in SearchStrategies,
         NEW Known, NEW listed \in Seq(Known)
  PROVE  Search(filters, limit, budget, strategy, listed) \in Seq({c \in Fitting(filters) : ~Hostile(c)})
<1> DEFINE T == Fitting(filters)
           dense == DenseSearch(filters)
           keyword == KeywordSearch(filters)
           hybrid == Fused(dense, keyword)
           score == [c \in Range(hybrid) |-> FusedScore(dense, keyword, c)]
           reranked == HeuristicRerank(hybrid, score, filters.topics)
<1>1. T \in SUBSET Corpus
    BY DEF Fitting
<1>2. dense \in Seq(T) /\ keyword \in Seq(T)
    BY RetrieversFind
<1> HIDE DEF T, dense, keyword
<1>3. hybrid \in Seq(T)
    BY <1>1, <1>2, FusionFinds
<1>4. \A c \in Range(hybrid) : score[c] \in Int
    BY <1>2, ScoreIsANumber
<1> HIDE DEF hybrid, score
<1>5. reranked \in Seq(T)
    BY <1>1, <1>3, <1>4, HeuristicKeeps
<1>6. ModelRerank(hybrid, listed, reranked) \in Seq(T)
    BY <1>1, <1>3, <1>5, ModelKeeps
<1>7. Retrieved(filters, strategy, listed) \in {dense, keyword, hybrid, ModelRerank(hybrid, listed, reranked)}
    BY DEF Retrieved, SearchStrategies, dense, keyword, hybrid, score
<1> HIDE DEF reranked
<1>8. Retrieved(filters, strategy, listed) \in Seq(T)
    BY <1>2, <1>3, <1>6, <1>7
<1>9. FirstOnes(Retrieved(filters, strategy, listed), limit) \in Seq(T)
    BY <1>8, FirstOfThem
<1> QED
    BY <1>9, AssemblyKeeps DEF Search, T

(***************************************************************************)
(* What rules a region out.                                                *)
(***************************************************************************)
LEMMA NightsAreANumber ==
  ASSUME NEW trip, trip.regional \in Nat, trip.total \in Nat
  PROVE  EffectiveNights(trip) \in Nat
<1>1. trip.total \div 3 \in Nat
    OBVIOUS
<1>2. Min({7, trip.total \div 3}) \in Nat
  <2>1. {7, trip.total \div 3} \subseteq Nat /\ {7, trip.total \div 3} # {}
      BY <1>1
  <2> QED
      BY <2>1, LeastIsOneOf
<1>3. \A m \in Nat : Max({2, m}) \in Nat
  <2> TAKE m \in Nat
  <2>1. \E x \in {2, m} : \A y \in {2, m} : x >= y
      OBVIOUS
  <2>2. Max({2, m}) \in {2, m}
      BY <2>1 DEF Max
  <2> QED
      BY <2>2
<1> QED
    BY <1>2, <1>3 DEF EffectiveNights

LEMMA LongerStaysFailLess ==
  ASSUME NEW q \in Requests, NEW r \in DOMAIN Regions
  PROVE  HardFailures(Regions[r], LongerStay(q.trip)) \subseteq HardFailures(Regions[r], q.trip)
<1> DEFINE trip == q.trip
           n == EffectiveNights(trip)
           stay == LongerStay(trip)
           region == Regions[r]
           in == Inbound(region, trip)
<1>1. n \in Nat
    BY NightsAreANumber, TripsAssumption
<1>2. /\ stay.regional = n + 1 /\ stay.pace = trip.pace /\ stay.driving = trip.driving
      /\ stay.stepFree = trip.stepFree /\ stay.arrival = trip.arrival
    BY TripsAssumption DEF LongerStay
<1> HIDE DEF stay
<1>3. EffectiveNights(stay) = n + 1
    BY <1>1, <1>2 DEF EffectiveNights
<1>4. in \in Nat /\ Inbound(region, stay) = in
  <2>1. Range(region.gateways) \subseteq Nat /\ Range(region.gateways) # {}
      BY ProfilesAssumption DEF Range
  <2>2. Min(Range(region.gateways)) \in Nat
      BY <2>1, LeastIsOneOf
  <2> QED
      BY <1>2, <2>1, <2>2 DEF Inbound, BestGateway, Range
<1>5. PaceTolerance[trip.pace] \in {80, 100, 125}
  <2>1. \A pace \in DOMAIN PaceTolerance : PaceTolerance[pace] \in {80, 100, 125}
      BY DEF PaceTolerance
  <2> QED
      BY <2>1, TripsAssumption
<1> HIDE DEF n, in
<1>6. TravelDominated(2 * in, stay) => TravelDominated(2 * in, trip)
  <2> DEFINE h == 2 * in
             Long(p, m) == h * 10000 > 35 * p * (h + 100 * m)
  <2>1. h \in Nat
      BY <1>4
  <2>2. /\ TravelDominated(h, stay) <=> Long(PaceTolerance[trip.pace], n + 1)
        /\ TravelDominated(h, trip) <=> Long(PaceTolerance[trip.pace], n)
      BY <1>2, <1>3 DEF TravelDominated, UsableTime, MaxTransitShare, n
  <2> HIDE DEF h
  <2>3. \A p \in {80, 100, 125} : Long(p, n + 1) => Long(p, n)
    <3>1. Long(80, n + 1) => Long(80, n)
        BY <1>1, <2>1
    <3>2. Long(100, n + 1) => Long(100, n)
        BY <1>1, <2>1
    <3>3. Long(125, n + 1) => Long(125, n)
        BY <1>1, <2>1
    <3> QED
        BY <3>1, <3>2, <3>3
  <2> HIDE DEF Long
  <2>4. TravelDominated(h, stay) => TravelDominated(h, trip)
      BY <1>5, <2>2, <2>3
  <2> QED
      BY <2>4 DEF h
<1>7. PublicOnly(stay) = PublicOnly(trip)
    BY <1>2 DEF PublicOnly
<1>8. EffectiveNights(stay) < region.minNights => n < region.minNights
    BY <1>1, <1>3, ProfilesAssumption
<1> HIDE DEF trip, region
<1>9. HardFailures(region, stay) \subseteq HardFailures(region, trip)
    BY <1>2, <1>4, <1>6, <1>7, <1>8 DEF HardFailures, HardConstraints, n, in
<1> QED
    BY <1>9 DEF trip, region, stay

(***************************************************************************)
(* The report of the guardrails.                                           *)
(***************************************************************************)
LEMMA ReportOfDraft ==
  ASSUME NEW d, d.floor \in Nat, IsFiniteSet(d.evidence)
  PROVE  /\ Report(d).confidence = High =>
              d.gaps = {} /\ Cardinality(d.evidence) >= d.floor /\ ~d.disputed
         /\ d.disputed => Report(d).confidence < High /\ NeedsHuman(Report(d))
         /\ NeedsHuman(Report(d)) /\ ~d.disputed => Report(d).findings # {}
<1> DEFINE S == {High} \cup {Cap(d, code) : code \in Findings(d)}
                  \cup (IF d.evidence = {} THEN {Insufficient} ELSE {})
                  \cup (IF d.disputed THEN {Medium} ELSE {})
<1>1. S \subseteq 0..3 /\ S # {}
    BY DEF Cap, High, Insufficient, Medium, Low
<1>2. \A c \in S : Min(S) <= c /\ Min(S) \in 0..3
  <2> HIDE DEF S
  <2> QED
      BY <1>1, LeastConfidence
<1>3. Report(d).confidence = Min(S)
    BY DEF Report, Confidence
<1>4. \A code \in {"G4", "G7"} : code \in Findings(d) => 1 \in S
    BY DEF Cap, Low
<1>5. d.disputed => 2 \in S
    BY DEF Medium
<1> HIDE DEF S
<1>6. (d.gaps # {} => "G7" \in Findings(d)) /\ (TooLittleEvidence(d) => "G4" \in Findings(d))
    BY DEF Findings
<1>7. ASSUME Report(d).confidence = High
      PROVE  d.gaps = {} /\ Cardinality(d.evidence) >= d.floor /\ ~d.disputed
  <2>1. 1 \notin S /\ 2 \notin S
      BY <1>2, <1>3, <1>7 DEF High
  <2>2. d.gaps = {} /\ ~TooLittleEvidence(d)
      BY <1>4, <1>6, <2>1
  <2>3. Cardinality(d.evidence) \in Nat
      BY FS_CardinalityType
  <2> QED
      BY <1>5, <2>1, <2>2, <2>3 DEF TooLittleEvidence
<1>8. ASSUME d.disputed PROVE Report(d).confidence < High /\ NeedsHuman(Report(d))
  <2>1. Min(S) \in 0..3 /\ Min(S) <= 2
      BY <1>2, <1>5, <1>8
  <2>2. Report(d).reason = "conflicting_sources"
      BY <1>8 DEF Report, ReviewReason
  <2> QED
      BY <1>3, <2>1, <2>2 DEF High, NeedsHuman, NoReason
<1>9. ASSUME NeedsHuman(Report(d)), ~d.disputed PROVE Report(d).findings # {}
  <2>1. LoadBearing(d) # {} \/ Findings(d) \cap {"G1", "G2"} # {}
      BY <1>9 DEF NeedsHuman, Report, ReviewReason, NoReason
  <2>2. LoadBearing(d) # {} => "G3" \in Findings(d)
      BY DEF LoadBearing, Findings
  <2> QED
      BY <2>1, <2>2 DEF Report
<1> QED
    BY <1>7, <1>8, <1>9

\* What cites the evidence and repeats its literals is supported.
LEMMA QuotesAreSupported ==
  ASSUME NEW d, d.cited \subseteq Ids(d.evidence),
         \A block \in d.blocks : DOMAIN block \subseteq Nat /\ Range(block) \subseteq Supported(d)
  PROVE  Report(d).findings \cap {"G1", "G2"} = {}
<1>1. DanglingCitations(d) = {}
    BY DEF DanglingCitations
<1>2. ASSUME NEW block \in d.blocks, NEW kind PROVE FirstOfKind(block, kind) \subseteq Supported(d)
  <2> DEFINE places == {i \in DOMAIN block : block[i][1] = kind}
  <2>1. places # {} => Min(places) \in places
    <3>1. places \subseteq Nat
        OBVIOUS
    <3> HIDE DEF places
    <3> QED
        BY <3>1, LeastIsOneOf
  <2>2. FirstOfKind(block, kind) = IF places = {} THEN {} ELSE {block[Min(places)]}
      BY DEF FirstOfKind
  <2>3. \A i \in places : block[i] \in Supported(d)
      BY DEF Range
  <2> HIDE DEF places
  <2> QED
      BY <2>1, <2>2, <2>3
<1>3. UnsupportedClaims(d) = {}
    BY <1>2 DEF UnsupportedClaims, Asserted
<1>4. "G1" \notin Findings(d) /\ "G2" \notin Findings(d)
    BY <1>1, <1>3 DEF Findings
<1> QED
    BY <1>4 DEF Report

\* The closing summary of disputed facts has a caveat, whoever wrote it.
LEMMA DisputesAreCaveats ==
  ASSUME NEW sentences, NEW told, NEW doubtful,
         NEW s \in FinalExplanations(sentences, Facts(told, TRUE, doubtful))
  PROVE  s.caveats
<1> DEFINE f == Facts(told, TRUE, doubtful)
<1>1. f.disputed
    BY DEF Facts
<1>2. CASE s = DeterministicSummary(f)
    BY <1>1, <1>2 DEF DeterministicSummary
<1>3. CASE ~Violation(s, f)
    BY <1>1, <1>3 DEF Violation
<1> QED
    BY <1>2, <1>3 DEF FinalExplanations

\* The literals of a chunk, one after the other
LEMMA LiteralsInSequence ==
  ASSUME NEW S, IsFiniteSet(S)
  PROVE  DOMAIN SetToSeq(S) \subseteq Nat /\ Range(SetToSeq(S)) \subseteq S
<1>1. Cardinality(S) \in Nat /\ ExistsBijection(1..Cardinality(S), S)
  <2>1. PICK n \in Nat : ExistsBijection(1..n, S)
      BY FS_NatBijection
  <2> QED
      BY <2>1, FS_CountingElements
<1>2. PICK f \in Bijection(1..Cardinality(S), S) : TRUE
    BY <1>1 DEF ExistsBijection
<1>3. f \in [1..Cardinality(S) -> S] /\ IsInjective(f)
    BY <1>2 DEF Bijection, Injection, IsInjective
<1>4. SetToSeq(S) \in [1..Cardinality(S) -> S]
    BY <1>3 DEF SetToSeq
<1> QED
    BY <1>1, <1>4 DEF Range

\* A context tells of no more chunks than it has.
LEMMA ContextIsCounted ==
  ASSUME NEW list \in Seq(Corpus)
  PROVE  IsFiniteSet(AsEvidence(list)) /\ Cardinality(AsEvidence(list)) <= Len(list)
<1> DEFINE told(i) == Chunk(list[i].id, list[i].literals, StaleCritical(list[i]))
           f == [i \in 1..Len(list) |-> told(i)]
<1>1. AsEvidence(list) = {told(i) : i \in 1..Len(list)}
    BY DEF AsEvidence, Range
<1> HIDE DEF told
<1>2. f \in Surjection(1..Len(list), AsEvidence(list))
    BY <1>1 DEF Surjection
<1>3. IsFiniteSet(1..Len(list)) /\ Cardinality(1..Len(list)) = Len(list)
  <2>1. Len(list) \in Nat
      OBVIOUS
  <2> QED
      BY <2>1, FS_Interval
<1> QED
    BY <1>2, <1>3, FS_Surjection

(***************************************************************************)
(* The score of a region is a number, so that any two regions compare.     *)
(***************************************************************************)
LEMMA GreaterOfTwo == \A a, b \in Int : Max({a, b}) \in {a, b} /\ Max({a, b}) \in Int
<1> SUFFICES ASSUME NEW a \in Int, NEW b \in Int PROVE Max({a, b}) \in {a, b}
    OBVIOUS
<1>1. \E x \in {a, b} : \A y \in {a, b} : x >= y
    OBVIOUS
<1> QED
    BY <1>1 DEF Max

LEMMA SmallerOfTwo == \A a, b \in Int : Min({a, b}) \in {a, b} /\ Min({a, b}) \in Int
<1> SUFFICES ASSUME NEW a \in Int, NEW b \in Int PROVE Min({a, b}) \in {a, b}
    OBVIOUS
<1>1. \E x \in {a, b} : \A y \in {a, b} : x <= y
    OBVIOUS
<1> QED
    BY <1>1 DEF Min

LEMMA RoundedIsANumber == \A a \in Int, b \in Nat \ {0} : Rounded(a, b) \in Int
<1> SUFFICES ASSUME NEW a \in Int, NEW b \in Nat \ {0} PROVE (2 * a + b) \div (2 * b) \in Int
    BY DEF Rounded
<1> DEFINE n == 2 * a + b
           d == 2 * b
<1>1. n \in Int /\ d \in Nat /\ d > 0
    OBVIOUS
<1> HIDE DEF n, d
<1>2. n \div d \in Int
    BY <1>1
<1> QED
    BY <1>2 DEF n, d

\* The three greatest of a finite set, or all: each time the greatest is added of
\* those that are left.
LEMMA GreatestThree ==
  ASSUME NEW S, IsFiniteSet(S), NEW f, \A x \in S : f[x] \in Int
  PROVE  LET k == Min({3, Cardinality(S)})
         IN  /\ k \in Nat
             /\ \E top \in kSubset(k, S) : \A a \in top, b \in S \ top : f[a] >= f[b]
<1> DEFINE n == Cardinality(S)
           Top(m) == \E top \in SUBSET S : /\ IsFiniteSet(top) /\ Cardinality(top) = m
                                           /\ \A a \in top, b \in S \ top : f[a] >= f[b]
<1>1. n \in Nat
    BY FS_CardinalityType
<1>2. Top(0)
  <2>1. {} \in SUBSET S /\ IsFiniteSet({}) /\ Cardinality({}) = 0
      BY FS_EmptySet
  <2> QED
      BY <2>1
<1>3. ASSUME NEW m \in Nat, Top(m), m < n PROVE Top(m + 1)
  <2>1. PICK top \in SUBSET S : /\ IsFiniteSet(top) /\ Cardinality(top) = m
                                /\ \A a \in top, b \in S \ top : f[a] >= f[b]
      BY <1>3
  <2> DEFINE rest == S \ top
             values == {f[x] : x \in rest}
  <2>2. rest # {}
      BY <1>3, <2>1
  <2>3. IsFiniteSet(values) /\ values \subseteq Int /\ values # {}
    <3>1. IsFiniteSet(rest)
        BY FS_Subset
    <3> QED
        BY <2>2, <3>1, NamedAreFinite
  <2>4. PICK x \in rest : f[x] = Max(values)
    <3> HIDE DEF values
    <3>1. Max(values) \in values
        BY <2>3, GreatestIsOneOf
    <3> QED
        BY <3>1 DEF values
  <2>5. \A y \in rest : f[x] >= f[y]
    <3>1. \A y \in rest : f[y] \in values
        OBVIOUS
    <3> HIDE DEF values
    <3> QED
        BY <2>3, <2>4, <3>1, GreatestIsOneOf
  <2> DEFINE more == top \cup {x}
  <2>6. more \in SUBSET S
      BY <2>4
  <2>7. IsFiniteSet(more) /\ Cardinality(more) = m + 1
      BY <2>1, <2>4, FS_AddElement
  <2>8. \A a \in more, b \in S \ more : f[a] >= f[b]
      BY <2>1, <2>5
  <2> QED
      BY <2>6, <2>7, <2>8
<1>4. Min({3, n}) = (IF n < 3 THEN n ELSE 3)
    BY <1>1, SmallerOfTwo DEF Min
<1> HIDE DEF Top
<1>5. Top(IF n < 3 THEN n ELSE 3)
  <2>1. n > 0 => Top(1)
      BY <1>1, <1>2, <1>3
  <2>2. n > 1 => Top(2)
      BY <1>1, <1>3, <2>1
  <2>3. n > 2 => Top(3)
      BY <1>1, <1>3, <2>2
  <2> QED
      BY <1>1, <1>2, <2>1, <2>2, <2>3
<1> QED
    BY <1>1, <1>4, <1>5 DEF Top, kSubset

LEMMA StaysAndWays ==
  ASSUME NEW q \in Requests, NEW r \in DOMAIN Regions
  PROVE  /\ EffectiveNights(q.trip) \in Nat /\ EffectiveNights(q.trip) >= 1
         /\ RoundTrip(Regions[r], q.trip) \in Nat
<1> DEFINE trip == q.trip
           region == Regions[r]
<1>1. trip.regional \in Nat /\ trip.total \in Nat
    BY TripsAssumption
<1>2. EffectiveNights(trip) \in Nat /\ EffectiveNights(trip) >= 1
  <2> DEFINE m == Min({7, trip.total \div 3})
  <2>1. trip.total \div 3 \in Int
      BY <1>1
  <2>2. m \in Int
      BY <2>1, SmallerOfTwo
  <2> HIDE DEF m
  <2>3. Max({2, m}) \in {2, m} /\ Max({2, m}) >= 2
    <3>1. \E x \in {2, m} : \A y \in {2, m} : x >= y
        BY <2>2
    <3> QED
        BY <2>2, <3>1 DEF Max
  <2> QED
      BY <1>1, <2>2, <2>3 DEF EffectiveNights, m
<1>3. \A g \in DOMAIN region.gateways : region.gateways[g] \in Nat
    BY ProfilesAssumption DEF Range
<1>4. BestGateway(region) \in Nat
  <2>1. Range(region.gateways) \subseteq Nat /\ Range(region.gateways) # {}
      BY ProfilesAssumption DEF Range
  <2>2. Min(Range(region.gateways)) \in Range(region.gateways)
      BY <2>1, LeastIsOneOf
  <2> QED
      BY <2>1, <2>2 DEF BestGateway
<1> HIDE DEF region
<1>5. Inbound(region, trip) \in Nat
    BY <1>3, <1>4 DEF Inbound
<1>6. Outbound(region, trip) \in Nat
    BY <1>3, <1>5 DEF Outbound
<1> QED
    BY <1>2, <1>5, <1>6 DEF RoundTrip, region

\* Hundredths, tenths and shares make each component a number.
LEMMA ComponentsAreNumbers ==
  ASSUME NEW q \in Requests, NEW r \in DOMAIN Regions
  PROVE  /\ NightsFit(Regions[r], q.trip) \in Int
         /\ AccessEfficiency(Regions[r], q.trip) \in Int
         /\ TransportCompatibility(Regions[r], q.trip) \in Int
         /\ SeasonFit(Regions[r], q.trip) \in Int
         /\ Novelty(Regions[r], q.trip) \in Int
         /\ Practicality(Regions[r], q.trip) \in Int
<1> DEFINE trip == q.trip
           region == Regions[r]
           nights == EffectiveNights(trip)
<1>1. /\ region.minNights \in Nat /\ region.idealNights \in Nat /\ region.maxNights \in Nat
      /\ region.transport \in Nat /\ region.booking \in Nat /\ region.luggage \in Nat /\ region.stepFree \in Nat
    BY ProfilesAssumption
<1>2. nights \in Nat /\ nights >= 1 /\ RoundTrip(region, trip) \in Nat
    BY StaysAndWays, TripsAssumption
<1>3. \A month \in DOMAIN region.season : region.season[month] \in Nat
    BY ProfilesAssumption DEF Range
<1>4. IsFiniteSet(region.similar)
    BY ProfilesAssumption
<1>5. trip.driving \in {"no_car", "willing", "prefers_car", "unknown"}
    BY TripsAssumption
<1> HIDE DEF region, trip
<1>6. NightsFit(region, trip) \in Int
  <2> DEFINE least == region.minNights
             ideal == region.idealNights
             greatest == region.maxNights
  <2>1. least \in Nat /\ ideal \in Nat /\ greatest \in Nat
      BY <1>1
  <2>2. AtLeastOne(ideal - least) \in Nat \ {0} /\ AtLeastOne(greatest - ideal) \in Nat \ {0}
      BY <2>1 DEF AtLeastOne
  <2> HIDE DEF least, ideal, greatest, nights
  <2>3. /\ nights < least => Rounded(5000 * nights, least) \in Int
        /\ Rounded(3000 * (nights - least), AtLeastOne(ideal - least)) \in Int
        /\ Rounded(2500 * (nights - ideal), AtLeastOne(greatest - ideal)) \in Int
    <3> DEFINE a == 5000 * nights
               b == 3000 * (nights - least)
               c == 2500 * (nights - ideal)
    <3>1. a \in Int /\ b \in Int /\ c \in Int
        BY <1>2, <2>1
    <3>2. nights < least => least \in Nat \ {0}
        BY <1>2, <2>1
    <3> HIDE DEF a, b, c
    <3>3. /\ nights < least => Rounded(a, least) \in Int
          /\ Rounded(b, AtLeastOne(ideal - least)) \in Int /\ Rounded(c, AtLeastOne(greatest - ideal)) \in Int
        BY <2>2, <3>1, <3>2, RoundedIsANumber
    <3> QED
        BY <3>3 DEF a, b, c
  <2> DEFINE x == Rounded(5000 * nights, least)
             y == Rounded(3000 * (nights - least), AtLeastOne(ideal - least))
             z == Rounded(2500 * (nights - ideal), AtLeastOne(greatest - ideal))
  <2>4. NightsFit(region, trip) = IF nights < least THEN x
                                  ELSE IF nights <= ideal THEN 7000 + y
                                  ELSE IF nights <= greatest THEN 10000 - z ELSE 6000
      BY DEF NightsFit, nights, least, ideal, greatest
  <2>5. (nights < least => x \in Int) /\ y \in Int /\ z \in Int
      BY <2>3
  <2> HIDE DEF x, y, z
  <2> QED
      BY <2>4, <2>5
<1>7. AccessEfficiency(region, trip) \in Int
  <2> DEFINE hours == RoundTrip(region, trip)
             time == hours + UsableTime(trip)
  <2>1. hours \in Nat /\ time \in Nat /\ time >= 100
      BY <1>2 DEF UsableTime
  <2>2. AccessEfficiency(region, trip) = Clamped(Rounded(10000 * (9 * time - 20 * hours), 7 * time))
      BY DEF AccessEfficiency
  <2> HIDE DEF hours, time
  <2>3. 10000 * (9 * time - 20 * hours) \in Int /\ 7 * time \in Nat \ {0}
      BY <2>1
  <2>4. Rounded(10000 * (9 * time - 20 * hours), 7 * time) \in Int
      BY <2>3, RoundedIsANumber
  <2>5. \A value \in Int : Clamped(value) \in Int
    <3> SUFFICES ASSUME NEW value \in Int PROVE Clamped(value) \in Int
        OBVIOUS
    <3>1. Min({10000, value}) \in Int
        BY SmallerOfTwo
    <3> QED
        BY <3>1, GreaterOfTwo DEF Clamped
  <2> QED
      BY <2>2, <2>4, <2>5
<1>8. TransportCompatibility(region, trip) \in Int
  <2> DEFINE carFree == 100 * region.transport
             driven == Max({carFree, IF region.carRecommended THEN 8500 ELSE 7500})
             value == CASE PublicOnly(trip) -> carFree
                        [] trip.driving \in {"willing", "prefers_car"} -> driven
                        [] trip.driving = "unknown" -> 5000 + carFree \div 2
  <2>1. carFree \in Int /\ 5000 + carFree \div 2 \in Int
      BY <1>1
  <2>2. driven \in Int
    <3>1. (IF region.carRecommended THEN 8500 ELSE 7500) \in Int
        OBVIOUS
    <3> HIDE DEF carFree
    <3> QED
        BY <2>1, <3>1, GreaterOfTwo
  <2>3. TransportCompatibility(region, trip)
          = IF trip.luggage THEN Rounded(value * (8500 + 15 * region.luggage), 10000) ELSE value
      BY DEF TransportCompatibility
  <2> HIDE DEF carFree, driven
  <2>4. value \in Int
    <3>1. CASE trip.driving = "no_car"
        BY <2>1, <3>1 DEF PublicOnly
    <3>2. CASE trip.driving \in {"willing", "prefers_car"}
        BY <2>2, <3>2 DEF PublicOnly
    <3>3. CASE trip.driving = "unknown"
        BY <2>1, <3>3 DEF PublicOnly
    <3> QED
        BY <1>5, <3>1, <3>2, <3>3
  <2> HIDE DEF value
  <2>5. value * (8500 + 15 * region.luggage) \in Int /\ 10000 \in Nat \ {0}
      BY <1>1, <2>4
  <2>6. Rounded(value * (8500 + 15 * region.luggage), 10000) \in Int
      BY <2>5, RoundedIsANumber
  <2> QED
      BY <2>3, <2>4, <2>6
<1>9. SeasonFit(region, trip) \in Int
    BY <1>3 DEF SeasonFit
<1>10. Novelty(region, trip) \in Int
  <2>1. IsFiniteSet(trip.visited \cap region.similar)
      BY <1>4, FS_Subset
  <2> DEFINE left == 10000 - 2500 * Cardinality(trip.visited \cap region.similar)
  <2>2. left \in Int
      BY <2>1, FS_CardinalityType
  <2>3. Novelty(region, trip) \in {8000, 1500, Max({3000, left})}
      BY DEF Novelty
  <2> HIDE DEF left
  <2>4. Max({3000, left}) \in Int
      BY <2>2, GreaterOfTwo
  <2> QED
      BY <2>3, <2>4
<1>11. Practicality(region, trip) \in Int
  <2> DEFINE b == 100 - region.booking
             l == IF trip.family THEN 400 + region.luggage ELSE 500
             w == IF trip.limitedWalking THEN 150 + region.stepFree ELSE 250
  <2>1. b \in Int /\ l \in Int /\ w \in Int /\ 1250 \in Nat \ {0}
      BY <1>1
  <2>2. Practicality(region, trip) = Rounded(b * l * w, 1250)
      BY DEF Practicality
  <2> HIDE DEF b, l, w
  <2>3. b * l * w \in Int
    <3>1. b * l \in Int
        BY <2>1
    <3> DEFINE p == b * l
    <3> HIDE DEF p
    <3>2. p * w \in Int
        BY <2>1, <3>1 DEF p
    <3> QED
        BY <3>2 DEF p
  <2> QED
      BY <2>1, <2>2, <2>3, RoundedIsANumber
<1> QED
    BY <1>6, <1>7, <1>8, <1>9, <1>10, <1>11 DEF region, trip

LEMMA InterestMatchIsANumber ==
  ASSUME NEW q \in Requests, NEW r \in DOMAIN Regions
  PROVE  InterestMatch(Regions[r], q.trip) \in Int
<1> DEFINE trip == q.trip
           region == Regions[r]
           n == Len(trip.interests)
           at(i) == Strength(region, trip.interests[i])
           top == StrongestThemes(region)
           themes == DOMAIN region.strengths
           wanted == [i \in 1..n |-> at(i)]
           weakest == Min({at(i) : i \in 1..n})
           asked == 70 * SumFunctionOnSet(wanted, 1..n) + 30 * n * weakest
           own == 100 * SumFunctionOnSet(region.strengths, top)
<1>1. n \in Nat
    BY TripsAssumption
<1>2. IsFiniteSet(themes) /\ \A a \in themes : region.strengths[a] \in Nat
    BY ProfilesAssumption DEF Range
<1>3. \A i : at(i) \in Nat
    BY <1>2 DEF Strength
<1>4. SumFunctionOnSet(wanted, 1..n) \in Nat
  <2>1. IsFiniteSet(1..n)
      BY <1>1, FS_Interval
  <2>2. \A x \in 1..n : wanted[x] \in Nat
      BY <1>3
  <2> HIDE DEF wanted, n
  <2> QED
      BY <2>1, <2>2, SumIsANumber
<1>5. n > 0 => weakest \in Nat
  <2> DEFINE T == {at(i) : i \in 1..n}
  <2>1. T \subseteq Nat
      BY <1>3
  <2>2. n > 0 => T # {}
    <3>1. n > 0 => 1 \in 1..n
        BY <1>1
    <3> QED
        BY <3>1
  <2> HIDE DEF T, n
  <2>3. n > 0 => Min(T) \in T
      BY <2>1, <2>2, LeastIsOneOf
  <2> QED
      BY <2>1, <2>3 DEF T
<1>6. top \in SUBSET themes /\ IsFiniteSet(top) /\ SumFunctionOnSet(region.strengths, top) \in Nat
  <2> DEFINE f == region.strengths
             k == Min({3, Cardinality(themes)})
  <2>1. \E t \in kSubset(k, themes) : \A a \in t, b \in themes \ t : f[a] >= f[b]
      BY <1>2, GreatestThree
  <2>2. top = CHOOSE t \in kSubset(k, themes) : \A a \in t, b \in themes \ t : f[a] >= f[b]
      BY DEF StrongestThemes
  <2>3. top \in kSubset(k, themes)
    <3> HIDE DEF top, k, f, themes
    <3> QED
        BY <2>1, <2>2
  <2>4. top \in SUBSET themes /\ IsFiniteSet(top)
      BY <1>2, <2>3, FS_Subset DEF kSubset
  <2> HIDE DEF top, themes, f
  <2>5. SumFunctionOnSet(f, top) \in Nat
      BY <1>2, <2>4, SumIsANumber DEF f
  <2> QED
      BY <2>4, <2>5 DEF f
<1>7. top # {} => Cardinality(top) \in Nat \ {0}
    BY <1>6, FS_EmptySet, FS_CardinalityType
<1>8. InterestMatch(region, trip) = IF n > 0 THEN Rounded(asked, n)
                                    ELSE IF top = {} THEN 6000 ELSE Rounded(own, Cardinality(top))
    BY DEF InterestMatch
<1> DEFINE s == SumFunctionOnSet(wanted, 1..n)
           t == SumFunctionOnSet(region.strengths, top)
<1>9. (n > 0 => asked \in Int) /\ own \in Int
  <2>1. asked = 70 * s + 30 * n * weakest /\ own = 100 * t
      OBVIOUS
  <2>2. s \in Nat /\ t \in Nat
      BY <1>4, <1>6
  <2> HIDE DEF s, t, n, weakest, asked, own
  <2>3. n > 0 => n * weakest \in Nat
      BY <1>1, <1>5
  <2>4. 30 * n * weakest = 30 * (n * weakest) \/ ~(n > 0)
      BY <1>1, <1>5
  <2> QED
      BY <2>1, <2>2, <2>3, <2>4
<1> HIDE DEF asked, own, top, n
<1>10. /\ n > 0 => Rounded(asked, n) \in Int
       /\ top # {} => Rounded(own, Cardinality(top)) \in Int
    BY <1>1, <1>7, <1>9, RoundedIsANumber
<1> HIDE DEF region, trip
<1>11. InterestMatch(region, trip) \in Int
    BY <1>8, <1>10
<1> QED
    BY <1>11 DEF region, trip

LEMMA FitIsANumber ==
  ASSUME NEW q \in Requests, NEW r \in DOMAIN Regions
  PROVE  Score(Regions[r], q.trip) \in Int
<1> DEFINE trip == q.trip
           region == Regions[r]
           points == Points(region, trip)
           held == Min({points, 380000})
<1>1. points \in Int
  <2> DEFINE a == NightsFit(region, trip)
             b == AccessEfficiency(region, trip)
             c == TransportCompatibility(region, trip)
             d == InterestMatch(region, trip)
             e == SeasonFit(region, trip)
             f == Novelty(region, trip)
             g == Practicality(region, trip)
  <2>1. a \in Int /\ b \in Int /\ c \in Int /\ d \in Int /\ e \in Int /\ f \in Int /\ g \in Int
      BY ComponentsAreNumbers, InterestMatchIsANumber
  <2>2. points = 24 * a + 22 * b + 16 * c + 16 * d + 12 * e + 6 * f + 4 * g
      BY DEF Points
  <2> HIDE DEF a, b, c, d, e, f, g, points
  <2> QED
      BY <2>1, <2>2
<1>2. Score(region, trip) = Rounded(IF Eliminated(region, trip) THEN held ELSE points, 100)
    BY DEF Score
<1> HIDE DEF points, region, trip
<1>3. held \in Int
    BY <1>1, SmallerOfTwo
<1> HIDE DEF held
<1>4. Score(region, trip) \in Int
    BY <1>1, <1>2, <1>3, RoundedIsANumber
<1> QED
    BY <1>4 DEF region, trip

(***************************************************************************)
(* The ranking has each region once.                                       *)
(***************************************************************************)
LEMMA EachIsRanked ==
  ASSUME NEW regions, IsFiniteSet(regions), regions \subseteq DOMAIN Regions, NEW q \in Requests
  PROVE  LET ranked == RankRegions(regions, q.trip)
         IN  /\ IsList(ranked) /\ DOMAIN ranked = 1..Cardinality(regions)
             /\ Range(ranked) = regions
<1> DEFINE score == [i \in regions |-> Score(Regions[i], q.trip)]
           n == Cardinality(regions)
           R == {p \in regions \X regions :
                   score[p[1]] > score[p[2]] \/ (score[p[1]] = score[p[2]] /\ p[1] < p[2])}
           At(k) == CHOOSE x \in regions : Cardinality({y \in regions :
                      score[y] > score[x] \/ (score[y] = score[x] /\ y < x)}) = k - 1
           f == [k \in 1..n |-> At(k)]
<1>1. RankRegions(regions, q.trip) = SubSeq(f, 1, n)
    BY DEF RankRegions, Sorted, Listing
<1>2. n \in Nat
    BY FS_CardinalityType
<1>3. (\A i \in regions : score[i] \in Int) /\ regions \subseteq Nat
    BY FitIsANumber, ProfilesAssumption
<1> HIDE DEF score
<1>4. StrictOrder(regions, R)
    BY <1>3 DEF StrictOrder
<1>5. \A x \in regions : Predecessors(regions, R, x) =
        {y \in regions : score[y] > score[x] \/ (score[y] = score[x] /\ y < x)}
    BY DEF Predecessors
<1>6. \A k \in 1..n : f[k] = CHOOSE x \in regions : Cardinality(Predecessors(regions, R, x)) = k - 1
  <2> HIDE DEF R
  <2> SUFFICES ASSUME NEW k \in 1..n
               PROVE  At(k) = CHOOSE x \in regions : Cardinality(Predecessors(regions, R, x)) = k - 1
      OBVIOUS
  <2> QED
      BY <1>5, Zenon
<1> HIDE DEF At
<1>7. f = [k \in 1..n |-> f[k]]
    OBVIOUS
<1> HIDE DEF f, R
<1>8. /\ \A k \in 1..n : f[k] \in regions
      /\ \A x \in regions : \E k \in 1..n : f[k] = x
    BY <1>4, <1>6, SortedBy
<1> HIDE DEF n
<1>9. SubSeq(f, 1, n) = f /\ IsList(f) /\ DOMAIN f = 1..n
    BY <1>2, <1>7, ListOfPlaces
<1>10. Range(f) = regions
    BY <1>8, <1>9 DEF Range
<1> QED
    BY <1>1, <1>9, <1>10 DEF n

(***************************************************************************)
(* The invariant: what each part of the graph leaves behind.               *)
(***************************************************************************)
AfterGrounding == {"confidence_check", "human_review", "answer", "done"}

AfterComparison == {"grounding_check"} \cup AfterGrounding

Unranked == {"parse_trip_context", "load_memory", "retrieve_region_candidates", "apply_hard_constraints"}

Unsearched == Unranked \cup {"call_travel_tools", "retrieve_verified_evidence"}

Unwritten == Unsearched \cup {"rerank_evidence", "compare_candidates"}

Nodes == Unwritten \cup AfterComparison

\* The most calls a run can have made when a node begins
Spent(n) ==
  CASE n \in {"parse_trip_context", "load_memory"} -> 0
    [] n \in {"retrieve_region_candidates", "apply_hard_constraints", "call_travel_tools"} -> 1
    [] n = "retrieve_verified_evidence" -> 3 * MaxExplained + 1
    [] n \in {"rerank_evidence", "compare_candidates", "grounding_check"} -> 4 * MaxExplained + 1
    [] n \in {"confidence_check", "human_review"} -> 4 * MaxExplained + 2
    [] OTHER -> 4 * MaxExplained + 3

Shape == DOMAIN state = DOMAIN EmptyState

CallsAreFew ==
  /\ request \in Requests
  /\ node \in Nodes
  /\ used \in 0..Spent(node)

RegionsAreRanked ==
  /\ IsFiniteSet(state.regions) /\ state.regions \subseteq DOMAIN Regions
  /\ IsList(state.candidates) /\ IsList(state.rejected)
  /\ \A r \in Range(state.candidates) : ~RuledOut(r)
  /\ node \in Unranked \/ state.regions = {} => state.candidates = <<>> /\ state.rejected = <<>>

\* The chunks an analysis may lean on
Fit ==
  {c \in Corpus : c.region \in Range(Shortlist) /\ InSeason(c, request.trip.month) /\ ~Hostile(c)}

EvidenceIsFit ==
  /\ node \in Unsearched => state.retrieved = <<>> /\ state.evidence = <<>>
  /\ state.retrieved \in Seq(Fit) /\ state.evidence \in Seq(Fit)
  /\ \A i, j \in DOMAIN state.evidence : i # j => ~SaysTheSame(state.evidence[i], state.evidence[j])

WritingIsSupported ==
  /\ node \in Unwritten => state.writer = "none"
  /\ state.writer = "stand_in" =>
       /\ Cited(state.explanations) \subseteq Ids(Range(state.evidence))
       /\ \A block \in Headlines(state.explanations) \cup Written(state.explanations) :
            DOMAIN block \subseteq Nat /\ Range(block) \subseteq UNION {c.literals : c \in Range(state.evidence)}

GapsAreLeft == node \in AfterComparison /\ state.regions = {} => state.gaps # {}

\* What the report of a draft promises of the state it was drawn from
ReportIsEarned ==
  /\ state.report.confidence = High =>
       state.gaps = {} /\ Len(state.evidence) >= MinEvidence /\ ~LeansOn(state.conflicts)
  /\ LeansOn(state.conflicts) => state.report.confidence < High /\ NeedsHuman(state.report)
  /\ NeedsHuman(state.report) /\ ~LeansOn(state.conflicts) => state.report.findings # {}
  /\ state.writer = "stand_in" => state.report.findings \cap {"G1", "G2"} = {}

ResultIsTold ==
  /\ node \in {"human_review", "answer", "done"} =>
       (state.status = "needs_human_review" <=> NeedsHuman(state.report))
  /\ node # "done" => state.result = None
  /\ node = "done" =>
       /\ state.result.recommended \cup state.result.alternatives \subseteq Range(state.candidates)
       /\ state.result.citations \subseteq Ids(Range(state.evidence))
       /\ state.result.confidence = state.report.confidence
       /\ state.result.status = state.status
       /\ state.status = "needs_human_review" => state.result.closing.caveats

IInv ==
  /\ Shape
  /\ CallsAreFew
  /\ RegionsAreRanked
  /\ EvidenceIsFit
  /\ WritingIsSupported
  /\ GapsAreLeft
  /\ node \in AfterGrounding => ReportIsEarned
  /\ ResultIsTold

(***************************************************************************)
(* What the handing over of a node keeps.                                  *)
(***************************************************************************)
LEMMA StepStays ==
  ASSUME CallsAreFew, NEW here \in Nodes, NEW next \in Nodes, NEW calls \in Nat, NEW failed,
         Step(here, next, calls, failed),
         Spent(here) + calls <= Spent(next)
  PROVE  /\ node = here /\ node' = next /\ request' = request /\ disputes' = disputes
         /\ CallsAreFew'
<1>1. Spent(here) \in Nat /\ Spent(next) \in Nat /\ Spent(next) <= Budget
    BY LimitsAssumption, RunAssumption DEF Spent
<1>2. node = here /\ used' = used + calls /\ request' = request /\ disputes' = disputes
    BY DEF Step
<1>3. used \in 0..Spent(here)
    BY <1>2 DEF CallsAreFew
<1>4. used + calls <= Spent(next) /\ used + calls \in Nat
    BY <1>1, <1>3
<1>5. ~(used + calls > Budget)
    BY <1>1, <1>4, LimitsAssumption, RunAssumption
<1>6. node' = next
    BY <1>5 DEF Step
<1>7. CallsAreFew'
    BY <1>1, <1>2, <1>4, <1>6 DEF CallsAreFew
<1> QED
    BY <1>2, <1>6, <1>7

LEMMA RankingStays ==
  ASSUME RegionsAreRanked, request' = request,
         state'.regions = state.regions, state'.memory = state.memory,
         state'.candidates = state.candidates, state'.rejected = state.rejected,
         node' \in Unranked => node \in Unranked
  PROVE  RegionsAreRanked'
BY DEF RegionsAreRanked, RuledOut, Fails

LEMMA EvidenceStays ==
  ASSUME EvidenceIsFit, request' = request,
         state'.candidates = state.candidates, state'.rejected = state.rejected,
         state'.retrieved = state.retrieved, state'.evidence = state.evidence,
         node' \in Unsearched => node \in Unsearched
  PROVE  EvidenceIsFit'
<1>1. Shortlist' = Shortlist
    BY DEF Shortlist
<1>2. Fit' = Fit
    BY <1>1 DEF Fit
<1> QED
    BY <1>2 DEF EvidenceIsFit

\* Until the search the evidence fits any trip and any shortlist.
LEMMA NoEvidenceFits ==
  ASSUME state'.retrieved = <<>>, state'.evidence = <<>>
  PROVE  EvidenceIsFit'
<1>1. \A T : <<>> \in Seq(T)
    OBVIOUS
<1> QED
    BY <1>1 DEF EvidenceIsFit

\* A node before the comparison
LEMMA EarlyStep ==
  ASSUME IInv, NEW here \in Unwritten, NEW next \in Unwritten, NEW calls \in Nat, NEW failed,
         Step(here, next, calls, failed),
         Spent(here) + calls <= Spent(next),
         Shape', state'.result = state.result, state'.writer = state.writer,
         RegionsAreRanked', EvidenceIsFit'
  PROVE  IInv'
<1>1. here \in Nodes /\ next \in Nodes /\ here \notin AfterComparison /\ next \notin AfterComparison
    BY DEF Nodes, Unwritten, Unsearched, Unranked, AfterComparison, AfterGrounding
<1>2. node = here /\ node' = next /\ CallsAreFew'
    BY <1>1, StepStays DEF IInv
<1>3. WritingIsSupported'
    BY <1>2 DEF IInv, WritingIsSupported
<1>4. GapsAreLeft' /\ node' \notin AfterGrounding
    BY <1>1, <1>2 DEF GapsAreLeft, AfterComparison
<1>5. ResultIsTold'
    BY <1>1, <1>2 DEF IInv, ResultIsTold, AfterComparison, AfterGrounding
<1> QED
    BY <1>2, <1>3, <1>4, <1>5 DEF IInv

LEMMA InitInv == Init => IInv
<1> SUFFICES ASSUME Init PROVE IInv
    OBVIOUS
<1>1. node = "parse_trip_context" /\ used = 0 /\ request \in Requests /\ state = EmptyState
    BY DEF Init
<1>2. node \in Unranked /\ node \in Unsearched /\ node \in Unwritten /\ node \in Nodes
      /\ node \notin AfterComparison /\ node \notin AfterGrounding
    BY <1>1 DEF Nodes, Unwritten, Unsearched, Unranked, AfterComparison, AfterGrounding
<1>3. /\ state.regions = {} /\ state.candidates = <<>> /\ state.rejected = <<>> /\ state.retrieved = <<>>
      /\ state.evidence = <<>> /\ state.writer = "none" /\ state.result = None
    BY <1>1 DEF EmptyState
<1>4. CallsAreFew
    BY <1>1, <1>2 DEF CallsAreFew, Spent
<1>5. IsList(<<>>) /\ Range(<<>>) = {} /\ IsFiniteSet({})
    BY FS_EmptySet DEF IsList, Range
<1>6. RegionsAreRanked
    BY <1>3, <1>5 DEF RegionsAreRanked
<1>7. \A T : <<>> \in Seq(T)
    OBVIOUS
<1>8. EvidenceIsFit
    BY <1>3, <1>7 DEF EvidenceIsFit
<1>9. WritingIsSupported
    BY <1>3 DEF WritingIsSupported
<1>10. ResultIsTold
    BY <1>1, <1>3 DEF ResultIsTold
<1> QED
    BY <1>1, <1>2, <1>4, <1>6, <1>8, <1>9, <1>10 DEF IInv, Shape, GapsAreLeft

(***************************************************************************)
(* The regions.                                                            *)
(***************************************************************************)
LEMMA ParsingStep ==
  ASSUME IInv, ParseTripContext
  PROVE  IInv'
<1>1. Step("parse_trip_context", "load_memory", 0, 0)
    BY DEF ParseTripContext
<1>2. "parse_trip_context" \in Unwritten /\ "load_memory" \in Unwritten
      /\ "parse_trip_context" \in Unranked /\ "parse_trip_context" \in Unsearched
    BY DEF Unwritten, Unsearched, Unranked
<1>3. Spent("parse_trip_context") + 0 <= Spent("load_memory") /\ 0 \in Nat
    BY DEF Spent
<1>4. node = "parse_trip_context" /\ request' = request
    BY <1>1 DEF Step
<1>5. /\ Shape' /\ state'.result = state.result /\ state'.writer = state.writer
      /\ state'.regions = state.regions /\ state'.memory = state.memory
      /\ state'.candidates = state.candidates /\ state'.rejected = state.rejected
      /\ state'.retrieved = state.retrieved /\ state'.evidence = state.evidence
    BY DEF ParseTripContext, IInv, Shape, EmptyState
<1>6. RegionsAreRanked'
    BY <1>2, <1>4, <1>5, RankingStays DEF IInv
<1>7. EvidenceIsFit'
    BY <1>2, <1>4, <1>5, EvidenceStays DEF IInv
<1> QED
    BY <1>1, <1>2, <1>3, <1>5, <1>6, <1>7, EarlyStep

LEMMA LoadingStep ==
  ASSUME IInv, LoadMemory
  PROVE  IInv'
<1>0. PICK calls \in 0..1 : \E failed : Step("load_memory", "retrieve_region_candidates", calls, failed)
    BY DEF LoadMemory
<1>1. PICK failed : Step("load_memory", "retrieve_region_candidates", calls, failed)
    BY <1>0
<1>2. "load_memory" \in Unwritten /\ "retrieve_region_candidates" \in Unwritten
      /\ "load_memory" \in Unranked /\ "load_memory" \in Unsearched
    BY DEF Unwritten, Unsearched, Unranked
<1>3. calls \in Nat /\ Spent("load_memory") + calls <= Spent("retrieve_region_candidates")
    BY DEF Spent
<1>4. node = "load_memory" /\ request' = request
    BY <1>1 DEF Step
<1>5. /\ Shape' /\ state'.result = state.result /\ state'.writer = state.writer
      /\ state'.regions = state.regions
      /\ state'.candidates = state.candidates /\ state'.rejected = state.rejected
      /\ state'.retrieved = state.retrieved /\ state'.evidence = state.evidence
  <2>1. PICK told : state' = [state EXCEPT !.memory = told] \/ state' = state
      BY DEF LoadMemory
  <2> QED
      BY <2>1 DEF IInv, Shape, EmptyState
<1>6. RegionsAreRanked'
  <2>1. state'.candidates = <<>> /\ state'.rejected = <<>>
      BY <1>2, <1>4, <1>5 DEF IInv, RegionsAreRanked
  <2> QED
      BY <1>5, <2>1 DEF IInv, RegionsAreRanked, Range
<1>7. EvidenceIsFit'
    BY <1>2, <1>4, <1>5, EvidenceStays DEF IInv
<1> QED
    BY <1>1, <1>2, <1>3, <1>5, <1>6, <1>7, EarlyStep

LEMMA RegionsStep ==
  ASSUME IInv, RetrieveRegionCandidates
  PROVE  IInv'
<1>1. Step("retrieve_region_candidates", "apply_hard_constraints", 0, 0)
    BY DEF RetrieveRegionCandidates
<1>2. "retrieve_region_candidates" \in Unwritten /\ "apply_hard_constraints" \in Unwritten
      /\ "retrieve_region_candidates" \in Unranked /\ "retrieve_region_candidates" \in Unsearched
    BY DEF Unwritten, Unsearched, Unranked
<1>3. Spent("retrieve_region_candidates") + 0 <= Spent("apply_hard_constraints") /\ 0 \in Nat
    BY DEF Spent
<1>4. node = "retrieve_region_candidates" /\ request' = request
    BY <1>1 DEF Step
<1>5. PICK table \in Tables : state' = [state EXCEPT !.regions = table]
    BY DEF RetrieveRegionCandidates
<1>6. /\ Shape' /\ state'.result = state.result /\ state'.writer = state.writer
      /\ state'.regions = table
      /\ state'.candidates = state.candidates /\ state'.rejected = state.rejected
      /\ state'.retrieved = state.retrieved /\ state'.evidence = state.evidence
    BY <1>5 DEF IInv, Shape, EmptyState
<1>7. RegionsAreRanked'
  <2>1. state'.candidates = <<>> /\ state'.rejected = <<>>
      BY <1>2, <1>4, <1>6 DEF IInv, RegionsAreRanked
  <2>2. IsFiniteSet(table) /\ table \subseteq DOMAIN Regions
      BY RegionsAssumption
  <2> QED
      BY <1>6, <2>1, <2>2 DEF IInv, RegionsAreRanked, Range
<1>8. EvidenceIsFit'
    BY <1>2, <1>4, <1>6, EvidenceStays DEF IInv
<1> QED
    BY <1>1, <1>2, <1>3, <1>6, <1>7, <1>8, EarlyStep

LEMMA RankingStep ==
  ASSUME IInv, ApplyHardConstraints
  PROVE  IInv'
<1> DEFINE ranked == RankRegions(state.regions, request.trip)
           out == {i \in DOMAIN ranked : RuledOut(ranked[i])}
           kept == DOMAIN ranked \ out
<1>1. Step("apply_hard_constraints", "call_travel_tools", 0, 0)
    BY DEF ApplyHardConstraints
<1>2. "apply_hard_constraints" \in Unwritten /\ "call_travel_tools" \in Unwritten
      /\ "apply_hard_constraints" \in Unranked /\ "apply_hard_constraints" \in Unsearched
    BY DEF Unwritten, Unsearched, Unranked
<1>3. Spent("apply_hard_constraints") + 0 <= Spent("call_travel_tools") /\ 0 \in Nat
    BY DEF Spent
<1>4. node = "apply_hard_constraints" /\ request' = request
    BY <1>1 DEF Step
<1>5. state' = [state EXCEPT !.candidates = AtPositions(ranked, kept), !.rejected = AtPositions(ranked, out)]
    BY DEF ApplyHardConstraints
<1>6. /\ Shape' /\ state'.result = state.result /\ state'.writer = state.writer
      /\ state'.regions = state.regions /\ state'.memory = state.memory
      /\ state'.candidates = AtPositions(ranked, kept) /\ state'.rejected = AtPositions(ranked, out)
      /\ state'.retrieved = state.retrieved /\ state'.evidence = state.evidence
  <2> HIDE DEF ranked, kept, out
  <2> QED
      BY <1>5 DEF IInv, Shape, EmptyState
<1>7. IsList(ranked) /\ (state.regions = {} => DOMAIN ranked = {})
  <2>1. IsList(ranked) /\ DOMAIN ranked = 1..Cardinality(state.regions)
      BY EachIsRanked DEF IInv, RegionsAreRanked, CallsAreFew
  <2>2. state.regions = {} => DOMAIN ranked = 1..0
    <3>1. state.regions = {} => Cardinality(state.regions) = 0
        BY FS_EmptySet, Zenon
    <3> QED
        BY <2>1, <3>1, Zenon
  <2> HIDE DEF ranked
  <2> QED
      BY <2>1, <2>2
<1>8. \A i \in kept : ~RuledOut(ranked[i])
    OBVIOUS
<1>9. kept \in SUBSET DOMAIN ranked /\ out \in SUBSET DOMAIN ranked
    OBVIOUS
<1> HIDE DEF ranked, kept, out
<1>10. /\ IsList(AtPositions(ranked, kept)) /\ IsList(AtPositions(ranked, out))
       /\ Range(AtPositions(ranked, kept)) \subseteq {ranked[i] : i \in kept}
    BY <1>7, <1>9, PartsOfLists
<1>11. \A r \in Range(state'.candidates) : ~RuledOut(r)
    BY <1>6, <1>8, <1>10
<1>12. \A r : RuledOut(r)' <=> RuledOut(r)
    BY <1>4, <1>6 DEF RuledOut, Fails
<1>13. state.regions = {} => state'.candidates = <<>> /\ state'.rejected = <<>>
  <2>1. DOMAIN ranked = {} => DOMAIN AtPositions(ranked, kept) = {} /\ DOMAIN AtPositions(ranked, out) = {}
      BY <1>7, <1>9, AtPositionsOf, FS_EmptySet
  <2>2. \A s : IsList(s) /\ DOMAIN s = {} => s = <<>>
      BY DEF IsList
  <2> QED
      BY <1>6, <1>7, <1>10, <2>1, <2>2
<1>14. node' \notin Unranked
    BY <1>4, <1>1, <1>2, <1>3, StepStays DEF IInv, Nodes, Unranked
<1>15. RegionsAreRanked'
    BY <1>6, <1>10, <1>11, <1>12, <1>13, <1>14 DEF IInv, RegionsAreRanked
<1>16. EvidenceIsFit'
  <2>1. state'.retrieved = <<>> /\ state'.evidence = <<>>
      BY <1>2, <1>4, <1>6 DEF IInv, EvidenceIsFit
  <2> QED
      BY <2>1, NoEvidenceFits
<1> QED
    BY <1>1, <1>2, <1>3, <1>6, <1>15, <1>16, EarlyStep

(***************************************************************************)
(* The facts and the evidence.                                             *)
(***************************************************************************)
LEMMA ShortlistIsShort ==
  ASSUME RegionsAreRanked
  PROVE  IsList(Shortlist) /\ Len(Shortlist) \in 0..MaxExplained
<1>1. MaxExplained \in Nat /\ MaxExplained >= 2
    BY LimitsAssumption
<1>2. CASE state.candidates # <<>>
    BY <1>1, <1>2, FirstOnesOf DEF RegionsAreRanked, Shortlist
<1>3. CASE state.candidates = <<>>
  <2>1. IsList(FirstOnes(state.rejected, 2)) /\ Len(FirstOnes(state.rejected, 2)) \in 0..2
      BY FirstOnesOf DEF RegionsAreRanked
  <2>2. Shortlist = FirstOnes(state.rejected, 2)
      BY <1>3 DEF Shortlist
  <2>3. \A m \in 0..2 : m \in 0..MaxExplained
      BY <1>1
  <2> QED
      BY <2>1, <2>2, <2>3
<1> QED
    BY <1>2, <1>3

LEMMA ToolsAreFew ==
  ASSUME RegionsAreRanked
  PROVE  Cardinality(Range(Shortlist) \X ToolsAsked) \in 0..(3 * MaxExplained)
<1> DEFINE S == Range(Shortlist)
           n == Len(Shortlist)
           f == [k \in 1..n |-> Shortlist[k]]
<1>1. n \in 0..MaxExplained /\ n \in Nat /\ DOMAIN Shortlist = 1..n
    BY ShortlistIsShort, ListFacts, LimitsAssumption
<1>2. f \in Surjection(1..n, S)
    BY <1>1 DEF Surjection, Range
<1>3. IsFiniteSet(1..n) /\ Cardinality(1..n) = n
  <2> HIDE DEF n
  <2> QED
      BY <1>1, FS_Interval
<1>4. IsFiniteSet(S) /\ Cardinality(S) <= n /\ Cardinality(S) \in Nat
    BY <1>2, <1>3, FS_Surjection, FS_CardinalityType
<1>5. IsFiniteSet(ToolsAsked) /\ Cardinality(ToolsAsked) \in 0..3
  <2> DEFINE all == {"transport", "booking", "weather"}
  <2>1. IsFiniteSet({"transport"}) /\ Cardinality({"transport"}) = 1
      BY FS_Singleton
  <2>2. IsFiniteSet({"transport", "booking"}) /\ Cardinality({"transport", "booking"}) = 2
    <3>1. {"transport", "booking"} = {"transport"} \cup {"booking"} /\ "booking" \notin {"transport"}
        OBVIOUS
    <3> QED
        BY <2>1, <3>1, FS_AddElement
  <2>3. IsFiniteSet(all) /\ Cardinality(all) = 3
    <3>1. all = {"transport", "booking"} \cup {"weather"} /\ "weather" \notin {"transport", "booking"}
        OBVIOUS
    <3> QED
        BY <2>2, <3>1, FS_AddElement
  <2>4. ToolsAsked \subseteq all
      BY DEF ToolsAsked
  <2> HIDE DEF all
  <2>5. IsFiniteSet(ToolsAsked) /\ Cardinality(ToolsAsked) <= Cardinality(all)
      BY <2>3, <2>4, FS_Subset
  <2> QED
      BY <2>3, <2>5, FS_CardinalityType
<1>6. Cardinality(S \X ToolsAsked) = Cardinality(S) * Cardinality(ToolsAsked)
    BY <1>4, <1>5, FS_Product
<1> HIDE DEF S, n
<1>7. \A a \in Nat, c \in 0..3 : a <= MaxExplained => a * c \in 0..(3 * MaxExplained)
  <2> TAKE a \in Nat, c \in 0..3
  <2>1. MaxExplained \in Nat
      BY LimitsAssumption
  <2>2. c = 0 \/ c = 1 \/ c = 2 \/ c = 3
      OBVIOUS
  <2>3. CASE c = 0
      BY <2>1, <2>3
  <2>4. CASE c = 1
      BY <2>1, <2>4
  <2>5. CASE c = 2
      BY <2>1, <2>5
  <2>6. CASE c = 3
      BY <2>1, <2>6
  <2> QED
      BY <2>2, <2>3, <2>4, <2>5, <2>6
<1>8. Cardinality(S) <= MaxExplained
    BY <1>1, <1>4, LimitsAssumption
<1> QED
    BY <1>4, <1>5, <1>6, <1>7, <1>8 DEF S

LEMMA ToolsStep ==
  ASSUME IInv, CallTravelTools
  PROVE  IInv'
<1> DEFINE calls == Range(Shortlist) \X ToolsAsked
           n == Cardinality(calls)
<1>1. PICK failing : /\ Step("call_travel_tools", "retrieve_verified_evidence", n, Cardinality(failing))
                     /\ state' = [state EXCEPT !.facts = {r \in Range(Shortlist) : <<r, "transport">> \notin failing}]
    BY DEF CallTravelTools
<1>2. "call_travel_tools" \in Unwritten /\ "retrieve_verified_evidence" \in Unwritten
      /\ "call_travel_tools" \notin Unranked /\ "retrieve_verified_evidence" \notin Unranked
      /\ "call_travel_tools" \in Unsearched
    BY DEF Unwritten, Unsearched, Unranked
<1>3. n \in 0..(3 * MaxExplained)
    BY ToolsAreFew DEF IInv
<1> HIDE DEF n
<1>4. n \in Nat /\ Spent("call_travel_tools") + n <= Spent("retrieve_verified_evidence")
    BY <1>3, LimitsAssumption DEF Spent
<1>5. node = "call_travel_tools" /\ node' = "retrieve_verified_evidence" /\ request' = request
    BY <1>1, <1>2, <1>4, StepStays DEF IInv, Nodes
<1>6. /\ Shape' /\ state'.result = state.result /\ state'.writer = state.writer
      /\ state'.regions = state.regions /\ state'.memory = state.memory
      /\ state'.candidates = state.candidates /\ state'.rejected = state.rejected
      /\ state'.retrieved = state.retrieved /\ state'.evidence = state.evidence
    BY <1>1 DEF IInv, Shape, EmptyState
<1>7. RegionsAreRanked'
    BY <1>2, <1>5, <1>6, RankingStays DEF IInv
<1>8. EvidenceIsFit'
    BY <1>2, <1>5, <1>6, EvidenceStays DEF IInv
<1> QED
    BY <1>1, <1>2, <1>4, <1>6, <1>7, <1>8, EarlyStep

\* What is found on one region of the shortlist fits the trip.
LEMMA RegionSearchFits ==
  ASSUME RegionsAreRanked, NEW k \in DOMAIN Shortlist, NEW strategy \in Strategies, NEW listed \in Listed
  PROVE  Search(OnRegion(Shortlist[k]), EvidenceLimit, SearchBudget, strategy, listed) \in Seq(Fit)
<1> DEFINE filters == OnRegion(Shortlist[k])
<1>1. strategy \in SearchStrategies /\ listed \in Seq(Nat) /\ EvidenceLimit \in Nat
    BY LimitsAssumption DEF SearchStrategies
<1>2. Search(filters, EvidenceLimit, SearchBudget, strategy, listed)
        \in Seq({c \in Fitting(filters) : ~Hostile(c)})
  <2> HIDE DEF filters
  <2> QED
      BY <1>1, SearchFinds
<1>3. {c \in Fitting(filters) : ~Hostile(c)} \subseteq Fit
  <2>1. filters.regions = {Shortlist[k]} /\ filters.month = request.trip.month
      BY DEF OnRegion
  <2> QED
      BY <2>1 DEF Fitting, Passes, Fit, Range
<1>4. \A S, T : S \subseteq T => \A s \in Seq(S) : s \in Seq(T)
    OBVIOUS
<1> QED
    BY <1>2, <1>3, <1>4

LEMMA SearchStep ==
  ASSUME IInv, RetrieveVerifiedEvidence
  PROVE  IInv'
<1> DEFINE n == Len(Shortlist)
<1>1. PICK failing \in Failures(DOMAIN Shortlist), strategy \in Strategies, listed \in Listed :
        /\ Step("retrieve_verified_evidence", "rerank_evidence", n, Cardinality(failing))
        /\ \E found \in {FlattenSeq(Listing(n, LAMBDA k :
                            IF k \in failing THEN <<>>
                            ELSE Search(OnRegion(Shortlist[k]), EvidenceLimit, SearchBudget, strategy, listed)))} :
             state' = [state EXCEPT !.retrieved = found]
    BY Zenon DEF RetrieveVerifiedEvidence
<1> DEFINE At(k) == IF k \in failing THEN <<>>
                    ELSE Search(OnRegion(Shortlist[k]), EvidenceLimit, SearchBudget, strategy, listed)
           f == [k \in 1..n |-> At(k)]
           found == FlattenSeq(SubSeq(f, 1, n))
<1>2. "retrieve_verified_evidence" \in Unwritten /\ "rerank_evidence" \in Unwritten
      /\ "retrieve_verified_evidence" \notin Unranked /\ "rerank_evidence" \notin Unranked
      /\ "retrieve_verified_evidence" \in Unsearched /\ "rerank_evidence" \notin Unsearched
    BY DEF Unwritten, Unsearched, Unranked
<1>3. state' = [state EXCEPT !.retrieved = found]
    BY <1>1 DEF Listing
<1>4. n \in 0..MaxExplained /\ n \in Nat /\ DOMAIN Shortlist = 1..n
    BY ShortlistIsShort, ListFacts DEF IInv
<1>5. \A k \in 1..n : At(k) \in Seq(Fit)
  <2>1. <<>> \in Seq(Fit)
      OBVIOUS
  <2> QED
      BY <1>4, <2>1, RegionSearchFits DEF IInv
<1> HIDE DEF At
<1>6. f = [k \in 1..n |-> f[k]] /\ \A k \in 1..n : f[k] \in Seq(Fit)
    BY <1>5
<1> HIDE DEF f
<1>7. found \in Seq(Fit)
  <2>1. SubSeq(f, 1, n) \in Seq(Seq(Fit))
    <3> HIDE DEF n
    <3> QED
        BY <1>4, <1>6, ListBuiltOf
  <2> QED
      BY <2>1, FlatteningKeeps
<1> HIDE DEF found, n
<1>8. Spent("retrieve_verified_evidence") + n <= Spent("rerank_evidence")
    BY <1>4, LimitsAssumption DEF Spent
<1>9. node = "retrieve_verified_evidence" /\ node' = "rerank_evidence" /\ request' = request
    BY <1>1, <1>2, <1>4, <1>8, StepStays DEF IInv, Nodes
<1>10. /\ Shape' /\ state'.result = state.result /\ state'.writer = state.writer
       /\ state'.regions = state.regions /\ state'.memory = state.memory
       /\ state'.candidates = state.candidates /\ state'.rejected = state.rejected
       /\ state'.retrieved = found /\ state'.evidence = state.evidence
    BY <1>3 DEF IInv, Shape, EmptyState
<1>11. RegionsAreRanked'
    BY <1>2, <1>9, <1>10, RankingStays DEF IInv
<1>12. EvidenceIsFit'
  <2>1. Shortlist' = Shortlist
      BY <1>10 DEF Shortlist
  <2>2. Fit' = Fit
      BY <1>9, <2>1 DEF Fit
  <2>3. state.evidence = <<>> /\ <<>> \in Seq(Fit)
      BY <1>2, <1>9 DEF IInv, EvidenceIsFit
  <2>4. DOMAIN <<>> = {}
      OBVIOUS
  <2> QED
      BY <1>2, <1>7, <1>9, <1>10, <2>2, <2>3, <2>4 DEF EvidenceIsFit
<1> QED
    BY <1>1, <1>2, <1>4, <1>8, <1>10, <1>11, <1>12, EarlyStep

LEMMA AssemblyStep ==
  ASSUME IInv, RerankEvidence
  PROVE  IInv'
<1> DEFINE context == Assemble(state.retrieved, ContextBudget)
<1>1. /\ Step("rerank_evidence", "compare_candidates", 0, 0)
      /\ state' = [state EXCEPT !.evidence = context,
                                !.hostile = \E c \in Range(state.retrieved) : Hostile(c)]
    BY DEF RerankEvidence
<1>2. "rerank_evidence" \in Unwritten /\ "compare_candidates" \in Unwritten
      /\ "rerank_evidence" \notin Unranked /\ "compare_candidates" \notin Unranked
      /\ "compare_candidates" \notin Unsearched
    BY DEF Unwritten, Unsearched, Unranked
<1>3. Spent("rerank_evidence") + 0 <= Spent("compare_candidates") /\ 0 \in Nat
    BY LimitsAssumption DEF Spent
<1>4. node = "rerank_evidence" /\ node' = "compare_candidates" /\ request' = request
    BY <1>1, <1>2, <1>3, StepStays DEF IInv, Nodes
<1>5. state.retrieved \in Seq(Fit)
    BY DEF IInv, EvidenceIsFit
<1>6. context \in Seq(Fit)
  <2>1. context \in Seq({c \in Fit : ~Hostile(c)})
      BY <1>5, AssemblyKeeps
  <2>2. {c \in Fit : ~Hostile(c)} = Fit
      BY DEF Fit
  <2> QED
      BY <2>1, <2>2
<1>7. \A i, j \in DOMAIN context : i # j => ~SaysTheSame(context[i], context[j])
    BY <1>5, AssemblyTellsOnce
<1> HIDE DEF context
<1>8. /\ Shape' /\ state'.result = state.result /\ state'.writer = state.writer
      /\ state'.regions = state.regions /\ state'.memory = state.memory
      /\ state'.candidates = state.candidates /\ state'.rejected = state.rejected
      /\ state'.retrieved = state.retrieved /\ state'.evidence = context
    BY <1>1 DEF IInv, Shape, EmptyState
<1>9. RegionsAreRanked'
    BY <1>2, <1>4, <1>8, RankingStays DEF IInv
<1>10. EvidenceIsFit'
  <2>1. Shortlist' = Shortlist
      BY <1>8 DEF Shortlist
  <2>2. Fit' = Fit
      BY <1>4, <2>1 DEF Fit
  <2> QED
      BY <1>2, <1>4, <1>5, <1>6, <1>7, <1>8, <2>2 DEF EvidenceIsFit
<1> QED
    BY <1>1, <1>2, <1>3, <1>8, <1>9, <1>10, EarlyStep

(***************************************************************************)
(* The comparison.                                                         *)
(***************************************************************************)
LEMMA QuotedIsEvidence ==
  ASSUME EvidenceIsFit, NEW r
  PROVE  Quoted(r) \subseteq Range(state.evidence)
<1> DEFINE of == {i \in DOMAIN state.evidence : state.evidence[i].region = r}
           about == AtPositions(state.evidence, of)
<1>1. Quoted(r) = Range(FirstOnes(about, 2))
    BY DEF Quoted
<1>2. IsList(state.evidence)
    BY AnySequenceIsAList DEF EvidenceIsFit
<1>3. of \in SUBSET DOMAIN state.evidence
    OBVIOUS
<1>4. \A i \in of : state.evidence[i] \in Range(state.evidence)
    BY DEF Range
<1> HIDE DEF of
<1>5. IsList(about) /\ Range(about) \subseteq {state.evidence[i] : i \in of}
    BY <1>2, <1>3, PartsOfLists
<1> HIDE DEF about
<1>6. Range(FirstOnes(about, 2)) \subseteq Range(about)
    BY <1>5, PartsOfLists
<1> QED
    BY <1>1, <1>4, <1>5, <1>6

\* What the stand-in writes cites its evidence and repeats it.
LEMMA StandInIsSupported ==
  ASSUME EvidenceIsFit, NEW told, NEW explanations, explanations = [r \in told |-> StandInExplanation(r)]
  PROVE  /\ Cited(explanations) \subseteq Ids(Range(state.evidence))
         /\ \A block \in Headlines(explanations) \cup Written(explanations) :
              DOMAIN block \subseteq Nat /\ Range(block) \subseteq UNION {c.literals : c \in Range(state.evidence)}
<1>1. \A r : Quoted(r) \subseteq Range(state.evidence)
    BY QuotedIsEvidence
<1>2. Range(state.evidence) \subseteq Corpus
    BY AnySequenceIsAList DEF EvidenceIsFit, Fit
<1>3. \A r \in DOMAIN explanations :
        /\ explanations[r].cited = Ids(Quoted(r)) /\ explanations[r].headline = <<>>
        /\ explanations[r].sentences = {SetToSeq(c.literals) : c \in Quoted(r)}
    BY DEF StandInExplanation
<1>4. Cited(explanations) \subseteq Ids(Range(state.evidence))
    BY <1>1, <1>3 DEF Cited, Ids
<1>5. \A block \in Headlines(explanations) : DOMAIN block \subseteq Nat /\ Range(block) = {}
    BY <1>3 DEF Headlines, Range
<1>6. \A c \in Range(state.evidence) :
        DOMAIN SetToSeq(c.literals) \subseteq Nat /\ Range(SetToSeq(c.literals)) \subseteq c.literals
    BY <1>2, CorpusAssumption, LiteralsInSequence
<1>7. \A block \in Written(explanations) : \E c \in Range(state.evidence) : block = SetToSeq(c.literals)
    BY <1>1, <1>3 DEF Written
<1> QED
    BY <1>4, <1>5, <1>6, <1>7

LEMMA ComparisonStep ==
  ASSUME IInv, CompareCandidates
  PROVE  IInv'
<1>1. PICK failed : Step("compare_candidates", "grounding_check", 0, failed)
    BY DEF CompareCandidates
<1>2. "compare_candidates" \in Nodes /\ "grounding_check" \in Nodes /\ "compare_candidates" \in Unwritten
      /\ "grounding_check" \notin Unranked /\ "grounding_check" \notin Unsearched
      /\ "grounding_check" \notin Unwritten /\ "grounding_check" \notin AfterGrounding
      /\ "compare_candidates" \notin AfterComparison
    BY DEF Nodes, Unwritten, Unsearched, Unranked, AfterComparison, AfterGrounding
<1>3. Spent("compare_candidates") + 0 <= Spent("grounding_check") /\ 0 \in Nat
    BY LimitsAssumption DEF Spent
<1>4. node = "compare_candidates" /\ node' = "grounding_check" /\ request' = request /\ CallsAreFew'
    BY <1>1, <1>2, <1>3, StepStays DEF IInv
<1>5. /\ state.writer = "none" /\ state.result = None
    BY <1>2, <1>4 DEF IInv, WritingIsSupported, ResultIsTold
<1>6. \/ Explained = {} /\ state' = [state EXCEPT !.gaps = @ \cup {"regions"}]
      \/ Explained # {} /\ \E told : state' = [state EXCEPT !.writer = "model", !.explanations = told]
      \/ /\ Explained # {}
         /\ state' = [state EXCEPT !.writer = "stand_in",
                                   !.explanations = [r \in Explained |-> StandInExplanation(r)]]
      \/ Explained # {} /\ state' = state
    BY DEF CompareCandidates
<1>7. /\ Shape' /\ state'.result = None
      /\ state'.regions = state.regions /\ state'.memory = state.memory
      /\ state'.candidates = state.candidates /\ state'.rejected = state.rejected
      /\ state'.retrieved = state.retrieved /\ state'.evidence = state.evidence
    BY <1>5, <1>6 DEF IInv, Shape, EmptyState
<1>8. state'.writer = "stand_in" => state'.explanations = [r \in Explained |-> StandInExplanation(r)]
    BY <1>5, <1>6 DEF IInv, Shape, EmptyState
<1>9. Explained = {} => state'.gaps # {}
    BY <1>6 DEF IInv, Shape, EmptyState
<1>10. RegionsAreRanked'
    BY <1>2, <1>4, <1>7, RankingStays DEF IInv
<1>11. EvidenceIsFit'
    BY <1>2, <1>4, <1>7, EvidenceStays DEF IInv
<1>12. WritingIsSupported'
  <2>1. ASSUME state'.writer = "stand_in"
        PROVE  /\ Cited(state'.explanations) \subseteq Ids(Range(state'.evidence))
               /\ \A block \in Headlines(state'.explanations) \cup Written(state'.explanations) :
                    /\ DOMAIN block \subseteq Nat
                    /\ Range(block) \subseteq UNION {c.literals : c \in Range(state'.evidence)}
      BY <1>7, <1>8, <2>1, StandInIsSupported DEF IInv
  <2> QED
      BY <1>2, <1>4, <2>1 DEF WritingIsSupported
<1>13. GapsAreLeft'
  <2>1. \A n \in Nat : Range(FirstOnes(<<>>, n)) = {}
    <3>1. IsList(<<>>) /\ Range(<<>>) = {}
        BY DEF IsList, Range
    <3> QED
        BY <3>1, PartsOfLists
  <2>2. state.regions = {} => Explained = {}
      BY <2>1, LimitsAssumption DEF IInv, RegionsAreRanked, Explained
  <2> QED
      BY <1>7, <1>9, <2>2 DEF GapsAreLeft
<1>14. ResultIsTold'
    BY <1>2, <1>4, <1>7 DEF ResultIsTold, AfterGrounding
<1> QED
    BY <1>2, <1>4, <1>7, <1>10, <1>11, <1>12, <1>13, <1>14 DEF IInv

(***************************************************************************)
(* The checks and the answer.                                              *)
(***************************************************************************)
LEMMA GroundingStep ==
  ASSUME IInv, GroundingCheck
  PROVE  IInv'
<1>1. PICK answered \in BOOLEAN : \E conflicts :
        /\ Step("grounding_check", "confidence_check", 1, Failed(answered))
        /\ state' = [state EXCEPT !.conflicts = conflicts, !.report = Report(Draft(conflicts))]
    BY Zenon DEF GroundingCheck
<1>2. PICK conflicts :
        /\ Step("grounding_check", "confidence_check", 1, Failed(answered))
        /\ state' = [state EXCEPT !.conflicts = conflicts, !.report = Report(Draft(conflicts))]
    BY <1>1, Zenon
<1>3. "grounding_check" \in Nodes /\ "confidence_check" \in Nodes /\ "confidence_check" \notin Unranked
      /\ "confidence_check" \notin Unsearched /\ "confidence_check" \notin Unwritten
      /\ "grounding_check" \in AfterComparison
    BY DEF Nodes, Unwritten, Unsearched, Unranked, AfterComparison, AfterGrounding
<1>4. Spent("grounding_check") + 1 <= Spent("confidence_check") /\ 1 \in Nat
    BY LimitsAssumption DEF Spent
<1>5. node = "grounding_check" /\ node' = "confidence_check" /\ request' = request /\ CallsAreFew'
    BY <1>2, <1>3, <1>4, StepStays DEF IInv
<1>6. /\ Shape' /\ state'.result = state.result
      /\ state'.regions = state.regions /\ state'.memory = state.memory
      /\ state'.candidates = state.candidates /\ state'.rejected = state.rejected
      /\ state'.retrieved = state.retrieved /\ state'.evidence = state.evidence
      /\ state'.writer = state.writer /\ state'.explanations = state.explanations
      /\ state'.gaps = state.gaps
      /\ state'.conflicts = conflicts /\ state'.report = Report(Draft(conflicts))
    BY <1>2 DEF IInv, Shape, EmptyState
<1>7. RegionsAreRanked' /\ EvidenceIsFit'
    BY <1>3, <1>5, <1>6, RankingStays, EvidenceStays DEF IInv
<1>8. WritingIsSupported'
    BY <1>3, <1>5, <1>6 DEF IInv, WritingIsSupported
<1>9. GapsAreLeft'
    BY <1>3, <1>5, <1>6 DEF IInv, GapsAreLeft
<1>10. ResultIsTold'
    BY <1>5, <1>6 DEF IInv, ResultIsTold
<1> DEFINE d == Draft(conflicts)
<1>11. /\ d.floor = MinEvidence /\ d.evidence = AsEvidence(state.evidence) /\ d.gaps = state.gaps
       /\ d.disputed = LeansOn(conflicts) /\ d.cited = Cited(state.explanations)
       /\ d.blocks = Headlines(state.explanations) \cup Written(state.explanations)
    BY DEF Draft, DraftThatIs
<1> HIDE DEF d
<1>12. state.evidence \in Seq(Corpus)
  <2>1. Fit \subseteq Corpus /\ state.evidence \in Seq(Fit)
      BY DEF IInv, EvidenceIsFit, Fit
  <2> QED
      BY <2>1
<1>13. IsFiniteSet(d.evidence) /\ Cardinality(d.evidence) <= Len(state.evidence)
    BY <1>11, <1>12, ContextIsCounted
<1>14. /\ Report(d).confidence = High =>
            d.gaps = {} /\ Cardinality(d.evidence) >= d.floor /\ ~d.disputed
       /\ d.disputed => Report(d).confidence < High /\ NeedsHuman(Report(d))
       /\ NeedsHuman(Report(d)) /\ ~d.disputed => Report(d).findings # {}
    BY <1>11, <1>13, ReportOfDraft, LimitsAssumption
<1>15. Report(d).confidence = High => Len(state.evidence) >= MinEvidence
  <2>1. Cardinality(d.evidence) \in Nat /\ Len(state.evidence) \in Nat /\ MinEvidence \in Nat
      BY <1>12, <1>13, FS_CardinalityType, LimitsAssumption
  <2> QED
      BY <1>11, <1>13, <1>14, <2>1
<1>16. state.writer = "stand_in" => Report(d).findings \cap {"G1", "G2"} = {}
  <2> SUFFICES ASSUME state.writer = "stand_in" PROVE Report(d).findings \cap {"G1", "G2"} = {}
      OBVIOUS
  <2> DEFINE E == Range(state.evidence)
             told(c) == Chunk(c.id, c.literals, StaleCritical(c))
  <2>0. d.evidence = {told(c) : c \in E} /\ \A c : told(c).id = c.id /\ told(c).literals = c.literals
      BY <1>11 DEF AsEvidence, Chunk
  <2> HIDE DEF told, E
  <2>1. Ids(d.evidence) = Ids(E)
      BY <2>0 DEF Ids
  <2>2. UNION {c.literals : c \in E} \subseteq Supported(d)
      BY <2>0 DEF Supported
  <2>3. d.cited \subseteq Ids(d.evidence)
      BY <1>11, <2>1 DEF IInv, WritingIsSupported, E
  <2>4. \A block \in d.blocks : DOMAIN block \subseteq Nat /\ Range(block) \subseteq Supported(d)
      BY <1>11, <2>2 DEF IInv, WritingIsSupported, E
  <2> QED
      BY <2>3, <2>4, QuotesAreSupported
<1>17. LeansOn(state.conflicts)' <=> LeansOn(conflicts)
    BY <1>6 DEF LeansOn
<1>18. state'.report = Report(d)
    BY <1>6 DEF d
<1>19. ReportIsEarned'
    BY <1>6, <1>11, <1>14, <1>15, <1>16, <1>17, <1>18 DEF ReportIsEarned
<1> QED
    BY <1>5, <1>6, <1>7, <1>8, <1>9, <1>10, <1>19 DEF IInv

\* What is decided and told after it keeps the report and what it rests on.
LEMMA LateStep ==
  ASSUME IInv, NEW here \in AfterGrounding, NEW next \in AfterGrounding, NEW calls \in Nat, NEW failed,
         Step(here, next, calls, failed),
         Spent(here) + calls <= Spent(next),
         Shape',
         state'.regions = state.regions, state'.memory = state.memory,
         state'.candidates = state.candidates, state'.rejected = state.rejected,
         state'.retrieved = state.retrieved, state'.evidence = state.evidence,
         state'.writer = state.writer, state'.explanations = state.explanations,
         state'.gaps = state.gaps, state'.conflicts = state.conflicts, state'.report = state.report,
         node = here /\ node' = next => ResultIsTold'
  PROVE  IInv'
<1>1. here \in Nodes /\ next \in Nodes /\ next \notin Unranked /\ next \notin Unsearched /\ next \notin Unwritten
      /\ here \in AfterComparison
    BY DEF Nodes, Unwritten, Unsearched, Unranked, AfterComparison, AfterGrounding
<1>2. node = here /\ node' = next /\ request' = request /\ CallsAreFew'
    BY <1>1, StepStays DEF IInv
<1>3. RegionsAreRanked' /\ EvidenceIsFit'
    BY <1>1, <1>2, RankingStays, EvidenceStays DEF IInv
<1>4. WritingIsSupported'
    BY <1>1, <1>2 DEF IInv, WritingIsSupported
<1>5. GapsAreLeft'
    BY <1>1, <1>2 DEF IInv, GapsAreLeft
<1>6. LeansOn(state.conflicts)' <=> LeansOn(state.conflicts)
    BY DEF LeansOn
<1>7. ReportIsEarned'
    BY <1>2, <1>6 DEF IInv, ReportIsEarned
<1> QED
    BY <1>2, <1>3, <1>4, <1>5, <1>7 DEF IInv

LEMMA ConfidenceStep ==
  ASSUME IInv, ConfidenceCheck
  PROVE  IInv'
<1> DEFINE held == NeedsHuman(state.report)
           next == IF held THEN "human_review" ELSE "answer"
<1>1. /\ Step("confidence_check", next, 0, 0)
      /\ state' = [state EXCEPT !.status = IF held THEN "needs_human_review" ELSE "complete"]
    BY DEF ConfidenceCheck
<1>2. next \in {"human_review", "answer"}
    OBVIOUS
<1> HIDE DEF next, held
<1>3. "confidence_check" \in AfterGrounding /\ next \in AfterGrounding
    BY <1>2 DEF AfterGrounding
<1>4. Spent("confidence_check") + 0 <= Spent(next) /\ 0 \in Nat
    BY <1>2, LimitsAssumption DEF Spent
<1>5. /\ Shape'
      /\ state'.regions = state.regions /\ state'.memory = state.memory
      /\ state'.candidates = state.candidates /\ state'.rejected = state.rejected
      /\ state'.retrieved = state.retrieved /\ state'.evidence = state.evidence
      /\ state'.writer = state.writer /\ state'.explanations = state.explanations
      /\ state'.gaps = state.gaps /\ state'.conflicts = state.conflicts /\ state'.report = state.report
      /\ state'.result = state.result
      /\ state'.status = IF held THEN "needs_human_review" ELSE "complete"
    BY <1>1 DEF IInv, Shape, EmptyState
<1>6. ASSUME node = "confidence_check", node' = next PROVE ResultIsTold'
  <2>1. state'.status = "needs_human_review" <=> NeedsHuman(state'.report)
      BY <1>5 DEF held
  <2> QED
      BY <1>2, <1>5, <1>6, <2>1 DEF IInv, ResultIsTold
<1> QED
    BY <1>1, <1>3, <1>4, <1>5, <1>6, LateStep

LEMMA ReviewStep ==
  ASSUME IInv, HumanReview
  PROVE  IInv'
<1>1. PICK answered \in BOOLEAN :
        /\ Step("human_review", "answer", 1, Failed(answered))
        /\ state' = [state EXCEPT !.task = answered]
    BY Zenon DEF HumanReview
<1>2. "human_review" \in AfterGrounding /\ "answer" \in AfterGrounding
    BY DEF AfterGrounding
<1>3. Spent("human_review") + 1 <= Spent("answer") /\ 1 \in Nat
    BY LimitsAssumption DEF Spent
<1>4. /\ Shape'
      /\ state'.regions = state.regions /\ state'.memory = state.memory
      /\ state'.candidates = state.candidates /\ state'.rejected = state.rejected
      /\ state'.retrieved = state.retrieved /\ state'.evidence = state.evidence
      /\ state'.writer = state.writer /\ state'.explanations = state.explanations
      /\ state'.gaps = state.gaps /\ state'.conflicts = state.conflicts /\ state'.report = state.report
      /\ state'.result = state.result /\ state'.status = state.status
    BY <1>1 DEF IInv, Shape, EmptyState
<1>5. ASSUME node = "human_review", node' = "answer" PROVE ResultIsTold'
    BY <1>4, <1>5 DEF IInv, ResultIsTold
<1> QED
    BY <1>1, <1>2, <1>3, <1>4, <1>5, LateStep

LEMMA AnswerStep ==
  ASSUME IInv, Answer
  PROVE  IInv'
<1>1. Step("answer", "done", 0, 0)
    BY DEF Answer
<1>2. "answer" \in AfterGrounding /\ "done" \in AfterGrounding
    BY DEF AfterGrounding
<1>3. Spent("answer") + 0 <= Spent("done") /\ 0 \in Nat
    BY LimitsAssumption DEF Spent
<1>4. /\ Shape'
      /\ state'.regions = state.regions /\ state'.memory = state.memory
      /\ state'.candidates = state.candidates /\ state'.rejected = state.rejected
      /\ state'.retrieved = state.retrieved /\ state'.evidence = state.evidence
      /\ state'.writer = state.writer /\ state'.explanations = state.explanations
      /\ state'.gaps = state.gaps /\ state'.conflicts = state.conflicts /\ state'.report = state.report
      /\ state'.status = state.status
    BY DEF Answer, IInv, Shape, EmptyState
<1>5. PICK closing \in FinalExplanations(Sentences, FactSheet) :
        /\ state'.result.recommended = Range(FirstOnes(state.candidates, 1))
        /\ state'.result.alternatives
             = Range(FirstOnes(state.candidates, MaxExplained)) \ Range(FirstOnes(state.candidates, 1))
        /\ state'.result.citations = Cited(Telling(Built)) \cap Ids(Range(state.evidence))
        /\ state'.result.confidence = state.report.confidence
        /\ state'.result.status = state.status
        /\ state'.result.closing = closing
    BY DEF Answer, IInv, Shape, EmptyState
<1>6. state'.result.recommended \cup state'.result.alternatives \subseteq Range(state.candidates)
    BY <1>5, PartsOfLists, LimitsAssumption DEF IInv, RegionsAreRanked
<1>7. ASSUME state.status = "needs_human_review" PROVE closing.caveats
  <2>1. \E told, doubtful : FactSheet = Facts(told, TRUE, doubtful)
      BY <1>7 DEF FactSheet
  <2> QED
      BY <2>1, DisputesAreCaveats
<1>8. ASSUME node = "answer", node' = "done" PROVE ResultIsTold'
    BY <1>4, <1>5, <1>6, <1>7, <1>8 DEF IInv, ResultIsTold
<1> QED
    BY <1>1, <1>2, <1>3, <1>4, <1>8, LateStep

LEMMA StutterStep ==
  ASSUME IInv, UNCHANGED vars
  PROVE  IInv'
<1>1. Shape' /\ CallsAreFew' /\ GapsAreLeft' /\ WritingIsSupported' /\ ResultIsTold'
    BY DEF vars, IInv, Shape, CallsAreFew, GapsAreLeft, WritingIsSupported, ResultIsTold
<1>2. RegionsAreRanked' /\ EvidenceIsFit'
    BY RankingStays, EvidenceStays DEF vars, IInv
<1>3. node' \in AfterGrounding => ReportIsEarned'
    BY DEF vars, IInv, ReportIsEarned, LeansOn
<1> QED
    BY <1>1, <1>2, <1>3 DEF IInv

\* Every step keeps the invariant.
LEMMA NextInv == IInv /\ [Next]_vars => IInv'
<1> SUFFICES ASSUME IInv, [Next]_vars PROVE IInv'
    OBVIOUS
<1>1. CASE Done
    BY <1>1, StutterStep DEF Done
<1> QED
    BY <1>1, ParsingStep, LoadingStep, RegionsStep, RankingStep, ToolsStep, SearchStep, AssemblyStep,
       ComparisonStep, GroundingStep, ConfidenceStep, ReviewStep, AnswerStep, StutterStep DEF Next

LEMMA Invariance == Spec => []IInv
BY InitInv, NextInv, PTL DEF Spec

(***************************************************************************)
(* The second invariant: every region of the table is on one of the lists. *)
(***************************************************************************)
RegionsAreKept ==
  node \notin Unranked =>
    /\ Len(state.candidates) + Len(state.rejected) = Cardinality(state.regions)
    /\ Built = state.regions

TypeInv ==
  /\ faults \in 0..MaxFaults
  /\ RegionsAreKept
  /\ state.report.confidence \in Confidences
  /\ state.status \in {"running", "complete", "needs_human_review"}

SameRegions ==
  /\ state'.regions = state.regions
  /\ state'.candidates = state.candidates /\ state'.rejected = state.rejected

LEMMA FailuresCounted == \A answered \in BOOLEAN : Failed(answered) \in Nat
BY DEF Failed

LEMMA FailuresAreSome ==
  ASSUME NEW calls, NEW failing \in Failures(calls)
  PROVE  Cardinality(failing) \in Nat
<1>1. PICK k \in 0..MaxFaults : failing \in kSubset(k, calls)
    BY DEF Failures
<1> QED
    BY <1>1, RunAssumption DEF kSubset

LEMMA HandsOn ==
  ASSUME IInv', TypeInv, NEW here, NEW next, NEW calls, NEW failed \in Nat,
         Step(here, next, calls, failed)
  PROVE  node = here /\ node' = next /\ request' = request /\ faults' \in 0..MaxFaults
<1>1. node' \in Nodes
    BY DEF IInv, CallsAreFew
<1>2. "exhausted" \notin Nodes
    BY DEF Nodes, Unwritten, Unsearched, Unranked, AfterComparison, AfterGrounding
<1>3. faults' \in 0..MaxFaults
    BY RunAssumption DEF Step, TypeInv
<1> QED
    BY <1>1, <1>2, <1>3 DEF Step

LEMMA RegionsStayKept ==
  ASSUME IInv', TypeInv, NEW here, NEW next, NEW calls, NEW failed \in Nat,
         Step(here, next, calls, failed),
         next \in Unranked \/ (here \notin Unranked /\ SameRegions),
         state'.report.confidence \in Confidences,
         state'.status \in {"running", "complete", "needs_human_review"}
  PROVE  TypeInv'
<1>1. node = here /\ node' = next /\ faults' \in 0..MaxFaults
    BY HandsOn
<1>2. RegionsAreKept'
    BY <1>1 DEF TypeInv, RegionsAreKept, SameRegions, Built
<1> QED
    BY <1>1, <1>2 DEF TypeInv

LEMMA SplittingKeeps ==
  ASSUME IInv, IInv', TypeInv, ApplyHardConstraints
  PROVE  TypeInv'
<1> DEFINE ranked == RankRegions(state.regions, request.trip)
           out == {i \in DOMAIN ranked : RuledOut(ranked[i])}
           kept == DOMAIN ranked \ out
           n == Cardinality(state.regions)
<1>1. Step("apply_hard_constraints", "call_travel_tools", 0, 0) /\ 0 \in Nat
    BY DEF ApplyHardConstraints
<1>2. state' = [state EXCEPT !.candidates = AtPositions(ranked, kept), !.rejected = AtPositions(ranked, out)]
    BY DEF ApplyHardConstraints
<1>3. IsList(ranked) /\ DOMAIN ranked = 1..n /\ Range(ranked) = state.regions
    BY EachIsRanked DEF IInv, RegionsAreRanked, CallsAreFew
<1>4. out \in SUBSET DOMAIN ranked /\ kept \in SUBSET DOMAIN ranked /\ kept = DOMAIN ranked \ out
    OBVIOUS
<1>5. n \in Nat
    BY FS_CardinalityType DEF IInv, RegionsAreRanked
<1> HIDE DEF ranked, out, kept, n
<1>6. /\ state'.regions = state.regions /\ state'.report = state.report /\ state'.status = state.status
      /\ state'.candidates = AtPositions(ranked, kept) /\ state'.rejected = AtPositions(ranked, out)
    BY <1>2 DEF IInv, Shape, EmptyState
<1>7. /\ Range(state'.candidates) = {ranked[i] : i \in kept} /\ Len(state'.candidates) = Cardinality(kept)
      /\ Range(state'.rejected) = {ranked[i] : i \in out} /\ Len(state'.rejected) = Cardinality(out)
    BY <1>3, <1>4, <1>6, PartHasAll
<1>8. Built' = state'.regions
    BY <1>3, <1>4, <1>6, <1>7 DEF Built, Range
<1>9. Len(state'.candidates) + Len(state'.rejected) = Cardinality(state'.regions)
  <2>1. IsFiniteSet(DOMAIN ranked) /\ Cardinality(DOMAIN ranked) = n
      BY <1>3, <1>5, FS_Interval
  <2>2. /\ Cardinality(kept) = Cardinality(DOMAIN ranked) - Cardinality(DOMAIN ranked \cap out)
        /\ DOMAIN ranked \cap out = out
      BY <1>4, <2>1, FS_Subset, FS_Difference
  <2>3. Cardinality(out) \in Nat
      BY <1>4, <2>1, FS_Subset, FS_CardinalityType
  <2>4. Cardinality(state'.regions) = n
      BY <1>6 DEF n
  <2>5. Len(state'.candidates) = Cardinality(kept) /\ Len(state'.rejected) = Cardinality(out)
      BY <1>7
  <2>6. Cardinality(kept) = n - Cardinality(out)
      BY <2>1, <2>2, Zenon
  <2>7. \A a, b \in Int : b + (a - b) = a /\ (a - b) + b = a
      OBVIOUS
  <2>8. Cardinality(kept) + Cardinality(out) = n
      BY <1>5, <2>3, <2>6, <2>7
  <2> QED
      BY <2>4, <2>5, <2>8
<1>10. faults' \in 0..MaxFaults
    BY <1>1, HandsOn
<1> QED
    BY <1>6, <1>8, <1>9, <1>10 DEF TypeInv, RegionsAreKept

LEMMA ReportTellsAConfidence == \A d : Report(d).confidence \in Confidences
<1> SUFFICES ASSUME NEW d PROVE Report(d).confidence \in Confidences
    OBVIOUS
<1> DEFINE S == {High} \cup {Cap(d, code) : code \in Findings(d)}
                  \cup (IF d.evidence = {} THEN {Insufficient} ELSE {})
                  \cup (IF d.disputed THEN {Medium} ELSE {})
<1>1. S \subseteq 0..3 /\ S # {}
    BY DEF Cap, High, Insufficient, Medium, Low
<1>2. Report(d).confidence = Min(S)
    BY DEF Report, Confidence
<1> HIDE DEF S
<1>3. Min(S) \in S
    BY <1>1, LeastConfidence
<1> QED
    BY <1>1, <1>2, <1>3 DEF Confidences, Insufficient, High

LEMMA TypeStep ==
  ASSUME IInv, IInv', TypeInv, Next
  PROVE  TypeInv'
<1> USE DEF Unranked
<1>1. state.report.confidence \in Confidences /\ state.status \in {"running", "complete", "needs_human_review"}
    BY DEF TypeInv
<1>2. 0 \in Nat /\ 1 \in Nat
    OBVIOUS
<1> DEFINE Plain == SameRegions /\ state'.report = state.report /\ state'.status = state.status
<1>4. CASE ParseTripContext
  <2>1. Step("parse_trip_context", "load_memory", 0, 0) /\ state'.report = state.report /\ state'.status = state.status
      BY <1>4 DEF ParseTripContext, IInv, Shape, EmptyState
  <2> QED
      BY <1>1, <1>2, <2>1, RegionsStayKept
<1>5. CASE LoadMemory
  <2>1. \E calls : \E failed \in Nat : Step("load_memory", "retrieve_region_candidates", calls, failed)
      BY <1>2, <1>5, FailuresCounted DEF LoadMemory
  <2>2. state'.report = state.report /\ state'.status = state.status
      BY <1>5 DEF LoadMemory, IInv, Shape, EmptyState
  <2> QED
      BY <1>1, <2>1, <2>2, RegionsStayKept
<1>6. CASE RetrieveRegionCandidates
  <2>1. /\ Step("retrieve_region_candidates", "apply_hard_constraints", 0, 0)
        /\ state'.report = state.report /\ state'.status = state.status
      BY <1>6 DEF RetrieveRegionCandidates, IInv, Shape, EmptyState
  <2> QED
      BY <1>1, <1>2, <2>1, RegionsStayKept
<1>7. CASE ApplyHardConstraints
    BY <1>7, SplittingKeeps
<1>8. CASE CallTravelTools
  <2> DEFINE calls == Range(Shortlist) \X ToolsAsked
  <2>1. PICK failing \in Failures(calls) :
          /\ Step("call_travel_tools", "retrieve_verified_evidence", Cardinality(calls), Cardinality(failing))
          /\ state' = [state EXCEPT !.facts = {r \in Range(Shortlist) : <<r, "transport">> \notin failing}]
      BY <1>8 DEF CallTravelTools
  <2>2. Plain
      BY <2>1 DEF SameRegions, IInv, Shape, EmptyState
  <2>3. Cardinality(failing) \in Nat
      BY FailuresAreSome
  <2> HIDE DEF calls
  <2> QED
      BY <1>1, <2>1, <2>2, <2>3, RegionsStayKept
<1>9. CASE RetrieveVerifiedEvidence
  <2>1. PICK failing \in Failures(DOMAIN Shortlist) : \E found :
          /\ Step("retrieve_verified_evidence", "rerank_evidence", Len(Shortlist), Cardinality(failing))
          /\ state' = [state EXCEPT !.retrieved = found]
      BY <1>9, Zenon DEF RetrieveVerifiedEvidence
  <2>2. Plain
      BY <2>1 DEF SameRegions, IInv, Shape, EmptyState
  <2>3. Cardinality(failing) \in Nat
      BY FailuresAreSome
  <2> QED
      BY <1>1, <2>1, <2>2, <2>3, RegionsStayKept
<1>10. CASE RerankEvidence
  <2>1. Step("rerank_evidence", "compare_candidates", 0, 0)
      BY <1>10 DEF RerankEvidence
  <2>2. \E evidence, hostile : state' = [state EXCEPT !.evidence = evidence, !.hostile = hostile]
      BY <1>10, Zenon DEF RerankEvidence
  <2>3. Plain
      BY <2>2 DEF SameRegions, IInv, Shape, EmptyState
  <2> QED
      BY <1>1, <1>2, <2>1, <2>3, RegionsStayKept
<1>11. CASE CompareCandidates
  <2>1. Step("compare_candidates", "grounding_check", 0, 0) \/ Step("compare_candidates", "grounding_check", 0, 1)
      BY <1>11 DEF CompareCandidates
  <2>2. \/ \E gaps : state' = [state EXCEPT !.gaps = gaps]
        \/ \E writer, told : state' = [state EXCEPT !.writer = writer, !.explanations = told]
        \/ state' = state
      BY <1>11, Zenon DEF CompareCandidates
  <2>3. Plain
      BY <2>2 DEF SameRegions, IInv, Shape, EmptyState
  <2> QED
      BY <1>1, <1>2, <2>1, <2>3, RegionsStayKept
<1>12. CASE GroundingCheck
  <2>1. PICK answered \in BOOLEAN : \E conflicts :
          /\ Step("grounding_check", "confidence_check", 1, Failed(answered))
          /\ state' = [state EXCEPT !.conflicts = conflicts, !.report = Report(Draft(conflicts))]
      BY <1>12, Zenon DEF GroundingCheck
  <2>2. PICK conflicts :
          /\ Step("grounding_check", "confidence_check", 1, Failed(answered))
          /\ state' = [state EXCEPT !.conflicts = conflicts, !.report = Report(Draft(conflicts))]
      BY <2>1
  <2>3. SameRegions /\ state'.report = Report(Draft(conflicts)) /\ state'.status = state.status
      BY <2>2 DEF SameRegions, IInv, Shape, EmptyState
  <2>4. state'.report.confidence \in Confidences
      BY <2>3, ReportTellsAConfidence
  <2> QED
      BY <1>1, <2>2, <2>3, <2>4, FailuresCounted, RegionsStayKept
<1>13. CASE ConfidenceCheck
  <2>1. \E next : Step("confidence_check", next, 0, 0)
      BY <1>13 DEF ConfidenceCheck
  <2>2. \E status \in {"needs_human_review", "complete"} : state' = [state EXCEPT !.status = status]
      BY <1>13 DEF ConfidenceCheck
  <2>3. SameRegions /\ state'.report = state.report /\ state'.status \in {"needs_human_review", "complete"}
      BY <2>2 DEF SameRegions, IInv, Shape, EmptyState
  <2> QED
      BY <1>1, <1>2, <2>1, <2>3, RegionsStayKept
<1>14. CASE HumanReview
  <2>1. \E failed \in Nat : Step("human_review", "answer", 1, failed)
      BY <1>14, FailuresCounted DEF HumanReview
  <2>2. \E task : state' = [state EXCEPT !.task = task]
      BY <1>14 DEF HumanReview
  <2>3. Plain
      BY <2>2 DEF SameRegions, IInv, Shape, EmptyState
  <2> QED
      BY <1>1, <2>1, <2>3, RegionsStayKept
<1>15. CASE Answer
  <2>1. Step("answer", "done", 0, 0)
      BY <1>15 DEF Answer
  <2>2. \E result : state' = [state EXCEPT !.result = result]
      BY <1>15, Zenon DEF Answer
  <2>3. Plain
      BY <2>2 DEF SameRegions, IInv, Shape, EmptyState
  <2> QED
      BY <1>1, <1>2, <2>1, <2>3, RegionsStayKept
<1>16. CASE Done
    BY <1>16 DEF Done, vars, TypeInv, RegionsAreKept, Built
<1> QED
    BY <1>4, <1>5, <1>6, <1>7, <1>8, <1>9, <1>10, <1>11, <1>12, <1>13, <1>14, <1>15, <1>16 DEF Next

(***************************************************************************)
(* The theorems.                                                           *)
(***************************************************************************)
\* The state between two nodes is what the nodes read and write; each region of
\* the table is ranked once, as a candidate or as rejected, and none is lost before
\* the answer builds the entries of its lists, in which the candidates after the
\* MaxExplained first are left out (agents/where_next/nodes.py
\* apply_hard_constraints, answer).
THEOREM StateIsTyped == Spec => []TypeOK
<1>1. IInv /\ TypeInv => TypeOK
  <2> SUFFICES ASSUME IInv, TypeInv PROVE TypeOK
      OBVIOUS
  <2>1. used \in Nat
    <3>1. used \in 0..Spent(node)
        BY DEF IInv, CallsAreFew
    <3> QED
        BY <3>1
  <2>2. node \in Unranked => Len(state.candidates) + Len(state.rejected) = 0
    <3>1. node \in Unranked => state.candidates = <<>> /\ state.rejected = <<>>
        BY DEF IInv, RegionsAreRanked
    <3>2. node \in Unranked => Len(state.candidates) = 0 /\ Len(state.rejected) = 0
        BY <3>1
    <3>3. 0 + 0 = 0
        OBVIOUS
    <3> QED
        BY <3>2, <3>3, Zenon
  <2>3. node = "done" => node \notin Unranked
      BY DEF Unranked
  <2> QED
      BY <2>1, <2>2, <2>3 DEF TypeInv, RegionsAreKept, TypeOK
<1>2. Init => TypeInv
  <2> SUFFICES ASSUME Init PROVE TypeInv
      OBVIOUS
  <2>1. node \in Unranked /\ faults = 0 /\ state = EmptyState
      BY DEF Init, Unranked
  <2>2. state.report = NoReport /\ state.status = "running"
      BY <2>1 DEF EmptyState
  <2>3. NoReport.confidence \in Confidences
      BY DEF NoReport, Confidences, Insufficient, Medium, High
  <2>4. 0 \in 0..MaxFaults
      BY RunAssumption
  <2> QED
      BY <2>1, <2>2, <2>3, <2>4, Zenon DEF TypeInv, RegionsAreKept
<1>3. IInv /\ IInv' /\ TypeInv /\ [Next]_vars => TypeInv'
    BY TypeStep DEF vars, TypeInv, RegionsAreKept, Built
<1>4. Spec => []IInv
    BY Invariance
<1> QED
    BY <1>1, <1>2, <1>3, <1>4, PTL DEF Spec
\* Whatever is asked for and whatever fails, a run of the graph never meets the
\* end of its budget of tool calls (agents/common/tools.py ToolBudget.consume).
THEOREM NoAnswerExhaustsItsBudget == Spec => []BudgetIsEnough
<1>1. IInv => BudgetIsEnough
    BY DEF IInv, CallsAreFew, BudgetIsEnough, Nodes, Unwritten, Unsearched, Unranked, AfterComparison, AfterGrounding
<1> QED
    BY <1>1, Invariance, PTL

\* What the memory that the run has read rejects, or what fails a hard constraint, is
\* neither recommended nor an alternative; of a memory that could not be read nothing
\* is said (nodes.py load_memory, apply_hard_constraints).
THEOREM RuledOutIsNotRecommended == Spec => []RuledOutStaysOut
<1>1. IInv => RuledOutStaysOut
  <2> SUFFICES ASSUME IInv, state.result # None,
                      NEW r \in state.result.recommended \cup state.result.alternatives
               PROVE  r \notin state.memory /\ ~Fails(r)
      BY DEF RuledOutStaysOut
  <2>1. r \in Range(state.candidates)
      BY DEF IInv, ResultIsTold
  <2> QED
      BY <2>1 DEF IInv, RegionsAreRanked, RuledOut
<1> QED
    BY <1>1, Invariance, PTL

\* An answer that leans on a conflict is held back and says so; nothing else is
\* held back without a finding, and what the stand-in writes is supported
\* (nodes.py grounding_check, guardrails.py, llm.py DemoLLMProvider).
THEOREM AnswersAreHeldForAReason == Spec => []HeldForAReason
<1>1. IInv => HeldForAReason
  <2> SUFFICES ASSUME IInv, state.result # None PROVE HeldForAReason
      BY DEF HeldForAReason
  <2>1. node = "done" /\ node \in AfterGrounding
      BY DEF IInv, ResultIsTold, AfterGrounding
  <2>2. ReportIsEarned
      BY <2>1 DEF IInv
  <2> QED
      BY <2>1, <2>2 DEF IInv, ReportIsEarned, ResultIsTold, HeldForAReason
<1> QED
    BY <1>1, Invariance, PTL

\* An answer of high confidence ranked some regions, has enough evidence and
\* leans on no conflict (guardrails.py G4, G7).
THEOREM ConfidenceRestsOnEvidence == Spec => []ConfidentOnlyWithEvidence
<1>1. IInv => ConfidentOnlyWithEvidence
  <2> SUFFICES ASSUME IInv, state.result # None, state.result.confidence = High
               PROVE  state.regions # {} /\ Len(state.evidence) >= MinEvidence /\ ~LeansOn(state.conflicts)
      BY DEF ConfidentOnlyWithEvidence
  <2>1. node = "done" /\ node \in AfterGrounding /\ node \in AfterComparison
        /\ state.report.confidence = High
      BY DEF IInv, ResultIsTold, AfterGrounding, AfterComparison
  <2>2. ReportIsEarned
      BY <2>1 DEF IInv
  <2> QED
      BY <2>1, <2>2 DEF IInv, ReportIsEarned, GapsAreLeft
<1> QED
    BY <1>1, Invariance, PTL

\* All evidence an answer can cite is about a short-listed region, holds in the
\* month of the trip, is told once and matches neither a critical injection pattern
\* nor two patterns of any kind (rag.py, context.py, injection.py).
THEOREM EvidenceAlwaysFits == Spec => []EvidenceFitsTheTrip
<1>1. IInv => EvidenceFitsTheTrip
  <2> SUFFICES ASSUME IInv PROVE EvidenceFitsTheTrip
      OBVIOUS
  <2>1. Range(state.evidence) \subseteq Fit
      BY AnySequenceIsAList DEF IInv, EvidenceIsFit
  <2>2. \A c \in Range(state.evidence) :
          /\ c.region \in Range(Shortlist)
          /\ request.trip.month = 0 \/ c.months = {} \/ request.trip.month \in c.months
          /\ c.flags \cap CriticalRules = {}
          /\ ~(Cardinality(c.flags) >= 2)
      BY <2>1 DEF Fit, InSeason, Hostile
  <2>3. state.result # None => state.result.citations \subseteq Ids(Range(state.evidence))
      BY DEF IInv, ResultIsTold
  <2> QED
      BY <2>2, <2>3 DEF IInv, EvidenceIsFit, EvidenceFitsTheTrip
<1> QED
    BY <1>1, Invariance, PTL

\* A longer stay never rules a region out, whatever the profile of the region and
\* the trip (scoring.py evaluate_hard_constraints).
THEOREM LongerStaysRuleNothingOut == Spec => []LongerStaysKeepTheirRegions
<1>1. IInv => LongerStaysKeepTheirRegions
    BY LongerStaysFailLess DEF IInv, CallsAreFew, RegionsAreRanked, LongerStaysKeepTheirRegions
<1> QED
    BY <1>1, Invariance, PTL
=============================================================================
