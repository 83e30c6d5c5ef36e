--------------------------- MODULE EvidenceSearch ---------------------------
(***************************************************************************)
(* What a search for evidence returns (knowledge/rag.py): the chunks the   *)
(* filters let through, in the order of two retrievers whose rankings are  *)
(* fused, perhaps reranked, and assembled into a context under a budget of *)
(* tokens.                                                                 *)
(*                                                                         *)
(* The corpus is a set of records, one per chunk:                          *)
(*   id, region, place (NoPlace: all of the region), topic, trust, official*)
(*   age       days since it was verified, NeverVerified if it was not     *)
(*   months    the months it holds in; none: the whole year                *)
(*   close     how near its vector is to the query, NoVector without one   *)
(*   lexical   its lexical score, 0 if nothing matches                     *)
(*   coverage  the share of the query's terms it has, in thousandths       *)
(*   tokens    what it costs                                               *)
(*   flags     the injection patterns it matches                           *)
(*   literals  the operational figures it tells                            *)
(* No two chunks are equally close or have the same lexical score.         *)
(***************************************************************************)
EXTENDS Orders, Rounding, Functions, VerificationStatus

CONSTANTS
  Corpus,
  NearDuplicates,  \* pairs of ids of chunks that say nearly the same
  CandidateK,      \* retrieval_candidate_k
  RrfK,            \* rrf_k
  DenseWeight      \* retrieval_dense_weight, in hundredths

NoPlace == "none"
NoVector == -1

TrustScore == [primary |-> 1000, secondary |-> 750, unverified |-> 400]
FreshnessScore == [fresh |-> 1000, ageing |-> 600, stale |-> 150, unverified |-> 350]

ASSUME SearchAssumption == CandidateK \in Nat /\ RrfK \in Nat /\ DenseWeight \in Nat

ASSUME CorpusAssumption ==
  /\ IsFiniteSet(Corpus)
  /\ \A c \in Corpus :
       /\ c.id \in Nat /\ c.close \in Int /\ c.lexical \in Nat /\ c.coverage \in Nat /\ c.age \in Int
       /\ c.trust \in DOMAIN TrustScore /\ c.topic \in DOMAIN TopicDays /\ IsFiniteSet(c.literals)
  /\ \A c, d \in Corpus : c # d =>
       /\ c.id # d.id
       /\ c.close # d.close \/ c.close = NoVector
       /\ c.lexical # d.lexical \/ c.lexical = 0

StaleCritical(chunk) == Freshness(chunk) = "stale" /\ chunk.topic \in CriticalTopics

(***************************************************************************)
(* The filters: a record [regions, places, topics, official, month], in    *)
(* which an empty set and the month 0 let everything through.              *)
(***************************************************************************)
Passes(chunk, filters) ==
  /\ filters.regions = {} \/ chunk.region \in filters.regions
  /\ filters.places = {} \/ chunk.place \in filters.places \cup {NoPlace}
  /\ filters.topics = {} \/ chunk.topic \in filters.topics
  /\ filters.official => chunk.official

\* What holds in some months is let through in every month.
AlwaysInSeason(chunk, month) == TRUE

InSeason(chunk, month) == month = 0 \/ chunk.months = {} \/ month \in chunk.months

\* The season is filtered after the first rows are read.
TopRows(rows, filters) ==
  LET first == FirstOnes(rows, 3 * CandidateK)
  IN  FirstOnes(AtPositions(first, {i \in DOMAIN first : InSeason(first[i], filters.month)}), CandidateK)

DenseSearch(filters) ==
  TopRows(Sorted({c \in Corpus : c.close # NoVector /\ Passes(c, filters)},
                 LAMBDA c, d : c.close > d.close), filters)

KeywordSearch(filters) ==
  TopRows(Sorted({c \in Corpus : c.lexical > 0 /\ Passes(c, filters)},
                 LAMBDA c, d : c.lexical > d.lexical), filters)

(***************************************************************************)
(* Reciprocal rank fusion, in millionths.                                  *)
(***************************************************************************)
Rank(list, chunk) == Min({i \in DOMAIN list : list[i] = chunk})

Contribution(list, weight, chunk) ==
  IF chunk \in Range(list) THEN (10000 * weight) \div (RrfK + Rank(list, chunk)) ELSE 0

FusedScore(dense, keyword, chunk) ==
  Contribution(dense, DenseWeight, chunk) + Contribution(keyword, 100, chunk)

BestRank(dense, keyword, chunk) ==
  Min({Rank(list, chunk) : list \in {l \in {dense, keyword} : chunk \in Range(l)}})

Fused(dense, keyword) ==
  LET found == Range(dense) \cup Range(keyword)
      key   == [c \in found |-> <<-FusedScore(dense, keyword, c), BestRank(dense, keyword, c), c.id>>]
      Before(c, d) == \E i \in 1..3 : key[c][i] < key[d][i] /\ \A j \in 1..(i - 1) : key[c][j] = key[d][j]
  IN  FirstOnes(Sorted(found, Before), CandidateK)

(***************************************************************************)
(* The rerankers.                                                          *)
(***************************************************************************)
HeuristicRerank(list, score, topics) ==
  LET best == Max({1} \cup {score[c] : c \in Range(list)})
      Relevance(c) == 4500 * Rounded(1000 * score[c], best)
                      + 1375 * (TrustScore[c.trust] + FreshnessScore[Freshness(c)]
                                + (IF topics = {} \/ c.topic \in topics THEN 1000 ELSE 350) + c.coverage)
      relevance == [c \in Range(list) |-> Relevance(c)]
  IN  Sorted(Range(list), LAMBDA c, d :
        relevance[c] > relevance[d] \/ (relevance[c] = relevance[d] /\ Rank(list, c) < Rank(list, d)))

\* The ids the model listed, each once; unknown ones are dropped and what it
\* left out follows. Fallback is the order without a valid id.
ModelRerank(list, listed, fallback) ==
  LET at(i)  == {c \in Range(list) : c.id = listed[i]}
      first  == InOrder({i \in DOMAIN listed : at(i) # {} /\ \A j \in 1..(i - 1) : listed[j] # listed[i]})
      chosen == Listing(Len(first), LAMBDA k : CHOOSE c \in at(first[k]) : TRUE)
  IN  IF chosen = <<>> THEN fallback ELSE chosen \o AtPositions(list, {i \in DOMAIN list : list[i] \notin Range(chosen)})

\* By what is searched, and for hybrid_rerank what the model lists: nothing when
\* it fails or is not used.
Retrieved(filters, strategy, listed) ==
  LET dense   == DenseSearch(filters)
      keyword == KeywordSearch(filters)
      hybrid  == Fused(dense, keyword)
      score   == [c \in Range(hybrid) |-> FusedScore(dense, keyword, c)]
  IN  CASE strategy = "vector" -> dense
        [] strategy = "keyword" -> keyword
        [] strategy = "hybrid" -> hybrid
        [] strategy = "hybrid_rerank" ->
             ModelRerank(hybrid, listed, HeuristicRerank(hybrid, score, filters.topics))

(***************************************************************************)
(* assemble_evidence_context.                                              *)
(***************************************************************************)
CriticalRules == {"delimiter_spoof", "markup_injection", "prompt_exfiltration", "system_prompt_spoof"}

\* Two lesser patterns do not add up.
HostileIfCritical(chunk) == chunk.flags \cap CriticalRules # {}

Hostile(chunk) == chunk.flags \cap CriticalRules # {} \/ Cardinality(chunk.flags) >= 2

SaysTheSame(c, d) == {c.id, d.id} \in NearDuplicates

\* Of near-duplicates the higher-ranked one is kept.
Deduplicate(list) ==
  LET kept[i \in DOMAIN list] == \A j \in 1..(i - 1) : SaysTheSame(list[i], list[j]) => ~kept[j]
  IN  AtPositions(list, {i \in DOMAIN list : kept[i]})

\* As many of the first as the budget pays for, and at least one
WithinBudget(list, budget) ==
  LET Cost(n) == MapThenSumSet(LAMBDA i : list[i].tokens, 1..n)
  IN  FirstOnes(list, Cardinality({n \in DOMAIN list : n = 1 \/ Cost(n) <= budget}))

Assemble(list, budget) ==
  WithinBudget(Deduplicate(AtPositions(list, {i \in DOMAIN list : ~Hostile(list[i])})), budget)

\* search_verified_evidence: the chunks of its context
Search(filters, limit, budget, strategy, listed) ==
  Assemble(FirstOnes(Retrieved(filters, strategy, listed), limit), budget)
=============================================================================
