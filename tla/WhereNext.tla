------------------------------ MODULE WhereNext -----------------------------
(***************************************************************************)
(* The where_next graph: one action per node, in the order of the graph,   *)
(* over the state the nodes hand on (agents/where_next).                   *)
(*                                                                         *)
(* A request is the trip it is for and, when the trip has a memory, the    *)
(* regions rejected in it. Regions are the positions of their profiles.    *)
(* The model explains some regions: for each, a headline, other sentences  *)
(* and the evidence it cites; a sentence is the sequence of its literals.  *)
(***************************************************************************)
EXTENDS RegionScoring, EvidenceSearch, ClosingSummary, AgentRun, SequencesExt

CONSTANTS
  Requests,
  Tables,         \* what the regions table may hold
  MaxExplained,   \* MAX_EXPLAINED
  EvidenceLimit,  \* chunks asked for per region
  SearchBudget,   \* tokens of a search's context
  ContextBudget,  \* tokens of the whole context
  MinEvidence,    \* min_evidence_for_confident_answer
  Strategies,     \* retrieval_strategy
  Listed,         \* ids the model may list when it reranks
  Sentences,      \* sentences the model may write
  Computed,       \* literals among the scores and their explanations
  ToolFacts       \* literals a tool's answer on a region adds to them

ASSUME LimitsAssumption ==
  /\ MaxExplained \in Nat /\ MaxExplained >= 2
  /\ 4 * MaxExplained + 3 <= Budget
  /\ EvidenceLimit \in Nat /\ MinEvidence \in Nat
  /\ Strategies \subseteq {"vector", "keyword", "hybrid", "hybrid_rerank"}
  /\ \A listed \in Listed : listed \in Seq(Nat)

ASSUME RegionsAssumption == \A table \in Tables : IsFiniteSet(table) /\ table \subseteq DOMAIN Regions

ASSUME TripsAssumption ==
  \A q \in Requests :
    /\ q.trip.regional \in Nat /\ q.trip.total \in Nat
    /\ q.trip.pace \in DOMAIN PaceTolerance
    /\ q.trip.driving \in {"no_car", "willing", "prefers_car", "unknown"}
    /\ q.trip.interests \in Seq(STRING)
    /\ q.trip = [field \in DOMAIN q.trip |-> q.trip[field]] /\ "regional" \in DOMAIN q.trip

Nowhere == 0

UnknownId == 0

EmptyState ==
  [assumed |-> {}, regions |-> {}, memory |-> {}, candidates |-> <<>>, rejected |-> <<>>, facts |-> {}, retrieved |-> <<>>,
   evidence |-> <<>>, hostile |-> FALSE, writer |-> "none", explanations |-> <<>>, gaps |-> {}, conflicts |-> {},
   report |-> NoReport, task |-> FALSE, status |-> "running", result |-> None]

Init ==
  /\ node = "parse_trip_context"
  /\ used = 0 /\ faults = 0
  /\ request \in Requests
  /\ disputes \in {OpenConflicts(queue) : queue \in Queues}
  /\ state = EmptyState

(***************************************************************************)
(* The regions and their ranking.                                          *)
(***************************************************************************)
\* What the trip does not say is assumed, and said to be.
Assumed(trip) ==
  (IF trip.regional = 0 THEN {"nights"} ELSE {}) \cup (IF trip.month = 0 THEN {"dates"} ELSE {})
    \cup (IF trip.driving = "unknown" THEN {"driving"} ELSE {})

ParseTripContext ==
  /\ Step("parse_trip_context", "load_memory", 0, 0)
  /\ state' = [state EXCEPT !.assumed = Assumed(request.trip)]

\* Without an answer the trip has no memory.
LoadMemory ==
  \E answered \in BOOLEAN :
    IF request.tripId
    THEN /\ Step("load_memory", "retrieve_region_candidates", 1, Failed(answered))
         /\ state' = [state EXCEPT !.memory = IF answered THEN request.rejected ELSE {}]
    ELSE answered /\ Step("load_memory", "retrieve_region_candidates", 0, 0) /\ UNCHANGED state

RetrieveRegionCandidates ==
  /\ Step("retrieve_region_candidates", "apply_hard_constraints", 0, 0)
  /\ \E table \in Tables : state' = [state EXCEPT !.regions = table]

Fails(r) == Eliminated(Regions[r], request.trip)

\* What was rejected before is forgotten.
FailsNow(r) == Fails(r)

RuledOut(r) == r \in state.memory \/ Fails(r)

\* What was rejected before is taken off the list.
ApplyHardConstraintsForgetting ==
  /\ Step("apply_hard_constraints", "call_travel_tools", 0, 0)
  /\ \E ranked \in {RankRegions(state.regions \ state.memory, request.trip)} :
       LET out == {i \in DOMAIN ranked : Fails(ranked[i])}
       IN  state' = [state EXCEPT !.candidates = AtPositions(ranked, DOMAIN ranked \ out),
                                  !.rejected = AtPositions(ranked, out)]

\* The ranking is split in what stays and what is ruled out.
ApplyHardConstraints ==
  /\ Step("apply_hard_constraints", "call_travel_tools", 0, 0)
  /\ \E ranked \in {RankRegions(state.regions, request.trip)} :
       LET out == {i \in DOMAIN ranked : RuledOut(ranked[i])}
       IN  state' = [state EXCEPT !.candidates = AtPositions(ranked, DOMAIN ranked \ out),
                                  !.rejected = AtPositions(ranked, out)]

(***************************************************************************)
(* Facts and evidence on the shortlist.                                    *)
(***************************************************************************)
\* All that were ruled out are looked up.
WideShortlist ==
  IF state.candidates # <<>> THEN FirstOnes(state.candidates, MaxExplained + 2) ELSE state.rejected

Shortlist ==
  IF state.candidates # <<>> THEN FirstOnes(state.candidates, MaxExplained) ELSE FirstOnes(state.rejected, 2)

\* search_transport, get_weather_context when the month is known, and
\* get_booking_requirements
ToolsAsked == {"transport", "booking"} \cup (IF request.trip.month = 0 THEN {} ELSE {"weather"})

CallTravelTools ==
  LET calls == Range(Shortlist) \X ToolsAsked
  IN  \E failing \in Failures(calls) :
        /\ Step("call_travel_tools", "retrieve_verified_evidence", Cardinality(calls), Cardinality(failing))
        /\ state' = [state EXCEPT !.facts = {r \in Range(Shortlist) : <<r, "transport">> \notin failing}]

OnRegion(r) ==
  [regions |-> {r}, places |-> {}, topics |-> {}, official |-> FALSE, month |-> request.trip.month]

\* One search per region; a search that fails leaves nothing, not even a gap.
RetrieveVerifiedEvidence ==
  \E failing \in Failures(DOMAIN Shortlist), strategy \in Strategies, listed \in Listed :
    /\ strategy = "hybrid_rerank" \/ listed = <<>>
    /\ Step("retrieve_verified_evidence", "rerank_evidence", Len(Shortlist), Cardinality(failing))
    /\ \E found \in {FlattenSeq(Listing(Len(Shortlist), LAMBDA k :
                       IF k \in failing THEN <<>>
                       ELSE Search(OnRegion(Shortlist[k]), EvidenceLimit, SearchBudget, strategy, listed)))} :
         state' = [state EXCEPT !.retrieved = found]

\* The chunks of all the regions are assembled anew, in the order of the regions.
RerankEvidence ==
  /\ Step("rerank_evidence", "compare_candidates", 0, 0)
  /\ \E context \in {Assemble(state.retrieved, ContextBudget)} :
       state' = [state EXCEPT !.evidence = context,
                              !.hostile = \E c \in Range(state.retrieved) : Hostile(c)]

(***************************************************************************)
(* The comparison and what is checked of it.                               *)
(***************************************************************************)
Explained == Range(FirstOnes(state.candidates, MaxExplained)) \cup Range(FirstOnes(state.rejected, 2))

Cited(explanations) == UNION {explanations[r].cited : r \in DOMAIN explanations}

Headlines(explanations) == {explanations[r].headline : r \in DOMAIN explanations}

Written(explanations) == UNION {explanations[r].sentences : r \in DOMAIN explanations}

\* The deterministic stand-in quotes the first evidence of each region and cites
\* what it quotes; all else it writes restates scores.
Quoted(r) ==
  LET of == {i \in DOMAIN state.evidence : state.evidence[i].region = r}
  IN  Range(FirstOnes(AtPositions(state.evidence, of), 2))

StandInExplanation(r) ==
  [headline |-> <<>>, sentences |-> {SetToSeq(c.literals) : c \in Quoted(r)}, cited |-> Ids(Quoted(r))]

CompareCandidates ==
  \/ /\ Explained = {}
     /\ Step("compare_candidates", "grounding_check", 0, 0)
     /\ state' = [state EXCEPT !.gaps = @ \cup {"regions"}]
  \/ /\ Explained # {}
     /\ Step("compare_candidates", "grounding_check", 0, 0)
     /\ \E told \in {Explained, state.regions, {Nowhere}}, headline \in Sentences, sentences \in SUBSET Sentences,
           cited \in {{}, Ids(Range(state.evidence)), Ids(Range(state.evidence)) \cup {UnknownId}} :
          state' = [state EXCEPT !.writer = "model", !.explanations =
                      [r \in told |-> [headline |-> headline, sentences |-> sentences, cited |-> cited]]]
  \/ /\ Explained # {}
     /\ Step("compare_candidates", "grounding_check", 0, 0)
     /\ state' = [state EXCEPT !.writer = "stand_in",
                               !.explanations = [r \in Explained |-> StandInExplanation(r)]]
  \/ /\ Explained # {}
     /\ Step("compare_candidates", "grounding_check", 0, 1)
     /\ UNCHANGED state

\* A conflict matters when it is about the hub of a region, whatever became of
\* the region, or is over a chunk in the context.
Relevant ==
  {d \in disputes : \/ \E r \in state.regions : d.subject = Regions[r].hub
                    \/ d.evidence \cap Ids(Range(state.evidence)) # {}}

\* It holds the answer back only when the answer leans on it.
LeansOn(conflicts) == \E d \in conflicts : d.evidence \cap Cited(state.explanations) # {}

AsEvidence(list) == {Chunk(c.id, c.literals, StaleCritical(c)) : c \in Range(list)}

DraftThatIs(disputed) ==
  [blocks   |-> Headlines(state.explanations) \cup Written(state.explanations),
   cited    |-> Cited(state.explanations),
   evidence |-> AsEvidence(state.evidence),
   computed |-> Computed \cup UNION {ToolFacts[r] : r \in state.facts},
   hostile  |-> state.hostile,
   floor    |-> MinEvidence,
   disputed |-> disputed,
   gaps     |-> state.gaps]

\* Any conflict around holds the answer back.
DraftAmong(conflicts) == DraftThatIs(conflicts # {})

Draft(conflicts) == DraftThatIs(LeansOn(conflicts))

GroundingCheck ==
  \E answered \in BOOLEAN :
    LET conflicts == IF answered THEN Relevant ELSE {}
    IN  /\ Step("grounding_check", "confidence_check", 1, Failed(answered))
        /\ state' = [state EXCEPT !.conflicts = conflicts, !.report = Report(Draft(conflicts))]

ConfidenceCheck ==
  LET held == NeedsHuman(state.report)
  IN  /\ Step("confidence_check", IF held THEN "human_review" ELSE "answer", 0, 0)
      /\ state' = [state EXCEPT !.status = IF held THEN "needs_human_review" ELSE "complete"]

\* The task may fail to be created: the answer is held back all the same.
HumanReview ==
  \E answered \in BOOLEAN :
    /\ Step("human_review", "answer", 1, Failed(answered))
    /\ state' = [state EXCEPT !.task = answered]

(***************************************************************************)
(* The answer: an entry is built for every region, and what any of them    *)
(* cites is cited by the answer. The first candidate is recommended, the   *)
(* next are its alternatives, and those after the MaxExplained first are   *)
(* in no list of the answer. A sentence with an unsupported claim is left  *)
(* out, unless it is a headline, and so is a citation of what is not in    *)
(* the context.                                                            *)
(***************************************************************************)
Built == Range(state.candidates) \cup Range(state.rejected)

Shown == Range(FirstOnes(state.candidates, MaxExplained)) \cup Range(state.rejected)

Telling(regions) == [r \in regions \cap DOMAIN state.explanations |-> state.explanations[r]]

Kept(sentences) == {s \in sentences : Range(s) \cap state.report.stripped = {}}

\* The fact sheet: what is said of the recommended region and of the rejected ones
FactSheet ==
  LET best == Range(FirstOnes(state.candidates, 1)) \cup Range(state.rejected)
  IN  Facts(Computed \cup Literals(Kept(Written(Telling(best)))),
            state.conflicts # {} \/ state.status = "needs_human_review",
            state.report.confidence = Low \/ Explained = {})

\* The regions of the route a comparison may have come with: a route in the first
\* candidate, which the stand-in is never given the stops of.
FinalRoutes == {{}} \cup (IF state.writer = "model" THEN {Range(FirstOnes(state.candidates, 1))} ELSE {})

Answer ==
  /\ Step("answer", "done", 0, 0)
  /\ \E closing \in FinalExplanations(Sentences, FactSheet), route \in FinalRoutes :
       state' = [state EXCEPT !.result =
         [recommended  |-> Range(FirstOnes(state.candidates, 1)),
          alternatives |-> Range(FirstOnes(state.candidates, MaxExplained)) \ Range(FirstOnes(state.candidates, 1)),
          rejected     |-> Range(state.rejected),
          route        |-> route,
          assumed      |-> state.assumed,
          headlines    |-> Headlines(Telling(Shown)),
          sentences    |-> Kept(Written(Telling(Shown))),
          citations    |-> Cited(Telling(Built)) \cap Ids(Range(state.evidence)),
          confidence   |-> state.report.confidence,
          status       |-> state.status,
          closing      |-> closing]]

Next ==
  \/ ParseTripContext \/ LoadMemory \/ RetrieveRegionCandidates \/ ApplyHardConstraints
  \/ CallTravelTools \/ RetrieveVerifiedEvidence \/ RerankEvidence \/ CompareCandidates \/ GroundingCheck
  \/ ConfidenceCheck \/ HumanReview \/ Answer \/ Done

Spec == Init /\ [][Next]_vars

(***************************************************************************)
(* Properties.                                                             *)
(***************************************************************************)
\* The state between two nodes is what the nodes read and write: each region
\* of the table is ranked once, as a candidate or as rejected, and has an entry.
TypeOK ==
  /\ used \in Nat /\ faults \in 0..MaxFaults
  /\ Len(state.candidates) + Len(state.rejected) \in {0, Cardinality(state.regions)}
  /\ node = "done" => Built = state.regions
  /\ state.report.confidence \in Confidences
  /\ state.status \in {"running", "complete", "needs_human_review"}

\* What the trip rejected before, or what fails a hard constraint, is neither
\* recommended nor an alternative, as long as the memory could be read
\* (nodes.py load_memory, apply_hard_constraints).
RuledOutStaysOut ==
  state.result # None =>
    \A r \in state.result.recommended \cup state.result.alternatives : r \notin state.memory /\ ~Fails(r)

\* An answer that leans on a fact it knows to be disputed, or tells what nothing
\* supports, waits for a human, and its closing summary says so whoever wrote it; one
\* for which a dispute is but a caveat does not wait for it; and what the stand-in
\* writes is always supported (nodes.py grounding_check, explanation.py, llm.py DemoLLMProvider).
HeldForAReason ==
  state.result # None =>
    /\ LeansOn(state.conflicts) => state.result.status = "needs_human_review" /\ state.result.confidence < High
    /\ state.result.status = "needs_human_review" /\ ~LeansOn(state.conflicts) => state.report.findings # {}
    /\ state.result.status = "needs_human_review" => state.result.closing.caveats
    /\ state.writer = "stand_in" => state.report.findings \cap {"G1", "G2"} = {}

\* An answer of high confidence ranked some regions, has enough evidence and
\* leans on no dispute it knows of (guardrails.py G4, G7, config min_evidence). The
\* evidence counted may be about other regions than the one recommended.
ConfidentOnlyWithEvidence ==
  state.result # None /\ state.result.confidence = High =>
    /\ state.regions # {}
    /\ Len(state.evidence) >= MinEvidence
    /\ ~LeansOn(state.conflicts)

\* All evidence an answer can cite is about a region that was short-listed, holds
\* in the month of the trip, is told once and would not be quarantined: it matches no
\* critical injection pattern and no two patterns of any kind. A chunk that matches a
\* single lesser one may be cited (rag.py run, context.py assemble_evidence_context,
\* injection.py scan_for_injection).
EvidenceFitsTheTrip ==
  /\ \A c \in Range(state.evidence) :
       /\ c.region \in Range(Shortlist)
       /\ request.trip.month = 0 \/ c.months = {} \/ request.trip.month \in c.months
       /\ c.flags \cap CriticalRules = {}
       /\ ~(Cardinality(c.flags) >= 2)
  /\ \A i, j \in DOMAIN state.evidence : i # j => ~SaysTheSame(state.evidence[i], state.evidence[j])
  /\ state.result # None => state.result.citations \subseteq Ids(Range(state.evidence))

\* A longer stay never rules a region out (scoring.py evaluate_hard_constraints).
LongerStay(trip) == [trip EXCEPT !.regional = EffectiveNights(trip) + 1]

LongerStaysKeepTheirRegions ==
  \A r \in state.regions :
    HardFailures(Regions[r], LongerStay(request.trip)) \subseteq HardFailures(Regions[r], request.trip)
=============================================================================
