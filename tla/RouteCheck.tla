----------------------------- MODULE RouteCheck -----------------------------
(***************************************************************************)
(* The route_check graph: one action per node, in the order of the graph,  *)
(* over the state the nodes hand on (agents/route_check).                  *)
(*                                                                         *)
(* A request says how the itinerary came (as stops or as text), its stops, *)
(* whether it belongs to a trip and the preferences. A stop is a record    *)
(* [place, nights, match]: match is how its name is found in the catalogue *)
(* ("exact" also for a name that contains it), and place is the near miss  *)
(* of a "fuzzy" one. Of a text, the stops are what a live model extracts.  *)
(***************************************************************************)
EXTENDS RouteRevision, ClosingSummary, ItineraryText, AgentRun

CONSTANTS
  Requests,
  MaxStops,               \* stops read of an itinerary
  MaxRevisionCandidates,  \* candidates costed
  BookingPlaces,          \* places a booking look-up is asked for
  EvidencePlaces,         \* most places an evidence search accepts
  Closed,                 \* places with something closed in the month
  LongLead,               \* places that need booking 60 days ahead
  Verifications,          \* the verification records
  StatusLimit,            \* most records told of them
  EvidenceOf,             \* the evidence on each place
  Blocks,                 \* prose the model may write
  Computed                \* literals among the deterministic values

ASSUME RequestsAssumption ==
  \A r \in Requests :
    /\ r.stops \in Seq([place : Places, nights : Nat, match : {"exact", "fuzzy", "unknown"}])
    /\ r.from \in {"stops", "text"} /\ r.trip \in BOOLEAN
    /\ r.text \in Seq([phrase : STRING, place : STRING, match : STRING, a : Nat, b : Nat])
    /\ \A i \in DOMAIN r.text : NamesPlace(r.text[i]) /\ r.text[i].match = "exact" => r.text[i].place \in Places

ASSUME LimitsAssumption ==
  /\ MaxStops \in Nat /\ MaxRevisionCandidates \in Nat
  /\ MaxStops + MaxRevisionCandidates + 8 <= Budget
  /\ MaxStops <= MaxRead

EmptyState ==
  [reader |-> "none", stops |-> <<>>, resolved |-> <<>>, unresolved |-> {}, closed |-> {}, longLead |-> {}, stale |-> FALSE,
   legs |-> <<>>, evidence |-> {}, route |-> None, load |-> None, issues |-> {}, health |-> "healthy",
   candidates |-> <<>>, chosen |-> None, critique |-> None, gaps |-> {}, report |-> NoReport,
   conflicts |-> {}, task |-> FALSE, status |-> "running", result |-> None]

Init ==
  /\ node = "parse_itinerary"
  /\ used = 0 /\ faults = 0
  /\ request \in Requests
  /\ disputes \in {OpenConflicts(queue) : queue \in Queues}
  /\ state = EmptyState

AllowCar == ~request.prefs.publicOnly

(***************************************************************************)
(* Reading the itinerary and its places.                                   *)
(***************************************************************************)
\* Stops are taken as they come; a text is read by a model or by its stand-in.
Readings ==
  IF request.from = "stops" THEN {[by |-> "traveller", stops |-> request.stops]}
  ELSE {[by |-> "model", stops |-> request.stops], [by |-> "stand_in", stops |-> ReadStops(request.text)]}

\* Every stop of it, however many.
ParseItineraryWhole ==
  /\ Step("parse_itinerary", "resolve_places", 0, 0)
  /\ \E reading \in Readings : state' = [state EXCEPT !.reader = reading.by, !.stops = reading.stops]

ParseItinerary ==
  /\ Step("parse_itinerary", "resolve_places", 0, 0)
  /\ \E reading \in Readings :
       state' = [state EXCEPT !.reader = reading.by, !.stops = FirstOnes(reading.stops, MaxStops)]

TextNotRead ==
  /\ request.from = "text"
  /\ Step("parse_itinerary", "resolve_places", 0, 1)
  /\ state' = [state EXCEPT !.gaps = @ \cup {"text"}]

Stay(stop) == [place |-> stop.place, nights |-> stop.nights]

\* get_place_details, and which kinds of match are taken for the place itself
Resolves(stop, kinds) == stop.match \in kinds

\* Of each stop found, its stay; of the others, the told ones are passed on.
ResolveTo(failing, kinds, told) ==
  LET n     == Len(state.stops)
      found == {i \in 1..n : i \notin failing /\ Resolves(state.stops[i], kinds)}
      order == InOrder(found)
  IN  /\ Step("resolve_places", "load_trip_state", n, Cardinality(failing))
      /\ state' = [state EXCEPT !.resolved = [k \in DOMAIN order |-> Stay(state.stops[order[k]])],
                                !.unresolved = told \ found]

\* A near miss is accepted in place of the name written.
ResolvePlacesGuessing ==
  \E failing \in Failures(DOMAIN state.stops) : ResolveTo(failing, {"exact", "fuzzy"}, DOMAIN state.stops)

\* A stop whose call failed is nowhere.
ResolvePlacesForgetting ==
  \E failing \in Failures(DOMAIN state.stops) : ResolveTo(failing, {"exact"}, DOMAIN state.stops \ failing)

\* A near miss is a suggestion, never a resolution.
ResolvePlaces ==
  \E failing \in Failures(DOMAIN state.stops) : ResolveTo(failing, {"exact"}, DOMAIN state.stops)

\* What the trip remembers only reaches the prompts.
LoadTripState ==
  /\ \E answered \in BOOLEAN :
       IF request.trip THEN Step("load_trip_state", "retrieve_structured_facts", 1, Failed(answered))
                       ELSE answered /\ Step("load_trip_state", "retrieve_structured_facts", 0, 0)
  /\ UNCHANGED state

(***************************************************************************)
(* Facts, transport and evidence.                                          *)
(***************************************************************************)
PlacesOf(stops) == {stops[i].place : i \in DOMAIN stops}

\* get_booking_requirements, and what of it matters
BookingFacts(places) == [closed |-> places \cap Closed, longLead |-> places \cap LongLead]

RetrieveStructuredFacts ==
  IF state.resolved = <<>>
  THEN Step("retrieve_structured_facts", "call_transport_tools", 0, 0) /\ UNCHANGED state
  ELSE \E booking, verification \in BOOLEAN,
          stale \in {Outdated(told) # {} : told \in Entries(Verifications, StatusLimit)} :
         LET facts == BookingFacts(IF booking THEN PlacesOf(FirstOnes(state.resolved, BookingPlaces)) ELSE {})
         IN  /\ Step("retrieve_structured_facts", "call_transport_tools", 2,
                     Failed(booking) + Failed(verification))
             /\ state' = [state EXCEPT !.closed = facts.closed, !.longLead = facts.longLead,
                                       !.stale = verification /\ stale]

\* get_route_context
RouteContext(stops) == Segments(stops, AllowCar)

CallTransportTools ==
  IF Len(state.resolved) < 2
  THEN /\ Step("call_transport_tools", "retrieve_constraints", 0, 0)
       /\ state' = [state EXCEPT !.gaps = @ \cup {"segments"}]
  ELSE \E answered \in BOOLEAN :
         /\ Step("call_transport_tools", "retrieve_constraints", 1, Failed(answered))
         /\ state' = [state EXCEPT !.legs = IF answered THEN RouteContext(state.resolved) ELSE <<>>]

\* search_verified_evidence; a search that names too many places is refused.
EvidenceOn(stops) ==
  IF Len(stops) > EvidencePlaces THEN {} ELSE UNION {EvidenceOf[p] : p \in PlacesOf(stops)}

RetrieveConstraints ==
  IF state.resolved = <<>>
  THEN Step("retrieve_constraints", "run_deterministic_checks", 0, 0) /\ UNCHANGED state
  ELSE \E answered \in BOOLEAN :
         /\ Step("retrieve_constraints", "run_deterministic_checks", 1, Failed(answered))
         /\ state' = [state EXCEPT !.evidence = IF answered THEN EvidenceOn(state.resolved) ELSE {}]

(***************************************************************************)
(* The checks.                                                             *)
(***************************************************************************)
\* The legs in order, each taken for the next pair of stops.
RebuildRoute(stops, legs) ==
  [stops |-> stops,
   segments |-> [k \in 1..Cardinality((DOMAIN legs) \cap Hops(stops)) |->
                   [legs[k] EXCEPT !.from = k, !.to = k + 1]]]

\* check_route_constraints builds the route anew.
CheckedRoute(stops) ==
  LET route == BuildRoute(stops, AllowCar)
  IN  [issues |-> RunRules(route, request.prefs), load |-> TravelLoad(route)]

ChecksWithGap(gap) ==
  IF Len(state.resolved) < 2
  THEN Step("run_deterministic_checks", "detect_route_issues", 0, 0) /\ UNCHANGED state
  ELSE \E answered \in BOOLEAN :
         /\ Step("run_deterministic_checks", "detect_route_issues", 1, Failed(answered))
         /\ \E checked \in {CheckedRoute(state.resolved)} :
              state' = IF answered
                       THEN [state EXCEPT !.issues = checked.issues, !.load = checked.load,
                                          !.route = RebuildRoute(state.resolved, state.legs)]
                       ELSE [state EXCEPT !.gaps = @ \cup gap]

\* Without an answer of the rules, the analysis goes on as if they were silent.
RunDeterministicChecksSilently == ChecksWithGap({})

RunDeterministicChecks == ChecksWithGap({"rules"})

DetectedIssues ==
  state.issues
    \cup (IF state.closed # {} THEN {Issue("R20", "critical", 0)} ELSE {})
    \cup (IF state.longLead # {} THEN {Issue("R21", "warning", 0)} ELSE {})
    \cup (IF state.stale THEN {Issue("R22", "warning", 0)} ELSE {})
    \cup (IF state.unresolved # {} THEN {Issue("R23", "warning", 0)} ELSE {})

DetectRouteIssues ==
  /\ Step("detect_route_issues", "generate_candidate_fixes", 0, 0)
  /\ state' = [state EXCEPT !.issues = DetectedIssues, !.health = GradeHealth(DetectedIssues)]

(***************************************************************************)
(* The revisions: each candidate is costed by a call of its own, and the   *)
(* best of the costed ones is looked up by the name of its strategy.       *)
(***************************************************************************)
\* calculate_travel_load
LoadOf(stops) == TravelLoad(BuildRoute(stops, AllowCar))

Costed(candidates, answered) ==
  LET order == InOrder(answered)
  IN  Listing(Len(order), LAMBDA k :
         LET c == candidates[order[k]]
         IN  [strategy |-> c.strategy, stops |-> c.stops, dropped |-> c.dropped,
              load |-> LoadOf(c.stops)])

FirstNamed(costed, strategy) ==
  costed[Min({k \in DOMAIN costed : costed[k].strategy = strategy})]

ChosenAmong(costed, route) ==
  LET best == ChooseBest(Range(costed), route)
  IN  IF best = {} THEN {None} ELSE {FirstNamed(costed, b.strategy) : b \in best}

GenerateCandidateFixes ==
  IF state.route = None
  THEN Step("generate_candidate_fixes", "narrate_critique", 0, 0) /\ UNCHANGED state
  ELSE \E candidates \in {GenerateCandidates(state.route, \E i \in state.issues : i.rule = "R03")} :
         LET asked == {k \in 1..MaxRevisionCandidates : k \in DOMAIN candidates}
         IN  \E failing \in Failures(asked) :
               /\ Step("generate_candidate_fixes", "narrate_critique", Cardinality(asked), Cardinality(failing))
               /\ \E costed \in {Costed(candidates, asked \ failing)} :
                    \E chosen \in ChosenAmong(costed, state.route) :
                      state' = [state EXCEPT !.candidates = costed, !.chosen = chosen]

(***************************************************************************)
(* The narration and what is checked of it.                                *)
(***************************************************************************)
Invented == <<"invented">>

NoCritique == [summary |-> <<>>, narrative |-> <<>>, cited |-> {}, revised |-> <<>>]

\* The model may only return a revision it was given.
KeptRevision(proposed) ==
  IF proposed = <<>> \/ proposed \in {state.candidates[k].stops : k \in DOMAIN state.candidates}
  THEN proposed ELSE IF state.chosen = None THEN <<>> ELSE state.chosen.stops

NarrateCritique ==
  \/ /\ Step("narrate_critique", "grounding_check", 0, 0)
     /\ \E summary, narrative \in Blocks,
           cited \in {{}, Ids(state.evidence), Ids(state.evidence) \cup {"unknown"}},
           proposed \in {<<>>, Invented} :
          state' = [state EXCEPT !.critique = [summary |-> summary, narrative |-> narrative, cited |-> cited,
                                               revised |-> KeptRevision(proposed)]]
  \/ /\ Step("narrate_critique", "grounding_check", 0, 1)
     /\ state' = [state EXCEPT !.critique = NoCritique]

\* Only the conflicts this analysis depends on.
Relevant ==
  {d \in disputes : d.subject \in PlacesOf(state.resolved) \/ d.evidence \cap Ids(state.evidence) # {}}

\* Nothing is hostile: the snippets are parts of texts that passed the quarantine of
\* the search (rag.py run), so that the one of retrieve_constraints finds no more.
Draft(conflicts) ==
  [blocks   |-> {state.critique.summary, state.critique.narrative},
   cited    |-> state.critique.cited,
   evidence |-> state.evidence,
   computed |-> IF state.load # None \/ state.legs # <<>> THEN Computed ELSE {},
   hostile  |-> FALSE,
   floor    |-> 1,
   disputed |-> conflicts # {},
   gaps     |-> state.gaps]

GroundingCheck ==
  \E answered \in BOOLEAN :
    LET conflicts == IF answered THEN Relevant ELSE {}
    IN  /\ Step("grounding_check", "confidence_check", 1, Failed(answered))
        /\ state' = [state EXCEPT !.conflicts = conflicts, !.report = Report(Draft(conflicts))]

ConfidenceCheck ==
  LET held == NeedsHuman(state.report)
  IN  /\ Step("confidence_check", IF held THEN "human_review" ELSE "result", 0, 0)
      /\ state' = [state EXCEPT !.status = IF held THEN "needs_human_review" ELSE "complete"]

\* The task may fail to be created: the analysis is held back all the same.
HumanReview ==
  \E answered \in BOOLEAN :
    /\ Step("human_review", "result", 1, Failed(answered))
    /\ state' = [state EXCEPT !.task = answered]

(***************************************************************************)
(* The result. A narrative with a stripped claim falls back to the text of *)
(* the rule.                                                               *)
(***************************************************************************)
ShownNarrative ==
  IF Range(state.critique.narrative) \cap state.report.stripped # {} THEN <<>> ELSE state.critique.narrative

\* The fact sheet of the closing summary: issues and changes of the route
FactSheet ==
  Facts(Computed, state.conflicts # {} \/ state.status = "needs_human_review",
        state.report.confidence = Low \/ state.unresolved # {})

Result ==
  /\ Step("result", "done", 0, 0)
  /\ \E closing \in FinalExplanations(Blocks, FactSheet) :
       state' = [state EXCEPT !.result =
                   [health |-> state.health, summary |-> state.critique.summary, narrative |-> ShownNarrative,
                    issues |-> state.issues, unresolved |-> state.unresolved, revised |-> state.chosen,
                    confidence |-> state.report.confidence, status |-> state.status, closing |-> closing]]

Next ==
  \/ ParseItinerary \/ TextNotRead \/ ResolvePlaces \/ LoadTripState \/ RetrieveStructuredFacts
  \/ CallTransportTools \/ RetrieveConstraints \/ RunDeterministicChecks \/ DetectRouteIssues
  \/ GenerateCandidateFixes \/ NarrateCritique \/ GroundingCheck \/ ConfidenceCheck \/ HumanReview
  \/ Result \/ Done

Spec == Init /\ [][Next]_vars

(***************************************************************************)
(* Properties.                                                             *)
(***************************************************************************)
\* The state between two nodes is what the nodes read and write.
TypeOK ==
  /\ used \in Nat /\ faults \in 0..MaxFaults
  /\ Len(state.resolved) + Cardinality(state.unresolved) \in {0, Len(state.stops)}
  /\ \A i \in state.issues : i.severity \in {"critical", "warning", "good"}
  /\ state.report.confidence \in Confidences
  /\ state.status \in {"running", "complete", "needs_human_review"}

\* A revision is still the trip that was asked for: the same nights in all, the
\* same first and last stop, no stop that was not on the route, and at least
\* half of the overnight stops in between (domain/revision.py).
RevisionKeepsTheTrip ==
  state.chosen # None =>
    LET old == state.route.stops
        new == state.chosen.stops
    IN  /\ TotalNights(new) = TotalNights(old)
        /\ Head(new).place = Head(old).place /\ new[Len(new)].place = old[Len(old)].place
        /\ PlacesOf(new) \subseteq PlacesOf(old)
        /\ 2 * (Len(old) - Len(new)) <= Cardinality(OvernightIndices(old))

\* The revision shown is better than the route by the margin, or none is shown
\* (domain/revision.py choose_best).
RevisionImproves == state.chosen # None => Improves(state.chosen, state.route)

\* It is, for every route that stays at no place twice.
VisitedOnce(stops) == Cardinality(PlacesOf(stops)) = Len(stops)

RevisionImprovesPlainRoutes ==
  state.chosen # None /\ VisitedOnce(state.route.stops) => Improves(state.chosen, state.route)

\* Every place an itinerary names is accounted for. What the stand-in reads of a
\* text misses none, and ends where the text ends, up to the stops that are read;
\* a name that is not found for certain is never travelled through, and the
\* traveller is told of it; a route with one is not graded healthy
\* (llm.py _demo_extracted_itinerary, nodes.py resolve_places).
StopsAreAccountedFor ==
  /\ state.reader = "stand_in" /\ Len(state.stops) < MaxStops /\ Turns(request.text) # {} =>
       /\ \A i \in Turns(request.text) : request.text[i].place \in PlacesOf(state.stops)
       /\ state.stops[Len(state.stops)].place = request.text[Max(Turns(request.text))].place
  /\ state.route # None =>
       PlacesOf(state.route.stops) \subseteq
         {s.place : s \in {t \in Range(state.stops) : t.match = "exact"}}
  /\ state.result # None =>
       /\ \A i \in DOMAIN state.stops : state.stops[i].match # "exact" => i \in state.result.unresolved
       /\ state.result.unresolved # {} => state.result.health # "healthy"

\* An answer of high confidence was checked as far as a gap is recorded when it was
\* not: its stops could be costed, the rules answered, evidence was found, and it
\* depends on no conflict known to it. When the conflicts, the booking rules, the
\* state of the facts or the legs could not be had, nothing records it
\* (agents/common/state.py analysis_gaps, guardrails.py G7).
ConfidentOnlyWhenChecked ==
  state.result # None /\ state.result.confidence = High =>
    /\ state.route # None /\ state.load # None
    /\ state.evidence # {} /\ state.conflicts = {}

\* An analysis that depends on a conflict known to it is not handed out as complete,
\* also when no task could be created for it, and its closing summary has a caveat,
\* whoever wrote it (nodes.py make_human_review, explanation.py _violation). One
\* whose get_verification_status failed knows of none (nodes.py _detect_conflicts).
DisputedRoutesWait ==
  state.result # None /\ state.conflicts # {} =>
    /\ state.result.status = "needs_human_review" /\ state.result.confidence < High
    /\ state.result.closing.caveats
=============================================================================
