--------------------------- MODULE RouteRevision ---------------------------
(***************************************************************************)
(* The deterministic revisions of a route (domain/revision.py): structural *)
(* transformations of the traveller's own stops, each scored on its travel *)
(* time per night and the stops it drops.                                  *)
(*                                                                         *)
(* A candidate is a record: strategy, its stops, and the places dropped.   *)
(***************************************************************************)
EXTENDS RouteRules, SequencesExt

DropPenalty == 35     \* hundredths of an hour per night
Margin005 == 5
TopForPairs == 4
MaxCandidates == 8
MinKeptStops == 2

InboundMinutes(route, i) ==
  SumFunctionOnSet(LegMinutes(route), {k \in DOMAIN route.segments : route.segments[k].to = i})

OutboundMinutes(route, i) ==
  SumFunctionOnSet(LegMinutes(route), {k \in DOMAIN route.segments : route.segments[k].from = i})

\* Travel in and out of each stop, and whether it is less per night (at least
\* one) at stop i than at stop j: _burden_ratio.
TravelAt(route) ==
  Listing(Len(route.stops), LAMBDA i : InboundMinutes(route, i) + OutboundMinutes(route, i))

LessBurden(stops, travel, i, j) ==
  travel[i] * AtLeastOne(stops[j].nights) < travel[j] * AtLeastOne(stops[i].nights)

\* Tenths of a minute of the estimated leg around a stop, in three speed bands.
Bypass(km) == 350 + (CASE km <= 120 -> 10 * km [] km > 120 /\ km <= 600 -> 5 * km [] OTHER -> 4 * km)

Interior(stops) == 2..(Len(stops) - 1)

MarginalSaving(route, i) ==
  IF i \notin Interior(route.stops) THEN 0
  ELSE 10 * (InboundMinutes(route, i) + OutboundMinutes(route, i))
         - Bypass(Km[route.stops[i - 1].place][route.stops[i + 1].place])

\* The stops that can be dropped: overnight, not first, not last.
OvernightIndices(stops) == {i \in Interior(stops) : stops[i].nights > 0}

MaxDroppable(stops) == Cardinality(OvernightIndices(stops)) \div 2

Candidate(strategy, stops, dropped) ==
  [strategy |-> strategy, stops |-> stops, dropped |-> dropped]

\* The kept stops, in order, with the nights given.
Kept(stops, dropped, nights) ==
  LET order == InOrder(DOMAIN stops \ dropped)
  IN  Listing(Len(order), LAMBDA k : [place |-> stops[order[k]].place, nights |-> nights[order[k]]])

PlacesAt(stops, indices) ==
  LET order == InOrder(indices) 
  IN  Listing(Len(order), LAMBDA k : stops[order[k]].place)

(***************************************************************************)
(* _drop_stops: the nights of the dropped stops go, one at a time, to the  *)
(* remaining interior stop with the fewest nights then, the least burden,  *)
(* the first.                                                              *)
(***************************************************************************)
Recipients(stops, dropped) ==
  LET keep == {i \in DOMAIN stops \ dropped : stops[i].nights > 0}
      interior == keep \cap Interior(stops)
  IN  IF interior # {} THEN interior ELSE keep

\* Stop i with v nights is given one before stop j with w nights.
GivenBefore(stops, travel, i, v, j, w) ==
  \/ v < w
  \/ v = w /\ (LessBurden(stops, travel, i, j) \/ (~LessBurden(stops, travel, j, i) /\ i < j))

\* A night is given to stop i when it has v of them, if fewer than the orphaned
\* nights are given before it.
DropNights(route, dropped) ==
  LET stops == route.stops
      travel == TravelAt(route)
      recipients == Recipients(stops, dropped)
      orphans == SumFunctionOnSet(NightsOf(stops), dropped)
      most == TotalNights(stops)
      gifts == {g \in recipients \X (1..most) : g[2] >= stops[g[1]].nights}
      Given(g) == Cardinality({h \in gifts : GivenBefore(stops, travel, h[1], h[2], g[1], g[2])}) < orphans
  IN  Listing(Len(stops), LAMBDA i : stops[i].nights + Cardinality({g \in gifts : g[1] = i /\ Given(g)}))

\* The same, with the nights of the dropped stops forgotten.
DropStopsAndNights(route, strategy, dropped) ==
  IF Cardinality(DOMAIN route.stops \ dropped) < MinKeptStops THEN <<>>
  ELSE <<Candidate(strategy, Kept(route.stops, dropped, NightsOf(route.stops)),
                   PlacesAt(route.stops, dropped))>>

DropStops(route, strategy, dropped) ==
  IF Cardinality(DOMAIN route.stops \ dropped) < MinKeptStops THEN <<>>
  ELSE <<Candidate(strategy, Kept(route.stops, dropped, DropNights(route, dropped)),
                   PlacesAt(route.stops, dropped))>>

(***************************************************************************)
(* _consolidate_one_nighters: each run of single nights is folded into the *)
(* stop of it with the least burden.                                       *)
(***************************************************************************)
Single(stops, i) == i \in Interior(stops) /\ stops[i].nights = 1

Runs(stops) ==
  {run \in {a .. b : a, b \in Interior(stops)} :
     /\ Cardinality(run) >= 2
     /\ \A i \in run : Single(stops, i)
     /\ ~Single(stops, Min(run) - 1) /\ ~Single(stops, Max(run) + 1)}

Base(route, run) ==
  LET travel == TravelAt(route)
      less(i, j) == LessBurden(route.stops, travel, i, j)
  IN  Least(run, LAMBDA i, j : less(i, j) \/ (~less(j, i) /\ i < j))

Consolidate(route, limit) ==
  LET runs == Runs(route.stops)
      dropped == UNION {run \ {Base(route, run)} : run \in runs}
      mine(i) == {run \in runs : i = Base(route, run)}
      nights == Listing(Len(route.stops), LAMBDA i :
                  route.stops[i].nights + (IF mine(i) = {} THEN 0 ELSE Cardinality(UNION mine(i)) - 1))
  IN  IF runs = {} \/ Cardinality(dropped) > limit THEN <<>>
      ELSE <<Candidate(<<"consolidate">>, Kept(route.stops, dropped, nights),
                       PlacesAt(route.stops, dropped))>>

(***************************************************************************)
(* _reorder_for_efficiency: the nearest neighbour next, endpoints pinned.  *)
(***************************************************************************)
Nearer(stops, here, i, j) ==
  LET km == Km[stops[here].place]
  IN  \/ km[stops[i].place] < km[stops[j].place]
      \/ km[stops[i].place] = km[stops[j].place] /\ i < j

\* Each next stop is the nearest of those that are left.
NearestFirst(stops) ==
  LET next == CHOOSE next \in Bijection(Interior(stops), Interior(stops)) :
                \A k, j \in Interior(stops) :
                  k < j => Nearer(stops, IF k = 2 THEN 1 ELSE next[k - 1], next[k], next[j])
  IN  Listing(Len(stops), LAMBDA k : IF k \in Interior(stops) THEN next[k] ELSE k)

Reorder(route) ==
  LET stops == route.stops
      order == NearestFirst(stops)
  IN  IF Len(stops) < 4 \/ \A i \in DOMAIN stops : order[i] = i THEN <<>>
      ELSE <<Candidate(<<"reorder">>, Listing(Len(stops), LAMBDA i : stops[order[i]]), <<>>)>>

(***************************************************************************)
(* generate_candidates.                                                    *)
(***************************************************************************)
Ranked(route, droppable) ==
  Sorted(droppable, LAMBDA i, j :
    \/ MarginalSaving(route, i) > MarginalSaving(route, j)
    \/ MarginalSaving(route, i) = MarginalSaving(route, j) /\ i < j)

\* A strategy is named after the places it drops.
SingleDrops(route, top) ==
  FlattenSeq(Listing(Len(top), LAMBDA k :
    DropStops(route, <<"drop", route.stops[top[k]].place>>, {top[k]})))

PairDrops(route, top) ==
  LET pairs == Sorted({p \in (DOMAIN top) \X (DOMAIN top) : p[1] < p[2]},
                            LAMBDA p, q : p[1] < q[1] \/ (p[1] = q[1] /\ p[2] < q[2]))
      at(p, side) == top[p[side]]
  IN  FlattenSeq(Listing(Len(pairs), LAMBDA k :
        DropStops(route, <<"drop", route.stops[at(pairs[k], 1)].place, route.stops[at(pairs[k], 2)].place>>,
                  {at(pairs[k], 1), at(pairs[k], 2)})))

\* Structurally identical candidates keep their first strategy.
Unique(candidates) ==
  LET first == InOrder({k \in DOMAIN candidates :
                          \A j \in 1..(k - 1) : candidates[j].stops # candidates[k].stops})
  IN  Listing(Len(first), LAMBDA k : candidates[first[k]])

GenerateCandidates(route, backtracking) ==
  LET stops == route.stops
      limit == MaxDroppable(stops)
      top   == FirstOnes(Ranked(route, OvernightIndices(stops)), TopForPairs)
  IN  FirstOnes(Unique((IF limit >= 1 THEN SingleDrops(route, top) ELSE <<>>)
                       \o (IF limit >= 2 THEN PairDrops(route, top) ELSE <<>>)
                       \o Consolidate(route, limit)
                       \o (IF backtracking THEN Reorder(route) ELSE <<>>)),
                MaxCandidates)

(***************************************************************************)
(* score_candidate and choose_best, over candidates costed with real       *)
(* transport data; a costed candidate also has its load.                   *)
(***************************************************************************)
Objective(costed) == costed.load.perNight + DropPenalty * Len(costed.dropped)

\* Ties on the objective and the stops dropped fall to the name of the strategy.
Bests(costed) ==
  {c \in costed : \A d \in costed :
     \/ Objective(c) < Objective(d)
     \/ Objective(c) = Objective(d) /\ Len(c.dropped) <= Len(d.dropped)}

Improves(c, route) == Objective(c) < TravelLoad(route).perNight - Margin005

\* The honest answer is forgotten: the best one, however little it gains.
ChooseAny(costed, route) == Bests(costed)

ChooseBest(costed, route) == {c \in Bests(costed) : Improves(c, route)}
=============================================================================
