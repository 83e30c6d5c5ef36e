--------------------------- MODULE RegionScoring ----------------------------
(***************************************************************************)
(* How well a region fits a trip: the constraints that rule it out, the    *)
(* seven components of its score and the ranking (domain/scoring.py,       *)
(* trip.py, region.py).                                                    *)
(*                                                                         *)
(* Scores of a profile and weights are hundredths, hours of a transfer are *)
(* tenths, the value of a component and a share are ten-thousandths. An    *)
(* unknown number of nights or month of a trip is 0; a traveller has been  *)
(* to a region when a name of it is among the visited places. The cities   *)
(* of a trip are names of gateways: that access_from also takes a name     *)
(* that contains one, or is a part of one, is left out.                    *)
(***************************************************************************)
EXTENDS Orders, Rounding, FiniteSetsExt, Functions

CONSTANT Regions   \* the profiles, in the order of their codes

\* The columns the scoring reads (region.py RegionProfile)
ASSUME ProfilesAssumption ==
  /\ DOMAIN Regions \subseteq Nat
  /\ \A r \in DOMAIN Regions :
       /\ {Regions[r].minNights, Regions[r].idealNights, Regions[r].maxNights, Regions[r].transport} \subseteq Nat
       /\ {Regions[r].booking, Regions[r].luggage, Regions[r].stepFree} \subseteq Nat
       /\ DOMAIN Regions[r].gateways # {} /\ Range(Regions[r].gateways) \subseteq Nat
       /\ IsFiniteSet(DOMAIN Regions[r].strengths) /\ Range(Regions[r].strengths) \subseteq Nat
       /\ Range(Regions[r].season) \subseteq Nat
       /\ IsFiniteSet(Regions[r].similar)

AtLeastOne(n) == IF n < 1 THEN 1 ELSE n

(***************************************************************************)
(* What a trip allows, and the way to a region.                            *)
(***************************************************************************)
EffectiveNights(trip) ==
  IF trip.regional > 0 THEN trip.regional
  ELSE IF trip.total > 0 THEN Max({2, Min({7, trip.total \div 3})})
  ELSE 3

BestGateway(region) == Min(Range(region.gateways))

Inbound(region, trip) ==
  IF trip.arrival \in DOMAIN region.gateways THEN region.gateways[trip.arrival] ELSE BestGateway(region)

Outbound(region, trip) ==
  IF trip.departure \in DOMAIN region.gateways THEN region.gateways[trip.departure] ELSE Inbound(region, trip)

RoundTrip(region, trip) == Inbound(region, trip) + Outbound(region, trip)

\* Ten usable hours a night
UsableTime(trip) == 100 * EffectiveNights(trip)

PublicOnly(trip) == trip.driving = "no_car"

(***************************************************************************)
(* evaluate_hard_constraints.                                              *)
(***************************************************************************)
MaxTransitShare == 35

PaceTolerance == [relaxed |-> 80, balanced |-> 100, fast |-> 125, unknown |-> 100]

\* Whether hours of transfer are more than the pace allows of the time there
TravelDominated(hours, trip) ==
  hours * 10000 > MaxTransitShare * PaceTolerance[trip.pace] * (hours + UsableTime(trip))

HardConstraints == {"min_nights", "car_free_required", "transit_share", "step_free"}

\* More nights than a region can fill rule it out too.
HardFailuresCapped(region, trip) ==
  {code \in HardConstraints :
     CASE code = "min_nights" -> EffectiveNights(trip) \notin region.minNights..region.maxNights
       [] code = "car_free_required" -> PublicOnly(trip) /\ ~region.carFree
       [] code = "transit_share" -> TravelDominated(2 * Inbound(region, trip), trip)
       [] code = "step_free" -> trip.stepFree /\ region.stepFree < 50}

\* The way out is taken to be as long as the way in.
HardFailures(region, trip) ==
  {code \in HardConstraints :
     CASE code = "min_nights" -> EffectiveNights(trip) < region.minNights
       [] code = "car_free_required" -> PublicOnly(trip) /\ ~region.carFree
       [] code = "transit_share" -> TravelDominated(2 * Inbound(region, trip), trip)
       [] code = "step_free" -> trip.stepFree /\ region.stepFree < 50}

Eliminated(region, trip) == HardFailures(region, trip) # {}

(***************************************************************************)
(* The components.                                                         *)
(***************************************************************************)
Clamped(value) == Max({0, Min({10000, value})})

NightsFit(region, trip) ==
  LET nights == EffectiveNights(trip)
      least  == region.minNights
      ideal  == region.idealNights
  IN  IF nights < least THEN Rounded(5000 * nights, least)
      ELSE IF nights <= ideal THEN 7000 + Rounded(3000 * (nights - least), AtLeastOne(ideal - least))
      ELSE IF nights <= region.maxNights
           THEN 10000 - Rounded(2500 * (nights - ideal), AtLeastOne(region.maxNights - ideal))
      ELSE 6000

\* 10% of the time in transit is worth 1, 45% nothing.
AccessEfficiency(region, trip) ==
  LET hours == RoundTrip(region, trip)
      time  == hours + UsableTime(trip)
  IN  Clamped(Rounded(10000 * (9 * time - 20 * hours), 7 * time))

TransportCompatibility(region, trip) ==
  LET carFree == 100 * region.transport
      value   == CASE PublicOnly(trip) -> carFree
                   [] trip.driving \in {"willing", "prefers_car"} ->
                        Max({carFree, IF region.carRecommended THEN 8500 ELSE 7500})
                   [] trip.driving = "unknown" -> 5000 + carFree \div 2
  IN  IF trip.luggage THEN Rounded(value * (8500 + 15 * region.luggage), 10000) ELSE value

Strength(region, interest) ==
  IF interest \in DOMAIN region.strengths THEN region.strengths[interest] ELSE 25

\* A region's three strongest themes, or all of them
StrongestThemes(region) ==
  LET themes == DOMAIN region.strengths
  IN  CHOOSE top \in kSubset(Min({3, Cardinality(themes)}), themes) :
        \A a \in top, b \in themes \ top : region.strengths[a] >= region.strengths[b]

\* The mean of the strengths asked for and the weakest of them; of the strongest
\* themes when nothing is asked for.
InterestMatch(region, trip) ==
  LET n     == Len(trip.interests)
      at(i) == Strength(region, trip.interests[i])
      top   == StrongestThemes(region)
  IN  IF n > 0 THEN Rounded(70 * SumFunctionOnSet([i \in 1..n |-> at(i)], 1..n) + 30 * n * Min({at(i) : i \in 1..n}), n)
      ELSE IF top = {} THEN 6000
      ELSE Rounded(100 * SumFunctionOnSet(region.strengths, top), Cardinality(top))

SeasonFit(region, trip) ==
  IF trip.month = 0 THEN 7000
  ELSE IF trip.month \in DOMAIN region.season THEN 100 * region.season[trip.month] ELSE 6000

Novelty(region, trip) ==
  IF trip.visited = {} THEN 8000
  ELSE IF trip.visited \cap region.names # {} THEN 1500
  ELSE Max({3000, 10000 - 2500 * Cardinality(trip.visited \cap region.similar)})

\* Families mind the luggage, walkers the steps.
Practicality(region, trip) ==
  Rounded((100 - region.booking)
            * (IF trip.family THEN 400 + region.luggage ELSE 500)
            * (IF trip.limitedWalking THEN 150 + region.stepFree ELSE 250), 1250)

(***************************************************************************)
(* score_region: points are ten-thousandths, a score hundredths.           *)
(***************************************************************************)
Points(region, trip) ==
  24 * NightsFit(region, trip) + 22 * AccessEfficiency(region, trip)
    + 16 * TransportCompatibility(region, trip) + 16 * InterestMatch(region, trip)
    + 12 * SeasonFit(region, trip) + 6 * Novelty(region, trip) + 4 * Practicality(region, trip)

Score(region, trip) ==
  LET points == Points(region, trip)
  IN  Rounded(IF Eliminated(region, trip) THEN Min({points, 380000}) ELSE points, 100)

FitLabel(region, trip) ==
  LET points == Points(region, trip)
  IN  IF Eliminated(region, trip) \/ points < 420000 THEN "not_recommended"
      ELSE IF points < 580000 THEN "marginal"
      ELSE IF points < 720000 THEN "good"
      ELSE "strong"

\* rank_regions: the regions by their score, equal ones by their code
RankRegions(regions, trip) ==
  LET score == [i \in regions |-> Score(Regions[i], trip)]
  IN  Sorted(regions, LAMBDA i, j : score[i] > score[j] \/ (score[i] = score[j] /\ i < j))
=============================================================================
