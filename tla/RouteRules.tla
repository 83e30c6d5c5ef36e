----------------------------- MODULE RouteRules -----------------------------
(***************************************************************************)
(* An itinerary, the route built for it from transport options, its travel *)
(* load and the issues the deterministic rules find in it                  *)
(* (services/route_service.py, domain/route.py, domain/route_rules.py).    *)
(*                                                                         *)
(* A stop is a record [place, nights]: the slug and the display name of a  *)
(* resolved stop stand for the same place. A segment joins the stops at    *)
(* positions from and to. Durations are minutes; shares and hours per      *)
(* night are the code's rounded decimals in hundredths or ten-thousandths. *)
(***************************************************************************)
EXTENDS TransportSearch, Orders, Functions

CONSTANTS
  Places,     \* the catalogue
  Km,         \* Km[a][b]: great-circle distance; -1 when a place has no record
  Records,    \* Records[a][b]: the transport options on record for a pair
  Connection  \* Connection[a][b]: [transfers, last, finalLeg] of the recorded options

NoTime == -1

ASSUME CatalogueAssumption ==
  /\ Km \in [Places -> [Places -> Int]]
  /\ Records \in [Places -> [Places -> SUBSET OptionRecords]]
  /\ DOMAIN Connection = Places

(***************************************************************************)
(* RouteService.build_route: consecutive stops, joined by the option       *)
(* picked for them; a pair without options gets no segment.                *)
(***************************************************************************)
OptionsBetween(a, b, allowCar) ==
  SeededOptions(Records[a][b] \cup Records[b][a], Km[a][b], allowCar)

Segment(stops, i, option) ==
  LET local == Connection[stops[i].place][stops[i + 1].place]
      told  == TellsLastConnection(option)
      timed == told /\ option.mode # "car"
  IN  [from |-> i, to |-> i + 1, minutes |-> option.minutes, car |-> option.needsCar,
       transfers |-> IF told THEN local.transfers
                     ELSE IF option.mode \in {"car", "flight"} THEN 0
                     ELSE Km[stops[i].place][stops[i + 1].place] \div 220,
       last |-> IF timed THEN local.last ELSE NoTime,
       finalLeg |-> IF timed THEN local.finalLeg ELSE 0]

Hops(stops) == 1..(Len(stops) - 1)

Segments(stops, allowCar) ==
  LET Between(i) == OptionsBetween(stops[i].place, stops[i + 1].place, allowCar)
      joined == InOrder({i \in Hops(stops) : Between(i) # {}})
  IN  Listing(Len(joined), LAMBDA k : Segment(stops, joined[k], PickOption(Between(joined[k]))))

BuildRoute(stops, allowCar) == [stops |-> stops, segments |-> Segments(stops, allowCar)]

(***************************************************************************)
(* compute_travel_load.                                                    *)
(***************************************************************************)
AtLeastOne(n) == IF n < 1 THEN 1 ELSE n

NightsOf(stops) == [i \in DOMAIN stops |-> stops[i].nights]

TotalNights(stops) == SumFunction(NightsOf(stops))

LegMinutes(route) == [k \in DOMAIN route.segments |-> route.segments[k].minutes]

TransitMinutes(route) == SumFunction(LegMinutes(route))

Overnight(stops) == SelectSeq(stops, LAMBDA s : s.nights > 0)

\* Consecutive nights in one place count once.
AccommodationChanges(stops) ==
  LET beds == Overnight(stops)
  IN  Cardinality({i \in 2..Len(beds) : beds[i].place # beds[i - 1].place})

OneNightStays(stops) == Cardinality({i \in DOMAIN stops : stops[i].nights = 1})

PathKm(stops) == SumFunction([i \in Hops(stops) |-> Km[stops[i].place][stops[i + 1].place]])

\* In thousandths; a loop is a legitimate shape, not a detour.
DetourRatio(stops) ==
  IF Len(stops) < 3 THEN 1000
  ELSE LET direct == Km[stops[1].place][stops[Len(stops)].place]
       IN  IF direct < 25 THEN 1000 ELSE Rounded(1000 * PathKm(stops), direct)

TravelLoad(route) ==
  LET minutes == TransitMinutes(route)
      nights  == TotalNights(route.stops)
  IN  [nights     |-> nights,
       minutes    |-> minutes,
       changes    |-> AccommodationChanges(route.stops),
       oneNight   |-> OneNightStays(route.stops),
       perNight   |-> Rounded(100 * minutes, 60 * AtLeastOne(nights)),
       share      |-> Rounded(10000 * minutes, minutes + 600 * AtLeastOne(nights)),
       detour     |-> DetourRatio(route.stops)]

(***************************************************************************)
(* The rules. An issue is a record [rule, severity, at]: at is the segment *)
(* it is about, 0 for the route.                                           *)
(***************************************************************************)
Issue(rule, severity, at) == [rule |-> rule, severity |-> severity, at |-> at]

OnSegments(rule, severity) ==
  {Issue(rule, severity[k], k) : k \in {k \in DOMAIN severity : severity[k] # "none"}}

OnRoute(rule, severity) == IF severity = "none" THEN {} ELSE {Issue(rule, severity, 0)}

\* 10:00 to 19:00 on the day of arrival, then ten hours a day
UsableMinutes(minutes, nights) ==
  (IF minutes < 540 THEN 540 - minutes ELSE 0) + 600 * (nights - 1)

TravelBurden(route) ==
  LET Severity(seg) ==
        LET nights == route.stops[seg.to].nights
        IN  CASE nights = 0 -> "none"
              [] nights = 1 /\ seg.minutes >= 240 -> "critical"
              [] nights > 0 /\ ~(nights = 1 /\ seg.minutes >= 240) ->
                   IF (nights = 1 /\ seg.minutes >= 180) \/ UsableMinutes(seg.minutes, nights) < seg.minutes
                   THEN "warning" ELSE "none"
  IN  OnSegments("R01", [k \in DOMAIN route.segments |-> Severity(route.segments[k])])

AccommodationChurn(load) ==
  OnRoute("R02", CASE load.nights = 0 -> "none"
                   [] load.nights > 0 /\ load.oneNight >= 5 -> "critical"
                   [] load.nights > 0 /\ load.oneNight < 5 ->
                        IF load.oneNight > 2 \/ 10 * load.changes > 6 * load.nights THEN "warning" ELSE "none")

Backtracking(load) == OnRoute("R03", IF load.detour > 1600 THEN "warning" ELSE "none")

DepartureRisk(route) ==
  LET last == Len(route.segments)
  IN  IF last = 0 \/ route.segments[last].minutes < 300 THEN {}
      ELSE {Issue("R04", IF route.segments[last].minutes >= 390 THEN "critical" ELSE "warning", last)}

CarRequired(route, trip) ==
  OnRoute("R05", IF trip.publicOnly /\ \E k \in DOMAIN route.segments : route.segments[k].car
                 THEN "critical" ELSE "none")

\* Leaving at 10:00, the margin before the last departure of the final leg.
Margin(seg) ==
  seg.last - (600 + (IF seg.minutes > seg.finalLeg THEN seg.minutes - seg.finalLeg ELSE 0))

LastConnection(route) ==
  LET Severity(seg) ==
        CASE seg.last = NoTime -> "none"
          [] seg.last # NoTime -> IF Margin(seg) < 0 THEN "critical"
                                  ELSE IF Margin(seg) < 45 THEN "warning" ELSE "none"
  IN  OnSegments("R06", [k \in DOMAIN route.segments |-> Severity(route.segments[k])])

TransitShare(load) ==
  OnRoute("R07", IF load.share > 4500 THEN "critical" ELSE IF load.share > 3500 THEN "warning" ELSE "none")

PaceLimit == [relaxed |-> 200, balanced |-> 300, fast |-> 450]

PaceMismatch(load, trip) ==
  OnRoute("R08", IF trip.pace \in DOMAIN PaceLimit /\ load.perNight > PaceLimit[trip.pace]
                 THEN "warning" ELSE "none")

LuggageRisk(route, trip) ==
  OnRoute("R09", IF trip.luggage /\ \E k \in DOMAIN route.segments : route.segments[k].transfers >= 3
                 THEN "warning" ELSE "none")

\* What works is told as well: at most four efficient hops.
EfficientSegments(route) ==
  LET good == {k \in DOMAIN route.segments :
                 /\ route.segments[k].minutes <= 180
                 /\ route.segments[k].transfers <= 1
                 /\ route.stops[route.segments[k].to].nights >= 1}
  IN  {Issue("R50", "good", k) : k \in {k \in good : Cardinality({j \in good : j < k}) < 4}}

GoodStayLength(route) ==
  OnRoute("R51", IF \E i \in DOMAIN route.stops : route.stops[i].nights >= 3 THEN "good" ELSE "none")

RunRules(route, trip) ==
  LET load == TravelLoad(route)
  IN  UNION {TravelBurden(route), AccommodationChurn(load), Backtracking(load), DepartureRisk(route),
             CarRequired(route, trip), LastConnection(route), TransitShare(load), PaceMismatch(load, trip),
             LuggageRisk(route, trip), EfficientSegments(route), GoodStayLength(route)}

(***************************************************************************)
(* grade_health: the grade of the rules engine.                            *)
(***************************************************************************)
OfSeverity(issues, severity) == {i \in issues : i.severity = severity}

GradeHealth(issues) ==
  LET criticals == Cardinality(OfSeverity(issues, "critical"))
      warnings  == Cardinality(OfSeverity(issues, "warning"))
  IN  IF criticals >= 2 THEN "high_risk"
      ELSE IF criticals = 1 \/ warnings >= 1 THEN "needs_improvement"
      ELSE "healthy"
=============================================================================
