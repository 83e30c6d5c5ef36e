------------------------- MODULE RouteCheck_proofs -------------------------
(***************************************************************************)
(* Theorems about RouteCheck, for every catalogue, every set of requests   *)
(* and every limit with MaxStops + MaxRevisionCandidates + 8 <= Budget and *)
(* MaxStops <= MaxRead.                                                    *)
(*                                                                         *)
(* The first parts are about the revision of a route, for every route and  *)
(* every leg: each candidate begins and ends where the route did, visits   *)
(* no place it did not and has all of its nights; the chosen one, of a     *)
(* route that stays at no place twice, is better by the margin.            *)
(*                                                                         *)
(* IInv says how much of the budget each node may find spent, and what     *)
(* each part of the graph leaves behind: until the checks are done a route *)
(* that cannot be costed has left a gap; from there on the absence of gaps *)
(* means a costed route; from the grounding check on, a report of high     *)
(* confidence means no gap, some evidence and no conflict.                 *)
(*                                                                         *)
(* TripInv says what the stops, the route and the revision are: what the   *)
(* stand-in read, each stop found or told as not found, the stops of the   *)
(* route those found, the revision the trip asked for.                     *)
(***************************************************************************)
EXTENDS RouteCheck, ListTheorems

\* The stops and the legs of a route are what the catalogue and the options make them.
StopsFit(stops) ==
  /\ IsList(stops)
  /\ \A i \in DOMAIN stops : stops[i].place \in Places /\ stops[i].nights \in Nat

RouteFits(route) ==
  /\ StopsFit(route.stops)
  /\ IsFiniteSet(DOMAIN route.segments)
  /\ \A k \in DOMAIN route.segments : route.segments[k].minutes \in Nat

(***************************************************************************)
(* What is kept of a route.                                                *)
(***************************************************************************)
LEMMA KeptStops ==
  ASSUME NEW stops, IsList(stops), Len(stops) >= 1, NEW dropped \in SUBSET Interior(stops),
         NEW nights, \A i \in DOMAIN stops : nights[i] \in Int
  PROVE  LET new == Kept(stops, dropped, nights)
         IN  /\ IsList(new) /\ Len(new) = Len(stops) - Cardinality(dropped) /\ Len(new) >= 1
             /\ new[1].place = stops[1].place /\ new[Len(new)].place = stops[Len(stops)].place
             /\ PlacesOf(new) \subseteq PlacesOf(stops)
             /\ TotalNights(new) = SumFunctionOnSet(nights, DOMAIN stops \ dropped)
<1> DEFINE S == DOMAIN stops \ dropped
           n == Cardinality(S)
           order == InOrder(S)
           f == [k \in 1..n |-> [place |-> stops[order[k]].place, nights |-> nights[order[k]]]]
           new == Kept(stops, dropped, nights)
           last == Len(stops)
<1>1. /\ last \in Nat /\ DOMAIN stops = 1..last /\ IsFiniteSet(DOMAIN stops)
      /\ dropped \subseteq 2..(last - 1) /\ Cardinality(DOMAIN stops) = last
    BY ListFacts, FS_Interval DEF Interior
<1>2. /\ IsFiniteSet(S) /\ n \in Nat /\ n = last - Cardinality(dropped)
      /\ S \subseteq Nat /\ 1 \in S /\ last \in S /\ \A i \in S : i \in 1..last
  <2>1. IsFiniteSet(S) /\ n = last - Cardinality(DOMAIN stops \cap dropped)
      BY <1>1, FS_Difference
  <2>2. DOMAIN stops \cap dropped = dropped
    <3>1. \A i \in 2..(last - 1) : i \in 1..last
        BY <1>1
    <3> QED
        BY <1>1, <3>1, Zenon
  <2>3. S \subseteq Nat /\ 1 \in S /\ last \in S /\ \A i \in S : i \in 1..last
      BY <1>1
  <2>4. n \in Nat
      BY <2>1, FS_CardinalityType
  <2> QED
      BY <2>1, <2>2, <2>3, <2>4
<1> HIDE DEF S
<1>3. /\ Len(order) = n
      /\ \A k \in 1..n : order[k] \in S
      /\ \A x \in S : \E k \in 1..n : order[k] = x
      /\ \A k, l \in 1..n : k < l => order[k] < order[l]
      /\ \A k, l \in 1..n : order[k] = order[l] => k = l
    BY <1>2, PositionsInOrder
<1>4. new = SubSeq(f, 1, n)
    BY <1>3 DEF Kept, Listing, S
<1> HIDE DEF order
<1>5. new = f /\ IsList(new) /\ Len(new) = n /\ DOMAIN new = 1..n
  <2>1. f = [k \in 1..n |-> f[k]]
      OBVIOUS
  <2> HIDE DEF f, new
  <2> QED
      BY <1>2, <1>4, <2>1, ListOfPlaces, Zenon
<1> HIDE DEF new
<1>6. n >= 1 /\ order[1] = 1 /\ order[n] = last
  <2>1. PICK k \in 1..n : order[k] = 1
      BY <1>2, <1>3
  <2>2. PICK l \in 1..n : order[l] = last
      BY <1>2, <1>3
  <2>3. 1 \in 1..n /\ n \in 1..n
      BY <1>2, <2>1
  <2>4. order[1] \in 1..last /\ order[n] \in 1..last
      BY <1>2, <1>3, <2>3
  <2>5. k = 1
    <3>1. k # 1 => order[1] < order[k]
        BY <1>3, <2>3
    <3> QED
        BY <2>1, <2>4, <3>1
  <2>6. l = n
    <3>1. l # n => order[l] < order[n]
        BY <1>3, <2>3
    <3> QED
        BY <1>1, <2>2, <2>4, <3>1
  <2> QED
      BY <2>1, <2>2, <2>3, <2>5, <2>6
<1>7. \A k \in 1..n : new[k].place = stops[order[k]].place /\ new[k].nights = nights[order[k]]
    BY <1>5
<1>8. TotalNights(new) = SumFunctionOnSet(nights, S)
  <2> DEFINE g == NightsOf(new)
  <2>1. TotalNights(new) = SumFunctionOnSet(g, 1..n)
      BY <1>5 DEF TotalNights, SumFunction, NightsOf
  <2>2. \A k \in 1..n : g[k] = nights[order[k]] /\ nights[order[k]] \in Int
      BY <1>1, <1>2, <1>3, <1>5, <1>7 DEF NightsOf
  <2>3. S = {order[k] : k \in 1..n}
      BY <1>3
  <2>4. IsFiniteSet(1..n)
      BY <1>2, FS_Interval
  <2> HIDE DEF g
  <2>5. SumFunctionOnSet(nights, {order[k] : k \in 1..n}) = SumFunctionOnSet(g, 1..n)
      BY <1>3, <2>2, <2>4, SumRenamed
  <2> QED
      BY <2>1, <2>3, <2>5
<1>9. \A k \in 1..n : order[k] \in DOMAIN stops
    BY <1>1, <1>2, <1>3
<1>10. /\ IsList(new) /\ Len(new) = last - Cardinality(dropped) /\ Len(new) >= 1
       /\ new[1].place = stops[1].place /\ new[Len(new)].place = stops[last].place
       /\ PlacesOf(new) \subseteq PlacesOf(stops)
  <2>1. 1 \in 1..n /\ n \in 1..n
      BY <1>2, <1>6
  <2>2. PlacesOf(new) \subseteq PlacesOf(stops)
      BY <1>5, <1>7, <1>9 DEF PlacesOf
  <2> QED
      BY <1>2, <1>5, <1>6, <1>7, <2>1, <2>2
<1> QED
    BY <1>8, <1>10, Zenon DEF new, S

(***************************************************************************)
(* The burden of a stop.                                                   *)
(***************************************************************************)
LEMMA TravelIsANumber ==
  ASSUME NEW route, RouteFits(route)
  PROVE  \A i \in DOMAIN route.stops : TravelAt(route)[i] \in Int
<1> DEFINE n == Len(route.stops)
           f == [i \in 1..n |-> InboundMinutes(route, i) + OutboundMinutes(route, i)]
           legs == DOMAIN route.segments
<1>1. n \in Nat /\ DOMAIN route.stops = 1..n
    BY ListFacts DEF RouteFits, StopsFit
<1>2. IsFiniteSet(legs) /\ \A k \in legs : LegMinutes(route)[k] \in Nat
    BY DEF RouteFits, LegMinutes
<1>3. \A T \in SUBSET legs : SumFunctionOnSet(LegMinutes(route), T) \in Nat
    BY <1>2, SumIsANumber
<1>4. \A i : InboundMinutes(route, i) \in Nat /\ OutboundMinutes(route, i) \in Nat
    BY <1>3 DEF InboundMinutes, OutboundMinutes
<1>5. TravelAt(route) = SubSeq(f, 1, n)
    BY DEF TravelAt, Listing
<1>6. f = [i \in 1..n |-> f[i]] /\ \A i \in 1..n : f[i] \in Int
    BY <1>4
<1> HIDE DEF f
<1>7. TravelAt(route) = f
    BY <1>1, <1>5, <1>6, ListOfPlaces, Zenon
<1> QED
    BY <1>1, <1>6, <1>7

\* Ratios compared without division are ordered.
LEMMA RatiosAreOrdered ==
  ASSUME NEW r \in Int, NEW s \in Int, NEW t \in Int,
         NEW a \in Nat \ {0}, NEW b \in Nat \ {0}, NEW c \in Nat \ {0},
         r * b <= s * a, s * c <= t * b
  PROVE  /\ r * c <= t * a
         /\ r * b < s * a \/ s * c < t * b => r * c < t * a
<1>1. (r * b) * c <= (s * a) * c /\ (s * c) * a <= (t * b) * a
    OBVIOUS
<1>2. (s * a) * c = (s * c) * a
    OBVIOUS
<1>3. (r * b) * c = b * (r * c) /\ (t * b) * a = b * (t * a)
    OBVIOUS
<1>4. b * (r * c) <= b * (t * a)
    BY <1>1, <1>2, <1>3
<1>5. r * b < s * a => (r * b) * c < (s * a) * c
    OBVIOUS
<1>6. s * c < t * b => (s * c) * a < (t * b) * a
    OBVIOUS
<1>7. r * b < s * a \/ s * c < t * b => b * (r * c) < b * (t * a)
    BY <1>1, <1>2, <1>3, <1>5, <1>6
<1>8. r * c \in Int /\ t * a \in Int
    OBVIOUS
<1>9. \A x, y \in Int : (b * x <= b * y => x <= y) /\ (b * x < b * y => x < y)
    OBVIOUS
<1> QED
    BY <1>4, <1>7, <1>8, <1>9

\* Less burden, or as much and earlier
Lighter(stops, travel, i, j) ==
  LessBurden(stops, travel, i, j) \/ (~LessBurden(stops, travel, j, i) /\ i < j)

LEMMA LighterIsAnOrder ==
  ASSUME NEW stops, StopsFit(stops), NEW travel, \A i \in DOMAIN stops : travel[i] \in Int
  PROVE  /\ \A i \in DOMAIN stops : ~Lighter(stops, travel, i, i)
         /\ \A i, j, k \in DOMAIN stops :
              Lighter(stops, travel, i, j) /\ Lighter(stops, travel, j, k) => Lighter(stops, travel, i, k)
         /\ \A i, j \in DOMAIN stops : i # j => Lighter(stops, travel, i, j) \/ Lighter(stops, travel, j, i)
<1> DEFINE a(i) == AtLeastOne(stops[i].nights)
           t(i) == travel[i]
<1>1. \A i \in DOMAIN stops : a(i) \in Nat \ {0} /\ t(i) \in Int /\ i \in Nat
    BY ListFacts DEF StopsFit, AtLeastOne
<1>2. \A i, j : LessBurden(stops, travel, i, j) <=> t(i) * a(j) < t(j) * a(i)
    BY DEF LessBurden
<1> HIDE DEF a, t
<1>3. \A i, j \in DOMAIN stops : t(i) * a(j) \in Int
    BY <1>1
<1>4. \A i, j \in DOMAIN stops :
        Lighter(stops, travel, i, j) <=>
          t(i) * a(j) < t(j) * a(i) \/ (t(i) * a(j) <= t(j) * a(i) /\ i < j)
    BY <1>2, <1>3 DEF Lighter
<1>5. ASSUME NEW i \in DOMAIN stops, NEW j \in DOMAIN stops, NEW k \in DOMAIN stops,
             Lighter(stops, travel, i, j), Lighter(stops, travel, j, k)
      PROVE  Lighter(stops, travel, i, k)
  <2>1. t(i) * a(j) <= t(j) * a(i) /\ t(j) * a(k) <= t(k) * a(j)
      BY <1>3, <1>4, <1>5
  <2>2. /\ t(i) * a(k) <= t(k) * a(i)
        /\ t(i) * a(j) < t(j) * a(i) \/ t(j) * a(k) < t(k) * a(j) => t(i) * a(k) < t(k) * a(i)
      BY <1>1, <2>1, RatiosAreOrdered
  <2>3. i < j /\ j < k => i < k
      BY <1>1
  <2> QED
      BY <1>4, <1>5, <2>2, <2>3
<1>6. \A i \in DOMAIN stops : ~Lighter(stops, travel, i, i)
    BY <1>1, <1>3, <1>4
<1>7. \A i, j \in DOMAIN stops : i # j => Lighter(stops, travel, i, j) \/ Lighter(stops, travel, j, i)
    BY <1>1, <1>3, <1>4
<1> QED
    BY <1>5, <1>6, <1>7

\* The gifts of nights come one at a time.
LEMMA GiftsAreOrdered ==
  ASSUME NEW stops, StopsFit(stops), NEW travel, \A i \in DOMAIN stops : travel[i] \in Int,
         NEW G, G \subseteq (DOMAIN stops) \X Nat
  PROVE  StrictOrder(G, {p \in G \X G : GivenBefore(stops, travel, p[1][1], p[1][2], p[2][1], p[2][2])})
<1> DEFINE L(i, j) == Lighter(stops, travel, i, j)
           B(g, h) == g[2] < h[2] \/ (g[2] = h[2] /\ L(g[1], h[1]))
           R == {p \in G \X G : GivenBefore(stops, travel, p[1][1], p[1][2], p[2][1], p[2][2])}
<1>1. \A g \in G : g[1] \in DOMAIN stops /\ g[2] \in Nat /\ g = <<g[1], g[2]>>
    OBVIOUS
<1>2. \A g, h \in G : <<g, h>> \in R <=> B(g, h)
  <2>1. \A g, h \in G : <<g, h>> \in R <=> GivenBefore(stops, travel, g[1], g[2], h[1], h[2])
      OBVIOUS
  <2>2. \A g, h \in G : GivenBefore(stops, travel, g[1], g[2], h[1], h[2]) <=> B(g, h)
      BY DEF GivenBefore, Lighter
  <2> HIDE DEF R, B
  <2> QED
      BY <2>1, <2>2
<1> HIDE DEF R
<1>3. /\ \A i \in DOMAIN stops : ~L(i, i)
      /\ \A i, j, k \in DOMAIN stops : L(i, j) /\ L(j, k) => L(i, k)
      /\ \A i, j \in DOMAIN stops : i # j => L(i, j) \/ L(j, i)
    BY LighterIsAnOrder
<1> HIDE DEF L
<1>4. \A g \in G : ~B(g, g)
    BY <1>1, <1>3
<1>5. \A g, h, e \in G : B(g, h) /\ B(h, e) => B(g, e)
    BY <1>1, <1>3
<1>6. \A g, h \in G : g # h => B(g, h) \/ B(h, g)
  <2> SUFFICES ASSUME NEW g \in G, NEW h \in G, g # h PROVE B(g, h) \/ B(h, g)
      OBVIOUS
  <2>1. g[2] # h[2] \/ g[1] # h[1]
      BY <1>1
  <2> QED
      BY <1>1, <1>3, <2>1
<1> HIDE DEF B
<1>7. StrictOrder(G, R)
    BY <1>2, <1>4, <1>5, <1>6 DEF StrictOrder
<1> QED
    BY <1>7 DEF R

(***************************************************************************)
(* No night is lost.                                                       *)
(***************************************************************************)
\* As many nights are given as were orphaned, to stops that are kept.
LEMMA NightsAreGiven ==
  ASSUME NEW route, RouteFits(route), NEW dropped \in SUBSET OvernightIndices(route.stops),
         Recipients(route.stops, dropped) # {}
  PROVE  LET nights == DropNights(route, dropped)
         IN  /\ \A i \in DOMAIN route.stops : nights[i] \in Nat
             /\ SumFunctionOnSet(nights, DOMAIN route.stops \ dropped) = TotalNights(route.stops)
<1> DEFINE stops == route.stops
           travel == TravelAt(route)
           recipients == Recipients(stops, dropped)
           base == NightsOf(stops)
           orphans == SumFunctionOnSet(base, dropped)
           most == TotalNights(stops)
           gifts == {g \in recipients \X (1..most) : g[2] >= stops[g[1]].nights}
           Given(g) == Cardinality({h \in gifts : GivenBefore(stops, travel, h[1], h[2], g[1], g[2])}) < orphans
           taken == {g \in gifts : Given(g)}
           Share(i) == Cardinality({g \in gifts : g[1] = i /\ Given(g)})
           f == [i \in 1..Len(stops) |-> stops[i].nights + Share(i)]
           nights == DropNights(route, dropped)
           D == DOMAIN stops
           keep == D \ dropped
<1>1. /\ StopsFit(stops) /\ Len(stops) \in Nat /\ D = 1..Len(stops) /\ IsFiniteSet(D)
      /\ \A i \in D : base[i] \in Nat /\ base[i] = stops[i].nights
      /\ dropped \in SUBSET D
  <2>1. StopsFit(stops) /\ IsList(stops)
      BY DEF RouteFits, StopsFit
  <2>2. \A i \in D : base[i] \in Nat /\ base[i] = stops[i].nights
      BY <2>1 DEF NightsOf, StopsFit
  <2>3. Len(stops) \in Nat /\ D = 1..Len(stops) /\ IsFiniteSet(D)
      BY <2>1, ListFacts
  <2>4. dropped \in SUBSET D
      BY <2>3 DEF OvernightIndices, Interior
  <2> QED
      BY <2>1, <2>2, <2>3, <2>4
<1>2. \A i \in D : travel[i] \in Int
    BY TravelIsANumber
<1>3. recipients \subseteq keep /\ \A i \in recipients : stops[i].nights > 0
    BY DEF Recipients
<1>4. most = SumFunctionOnSet(base, D)
    BY DEF TotalNights, SumFunction, NightsOf
<1>5. \A T \in SUBSET D : SumFunctionOnSet(base, T) \in Nat
    BY <1>1, SumIsANumber
<1>6. orphans \in Nat /\ most \in Nat /\ SumFunctionOnSet(base, keep) \in Nat
      /\ most = orphans + SumFunctionOnSet(base, keep)
  <2>1. \A i \in D : base[i] \in Int
      BY <1>1
  <2>2. SumFunctionOnSet(base, D) = SumFunctionOnSet(base, dropped) + SumFunctionOnSet(base, D \ dropped)
      BY <1>1, <2>1, SumInParts
  <2>3. keep \in SUBSET D
      OBVIOUS
  <2> QED
      BY <1>1, <1>4, <1>5, <2>2, <2>3
<1>7. PICK r \in recipients : TRUE
    OBVIOUS
<1>8. stops[r].nights \in Nat /\ stops[r].nights >= 1 /\ orphans + stops[r].nights <= most
  <2>1. r \in keep /\ r \in D /\ keep \in SUBSET D /\ keep \ {r} \in SUBSET D
      BY <1>3
  <2>2. \A i \in D : base[i] \in Int
      BY <1>1
  <2>3. \A T \in SUBSET D, x \in D : x \in T =>
          SumFunctionOnSet(base, T) = base[x] + SumFunctionOnSet(base, T \ {x})
      BY <1>1, <2>2, SumTakesOut
  <2>4. SumFunctionOnSet(base, keep) = base[r] + SumFunctionOnSet(base, keep \ {r})
      BY <2>1, <2>3
  <2>5. SumFunctionOnSet(base, keep \ {r}) \in Nat /\ base[r] \in Nat /\ base[r] = stops[r].nights
      BY <1>1, <1>5, <2>1
  <2>6. stops[r].nights > 0
      BY <1>3
  <2> HIDE DEF base, keep, orphans, most, stops
  <2> QED
      BY <1>6, <2>4, <2>5, <2>6
<1> HIDE DEF base, orphans, most, travel
<1>9. nights = SubSeq(f, 1, Len(stops))
    BY DEF DropNights, Listing, base, orphans, most, travel
<1>10. nights = f
  <2>1. f = [i \in 1..Len(stops) |-> f[i]]
      OBVIOUS
  <2> HIDE DEF f, nights
  <2> QED
      BY <1>1, <1>9, <2>1, ListOfPlaces, Zenon
<1>11. \A i \in D : nights[i] = stops[i].nights + Share(i)
  <2> HIDE DEF nights, Share
  <2> QED
      BY <1>1, <1>10
<1> HIDE DEF nights
<1>12. gifts \subseteq D \X Nat /\ IsFiniteSet(gifts) /\ Cardinality(gifts) \in Nat
  <2>1. IsFiniteSet(recipients) /\ recipients \subseteq D
      BY <1>1, <1>3, FS_Subset
  <2>2. IsFiniteSet(1..most)
      BY <1>6, FS_Interval
  <2>3. IsFiniteSet(recipients \X (1..most))
      BY <2>1, <2>2, FS_Product
  <2>4. gifts \subseteq recipients \X (1..most)
      OBVIOUS
  <2>5. IsFiniteSet(gifts)
      BY <2>3, <2>4, FS_Subset
  <2>6. gifts \subseteq D \X Nat
      BY <2>1
  <2> QED
      BY <2>5, <2>6, FS_CardinalityType
<1>13. Cardinality(gifts) >= orphans
  <2> DEFINE v == stops[r].nights
             some == {r} \X (v..most)
  <2>1. some \subseteq gifts
    <3>1. \A g \in some : g \in recipients \X (1..most) /\ g[1] = r /\ g[2] >= v
        BY <1>6, <1>8
    <3> QED
        BY <3>1
  <2>2. IsFiniteSet({r}) /\ Cardinality({r}) = 1 /\ IsFiniteSet(v..most) /\ Cardinality(v..most) = most - v + 1
    <3>1. v \in Int /\ most \in Int /\ v <= most
        BY <1>6, <1>8
    <3> HIDE DEF v
    <3>2. IsFiniteSet(v..most) /\ Cardinality(v..most) = most - v + 1
        BY <3>1, FS_Interval
    <3> QED
        BY <3>2, FS_Singleton
  <2>3. Cardinality(some) = Cardinality({r}) * Cardinality(v..most)
      BY <2>2, FS_Product
  <2>4. Cardinality(some) <= Cardinality(gifts)
    <3> HIDE DEF some, gifts
    <3> QED
        BY <1>12, <2>1, FS_Subset
  <2> HIDE DEF some, gifts
  <2>5. Cardinality(some) = most - v + 1
      BY <2>2, <2>3, <1>6, <1>8
  <2> QED
      BY <1>6, <1>8, <1>12, <2>4, <2>5
<1>14. Cardinality(taken) = orphans /\ IsFiniteSet(taken)
  <2> DEFINE R == {p \in gifts \X gifts : GivenBefore(stops, travel, p[1][1], p[1][2], p[2][1], p[2][2])}
  <2>1. StrictOrder(gifts, R)
    <3> HIDE DEF gifts
    <3> QED
        BY <1>1, <1>2, <1>12, GiftsAreOrdered
  <2>2. \A g \in gifts :
          Predecessors(gifts, R, g) = {h \in gifts : GivenBefore(stops, travel, h[1], h[2], g[1], g[2])}
    <3> HIDE DEF gifts
    <3> QED
        BY DEF Predecessors
  <2>3. taken = {g \in gifts : Cardinality(Predecessors(gifts, R, g)) < orphans}
    <3> HIDE DEF gifts, R
    <3> QED
        BY <2>2
  <2>4. orphans \in 0..Cardinality(gifts)
    <3> HIDE DEF gifts
    <3> QED
        BY <1>6, <1>12, <1>13
  <2>5. taken \in SUBSET gifts
      OBVIOUS
  <2> HIDE DEF gifts, R, taken
  <2> QED
      BY <1>12, <2>1, <2>3, <2>4, <2>5, FirstFew, FS_Subset
<1>15. \A i \in D : {g \in gifts : g[1] = i /\ Given(g)} = {g \in taken : g[1] = i}
  <2> HIDE DEF Given, gifts
  <2> QED
      OBVIOUS
<1>16. \A g \in taken : g[1] \in keep
    BY <1>3
<1>17. \A i \in D : Share(i) = Cardinality({g \in taken : g[1] = i})
  <2> HIDE DEF Given, gifts, taken
  <2> QED
      BY <1>15
<1> HIDE DEF taken, gifts, Given, Share, recipients
<1> DEFINE share == [i \in D |-> Share(i)]
           owner == [g \in taken |-> g[1]]
<1>18. IsFiniteSet(keep) /\ keep \in SUBSET D
    BY <1>1, FS_Subset
<1>19. \A i \in keep : share[i] = Cardinality({g \in taken : owner[g] = i})
  <2>1. \A i : {g \in taken : owner[g] = i} = {g \in taken : g[1] = i}
      OBVIOUS
  <2>2. \A i \in keep : share[i] = Cardinality({g \in taken : g[1] = i})
      BY <1>17, <1>18
  <2> QED
      BY <2>1, <2>2
<1>20. \A g \in taken : owner[g] \in keep
    BY <1>16
<1> HIDE DEF owner
<1>21. SumFunctionOnSet(share, keep) = orphans
  <2> HIDE DEF share, keep
  <2>1. IsFiniteSet(keep) /\ IsFiniteSet(taken)
      BY <1>14, <1>18
  <2>2. SumFunctionOnSet(share, keep) = Cardinality(taken)
      BY <1>19, <1>20, <2>1, SumOfShares
  <2> QED
      BY <1>14, <2>2
<1>22. \A i \in D : share[i] \in Nat /\ nights[i] = base[i] + share[i]
  <2>1. \A i \in D : Share(i) \in Nat
    <3>1. \A i : {g \in taken : g[1] = i} \subseteq taken
        OBVIOUS
    <3> QED
        BY <1>14, <1>17, <3>1, FS_Subset, FS_CardinalityType
  <2> QED
      BY <1>1, <1>11, <2>1
<1>23. SumFunctionOnSet(nights, keep) = SumFunctionOnSet(base, keep) + SumFunctionOnSet(share, keep)
  <2>1. \A i \in keep : base[i] \in Int /\ share[i] \in Int /\ nights[i] = base[i] + share[i]
      BY <1>1, <1>18, <1>22
  <2> HIDE DEF share, keep
  <2> QED
      BY <1>18, <2>1, SumOfBoth
<1>24. SumFunctionOnSet(nights, keep) = most
    BY <1>6, <1>21, <1>23
<1>25. \A i \in D : nights[i] \in Nat
  <2>1. \A i \in D : base[i] \in Nat
      BY <1>1
  <2> HIDE DEF share, D
  <2> QED
      BY <1>22, <2>1
<1> QED
    BY <1>24, <1>25 DEF nights, most

(***************************************************************************)
(* What every candidate keeps of the trip.                                 *)
(***************************************************************************)
KeepsTheTrip(old, new) ==
  /\ TotalNights(new) = TotalNights(old)
  /\ new[1].place = old[1].place /\ new[Len(new)].place = old[Len(old)].place
  /\ PlacesOf(new) \subseteq PlacesOf(old)
  /\ 2 * (Len(old) - Len(new)) <= Cardinality(OvernightIndices(old))

LEMMA OvernightIsFinite ==
  ASSUME NEW stops, IsList(stops)
  PROVE  /\ IsFiniteSet(OvernightIndices(stops)) /\ Cardinality(OvernightIndices(stops)) \in Nat
         /\ OvernightIndices(stops) \subseteq Interior(stops) /\ Interior(stops) \subseteq DOMAIN stops
         /\ MaxDroppable(stops) \in Nat /\ 2 * MaxDroppable(stops) <= Cardinality(OvernightIndices(stops))
<1>1. Len(stops) \in Nat /\ DOMAIN stops = 1..Len(stops) /\ IsFiniteSet(DOMAIN stops)
    BY ListFacts
<1>2. OvernightIndices(stops) \subseteq Interior(stops) /\ Interior(stops) \subseteq DOMAIN stops
    BY <1>1 DEF OvernightIndices, Interior
<1>3. IsFiniteSet(OvernightIndices(stops)) /\ Cardinality(OvernightIndices(stops)) \in Nat
    BY <1>1, <1>2, FS_Subset, FS_CardinalityType
<1>4. \A c \in Nat : c \div 2 \in Nat /\ 2 * (c \div 2) <= c
    OBVIOUS
<1> QED
    BY <1>2, <1>3, <1>4 DEF MaxDroppable

\* Dropping so few stops leaves a stop to give their nights to.
LEMMA DroppingKeeps ==
  ASSUME NEW route, RouteFits(route), NEW dropped \in SUBSET OvernightIndices(route.stops), dropped # {},
         Cardinality(dropped) <= MaxDroppable(route.stops)
  PROVE  KeepsTheTrip(route.stops, Kept(route.stops, dropped, DropNights(route, dropped)))
<1> DEFINE stops == route.stops
           O == OvernightIndices(stops)
           nights == DropNights(route, dropped)
           new == Kept(stops, dropped, nights)
<1>1. StopsFit(stops) /\ IsList(stops)
    BY DEF RouteFits, StopsFit
<1>2. /\ IsFiniteSet(O) /\ Cardinality(O) \in Nat /\ O \subseteq Interior(stops)
      /\ Interior(stops) \subseteq DOMAIN stops /\ 2 * MaxDroppable(stops) <= Cardinality(O)
      /\ MaxDroppable(stops) \in Nat
    BY <1>1, OvernightIsFinite
<1>3. IsFiniteSet(dropped) /\ Cardinality(dropped) \in Nat /\ Cardinality(dropped) # 0
    BY <1>2, FS_Subset, FS_CardinalityType, FS_EmptySet
<1>4. PICK i \in O : i \notin dropped
  <2>1. Cardinality(dropped) # Cardinality(O)
      BY <1>2, <1>3
  <2>2. dropped # O
      BY <2>1
  <2> QED
      BY <2>2
<1>5. i \in Recipients(stops, dropped)
    BY <1>2, <1>4 DEF Recipients, OvernightIndices
<1>6. /\ \A k \in DOMAIN stops : nights[k] \in Nat
      /\ SumFunctionOnSet(nights, DOMAIN stops \ dropped) = TotalNights(stops)
    BY <1>5, NightsAreGiven
<1>7. Len(stops) \in Nat /\ Len(stops) >= 1
    BY <1>1, <1>2, <1>4, ListFacts
<1> HIDE DEF stops, nights
<1>8. /\ Len(new) = Len(stops) - Cardinality(dropped)
      /\ new[1].place = stops[1].place /\ new[Len(new)].place = stops[Len(stops)].place
      /\ PlacesOf(new) \subseteq PlacesOf(stops)
      /\ TotalNights(new) = SumFunctionOnSet(nights, DOMAIN stops \ dropped)
  <2>1. dropped \in SUBSET Interior(stops)
      BY <1>2 DEF stops
  <2>2. \A k \in DOMAIN stops : nights[k] \in Int
      BY <1>6
  <2>3. IsList(stops) /\ Len(stops) >= 1
      BY <1>1, <1>7
  <2> QED
      BY <2>1, <2>2, <2>3, KeptStops
<1> HIDE DEF new
<1>9. 2 * (Len(stops) - Len(new)) <= Cardinality(O)
    BY <1>2, <1>3, <1>7, <1>8 DEF stops
<1> QED
    BY <1>6, <1>8, <1>9, Zenon DEF KeepsTheTrip, stops, new, nights

(***************************************************************************)
(* Runs of single nights.                                                  *)
(***************************************************************************)
\* The first of a set of stops by their burden is one of it.
LEMMA BaseIsOneOfThem ==
  ASSUME NEW route, RouteFits(route), NEW run \in SUBSET DOMAIN route.stops, run # {}
  PROVE  Base(route, run) \in run
<1> DEFINE stops == route.stops
           travel == TravelAt(route)
           R == {p \in run \X run : Lighter(stops, travel, p[1], p[2])}
           First(x) == \A y \in run \ {x} : Lighter(stops, travel, x, y)
<1>1. StopsFit(stops) /\ IsFiniteSet(DOMAIN stops) /\ \A i \in DOMAIN stops : travel[i] \in Int
  <2>1. StopsFit(stops) /\ IsList(stops)
      BY DEF RouteFits, StopsFit
  <2> QED
      BY <2>1, TravelIsANumber, ListFacts
<1>2. IsFiniteSet(run) /\ 1 \in 1..Cardinality(run)
    BY <1>1, FS_Subset, FS_CardinalityType, FS_EmptySet
<1>3. /\ \A i \in run : ~Lighter(stops, travel, i, i)
      /\ \A i, j, k \in run : Lighter(stops, travel, i, j) /\ Lighter(stops, travel, j, k)
                                 => Lighter(stops, travel, i, k)
      /\ \A i, j \in run : i # j => Lighter(stops, travel, i, j) \/ Lighter(stops, travel, j, i)
    BY <1>1, LighterIsAnOrder
<1> HIDE DEF stops, travel
<1>4. StrictOrder(run, R)
    BY <1>3 DEF StrictOrder
<1>5. \A x, y \in run : <<x, y>> \in R <=> Lighter(stops, travel, x, y)
    OBVIOUS
<1> HIDE DEF R
<1>6. PICK x \in run : Cardinality(Predecessors(run, R, x)) = 1 - 1
    BY <1>2, <1>4, PlaceOfEach
<1>7. Predecessors(run, R, x) = {}
  <2>1. Predecessors(run, R, x) \in SUBSET run
      BY DEF Predecessors
  <2> QED
      BY <1>2, <1>6, <2>1, FS_Subset, FS_EmptySet
<1>8. First(x)
    BY <1>3, <1>5, <1>7 DEF Predecessors
<1>9. Base(route, run) = CHOOSE y \in run : First(y)
    BY DEF Base, Least, Lighter, stops, travel
<1> QED
    BY <1>8, <1>9

\* Two runs have no stop in common.
LEMMA RunsAreApart ==
  ASSUME NEW stops, IsList(stops), NEW run \in Runs(stops), NEW other \in Runs(stops), NEW i, i \in run, i \in other
  PROVE  run = other
<1>1. \A a, b \in Int : a <= b => Min(a .. b) = a /\ Max(a .. b) = b
    BY DEF Min, Max
<1>2. Interior(stops) \subseteq Int
    BY ListFacts DEF Interior
<1>3. PICK a \in Interior(stops), b \in Interior(stops) : run = a .. b
    BY DEF Runs
<1>4. PICK c \in Interior(stops), d \in Interior(stops) : other = c .. d
    BY DEF Runs
<1>5. a \in Int /\ b \in Int /\ c \in Int /\ d \in Int /\ i \in a .. b /\ i \in c .. d
    BY <1>2, <1>3, <1>4
<1>6. /\ \A j \in a .. b : Single(stops, j)
      /\ ~Single(stops, a - 1) /\ ~Single(stops, b + 1)
  <2>1. Min(run) = a /\ Max(run) = b
      BY <1>1, <1>3, <1>5
  <2> QED
      BY <1>3, <2>1 DEF Runs
<1>7. /\ \A j \in c .. d : Single(stops, j)
      /\ ~Single(stops, c - 1) /\ ~Single(stops, d + 1)
  <2>1. Min(other) = c /\ Max(other) = d
      BY <1>1, <1>4, <1>5
  <2> QED
      BY <1>4, <2>1 DEF Runs
<1>8. ~(a < c) /\ ~(c < a) /\ ~(b < d) /\ ~(d < b)
  <2>1. a < c => c - 1 \in a .. b
      BY <1>5
  <2>2. c < a => a - 1 \in c .. d
      BY <1>5
  <2>3. b < d => b + 1 \in c .. d
      BY <1>5
  <2>4. d < b => d + 1 \in a .. b
      BY <1>5
  <2> QED
      BY <1>6, <1>7, <2>1, <2>2, <2>3, <2>4, Zenon
<1>9. a = c /\ b = d
    BY <1>5, <1>8
<1> QED
    BY <1>3, <1>4, <1>9

\* The runs of a route, and what folding them drops.
FoldedStops(route) == UNION {run \ {Base(route, run)} : run \in Runs(route.stops)}

LEMMA FoldedAre ==
  ASSUME NEW route, RouteFits(route)
  PROVE  LET runs == Runs(route.stops)
         IN  /\ \A run \in runs : /\ run \in SUBSET Interior(route.stops)
                                  /\ IsFiniteSet(run) /\ Cardinality(run) \in Nat
                                  /\ Base(route, run) \in run /\ Base(route, run) \notin FoldedStops(route)
             /\ \A run, other \in runs : Base(route, run) = Base(route, other) => run = other
             /\ FoldedStops(route) \in SUBSET OvernightIndices(route.stops)
             /\ \A i \in FoldedStops(route) : route.stops[i].nights = 1
<1> DEFINE stops == route.stops
           runs == Runs(stops)
<1>1. IsList(stops) /\ Len(stops) \in Nat /\ DOMAIN stops = 1..Len(stops) /\ IsFiniteSet(DOMAIN stops)
    BY ListFacts DEF RouteFits, StopsFit
<1>2. Interior(stops) \subseteq DOMAIN stops
    BY <1>1 DEF Interior
<1>3. ASSUME NEW run \in runs
      PROVE  /\ run \in SUBSET Interior(stops) /\ IsFiniteSet(run) /\ Cardinality(run) \in Nat
             /\ Base(route, run) \in run
  <2>1. run \in SUBSET Interior(stops) /\ Cardinality(run) >= 2
      BY DEF Runs, Single
  <2>2. run \in SUBSET DOMAIN stops /\ IsFiniteSet(run) /\ Cardinality(run) \in Nat
      BY <1>1, <1>2, <2>1, FS_Subset, FS_CardinalityType
  <2>3. run # {}
      BY <2>1, FS_EmptySet
  <2> QED
      BY <2>1, <2>2, <2>3, BaseIsOneOfThem
<1>4. \A run, other \in runs : \A i : i \in run /\ i \in other => run = other
    BY <1>1, RunsAreApart
<1>5. \A run \in runs : Base(route, run) \notin FoldedStops(route)
    BY <1>3, <1>4 DEF FoldedStops
<1>6. \A run, other \in runs : Base(route, run) = Base(route, other) => run = other
    BY <1>3, <1>4
<1>7. \A run \in runs : \A i \in run : stops[i].nights = 1 /\ i \in OvernightIndices(stops)
    BY DEF Runs, Single, OvernightIndices
<1>8. /\ FoldedStops(route) \in SUBSET OvernightIndices(stops)
      /\ \A i \in FoldedStops(route) : stops[i].nights = 1
    BY <1>7 DEF FoldedStops
<1> QED
    BY <1>3, <1>5, <1>6, <1>8

\* Folding runs of single nights keeps every night.
LEMMA ConsolidatingKeeps ==
  ASSUME NEW route, RouteFits(route), NEW limit, limit = MaxDroppable(route.stops),
         NEW c, <<c>> = Consolidate(route, limit)
  PROVE  c.strategy = <<"consolidate">> /\ KeepsTheTrip(route.stops, c.stops)
<1> DEFINE stops == route.stops
           D == DOMAIN stops
           runs == Runs(stops)
           dropped == FoldedStops(route)
           keep == D \ dropped
           base == NightsOf(stops)
           mine(i) == {run \in runs : i = Base(route, run)}
           Share(i) == IF mine(i) = {} THEN 0 ELSE Cardinality(UNION mine(i)) - 1
           f == [i \in 1..Len(stops) |-> stops[i].nights + Share(i)]
           nights == SubSeq(f, 1, Len(stops))
           new == Kept(stops, dropped, nights)
<1>1. /\ runs # {} /\ Cardinality(dropped) <= limit
      /\ c.strategy = <<"consolidate">> /\ c.stops = new
  <2>1. Consolidate(route, limit) =
          IF runs = {} \/ Cardinality(dropped) > limit THEN <<>>
          ELSE <<Candidate(<<"consolidate">>, new, PlacesAt(stops, dropped))>>
      BY DEF Consolidate, FoldedStops, Listing
  <2> DEFINE d == Candidate(<<"consolidate">>, new, PlacesAt(stops, dropped))
  <2>2. d.strategy = <<"consolidate">> /\ d.stops = new
      BY DEF Candidate
  <2> HIDE DEF d, new, dropped, runs
  <2>3. ~(runs = {} \/ Cardinality(dropped) > limit)
    <3>1. <<c>> # <<>>
        OBVIOUS
    <3> QED
        BY <2>1, <3>1
  <2>4. <<c>> = <<d>>
      BY <2>1, <2>3 DEF d
  <2>5. c = d
      BY <2>4
  <2>6. runs # {} /\ Cardinality(dropped) <= limit
    <3>1. IsList(stops)
        BY DEF RouteFits, StopsFit
    <3>2. IsFiniteSet(OvernightIndices(stops)) /\ limit \in Nat
        BY <3>1, OvernightIsFinite
    <3>3. dropped \in SUBSET OvernightIndices(stops)
        BY FoldedAre DEF dropped
    <3>4. Cardinality(dropped) \in Nat
        BY <3>2, <3>3, FS_Subset, FS_CardinalityType
    <3> QED
        BY <2>3, <3>2, <3>4
  <2> QED
      BY <2>2, <2>5, <2>6
<1>2. /\ StopsFit(stops) /\ IsList(stops) /\ Len(stops) \in Nat /\ D = 1..Len(stops) /\ IsFiniteSet(D)
      /\ \A i \in D : base[i] \in Nat /\ base[i] = stops[i].nights
  <2>1. StopsFit(stops) /\ IsList(stops)
      BY DEF RouteFits, StopsFit
  <2>2. \A i \in D : base[i] \in Nat /\ base[i] = stops[i].nights
      BY <2>1 DEF NightsOf, StopsFit
  <2> QED
      BY <2>1, <2>2, ListFacts
<1>3. /\ \A run \in runs : /\ run \in SUBSET Interior(stops)
                           /\ IsFiniteSet(run) /\ Cardinality(run) \in Nat
                           /\ Base(route, run) \in run /\ Base(route, run) \notin dropped
      /\ \A run, other \in runs : Base(route, run) = Base(route, other) => run = other
      /\ dropped \in SUBSET OvernightIndices(stops)
      /\ \A i \in dropped : stops[i].nights = 1
    BY FoldedAre
<1>4. /\ IsFiniteSet(OvernightIndices(stops)) /\ Cardinality(OvernightIndices(stops)) \in Nat
      /\ OvernightIndices(stops) \subseteq Interior(stops) /\ Interior(stops) \subseteq D
      /\ limit \in Nat /\ 2 * limit <= Cardinality(OvernightIndices(stops))
    BY <1>2, OvernightIsFinite
<1>5. dropped \in SUBSET D /\ IsFiniteSet(dropped) /\ Cardinality(dropped) \in Nat
      /\ dropped \in SUBSET Interior(stops)
    BY <1>3, <1>4, FS_Subset, FS_CardinalityType
<1>6. \A i \in dropped : \E run \in runs : i \in run /\ i # Base(route, run)
    BY DEF FoldedStops
<1>7. \A run \in runs : \A i \in run : i # Base(route, run) => i \in dropped
    BY DEF FoldedStops
<1>8. \A run, other \in runs : \A i : i \in run /\ i \in other => run = other
    BY <1>2, RunsAreApart
<1> DEFINE RunOf(i) == CHOOSE run \in runs : i \in run
           owner == [i \in dropped |-> Base(route, RunOf(i))]
           share == [i \in D |-> Share(i)]
<1> HIDE DEF dropped, runs
<1>9. \A i \in dropped : RunOf(i) \in runs /\ i \in RunOf(i)
    BY <1>6
<1> HIDE DEF RunOf
<1>10. \A i \in dropped : owner[i] \in keep
  <2>1. \A i \in dropped : Base(route, RunOf(i)) \in D /\ Base(route, RunOf(i)) \notin dropped
      BY <1>3, <1>4, <1>9
  <2> QED
      BY <2>1
<1>11. \A run \in runs : mine(Base(route, run)) = {run}
    BY <1>3
<1>12. ASSUME NEW i \in keep
       PROVE  Share(i) = Cardinality({x \in dropped : owner[x] = i}) /\ Share(i) \in Nat
  <2>1. CASE mine(i) = {}
    <3>1. {x \in dropped : owner[x] = i} = {}
        BY <1>9, <2>1
    <3> QED
        BY <2>1, <3>1, FS_EmptySet
  <2>2. CASE mine(i) # {}
    <3>1. PICK run \in runs : i = Base(route, run)
        BY <2>2
    <3>2. mine(i) = {run} /\ UNION mine(i) = run
        BY <1>11, <3>1
    <3>3. {x \in dropped : owner[x] = i} = run \ {i}
      <4>1. ASSUME NEW x \in dropped, owner[x] = i PROVE x \in run \ {i}
          BY <1>3, <1>9, <3>1, <4>1
      <4>2. ASSUME NEW x \in run \ {i} PROVE x \in dropped /\ owner[x] = i
        <5>1. x \in dropped
            BY <1>7, <3>1
        <5>2. RunOf(x) = run
            BY <1>8, <1>9, <5>1
        <5> QED
            BY <3>1, <5>1, <5>2
      <4> QED
          BY <4>1, <4>2
    <3>4. IsFiniteSet(run) /\ i \in run
        BY <1>3, <3>1
    <3>5. Cardinality(run \ {i}) = Cardinality(run) - 1 /\ Cardinality(run \ {i}) \in Nat
        BY <3>4, FS_RemoveElement, FS_CardinalityType
    <3>6. Share(i) = Cardinality(run) - 1
        BY <2>2, <3>2
    <3> QED
        BY <3>3, <3>5, <3>6
  <2> QED
      BY <2>1, <2>2
<1>13. \A i \in D : Share(i) \in Int
  <2>1. \A i \in D : mine(i) # {} => \E run \in runs : UNION mine(i) = run
    <3> SUFFICES ASSUME NEW i \in D, NEW run \in mine(i) PROVE UNION mine(i) = run
        OBVIOUS
    <3>1. mine(i) = {run}
        BY <1>11
    <3> QED
        BY <3>1
  <2>2. \A run \in runs : Cardinality(run) \in Int
      BY <1>3
  <2> SUFFICES ASSUME NEW i \in D PROVE Share(i) \in Int
      OBVIOUS
  <2>3. ASSUME mine(i) # {} PROVE Cardinality(UNION mine(i)) - 1 \in Int
    <3>1. PICK run \in runs : UNION mine(i) = run
        BY <2>1, <2>3
    <3>2. Cardinality(UNION mine(i)) = Cardinality(run)
        BY <3>1, Zenon
    <3>3. Cardinality(run) \in Int
        BY <2>2
    <3> QED
        BY <3>2, <3>3
  <2> HIDE DEF mine
  <2> QED
      BY <2>3
<1>14. \A i \in keep : share[i] = Cardinality({x \in dropped : owner[x] = i}) /\ share[i] \in Nat
    BY <1>12
<1>15. \A i \in D : share[i] \in Int /\ f[i] = base[i] + share[i] /\ f[i] \in Int
    BY <1>2, <1>13
<1>16. nights = f
  <2>1. f = [i \in 1..Len(stops) |-> f[i]]
      OBVIOUS
  <2> HIDE DEF f
  <2> QED
      BY <1>2, <2>1, ListOfPlaces, Zenon
<1> HIDE DEF share, owner, mine, Share, f, nights
<1>17. IsFiniteSet(keep) /\ keep \in SUBSET D
    BY <1>2, FS_Subset
<1>18. SumFunctionOnSet(share, keep) = Cardinality(dropped)
  <2> HIDE DEF keep
  <2> QED
      BY <1>5, <1>10, <1>14, <1>17, SumOfShares
<1>19. SumFunctionOnSet(base, dropped) = Cardinality(dropped)
  <2>1. \A i \in dropped : base[i] = 1
      BY <1>2, <1>3, <1>5
  <2> HIDE DEF base
  <2> QED
      BY <1>5, <2>1, SumOfOnes
<1>20. SumFunctionOnSet(base, D) = SumFunctionOnSet(base, dropped) + SumFunctionOnSet(base, D \ dropped)
  <2>1. \A i \in D : base[i] \in Int
      BY <1>2
  <2>2. dropped \in SUBSET D /\ IsFiniteSet(D)
      BY <1>2, <1>5
  <2> HIDE DEF base, D
  <2> QED
      BY <2>1, <2>2, SumInParts
<1>21. SumFunctionOnSet(f, keep) = SumFunctionOnSet(base, keep) + SumFunctionOnSet(share, keep)
  <2>1. \A i \in keep : base[i] \in Int /\ share[i] \in Int /\ f[i] = base[i] + share[i]
      BY <1>2, <1>15, <1>17
  <2> HIDE DEF base, keep
  <2> QED
      BY <1>17, <2>1, SumOfBoth
<1>22. SumFunctionOnSet(base, keep) \in Nat
  <2>1. \A i \in D : base[i] \in Nat
      BY <1>2
  <2>2. \A T \in SUBSET D : SumFunctionOnSet(base, T) \in Nat
      BY <1>2, <2>1, SumIsANumber
  <2> QED
      BY <1>17, <2>2
<1>23. SumFunctionOnSet(f, keep) = SumFunctionOnSet(base, D)
  <2> HIDE DEF base, D
  <2> QED
      BY <1>5, <1>18, <1>19, <1>20, <1>21, <1>22
<1>24. TotalNights(stops) = SumFunctionOnSet(base, D)
    BY DEF TotalNights, SumFunction, NightsOf
<1>25. Len(stops) >= 1
  <2>1. PICK run \in runs : TRUE
      BY <1>1
  <2>2. Base(route, run) \in D
      BY <1>3, <1>4
  <2> QED
      BY <1>2, <2>2
<1>26. /\ Len(new) = Len(stops) - Cardinality(dropped)
       /\ new[1].place = stops[1].place /\ new[Len(new)].place = stops[Len(stops)].place
       /\ PlacesOf(new) \subseteq PlacesOf(stops)
       /\ TotalNights(new) = SumFunctionOnSet(f, D \ dropped)
  <2>1. \A i \in D : f[i] \in Int
      BY <1>15
  <2> HIDE DEF stops
  <2> QED
      BY <1>2, <1>5, <1>16, <1>25, <2>1, KeptStops
<1> HIDE DEF new
<1>27. 2 * (Len(stops) - Len(new)) <= Cardinality(OvernightIndices(stops))
  <2> HIDE DEF stops
  <2> QED
      BY <1>1, <1>2, <1>4, <1>5, <1>26
<1> QED
    BY <1>1, <1>23, <1>24, <1>26, <1>27 DEF KeepsTheTrip

(***************************************************************************)
(* The nearest neighbour next.                                             *)
(***************************************************************************)
LEMMA KilometresAreNumbers ==
  ASSUME NEW a \in Places, NEW b \in Places PROVE Km[a][b] \in Int
BY CatalogueAssumption

LEMMA NearerIsAnOrder ==
  ASSUME NEW stops, StopsFit(stops), NEW here \in DOMAIN stops, NEW left \in SUBSET DOMAIN stops
  PROVE  StrictOrder(left, {p \in left \X left : Nearer(stops, here, p[1], p[2])})
<1> DEFINE R == {p \in left \X left : Nearer(stops, here, p[1], p[2])}
           d(i) == Km[stops[here].place][stops[i].place]
<1>1. \A i \in left : d(i) \in Int /\ i \in Nat
  <2>1. \A i \in DOMAIN stops : stops[i].place \in Places /\ i \in Nat
      BY ListFacts DEF StopsFit
  <2> QED
      BY <2>1, KilometresAreNumbers
<1>2. \A i, j \in left : <<i, j>> \in R <=> d(i) < d(j) \/ (d(i) = d(j) /\ i < j)
    BY DEF Nearer
<1> HIDE DEF R, d
<1>3. StrictOrder(left, R)
    BY <1>1, <1>2 DEF StrictOrder
<1> QED
    BY <1>3 DEF R

\* Of the stops that are left, one is the nearest.
LEMMA OneIsNearest ==
  ASSUME NEW stops, StopsFit(stops), NEW here \in DOMAIN stops, NEW left \in SUBSET DOMAIN stops, left # {}
  PROVE  \E x \in left : \A y \in left \ {x} : Nearer(stops, here, x, y)
<1> DEFINE R == {p \in left \X left : Nearer(stops, here, p[1], p[2])}
<1>1. IsFiniteSet(left) /\ 1 \in 1..Cardinality(left)
  <2>1. IsFiniteSet(left)
      BY ListFacts, FS_Subset DEF StopsFit
  <2> QED
      BY <2>1, FS_CardinalityType, FS_EmptySet
<1>2. StrictOrder(left, R)
    BY NearerIsAnOrder
<1>3. \A x, y \in left : <<x, y>> \in R <=> Nearer(stops, here, x, y)
    OBVIOUS
<1> HIDE DEF R
<1>4. PICK x \in left : Cardinality(Predecessors(left, R, x)) = 1 - 1
    BY <1>1, <1>2, PlaceOfEach
<1>5. Predecessors(left, R, x) = {}
  <2>1. Predecessors(left, R, x) \in SUBSET left
      BY DEF Predecessors
  <2> QED
      BY <1>1, <1>4, <2>1, FS_Subset, FS_EmptySet
<1>6. \A y \in left \ {x} : <<x, y>> \in R
    BY <1>2, <1>5 DEF Predecessors, StrictOrder
<1> QED
    BY <1>3, <1>6

\* Where the next stop is looked for from, and the next stop as the nearest of those left
From(next, k) == IF k = 2 THEN 1 ELSE next[k - 1]

Left(S, next, k) == S \ {next[j] : j \in 2..k}

GoesToTheNearest(stops, next, last) ==
  \A k \in 2..last : \A x \in Left(Interior(stops), next, k) : Nearer(stops, From(next, k), next[k], x)

LEMMA NearestFirstExists ==
  ASSUME NEW stops, StopsFit(stops), Len(stops) >= 2
  PROVE  \E next \in Bijection(Interior(stops), Interior(stops)) :
           \A k, j \in Interior(stops) :
             k < j => Nearer(stops, IF k = 2 THEN 1 ELSE next[k - 1], next[k], next[j])
<1> DEFINE I == Interior(stops)
           m == Len(stops) - 1
           Good(g, n) == /\ g \in [2..n -> I]
                         /\ \A i, j \in 2..n : g[i] = g[j] => i = j
                         /\ GoesToTheNearest(stops, g, n)
           Q == {n \in Nat : n + 1 <= m => \E g : Good(g, n + 1)}
<1>1. m \in Nat /\ m >= 1 /\ I = 2..m /\ DOMAIN stops = 1..(m + 1) /\ I \subseteq DOMAIN stops
      /\ IsFiniteSet(I) /\ Cardinality(I) = m - 1
  <2>1. Len(stops) \in Nat /\ DOMAIN stops = 1..Len(stops)
      BY ListFacts DEF StopsFit
  <2>2. m \in Nat /\ m >= 1 /\ I = 2..m /\ DOMAIN stops = 1..(m + 1)
      BY <2>1 DEF Interior
  <2>3. I \subseteq DOMAIN stops
      BY <2>2
  <2> HIDE DEF m, I
  <2>4. IsFiniteSet(2..m) /\ Cardinality(2..m) = m - 1
      BY <2>2, FS_Interval
  <2> QED
      BY <2>2, <2>3, <2>4
<1> HIDE DEF I, m
<1>2. 0 \in Q
  <2> DEFINE g == [k \in 2..1 |-> 1]
  <2>1. g \in [2..1 -> I] /\ 2..1 = {}
      OBVIOUS
  <2>2. Good(g, 1)
      BY <2>1 DEF GoesToTheNearest
  <2>3. 0 + 1 = 1
      OBVIOUS
  <2> HIDE DEF Good
  <2> QED
      BY <2>2, <2>3
<1>3. ASSUME NEW n \in Nat, n \in Q PROVE n + 1 \in Q
  <2> SUFFICES ASSUME (n + 1) + 1 <= m PROVE \E h : Good(h, (n + 1) + 1)
      OBVIOUS
  <2> DEFINE p == n + 1
  <2>1. p \in Nat /\ p + 1 <= m /\ p <= m /\ p >= 1
      BY <1>1
  <2>2. PICK g : Good(g, p)
    <3> HIDE DEF Good
    <3> QED
        BY <1>3, <2>1
  <2> HIDE DEF p
  <2> DEFINE left == Left(I, g, p)
             here == From(g, p + 1)
  <2>3. left \in SUBSET DOMAIN stops
      BY <1>1 DEF Left
  <2>4. left # {}
    <3> SUFFICES ASSUME left = {} PROVE FALSE
        OBVIOUS
    <3>1. \A x \in I : \E j \in 2..p : g[j] = x
        BY DEF Left
    <3>2. g \in Surjection(2..p, I)
        BY <2>2, <3>1 DEF Surjection
    <3>3. IsFiniteSet(2..p) /\ Cardinality(2..p) = p - 1
        BY <2>1, FS_Interval
    <3>4. Cardinality(I) <= Cardinality(2..p)
        BY <3>2, <3>3, FS_Surjection
    <3> QED
        BY <1>1, <2>1, <3>3, <3>4
  <2>5. here \in DOMAIN stops
    <3>1. CASE p + 1 = 2
        BY <1>1, <3>1 DEF From
    <3>2. CASE p + 1 # 2
      <4>1. (p + 1) - 1 \in 2..p
          BY <2>1, <3>2
      <4>2. g[(p + 1) - 1] \in I
          BY <2>2, <4>1
      <4> QED
          BY <1>1, <3>2, <4>2 DEF From
    <3> QED
        BY <3>1, <3>2
  <2>6. PICK x \in left : \A y \in left \ {x} : Nearer(stops, here, x, y)
    <3> HIDE DEF left, here
    <3> QED
        BY <2>3, <2>4, <2>5, OneIsNearest
  <2>7. x \in I /\ \A j \in 2..p : g[j] # x
      BY DEF Left
  <2> DEFINE h == [k \in 2..(p + 1) |-> IF k = p + 1 THEN x ELSE g[k]]
  <2>8. 2..p \subseteq 2..(p + 1) /\ (p + 1) \in 2..(p + 1) /\ \A k \in 2..(p + 1) : k \in 2..p \/ k = p + 1
      BY <2>1
  <2>9. (\A k \in 2..p : h[k] = g[k]) /\ h[p + 1] = x
      BY <2>1, <2>8
  <2>10. h \in [2..(p + 1) -> I]
      BY <2>2, <2>7, <2>8
  <2>11. \A i, j \in 2..(p + 1) : h[i] = h[j] => i = j
      BY <2>2, <2>7, <2>8, <2>9
  <2> HIDE DEF h
  <2>12. ASSUME NEW k \in 2..(p + 1), NEW y \in Left(I, h, k)
         PROVE  Nearer(stops, From(h, k), h[k], y)
    <3>1. CASE k \in 2..p
      <4>1. \A j \in 2..k : j \in 2..p
          BY <2>1, <3>1
      <4>2. Left(I, h, k) = Left(I, g, k)
          BY <2>9, <4>1 DEF Left
      <4>3. From(h, k) = From(g, k)
        <5>1. k # 2 => k - 1 \in 2..p
            BY <2>1, <3>1
        <5> QED
            BY <2>9, <5>1 DEF From
      <4>4. \A z \in Left(I, g, k) : Nearer(stops, From(g, k), g[k], z)
          BY <2>2, <3>1 DEF GoesToTheNearest, I
      <4> QED
          BY <2>9, <3>1, <4>2, <4>3, <4>4
    <3>2. CASE k = p + 1
      <4>1. y \in I /\ \A j \in 2..(p + 1) : y # h[j]
          BY <3>2 DEF Left
      <4>2. \A j \in 2..p : y # g[j]
          BY <2>8, <2>9, <4>1
      <4>3. y \in left \ {x}
          BY <2>8, <2>9, <4>1, <4>2 DEF Left
      <4>4. From(h, k) = here
        <5>1. p + 1 # 2 => (p + 1) - 1 \in 2..p
            BY <2>1
        <5> QED
            BY <2>9, <3>2, <5>1 DEF From
      <4> QED
          BY <2>6, <2>9, <3>2, <4>3, <4>4
    <3> QED
        BY <2>8, <3>1, <3>2
  <2>13. Good(h, p + 1)
      BY <2>10, <2>11, <2>12 DEF GoesToTheNearest, I
  <2> QED
      BY <2>13, Zenon DEF p
<1>4. \A n \in Nat : n \in Q
  <2> HIDE DEF Q
  <2> QED
      BY <1>2, <1>3, NumberByNumber
<1>5. PICK next : Good(next, m)
  <2>1. m - 1 \in Nat /\ (m - 1) + 1 = m
      BY <1>1
  <2>2. m - 1 \in Q
      BY <1>4, <2>1
  <2> HIDE DEF Good
  <2>3. \E g : Good(g, (m - 1) + 1)
      BY <1>1, <2>1, <2>2
  <2> QED
      BY <2>1, <2>3
<1>6. next \in Bijection(I, I)
  <2>1. next \in Injection(I, I)
      BY <1>1, <1>5 DEF Injection, IsInjective
  <2>2. next \in Surjection(I, I)
      BY <1>1, <2>1, FS_Injection
  <2> QED
      BY <2>1, <2>2 DEF Bijection
<1>7. ASSUME NEW k \in I, NEW j \in I, k < j
      PROVE  Nearer(stops, IF k = 2 THEN 1 ELSE next[k - 1], next[k], next[j])
  <2>1. next[j] \in I /\ \A i \in 2..k : next[i] # next[j]
    <3>1. j \in 2..m /\ \A i \in 2..k : i \in 2..m /\ i # j
        BY <1>1, <1>7
    <3> QED
        BY <1>5, <3>1
  <2>2. next[j] \in Left(I, next, k)
      BY <2>1 DEF Left
  <2>3. k \in 2..m
      BY <1>1
  <2> QED
      BY <1>5, <2>2, <2>3 DEF GoesToTheNearest, From, I
<1> QED
    BY <1>6, <1>7 DEF I

\* The first and the last stop stay, and every other one has its turn.
LEMMA NearestFirstIs ==
  ASSUME NEW stops, StopsFit(stops), Len(stops) >= 2
  PROVE  LET order == NearestFirst(stops)
         IN  /\ \A i \in DOMAIN stops : order[i] \in DOMAIN stops
             /\ \A i, j \in DOMAIN stops : order[i] = order[j] => i = j
             /\ \A i \in DOMAIN stops : \E j \in DOMAIN stops : order[j] = i
             /\ order[1] = 1 /\ order[Len(stops)] = Len(stops)
<1> DEFINE I == Interior(stops)
           last == Len(stops)
           Nice(next) == \A k, j \in I : k < j => Nearer(stops, IF k = 2 THEN 1 ELSE next[k - 1], next[k], next[j])
           next == CHOOSE next \in Bijection(I, I) : Nice(next)
           f == [k \in 1..last |-> IF k \in I THEN next[k] ELSE k]
           order == NearestFirst(stops)
<1>1. last \in Nat /\ last >= 2 /\ DOMAIN stops = 1..last /\ I = 2..(last - 1) /\ I \subseteq 1..last
      /\ 1 \notin I /\ last \notin I /\ 1 \in 1..last /\ last \in 1..last
    BY ListFacts DEF StopsFit, Interior
<1>2. \E g \in Bijection(I, I) : Nice(g)
    BY NearestFirstExists
<1>3. next \in Bijection(I, I)
  <2> HIDE DEF Nice, I
  <2> QED
      BY <1>2
<1>4. order = SubSeq(f, 1, last)
    BY DEF NearestFirst, Listing
<1> HIDE DEF next, I
<1>5. order = f
  <2>1. f = [k \in 1..last |-> f[k]]
      OBVIOUS
  <2> HIDE DEF f, order
  <2> QED
      BY <1>1, <1>4, <2>1, ListOfPlaces, Zenon
<1>6. /\ \A i \in I : next[i] \in I
      /\ \A i, j \in I : next[i] = next[j] => i = j
      /\ \A i \in I : \E j \in I : next[j] = i
    BY <1>3 DEF Bijection, Injection, Surjection, IsInjective
<1>7. \A i \in 1..last : order[i] = IF i \in I THEN next[i] ELSE i
    BY <1>5
<1> HIDE DEF order
<1>8. \A i \in 1..last : order[i] \in 1..last
    BY <1>1, <1>6, <1>7
<1>9. \A i, j \in 1..last : order[i] = order[j] => i = j
  <2>1. \A i \in 1..last : order[i] \in I <=> i \in I
      BY <1>6, <1>7
  <2>2. \A i \in 1..last : (i \in I => order[i] = next[i]) /\ (i \notin I => order[i] = i)
      BY <1>7
  <2> QED
      BY <1>6, <2>1, <2>2
<1>10. \A i \in 1..last : \E j \in 1..last : order[j] = i
    BY <1>1, <1>6, <1>7
<1>11. order[1] = 1 /\ order[last] = last
    BY <1>1, <1>7
<1> QED
    BY <1>1, <1>8, <1>9, <1>10, <1>11, Zenon DEF order

\* Visiting the same stops in another order keeps them.
LEMMA ReorderingKeeps ==
  ASSUME NEW route, RouteFits(route), NEW c, <<c>> = Reorder(route)
  PROVE  c.strategy = <<"reorder">> /\ KeepsTheTrip(route.stops, c.stops)
<1> DEFINE stops == route.stops
           last == Len(stops)
           order == NearestFirst(stops)
           f == [i \in 1..last |-> stops[order[i]]]
           new == SubSeq(f, 1, last)
           base == NightsOf(stops)
           D == 1..last
<1>1. StopsFit(stops) /\ IsList(stops) /\ last \in Nat /\ DOMAIN stops = D
      /\ IsFiniteSet(D)
    BY ListFacts DEF RouteFits, StopsFit
<1>2. last >= 4 /\ c.strategy = <<"reorder">> /\ c.stops = new
  <2> DEFINE d == Candidate(<<"reorder">>, new, <<>>)
             none == \A i \in DOMAIN stops : order[i] = i
  <2>1. Reorder(route) = IF last < 4 \/ none THEN <<>> ELSE <<d>>
      BY DEF Reorder, Listing
  <2>2. d.strategy = <<"reorder">> /\ d.stops = new
      BY DEF Candidate
  <2> HIDE DEF d, new, none
  <2>3. <<c>> # <<>>
      OBVIOUS
  <2>4. ~(last < 4)
      BY <2>1, <2>3
  <2>5. <<c>> = <<d>>
      BY <2>1, <2>3
  <2>6. c = d
      BY <2>5
  <2> QED
      BY <1>1, <2>2, <2>4, <2>6
<1>3. /\ \A i \in D : order[i] \in D
      /\ \A i, j \in D : order[i] = order[j] => i = j
      /\ \A i \in D : \E j \in D : order[j] = i
      /\ order[1] = 1 /\ order[last] = last
  <2>1. last >= 2 /\ StopsFit(stops) /\ DOMAIN stops = D
      BY <1>1, <1>2
  <2> HIDE DEF stops
  <2>2. /\ \A i \in DOMAIN stops : order[i] \in DOMAIN stops
        /\ \A i, j \in DOMAIN stops : order[i] = order[j] => i = j
        /\ \A i \in DOMAIN stops : \E j \in DOMAIN stops : order[j] = i
        /\ order[1] = 1 /\ order[last] = last
      BY <2>1, NearestFirstIs
  <2> HIDE DEF order, D
  <2> QED
      BY <2>1, <2>2
<1> HIDE DEF order
<1>4. new = f /\ Len(new) = last /\ DOMAIN new = D
  <2>1. f = [k \in 1..last |-> f[k]]
      OBVIOUS
  <2> HIDE DEF f
  <2>2. new = f /\ Len(f) = last /\ DOMAIN f = 1..last
      BY <1>1, <2>1, ListOfPlaces, Zenon
  <2> HIDE DEF new
  <2> QED
      BY <2>2
<1> HIDE DEF new
<1>5. \A i \in D : new[i] = stops[order[i]]
    BY <1>4
<1>6. 1 \in D /\ last \in D
    BY <1>1, <1>2
<1>7. PlacesOf(new) \subseteq PlacesOf(stops)
    BY <1>1, <1>3, <1>4, <1>5 DEF PlacesOf
<1>8. TotalNights(new) = TotalNights(stops)
  <2> DEFINE g == NightsOf(new)
  <2>1. TotalNights(new) = SumFunctionOnSet(g, D)
      BY <1>4 DEF TotalNights, SumFunction, NightsOf
  <2>2. TotalNights(stops) = SumFunctionOnSet(base, D)
      BY <1>1 DEF TotalNights, SumFunction, NightsOf
  <2>3. \A i \in D : base[order[i]] \in Int /\ g[i] = base[order[i]]
    <3>1. \A i \in D : base[i] \in Nat /\ base[i] = stops[i].nights
        BY <1>1 DEF NightsOf, StopsFit
    <3>2. \A i \in D : g[i] = new[i].nights
        BY <1>4 DEF NightsOf
    <3>3. \A i \in D : order[i] \in D
        BY <1>3
    <3> HIDE DEF base, g, D, stops
    <3> QED
        BY <1>5, <3>1, <3>2, <3>3
  <2> HIDE DEF g, base, D
  <2>6. /\ \A i \in D : order[i] \in D
        /\ \A i, j \in D : order[i] = order[j] => i = j
        /\ \A i \in D : \E j \in D : order[j] = i
        /\ IsFiniteSet(D)
      BY <1>1, <1>3
  <2>4. {order[i] : i \in D} = D
      BY <2>6
  <2>5. SumFunctionOnSet(base, {order[i] : i \in D}) = SumFunctionOnSet(g, D)
      BY <2>3, <2>6, SumRenamed
  <2> QED
      BY <2>1, <2>2, <2>4, <2>5
<1>9. 2 * (last - Len(new)) <= Cardinality(OvernightIndices(stops))
  <2>1. Cardinality(OvernightIndices(stops)) \in Nat
      BY <1>1, OvernightIsFinite
  <2> QED
      BY <1>1, <1>4, <2>1
<1>10. new[1].place = stops[1].place /\ new[Len(new)].place = stops[last].place
    BY <1>3, <1>4, <1>5, <1>6
<1> QED
    BY <1>2, <1>7, <1>8, <1>9, <1>10 DEF KeepsTheTrip

(***************************************************************************)
(* The candidates of a route.                                              *)
(***************************************************************************)
\* The stops are ranked by what dropping each would save.
LEMMA RankedIs ==
  ASSUME NEW route, RouteFits(route), NEW S \in SUBSET DOMAIN route.stops
  PROVE  LET ranked == Ranked(route, S)
         IN  /\ IsList(ranked) /\ Range(ranked) = S
             /\ \A k, l \in DOMAIN ranked : k < l => ranked[k] # ranked[l]
<1> DEFINE stops == route.stops
           m(i) == MarginalSaving(route, i)
           R == {p \in S \X S : m(p[1]) > m(p[2]) \/ (m(p[1]) = m(p[2]) /\ p[1] < p[2])}
           Before(i, j) == m(i) > m(j) \/ (m(i) = m(j) /\ i < j)
           n == Cardinality(S)
           At(k) == CHOOSE x \in S : Cardinality({y \in S : Before(y, x)}) = k - 1
           Placed(k) == CHOOSE x \in S : Cardinality(Predecessors(S, R, x)) = k - 1
           f == [k \in 1..n |-> At(k)]
           g == [k \in 1..n |-> Placed(k)]
<1>1. IsList(stops) /\ Len(stops) \in Nat /\ DOMAIN stops = 1..Len(stops) /\ IsFiniteSet(DOMAIN stops)
      /\ \A i \in DOMAIN stops : stops[i].place \in Places
    BY ListFacts DEF RouteFits, StopsFit
<1>2. IsFiniteSet(S)
    BY <1>1, FS_Subset
<1>3. \A i \in S : m(i) \in Int
  <2> SUFFICES ASSUME NEW i \in Interior(stops) PROVE m(i) \in Int
      BY DEF MarginalSaving
  <2>1. i - 1 \in DOMAIN stops /\ i + 1 \in DOMAIN stops
      BY <1>1 DEF Interior
  <2>2. Km[stops[i - 1].place][stops[i + 1].place] \in Int
      BY <1>1, <2>1, KilometresAreNumbers
  <2>3. \A km \in Int : Bypass(km) \in Int
      BY DEF Bypass
  <2>4. InboundMinutes(route, i) \in Nat /\ OutboundMinutes(route, i) \in Nat
    <3>1. IsFiniteSet(DOMAIN route.segments) /\ \A k \in DOMAIN route.segments : LegMinutes(route)[k] \in Nat
        BY DEF RouteFits, LegMinutes
    <3>2. \A T \in SUBSET DOMAIN route.segments : SumFunctionOnSet(LegMinutes(route), T) \in Nat
        BY <3>1, SumIsANumber
    <3> QED
        BY <3>2 DEF InboundMinutes, OutboundMinutes
  <2>5. m(i) = 10 * (InboundMinutes(route, i) + OutboundMinutes(route, i))
                 - Bypass(Km[stops[i - 1].place][stops[i + 1].place])
      BY DEF MarginalSaving
  <2>6. Bypass(Km[stops[i - 1].place][stops[i + 1].place]) \in Int
      BY <2>2, <2>3
  <2> HIDE DEF stops, m
  <2> QED
      BY <2>4, <2>5, <2>6
<1>4. Ranked(route, S) = SubSeq(f, 1, n)
    BY DEF Ranked, Sorted, Listing
<1> HIDE DEF m
<1>5. \A x, y \in S : <<y, x>> \in R <=> Before(y, x)
    OBVIOUS
<1>6. \A x \in S : x \in Int
    BY <1>1
<1>7. StrictOrder(S, R)
  <2> HIDE DEF R
  <2> QED
      BY <1>3, <1>5, <1>6 DEF StrictOrder
<1> HIDE DEF R, Before
<1>8. \A x \in S : {y \in S : Before(y, x)} = Predecessors(S, R, x)
    BY <1>5 DEF Predecessors
<1>9. f = g
  <2>1. ASSUME NEW k \in 1..n PROVE At(k) = Placed(k)
    <3>1. \A x \in S : Cardinality({y \in S : Before(y, x)}) = k - 1 <=> Cardinality(Predecessors(S, R, x)) = k - 1
        BY <1>8, Zenon
    <3> QED
        BY <3>1, Zenon
  <2> HIDE DEF At, Placed
  <2> QED
      BY <2>1
<1>10. Ranked(route, S) = InOrderOf(S, R)
    BY <1>4, <1>9, Zenon DEF InOrderOf
<1> DEFINE s == InOrderOf(S, R)
<1>11. IsList(s) /\ Range(s) = S /\ \A k, l \in DOMAIN s : k < l => s[k] # s[l]
  <2> HIDE DEF stops
  <2>1. /\ IsList(s) /\ Range(s) = S
        /\ \A k, l \in DOMAIN s : k < l => <<s[k], s[l]>> \in R /\ s[k] # s[l]
      BY <1>2, <1>7, InOrderOfIs, Zenon
  <2> HIDE DEF s
  <2> QED
      BY <2>1
<1> QED
    BY <1>10, <1>11, Zenon

\* What generate_candidates may offer
Drop(route, strategy, dropped) ==
  Candidate(strategy, Kept(route.stops, dropped, DropNights(route, dropped)), PlacesAt(route.stops, dropped))

DropOne(route, i) == Drop(route, <<"drop", route.stops[i].place>>, {i})

DropTwo(route, i, j) == Drop(route, <<"drop", route.stops[i].place, route.stops[j].place>>, {i, j})

OneDrops(route) ==
  {DropOne(route, i) : i \in {i \in OvernightIndices(route.stops) : MaxDroppable(route.stops) >= 1}}

TwoDrops(route) ==
  {DropTwo(route, p[1], p[2]) :
     p \in {p \in OvernightIndices(route.stops) \X OvernightIndices(route.stops) :
              p[1] # p[2] /\ MaxDroppable(route.stops) >= 2}}

Offered(route) ==
  UNION {OneDrops(route), TwoDrops(route),
         Range(Consolidate(route, MaxDroppable(route.stops))), Range(Reorder(route))}

\* A list of none or one
LEMMA NoneOrOne ==
  /\ \A T : <<>> \in Seq(T)
  /\ \A T, x : x \in T => <<x>> \in Seq(T)
  /\ \A x : Range(<<x>>) = {x} /\ Range(<<>>) = {}
<1>1. \A x : Range(<<x>>) = {x} /\ Range(<<>>) = {}
    BY DEF Range
<1>2. \A T : <<>> \in Seq(T)
    OBVIOUS
<1>3. \A T, x : x \in T => <<x>> \in Seq(T)
    OBVIOUS
<1> QED
    BY <1>1, <1>2, <1>3

LEMMA SingleDropsAre ==
  ASSUME NEW route, MaxDroppable(route.stops) >= 1,
         NEW top, IsList(top), \A k \in DOMAIN top : top[k] \in OvernightIndices(route.stops)
  PROVE  SingleDrops(route, top) \in Seq(OneDrops(route))
<1> DEFINE n == Len(top)
           T == OneDrops(route)
           f == [k \in 1..n |-> DropStops(route, <<"drop", route.stops[top[k]].place>>, {top[k]})]
<1>1. n \in Nat /\ DOMAIN top = 1..n
    BY ListFacts
<1>2. ASSUME NEW k \in 1..n PROVE f[k] \in Seq(T)
  <2>1. DropOne(route, top[k]) \in T
      BY <1>1 DEF OneDrops
  <2>2. f[k] = DropStops(route, <<"drop", route.stops[top[k]].place>>, {top[k]})
      OBVIOUS
  <2>3. f[k] = <<>> \/ f[k] = <<DropOne(route, top[k])>>
      BY <2>2 DEF DropStops, DropOne, Drop
  <2> QED
      BY <2>1, <2>3, NoneOrOne
<1>3. SingleDrops(route, top) = FlattenSeq(SubSeq(f, 1, n))
    BY DEF SingleDrops, Listing
<1>4. f = [k \in 1..n |-> f[k]]
    OBVIOUS
<1> HIDE DEF f, T
<1>5. SubSeq(f, 1, n) \in Seq(Seq(T))
    BY <1>1, <1>2, <1>4, ListBuiltOf
<1> QED
    BY <1>3, <1>5, FlatteningKeeps DEF T

LEMMA PairDropsAre ==
  ASSUME NEW route, MaxDroppable(route.stops) >= 2,
         NEW top, IsList(top), \A k \in DOMAIN top : top[k] \in OvernightIndices(route.stops),
         \A k, l \in DOMAIN top : k < l => top[k] # top[l]
  PROVE  PairDrops(route, top) \in Seq(TwoDrops(route))
<1> DEFINE D == DOMAIN top
           S == {p \in D \X D : p[1] < p[2]}
           Before(p, q) == p[1] < q[1] \/ (p[1] = q[1] /\ p[2] < q[2])
           R == {r \in S \X S : Before(r[1], r[2])}
           n == Cardinality(S)
           At(k) == CHOOSE x \in S : Cardinality({y \in S : Before(y, x)}) = k - 1
           Placed(k) == CHOOSE x \in S : Cardinality(Predecessors(S, R, x)) = k - 1
           f == [k \in 1..n |-> At(k)]
           g == [k \in 1..n |-> Placed(k)]
           pairs == SubSeq(f, 1, n)
           T == TwoDrops(route)
           at(k, side) == top[pairs[k][side]]
           h == [k \in 1..Len(pairs) |->
                   DropStops(route, <<"drop", route.stops[at(k, 1)].place, route.stops[at(k, 2)].place>>,
                             {at(k, 1), at(k, 2)})]
<1>1. IsFiniteSet(D) /\ D \subseteq Nat
    BY ListFacts
<1>2. IsFiniteSet(S) /\ \A p \in S : p[1] \in D /\ p[2] \in D /\ p[1] < p[2] /\ p = <<p[1], p[2]>>
  <2>1. IsFiniteSet(D \X D)
      BY <1>1, FS_Product
  <2>2. S \subseteq D \X D
      OBVIOUS
  <2>3. IsFiniteSet(S)
      BY <2>1, <2>2, FS_Subset
  <2>4. \A p \in S : p[1] \in D /\ p[2] \in D /\ p[1] < p[2] /\ p = <<p[1], p[2]>>
      OBVIOUS
  <2> QED
      BY <2>3, <2>4
<1>3. \A x, y \in S : <<y, x>> \in R <=> Before(y, x)
    OBVIOUS
<1>4. StrictOrder(S, R)
  <2> HIDE DEF R, S
  <2> QED
      BY <1>1, <1>2, <1>3 DEF StrictOrder
<1>5. PairDrops(route, top) = FlattenSeq(SubSeq(h, 1, Len(pairs)))
    BY DEF PairDrops, Sorted, Listing
<1> HIDE DEF R, S, Before
<1>6. \A x \in S : {y \in S : Before(y, x)} = Predecessors(S, R, x)
    BY <1>3 DEF Predecessors
<1>7. f = g
  <2>1. ASSUME NEW k \in 1..n PROVE At(k) = Placed(k)
    <3>1. \A x \in S : Cardinality({y \in S : Before(y, x)}) = k - 1 <=> Cardinality(Predecessors(S, R, x)) = k - 1
        BY <1>6, Zenon
    <3> QED
        BY <3>1, Zenon
  <2> HIDE DEF At, Placed
  <2> QED
      BY <2>1
<1>8. pairs = InOrderOf(S, R)
    BY <1>7, Zenon DEF InOrderOf
<1> HIDE DEF pairs, f, g
<1>9. pairs \in Seq(S) /\ Len(pairs) \in Nat /\ \A k \in 1..Len(pairs) : pairs[k] \in S
  <2>1. pairs \in Seq(S)
      BY <1>2, <1>4, <1>8, InOrderOfIs
  <2> QED
      BY <2>1
<1>10. ASSUME NEW k \in 1..Len(pairs) PROVE h[k] \in Seq(T)
  <2> DEFINE i == at(k, 1)
             j == at(k, 2)
  <2>1. i \in OvernightIndices(route.stops) /\ j \in OvernightIndices(route.stops) /\ i # j
      BY <1>2, <1>9
  <2>2. h[k] = DropStops(route, <<"drop", route.stops[i].place, route.stops[j].place>>, {i, j})
      OBVIOUS
  <2> HIDE DEF i, j
  <2>3. DropTwo(route, i, j) \in T
    <3>1. <<i, j>> \in OvernightIndices(route.stops) \X OvernightIndices(route.stops)
          /\ <<i, j>>[1] = i /\ <<i, j>>[2] = j
        BY <2>1
    <3> QED
        BY <2>1, <3>1, Zenon DEF TwoDrops
  <2>4. h[k] = <<>> \/ h[k] = <<DropTwo(route, i, j)>>
      BY <2>2 DEF DropStops, DropTwo, Drop
  <2> DEFINE d == DropTwo(route, i, j)
             list == h[k]
  <2> HIDE DEF h, T, d, list
  <2>5. d \in T /\ (list = <<>> \/ list = <<d>>)
      BY <2>3, <2>4 DEF d, list
  <2>6. list \in Seq(T)
    <3>1. CASE list = <<>>
        BY <3>1
    <3>2. CASE list = <<d>>
        BY <2>5, <3>2
    <3> QED
        BY <2>5, <3>1, <3>2
  <2> QED
      BY <2>6 DEF list
<1>11. h = [k \in 1..Len(pairs) |-> h[k]]
    OBVIOUS
<1> HIDE DEF h, T
<1>12. SubSeq(h, 1, Len(pairs)) \in Seq(Seq(T))
    BY <1>9, <1>10, <1>11, ListBuiltOf
<1> QED
    BY <1>5, <1>12, FlatteningKeeps DEF T

\* Leaving out what was offered before offers nothing new.
LEMMA UniqueAre ==
  ASSUME NEW T, NEW s \in Seq(T)
  PROVE  Unique(s) \in Seq(T)
<1> DEFINE S == {k \in DOMAIN s : \A j \in 1..(k - 1) : s[j].stops # s[k].stops}
           first == InOrder(S)
           n == Len(first)
           f == [k \in 1..n |-> s[first[k]]]
<1>1. IsFiniteSet(DOMAIN s) /\ DOMAIN s \subseteq Nat /\ \A k \in DOMAIN s : s[k] \in T
    BY AnySequenceIsAList, ListFacts
<1>2. S \subseteq DOMAIN s /\ S \subseteq Nat /\ IsFiniteSet(S)
  <2>1. S \subseteq DOMAIN s
      OBVIOUS
  <2> HIDE DEF S
  <2> QED
      BY <1>1, <2>1, FS_Subset
<1>3. Unique(s) = SubSeq(f, 1, n)
    BY DEF Unique, Listing
<1> HIDE DEF S
<1>4. n \in Nat /\ \A k \in 1..n : first[k] \in S
    BY <1>2, PositionsInOrder, FS_CardinalityType
<1>5. \A k \in 1..n : f[k] \in T
  <2> HIDE DEF first
  <2> QED
      BY <1>1, <1>2, <1>4
<1>6. f = [k \in 1..n |-> f[k]]
    OBVIOUS
<1> HIDE DEF f, n
<1> QED
    BY <1>3, <1>4, <1>5, <1>6, ListBuiltOf

LEMMA CandidatesAreOffered ==
  ASSUME NEW route, RouteFits(route), NEW backtracking \in BOOLEAN
  PROVE  GenerateCandidates(route, backtracking) \in Seq(Offered(route))
<1> DEFINE stops == route.stops
           O == OvernightIndices(stops)
           limit == MaxDroppable(stops)
           ranked == Ranked(route, O)
           top == FirstOnes(ranked, TopForPairs)
           A == IF limit >= 1 THEN SingleDrops(route, top) ELSE <<>>
           B == IF limit >= 2 THEN PairDrops(route, top) ELSE <<>>
           C == Consolidate(route, limit)
           E == IF backtracking THEN Reorder(route) ELSE <<>>
           T == Offered(route)
<1>1. IsList(ranked) /\ Range(ranked) = O
      /\ \A k, l \in DOMAIN ranked : k < l => ranked[k] # ranked[l]
  <2>1. IsList(stops)
      BY DEF RouteFits, StopsFit
  <2>2. O \in SUBSET DOMAIN stops
      BY <2>1, OvernightIsFinite
  <2> HIDE DEF O
  <2> QED
      BY <2>2, RankedIs
<1>2. IsList(top) /\ DOMAIN top \subseteq DOMAIN ranked /\ \A k \in DOMAIN top : top[k] = ranked[k]
  <2> HIDE DEF ranked
  <2> QED
      BY <1>1, FirstOnesOf DEF TopForPairs
<1> HIDE DEF ranked, top
<1>3. /\ \A k \in DOMAIN top : top[k] \in O
      /\ \A k, l \in DOMAIN top : k < l => top[k] # top[l]
    BY <1>1, <1>2 DEF Range
<1>4. /\ A \in Seq(T) /\ B \in Seq(T) /\ C \in Seq(T) /\ E \in Seq(T)
  <2>1. \A U, V : U \subseteq V => Seq(U) \subseteq Seq(V)
      OBVIOUS
  <2>2. OneDrops(route) \subseteq T /\ TwoDrops(route) \subseteq T
        /\ Range(C) \subseteq T /\ Range(Reorder(route)) \subseteq T
      BY DEF Offered
  <2>3. A \in Seq(T)
    <3>1. CASE limit >= 1
      <4>1. SingleDrops(route, top) \in Seq(OneDrops(route))
          BY <1>2, <1>3, <3>1, SingleDropsAre
      <4> QED
          BY <2>1, <2>2, <3>1, <4>1
    <3>2. CASE ~(limit >= 1)
        BY <3>2, NoneOrOne
    <3> QED
        BY <3>1, <3>2
  <2>4. B \in Seq(T)
    <3>1. CASE limit >= 2
      <4>1. PairDrops(route, top) \in Seq(TwoDrops(route))
          BY <1>2, <1>3, <3>1, PairDropsAre
      <4> QED
          BY <2>1, <2>2, <3>1, <4>1
    <3>2. CASE ~(limit >= 2)
        BY <3>2, NoneOrOne
    <3> QED
        BY <3>1, <3>2
  <2>5. \A s : s = <<>> \/ (\E x : s = <<x>>) => s \in Seq(Range(s))
    <3>1. \A x : <<x>> \in Seq(Range(<<x>>))
        BY NoneOrOne
    <3> QED
        BY <3>1, NoneOrOne
  <2>6. C = <<>> \/ \E x : C = <<x>>
      BY DEF Consolidate
  <2>7. Reorder(route) = <<>> \/ \E x : Reorder(route) = <<x>>
      BY DEF Reorder
  <2> HIDE DEF C
  <2>8. C \in Seq(T)
      BY <2>1, <2>2, <2>5, <2>6
  <2>9. Reorder(route) \in Seq(T)
      BY <2>1, <2>2, <2>5, <2>7
  <2>10. E \in Seq(T)
      BY <2>9, NoneOrOne
  <2> QED
      BY <2>3, <2>4, <2>8, <2>10
<1>5. GenerateCandidates(route, backtracking) = FirstOnes(Unique(A \o B \o C \o E), MaxCandidates)
    BY DEF GenerateCandidates, ranked, top
<1> HIDE DEF A, B, C, E, T
<1>6. A \o B \o C \o E \in Seq(T)
    BY <1>4
<1>7. Unique(A \o B \o C \o E) \in Seq(T)
    BY <1>6, UniqueAre
<1> QED
    BY <1>5, <1>7, FirstOfThem DEF MaxCandidates, T

\* Every one of them is still the trip.
LEMMA OfferedKeep ==
  ASSUME NEW route, RouteFits(route), NEW c \in Offered(route)
  PROVE  KeepsTheTrip(route.stops, c.stops)
<1> DEFINE stops == route.stops
           O == OvernightIndices(stops)
           limit == MaxDroppable(stops)
<1>1. IsFiniteSet(O) /\ Cardinality(O) \in Nat /\ limit \in Nat
    BY OvernightIsFinite DEF RouteFits, StopsFit
<1>2. CASE c \in OneDrops(route)
  <2>1. PICK i \in O : limit >= 1 /\ c = DropOne(route, i)
      BY <1>2 DEF OneDrops
  <2>2. c.stops = Kept(stops, {i}, DropNights(route, {i}))
      BY <2>1 DEF DropOne, Drop, Candidate
  <2>3. {i} \in SUBSET O /\ {i} # {} /\ Cardinality({i}) <= limit
      BY <1>1, <2>1, FS_Singleton
  <2> QED
      BY <2>2, <2>3, DroppingKeeps
<1>3. CASE c \in TwoDrops(route)
  <2>1. PICK p \in O \X O : limit >= 2 /\ c = DropTwo(route, p[1], p[2])
      BY <1>3 DEF TwoDrops
  <2>2. c.stops = Kept(stops, {p[1], p[2]}, DropNights(route, {p[1], p[2]}))
      BY <2>1 DEF DropTwo, Drop, Candidate
  <2>3. {p[1], p[2]} \in SUBSET O /\ {p[1], p[2]} # {}
      OBVIOUS
  <2>4. Cardinality({p[1], p[2]}) <= 2
    <3> DEFINE i == p[1]
               j == p[2]
    <3>1. {i, j} = {i} \cup {j}
        OBVIOUS
    <3>2. IsFiniteSet({i}) /\ Cardinality({i}) = 1
        BY FS_Singleton
    <3> HIDE DEF i, j
    <3>3. Cardinality({i} \cup {j}) = IF j \in {i} THEN 1 ELSE 1 + 1
        BY <3>2, FS_AddElement
    <3> QED
        BY <3>1, <3>3 DEF i, j
  <2>5. Cardinality({p[1], p[2]}) <= limit
    <3> DEFINE pair == {p[1], p[2]}
    <3>1. pair \in SUBSET O
        BY <2>3
    <3> HIDE DEF pair, O, limit
    <3>2. Cardinality(pair) \in Nat
        BY <1>1, <3>1, FS_Subset, FS_CardinalityType
    <3>3. limit >= 2
        BY <2>1
    <3>4. Cardinality(pair) <= 2
        BY <2>4 DEF pair
    <3>5. Cardinality(pair) <= limit
        BY <1>1, <3>2, <3>3, <3>4
    <3> QED
        BY <3>5 DEF pair
  <2> HIDE DEF stops, limit, O
  <2> QED
      BY <2>2, <2>3, <2>5, DroppingKeeps DEF stops, limit, O
<1>4. CASE c \in Range(Consolidate(route, limit))
  <2>1. Consolidate(route, limit) = <<>> \/ \E x : Consolidate(route, limit) = <<x>>
      BY DEF Consolidate
  <2>2. Consolidate(route, limit) = <<c>>
      BY <1>4, <2>1, NoneOrOne
  <2> QED
      BY <2>2, ConsolidatingKeeps
<1>5. CASE c \in Range(Reorder(route))
  <2>1. Reorder(route) = <<>> \/ \E x : Reorder(route) = <<x>>
      BY DEF Reorder
  <2>2. Reorder(route) = <<c>>
      BY <1>5, <2>1, NoneOrOne
  <2> QED
      BY <2>2, ReorderingKeeps
<1> QED
    BY <1>2, <1>3, <1>4, <1>5 DEF Offered

\* On a route that stays at no place twice, the places tell the stops apart.
LEMMA PlacesTell ==
  ASSUME NEW stops, IsList(stops), VisitedOnce(stops)
  PROVE  \A i, j \in DOMAIN stops : stops[i].place = stops[j].place => i = j
<1> DEFINE D == DOMAIN stops
           place == [i \in D |-> stops[i].place]
<1>1. IsFiniteSet(D) /\ Cardinality(D) = Len(stops)
  <2> DEFINE n == Len(stops)
  <2>1. n \in Nat /\ D = 1..n
      BY ListFacts
  <2> HIDE DEF n, D
  <2>2. IsFiniteSet(1..n) /\ Cardinality(1..n) = n
      BY <2>1, FS_Interval
  <2> QED
      BY <2>1, <2>2 DEF n
<1>2. place \in Surjection(D, PlacesOf(stops))
    BY DEF Surjection, PlacesOf
<1>3. place \in Injection(D, PlacesOf(stops))
  <2> HIDE DEF D, place
  <2> QED
      BY <1>1, <1>2, FS_Surjection DEF VisitedOnce
<1> QED
    BY <1>3 DEF Injection, IsInjective

\* There, the name of a strategy tells the candidate.
LEMMA NamesTell ==
  ASSUME NEW route, RouteFits(route), VisitedOnce(route.stops),
         NEW c \in Offered(route), NEW d \in Offered(route), c.strategy = d.strategy
  PROVE  c = d
<1> DEFINE stops == route.stops
           O == OvernightIndices(stops)
           limit == MaxDroppable(stops)
           One(x, s, i) == i \in O /\ x = DropOne(route, i) /\ s = <<"drop", stops[i].place>>
           Two(x, s, i, j) == i \in O /\ j \in O /\ x = DropTwo(route, i, j)
                                /\ s = <<"drop", stops[i].place, stops[j].place>>
           Fold(x, s) == Consolidate(route, limit) = <<x>> /\ s = <<"consolidate">>
           Turn(x, s) == Reorder(route) = <<x>> /\ s = <<"reorder">>
           OneOf(x, s) == (\E i : One(x, s, i)) \/ (\E i, j : Two(x, s, i, j)) \/ Fold(x, s) \/ Turn(x, s)
<1>1. \A i, j \in O : stops[i].place = stops[j].place => i = j
  <2>1. IsList(stops)
      BY DEF RouteFits, StopsFit
  <2>2. O \subseteq DOMAIN stops
      BY <2>1, OvernightIsFinite
  <2> QED
      BY <2>1, <2>2, PlacesTell
<1>2. ASSUME NEW x \in Offered(route) PROVE OneOf(x, x.strategy)
  <2>1. CASE x \in OneDrops(route)
    <3>1. PICK i \in O : x = DropOne(route, i)
        BY <2>1 DEF OneDrops
    <3>2. x.strategy = <<"drop", stops[i].place>>
        BY <3>1 DEF DropOne, Drop, Candidate
    <3>3. One(x, x.strategy, i)
        BY <3>1, <3>2
    <3> QED
        BY <3>3
  <2>2. CASE x \in TwoDrops(route)
    <3>1. PICK p \in O \X O : x = DropTwo(route, p[1], p[2])
        BY <2>2 DEF TwoDrops
    <3>2. x.strategy = <<"drop", stops[p[1]].place, stops[p[2]].place>>
        BY <3>1 DEF DropTwo, Drop, Candidate
    <3>3. Two(x, x.strategy, p[1], p[2])
        BY <3>1, <3>2
    <3> HIDE DEF Two, One, Fold, Turn
    <3> QED
        BY <3>3
  <2>3. CASE x \in Range(Consolidate(route, limit))
    <3>1. Consolidate(route, limit) = <<>> \/ \E y : Consolidate(route, limit) = <<y>>
        BY DEF Consolidate
    <3>2. Consolidate(route, limit) = <<x>>
        BY <2>3, <3>1, NoneOrOne
    <3>3. Fold(x, x.strategy)
        BY <3>2, ConsolidatingKeeps
    <3> HIDE DEF Two, One, Fold, Turn
    <3> QED
        BY <3>3
  <2>4. CASE x \in Range(Reorder(route))
    <3>1. Reorder(route) = <<>> \/ \E y : Reorder(route) = <<y>>
        BY DEF Reorder
    <3>2. Reorder(route) = <<x>>
        BY <2>4, <3>1, NoneOrOne
    <3>3. Turn(x, x.strategy)
        BY <3>2, ReorderingKeeps
    <3> HIDE DEF Two, One, Fold, Turn
    <3> QED
        BY <3>3
  <2> HIDE DEF OneOf
  <2> QED
      BY <2>1, <2>2, <2>3, <2>4 DEF Offered
<1> DEFINE s == c.strategy
<1>3. OneOf(c, s) /\ OneOf(d, s)
    BY <1>2
<1> HIDE DEF s, O
<1>4. \A p, q, r : /\ <<"drop", p>> # <<"drop", q, r>> /\ <<"drop", p>> # <<"consolidate">>
                   /\ <<"drop", p>> # <<"reorder">>
    OBVIOUS
<1>5. \A p, q : <<"drop", p, q>> # <<"consolidate">> /\ <<"drop", p, q>> # <<"reorder">>
    OBVIOUS
<1>6. <<"consolidate">> # <<"reorder">>
    OBVIOUS
<1>7. ASSUME NEW i, One(c, s, i) PROVE c = d
  <2>1. PICK j : One(d, s, j)
      BY <1>3, <1>4, <1>7
  <2>2. stops[i].place = stops[j].place
      BY <1>7, <2>1
  <2> QED
      BY <1>1, <1>7, <2>1, <2>2
<1>8. ASSUME NEW i, NEW j, Two(c, s, i, j) PROVE c = d
  <2>1. PICK k, l : Two(d, s, k, l)
      BY <1>3, <1>4, <1>5, <1>8
  <2>2. stops[i].place = stops[k].place /\ stops[j].place = stops[l].place
      BY <1>8, <2>1
  <2> QED
      BY <1>1, <1>8, <2>1, <2>2
<1>9. ASSUME Fold(c, s) PROVE c = d
  <2>1. Fold(d, s)
      BY <1>3, <1>4, <1>5, <1>6, <1>9
  <2>2. <<c>> = <<d>>
      BY <1>9, <2>1
  <2> QED
      BY <2>2
<1>10. ASSUME Turn(c, s) PROVE c = d
  <2>1. Turn(d, s)
      BY <1>3, <1>4, <1>5, <1>6, <1>10
  <2>2. <<c>> = <<d>>
      BY <1>10, <2>1
  <2> QED
      BY <2>2
<1> HIDE DEF One, Two, Fold, Turn
<1> QED
    BY <1>3, <1>7, <1>8, <1>9, <1>10

(***************************************************************************)
(* The chosen revision.                                                    *)
(***************************************************************************)
WithLoad(c) == [strategy |-> c.strategy, stops |-> c.stops, dropped |-> c.dropped, load |-> LoadOf(c.stops)]

\* What is costed are candidates, each with its load.
LEMMA CostedAre ==
  ASSUME NEW T, NEW candidates \in Seq(T), NEW answered \in SUBSET DOMAIN candidates
  PROVE  LET costed == Costed(candidates, answered)
         IN  IsList(costed) /\ Range(costed) \subseteq {WithLoad(c) : c \in T}
<1> DEFINE order == InOrder(answered)
           n == Len(order)
           costed == Costed(candidates, answered)
           f == [k \in 1..n |-> WithLoad(candidates[order[k]])]
<1>1. IsFiniteSet(answered) /\ answered \subseteq Nat /\ \A k \in answered : candidates[k] \in T
  <2>1. IsFiniteSet(DOMAIN candidates) /\ DOMAIN candidates \subseteq Nat
      BY AnySequenceIsAList, ListFacts
  <2> QED
      BY <2>1, FS_Subset
<1>2. n \in Nat /\ \A k \in 1..n : order[k] \in answered
    BY <1>1, PositionsInOrder, FS_CardinalityType
<1>3. costed = SubSeq(f, 1, n)
    BY DEF Costed, Listing, WithLoad
<1>4. f = [k \in 1..n |-> f[k]]
    OBVIOUS
<1>5. \A k \in 1..n : f[k] \in {WithLoad(c) : c \in T}
  <2> HIDE DEF order, n
  <2>1. \A k \in 1..n : f[k] = WithLoad(candidates[order[k]]) /\ candidates[order[k]] \in T
      BY <1>1, <1>2
  <2> HIDE DEF f
  <2> QED
      BY <2>1
<1> HIDE DEF f, n, costed
<1>6. costed \in Seq({WithLoad(c) : c \in T})
    BY <1>2, <1>3, <1>4, <1>5, ListBuiltOf
<1> QED
    BY <1>6, AnySequenceIsAList DEF costed

\* The revision looked up by its name keeps the trip; where no place is stayed at
\* twice it is the one that was found best.
LEMMA ChosenIs ==
  ASSUME NEW route, RouteFits(route),
         NEW costed, IsList(costed), Range(costed) \subseteq {WithLoad(c) : c \in Offered(route)},
         NEW chosen \in ChosenAmong(costed, route), chosen # None
  PROVE  KeepsTheTrip(route.stops, chosen.stops) /\ (VisitedOnce(route.stops) => Improves(chosen, route))
<1> DEFINE best == ChooseBest(Range(costed), route)
<1>1. PICK b \in best : chosen = FirstNamed(costed, b.strategy)
    BY DEF ChosenAmong
<1>2. b \in Range(costed) /\ Improves(b, route)
    BY DEF ChooseBest, Bests
<1> DEFINE S == {k \in DOMAIN costed : costed[k].strategy = b.strategy}
<1>3. chosen = costed[Min(S)] /\ S # {} /\ S \subseteq Nat /\ S \subseteq DOMAIN costed
  <2>1. DOMAIN costed \subseteq Nat
      BY ListFacts
  <2> QED
      BY <1>1, <1>2, <2>1 DEF FirstNamed, Range
<1>4. Min(S) \in S
  <2> HIDE DEF S
  <2> QED
      BY <1>3, LeastIsOneOf
<1>5. chosen \in Range(costed) /\ chosen.strategy = b.strategy
    BY <1>3, <1>4 DEF Range
<1>6. PICK c \in Offered(route) : chosen = WithLoad(c)
    BY <1>5
<1>7. PICK d \in Offered(route) : b = WithLoad(d)
    BY <1>2
<1>8. chosen.stops = c.stops /\ chosen.strategy = c.strategy /\ b.strategy = d.strategy
    BY <1>6, <1>7 DEF WithLoad
<1>9. KeepsTheTrip(route.stops, chosen.stops)
    BY <1>8, OfferedKeep
<1>10. VisitedOnce(route.stops) => c = d
    BY <1>5, <1>8, NamesTell
<1> QED
    BY <1>2, <1>6, <1>7, <1>9, <1>10

(***************************************************************************)
(* The legs of a route.                                                    *)
(***************************************************************************)
\* An estimate takes a number of minutes.
LEMMA EstimatesAreOptions ==
  ASSUME NEW km \in Nat, NEW allowCar
  PROVE  Estimates(km, allowCar) \subseteq OptionRecords
<1> DEFINE Used == {"local_train", "local_bus", "car", "limited_express", "shinkansen", "highway_bus", "flight"}
<1>1. \A mode \in Used : EstimateOption(km, mode) \in OptionRecords
  <2>1. \A m \in {28, 45, 55, 58, 75, 140, 260} : (2 * (60 * km) + m) \div (2 * m) \in Nat
      OBVIOUS
  <2>2. \A mode \in Used : EffectiveKmh[mode] \in {28, 45, 55, 58, 75, 140, 260} /\ OverheadMinutes[mode] \in Nat
    <3>1. EffectiveKmh["local_train"] = 45 /\ OverheadMinutes["local_train"] = 20
        BY DEF EffectiveKmh, OverheadMinutes, Modes, PublicModes
    <3>2. EffectiveKmh["local_bus"] = 28 /\ OverheadMinutes["local_bus"] = 20
        BY DEF EffectiveKmh, OverheadMinutes, Modes, PublicModes
    <3>3. EffectiveKmh["car"] = 58 /\ OverheadMinutes["car"] = 15
        BY DEF EffectiveKmh, OverheadMinutes, Modes, PublicModes
    <3>4. EffectiveKmh["limited_express"] = 75 /\ OverheadMinutes["limited_express"] = 30
        BY DEF EffectiveKmh, OverheadMinutes, Modes, PublicModes
    <3>5. EffectiveKmh["shinkansen"] = 140 /\ OverheadMinutes["shinkansen"] = 35
        BY DEF EffectiveKmh, OverheadMinutes, Modes, PublicModes
    <3>6. EffectiveKmh["highway_bus"] = 55 /\ OverheadMinutes["highway_bus"] = 30
        BY DEF EffectiveKmh, OverheadMinutes, Modes, PublicModes
    <3>7. EffectiveKmh["flight"] = 260 /\ OverheadMinutes["flight"] = 180
        BY DEF EffectiveKmh, OverheadMinutes, Modes, PublicModes
    <3> QED
        BY <3>1, <3>2, <3>3, <3>4, <3>5, <3>6, <3>7
  <2>3. \A mode \in Used : Rounded(60 * km, EffectiveKmh[mode]) + OverheadMinutes[mode] \in Nat
      BY <2>1, <2>2 DEF Rounded
  <2>4. Used \subseteq Modes
      BY DEF Modes, PublicModes
  <2> HIDE DEF Used
  <2> QED
      BY <2>3, <2>4 DEF EstimateOption, Option, OptionRecords
<1>2. PlausibleModes(km) \subseteq Used
    BY DEF PlausibleModes
<1> HIDE DEF Used
<1> QED
    BY <1>1, <1>2 DEF Estimates

LEMMA FastestIsOneOf ==
  ASSUME NEW options \in SUBSET OptionRecords, options # {}
  PROVE  Fastest(options) \in options
<1> DEFINE T == {o.minutes : o \in options}
<1>1. T \subseteq Nat /\ T # {}
    BY DEF OptionRecords
<1>2. PICK m \in T : \A n \in T : m <= n
  <2> HIDE DEF T
  <2> QED
      BY <1>1, LeastExists
<1>3. PICK o \in options : o.minutes = m
    OBVIOUS
<1>4. \A p \in options : o.minutes <= p.minutes
    BY <1>2, <1>3
<1> QED
    BY <1>4 DEF Fastest

LEMMA PickedTakesMinutes ==
  ASSUME NEW a \in Places, NEW b \in Places, NEW allowCar, OptionsBetween(a, b, allowCar) # {}
  PROVE  PickOption(OptionsBetween(a, b, allowCar)).minutes \in Nat
<1> DEFINE rows == Records[a][b] \cup Records[b][a]
           km == Km[a][b]
           options == OptionsBetween(a, b, allowCar)
<1>1. rows \in SUBSET OptionRecords /\ km \in Int
    BY CatalogueAssumption
<1>2. options \in SUBSET OptionRecords
  <2>1. options = SeededOptions(rows, km, allowCar)
      BY DEF OptionsBetween
  <2>2. UsableRows(rows, allowCar) \subseteq rows
      BY DEF UsableRows
  <2>3. rows # {} => [Fastest(rows) EXCEPT !.needsCar = TRUE] \in OptionRecords
    <3> HIDE DEF rows
    <3>1. rows # {} => Fastest(rows) \in OptionRecords
        BY <1>1, FastestIsOneOf
    <3> QED
        BY <3>1 DEF OptionRecords
  <2>4. km >= 0 => Estimates(km, allowCar) \subseteq OptionRecords
    <3> HIDE DEF km
    <3> QED
        BY <1>1, EstimatesAreOptions
  <2> HIDE DEF rows, km, options
  <2> QED
      BY <1>1, <2>1, <2>2, <2>3, <2>4 DEF SeededOptions
<1>3. \A S \in SUBSET options : S # {} => Fastest(S) \in OptionRecords
    BY <1>2, FastestIsOneOf
<1>4. PublicOptions(options) \in SUBSET options /\ Verified(PublicOptions(options)) \in SUBSET options
    BY DEF PublicOptions, Verified
<1> HIDE DEF options
<1>5. PickOption(options) \in OptionRecords
    BY <1>3, <1>4 DEF PickOption, options
<1> QED
    BY <1>5 DEF OptionRecords, options

\* The legs of a list of stops take minutes.
LegsFit(legs) == IsList(legs) /\ \A k \in DOMAIN legs : legs[k].minutes \in Nat

LEMMA SegmentsFit ==
  ASSUME NEW stops, StopsFit(stops), NEW allowCar
  PROVE  LET segments == Segments(stops, allowCar)
         IN  LegsFit(segments) /\ \A k \in DOMAIN segments : segments[k].to \in DOMAIN stops
<1> DEFINE Between(i) == OptionsBetween(stops[i].place, stops[i + 1].place, allowCar)
           S == {i \in Hops(stops) : Between(i) # {}}
           joined == InOrder(S)
           n == Len(joined)
           f == [k \in 1..n |-> Segment(stops, joined[k], PickOption(Between(joined[k])))]
<1>1. Len(stops) \in Nat /\ DOMAIN stops = 1..Len(stops)
    BY ListFacts DEF StopsFit
<1>2. S \subseteq Nat /\ IsFiniteSet(S) /\ \A i \in S : i \in DOMAIN stops /\ i + 1 \in DOMAIN stops /\ Between(i) # {}
  <2>1. Hops(stops) \subseteq Nat /\ IsFiniteSet(Hops(stops))
        /\ \A i \in Hops(stops) : i \in DOMAIN stops /\ i + 1 \in DOMAIN stops
    <3> DEFINE m == Len(stops) - 1
    <3>1. m \in Int /\ Hops(stops) = 1..m /\ \A i \in 1..m : i \in DOMAIN stops /\ i + 1 \in DOMAIN stops
        BY <1>1 DEF Hops
    <3> HIDE DEF m
    <3>2. IsFiniteSet(1..m)
        BY <3>1, FS_Interval
    <3> QED
        BY <3>1, <3>2
  <2>2. S \subseteq Hops(stops) /\ \A i \in S : Between(i) # {}
      OBVIOUS
  <2> HIDE DEF S
  <2> QED
      BY <2>1, <2>2, FS_Subset
<1>3. Segments(stops, allowCar) = SubSeq(f, 1, n)
    BY DEF Segments, Listing
<1> HIDE DEF S
<1>4. n \in Nat /\ \A k \in 1..n : joined[k] \in S
  <2>1. Cardinality(S) \in Nat /\ n = Cardinality(S)
      BY <1>2, PositionsInOrder, FS_CardinalityType
  <2>2. \A k \in 1..Cardinality(S) : joined[k] \in S
      BY <1>2, PositionsInOrder
  <2> HIDE DEF joined, n
  <2> QED
      BY <2>1, <2>2
<1> HIDE DEF joined
<1>5. ASSUME NEW k \in 1..n PROVE f[k].minutes \in Nat /\ f[k].to \in DOMAIN stops
  <2> DEFINE i == joined[k]
             option == PickOption(Between(i))
  <2>1. i \in DOMAIN stops /\ i + 1 \in DOMAIN stops /\ Between(i) # {}
      BY <1>2, <1>4
  <2>2. stops[i].place \in Places /\ stops[i + 1].place \in Places
      BY <2>1 DEF StopsFit
  <2>3. option.minutes \in Nat
    <3> HIDE DEF i
    <3> QED
        BY <2>1, <2>2, PickedTakesMinutes
  <2>4. f[k] = Segment(stops, i, option)
      OBVIOUS
  <2> HIDE DEF f, i, option
  <2>5. Segment(stops, i, option).minutes = option.minutes /\ Segment(stops, i, option).to = i + 1
      BY DEF Segment
  <2> QED
      BY <2>1, <2>3, <2>4, <2>5
<1>6. f = [k \in 1..n |-> f[k]]
    OBVIOUS
<1> HIDE DEF f, n
<1>7. Segments(stops, allowCar) = f /\ IsList(f) /\ DOMAIN f = 1..n
    BY <1>3, <1>4, <1>6, ListOfPlaces, Zenon
<1> QED
    BY <1>5, <1>7 DEF LegsFit

\* Taken for the next pair of stops, they still do.
LEMMA RebuiltFits ==
  ASSUME NEW stops, StopsFit(stops), NEW legs, LegsFit(legs)
  PROVE  RouteFits(RebuildRoute(stops, legs)) /\ RebuildRoute(stops, legs).stops = stops
<1> DEFINE both == (DOMAIN legs) \cap Hops(stops)
           n == Cardinality(both)
           segments == [k \in 1..n |-> [legs[k] EXCEPT !.from = k, !.to = k + 1]]
           last == Len(legs)
<1>1. last \in Nat /\ DOMAIN legs = 1..last /\ IsFiniteSet(1..last) /\ Cardinality(1..last) = last
  <2>1. last \in Nat /\ DOMAIN legs = 1..last
      BY ListFacts DEF LegsFit
  <2> HIDE DEF last
  <2> QED
      BY <2>1, FS_Interval
<1>2. n \in Nat /\ n <= last
  <2>1. both \subseteq 1..last
      BY <1>1
  <2> HIDE DEF both, last
  <2>2. IsFiniteSet(both) /\ Cardinality(both) <= Cardinality(1..last)
      BY <1>1, <2>1, FS_Subset
  <2> QED
      BY <1>1, <2>2, FS_CardinalityType
<1> HIDE DEF both
<1>3. \A k \in 1..n : k \in DOMAIN legs
    BY <1>1, <1>2
<1>4. \A k \in 1..n : segments[k].minutes = legs[k].minutes
  <2> SUFFICES ASSUME NEW k \in 1..n PROVE segments[k].minutes = legs[k].minutes
      OBVIOUS
  <2>1. segments[k] = [legs[k] EXCEPT !.from = k, !.to = k + 1]
      OBVIOUS
  <2> HIDE DEF segments
  <2> QED
      BY <2>1
<1>5. IsFiniteSet(1..n) /\ DOMAIN segments = 1..n
  <2>1. DOMAIN segments = 1..n
      OBVIOUS
  <2> HIDE DEF n, segments
  <2> QED
      BY <1>2, <2>1, FS_Interval
<1>6. RebuildRoute(stops, legs).stops = stops /\ RebuildRoute(stops, legs).segments = segments
    BY DEF RebuildRoute, both
<1> HIDE DEF segments
<1> QED
    BY <1>3, <1>4, <1>5, <1>6 DEF RouteFits, LegsFit

(***************************************************************************)
(* The invariant: what each part of the graph leaves behind.               *)
(***************************************************************************)
AfterGrounding == {"confidence_check", "human_review", "result", "done"}

AfterChecks ==
  {"detect_route_issues", "generate_candidate_fixes", "narrate_critique", "grounding_check"}
    \cup AfterGrounding

AfterTransport == {"retrieve_constraints", "run_deterministic_checks"}

Nodes ==
  {"parse_itinerary", "resolve_places", "load_trip_state", "retrieve_structured_facts",
   "call_transport_tools"} \cup AfterTransport \cup AfterChecks

\* The most calls a run can have made when a node begins.
Spent(n) ==
  CASE n \in {"parse_itinerary", "resolve_places"} -> 0
    [] n = "load_trip_state" -> MaxStops
    [] n = "retrieve_structured_facts" -> MaxStops + 1
    [] n = "call_transport_tools" -> MaxStops + 3
    [] n = "retrieve_constraints" -> MaxStops + 4
    [] n = "run_deterministic_checks" -> MaxStops + 5
    [] n \in {"detect_route_issues", "generate_candidate_fixes"} -> MaxStops + 6
    [] n \in {"narrate_critique", "grounding_check"} -> MaxStops + 6 + MaxRevisionCandidates
    [] n \in {"confidence_check", "human_review"} -> MaxStops + 7 + MaxRevisionCandidates
    [] OTHER -> MaxStops + 8 + MaxRevisionCandidates

Shape == DOMAIN state = DOMAIN EmptyState

WithinBudget ==
  /\ request \in Requests
  /\ node \in Nodes
  /\ used \in 0..Spent(node)
  /\ node = "parse_itinerary" => state.stops = <<>>
  /\ node = "resolve_places" => Len(state.stops) \in 0..MaxStops

GapsAreLeft ==
  /\ node \in AfterTransport /\ Len(state.resolved) < 2 => state.gaps # {}
  /\ node \in AfterChecks /\ state.gaps = {} => state.route # None /\ state.load # None

\* What the report of a draft promises of the state it was drawn from
ReportIsEarned ==
  /\ state.report.confidence = High => state.gaps = {} /\ state.evidence # {} /\ state.conflicts = {}
  /\ state.conflicts # {} => state.report.confidence < High /\ NeedsHuman(state.report)

ResultIsTold ==
  /\ node \in {"human_review", "result", "done"} /\ state.conflicts # {} =>
       state.status = "needs_human_review"
  /\ node # "done" => state.result = None
  /\ node = "done" =>
       /\ state.result.confidence = state.report.confidence
       /\ state.result.status = state.status
       /\ state.conflicts # {} => state.result.closing.caveats

IInv ==
  /\ Shape
  /\ WithinBudget
  /\ GapsAreLeft
  /\ node \in AfterGrounding => ReportIsEarned
  /\ ResultIsTold

(***************************************************************************)
(* The report of the guardrails.                                           *)
(***************************************************************************)
\* A report of high confidence is of a draft with evidence, without a conflict
\* and without a gap; a conflict always asks for a human.
LEMMA ReportOfDraft ==
  ASSUME NEW d
  PROVE  /\ Report(d).confidence = High => d.gaps = {} /\ d.evidence # {} /\ ~d.disputed
         /\ d.disputed => Report(d).confidence < High /\ NeedsHuman(Report(d))
<1> DEFINE S == {High} \cup {Cap(d, code) : code \in Findings(d)}
                  \cup (IF d.evidence = {} THEN {Insufficient} ELSE {})
                  \cup (IF d.disputed THEN {Medium} ELSE {})
<1>1. S \subseteq 0..3 /\ S # {}
    BY DEF Cap, High, Insufficient, Medium, Low
<1>2. \A c \in S : Min(S) \in 0..c
  <2> HIDE DEF S
  <2>1. Min(S) \in S /\ \A c \in S : Min(S) <= c
      BY <1>1, LeastConfidence
  <2>2. \A m, c \in S : m <= c => m \in 0..c
      BY <1>1
  <2> QED
      BY <2>1, <2>2, Zenon
<1>3. Report(d).confidence = Min(S)
    BY DEF Report, Confidence
<1>4. d.gaps # {} => Low \in S
  <2>1. d.gaps # {} => "G7" \in Findings(d)
      BY DEF Findings
  <2>2. Cap(d, "G7") = Low
      BY DEF Cap
  <2> QED
      BY <2>1, <2>2
<1>5. d.disputed => Medium \in S
    OBVIOUS
<1>6. d.evidence = {} => Insufficient \in S
    OBVIOUS
<1>7. d.disputed => NeedsHuman(Report(d))
    BY DEF NeedsHuman, Report, ReviewReason, NoReason
<1> HIDE DEF S
<1>8. ASSUME Report(d).confidence = High PROVE d.gaps = {} /\ d.evidence # {} /\ ~d.disputed
    BY <1>1, <1>2, <1>3, <1>4, <1>5, <1>6, <1>8 DEF High, Low, Medium, Insufficient
<1>9. ASSUME d.disputed PROVE Report(d).confidence < High
  <2>1. 2 \in S
      BY <1>5, <1>9, Zenon DEF Medium
  <2>2. Min(S) \in 0..2
      BY <1>2, <2>1
  <2>3. Report(d).confidence \in 0..2
      BY <1>3, <2>2, Zenon
  <2> QED
      BY <2>3 DEF High
<1> QED
    BY <1>7, <1>8, <1>9

(***************************************************************************)
(* What the handing over of a node keeps.                                  *)
(***************************************************************************)
\* A node that is within its budget hands over to the next one, never to
\* "exhausted".
LEMMA StepStays ==
  ASSUME WithinBudget, NEW here \in Nodes, NEW next \in Nodes, NEW calls \in Nat, NEW failed,
         Step(here, next, calls, failed),
         Spent(here) + calls <= Spent(next)
  PROVE  node = here /\ node' = next /\ used' \in 0..Spent(next) /\ request' \in Requests
<1>1. Spent(here) \in Nat /\ Spent(next) \in Nat /\ Spent(next) <= Budget
    BY LimitsAssumption, RunAssumption DEF Spent, Nodes, AfterTransport, AfterChecks, AfterGrounding
<1>2. node = here /\ used' = used + calls
    BY DEF Step
<1>3. used \in 0..Spent(here)
    BY <1>2 DEF WithinBudget
<1>4. used + calls <= Spent(next) /\ used + calls \in Nat
    BY <1>1, <1>3
<1>5. ~(used + calls > Budget)
    BY <1>1, <1>4, LimitsAssumption, RunAssumption
<1> QED
    BY <1>2, <1>4, <1>5, <1>1 DEF Step, WithinBudget

\* What asking for some of the candidates costs.
LEMMA CandidatesAsked ==
  ASSUME NEW candidates
  PROVE  LET asked == {k \in 1..MaxRevisionCandidates : k \in DOMAIN candidates}
         IN  Cardinality(asked) \in 0..MaxRevisionCandidates
<1> DEFINE asked == {k \in 1..MaxRevisionCandidates : k \in DOMAIN candidates}
<1>1. IsFiniteSet(1..MaxRevisionCandidates) /\ Cardinality(1..MaxRevisionCandidates) = MaxRevisionCandidates
    BY FS_Interval, LimitsAssumption, RunAssumption
<1>2. IsFiniteSet(asked) /\ Cardinality(asked) <= MaxRevisionCandidates
    BY <1>1, FS_Subset
<1> QED
    BY <1>2, FS_CardinalityType

(***************************************************************************)
(* The start and the steps.                                                *)
(***************************************************************************)
LEMMA InitInv == Init => IInv
BY LimitsAssumption, RunAssumption DEF Init, IInv, Shape, WithinBudget, GapsAreLeft, ResultIsTold, EmptyState, Spent,
   Nodes, AfterTransport, AfterChecks, AfterGrounding

\* The reading of a text is a list of stops, of which MaxStops are read.
LEMMA ReadingIsBounded ==
  ASSUME NEW Part, NEW text \in Seq(Part)
  PROVE  Len(FirstOnes(ReadStops(text), MaxStops)) \in 0..MaxStops
<1> DEFINE kept == KeptSegments(text)
           all  == [k \in 1..Cardinality(kept) |-> ParseSegment(text[InOrder(kept)[k]])]
<1>1. Cardinality(kept) \in Nat
  <2>1. IsFiniteSet(1..Len(text)) /\ kept \subseteq 1..Len(text)
      BY FS_Interval DEF KeptSegments, Turns
  <2> QED
      BY <2>1, FS_Subset, FS_CardinalityType
<1>2. all \in Seq(Range(all)) /\ Len(all) \in Nat
  <2> HIDE DEF kept
  <2> QED
      BY <1>1 DEF Range
<1>3. ReadStops(text) = FirstOnes(all, MaxRead)
    BY DEF ReadStops
<1> HIDE DEF all
<1>4. FirstOnes(all, MaxRead) \in Seq(Range(all))
    BY <1>2 DEF FirstOnes, MaxRead
<1> QED
    BY <1>3, <1>4, LimitsAssumption, RunAssumption DEF FirstOnes

\* Reading the itinerary and resolving its places.
LEMMA ParsingStep ==
  ASSUME IInv, ParseItinerary \/ TextNotRead
  PROVE  IInv'
<1> USE DEF IInv, Nodes, AfterTransport, AfterChecks, AfterGrounding
<1>1. Spent("parse_itinerary") + 0 <= Spent("resolve_places") /\ 0 \in Nat
    BY DEF Spent
<1>2. node = "parse_itinerary" /\ node' = "resolve_places" /\ used' \in 0..Spent("resolve_places")
      /\ request' \in Requests
  <2>1. CASE ParseItinerary
      BY <1>1, <2>1, StepStays DEF ParseItinerary
  <2>2. CASE TextNotRead
      BY <1>1, <2>2, StepStays DEF TextNotRead
  <2> QED
      BY <2>1, <2>2
<1>3. Len(state'.stops) \in 0..MaxStops
  <2>1. CASE ParseItinerary
    <3>1. PICK reading \in Readings :
            state' = [state EXCEPT !.reader = reading.by, !.stops = FirstOnes(reading.stops, MaxStops)]
        BY <2>1 DEF ParseItinerary
    <3>2. state'.stops = FirstOnes(reading.stops, MaxStops)
        BY <1>2, <3>1 DEF Shape, EmptyState, WithinBudget
    <3>3. Len(FirstOnes(request.stops, MaxStops)) \in 0..MaxStops
      <4>1. request.stops \in Seq([place : Places, nights : Nat, match : {"exact", "fuzzy", "unknown"}])
          BY RequestsAssumption DEF WithinBudget
      <4> QED
          BY <4>1, LimitsAssumption, RunAssumption DEF FirstOnes
    <3>4. request.from # "stops" => Len(FirstOnes(ReadStops(request.text), MaxStops)) \in 0..MaxStops
      <4>1. request.text \in Seq([phrase : STRING, place : STRING, match : STRING, a : Nat, b : Nat])
          BY RequestsAssumption DEF WithinBudget
      <4> QED
          BY <4>1, ReadingIsBounded
    <3> QED
        BY <3>2, <3>3, <3>4 DEF Readings
  <2>2. CASE TextNotRead
    <3>1. state'.stops = state.stops /\ state.stops = <<>>
        BY <1>2, <2>2 DEF TextNotRead, Shape, EmptyState, WithinBudget
    <3> QED
        BY <3>1, LimitsAssumption, RunAssumption
  <2> QED
      BY <2>1, <2>2
<1>4. Shape' /\ state'.result = None
  <2>1. CASE ParseItinerary
      BY <1>2, <2>1 DEF ParseItinerary, Shape, EmptyState, ResultIsTold
  <2>2. CASE TextNotRead
      BY <1>2, <2>2 DEF TextNotRead, Shape, EmptyState, ResultIsTold
  <2> QED
      BY <2>1, <2>2
<1> QED
    BY <1>2, <1>3, <1>4 DEF WithinBudget, GapsAreLeft, ResultIsTold

\* A node before the checks that is told how it changes the state: what it hands
\* to call_transport_tools and after.
LEMMA EarlyStep ==
  ASSUME IInv, NEW here \in Nodes \ AfterChecks, NEW next \in Nodes \ AfterGrounding,
         NEW calls \in Nat, NEW failed,
         Step(here, next, calls, failed),
         Spent(here) + calls <= Spent(next),
         next \notin {"parse_itinerary", "resolve_places"},
         Shape', state'.result = state.result,
         next \in AfterTransport /\ Len(state'.resolved) < 2 => state'.gaps # {},
         next \in AfterChecks /\ state'.gaps = {} => state'.route # None /\ state'.load # None
  PROVE  IInv'
<1> USE DEF IInv
<1>1. node = here /\ node' = next /\ used' \in 0..Spent(next) /\ request' \in Requests
    BY StepStays
<1>2. here \in Nodes /\ here # "done" /\ next \in Nodes /\ next \notin {"human_review", "result", "done"}
    BY DEF AfterChecks, AfterGrounding
<1>3. WithinBudget'
    BY <1>1, <1>2 DEF WithinBudget
<1>4. GapsAreLeft'
    BY <1>1 DEF GapsAreLeft
<1>5. ResultIsTold'
    BY <1>1, <1>2 DEF ResultIsTold
<1> QED
    BY <1>1, <1>3, <1>4, <1>5

LEMMA ResolvingStep ==
  ASSUME IInv, ResolvePlaces
  PROVE  IInv'
<1> USE DEF Nodes, AfterTransport, AfterChecks, AfterGrounding
<1>1. PICK failing : ResolveTo(failing, {"exact"}, DOMAIN state.stops)
    BY DEF ResolvePlaces
<1>2. Step("resolve_places", "load_trip_state", Len(state.stops), Cardinality(failing))
    BY <1>1 DEF ResolveTo
<1>3. Len(state.stops) \in 0..MaxStops
    BY <1>2 DEF Step, IInv, WithinBudget
<1>4. Shape' /\ state'.result = state.result
    BY <1>1 DEF ResolveTo, IInv, Shape, EmptyState
<1>5. Len(state.stops) \in Nat /\ Spent("resolve_places") + Len(state.stops) <= Spent("load_trip_state")
    BY <1>3, LimitsAssumption, RunAssumption DEF Spent
<1> QED
    BY <1>2, <1>4, <1>5, EarlyStep

LEMMA LoadingStep ==
  ASSUME IInv, LoadTripState
  PROVE  IInv'
<1> USE DEF Nodes, AfterTransport, AfterChecks, AfterGrounding
<1>1. UNCHANGED state /\ Shape'
    BY DEF LoadTripState, IInv, Shape
<1>2. \E calls \in 0..1 : \E failed : Step("load_trip_state", "retrieve_structured_facts", calls, failed)
    BY DEF LoadTripState
<1>3. \A calls \in 0..1 : Spent("load_trip_state") + calls <= Spent("retrieve_structured_facts")
    BY LimitsAssumption, RunAssumption DEF Spent
<1> QED
    BY <1>1, <1>2, <1>3, EarlyStep

LEMMA FactsStep ==
  ASSUME IInv, RetrieveStructuredFacts
  PROVE  IInv'
<1> USE DEF Nodes, AfterTransport, AfterChecks, AfterGrounding
<1>1. Shape' /\ state'.result = state.result
    BY DEF RetrieveStructuredFacts, IInv, Shape, EmptyState
<1>2. \E calls \in {0, 2} : \E failed : Step("retrieve_structured_facts", "call_transport_tools", calls, failed)
  <2>1. CASE state.resolved = <<>>
      BY <2>1 DEF RetrieveStructuredFacts
  <2>2. CASE state.resolved # <<>>
    <3>1. PICK booking \in BOOLEAN, verification \in BOOLEAN :
            Step("retrieve_structured_facts", "call_transport_tools", 2, Failed(booking) + Failed(verification))
        BY <2>2, Zenon DEF RetrieveStructuredFacts
    <3> QED
        BY <3>1
  <2> QED
      BY <2>1, <2>2
<1>3. \A calls \in {0, 2} : Spent("retrieve_structured_facts") + calls <= Spent("call_transport_tools")
    BY LimitsAssumption, RunAssumption DEF Spent
<1> QED
    BY <1>1, <1>2, <1>3, EarlyStep

LEMMA TransportStep ==
  ASSUME IInv, CallTransportTools
  PROVE  IInv'
<1> USE DEF Nodes, AfterTransport, AfterChecks, AfterGrounding
<1>1. Shape' /\ state'.result = state.result /\ (Len(state'.resolved) < 2 => state'.gaps # {})
  <2>1. CASE Len(state.resolved) < 2
      BY <2>1 DEF CallTransportTools, IInv, Shape, EmptyState
  <2>2. CASE ~(Len(state.resolved) < 2)
      BY <2>2 DEF CallTransportTools, IInv, Shape, EmptyState
  <2> QED
      BY <2>1, <2>2
<1>2. \E calls \in 0..1 : \E failed : Step("call_transport_tools", "retrieve_constraints", calls, failed)
    BY DEF CallTransportTools
<1>3. \A calls \in 0..1 : Spent("call_transport_tools") + calls <= Spent("retrieve_constraints")
    BY LimitsAssumption, RunAssumption DEF Spent
<1> QED
    BY <1>1, <1>2, <1>3, EarlyStep

LEMMA ConstraintsStep ==
  ASSUME IInv, RetrieveConstraints
  PROVE  IInv'
<1> USE DEF Nodes, AfterTransport, AfterChecks, AfterGrounding
<1>1. \E calls \in 0..1 : \E failed : Step("retrieve_constraints", "run_deterministic_checks", calls, failed)
    BY DEF RetrieveConstraints
<1>2. node = "retrieve_constraints"
    BY <1>1 DEF Step
<1>3. /\ Shape' /\ state'.result = state.result
      /\ state'.resolved = state.resolved /\ state'.gaps = state.gaps
    BY DEF RetrieveConstraints, IInv, Shape, EmptyState
<1>4. Len(state'.resolved) < 2 => state'.gaps # {}
    BY <1>2, <1>3 DEF IInv, GapsAreLeft
<1>5. \A calls \in 0..1 : Spent("retrieve_constraints") + calls <= Spent("run_deterministic_checks")
    BY LimitsAssumption, RunAssumption DEF Spent
<1> QED
    BY <1>1, <1>3, <1>4, <1>5, EarlyStep

\* The checks leave a costed route, or a gap.
LEMMA ChecksStep ==
  ASSUME IInv, RunDeterministicChecks
  PROVE  IInv'
<1> USE DEF Nodes, AfterTransport, AfterChecks, AfterGrounding
<1>1. \E calls \in 0..1 : \E failed : Step("run_deterministic_checks", "detect_route_issues", calls, failed)
    BY DEF RunDeterministicChecks, ChecksWithGap
<1>2. node = "run_deterministic_checks"
    BY <1>1 DEF Step
<1>3. Shape' /\ state'.result = state.result
    BY DEF RunDeterministicChecks, ChecksWithGap, IInv, Shape, EmptyState
<1>4. state'.gaps = {} => state'.route # None /\ state'.load # None
  <2>1. CASE Len(state.resolved) < 2
    <3>1. state' = state /\ state.gaps # {}
        BY <1>2, <2>1 DEF RunDeterministicChecks, ChecksWithGap, IInv, GapsAreLeft
    <3> QED
        BY <3>1
  <2>2. CASE ~(Len(state.resolved) < 2)
    <3>1. PICK answered \in BOOLEAN, checked \in {CheckedRoute(state.resolved)} :
            state' = IF answered
                     THEN [state EXCEPT !.issues = checked.issues, !.load = checked.load,
                                        !.route = RebuildRoute(state.resolved, state.legs)]
                     ELSE [state EXCEPT !.gaps = @ \cup {"rules"}]
        BY <2>2 DEF RunDeterministicChecks, ChecksWithGap
    <3>2. CASE answered
      <4>1. state'.load = checked.load /\ state'.route = RebuildRoute(state.resolved, state.legs)
          BY <3>1, <3>2 DEF IInv, Shape, EmptyState
      <4>2. RebuildRoute(state.resolved, state.legs) # None
          BY DEF RebuildRoute, None
      <4>3. checked.load # None
          BY DEF CheckedRoute, TravelLoad, None
      <4> QED
          BY <4>1, <4>2, <4>3
    <3>3. CASE ~answered
      <4>1. state'.gaps = state.gaps \cup {"rules"}
          BY <3>1, <3>3 DEF IInv, Shape, EmptyState
      <4> QED
          BY <4>1
    <3> QED
        BY <3>2, <3>3
  <2> QED
      BY <2>1, <2>2
<1>5. \A calls \in 0..1 : Spent("run_deterministic_checks") + calls <= Spent("detect_route_issues")
    BY LimitsAssumption, RunAssumption DEF Spent
<1> QED
    BY <1>1, <1>3, <1>4, <1>5, EarlyStep

\* A node between the checks and the grounding check keeps what they left.
LEMMA MiddleStep ==
  ASSUME IInv, NEW here \in AfterChecks \ AfterGrounding, NEW next \in AfterChecks \ AfterGrounding,
         NEW calls \in Nat, NEW failed,
         Step(here, next, calls, failed),
         Spent(here) + calls <= Spent(next),
         Shape', state'.result = state.result,
         state'.gaps = state.gaps, state'.route = state.route, state'.load = state.load
  PROVE  IInv'
<1>1. node = here
    BY DEF Step
<1>2. state'.gaps = {} => state'.route # None /\ state'.load # None
    BY <1>1 DEF IInv, GapsAreLeft
<1>3. node' = next /\ used' \in 0..Spent(next) /\ request' \in Requests
    BY StepStays DEF Nodes, IInv
<1>4. next \in Nodes /\ here \notin {"human_review", "result", "done", "parse_itinerary", "resolve_places"}
      /\ next \notin {"human_review", "result", "done", "parse_itinerary", "resolve_places"} \cup AfterTransport
    BY DEF Nodes, AfterChecks, AfterGrounding, AfterTransport
<1>5. WithinBudget'
    BY <1>3, <1>4 DEF WithinBudget
<1>6. GapsAreLeft'
    BY <1>2, <1>3, <1>4 DEF GapsAreLeft
<1>7. ResultIsTold'
    BY <1>1, <1>3, <1>4 DEF IInv, ResultIsTold
<1> QED
    BY <1>3, <1>5, <1>6, <1>7 DEF IInv

LEMMA DetectingStep ==
  ASSUME IInv, DetectRouteIssues
  PROVE  IInv'
<1> USE DEF AfterChecks, AfterGrounding
<1>1. Step("detect_route_issues", "generate_candidate_fixes", 0, 0)
    BY DEF DetectRouteIssues
<1>2. Shape' /\ state'.result = state.result
      /\ state'.gaps = state.gaps /\ state'.route = state.route /\ state'.load = state.load
    BY DEF DetectRouteIssues, IInv, Shape, EmptyState
<1>3. Spent("detect_route_issues") + 0 <= Spent("generate_candidate_fixes") /\ 0 \in Nat
    BY LimitsAssumption, RunAssumption DEF Spent
<1> QED
    BY <1>1, <1>2, <1>3, MiddleStep

LEMMA RevisingStep ==
  ASSUME IInv, GenerateCandidateFixes
  PROVE  IInv'
<1> USE DEF AfterChecks, AfterGrounding
<1>1. \E calls \in 0..MaxRevisionCandidates : \E failed :
        Step("generate_candidate_fixes", "narrate_critique", calls, failed)
  <2>1. CASE state.route = None
    <3>1. Step("generate_candidate_fixes", "narrate_critique", 0, 0)
        BY <2>1 DEF GenerateCandidateFixes
    <3> QED
        BY <3>1, LimitsAssumption, RunAssumption
  <2>2. CASE state.route # None
    <3>1. PICK candidates, failing :
            Step("generate_candidate_fixes", "narrate_critique",
                 Cardinality({k \in 1..MaxRevisionCandidates : k \in DOMAIN candidates}), Cardinality(failing))
        BY <2>2 DEF GenerateCandidateFixes
    <3> QED
        BY <3>1, CandidatesAsked
  <2> QED
      BY <2>1, <2>2
<1>2. Shape' /\ state'.result = state.result
      /\ state'.gaps = state.gaps /\ state'.route = state.route /\ state'.load = state.load
  <2>1. CASE state.route = None
      BY <2>1 DEF GenerateCandidateFixes, IInv, Shape
  <2>2. CASE state.route # None
    <3>1. PICK costed, chosen : state' = [state EXCEPT !.candidates = costed, !.chosen = chosen]
        BY <2>2 DEF GenerateCandidateFixes
    <3> QED
        BY <3>1 DEF IInv, Shape, EmptyState
  <2> QED
      BY <2>1, <2>2
<1>3. \A calls \in 0..MaxRevisionCandidates :
        calls \in Nat /\ Spent("generate_candidate_fixes") + calls <= Spent("narrate_critique")
    BY LimitsAssumption, RunAssumption DEF Spent
<1> QED
    BY <1>1, <1>2, <1>3, MiddleStep

LEMMA NarratingStep ==
  ASSUME IInv, NarrateCritique
  PROVE  IInv'
<1> USE DEF AfterChecks, AfterGrounding
<1>1. \E failed : Step("narrate_critique", "grounding_check", 0, failed)
    BY DEF NarrateCritique
<1>2. PICK critique : state' = [state EXCEPT !.critique = critique]
    BY DEF NarrateCritique
<1>3. Shape' /\ state'.result = state.result
      /\ state'.gaps = state.gaps /\ state'.route = state.route /\ state'.load = state.load
    BY <1>2 DEF IInv, Shape, EmptyState
<1>4. Spent("narrate_critique") + 0 <= Spent("grounding_check") /\ 0 \in Nat
    BY LimitsAssumption, RunAssumption DEF Spent
<1> QED
    BY <1>1, <1>3, <1>4, MiddleStep

\* The grounding check draws the report from what is there.
LEMMA GroundingStep ==
  ASSUME IInv, GroundingCheck
  PROVE  IInv'
<1> USE DEF AfterChecks, AfterGrounding
<1>0. PICK answered \in BOOLEAN : \E conflicts :
        /\ Step("grounding_check", "confidence_check", 1, Failed(answered))
        /\ state' = [state EXCEPT !.conflicts = conflicts, !.report = Report(Draft(conflicts))]
    BY Zenon DEF GroundingCheck
<1>1. PICK conflicts :
        /\ Step("grounding_check", "confidence_check", 1, Failed(answered))
        /\ state' = [state EXCEPT !.conflicts = conflicts, !.report = Report(Draft(conflicts))]
    BY <1>0, Zenon
<1>2. Spent("grounding_check") + 1 <= Spent("confidence_check") /\ 1 \in Nat
    BY LimitsAssumption, RunAssumption DEF Spent
<1>3. /\ node = "grounding_check" /\ node' = "confidence_check"
      /\ used' \in 0..Spent("confidence_check") /\ request' \in Requests
    BY <1>1, <1>2, StepStays DEF Nodes, IInv
<1>4. /\ Shape' /\ state'.result = state.result /\ state'.gaps = state.gaps
      /\ state'.route = state.route /\ state'.load = state.load /\ state'.evidence = state.evidence
      /\ state'.conflicts = conflicts /\ state'.report = Report(Draft(conflicts))
    BY <1>1 DEF IInv, Shape, EmptyState
<1>5. ReportIsEarned'
  <2>1. /\ Draft(conflicts).gaps = state.gaps /\ Draft(conflicts).evidence = state.evidence
        /\ Draft(conflicts).disputed = (conflicts # {})
      BY DEF Draft
  <2> QED
      BY <1>4, <2>1, ReportOfDraft DEF ReportIsEarned
<1>6. WithinBudget' /\ GapsAreLeft' /\ ResultIsTold'
    BY <1>3, <1>4 DEF WithinBudget, GapsAreLeft, ResultIsTold, IInv, Nodes, AfterTransport
<1> QED
    BY <1>4, <1>5, <1>6 DEF IInv

\* What is decided and told after it keeps the report and what it rests on.
LEMMA ConfidenceStep ==
  ASSUME IInv, ConfidenceCheck
  PROVE  IInv'
<1> USE DEF AfterChecks, AfterGrounding
<1> DEFINE held == NeedsHuman(state.report)
<1> DEFINE next == IF held THEN "human_review" ELSE "result"
<1>1. /\ Step("confidence_check", next, 0, 0)
      /\ state' = [state EXCEPT !.status = IF held THEN "needs_human_review" ELSE "complete"]
    BY DEF ConfidenceCheck
<1>2. next \in {"human_review", "result"}
    OBVIOUS
<1>3. Spent("confidence_check") + 0 <= Spent(next) /\ 0 \in Nat
  <2> HIDE DEF next
  <2> QED
      BY <1>2, LimitsAssumption, RunAssumption DEF Spent
<1>4. /\ node = "confidence_check" /\ node' = next
      /\ used' \in 0..Spent(next) /\ request' \in Requests
  <2> HIDE DEF next
  <2> QED
      BY <1>1, <1>2, <1>3, StepStays DEF Nodes, IInv
<1>5. /\ Shape' /\ state'.result = state.result /\ state'.gaps = state.gaps
      /\ state'.route = state.route /\ state'.load = state.load /\ state'.evidence = state.evidence
      /\ state'.conflicts = state.conflicts /\ state'.report = state.report
      /\ (held => state'.status = "needs_human_review")
    BY <1>1 DEF IInv, Shape, EmptyState
<1>6. ReportIsEarned'
    BY <1>4, <1>5 DEF ReportIsEarned, IInv
<1>7. state.conflicts # {} => held
    BY <1>4 DEF ReportIsEarned, IInv
<1> HIDE DEF next, held
<1>8. WithinBudget' /\ GapsAreLeft' /\ ResultIsTold'
    BY <1>2, <1>4, <1>5, <1>7 DEF WithinBudget, GapsAreLeft, ResultIsTold, IInv, Nodes, AfterTransport
<1> QED
    BY <1>5, <1>6, <1>8 DEF IInv

LEMMA ReviewStep ==
  ASSUME IInv, HumanReview
  PROVE  IInv'
<1> USE DEF AfterChecks, AfterGrounding
<1>1. PICK answered \in BOOLEAN :
        /\ Step("human_review", "result", 1, Failed(answered))
        /\ state' = [state EXCEPT !.task = answered]
    BY Zenon DEF HumanReview
<1>2. Spent("human_review") + 1 <= Spent("result") /\ 1 \in Nat
    BY LimitsAssumption, RunAssumption DEF Spent
<1>3. /\ node = "human_review" /\ node' = "result"
      /\ used' \in 0..Spent("result") /\ request' \in Requests
    BY <1>1, <1>2, StepStays DEF Nodes, IInv
<1>4. /\ Shape' /\ state'.result = state.result /\ state'.gaps = state.gaps
      /\ state'.route = state.route /\ state'.load = state.load /\ state'.evidence = state.evidence
      /\ state'.conflicts = state.conflicts /\ state'.report = state.report /\ state'.status = state.status
    BY <1>1 DEF IInv, Shape, EmptyState
<1>5. ReportIsEarned'
    BY <1>3, <1>4 DEF ReportIsEarned, IInv
<1>6. WithinBudget' /\ GapsAreLeft' /\ ResultIsTold'
    BY <1>3, <1>4 DEF WithinBudget, GapsAreLeft, ResultIsTold, IInv, Nodes, AfterTransport
<1> QED
    BY <1>4, <1>5, <1>6 DEF IInv

\* The closing summary of disputed facts has a caveat, whoever wrote it.
LEMMA DisputesAreCaveats ==
  ASSUME NEW sentences, NEW told, NEW doubtful,
         NEW s \in FinalExplanations(sentences, Facts(told, TRUE, doubtful))
  PROVE  s.caveats
<1> DEFINE f == Facts(told, TRUE, doubtful)
<1>1. f.disputed
    BY DEF Facts
<1>2. CASE s = DeterministicSummary(f)
    BY <1>1, <1>2 DEF DeterministicSummary
<1>3. CASE ~Violation(s, f)
    BY <1>1, <1>3 DEF Violation
<1> QED
    BY <1>2, <1>3 DEF FinalExplanations

LEMMA ResultStep ==
  ASSUME IInv, Result
  PROVE  IInv'
<1> USE DEF AfterChecks, AfterGrounding
<1>1. Spent("result") + 0 <= Spent("done") /\ 0 \in Nat
    BY LimitsAssumption, RunAssumption DEF Spent
<1>2. Step("result", "done", 0, 0)
    BY DEF Result
<1>3. node = "result" /\ node' = "done" /\ used' \in 0..Spent("done") /\ request' \in Requests
    BY <1>1, <1>2, StepStays DEF Nodes, IInv
<1>4. /\ Shape' /\ state'.gaps = state.gaps
      /\ state'.route = state.route /\ state'.load = state.load /\ state'.evidence = state.evidence
      /\ state'.conflicts = state.conflicts /\ state'.report = state.report /\ state'.status = state.status
      /\ state'.result.confidence = state.report.confidence /\ state'.result.status = state.status
    BY DEF Result, IInv, Shape, EmptyState
<1>7. ASSUME state.conflicts # {} PROVE state'.result.closing.caveats
  <2>1. PICK closing \in FinalExplanations(Blocks, FactSheet) : state'.result.closing = closing
      BY DEF Result, IInv, Shape, EmptyState
  <2>2. FactSheet = Facts(Computed, TRUE, state.report.confidence = Low \/ state.unresolved # {})
      BY <1>7 DEF FactSheet
  <2> QED
      BY <2>1, <2>2, DisputesAreCaveats
<1>5. ReportIsEarned'
    BY <1>3, <1>4 DEF ReportIsEarned, IInv
<1>6. WithinBudget' /\ GapsAreLeft' /\ ResultIsTold'
    BY <1>3, <1>4, <1>7 DEF WithinBudget, GapsAreLeft, ResultIsTold, IInv, Nodes, AfterTransport
<1> QED
    BY <1>4, <1>5, <1>6 DEF IInv

LEMMA StutterStep ==
  ASSUME IInv, UNCHANGED vars
  PROVE  IInv'
BY DEF vars, IInv, Shape, WithinBudget, GapsAreLeft, ReportIsEarned, ResultIsTold

\* Every step keeps the invariant.
LEMMA NextInv == IInv /\ [Next]_vars => IInv'
<1> SUFFICES ASSUME IInv, [Next]_vars PROVE IInv'
    OBVIOUS
<1>1. CASE Done
    BY <1>1, StutterStep DEF Done
<1> QED
    BY <1>1, ParsingStep, ResolvingStep, LoadingStep, FactsStep, TransportStep, ConstraintsStep, ChecksStep,
       DetectingStep, RevisingStep, NarratingStep, GroundingStep, ConfidenceStep, ReviewStep, ResultStep,
       StutterStep DEF Next

LEMMA Invariance == Spec => []IInv
BY InitInv, NextInv, PTL DEF Spec

(***************************************************************************)
(* The second invariant: what the stops, the route and the revision are.   *)
(***************************************************************************)
Unresolved == {"parse_itinerary", "resolve_places"}

BeforeChecks ==
  Unresolved \cup {"load_trip_state", "retrieve_structured_facts", "call_transport_tools"} \cup AfterTransport

Unrevised == BeforeChecks \cup {"detect_route_issues", "generate_candidate_fixes"}

\* What parse_itinerary leaves: a text the stand-in has read whole is its segments.
StopsAreRead ==
  /\ IsList(state.stops)
  /\ \A i \in DOMAIN state.stops :
       state.stops[i].nights \in Nat /\ (state.stops[i].match = "exact" => state.stops[i].place \in Places)
  /\ state.reader = "stand_in" => state.stops = FirstOnes(ReadStops(request.text), MaxStops)

\* The places that were named exactly
ExactPlaces(stops) == {s.place : s \in {t \in Range(stops) : t.match = "exact"}}

\* What resolve_places leaves: each stop is found or told as not found.
StopsAreFound ==
  /\ StopsFit(state.resolved)
  /\ PlacesOf(state.resolved) \subseteq ExactPlaces(state.stops)
  /\ Len(state.resolved) + Cardinality(state.unresolved) \in {0, Len(state.stops)}
  /\ node \in Unresolved => state.resolved = <<>> /\ state.unresolved = {}
  /\ node \notin Unresolved =>
       \A i \in DOMAIN state.stops : state.stops[i].match # "exact" => i \in state.unresolved

\* What call_transport_tools and run_deterministic_checks leave
RouteIsBuilt ==
  /\ LegsFit(state.legs)
  /\ node \in BeforeChecks => state.route = None
  /\ state.route # None => state.route.stops = state.resolved /\ RouteFits(state.route)

\* What generate_candidate_fixes leaves: a revision is the trip that was asked for.
RevisionIsTheTrip ==
  /\ node \in Unrevised => state.chosen = None
  /\ state.chosen # None =>
       /\ state.route # None
       /\ KeepsTheTrip(state.route.stops, state.chosen.stops)
       /\ VisitedOnce(state.route.stops) => Improves(state.chosen, state.route)

Severities == {"critical", "warning", "good"}

\* What detect_route_issues leaves: a stop not found keeps the route from being healthy.
IssuesAreGraded ==
  /\ IsFiniteSet(state.issues) /\ \A i \in state.issues : i.severity \in Severities
  /\ node \notin BeforeChecks \cup {"detect_route_issues"} /\ state.unresolved # {} => state.health # "healthy"

RestIsTold ==
  /\ faults \in 0..MaxFaults
  /\ state.report.confidence \in Confidences
  /\ state.status \in {"running", "complete", "needs_human_review"}
  /\ node = "done" => state.result.unresolved = state.unresolved /\ state.result.health = state.health

TripInv ==
  /\ StopsAreRead
  /\ StopsAreFound
  /\ RouteIsBuilt
  /\ RevisionIsTheTrip
  /\ IssuesAreGraded
  /\ RestIsTold

\* What a step hands over: the graph goes from node to node over one request.
LEMMA HandsOver ==
  ASSUME IInv, IInv', TripInv, NEW here, NEW next, NEW calls, NEW failed \in Nat,
         Step(here, next, calls, failed)
  PROVE  node = here /\ node' = next /\ request' = request /\ faults' \in 0..MaxFaults
<1>1. node' \in Nodes
    BY DEF IInv, WithinBudget
<1>2. "exhausted" \notin Nodes
    BY DEF Nodes, AfterTransport, AfterChecks, AfterGrounding
<1>3. faults' \in 0..MaxFaults
    BY RunAssumption DEF Step, TripInv, RestIsTold
<1> QED
    BY <1>1, <1>2, <1>3 DEF Step

\* The fields of the state that the parts of the invariant speak of
SameStops ==
  /\ state'.stops = state.stops /\ state'.reader = state.reader
  /\ state'.resolved = state.resolved /\ state'.unresolved = state.unresolved

SameRoute ==
  /\ state'.route = state.route /\ state'.legs = state.legs /\ state'.chosen = state.chosen

SameGrade == state'.issues = state.issues /\ state'.health = state.health

SameReport == state'.report = state.report /\ state'.status = state.status

\* Once the places are resolved, the stops stay what they are.
LEMMA LaterStep ==
  ASSUME IInv, IInv', TripInv,
         NEW here \in Nodes \ Unresolved, NEW next \in Nodes \ Unresolved, NEW calls, NEW failed \in Nat,
         Step(here, next, calls, failed),
         SameStops, RouteIsBuilt', RevisionIsTheTrip', IssuesAreGraded',
         state'.report.confidence \in Confidences,
         state'.status \in {"running", "complete", "needs_human_review"},
         next = "done" => state'.result.unresolved = state'.unresolved /\ state'.result.health = state'.health
  PROVE  TripInv'
<1>1. node = here /\ node' = next /\ request' = request /\ faults' \in 0..MaxFaults
    BY HandsOver
<1>2. StopsAreRead'
    BY <1>1 DEF TripInv, StopsAreRead, SameStops
<1>3. StopsAreFound'
    BY <1>1 DEF TripInv, StopsAreFound, SameStops
<1>4. RestIsTold'
    BY <1>1 DEF RestIsTold
<1> QED
    BY <1>2, <1>3, <1>4 DEF TripInv

\* A node that neither builds, grades nor revises the route.
LEMMA QuietStep ==
  ASSUME IInv, IInv', TripInv,
         NEW here \in Nodes \ Unresolved, NEW next \in Nodes \ Unresolved, NEW calls, NEW failed \in Nat,
         Step(here, next, calls, failed),
         here \in BeforeChecks \/ next \notin Unrevised, here \notin Unrevised \/ next \in BeforeChecks,
         SameStops, SameRoute, SameGrade,
         state'.report.confidence \in Confidences,
         state'.status \in {"running", "complete", "needs_human_review"},
         next = "done" => state'.result.unresolved = state'.unresolved /\ state'.result.health = state'.health
  PROVE  TripInv'
<1>1. node = here /\ node' = next
    BY HandsOver
<1>2. /\ next \in BeforeChecks => here \in BeforeChecks
      /\ next \in Unrevised => here \in Unrevised
      /\ next \notin BeforeChecks \cup {"detect_route_issues"} => here \notin BeforeChecks \cup {"detect_route_issues"}
    BY DEF Unrevised
<1>3. RouteIsBuilt'
    BY <1>1, <1>2 DEF TripInv, RouteIsBuilt, SameStops, SameRoute
<1>4. RevisionIsTheTrip'
    BY <1>1, <1>2 DEF TripInv, RevisionIsTheTrip, SameRoute
<1>5. IssuesAreGraded'
    BY <1>1, <1>2 DEF TripInv, IssuesAreGraded, SameStops, SameGrade
<1> QED
    BY <1>3, <1>4, <1>5, LaterStep

\* A node that adds to what is told of the route, and leaves the route as it is
Told == SameStops /\ SameRoute /\ SameGrade

LEMMA Counted == \A answered \in BOOLEAN : Failed(answered) \in Nat
BY DEF Failed

\* What is looked up besides the route.
LEMMA LookingUp ==
  ASSUME IInv, IInv', TripInv, LoadTripState \/ RetrieveStructuredFacts \/ RetrieveConstraints
  PROVE  TripInv'
<1> USE DEF Nodes, AfterTransport, AfterChecks, AfterGrounding, Unresolved, BeforeChecks, Unrevised
<1>1. state.report.confidence \in Confidences /\ state.status \in {"running", "complete", "needs_human_review"}
    BY DEF TripInv, RestIsTold
<1>2. CASE LoadTripState
  <2>1. \E calls : \E failed \in Nat : Step("load_trip_state", "retrieve_structured_facts", calls, failed)
    <3>1. 0 \in Nat
        OBVIOUS
    <3> QED
        BY <1>2, <3>1, Counted DEF LoadTripState
  <2>2. Told /\ SameReport
      BY <1>2 DEF LoadTripState, Told, SameStops, SameRoute, SameGrade, SameReport
  <2> QED
      BY <1>1, <2>1, <2>2, QuietStep DEF Told, SameReport
<1>3. CASE RetrieveStructuredFacts
  <2>1. \E calls : \E failed \in Nat : Step("retrieve_structured_facts", "call_transport_tools", calls, failed)
    <3>1. CASE state.resolved = <<>>
      <4>1. 0 \in Nat
          OBVIOUS
      <4> QED
          BY <1>3, <3>1, <4>1 DEF RetrieveStructuredFacts
    <3>2. CASE state.resolved # <<>>
      <4>1. PICK booking \in BOOLEAN, verification \in BOOLEAN :
              Step("retrieve_structured_facts", "call_transport_tools", 2, Failed(booking) + Failed(verification))
          BY <1>3, <3>2, Zenon DEF RetrieveStructuredFacts
      <4>2. Failed(booking) + Failed(verification) \in Nat
          BY Counted
      <4> QED
          BY <4>1, <4>2
    <3> QED
        BY <3>1, <3>2
  <2>2. Told /\ SameReport
      BY <1>3 DEF RetrieveStructuredFacts, IInv, Shape, EmptyState, Told, SameStops, SameRoute, SameGrade, SameReport
  <2> QED
      BY <1>1, <2>1, <2>2, QuietStep DEF Told, SameReport
<1>4. CASE RetrieveConstraints
  <2>1. \E calls : \E failed \in Nat : Step("retrieve_constraints", "run_deterministic_checks", calls, failed)
    <3>1. 0 \in Nat
        OBVIOUS
    <3> QED
        BY <1>4, <3>1, Counted DEF RetrieveConstraints
  <2>2. Told /\ SameReport
      BY <1>4 DEF RetrieveConstraints, IInv, Shape, EmptyState, Told, SameStops, SameRoute, SameGrade, SameReport
  <2> QED
      BY <1>1, <2>1, <2>2, QuietStep DEF Told, SameReport
<1> QED
    BY <1>2, <1>3, <1>4

\* What is written of the analysis, checked and told.
LEMMA Narrating ==
  ASSUME IInv, IInv', TripInv, NarrateCritique
  PROVE  TripInv'
<1> USE DEF Nodes, AfterTransport, AfterChecks, AfterGrounding, Unresolved, BeforeChecks, Unrevised
<1>1. state.report.confidence \in Confidences /\ state.status \in {"running", "complete", "needs_human_review"}
    BY DEF TripInv, RestIsTold
<1>2. \E failed \in Nat : Step("narrate_critique", "grounding_check", 0, failed)
  <2>1. 0 \in Nat /\ 1 \in Nat
      OBVIOUS
  <2> QED
      BY <2>1, Zenon DEF NarrateCritique
<1>3. PICK critique : state' = [state EXCEPT !.critique = critique]
    BY DEF NarrateCritique
<1>4. Told /\ SameReport
    BY <1>3 DEF IInv, Shape, EmptyState, Told, SameStops, SameRoute, SameGrade, SameReport
<1> QED
    BY <1>1, <1>2, <1>4, QuietStep DEF Told, SameReport

\* The confidence of a report is one of the four.
LEMMA ReportedConfidence == \A d : Report(d).confidence \in Confidences
<1> SUFFICES ASSUME NEW d PROVE Report(d).confidence \in Confidences
    OBVIOUS
<1> DEFINE S == {High} \cup {Cap(d, code) : code \in Findings(d)}
                  \cup (IF d.evidence = {} THEN {Insufficient} ELSE {})
                  \cup (IF d.disputed THEN {Medium} ELSE {})
<1>1. S \subseteq 0..3 /\ S # {}
    BY DEF Cap, High, Insufficient, Medium, Low
<1>2. Report(d).confidence = Min(S)
    BY DEF Report, Confidence
<1> HIDE DEF S
<1>3. Min(S) \in S
    BY <1>1, LeastConfidence
<1> QED
    BY <1>1, <1>2, <1>3 DEF Confidences, Insufficient, High

LEMMA Grounding ==
  ASSUME IInv, IInv', TripInv, GroundingCheck
  PROVE  TripInv'
<1> USE DEF Nodes, AfterTransport, AfterChecks, AfterGrounding, Unresolved, BeforeChecks, Unrevised
<1>1. state.status \in {"running", "complete", "needs_human_review"}
    BY DEF TripInv, RestIsTold
<1>2. PICK answered \in BOOLEAN : \E conflicts :
        /\ Step("grounding_check", "confidence_check", 1, Failed(answered))
        /\ state' = [state EXCEPT !.conflicts = conflicts, !.report = Report(Draft(conflicts))]
    BY Zenon DEF GroundingCheck
<1>3. PICK conflicts :
        /\ Step("grounding_check", "confidence_check", 1, Failed(answered))
        /\ state' = [state EXCEPT !.conflicts = conflicts, !.report = Report(Draft(conflicts))]
    BY <1>2, Zenon
<1>4. Told /\ state'.status = state.status /\ state'.report = Report(Draft(conflicts))
    BY <1>3 DEF IInv, Shape, EmptyState, Told, SameStops, SameRoute, SameGrade
<1>5. state'.report.confidence \in Confidences
    BY <1>4, ReportedConfidence
<1> QED
    BY <1>1, <1>3, <1>4, <1>5, Counted, QuietStep DEF Told

LEMMA Deciding ==
  ASSUME IInv, IInv', TripInv, ConfidenceCheck
  PROVE  TripInv'
<1> USE DEF Nodes, AfterTransport, AfterChecks, AfterGrounding, Unresolved, BeforeChecks, Unrevised
<1> DEFINE held == NeedsHuman(state.report)
           next == IF held THEN "human_review" ELSE "result"
<1>1. state.report.confidence \in Confidences
    BY DEF TripInv, RestIsTold
<1>2. /\ Step("confidence_check", next, 0, 0) /\ 0 \in Nat
      /\ state' = [state EXCEPT !.status = IF held THEN "needs_human_review" ELSE "complete"]
    BY DEF ConfidenceCheck
<1>3. next \in {"human_review", "result"}
    OBVIOUS
<1>4. Told /\ state'.report = state.report /\ state'.status \in {"needs_human_review", "complete"}
    BY <1>2 DEF IInv, Shape, EmptyState, Told, SameStops, SameRoute, SameGrade
<1> HIDE DEF next, held
<1> QED
    BY <1>1, <1>2, <1>3, <1>4, QuietStep DEF Told

LEMMA Handing ==
  ASSUME IInv, IInv', TripInv, HumanReview
  PROVE  TripInv'
<1> USE DEF Nodes, AfterTransport, AfterChecks, AfterGrounding, Unresolved, BeforeChecks, Unrevised
<1>1. state.report.confidence \in Confidences /\ state.status \in {"running", "complete", "needs_human_review"}
    BY DEF TripInv, RestIsTold
<1>2. PICK answered \in BOOLEAN :
        /\ Step("human_review", "result", 1, Failed(answered))
        /\ state' = [state EXCEPT !.task = answered]
    BY Zenon DEF HumanReview
<1>3. Told /\ SameReport
    BY <1>2 DEF IInv, Shape, EmptyState, Told, SameStops, SameRoute, SameGrade, SameReport
<1> QED
    BY <1>1, <1>2, <1>3, Counted, QuietStep DEF Told, SameReport

LEMMA Telling ==
  ASSUME IInv, IInv', TripInv, Result
  PROVE  TripInv'
<1> USE DEF Nodes, AfterTransport, AfterChecks, AfterGrounding, Unresolved, BeforeChecks, Unrevised
<1>1. state.report.confidence \in Confidences /\ state.status \in {"running", "complete", "needs_human_review"}
    BY DEF TripInv, RestIsTold
<1>2. Step("result", "done", 0, 0) /\ 0 \in Nat
    BY DEF Result
<1>3. /\ Told /\ SameReport
      /\ state'.result.unresolved = state'.unresolved /\ state'.result.health = state'.health
    BY DEF Result, IInv, Shape, EmptyState, Told, SameStops, SameRoute, SameGrade, SameReport
<1> QED
    BY <1>1, <1>2, <1>3, QuietStep DEF Told, SameReport

LEMMA Standing ==
  ASSUME TripInv, UNCHANGED vars
  PROVE  TripInv'
BY DEF vars, TripInv, StopsAreRead, StopsAreFound, RouteIsBuilt, RevisionIsTheTrip, IssuesAreGraded, RestIsTold

(***************************************************************************)
(* The issues of the rules.                                                *)
(***************************************************************************)
\* A finite set of issues, each with a severity
Graded(issues) == IsFiniteSet(issues) /\ \A i \in issues : i.severity \in Severities

LEMMA OneIsGraded ==
  ASSUME NEW rule, NEW severity \in Severities, NEW at
  PROVE  Graded({Issue(rule, severity, at)})
<1>1. IsFiniteSet({Issue(rule, severity, at)}) /\ Issue(rule, severity, at).severity = severity
    BY FS_Singleton DEF Issue
<1> QED
    BY <1>1 DEF Graded

LEMMA OnRouteIsGraded ==
  ASSUME NEW rule, NEW severity \in Severities \cup {"none"}
  PROVE  Graded(OnRoute(rule, severity))
<1>1. Graded({}) /\ (severity # "none" => Graded({Issue(rule, severity, 0)}))
    BY OneIsGraded, FS_EmptySet DEF Graded
<1> QED
    BY <1>1 DEF OnRoute

LEMMA OnSegmentsAreGraded ==
  ASSUME NEW rule, NEW severity, IsFiniteSet(DOMAIN severity),
         \A k \in DOMAIN severity : severity[k] \in Severities \cup {"none"}
  PROVE  Graded(OnSegments(rule, severity))
<1> DEFINE S == {k \in DOMAIN severity : severity[k] # "none"}
           name == [k \in S |-> Issue(rule, severity[k], k)]
<1>1. IsFiniteSet(S)
    BY FS_Subset
<1>2. OnSegments(rule, severity) = {name[k] : k \in S}
    BY DEF OnSegments
<1>3. \A k \in S : name[k].severity \in Severities
    BY DEF Issue
<1> HIDE DEF name, S
<1> QED
    BY <1>1, <1>2, <1>3, NamedAreFinite DEF Graded

\* The nights and the single nights of a route are numbers.
LEMMA LoadIsANumber ==
  ASSUME NEW route, RouteFits(route)
  PROVE  TravelLoad(route).nights \in Nat /\ TravelLoad(route).oneNight \in Nat
<1> DEFINE stops == route.stops
<1>1. IsFiniteSet(DOMAIN stops) /\ \A i \in DOMAIN stops : stops[i].nights \in Nat
    BY ListFacts DEF RouteFits, StopsFit
<1>2. TotalNights(stops) \in Nat
  <2>1. TotalNights(stops) = SumFunctionOnSet(NightsOf(stops), DOMAIN NightsOf(stops))
      BY DEF TotalNights, SumFunction
  <2>2. DOMAIN NightsOf(stops) = DOMAIN stops /\ \A i \in DOMAIN stops : NightsOf(stops)[i] \in Nat
      BY <1>1 DEF NightsOf
  <2>3. DOMAIN stops \in SUBSET DOMAIN stops /\ Nat \in {Nat, Int}
      OBVIOUS
  <2> QED
      BY <1>1, <2>1, <2>2, <2>3, SumIsANumber
<1>3. OneNightStays(stops) \in Nat
  <2>1. IsFiniteSet({i \in DOMAIN stops : stops[i].nights = 1})
      BY <1>1, FS_Subset
  <2> QED
      BY <2>1, FS_CardinalityType DEF OneNightStays
<1> QED
    BY <1>2, <1>3 DEF TravelLoad

LEMMA RulesGrade ==
  ASSUME NEW route, RouteFits(route), \A k \in DOMAIN route.segments : route.segments[k].to \in DOMAIN route.stops,
         NEW trip
  PROVE  Graded(RunRules(route, trip))
<1> DEFINE load == TravelLoad(route)
           legs == route.segments
<1>1. /\ load.nights \in Nat /\ load.oneNight \in Nat /\ IsFiniteSet(DOMAIN legs)
      /\ \A k \in DOMAIN legs : legs[k].minutes \in Nat /\ route.stops[legs[k].to].nights \in Nat
    BY LoadIsANumber DEF RouteFits, StopsFit
<1> HIDE DEF load
<1> USE DEF Severities
<1>2. Graded(TravelBurden(route))
  <2> DEFINE Severity(seg) ==
               LET nights == route.stops[seg.to].nights
               IN  CASE nights = 0 -> "none"
                     [] nights = 1 /\ seg.minutes >= 240 -> "critical"
                     [] nights > 0 /\ ~(nights = 1 /\ seg.minutes >= 240) ->
                          IF (nights = 1 /\ seg.minutes >= 180) \/ UsableMinutes(seg.minutes, nights) < seg.minutes
                          THEN "warning" ELSE "none"
             severity == [k \in DOMAIN legs |-> Severity(legs[k])]
  <2>1. \A k \in DOMAIN legs : Severity(legs[k]) \in Severities \cup {"none"}
    <3> SUFFICES ASSUME NEW k \in DOMAIN legs PROVE Severity(legs[k]) \in Severities \cup {"none"}
        OBVIOUS
    <3> DEFINE nights == route.stops[legs[k].to].nights
               minutes == legs[k].minutes
    <3>1. nights \in Nat /\ minutes \in Nat
        BY <1>1
    <3> HIDE DEF nights, minutes
    <3>2. (CASE nights = 0 -> "none"
             [] nights = 1 /\ minutes >= 240 -> "critical"
             [] nights > 0 /\ ~(nights = 1 /\ minutes >= 240) ->
                  IF (nights = 1 /\ minutes >= 180) \/ UsableMinutes(minutes, nights) < minutes
                  THEN "warning" ELSE "none") \in Severities \cup {"none"}
        BY <3>1
    <3> QED
        BY <3>2 DEF nights, minutes
  <2>2. TravelBurden(route) = OnSegments("R01", severity)
      BY DEF TravelBurden
  <2>3. DOMAIN severity = DOMAIN legs /\ \A k \in DOMAIN legs : severity[k] \in Severities \cup {"none"}
      BY <2>1
  <2> HIDE DEF severity
  <2> QED
      BY <1>1, <2>2, <2>3, OnSegmentsAreGraded
<1>3. Graded(AccommodationChurn(load))
  <2> DEFINE severity == CASE load.nights = 0 -> "none"
                   [] load.nights > 0 /\ load.oneNight >= 5 -> "critical"
                   [] load.nights > 0 /\ load.oneNight < 5 ->
                        IF load.oneNight > 2 \/ 10 * load.changes > 6 * load.nights THEN "warning" ELSE "none"
  <2>1. severity \in Severities \cup {"none"}
      BY <1>1
  <2>2. AccommodationChurn(load) = OnRoute("R02", severity)
      BY DEF AccommodationChurn
  <2> HIDE DEF severity
  <2> QED
      BY <2>1, <2>2, OnRouteIsGraded
<1>4. Graded(Backtracking(load))
    BY OnRouteIsGraded DEF Backtracking
<1>5. Graded(DepartureRisk(route))
  <2>1. DepartureRisk(route) = {}
        \/ \E severity \in {"critical", "warning"} : DepartureRisk(route) = {Issue("R04", severity, Len(legs))}
      BY DEF DepartureRisk
  <2>2. Graded({})
      BY FS_EmptySet DEF Graded
  <2>3. \A severity \in {"critical", "warning"} : Graded({Issue("R04", severity, Len(legs))})
      BY OneIsGraded
  <2> QED
      BY <2>1, <2>2, <2>3
<1>6. Graded(CarRequired(route, trip))
    BY OnRouteIsGraded DEF CarRequired
<1>7. Graded(LastConnection(route))
  <2> DEFINE Severity(seg) ==
               CASE seg.last = NoTime -> "none"
                 [] seg.last # NoTime -> IF Margin(seg) < 0 THEN "critical"
                                         ELSE IF Margin(seg) < 45 THEN "warning" ELSE "none"
             severity == [k \in DOMAIN legs |-> Severity(legs[k])]
  <2>1. \A k \in DOMAIN legs : Severity(legs[k]) \in Severities \cup {"none"}
      OBVIOUS
  <2>2. LastConnection(route) = OnSegments("R06", severity)
      BY DEF LastConnection
  <2>3. DOMAIN severity = DOMAIN legs /\ \A k \in DOMAIN legs : severity[k] \in Severities \cup {"none"}
      BY <2>1
  <2> HIDE DEF severity
  <2> QED
      BY <1>1, <2>2, <2>3, OnSegmentsAreGraded
<1>8. Graded(TransitShare(load)) /\ Graded(PaceMismatch(load, trip)) /\ Graded(LuggageRisk(route, trip))
    BY OnRouteIsGraded DEF TransitShare, PaceMismatch, LuggageRisk
<1>9. Graded(EfficientSegments(route))
  <2> DEFINE good == {k \in DOMAIN legs : /\ legs[k].minutes <= 180 /\ legs[k].transfers <= 1
                                           /\ route.stops[legs[k].to].nights >= 1}
             S == {k \in good : Cardinality({j \in good : j < k}) < 4}
             name == [k \in S |-> Issue("R50", "good", k)]
  <2>1. IsFiniteSet(S)
    <3>1. S \subseteq DOMAIN legs
        OBVIOUS
    <3> HIDE DEF S
    <3> QED
        BY <1>1, <3>1, FS_Subset
  <2>2. EfficientSegments(route) = {name[k] : k \in S}
      BY DEF EfficientSegments
  <2>3. \A k \in S : name[k].severity = "good"
      BY DEF Issue
  <2> HIDE DEF S, name
  <2> QED
      BY <2>1, <2>2, <2>3, NamedAreFinite DEF Graded
<1>10. Graded(GoodStayLength(route))
    BY OnRouteIsGraded DEF GoodStayLength
<1>11. \A A, B : Graded(A) /\ Graded(B) => Graded(A \cup B)
    BY FS_Union DEF Graded
<1>12. \A A, B, C : Graded(A) /\ Graded(B) /\ Graded(C) => Graded(A \cup B \cup C)
    BY <1>11
<1> DEFINE ofStays == TravelBurden(route) \cup AccommodationChurn(load) \cup Backtracking(load)
           ofLegs  == DepartureRisk(route) \cup CarRequired(route, trip) \cup LastConnection(route)
           ofTrip  == TransitShare(load) \cup PaceMismatch(load, trip) \cup LuggageRisk(route, trip)
           ofWorth == EfficientSegments(route) \cup GoodStayLength(route)
<1>13. Graded(ofStays) /\ Graded(ofLegs) /\ Graded(ofTrip) /\ Graded(ofWorth)
    BY <1>2, <1>3, <1>4, <1>5, <1>6, <1>7, <1>8, <1>9, <1>10, <1>11, <1>12
<1>14. RunRules(route, trip) = ofStays \cup ofLegs \cup (ofTrip \cup ofWorth)
    BY DEF RunRules, load
<1> HIDE DEF ofStays, ofLegs, ofTrip, ofWorth
<1>15. Graded(ofTrip \cup ofWorth)
    BY <1>11, <1>13
<1>16. Graded(ofStays \cup ofLegs \cup (ofTrip \cup ofWorth))
    BY <1>12, <1>13, <1>15
<1> QED
    BY <1>14, <1>16

(***************************************************************************)
(* The steps that build, grade and revise the route.                       *)
(***************************************************************************)
LEMMA Travelling ==
  ASSUME IInv, IInv', TripInv, CallTransportTools
  PROVE  TripInv'
<1> USE DEF Nodes, AfterTransport, AfterChecks, AfterGrounding, Unresolved, BeforeChecks, Unrevised
<1>1. state.report.confidence \in Confidences /\ state.status \in {"running", "complete", "needs_human_review"}
    BY DEF TripInv, RestIsTold
<1>2. CASE Len(state.resolved) < 2
  <2>1. Step("call_transport_tools", "retrieve_constraints", 0, 0) /\ 0 \in Nat
      BY <1>2 DEF CallTransportTools
  <2>2. Told /\ SameReport
      BY <1>2 DEF CallTransportTools, IInv, Shape, EmptyState, Told, SameStops, SameRoute, SameGrade, SameReport
  <2> QED
      BY <1>1, <2>1, <2>2, QuietStep DEF Told, SameReport
<1>3. CASE ~(Len(state.resolved) < 2)
  <2>1. PICK answered \in BOOLEAN :
          /\ Step("call_transport_tools", "retrieve_constraints", 1, Failed(answered))
          /\ state' = [state EXCEPT !.legs = IF answered THEN RouteContext(state.resolved) ELSE <<>>]
      BY <1>3 DEF CallTransportTools
  <2>2. /\ SameStops /\ SameGrade /\ SameReport /\ state'.route = state.route /\ state'.chosen = state.chosen
        /\ state'.legs = IF answered THEN RouteContext(state.resolved) ELSE <<>>
      BY <2>1 DEF IInv, Shape, EmptyState, SameStops, SameGrade, SameReport
  <2>3. node = "call_transport_tools" /\ node' = "retrieve_constraints" /\ Failed(answered) \in Nat
      BY <2>1, Counted, HandsOver
  <2>4. LegsFit(state'.legs)
    <3>1. LegsFit(RouteContext(state.resolved))
        BY SegmentsFit DEF RouteContext, TripInv, StopsAreFound
    <3>2. LegsFit(<<>>)
        BY DEF LegsFit, IsList, Range
    <3> QED
        BY <2>2, <3>1, <3>2
  <2>5. RouteIsBuilt'
      BY <2>2, <2>3, <2>4 DEF TripInv, RouteIsBuilt
  <2>6. RevisionIsTheTrip'
      BY <2>2, <2>3 DEF TripInv, RevisionIsTheTrip
  <2>7. IssuesAreGraded'
      BY <2>2, <2>3 DEF TripInv, IssuesAreGraded, SameGrade
  <2> QED
      BY <1>1, <2>1, <2>2, <2>3, <2>5, <2>6, <2>7, LaterStep DEF SameReport
<1> QED
    BY <1>2, <1>3

LEMMA Checking ==
  ASSUME IInv, IInv', TripInv, RunDeterministicChecks
  PROVE  TripInv'
<1> USE DEF Nodes, AfterTransport, AfterChecks, AfterGrounding, Unresolved, BeforeChecks, Unrevised
<1>1. \E calls : \E failed \in Nat : Step("run_deterministic_checks", "detect_route_issues", calls, failed)
  <2>1. 0 \in Nat
      OBVIOUS
  <2> QED
      BY <2>1, Counted DEF RunDeterministicChecks, ChecksWithGap
<1>2. node = "run_deterministic_checks" /\ node' = "detect_route_issues"
    BY <1>1, HandsOver
<1>3. \/ Told /\ SameReport
      \/ /\ SameStops /\ SameReport /\ state'.chosen = state.chosen /\ state'.legs = state.legs
         /\ state'.health = state.health
         /\ state'.issues = CheckedRoute(state.resolved).issues
         /\ state'.route = RebuildRoute(state.resolved, state.legs)
  <2> USE DEF IInv, Shape, EmptyState, Told, SameStops, SameRoute, SameGrade, SameReport
  <2>1. CASE Len(state.resolved) < 2
      BY <2>1 DEF RunDeterministicChecks, ChecksWithGap
  <2>2. CASE ~(Len(state.resolved) < 2)
    <3>1. PICK answered \in BOOLEAN, checked \in {CheckedRoute(state.resolved)} :
            state' = IF answered
                     THEN [state EXCEPT !.issues = checked.issues, !.load = checked.load,
                                        !.route = RebuildRoute(state.resolved, state.legs)]
                     ELSE [state EXCEPT !.gaps = @ \cup {"rules"}]
        BY <2>2 DEF RunDeterministicChecks, ChecksWithGap
    <3>2. CASE answered
        BY <3>1, <3>2
    <3>3. CASE ~answered
        BY <3>1, <3>3
    <3> QED
        BY <3>2, <3>3
  <2> QED
      BY <2>1, <2>2
<1>4. SameStops /\ SameReport /\ state'.chosen = state.chosen /\ state'.legs = state.legs /\ state'.health = state.health
    BY <1>3 DEF Told, SameRoute, SameGrade
<1>5. RouteIsBuilt'
  <2>1. LegsFit(state'.legs)
      BY <1>4 DEF TripInv, RouteIsBuilt
  <2>2. RouteFits(RebuildRoute(state.resolved, state.legs)) /\ RebuildRoute(state.resolved, state.legs).stops = state.resolved
      BY RebuiltFits DEF TripInv, StopsAreFound, RouteIsBuilt
  <2>3. state'.route # None => state'.route.stops = state'.resolved /\ RouteFits(state'.route)
      BY <1>2, <1>3, <2>2 DEF Told, SameStops, SameRoute, TripInv, RouteIsBuilt
  <2> QED
      BY <1>2, <2>1, <2>3 DEF RouteIsBuilt
<1>6. RevisionIsTheTrip'
    BY <1>2, <1>4 DEF TripInv, RevisionIsTheTrip
<1>7. IssuesAreGraded'
  <2> DEFINE route == BuildRoute(state.resolved, AllowCar)
  <2>1. /\ RouteFits(route)
        /\ \A k \in DOMAIN route.segments : route.segments[k].to \in DOMAIN route.stops
    <3>1. StopsFit(state.resolved)
        BY DEF TripInv, StopsAreFound
    <3>2. route.stops = state.resolved /\ route.segments = Segments(state.resolved, AllowCar)
        BY DEF BuildRoute
    <3> HIDE DEF route
    <3>3. LegsFit(route.segments) /\ \A k \in DOMAIN route.segments : route.segments[k].to \in DOMAIN route.stops
        BY <3>1, <3>2, SegmentsFit
    <3> QED
        BY <3>1, <3>2, <3>3, ListFacts DEF RouteFits, LegsFit
  <2>2. CheckedRoute(state.resolved).issues = RunRules(route, request.prefs)
      BY DEF CheckedRoute
  <2> HIDE DEF route
  <2>3. Graded(CheckedRoute(state.resolved).issues)
      BY <2>1, <2>2, RulesGrade
  <2>4. Graded(state'.issues)
      BY <1>3, <2>3 DEF Told, SameGrade, TripInv, IssuesAreGraded, Graded
  <2> QED
      BY <1>2, <2>4 DEF IssuesAreGraded, Graded
<1> QED
    BY <1>1, <1>4, <1>5, <1>6, <1>7, LaterStep DEF SameReport, TripInv, RestIsTold

\* A route with a place that was not found is not graded healthy.
LEMMA WarnedIsNotHealthy ==
  ASSUME NEW issues, IsFiniteSet(issues), \E i \in issues : i.severity = "warning"
  PROVE  GradeHealth(issues) # "healthy"
<1>1. OfSeverity(issues, "warning") # {} /\ IsFiniteSet(OfSeverity(issues, "warning"))
    BY FS_Subset DEF OfSeverity
<1>2. Cardinality(OfSeverity(issues, "warning")) >= 1
    BY <1>1, FS_CardinalityType, FS_EmptySet
<1> QED
    BY <1>2 DEF GradeHealth

LEMMA Detecting ==
  ASSUME IInv, IInv', TripInv, DetectRouteIssues
  PROVE  TripInv'
<1> USE DEF Nodes, AfterTransport, AfterChecks, AfterGrounding, Unresolved, BeforeChecks, Unrevised
<1>1. Step("detect_route_issues", "generate_candidate_fixes", 0, 0) /\ 0 \in Nat
    BY DEF DetectRouteIssues
<1>2. node = "detect_route_issues" /\ node' = "generate_candidate_fixes"
    BY <1>1, HandsOver
<1>3. /\ SameStops /\ SameRoute /\ SameReport
      /\ state'.issues = DetectedIssues /\ state'.health = GradeHealth(DetectedIssues)
    BY DEF DetectRouteIssues, IInv, Shape, EmptyState, SameStops, SameRoute, SameReport
<1>4. Graded(DetectedIssues)
  <2> DEFINE closed == IF state.closed # {} THEN {Issue("R20", "critical", 0)} ELSE {}
             lead   == IF state.longLead # {} THEN {Issue("R21", "warning", 0)} ELSE {}
             stale  == IF state.stale THEN {Issue("R22", "warning", 0)} ELSE {}
             lost   == IF state.unresolved # {} THEN {Issue("R23", "warning", 0)} ELSE {}
  <2>1. /\ Graded({}) /\ Graded({Issue("R20", "critical", 0)}) /\ Graded({Issue("R21", "warning", 0)})
        /\ Graded({Issue("R22", "warning", 0)}) /\ Graded({Issue("R23", "warning", 0)})
    <3>1. Graded({})
        BY FS_EmptySet DEF Graded
    <3>2. "critical" \in Severities /\ "warning" \in Severities
        BY DEF Severities
    <3> QED
        BY <3>1, <3>2, OneIsGraded
  <2>2. Graded(closed) /\ Graded(lead) /\ Graded(stale) /\ Graded(lost)
      BY <2>1
  <2>3. DetectedIssues = state.issues \cup closed \cup lead \cup stale \cup lost
      BY DEF DetectedIssues
  <2>4. Graded(state.issues)
      BY DEF TripInv, IssuesAreGraded, Graded
  <2>5. \A A, B : Graded(A) /\ Graded(B) => Graded(A \cup B)
      BY FS_Union DEF Graded
  <2> HIDE DEF closed, lead, stale, lost
  <2>6. Graded(state.issues \cup closed) /\ Graded(lead \cup stale)
      BY <2>2, <2>4, <2>5
  <2>7. Graded(state.issues \cup closed \cup lead)
      BY <2>2, <2>5, <2>6
  <2>8. Graded(state.issues \cup closed \cup lead \cup stale)
      BY <2>2, <2>5, <2>7
  <2> QED
      BY <2>2, <2>3, <2>5, <2>8
<1>5. state.unresolved # {} => \E i \in DetectedIssues : i.severity = "warning"
  <2>1. state.unresolved # {} => Issue("R23", "warning", 0) \in DetectedIssues
      BY DEF DetectedIssues
  <2>2. Issue("R23", "warning", 0).severity = "warning"
      BY DEF Issue
  <2> QED
      BY <2>1, <2>2
<1>6. IssuesAreGraded'
    BY <1>3, <1>4, <1>5, WarnedIsNotHealthy DEF IssuesAreGraded, Graded, SameStops
<1>7. RouteIsBuilt' /\ RevisionIsTheTrip'
    BY <1>2, <1>3 DEF TripInv, RouteIsBuilt, RevisionIsTheTrip, SameStops, SameRoute
<1> QED
    BY <1>1, <1>3, <1>6, <1>7, LaterStep DEF SameReport, TripInv, RestIsTold

\* The calls that fail are some of those made, and so many.
LEMMA FailuresAre ==
  ASSUME NEW calls, NEW failing \in Failures(calls)
  PROVE  failing \in SUBSET calls /\ Cardinality(failing) \in Nat
<1>1. PICK k \in 0..MaxFaults : failing \in kSubset(k, calls)
    BY DEF Failures
<1> QED
    BY <1>1, RunAssumption DEF kSubset

LEMMA Revising ==
  ASSUME IInv, IInv', TripInv, GenerateCandidateFixes
  PROVE  TripInv'
<1> USE DEF Nodes, AfterTransport, AfterChecks, AfterGrounding, Unresolved, BeforeChecks, Unrevised
<1>1. CASE state.route = None
  <2>1. Step("generate_candidate_fixes", "narrate_critique", 0, 0) /\ 0 \in Nat /\ UNCHANGED state
      BY <1>1 DEF GenerateCandidateFixes
  <2>2. SameStops /\ SameRoute /\ SameGrade /\ SameReport
      BY <2>1 DEF SameStops, SameRoute, SameGrade, SameReport
  <2>3. node = "generate_candidate_fixes" /\ node' = "narrate_critique"
      BY <2>1, HandsOver
  <2>4. RouteIsBuilt' /\ RevisionIsTheTrip' /\ IssuesAreGraded'
      BY <2>2, <2>3 DEF TripInv, RouteIsBuilt, RevisionIsTheTrip, IssuesAreGraded, SameStops, SameRoute, SameGrade
  <2> QED
      BY <2>1, <2>2, <2>4, LaterStep DEF SameReport, TripInv, RestIsTold
<1>2. CASE state.route # None
  <2> DEFINE candidates == GenerateCandidates(state.route, \E i \in state.issues : i.rule = "R03")
             asked == {k \in 1..MaxRevisionCandidates : k \in DOMAIN candidates}
  <2>1. PICK failing \in Failures(asked) :
          /\ Step("generate_candidate_fixes", "narrate_critique", Cardinality(asked), Cardinality(failing))
          /\ \E costed \in {Costed(candidates, asked \ failing)} :
               \E chosen \in ChosenAmong(costed, state.route) :
                 state' = [state EXCEPT !.candidates = costed, !.chosen = chosen]
    <3>1. \E cs \in {candidates} : \E failing \in Failures({k \in 1..MaxRevisionCandidates : k \in DOMAIN cs}) :
            /\ Step("generate_candidate_fixes", "narrate_critique",
                    Cardinality({k \in 1..MaxRevisionCandidates : k \in DOMAIN cs}), Cardinality(failing))
            /\ \E costed \in {Costed(cs, {k \in 1..MaxRevisionCandidates : k \in DOMAIN cs} \ failing)} :
                 \E chosen \in ChosenAmong(costed, state.route) :
                   state' = [state EXCEPT !.candidates = costed, !.chosen = chosen]
        BY <1>2, Zenon DEF GenerateCandidateFixes
    <3> HIDE DEF candidates
    <3> QED
        BY <3>1, Zenon
  <2> DEFINE costed == Costed(candidates, asked \ failing)
  <2>2. PICK chosen \in ChosenAmong(costed, state.route) :
          state' = [state EXCEPT !.candidates = costed, !.chosen = chosen]
      BY <2>1
  <2>3. RouteFits(state.route)
      BY <1>2 DEF TripInv, RouteIsBuilt
  <2>4. candidates \in Seq(Offered(state.route))
    <3>1. (\E i \in state.issues : i.rule = "R03") \in BOOLEAN
        OBVIOUS
    <3> QED
        BY <2>3, <3>1, CandidatesAreOffered
  <2>5. asked \ failing \in SUBSET DOMAIN candidates
      OBVIOUS
  <2> HIDE DEF candidates, asked
  <2>6. IsList(costed) /\ Range(costed) \subseteq {WithLoad(c) : c \in Offered(state.route)}
      BY <2>4, <2>5, CostedAre
  <2> HIDE DEF costed
  <2>7. chosen # None =>
          KeepsTheTrip(state.route.stops, chosen.stops)
          /\ (VisitedOnce(state.route.stops) => Improves(chosen, state.route))
      BY <2>2, <2>3, <2>6, ChosenIs
  <2>8. /\ SameStops /\ SameGrade /\ SameReport /\ state'.route = state.route /\ state'.legs = state.legs
        /\ state'.chosen = chosen
      BY <2>2 DEF IInv, Shape, EmptyState, SameStops, SameGrade, SameReport
  <2>9. Cardinality(failing) \in Nat
      BY <2>1, FailuresAre
  <2>10. node = "generate_candidate_fixes" /\ node' = "narrate_critique"
      BY <2>1, <2>9, HandsOver
  <2>11. RevisionIsTheTrip'
      BY <1>2, <2>7, <2>8, <2>10 DEF RevisionIsTheTrip
  <2>12. RouteIsBuilt' /\ IssuesAreGraded'
      BY <2>8, <2>10 DEF TripInv, RouteIsBuilt, IssuesAreGraded, SameStops, SameGrade
  <2> QED
      BY <2>1, <2>8, <2>9, <2>11, <2>12, LaterStep DEF SameReport, TripInv, RestIsTold
<1> QED
    BY <1>1, <1>2

(***************************************************************************)
(* The reading of a text.                                                  *)
(***************************************************************************)
\* The segments kept are some of its segments that name a place.
LEMMA KeptAreTurns ==
  ASSUME NEW Part, NEW text \in Seq(Part)
  PROVE  /\ Turns(text) \subseteq Nat /\ IsFiniteSet(Turns(text))
         /\ \A i \in Turns(text) : i \in DOMAIN text /\ NamesPlace(text[i])
         /\ KeptSegments(text) \subseteq Turns(text) /\ IsFiniteSet(KeptSegments(text))
         /\ KeptSegments(text) \subseteq Nat
         /\ \A i \in Turns(text) : Earlier(text, i) # {} =>
              Max(Earlier(text, i)) \in Earlier(text, i) /\ \A j \in Earlier(text, i) : j <= Max(Earlier(text, i))
<1>1. Len(text) \in Nat /\ DOMAIN text = 1..Len(text) /\ IsFiniteSet(1..Len(text))
    BY FS_Interval
<1>2. Turns(text) \subseteq 1..Len(text) /\ \A i \in Turns(text) : NamesPlace(text[i])
    BY DEF Turns
<1>3. IsFiniteSet(Turns(text)) /\ Turns(text) \subseteq Nat
    BY <1>1, <1>2, FS_Subset
<1>4. KeptSegments(text) \subseteq Turns(text)
    BY DEF KeptSegments
<1>5. ASSUME NEW i \in Turns(text), Earlier(text, i) # {}
      PROVE  Max(Earlier(text, i)) \in Earlier(text, i) /\ \A j \in Earlier(text, i) : j <= Max(Earlier(text, i))
  <2>1. Earlier(text, i) \subseteq Turns(text)
      BY DEF Earlier
  <2>2. IsFiniteSet(Earlier(text, i)) /\ Earlier(text, i) \subseteq Int
      BY <1>3, <2>1, FS_Subset
  <2>3. Max(Earlier(text, i)) \in Earlier(text, i) /\ \A j \in Earlier(text, i) : Max(Earlier(text, i)) >= j
      BY <1>5, <2>2, GreatestIsOneOf
  <2> QED
      BY <2>2, <2>3
<1> QED
    BY <1>1, <1>2, <1>3, <1>4, <1>5, FS_Subset

\* The stops read are the segments kept, in order, up to MaxRead.
LEMMA ReadingIs ==
  ASSUME NEW Part, NEW text \in Seq(Part)
  PROVE  LET kept == KeptSegments(text)
             read == ReadStops(text)
         IN  /\ IsList(read)
             /\ \A k \in DOMAIN read : InOrder(kept)[k] \in kept /\ read[k] = ParseSegment(text[InOrder(kept)[k]])
             /\ Len(read) < MaxRead => Len(read) = Cardinality(kept)
<1> DEFINE kept == KeptSegments(text)
           n == Cardinality(kept)
           all == [k \in 1..n |-> ParseSegment(text[InOrder(kept)[k]])]
<1>1. n \in Nat /\ \A k \in 1..n : InOrder(kept)[k] \in kept
    BY KeptAreTurns, PositionsInOrder, FS_CardinalityType
<1>2. all = [k \in 1..n |-> all[k]]
    OBVIOUS
<1>3. \A k \in 1..n : all[k] = ParseSegment(text[InOrder(kept)[k]])
    OBVIOUS
<1>4. ReadStops(text) = FirstOnes(all, MaxRead)
    BY DEF ReadStops
<1> HIDE DEF all, n
<1>5. IsList(all) /\ Len(all) = n /\ DOMAIN all = 1..n
    BY <1>1, <1>2, ListOfPlaces, Zenon
<1>6. MaxRead \in Nat
    BY DEF MaxRead
<1>7. /\ IsList(FirstOnes(all, MaxRead)) /\ DOMAIN FirstOnes(all, MaxRead) \subseteq DOMAIN all
      /\ \A k \in DOMAIN FirstOnes(all, MaxRead) : FirstOnes(all, MaxRead)[k] = all[k]
    BY <1>5, <1>6, FirstOnesOf
<1>8. Len(FirstOnes(all, MaxRead)) < MaxRead => Len(FirstOnes(all, MaxRead)) = n
    BY <1>1, <1>5, <1>6 DEF FirstOnes, IsList
<1> QED
    BY <1>1, <1>3, <1>4, <1>5, <1>7, <1>8 DEF n

\* A place that is named is kept where it is named first.
LEMMA NamedPlacesAreKept ==
  ASSUME NEW Part, NEW text \in Seq(Part), NEW i \in Turns(text)
  PROVE  \E j \in KeptSegments(text) : text[j].place = text[i].place
<1> DEFINE T == {j \in Turns(text) : text[j].place = text[i].place}
<1>1. T \subseteq Nat /\ i \in T
    BY KeptAreTurns
<1>2. PICK m \in T : \A j \in T : m <= j
    BY <1>1, LeastExists
<1>3. m \in KeptSegments(text)
  <2> SUFFICES ASSUME Earlier(text, m) # {} PROVE text[Max(Earlier(text, m))].place # text[m].place
      BY DEF KeptSegments
  <2>1. Max(Earlier(text, m)) \in Turns(text) /\ Max(Earlier(text, m)) < m
      BY KeptAreTurns DEF Earlier
  <2> DEFINE e == Max(Earlier(text, m))
  <2>2. e \in Nat /\ m \in Nat
      BY <1>1, <2>1, KeptAreTurns
  <2> HIDE DEF e
  <2>3. e \notin T
      BY <1>2, <2>1, <2>2 DEF e
  <2> QED
      BY <2>1, <2>3 DEF e
<1> QED
    BY <1>3

\* The last place kept is the last place named.
LEMMA LastPlaceIsKept ==
  ASSUME NEW Part, NEW text \in Seq(Part), NEW last \in KeptSegments(text),
         \A i \in KeptSegments(text) : i <= last
  PROVE  text[Max(Turns(text))].place = text[last].place
<1> DEFINE T == {j \in Turns(text) : j > last /\ text[j].place # text[last].place}
<1>1. last \in Turns(text) /\ last \in Nat /\ T \subseteq Nat
    BY KeptAreTurns
<1>2. ASSUME T # {} PROVE FALSE
  <2>1. PICK m \in T : \A j \in T : m <= j
      BY <1>1, <1>2, LeastExists
  <2>2. last \in Earlier(text, m) /\ m \in Nat /\ m \in Turns(text) /\ m > last
      BY <1>1, <2>1 DEF Earlier
  <2> DEFINE e == Max(Earlier(text, m))
  <2>3. e \in Turns(text) /\ e < m /\ last <= e
      BY <2>2, KeptAreTurns DEF Earlier
  <2>4. e \in Nat
      BY <2>3, KeptAreTurns
  <2> HIDE DEF e
  <2>5. e \notin T
      BY <2>1, <2>2, <2>3, <2>4
  <2>6. text[e].place = text[last].place
      BY <1>1, <2>3, <2>4, <2>5
  <2>7. m \in KeptSegments(text)
      BY <2>1, <2>2, <2>6 DEF KeptSegments, e
  <2> QED
      BY <1>1, <2>2, <2>7
<1>3. Max(Turns(text)) \in Turns(text) /\ last <= Max(Turns(text)) /\ Max(Turns(text)) \in Nat
  <2>1. Turns(text) # {} /\ IsFiniteSet(Turns(text)) /\ Turns(text) \subseteq Int /\ Turns(text) \subseteq Nat
      BY <1>1, KeptAreTurns
  <2>2. Max(Turns(text)) \in Turns(text) /\ \A j \in Turns(text) : Max(Turns(text)) >= j
      BY <2>1, GreatestIsOneOf
  <2> QED
      BY <1>1, <2>1, <2>2
<1> QED
    BY <1>1, <1>2, <1>3

\* What a stop may be
ReadFits(stop) == stop.nights \in Nat /\ (stop.match = "exact" => stop.place \in Places)

LEMMA ElementsAre == \A T : \A s \in Seq(T) : \A i \in DOMAIN s : s[i] \in T
OBVIOUS

\* A stop of a text has a number of nights, and is in the catalogue if it is
\* found there.
LEMMA ParsedFits ==
  ASSUME request \in Requests, NEW i \in Turns(request.text)
  PROVE  ReadFits(ParseSegment(request.text[i]))
<1> DEFINE segment == request.text[i]
<1>1. /\ request.text \in Seq([phrase : STRING, place : STRING, match : STRING, a : Nat, b : Nat])
      /\ \A j \in DOMAIN request.text :
           NamesPlace(request.text[j]) /\ request.text[j].match = "exact" => request.text[j].place \in Places
    BY RequestsAssumption
<1>2. i \in DOMAIN request.text /\ NamesPlace(segment)
    BY <1>1, KeptAreTurns
<1>3. segment.a \in Nat /\ segment.b \in Nat /\ (segment.match = "exact" => segment.place \in Places)
  <2>1. segment \in [phrase : STRING, place : STRING, match : STRING, a : Nat, b : Nat]
      BY <1>1, <1>2, ElementsAre, Zenon
  <2>2. segment.match = "exact" => segment.place \in Places
      BY <1>1, <1>2
  <2> HIDE DEF segment
  <2> QED
      BY <2>1, <2>2
<1> HIDE DEF segment
<1>4. NightsRead(segment) \in Nat
    BY <1>3 DEF NightsRead
<1>5. (IF NightsRead(segment) < MaxNights THEN NightsRead(segment) ELSE MaxNights) \in Nat
    BY <1>4 DEF MaxNights
<1> QED
    BY <1>3, <1>5 DEF ReadFits, ParseSegment, segment

\* What is read is a list of stops.
LEMMA ReadStopsFit ==
  ASSUME request \in Requests, NEW reading \in Readings
  PROVE  /\ IsList(FirstOnes(reading.stops, MaxStops))
         /\ \A i \in DOMAIN FirstOnes(reading.stops, MaxStops) : ReadFits(FirstOnes(reading.stops, MaxStops)[i])
         /\ reading.by = "stand_in" => reading.stops = ReadStops(request.text)
<1>1. IsList(reading.stops) /\ \A i \in DOMAIN reading.stops : ReadFits(reading.stops[i])
  <2>1. IsList(request.stops) /\ \A i \in DOMAIN request.stops : ReadFits(request.stops[i])
    <3>1. request.stops \in Seq([place : Places, nights : Nat, match : {"exact", "fuzzy", "unknown"}])
        BY RequestsAssumption
    <3> DEFINE Stops == [place : Places, nights : Nat, match : {"exact", "fuzzy", "unknown"}]
    <3>2. \A stop \in Stops : ReadFits(stop)
        BY DEF ReadFits
    <3> HIDE DEF Stops
    <3>3. \A i \in DOMAIN request.stops : request.stops[i] \in Stops
        BY <3>1, ElementsAre, Zenon DEF Stops
    <3> QED
        BY <3>1, <3>2, <3>3, AnySequenceIsAList
  <2>2. IsList(ReadStops(request.text)) /\ \A i \in DOMAIN ReadStops(request.text) : ReadFits(ReadStops(request.text)[i])
    <3>1. request.text \in Seq([phrase : STRING, place : STRING, match : STRING, a : Nat, b : Nat])
        BY RequestsAssumption
    <3>2. KeptSegments(request.text) \subseteq Turns(request.text)
        BY <3>1, KeptAreTurns
    <3> QED
        BY <3>1, <3>2, ReadingIs, ParsedFits
  <2> QED
      BY <2>1, <2>2 DEF Readings
<1>2. reading.by = "stand_in" => reading.stops = ReadStops(request.text)
    BY DEF Readings
<1> QED
    BY <1>1, <1>2, FirstOnesOf, LimitsAssumption

LEMMA Parsing ==
  ASSUME IInv, IInv', TripInv, ParseItinerary \/ TextNotRead
  PROVE  TripInv'
<1> USE DEF Nodes, AfterTransport, AfterChecks, AfterGrounding, Unresolved, BeforeChecks, Unrevised
<1>1. \E failed \in Nat : Step("parse_itinerary", "resolve_places", 0, failed)
  <2>1. 0 \in Nat /\ 1 \in Nat
      OBVIOUS
  <2> QED
      BY <2>1, Zenon DEF ParseItinerary, TextNotRead
<1>2. node = "parse_itinerary" /\ node' = "resolve_places" /\ request' = request /\ faults' \in 0..MaxFaults
    BY <1>1, HandsOver
<1>3. /\ SameRoute /\ SameGrade /\ SameReport /\ state'.resolved = state.resolved /\ state'.unresolved = state.unresolved
      /\ \/ state'.stops = state.stops /\ state'.reader = state.reader
         \/ \E reading \in Readings :
              state'.stops = FirstOnes(reading.stops, MaxStops) /\ state'.reader = reading.by
  <2> USE DEF IInv, Shape, EmptyState, SameRoute, SameGrade, SameReport
  <2>1. CASE ParseItinerary
    <3>1. PICK reading \in Readings :
            state' = [state EXCEPT !.reader = reading.by, !.stops = FirstOnes(reading.stops, MaxStops)]
        BY <2>1 DEF ParseItinerary
    <3>2. state'.stops = FirstOnes(reading.stops, MaxStops) /\ state'.reader = reading.by
        BY <3>1
    <3> QED
        BY <3>1, <3>2
  <2>2. CASE TextNotRead
      BY <2>2 DEF TextNotRead
  <2> QED
      BY <2>1, <2>2
<1>4. StopsAreRead'
  <2>1. CASE state'.stops = state.stops /\ state'.reader = state.reader
      BY <1>2, <2>1 DEF TripInv, StopsAreRead
  <2>2. CASE \E reading \in Readings :
               state'.stops = FirstOnes(reading.stops, MaxStops) /\ state'.reader = reading.by
      BY <1>2, <2>2, ReadStopsFit DEF StopsAreRead, ReadFits, IInv, WithinBudget
  <2> QED
      BY <1>3, <2>1, <2>2
<1>5. StopsAreFound'
  <2>1. state'.resolved = <<>> /\ state'.unresolved = {}
      BY <1>2, <1>3 DEF TripInv, StopsAreFound
  <2>2. StopsFit(<<>>) /\ PlacesOf(<<>>) = {} /\ Len(<<>>) = 0 /\ Cardinality({}) = 0
      BY FS_EmptySet DEF StopsFit, IsList, Range, PlacesOf
  <2> QED
      BY <1>2, <2>1, <2>2 DEF StopsAreFound
<1>6. RouteIsBuilt' /\ RevisionIsTheTrip' /\ IssuesAreGraded' /\ RestIsTold'
    BY <1>2, <1>3 DEF TripInv, RouteIsBuilt, RevisionIsTheTrip, IssuesAreGraded, RestIsTold, SameRoute, SameGrade, SameReport
<1> QED
    BY <1>4, <1>5, <1>6 DEF TripInv

LEMMA Resolving ==
  ASSUME IInv, IInv', TripInv, ResolvePlaces
  PROVE  TripInv'
<1> USE DEF Nodes, AfterTransport, AfterChecks, AfterGrounding, Unresolved, BeforeChecks, Unrevised
<1>1. PICK failing \in Failures(DOMAIN state.stops) : ResolveTo(failing, {"exact"}, DOMAIN state.stops)
    BY DEF ResolvePlaces
<1> DEFINE stops == state.stops
           n     == Len(stops)
           found == {i \in 1..n : i \notin failing /\ Resolves(stops[i], {"exact"})}
           order == InOrder(found)
           new   == [k \in DOMAIN order |-> Stay(stops[order[k]])]
<1>2. /\ Step("resolve_places", "load_trip_state", n, Cardinality(failing))
      /\ state' = [state EXCEPT !.resolved = new, !.unresolved = DOMAIN stops \ found]
    BY <1>1 DEF ResolveTo
<1>3. /\ n \in Nat /\ DOMAIN stops = 1..n /\ IsFiniteSet(DOMAIN stops) /\ Cardinality(DOMAIN stops) = n
      /\ \A i \in DOMAIN stops : ReadFits(stops[i])
  <2>1. n \in Nat /\ DOMAIN stops = 1..n /\ IsFiniteSet(DOMAIN stops)
      BY ListFacts DEF TripInv, StopsAreRead
  <2>2. \A i \in DOMAIN stops : ReadFits(stops[i])
      BY DEF TripInv, StopsAreRead, ReadFits
  <2> HIDE DEF n
  <2>3. Cardinality(1..n) = n
      BY <2>1, FS_Interval
  <2> QED
      BY <2>1, <2>2, <2>3
<1>4. /\ found \in SUBSET DOMAIN stops /\ IsFiniteSet(found) /\ found \subseteq Nat
      /\ \A i \in found : stops[i].match = "exact"
    BY <1>3, FS_Subset DEF Resolves
<1>5. Cardinality(failing) \in Nat
    BY <1>1, FailuresAre
<1>6. node = "resolve_places" /\ node' = "load_trip_state" /\ request' = request /\ faults' \in 0..MaxFaults
    BY <1>2, <1>5, HandsOver
<1>7. /\ SameRoute /\ SameGrade /\ SameReport /\ state'.stops = stops /\ state'.reader = state.reader
      /\ state'.resolved = new /\ state'.unresolved = DOMAIN stops \ found
  <2> HIDE DEF new, found
  <2> QED
      BY <1>2 DEF IInv, Shape, EmptyState, SameRoute, SameGrade, SameReport
<1>8. \A i \in DOMAIN stops : stops[i].match # "exact" => i \notin found
    BY <1>4
<1> DEFINE m == Cardinality(found)
<1> HIDE DEF found, n
<1>9. m \in Nat /\ DOMAIN order = 1..m /\ \A k \in 1..m : order[k] \in found
    BY <1>4, PositionsInOrder, FS_CardinalityType
<1> HIDE DEF order, m
<1>10. new = [k \in 1..m |-> new[k]] /\ \A k \in 1..m : new[k] = Stay(stops[order[k]])
    BY <1>9
<1> HIDE DEF new
<1>11. IsList(new) /\ Len(new) = m /\ DOMAIN new = 1..m
    BY <1>9, <1>10, ListOfPlaces, Zenon
<1>12. ASSUME NEW k \in DOMAIN new
       PROVE  new[k].place \in Places /\ new[k].nights \in Nat /\ new[k].place \in ExactPlaces(stops)
  <2>1. order[k] \in DOMAIN stops /\ stops[order[k]].match = "exact" /\ ReadFits(stops[order[k]])
      BY <1>3, <1>4, <1>9, <1>11
  <2>2. new[k].place = stops[order[k]].place /\ new[k].nights = stops[order[k]].nights
      BY <1>10, <1>11 DEF Stay
  <2>3. stops[order[k]] \in Range(stops)
      BY <2>1 DEF Range
  <2> QED
      BY <2>1, <2>2, <2>3 DEF ReadFits, ExactPlaces
<1>13. Cardinality(DOMAIN stops \ found) = n - m
  <2>1. Cardinality(DOMAIN stops \ found) = n - Cardinality(DOMAIN stops \cap found)
      BY <1>3, FS_Difference DEF n
  <2>2. DOMAIN stops \cap found = found
      BY <1>4
  <2> QED
      BY <2>1, <2>2 DEF m
<1>14. StopsAreFound'
  <2>1. StopsFit(new) /\ PlacesOf(new) \subseteq ExactPlaces(stops)
      BY <1>11, <1>12 DEF StopsFit, PlacesOf
  <2>2. Len(new) + Cardinality(DOMAIN stops \ found) = Len(stops)
      BY <1>3, <1>9, <1>11, <1>13 DEF n
  <2> QED
      BY <1>6, <1>7, <1>8, <2>1, <2>2 DEF StopsAreFound
<1>15. StopsAreRead'
    BY <1>6, <1>7 DEF TripInv, StopsAreRead
<1>16. RouteIsBuilt' /\ RevisionIsTheTrip' /\ IssuesAreGraded' /\ RestIsTold'
  <2>1. state.route = None
      BY <1>6 DEF TripInv, RouteIsBuilt
  <2> QED
    BY <1>6, <1>7, <2>1 DEF TripInv, RouteIsBuilt, RevisionIsTheTrip, IssuesAreGraded, RestIsTold, SameRoute, SameGrade, SameReport
<1> QED
    BY <1>14, <1>15, <1>16 DEF TripInv

LEMMA TripInit == Init => TripInv
<1> SUFFICES ASSUME Init PROVE TripInv
    OBVIOUS
<1>1. /\ state.stops = <<>> /\ state.resolved = <<>> /\ state.unresolved = {} /\ state.legs = <<>> /\ state.reader = "none"
      /\ state.route = None /\ state.chosen = None /\ state.issues = {} /\ state.report = NoReport
      /\ state.status = "running" /\ node = "parse_itinerary" /\ faults = 0
    BY DEF Init, EmptyState
<1>2. IsList(<<>>) /\ DOMAIN <<>> = {} /\ Len(<<>>) = 0 /\ IsFiniteSet({}) /\ Cardinality({}) = 0
    BY FS_EmptySet DEF IsList, Range
<1>3. StopsAreRead
    BY <1>1, <1>2 DEF StopsAreRead
<1>4. StopsAreFound
    BY <1>1, <1>2 DEF StopsAreFound, StopsFit, PlacesOf, Unresolved
<1>5. RouteIsBuilt /\ RevisionIsTheTrip /\ IssuesAreGraded
    BY <1>1, <1>2 DEF RouteIsBuilt, LegsFit, RevisionIsTheTrip, IssuesAreGraded, BeforeChecks
<1>6. RestIsTold
    BY <1>1, RunAssumption DEF RestIsTold, NoReport, Confidences, Insufficient, Medium, High
<1> QED
    BY <1>3, <1>4, <1>5, <1>6 DEF TripInv

\* Every step keeps both parts of it.
LEMMA TripStep == IInv /\ TripInv /\ [Next]_vars => IInv' /\ TripInv'
<1> SUFFICES ASSUME IInv, TripInv, [Next]_vars PROVE IInv' /\ TripInv'
    OBVIOUS
<1>1. IInv'
    BY NextInv
<1>2. CASE UNCHANGED vars
    BY <1>1, <1>2, Standing
<1>3. CASE Next
  <2>1. CASE Done
    <3>1. UNCHANGED vars
        BY <2>1 DEF Done
    <3> QED
        BY <1>1, <3>1, Standing
  <2> QED
      BY <1>1, <1>3, <2>1, Parsing, Resolving, LookingUp, Travelling, Checking, Detecting, Revising, Narrating, Grounding,
         Deciding, Handing, Telling DEF Next
<1> QED
    BY <1>2, <1>3

LEMMA TripInvariance == Spec => [](IInv /\ TripInv)
<1>1. Init => IInv /\ TripInv
    BY InitInv, TripInit
<1> QED
    BY <1>1, TripStep, PTL DEF Spec

(***************************************************************************)
(* The theorems.                                                           *)
(***************************************************************************)
\* Whatever the itinerary and whatever fails, a run of the graph never meets the
\* end of its budget of tool calls (agents/common/tools.py ToolBudget.consume).
THEOREM NoRunExhaustsItsBudget == Spec => []BudgetIsEnough
<1>1. IInv => BudgetIsEnough
    BY DEF IInv, WithinBudget, BudgetIsEnough, Nodes, AfterTransport, AfterChecks, AfterGrounding
<1> QED
    BY <1>1, Invariance, PTL

\* A result of high confidence was costed, backed by evidence and depends on no
\* conflict known to it
\* (agents/common/guardrails.py run_guardrails, route_check/nodes.py).
THEOREM ConfidenceIsEarned == Spec => []ConfidentOnlyWhenChecked
<1>1. IInv => ConfidentOnlyWhenChecked
  <2> SUFFICES ASSUME IInv, state.result # None, state.result.confidence = High
               PROVE  /\ state.route # None /\ state.load # None
                      /\ state.evidence # {} /\ state.conflicts = {}
      BY DEF ConfidentOnlyWhenChecked
  <2>1. node = "done" /\ state.report.confidence = High
      BY DEF IInv, ResultIsTold
  <2>2. ReportIsEarned
      BY <2>1 DEF IInv, AfterGrounding
  <2> QED
      BY <2>1, <2>2 DEF IInv, ReportIsEarned, GapsAreLeft, AfterChecks, AfterGrounding
<1> QED
    BY <1>1, Invariance, PTL

\* A result that depends on a conflict known to it is held for review, whether or not its
\* task could be created (route_check/nodes.py make_human_review).
THEOREM DisputedResultsWait == Spec => []DisputedRoutesWait
<1>1. IInv => DisputedRoutesWait
  <2> SUFFICES ASSUME IInv, state.result # None, state.conflicts # {}
               PROVE  /\ state.result.status = "needs_human_review" /\ state.result.confidence < High
                      /\ state.result.closing.caveats
      BY DEF DisputedRoutesWait
  <2>1. node = "done"
      BY DEF IInv, ResultIsTold
  <2>2. ReportIsEarned
      BY <2>1 DEF IInv, AfterGrounding
  <2> QED
      BY <2>1, <2>2 DEF IInv, ReportIsEarned, ResultIsTold
<1> QED
    BY <1>1, Invariance, PTL

\* The state between two nodes is what the nodes read and write
\* (agents/route_check/state.py).
THEOREM StateIsTyped == Spec => []TypeOK
<1>1. IInv /\ TripInv => TypeOK
  <2> SUFFICES ASSUME IInv, TripInv PROVE TypeOK
      OBVIOUS
  <2>1. used \in Nat
    <3>1. \A n \in Nodes : Spent(n) \in Nat
        BY LimitsAssumption, RunAssumption DEF Spent, Nodes, AfterTransport, AfterChecks, AfterGrounding
    <3> QED
        BY <3>1 DEF IInv, WithinBudget
  <2> QED
      BY <2>1 DEF TypeOK, TripInv, StopsAreFound, IssuesAreGraded, RestIsTold, Severities
<1> QED
    BY <1>1, TripInvariance, PTL

\* A revision is still the trip that was asked for, whatever the route and
\* whichever of its candidates could be costed (domain/revision.py).
THEOREM RevisionIsTheTripAskedFor == Spec => []RevisionKeepsTheTrip
<1>1. TripInv => RevisionKeepsTheTrip
  <2>1. \A s : Head(s) = s[1]
      OBVIOUS
  <2> QED
      BY <2>1, Zenon DEF TripInv, RevisionIsTheTrip, KeepsTheTrip, RevisionKeepsTheTrip
<1> QED
    BY <1>1, TripInvariance, PTL

\* A revision of a route that stays at no place twice is better than the route
\* by the margin (domain/revision.py choose_best).
THEOREM RevisionsOfPlainRoutesImprove == Spec => []RevisionImprovesPlainRoutes
<1>1. TripInv => RevisionImprovesPlainRoutes
    BY DEF TripInv, RevisionIsTheTrip, RevisionImprovesPlainRoutes
<1> QED
    BY <1>1, TripInvariance, PTL

\* Every place an itinerary names is on the route for certain, or told to the
\* traveller as not found (llm.py _demo_extracted_itinerary, nodes.py resolve_places).
THEOREM NamedPlacesAreAccountedFor == Spec => []StopsAreAccountedFor
<1>1. IInv /\ TripInv => StopsAreAccountedFor
  <2> SUFFICES ASSUME IInv, TripInv PROVE StopsAreAccountedFor
      OBVIOUS
  <2> DEFINE text == request.text
             kept == KeptSegments(text)
             n    == Cardinality(kept)
             read == ReadStops(text)
             Part == [phrase : STRING, place : STRING, match : STRING, a : Nat, b : Nat]
  <2>1. ASSUME state.reader = "stand_in", Len(state.stops) < MaxStops, Turns(text) # {}
        PROVE  /\ \A i \in Turns(text) : text[i].place \in PlacesOf(state.stops)
               /\ state.stops[Len(state.stops)].place = text[Max(Turns(text))].place
    <3>1. text \in Seq(Part)
        BY RequestsAssumption DEF IInv, WithinBudget
    <3> HIDE DEF Part, text
    <3>2. kept \subseteq Nat /\ IsFiniteSet(kept) /\ n \in Nat
        BY <3>1, KeptAreTurns, FS_CardinalityType
    <3>3. IsList(read) /\ \A k \in DOMAIN read : read[k] = ParseSegment(text[InOrder(kept)[k]])
        BY <3>1, ReadingIs
    <3>4. state.stops = read /\ Len(read) = n /\ DOMAIN read = 1..n
      <4>1. state.stops = FirstOnes(read, MaxStops)
          BY <2>1 DEF TripInv, StopsAreRead, text
      <4>2. Len(read) < MaxRead => Len(read) = n
          BY <3>1, ReadingIs
      <4>3. DOMAIN read = 1..Len(read) /\ Len(read) \in Nat
          BY <3>3, ListFacts
      <4> HIDE DEF read, n
      <4>4. Len(read) < MaxStops /\ FirstOnes(read, MaxStops) = read
        <5> DEFINE T == Range(read)
        <5>1. read \in Seq(T)
            BY <3>3 DEF IsList
        <5> HIDE DEF T
        <5>2. CASE Len(read) < MaxStops
          <6>1. FirstOnes(read, MaxStops) = SubSeq(read, 1, Len(read))
              BY <5>2 DEF FirstOnes
          <6>2. SubSeq(read, 1, Len(read)) = read
              BY <5>1
          <6> QED
              BY <5>2, <6>1, <6>2
        <5>3. CASE ~(Len(read) < MaxStops)
          <6>1. FirstOnes(read, MaxStops) = SubSeq(read, 1, MaxStops)
              BY <5>3 DEF FirstOnes
          <6>2. Len(SubSeq(read, 1, MaxStops)) = MaxStops
              BY <4>3, <5>1, <5>3, LimitsAssumption
          <6> QED
              BY <2>1, <4>1, <6>1, <6>2, LimitsAssumption
        <5> QED
            BY <5>2, <5>3
      <4>5. MaxRead \in Nat
          BY DEF MaxRead
      <4> QED
          BY <4>1, <4>2, <4>3, <4>4, <4>5, LimitsAssumption
    <3>5. \A j \in kept : \E k \in 1..n : InOrder(kept)[k] = j
        BY <3>2, PositionsInOrder
    <3>6. \A k, l \in 1..n : k < l => InOrder(kept)[k] < InOrder(kept)[l]
        BY <3>2, PositionsInOrder
    <3>7. \A k \in 1..n : state.stops[k].place = text[InOrder(kept)[k]].place
        BY <3>3, <3>4 DEF ParseSegment
    <3> HIDE DEF read, n
    <3>8. ASSUME NEW i \in Turns(text) PROVE text[i].place \in PlacesOf(state.stops)
      <4>1. PICK j \in kept : text[j].place = text[i].place
          BY <3>1, NamedPlacesAreKept
      <4>2. PICK k \in 1..n : InOrder(kept)[k] = j
          BY <3>5
      <4> QED
          BY <3>4, <3>7, <4>1, <4>2 DEF PlacesOf
    <3>9. state.stops[Len(state.stops)].place = text[Max(Turns(text))].place
      <4>1. n \in 1..n
        <5>1. PICK i \in Turns(text) : TRUE
            BY <2>1
        <5>2. PICK k \in 1..n : TRUE
            BY <3>1, <3>5, NamedPlacesAreKept
        <5> QED
            BY <3>2, <5>2
      <4> DEFINE last == InOrder(kept)[n]
      <4>2. last \in kept
          BY <3>2, <4>1, PositionsInOrder DEF n
      <4>3. \A i \in kept : i <= last
        <5> SUFFICES ASSUME NEW i \in kept PROVE i <= last
            OBVIOUS
        <5>1. PICK k \in 1..n : InOrder(kept)[k] = i
            BY <3>5
        <5>2. k = n \/ k < n
            BY <3>2
        <5>3. i \in Nat /\ last \in Nat
            BY <3>2, <4>2
        <5> QED
            BY <3>6, <4>1, <5>1, <5>2, <5>3
      <4>4. text[Max(Turns(text))].place = text[last].place
        <5> HIDE DEF last
        <5> QED
            BY <3>1, <4>2, <4>3, LastPlaceIsKept
      <4> QED
          BY <3>4, <3>7, <4>1, <4>4
    <3> QED
        BY <3>8, <3>9
  <2>2. ASSUME state.route # None
        PROVE  PlacesOf(state.route.stops) \subseteq {s.place : s \in {t \in Range(state.stops) : t.match = "exact"}}
      BY <2>2 DEF TripInv, RouteIsBuilt, StopsAreFound, ExactPlaces
  <2>3. ASSUME state.result # None
        PROVE  /\ \A i \in DOMAIN state.stops : state.stops[i].match # "exact" => i \in state.result.unresolved
               /\ state.result.unresolved # {} => state.result.health # "healthy"
    <3>1. node = "done"
        BY <2>3 DEF IInv, ResultIsTold
    <3>2. state.result.unresolved = state.unresolved /\ state.result.health = state.health
        BY <3>1 DEF TripInv, RestIsTold
    <3> QED
        BY <3>1, <3>2 DEF TripInv, StopsAreFound, IssuesAreGraded, Unresolved, BeforeChecks, AfterTransport
  <2> QED
      BY <2>1, <2>2, <2>3 DEF StopsAreAccountedFor
<1> QED
    BY <1>1, TripInvariance, PTL
=============================================================================
