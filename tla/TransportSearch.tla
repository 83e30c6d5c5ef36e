--------------------------- MODULE TransportSearch ---------------------------
(***************************************************************************)
(* What a search for transport between two places returns, and which of    *)
(* the options a route is built from.                                      *)
(*                                                                         *)
(* An option says how it was obtained: by a verified record of the pair,   *)
(* live from Google Directions, or by an estimate from the distance. Lists *)
(* of options are sets here: they are only searched for the fastest.       *)
(***************************************************************************)
EXTENDS Rounding, FiniteSetsExt

PublicModes == {"shinkansen", "limited_express", "local_train", "highway_bus",
                "local_bus", "ferry", "flight", "walk"}
Modes == PublicModes \cup {"car"}

\* An option; a record of the pair is an option by "record".
Option(mode, minutes, needsCar, by) ==
  [mode |-> mode, minutes |-> minutes, needsCar |-> needsCar, by |-> by]

\* What an option may be
OptionRecords ==
  [mode : Modes, minutes : Nat, needsCar : BOOLEAN, by : {"record", "live", "estimate"}]

Fastest(options) == CHOOSE o \in options : \A p \in options : o.minutes <= p.minutes

Verified(options) == {o \in options : o.by # "estimate"}

(***************************************************************************)
(* The estimate from the great-circle distance, in whole kilometres.       *)
(***************************************************************************)
EffectiveKmh == [mode \in Modes \ {"walk"} |->
  CASE mode = "shinkansen" -> 140 [] mode = "limited_express" -> 75
    [] mode = "local_train" -> 45 [] mode = "highway_bus" -> 55
    [] mode = "local_bus" -> 28   [] mode = "ferry" -> 32
    [] mode = "flight" -> 260     [] mode = "car" -> 58]

OverheadMinutes == [mode \in Modes \ {"walk"} |->
  CASE mode = "shinkansen" -> 35  [] mode = "limited_express" -> 30
    [] mode = "local_train" -> 20 [] mode = "highway_bus" -> 30
    [] mode = "local_bus" -> 20   [] mode = "ferry" -> 60
    [] mode = "flight" -> 180     [] mode = "car" -> 15]

EstimateOption(km, mode) ==
  Option(mode, Rounded(60 * km, EffectiveKmh[mode]) + OverheadMinutes[mode], mode = "car", "estimate")

PlausibleModes(km) ==
  CASE km < 25  -> {"local_train", "local_bus", "car"}
    [] km < 120 -> {"limited_express", "local_train", "car"}
    [] km < 600 -> {"shinkansen", "highway_bus", "car"}
    [] OTHER    -> {"flight", "shinkansen"}

Estimates(km, allowCar) ==
  {EstimateOption(km, mode) : mode \in PlausibleModes(km) \ (IF allowCar THEN {} ELSE {"car"})}

(***************************************************************************)
(* DemoTransportProvider.search_transport: rows are the records of the     *)
(* pair in either direction; km is the distance, or -1 when one of the     *)
(* places is unknown.                                                      *)
(***************************************************************************)
UsableRows(rows, allowCar) == {r \in rows : allowCar \/ r.mode # "car"}

SeededOptionsOfUsable(rows, km, allowCar) ==
  IF UsableRows(rows, allowCar) # {} THEN UsableRows(rows, allowCar)
  ELSE IF km >= 0 THEN Estimates(km, allowCar) ELSE {}

\* Rows that are all by car are still what is known of the pair.
SeededOptions(rows, km, allowCar) ==
  IF UsableRows(rows, allowCar) # {} THEN UsableRows(rows, allowCar)
  ELSE IF rows # {} THEN {[Fastest(rows) EXCEPT !.needsCar = TRUE]}
  ELSE IF km >= 0 THEN Estimates(km, allowCar) ELSE {}

\* GoogleDirectionsProvider: the transit route found, beside the car options.
LiveOptions(seeded, minutes, allowCar) ==
  {Option("local_train", minutes, FALSE, "live")} \cup
    {o \in seeded : o.mode = "car" /\ allowCar}

(***************************************************************************)
(* RouteService._pick_option.                                              *)
(***************************************************************************)
PublicOptions(options) == {o \in options : o.mode \in PublicModes /\ ~o.needsCar}

PickFastest(options) == Fastest(options)

\* A verified public option before a faster estimate; any option if none is public.
PickOption(options) ==
  LET public == PublicOptions(options)
  IN  IF public = {} THEN Fastest(options)
      ELSE IF Verified(public) # {} THEN Fastest(Verified(public)) ELSE Fastest(public)

\* Last connections and final legs are only told of what is not estimated.
TellsLastConnection(option) == option.by # "estimate"
=============================================================================
