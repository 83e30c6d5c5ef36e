---------------------------- MODULE MCWhereNext -----------------------------
\* The regions the system ships with, of which Shikoku is taken to need a car.
EXTENDS WhereNext, SeedRegions

MCRegions == [SeedRegions EXCEPT ![4].carFree = FALSE]

Trip(regional, total, arrival, departure, driving, pace, month, interests, visited) ==
  [regional |-> regional, total |-> total, arrival |-> arrival, departure |-> departure, driving |-> driving,
   pace |-> pace, month |-> month, interests |-> interests, visited |-> visited, luggage |-> FALSE,
   family |-> FALSE, stepFree |-> FALSE, limitedWalking |-> FALSE]

MCRequests == {
  [tripId |-> TRUE, rejected |-> {5},
   trip |-> Trip(7, 14, "Tokyo", "Osaka", "willing", "balanced", 10, <<"food", "onsen">>, {"kyoto", "nikko"})],
  [tripId |-> TRUE, rejected |-> {},
   trip |-> Trip(0, 10, "Osaka", "Tokyo", "no_car", "relaxed", 2, <<"art">>, {"nagano"})],
  [tripId |-> FALSE, rejected |-> {},
   trip |-> [Trip(4, 0, "Fukuoka", "", "unknown", "unknown", 0, <<>>, {}) EXCEPT !.luggage = TRUE, !.family = TRUE]],
  \* Nothing is near enough for one night.
  [tripId |-> FALSE, rejected |-> {},
   trip |-> [Trip(1, 3, "", "", "no_car", "fast", 7, <<"hiking", "city">>, {"kanazawa"})
               EXCEPT !.stepFree = TRUE, !.limitedWalking = TRUE]]}

MCTables == {{}, 1..5}

Text(id, region, topic, age, months, close, lexical, flags, literals) ==
  [id |-> id, region |-> region, place |-> NoPlace, topic |-> topic, trust |-> IF id = 1 THEN "primary" ELSE "secondary",
   official |-> id = 1, age |-> age, months |-> months, close |-> close, lexical |-> lexical,
   coverage |-> 100 * id, tokens |-> 100, flags |-> flags, literals |-> literals]

Fare == <<"price", "13,000 yen">>
LastBus == <<"time", "18:40">>
Invented == <<"time", "04:15">>

MCCorpus == {
  Text(1, 1, "general", 10, {}, 90, 40, {}, {Fare}),
  Text(2, 1, "general", 200, {}, 80, 60, {}, {Fare}),
  Text(3, 1, "seasonal", 30, {12, 1, 2}, 95, 10, {}, {}),
  Text(4, 1, "general", 5, {}, 99, 99, {"markup_injection"}, {}),
  Text(5, 3, "booking", 400, {}, 70, 30, {}, {LastBus}),
  Text(6, 3, "cost", NeverVerified, {}, NoVector, 50, {"role_hijack"}, {}),
  Text(7, 2, "luggage", 300, {10}, 60, 0, {}, {}),
  Text(8, 5, "transport_access", 100, {}, 50, 20, {}, {LastBus}),
  Text(9, 5, "general", 100, {2}, 55, 25, {"role_hijack", "tool_coercion"}, {}) }

MCNearDuplicates == {{1, 2}, {5, 8}}

Task(subject, evidence, reason, status) ==
  [subject |-> subject, evidence |-> evidence, reason |-> reason, status |-> status]

MCQueues == {
  {Task("sendai", {5}, "low_confidence", "open")},
  {Task("sendai", {}, "conflicting_sources", "open"), Task("elsewhere", {5}, "conflicting_sources", "in_progress")}}

MCListed == {<<>>, <<UnknownId>>, <<6, UnknownId, 5, 6>>}
MCSentences == {<<>>, <<LastBus, Invented>>}
MCComputed == {Fare}
MCToolFacts == [r \in 0..5 |-> IF r = 3 THEN {LastBus} ELSE {}]
=============================================================================
