---------------------------- MODULE MCRouteCheck ----------------------------
\* Six places of the catalogue, with their distances in kilometres.
EXTENDS RouteCheck

MCPlaces == {"tokyo", "kyoto", "hiroshima", "osaka", "sendai", "ginzan-onsen"}

Distance == <<
  <<"tokyo", "kyoto", 370>>, <<"tokyo", "hiroshima", 675>>, <<"tokyo", "osaka", 400>>,
  <<"tokyo", "sendai", 305>>, <<"tokyo", "ginzan-onsen", 330>>, <<"kyoto", "hiroshima", 310>>,
  <<"kyoto", "osaka", 43>>, <<"kyoto", "sendai", 580>>, <<"kyoto", "ginzan-onsen", 560>>,
  <<"hiroshima", "osaka", 280>>, <<"hiroshima", "sendai", 920>>, <<"hiroshima", "ginzan-onsen", 880>>,
  <<"osaka", "sendai", 620>>, <<"osaka", "ginzan-onsen", 600>>, <<"sendai", "ginzan-onsen", 55>> >>

MCKm == [a \in MCPlaces |-> [b \in MCPlaces |->
  IF a = b THEN 0
  ELSE LET d == CHOOSE d \in Range(Distance) : {d[1], d[2]} = {a, b} IN d[3]]]

Train(minutes) == {Option("shinkansen", minutes, FALSE, "record")}

MCRecords == [a \in MCPlaces |-> [b \in MCPlaces |->
  CASE {a, b} = {"tokyo", "kyoto"} -> Train(140)
    [] {a, b} = {"tokyo", "hiroshima"} -> Train(240)
    [] {a, b} = {"kyoto", "hiroshima"} -> Train(100)
    [] {a, b} = {"osaka", "hiroshima"} -> Train(60)
    [] {a, b} = {"osaka", "kyoto"} -> Train(40)
    [] {a, b} = {"tokyo", "osaka"} -> {Option("flight", 60, FALSE, "record")}
    [] {a, b} = {"sendai", "ginzan-onsen"} -> {Option("local_bus", 250, FALSE, "record")}
    [] {a, b} = {"ginzan-onsen", "tokyo"} -> {Option("car", 320, TRUE, "record")}
    [] OTHER -> {}]]

MCConnection == [a \in MCPlaces |-> [b \in MCPlaces |->
  [transfers |-> IF {a, b} = {"sendai", "ginzan-onsen"} THEN 3 ELSE 0,
   last |-> IF b = "ginzan-onsen" THEN 820 ELSE NoTime, finalLeg |-> IF b = "ginzan-onsen" THEN 40 ELSE 0]]]

S(place, nights) == [place |-> place, nights |-> nights, match |-> "exact"]
Prefs(publicOnly, pace, luggage) == [publicOnly |-> publicOnly, pace |-> pace, luggage |-> luggage]
R(from, text, trip, stops, prefs) ==
  [from |-> from, text |-> text, trip |-> trip, stops |-> stops, prefs |-> prefs]

Part(phrase, place, a, b) == [phrase |-> phrase, place |-> place, match |-> "exact", a |-> a, b |-> b]

MCRequests == {
  \* Day 1-3 Tokyo, 3 nights Kyoto then Kyoto, 1 night Osaka and fly home
  R("text", <<Part("days", "tokyo", 1, 3), Part("nights", "kyoto", 3, 0), Part("bare", "kyoto", 0, 0),
      Part("nights", "osaka", 1, 0), Part("bare", "home", 0, 0)>>,
    TRUE, <<S("tokyo", 3), S("kyoto", 3), S("osaka", 1)>>, Prefs(FALSE, "balanced", FALSE)),
  R("stops", <<>>, FALSE, <<S("tokyo", 2), S("sendai", 1), S("ginzan-onsen", 1), S("tokyo", 1)>>, Prefs(TRUE, "relaxed", TRUE)),
  \* Kyoto twice
  R("stops", <<>>, FALSE, <<S("sendai", 1), S("kyoto", 1), S("hiroshima", 1), S("osaka", 1), S("kyoto", 1), S("tokyo", 0)>>,
    Prefs(FALSE, "none", FALSE)),
  \* back and forth, and longer than is read; days that run backwards, and back to Sendai
  R("text", <<Part("day", "sendai", 1, 0), Part("days", "ginzan-onsen", 4, 2), Part("nights", "tokyo", 40, 0),
      Part("bare", "sendai", 0, 0)>>,
    TRUE, <<S("osaka", 1), S("sendai", 1), S("hiroshima", 1), S("ginzan-onsen", 1), S("kyoto", 2),
            S("tokyo", 1), S("osaka", 1)>>, Prefs(FALSE, "fast", TRUE)),
  R("stops", <<>>, TRUE, <<S("tokyo", 2), [S("kyoto", 2) EXCEPT !.match = "fuzzy"],
                    [S("kyoto", 1) EXCEPT !.match = "unknown"], S("osaka", 1)>>, Prefs(TRUE, "fast", FALSE)),
  R("text", <<[Part("bare", "ginzan-onsen", 0, 0) EXCEPT !.match = "fuzzy"]>>,
    FALSE, <<S("tokyo", 4), [S("ginzan-onsen", 1) EXCEPT !.match = "fuzzy"]>>, Prefs(FALSE, "none", FALSE)),
  R("text", <<>>, FALSE, <<>>, Prefs(FALSE, "none", FALSE))}

Time == <<"time", "21:40">>
Price == <<"price", "9,800 yen">>
OtherTime == <<"time", "05:15">>

MCEvidence == [p \in MCPlaces |->
  CASE p = "kyoto" -> {Chunk("e1", {Price}, FALSE)}
    [] p = "ginzan-onsen" -> {Chunk("e2", {Time}, TRUE)}
    [] OTHER -> {}]

Task(subject, evidence, reason, status) ==
  [subject |-> subject, evidence |-> evidence, reason |-> reason, status |-> status]

MCQueues == {
  {Task("tokyo", {"e1"}, "stale_critical_evidence", "open"), Task("tokyo", {}, "conflicting_sources", "resolved")},
  {Task("ginzan-onsen", {}, "conflicting_sources", "open"), Task("aomori", {"e1"}, "conflicting_sources", "in_progress")}}

MCBlocks == {<<>>, <<Time, OtherTime>>, <<Price, OtherTime>>}
MCComputed == {Price}
=============================================================================
