---------------------------- MODULE ItineraryText ---------------------------
(***************************************************************************)
(* How the stand-in of the language model reads an itinerary a traveller   *)
(* has pasted in (providers/llm.py _demo_extracted_itinerary).             *)
(*                                                                         *)
(* A text is the sequence of its segments, a segment a record              *)
(* [phrase, place, match, a, b]: how it is phrased, the place it names     *)
(* once connectives and filler are stripped, how that name is found in the *)
(* catalogue, and its numbers (0 where the phrase has none). The phrases:  *)
(*   "days"      Day a-b Sendai                                            *)
(*   "nights"    a nights Sendai, Sendai a nights                          *)
(*   "day"       Day a Sendai                                              *)
(*   "bare"      Sendai                                                    *)
(* A segment that matches none of them is not part of the text here. That  *)
(* the nights of all but "nights" are a guess is noted, and told to nobody.*)
(***************************************************************************)
EXTENDS Orders, FiniteSetsExt

MaxNights == 30
MaxRead == 30

NonPlaceNames == {"home", "hotel", "the hotel", "airport", "the airport", "house", "work", "office", "abroad"}

NamesPlace(segment) == segment.place \notin NonPlaceNames

\* A range of days is read as so many nights, one that runs backwards as one.
NightsRead(segment) ==
  CASE segment.phrase = "days"   -> IF segment.b >= segment.a THEN segment.b - segment.a + 1 ELSE 1
    [] segment.phrase = "nights" -> segment.a
    [] segment.phrase = "day"    -> 1
    [] OTHER                     -> 0

ParseSegment(segment) ==
  [place |-> segment.place, match |-> segment.match,
   nights |-> IF NightsRead(segment) < MaxNights THEN NightsRead(segment) ELSE MaxNights]

\* The segments that name a place, and those of them before a segment
Turns(text) == {i \in 1..Len(text) : NamesPlace(text[i])}

Earlier(text, i) == {j \in Turns(text) : j < i}

\* Every repeat of a place is taken for noise.
KeptOnce(text) == {i \in Turns(text) : \A j \in Earlier(text, i) : text[j].place # text[i].place}

\* Only a repeat of the place before is.
KeptSegments(text) ==
  {i \in Turns(text) :
     Earlier(text, i) # {} => text[Max(Earlier(text, i))].place # text[i].place}

ReadStops(text) ==
  LET kept == KeptSegments(text)
  IN  FirstOnes([k \in 1..Cardinality(kept) |-> ParseSegment(text[InOrder(kept)[k]])], MaxRead)
=============================================================================
