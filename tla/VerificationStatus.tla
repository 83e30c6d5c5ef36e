------------------------- MODULE VerificationStatus -------------------------
(***************************************************************************)
(* How verified facts age (domain/freshness.py) and what the verification  *)
(* desk tells the agents of them: the records, which of them have to be    *)
(* checked again, and the conflicts a reviewer has not yet decided         *)
(* (get_verification_status).                                              *)
(*                                                                         *)
(* A record is [place, field, topic, age, status]: its topic follows from  *)
(* the name of its field, its age is in days, NeverVerified if it has no   *)
(* date. A task of the review queue is [subject, evidence, reason, status].*)
(***************************************************************************)
EXTENDS Integers, FiniteSetsExt

NeverVerified == -1

\* How many days a fact of a topic stays fresh, and ages
TopicDays == [transport_access |-> <<90, 180>>, booking |-> <<90, 180>>, seasonal |-> <<120, 240>>,
              cost |-> <<120, 300>>, luggage |-> <<180, 400>>, accessibility |-> <<180, 400>>,
              general |-> <<180, 540>>]

Freshness(fact) ==
  IF fact.age = NeverVerified THEN "unverified"
  ELSE IF fact.age <= TopicDays[fact.topic][1] THEN "fresh"
  ELSE IF fact.age <= TopicDays[fact.topic][2] THEN "ageing"
  ELSE "stale"

CriticalTopics == {"transport_access", "booking", "seasonal"}

\* A stale fact has to be, whatever its topic, and a critical one without a date.
RequiresReverification(fact) ==
  Freshness(fact) = "stale" \/ (Freshness(fact) = "unverified" /\ fact.topic \in CriticalTopics)

\* The first hint that a field name contains decides; fields that no hint knows are general.
TopicOfField(field) ==
  CASE field \in {"last_shuttle_departure", "last_bus_departure", "last_ferry_departure"} -> "transport_access"
    [] field \in {"lead_time", "reservation"} -> "booking"
    [] field \in {"closure_window", "operating_window"} -> "seasonal"
    [] field = "fare" -> "cost"
    [] OTHER -> "general"

Fact(place, field, age, status) ==
  [place |-> place, field |-> field, topic |-> TopicOfField(field), age |-> age, status |-> status]

\* The facts the system ships with, of which the one about Tateyama is old
SeedVerifications ==
  {Fact("ginzan-onsen", "last_shuttle_departure", 55, "verified"),
   Fact("kamikochi", "closure_window", 50, "verified"),
   Fact("kurokawa-onsen", "last_bus_departure", 48, "verified"),
   Fact("naoshima", "last_ferry_departure", 35, "verified"),
   Fact("tateyama", "operating_window", 400, "verified")}

\* The records told: any of them, in no order, up to the limit, and also those
\* that a later one superseded
Entries(facts, limit) == kSubset(Min({limit, Cardinality(facts)}), facts)

Outdated(facts) == {f \in facts : RequiresReverification(f)}

OpenTasks(queue) == {t \in queue : t.status \in {"open", "in_progress"}}

\* A task of another kind is no conflict, whatever its subject.
OpenConflicts(queue) ==
  {[subject |-> t.subject, evidence |-> t.evidence] :
     t \in {u \in OpenTasks(queue) : u.reason = "conflicting_sources"}}
=============================================================================
