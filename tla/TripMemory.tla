---------------------------- MODULE TripMemory ----------------------------
(***************************************************************************)
(* What a trip remembers about regions: the current candidate and, for     *)
(* each region, whether it was shortlisted, selected or rejected, and why. *)
(*                                                                         *)
(* Three kinds of session write it: PATCH /trips/{id} (TripService.        *)
(* apply_update), the tool save_trip_decision, and the outcome of a        *)
(* where_next run (record_analysis_outcome). Each reads the trip row, then *)
(* the rows of its regions, computes, and commits: PostgreSQL runs them at *)
(* READ COMMITTED, and SQLAlchemy writes only the columns whose value      *)
(* differs from the one it read.                                           *)
(***************************************************************************)
EXTENDS Naturals, FiniteSets

CONSTANTS
  Regions,
  Requests,   \* calls of PATCH /trips/{id} and of save_trip_decision
  Runs,       \* where_next analyses of the trip
  MaxFaults,  \* bound: get_trip_context calls that fail
  None

ASSUME TripAssumption ==
  /\ None \notin Regions /\ Requests \cap Runs = {}
  /\ MaxFaults \in Nat

Sessions == Requests \cup Runs
Standings == {"none", "shortlisted", "selected", "rejected"}
Reasons == {"none", "traveller", "automatic"}

VARIABLES
  candidate,      \* trips.candidate_region
  standing,       \* candidate_regions.status, "none" without a row
  reason,         \* candidate_regions.reason: who gave it
  pc,
  \* what a request asks for
  kind,           \* "patch" or "tool"
  select,         \* region to select, or None
  reject,         \* region to reject, or None
  because,        \* a reason is given
  \* what a run knows and finds
  remembered,     \* previously_rejected
  recommended,    \* result.recommended
  ruledOut,       \* result.rejected
  \* what a session has read
  seenCandidate,
  seenStanding,
  seenReason,
  faults          \* tool calls that have failed

memory == <<candidate, standing, reason>>
requestVars == <<kind, select, reject, because>>
runVars == <<remembered, recommended, ruledOut>>
seenVars == <<seenCandidate, seenStanding, seenReason>>
vars == <<memory, pc, requestVars, runVars, seenVars, faults>>

TypeOK ==
  /\ candidate \in Regions \cup {None}
  /\ standing \in [Regions -> Standings]
  /\ reason \in [Regions -> Reasons]
  /\ pc \in [Sessions -> {"idle", "loaded", "ready", "trip", "rows", "done", "failed"}]
  /\ kind \in [Requests -> {"patch", "tool"}]
  /\ select \in [Requests -> Regions \cup {None}]
  /\ reject \in [Requests -> Regions \cup {None}]
  /\ because \in [Requests -> BOOLEAN]
  /\ remembered \in [Runs -> SUBSET Regions]
  /\ recommended \in [Runs -> Regions \cup {None}]
  /\ ruledOut \in [Runs -> SUBSET Regions]
  /\ seenCandidate \in [Sessions -> Regions \cup {None}]
  /\ seenStanding \in [Sessions -> [Regions -> Standings]]
  /\ seenReason \in [Sessions -> [Regions -> Reasons]]
  /\ faults \in 0..MaxFaults

Init ==
  /\ candidate = None
  /\ standing = [x \in Regions |-> "none"]
  /\ reason = [x \in Regions |-> "none"]
  /\ pc = [s \in Sessions |-> "idle"]
  /\ kind = [r \in Requests |-> "patch"]
  /\ select = [r \in Requests |-> None]
  /\ reject = [r \in Requests |-> None]
  /\ because = [r \in Requests |-> FALSE]
  /\ remembered = [a \in Runs |-> {}]
  /\ recommended = [a \in Runs |-> None]
  /\ ruledOut = [a \in Runs |-> {}]
  /\ seenCandidate = [s \in Sessions |-> None]
  /\ seenStanding = [s \in Sessions |-> [x \in Regions |-> "none"]]
  /\ seenReason = [s \in Sessions |-> [x \in Regions |-> "none"]]
  /\ faults = 0

RejectedNow == {x \in Regions : standing[x] = "rejected"}

(***************************************************************************)
(* A where_next run.                                                       *)
(***************************************************************************)
\* load_memory calls get_trip_context ...
LoadMemory(a) ==
  /\ pc[a] = "idle"
  /\ pc' = [pc EXCEPT ![a] = "loaded"]
  /\ remembered' = [remembered EXCEPT ![a] = RejectedNow]
  /\ UNCHANGED <<memory, requestVars, recommended, ruledOut, seenVars, faults>>

\* ... and goes on with an empty memory when that call fails.
MemoryUnavailable(a) ==
  /\ pc[a] = "idle" /\ faults < MaxFaults
  /\ faults' = faults + 1
  /\ pc' = [pc EXCEPT ![a] = "loaded"]
  /\ UNCHANGED <<memory, requestVars, remembered, recommended, ruledOut, seenVars>>

\* apply_hard_constraints separates what is remembered as rejected or fails a
\* constraint of this trip from the candidates; answer recommends the best of these.
RankWithoutMemory(a) ==
  /\ pc[a] = "loaded"
  /\ pc' = [pc EXCEPT ![a] = "ready"]
  /\ \E eliminated \in SUBSET Regions :
       /\ ruledOut' = [ruledOut EXCEPT ![a] = eliminated]
       /\ \E best \in (Regions \ eliminated) \cup {None} :
            /\ best = None <=> Regions \subseteq eliminated
            /\ recommended' = [recommended EXCEPT ![a] = best]
  /\ UNCHANGED <<memory, requestVars, remembered, seenVars, faults>>

Rank(a) ==
  /\ pc[a] = "loaded"
  /\ pc' = [pc EXCEPT ![a] = "ready"]
  /\ \E eliminated \in SUBSET Regions : LET out == remembered[a] \cup eliminated IN
       /\ ruledOut' = [ruledOut EXCEPT ![a] = out]
       /\ \E best \in (Regions \ out) \cup {None} :
            /\ best = None <=> Regions \subseteq out
            /\ recommended' = [recommended EXCEPT ![a] = best]
  /\ UNCHANGED <<memory, requestVars, remembered, seenVars, faults>>

\* A failed run answers without a recommendation and without rejections.
RunFails(a) ==
  /\ pc[a] = "loaded"
  /\ pc' = [pc EXCEPT ![a] = "ready"]
  /\ UNCHANGED <<memory, requestVars, runVars, seenVars, faults>>

(***************************************************************************)
(* Requests.                                                               *)
(***************************************************************************)
\* PATCH takes any combination of candidate_region and reject_region.
AskPatch(r, x, y) ==
  /\ pc[r] = "idle" /\ <<x, y>> # <<None, None>>
  /\ pc' = [pc EXCEPT ![r] = "ready"]
  /\ select' = [select EXCEPT ![r] = x]
  /\ reject' = [reject EXCEPT ![r] = y]
  /\ \E given \in BOOLEAN : because' = [because EXCEPT ![r] = given]
  /\ UNCHANGED <<memory, kind, runVars, seenVars, faults>>

\* save_trip_decision takes one decision_kind.
AskTool(r, x, y) ==
  /\ pc[r] = "idle" /\ (x = None) # (y = None)
  /\ pc' = [pc EXCEPT ![r] = "ready"]
  /\ kind' = [kind EXCEPT ![r] = "tool"]
  /\ select' = [select EXCEPT ![r] = x]
  /\ reject' = [reject EXCEPT ![r] = y]
  /\ \E given \in BOOLEAN : because' = [because EXCEPT ![r] = given]
  /\ UNCHANGED <<memory, runVars, seenVars, faults>>

(***************************************************************************)
(* What a session writes, from what it has read.                           *)
(***************************************************************************)
IsTool(s) == s \in Requests /\ kind[s] = "tool"
Picked(s) == IF s \in Runs THEN recommended[s] ELSE select[s]
Dropped(s) == IF s \in Runs THEN ruledOut[s] ELSE {reject[s]} \ {None}
Touched(s) == Dropped(s) \cup ({Picked(s)} \ {None})

StandingByDefault(s, x) ==
  IF seenStanding[s][x] = "none" /\ x \in Touched(s) THEN "considered"
  ELSE IF x \in Dropped(s) THEN "rejected"
  ELSE seenStanding[s][x]

\* _upsert_candidate: a rejection outranks a later shortlisting or selection, but
\* not one recorded by the tool.
NewStanding(s, x) ==
  IF x \in Dropped(s) THEN "rejected"
  ELSE IF x = Picked(s) /\ (IsTool(s) \/ seenStanding[s][x] # "rejected")
  THEN (IF s \in Runs THEN "shortlisted" ELSE "selected")
  ELSE seenStanding[s][x]

\* A run always has a reason; what the guard keeps out changes no reason either.
NewReason(s, x) ==
  IF x \notin Dropped(s) /\ (x # Picked(s) \/ NewStanding(s, x) = "rejected") THEN seenReason[s][x]
  ELSE IF s \in Runs THEN "automatic"
  ELSE IF because[s] /\ (IsTool(s) \/ x \in Dropped(s)) THEN "traveller" ELSE seenReason[s][x]

\* An explicit rejection also gives up the candidate; the outcome of a run does not.
NewCandidate(s) ==
  LET chosen == IF Picked(s) # None THEN Picked(s) ELSE seenCandidate[s]
  IN  IF s \in Requests /\ chosen = reject[s] THEN None ELSE chosen

(***************************************************************************)
(* Sessions.                                                               *)
(***************************************************************************)
ReadTrip(s) ==
  /\ pc[s] = "ready"
  /\ pc' = [pc EXCEPT ![s] = "trip"]
  /\ seenCandidate' = [seenCandidate EXCEPT ![s] = candidate]
  /\ UNCHANGED <<memory, requestVars, runVars, seenStanding, seenReason, faults>>

\* A new candidate is flushed before the region rows are read: the trip row is then
\* locked until the commit.
HoldsTripLock(s) == pc[s] = "rows" /\ Picked(s) # None /\ Picked(s) # seenCandidate[s]
TripIsFree(s) == \A q \in Sessions \ {s} : ~HoldsTripLock(q)

ReadRegions(s) ==
  /\ pc[s] = "trip"
  /\ Picked(s) \in {None, seenCandidate[s]} \/ TripIsFree(s)
  /\ pc' = [pc EXCEPT ![s] = "rows"]
  /\ seenStanding' = [seenStanding EXCEPT ![s] = standing]
  /\ seenReason' = [seenReason EXCEPT ![s] = reason]
  /\ UNCHANGED <<memory, requestVars, runVars, seenCandidate, faults>>

\* Only what differs from what was read is written; the tool always writes the log
\* of decisions, in the trip row.
WritesTrip(s) == IsTool(s) \/ NewCandidate(s) # seenCandidate[s]
RowAppeared(s) == \E x \in Touched(s) : seenStanding[s][x] = "none" /\ standing[x] # "none"

Commit(s) ==
  /\ pc[s] = "rows" /\ ~RowAppeared(s)
  /\ WritesTrip(s) => TripIsFree(s)
  /\ pc' = [pc EXCEPT ![s] = "done"]
  /\ candidate' = IF NewCandidate(s) # seenCandidate[s] THEN NewCandidate(s) ELSE candidate
  /\ standing' = [x \in Regions |-> IF NewStanding(s, x) # seenStanding[s][x] THEN NewStanding(s, x) ELSE standing[x]]
  /\ reason' = [x \in Regions |-> IF NewReason(s, x) # seenReason[s][x] THEN NewReason(s, x) ELSE reason[x]]
  /\ UNCHANGED <<requestVars, runVars, seenVars, faults>>

\* uq_candidate_trip_region refuses a second row: the whole transaction is undone.
KeepTripOnConflict(s) ==
  /\ pc[s] = "rows" /\ RowAppeared(s)
  /\ pc' = [pc EXCEPT ![s] = "failed"]
  /\ candidate' = NewCandidate(s)
  /\ UNCHANGED <<standing, reason, requestVars, runVars, seenVars, faults>>

RollBack(s) ==
  /\ pc[s] = "rows" /\ RowAppeared(s)
  /\ pc' = [pc EXCEPT ![s] = "failed"]
  /\ UNCHANGED <<memory, requestVars, runVars, seenVars, faults>>

Next ==
  \/ \E a \in Runs : LoadMemory(a) \/ MemoryUnavailable(a) \/ Rank(a) \/ RunFails(a)
  \/ \E r \in Requests, x, y \in Regions \cup {None} : AskPatch(r, x, y) \/ AskTool(r, x, y)
  \/ \E s \in Sessions : ReadTrip(s) \/ ReadRegions(s) \/ Commit(s) \/ RollBack(s)

Spec == Init /\ [][Next]_vars

(***************************************************************************)
(* Properties.                                                             *)
(***************************************************************************)
\* The candidate and the row of its region are written together, or, when another
\* session has inserted that row meanwhile, not at all: the candidate of a trip is
\* always a region the trip has on record.
CandidateIsOnRecord == candidate # None => standing[candidate] # "none"

\* From load_memory to the commit of its outcome, minutes later, a run never turns a
\* region it remembers as rejected into the candidate.
OutcomeRespectsMemory ==
  [][\A a \in Runs : pc[a] = "rows" /\ pc'[a] = "done" /\ candidate' # candidate =>
       candidate' \notin remembered[a]]_vars

\* db/models/trips.py:83: "the system must not silently re-propose a region the
\* traveller already discarded". Of the outcome of a run: a region whose rejection by
\* the traveller the session has itself just read does not become the candidate.
RejectedIsNotProposed ==
  [][\A a \in Runs : pc[a] = "rows" /\ pc'[a] = "done" /\ candidate' # candidate =>
       ~(seenStanding[a][candidate'] = "rejected" /\ seenReason[a][candidate'] # "automatic")]_vars
=============================================================================
