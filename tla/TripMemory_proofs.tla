------------------------- MODULE TripMemory_proofs -------------------------
(***************************************************************************)
(* Theorems about TripMemory, for any number of regions, requests, runs    *)
(* and faults. MInv is the inductive invariant: the types, what a session  *)
(* may rely on of the rows it has read, and what a run recommends.         *)
(***************************************************************************)
EXTENDS TripMemory, TLAPS

\* Rows are never deleted, so a row a session has read is still there.
RowsStay ==
  \A s \in Sessions, x \in Regions :
    pc[s] = "rows" /\ seenStanding[s][x] # "none" => standing[x] # "none"

\* A run recommends nothing before it has ranked, and nothing it remembers as rejected.
RecommendsAnew ==
  \A a \in Runs :
    /\ recommended[a] \notin remembered[a]
    /\ pc[a] \in {"idle", "loaded"} => recommended[a] = None

MInv == TypeOK /\ RowsStay /\ CandidateIsOnRecord /\ RecommendsAnew

\* A new trip satisfies the invariant.
LEMMA InitMemory == Init => MInv
BY TripAssumption DEF Init, MInv, TypeOK, RowsStay, CandidateIsOnRecord, RecommendsAnew, Sessions, Standings, Reasons

(***************************************************************************)
(* What a session writes.                                                  *)
(***************************************************************************)
\* What a session picks is a region of the trip, or nothing.
LEMMA PickedIsARegion ==
  ASSUME TypeOK, NEW s \in Sessions
  PROVE  Picked(s) \in Regions \cup {None}
BY DEF TypeOK, Sessions, Picked

\* A computed standing is one of the legal ones and never deletes a row.
LEMMA NewStandingIsReal ==
  ASSUME TypeOK, NEW s \in Sessions, NEW x \in Regions
  PROVE  /\ NewStanding(s, x) \in Standings
         /\ NewStanding(s, x) = "none" => NewStanding(s, x) = seenStanding[s][x]
         /\ x = Picked(s) => NewStanding(s, x) # "none"
BY DEF TypeOK, NewStanding, Standings

\* A computed reason is one of the legal ones.
LEMMA NewReasonIsReal ==
  ASSUME TypeOK, NEW s \in Sessions, NEW x \in Regions
  PROVE  NewReason(s, x) \in Reasons
BY DEF TypeOK, NewReason, Reasons

\* A computed candidate is the one read, the one picked, or none.
LEMMA NewCandidateIsPicked ==
  ASSUME TypeOK, NEW s \in Sessions
  PROVE  /\ NewCandidate(s) \in {seenCandidate[s], Picked(s), None}
         /\ NewCandidate(s) \in Regions \cup {None}
BY PickedIsARegion DEF TypeOK, NewCandidate

(***************************************************************************)
(* The steps.                                                              *)
(***************************************************************************)
\* A commit writes legal values only.
LEMMA CommitKeepsTypes ==
  ASSUME TypeOK, NEW s \in Sessions, Commit(s)
  PROVE  TypeOK'
<1>1. candidate' \in Regions \cup {None}
    BY NewCandidateIsPicked DEF Commit, TypeOK
<1>2. standing' \in [Regions -> Standings]
    BY NewStandingIsReal DEF Commit, TypeOK
<1>3. reason' \in [Regions -> Reasons]
    BY NewReasonIsReal DEF Commit, TypeOK
<1> QED
    BY <1>1, <1>2, <1>3 DEF Commit, TypeOK, requestVars, runVars, seenVars

\* The candidate and the row of its region are written in one transaction.
LEMMA CommitKeepsRows ==
  ASSUME MInv, NEW s \in Sessions, Commit(s)
  PROVE  RowsStay' /\ CandidateIsOnRecord'
<1> USE DEF MInv
<1>1. ASSUME NEW x \in Regions, standing[x] # "none" PROVE standing'[x] # "none"
    BY <1>1, NewStandingIsReal DEF Commit, TypeOK
<1>2. RowsStay'
    BY <1>1 DEF Commit, RowsStay, TypeOK, seenVars
<1>3. ASSUME candidate' # None PROVE standing'[candidate'] # "none"
  <2>1. CASE candidate' = candidate
      BY <1>1, <1>3, <2>1 DEF CandidateIsOnRecord, TypeOK
  <2>2. CASE candidate' # candidate
    <3>1. candidate' = Picked(s) /\ Picked(s) \in Regions
        BY <1>3, <2>2, NewCandidateIsPicked, PickedIsARegion DEF Commit
    <3>2. NewStanding(s, Picked(s)) # "none"
        BY <3>1, NewStandingIsReal
    <3>3. CASE NewStanding(s, Picked(s)) # seenStanding[s][Picked(s)]
        BY <3>1, <3>2, <3>3 DEF Commit
    <3>4. CASE NewStanding(s, Picked(s)) = seenStanding[s][Picked(s)]
        BY <3>1, <3>2, <3>4 DEF Commit, RowsStay
    <3> QED
        BY <3>3, <3>4
  <2> QED
      BY <2>1, <2>2
<1> QED
    BY <1>2, <1>3 DEF CandidateIsOnRecord

\* Every step keeps the invariant, one case per action.
LEMMA StepMemory == MInv /\ [Next]_vars => MInv'
<1> SUFFICES ASSUME MInv, [Next]_vars PROVE MInv'
    OBVIOUS
<1> USE TripAssumption DEF MInv, Sessions, memory, requestVars, runVars, seenVars
<1>1. ASSUME NEW a \in Runs, LoadMemory(a) PROVE MInv'
    BY <1>1 DEF LoadMemory, RejectedNow, TypeOK, RowsStay, CandidateIsOnRecord, RecommendsAnew
<1>2. ASSUME NEW a \in Runs, MemoryUnavailable(a) PROVE MInv'
    BY <1>2 DEF MemoryUnavailable, RejectedNow, TypeOK, RowsStay, CandidateIsOnRecord, RecommendsAnew
<1>3. ASSUME NEW a \in Runs, Rank(a) PROVE MInv'
  <2> PICK out \in SUBSET Regions, best \in Regions \cup {None} :
        /\ remembered[a] \subseteq out /\ best \notin out
        /\ ruledOut' = [ruledOut EXCEPT ![a] = out]
        /\ recommended' = [recommended EXCEPT ![a] = best]
    <3> PICK eliminated \in SUBSET Regions :
          /\ ruledOut' = [ruledOut EXCEPT ![a] = remembered[a] \cup eliminated]
          /\ \E best \in (Regions \ (remembered[a] \cup eliminated)) \cup {None} :
                recommended' = [recommended EXCEPT ![a] = best]
        BY <1>3 DEF Rank
    <3>1. remembered[a] \cup eliminated \in SUBSET Regions
        BY DEF TypeOK
    <3> QED
        BY <3>1
  <2>1. TypeOK'
      BY <1>3 DEF Rank, TypeOK
  <2>2. RowsStay' /\ CandidateIsOnRecord'
      BY <1>3 DEF Rank, TypeOK, RowsStay, CandidateIsOnRecord
  <2>3. RecommendsAnew'
      BY <1>3 DEF Rank, TypeOK, RecommendsAnew
  <2> QED
      BY <2>1, <2>2, <2>3
<1>4. ASSUME NEW a \in Runs, RunFails(a) PROVE MInv'
    BY <1>4 DEF RunFails, TypeOK, RowsStay, CandidateIsOnRecord, RecommendsAnew
<1>5. ASSUME NEW r \in Requests, NEW x \in Regions \cup {None}, NEW y \in Regions \cup {None}, AskPatch(r, x, y)
      PROVE MInv'
    BY <1>5 DEF AskPatch, TypeOK, RowsStay, CandidateIsOnRecord, RecommendsAnew
<1>6. ASSUME NEW r \in Requests, NEW x \in Regions \cup {None}, NEW y \in Regions \cup {None}, AskTool(r, x, y)
      PROVE MInv'
    BY <1>6 DEF AskTool, TypeOK, RowsStay, CandidateIsOnRecord, RecommendsAnew
<1>7. ASSUME NEW s \in Sessions, ReadTrip(s) PROVE MInv'
    BY <1>7 DEF ReadTrip, TypeOK, RowsStay, CandidateIsOnRecord, RecommendsAnew
<1>8. ASSUME NEW s \in Sessions, ReadRegions(s) PROVE MInv'
    BY <1>8 DEF ReadRegions, TypeOK, RowsStay, CandidateIsOnRecord, RecommendsAnew
<1>9. ASSUME NEW s \in Sessions, Commit(s) PROVE MInv'
  <2>1. TypeOK' /\ RowsStay' /\ CandidateIsOnRecord'
      BY <1>9, CommitKeepsTypes, CommitKeepsRows
  <2>2. RecommendsAnew'
      BY <1>9 DEF Commit, TypeOK, RecommendsAnew
  <2> QED
      BY <2>1, <2>2
<1>10. ASSUME NEW s \in Sessions, RollBack(s) PROVE MInv'
    BY <1>10 DEF RollBack, TypeOK, RowsStay, CandidateIsOnRecord, RecommendsAnew
<1>11. CASE UNCHANGED vars
    BY <1>11 DEF vars, TypeOK, RowsStay, CandidateIsOnRecord, RecommendsAnew
<1> QED
    BY <1>1, <1>2, <1>3, <1>4, <1>5, <1>6, <1>7, <1>8, <1>9, <1>10, <1>11 DEF Next

(***************************************************************************)
(* The theorems.                                                           *)
(***************************************************************************)
\* MInv is an invariant of the specification.
THEOREM MemoryInvariance == Spec => []MInv
<1>1. Init => MInv
    BY InitMemory
<1>2. MInv /\ [Next]_vars => MInv'
    BY StepMemory
<1> QED
    BY <1>1, <1>2, PTL DEF Spec

\* Every column and everything a session holds keeps its type, whatever sessions
\* interleave.
THEOREM MemoryTypeCorrect == Spec => []TypeOK
<1>1. MInv => TypeOK
    BY DEF MInv
<1> QED
    BY <1>1, MemoryInvariance, PTL

\* The unique constraint and the transaction around it keep the candidate of a trip
\* on record, for any number of sessions that insert, update and roll back at once.
THEOREM CandidateStaysOnRecord == Spec => []CandidateIsOnRecord
<1>1. MInv => CandidateIsOnRecord
    BY DEF MInv
<1> QED
    BY <1>1, MemoryInvariance, PTL

\* The outcome of a run changes the candidate only to what it recommends.
LEMMA StepOutcome ==
  ASSUME MInv, Next, NEW a \in Runs, pc[a] = "rows", pc'[a] = "done", candidate' # candidate
  PROVE  candidate' \notin remembered[a]
<1> PICK s \in Sessions : Commit(s)
    BY DEF Next, LoadMemory, MemoryUnavailable, Rank, RunFails, AskPatch, AskTool, ReadTrip, ReadRegions, Commit,
           RollBack, memory
<1>1. s = a
    BY DEF Commit, MInv, TypeOK, Sessions
<1>2. candidate' = NewCandidate(a) /\ candidate' # seenCandidate[a]
    BY <1>1 DEF Commit
<1>3. candidate' = recommended[a] \/ candidate' = None
    BY <1>2 DEF NewCandidate, Picked
<1>4. None \notin remembered[a]
    BY TripAssumption DEF MInv, TypeOK
<1> QED
    BY <1>3, <1>4 DEF MInv, RecommendsAnew

\* Whatever happens between load_memory and the outcome, no run makes a region that
\* it remembers as rejected the candidate.
THEOREM OutcomesRespectMemory == Spec => OutcomeRespectsMemory
<1>1. MInv /\ [Next]_vars =>
        [\A a \in Runs : pc[a] = "rows" /\ pc'[a] = "done" /\ candidate' # candidate =>
           candidate' \notin remembered[a]]_vars
    BY StepOutcome
<1> QED
    BY <1>1, MemoryInvariance, PTL DEF Spec, OutcomeRespectsMemory
=============================================================================
