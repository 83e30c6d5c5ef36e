------------------------ MODULE HumanReview_proofs ------------------------
(***************************************************************************)
(* Theorems about HumanReview, for any number of analyses, tasks, resolve  *)
(* requests, attempts and faults.                                          *)
(*                                                                         *)
(* IInv is the inductive invariant: the types, and four groups of facts    *)
(* about how the tables, the runs, their calls and the requests relate.    *)
(* Each group is proved to survive every step from itself and the groups   *)
(* before it; Invariance puts them together, and each theorem after it     *)
(* reads a property of HumanReview off IInv. The last part shows that      *)
(* HumanReview implements ReviewPromise.                                   *)
(***************************************************************************)
EXTENDS HumanReview, TLAPS

USE DEF Analyses, Tasks, Attempts, Subjects, NoAnalysis

\* A run that waits for its tool call knows which attempt it waits for.
AttemptKnown == \A a \in Analyses : pc[a] = "raising" => attempt[a] \in Attempts
TypeInv == TypeOK /\ AttemptKnown

\* Every initial state is well typed: the task numbering of the seed included.
LEMMA InitType == Init => TypeInv
BY BoundsAssumption, NamesAssumption DEF Init, TypeInv, AttemptKnown, TypeOK, Running, Deciding, Resuming

\* Every step keeps the types, one case per action.
LEMMA StepType == TypeInv /\ [Next]_vars => TypeInv'
<1> SUFFICES ASSUME TypeInv, [Next]_vars PROVE TypeInv'
    OBVIOUS
<1> USE BoundsAssumption, NamesAssumption DEF TypeInv, AttemptKnown, TypeOK, Running, Deciding, Resuming,
        analysisTable, taskTable, runVars, callVars, reqVars
<1>1. ASSUME NEW a \in Analyses, StartAnalysis(a) PROVE TypeInv'
    BY <1>1 DEF StartAnalysis, BeginRun
<1>2. ASSUME NEW a \in Analyses, DetectConflict(a) PROVE TypeInv'
    BY <1>2 DEF DetectConflict, Escalate
<1>3. ASSUME NEW a \in Analyses, GroundingFails(a) PROVE TypeInv'
    BY <1>3 DEF GroundingFails, Escalate
<1>4. ASSUME NEW a \in Analyses, NothingToReview(a) PROVE TypeInv'
    BY <1>4 DEF NothingToReview
<1>5. ASSUME NEW a \in Analyses, ReceiveReply(a) PROVE TypeInv'
    BY <1>5 DEF ReceiveReply
<1>6. ASSUME NEW a \in Analyses, SaveResult(a) PROVE TypeInv'
    BY <1>6 DEF SaveResult, EndRun, CancelCalls
<1>7. ASSUME NEW a \in Analyses, NEW n \in Attempts, LookUpTask(a, n) PROVE TypeInv'
  <2>1. CASE UNCHANGED <<found, attach>>
      BY <1>7, <2>1 DEF LookUpTask
  <2>2. ASSUME NEW t \in Tasks,
               found' = [found EXCEPT ![a][n] = t],
               attach' = [attach EXCEPT ![a][n] = taskAnalysis[t] = NoAnalysis]
        PROVE TypeInv'
      BY <1>7, <2>2 DEF LookUpTask
  <2> QED
      BY <1>7, <2>1, <2>2 DEF LookUpTask, SameOpenTask
<1>8. ASSUME NEW a \in Analyses, NEW n \in Attempts, AttachTask(a, n) PROVE TypeInv'
    BY <1>8 DEF AttachTask
<1>9. ASSUME NEW a \in Analyses, NEW n \in Attempts, InsertTask(a, n) PROVE TypeInv'
    BY <1>9 DEF InsertTask
<1>10. ASSUME NEW a \in Analyses, CallTimesOut(a) PROVE TypeInv'
    BY <1>10 DEF CallTimesOut, Fault
<1>11. ASSUME NEW a \in Analyses, LastCallTimesOut(a) PROVE TypeInv'
    BY <1>11 DEF LastCallTimesOut, Fault
<1>12. ASSUME NEW a \in Analyses, CallFails(a) PROVE TypeInv'
  <2>1. attempt[a] \in Attempts
      BY <1>12 DEF CallFails
  <2>2. /\ callPc' \in [Analyses -> [Attempts -> {"idle", "sent", "looked", "replied"}]]
        /\ found' \in [Analyses -> [Attempts -> Tasks \cup {None}]]
        /\ attach' \in [Analyses -> [Attempts -> BOOLEAN]]
      BY <1>12, <2>1 DEF CallFails, ForgetCall
  <2>3. pc' \in [Analyses -> {"unused", "returned", "threw", "killed"} \cup Running] /\ AttemptKnown'
      BY <1>12 DEF CallFails
  <2>4. faults' \in 0..MaxFaults
      BY <1>12 DEF CallFails, Fault
  <2>5. UNCHANGED <<analysisTable, taskTable, record, subject, attempt, raised, original, request, reqVars>>
      BY <1>12 DEF CallFails
  <2> QED
      BY <2>2, <2>3, <2>4, <2>5
<1>13. ASSUME NEW a \in Analyses, SaveFailure(a) PROVE TypeInv'
    BY <1>13 DEF SaveFailure, EndRun, CancelCalls, Fault
<1>14. ASSUME NEW a \in Analyses, RunThrows(a) PROVE TypeInv'
    BY <1>14 DEF RunThrows, EndRun, CancelCalls, Fault
<1>15. ASSUME NEW a \in Analyses, RunKilled(a) PROVE TypeInv'
    BY <1>15 DEF RunKilled, EndRun, CancelCalls, Fault
<1>16. ASSUME NEW a \in Analyses, NEW n \in Attempts, AbandonedCallDies(a, n) PROVE TypeInv'
    BY <1>16 DEF AbandonedCallDies, ForgetCall
<1>17. ASSUME NEW r \in Requests, NEW t \in Tasks, CheckTask(r, t) PROVE TypeInv'
    BY <1>17 DEF CheckTask
<1>18. ASSUME NEW r \in Requests, NEW t \in Tasks, RefuseTask(r, t) PROVE TypeInv'
    BY <1>18 DEF RefuseTask
<1>19. ASSUME NEW r \in Requests, LockTask(r) PROVE TypeInv'
    BY <1>19 DEF LockTask, Current
<1>20. ASSUME NEW r \in Requests, CommitDecision(r) PROVE TypeInv'
    BY <1>20 DEF CommitDecision
<1>21. ASSUME NEW r \in Requests, FindBlocked(r) PROVE TypeInv'
    BY <1>21 DEF FindBlocked, BlockedAnalyses, Pending, Newest
<1>22. ASSUME NEW r \in Requests, FinishResolve(r) PROVE TypeInv'
    BY <1>22 DEF FinishResolve, RerunOf
<1>23. ASSUME NEW r \in Requests, NEW a \in Analyses, NEW b \in Analyses, StartRerun(r, a, b) PROVE TypeInv'
    BY <1>23 DEF StartRerun, BeginRun
<1>24. ASSUME NEW r \in Requests, RequestKilled(r) PROVE TypeInv'
    BY <1>24 DEF RequestKilled, Fault
<1>25. CASE UNCHANGED vars
    BY <1>25 DEF vars
<1> QED
    BY <1>1, <1>2, <1>3, <1>4, <1>5, <1>6, <1>7, <1>8, <1>9, <1>10, <1>11, <1>12, <1>13, <1>14,
       <1>15, <1>16, <1>17, <1>18, <1>19, <1>20, <1>21, <1>22, <1>23, <1>24, <1>25
    DEF Next, RunStep, RunFault, ResolveStep, ServeCall

(***************************************************************************)
(* Re-runs and the task they resolve.                                      *)
(***************************************************************************)
Decided == {"committed", "resuming", "done", "stopped"}

\* A row that does not exist yet has no process, no calls and no result.
UnusedAnalysisIsBlank ==
  \A b \in Analyses : status[b] = "absent" =>
    /\ pc[b] = "unused" /\ request[b] = None /\ original[b] = NoAnalysis
    /\ raised[b] = None /\ cites[b] = None /\ supersededBy[b] = NoAnalysis
    /\ \A n \in Attempts : callPc[b][n] = "idle" /\ found[b][n] = None

\* A request has read the row of its task; once it has decided, the row says so.
RequestKnowsItsTask ==
  \A r \in Requests :
    /\ reqPc[r] # "idle" => reqTask[r] \in Tasks /\ taskStatus[reqTask[r]] # "absent"
    /\ reqPc[r] \in Decided => Closed(reqTask[r])

\* Only a request that has decided starts re-runs.
RerunFollowsDecision ==
  \A b \in Analyses : request[b] # None => reqPc[request[b]] \in Decided

RerunInv == UnusedAnalysisIsBlank /\ RequestKnowsItsTask /\ RerunFollowsDecision /\ RerunNeverBlocksOnItsTask

\* No re-run exists initially.
LEMMA InitRerun == Init => RerunInv
BY NamesAssumption DEF Init, RerunInv, UnusedAnalysisIsBlank, RequestKnowsItsTask,
   RerunFollowsDecision, RerunNeverBlocksOnItsTask, Decided

\* A re-run stays clear of its task as long as what it finds is old, dropped or open.
LEMMA ResultsComeFromOpenTasks ==
  ASSUME TypeInv, RerunInv, UNCHANGED <<request, reqTask>>,
         \A b \in Analyses : cites'[b] = cites[b] \/ cites'[b] = raised[b],
         \A b \in Analyses : raised'[b] = raised[b] \/ \E n \in Attempts : raised'[b] = found[b][n],
         \A b \in Analyses, n \in Attempts :
           found'[b][n] = found[b][n] \/ found'[b][n] = None \/ ~Closed(found'[b][n])
  PROVE  RerunNeverBlocksOnItsTask'
<1> SUFFICES ASSUME NEW b \in Analyses, request[b] # None
             PROVE  /\ raised'[b] # reqTask[request[b]] /\ cites'[b] # reqTask[request[b]]
                    /\ \A n \in Attempts : found'[b][n] # reqTask[request[b]]
    BY DEF RerunNeverBlocksOnItsTask
<1>1. request[b] \in Requests
    BY DEF TypeInv, TypeOK
<1>2. reqTask[request[b]] \in Tasks /\ Closed(reqTask[request[b]])
    BY <1>1 DEF RerunInv, RerunFollowsDecision, RequestKnowsItsTask, Decided
<1>3. reqTask[request[b]] # None
    BY <1>2, NamesAssumption, BoundsAssumption
<1> QED
    BY <1>2, <1>3 DEF RerunInv, RerunNeverBlocksOnItsTask

\* A request that has not reached a task has started nothing.
LEMMA IdleRequestHasNoRerun ==
  ASSUME RerunInv, NEW r \in Requests, reqPc[r] = "idle"
  PROVE  \A b \in Analyses : request[b] # r
BY NamesAssumption DEF RerunInv, RerunFollowsDecision, Decided

\* Every step keeps re-runs away from the task their request resolved.
LEMMA StepRerun == TypeInv /\ RerunInv /\ [Next]_vars => RerunInv'
<1> SUFFICES ASSUME TypeInv, RerunInv, [Next]_vars PROVE RerunInv'
    OBVIOUS
<1> USE BoundsAssumption, NamesAssumption DEF TypeInv, AttemptKnown, TypeOK, Running, Deciding, Resuming, Decided,
        RerunInv, UnusedAnalysisIsBlank, RequestKnowsItsTask, RerunFollowsDecision, RerunNeverBlocksOnItsTask,
        Open, Closed, analysisTable, taskTable, runVars, callVars, reqVars
<1>1. ASSUME NEW a \in Analyses, StartAnalysis(a) PROVE RerunInv'
    BY <1>1 DEF StartAnalysis, BeginRun
<1>2. ASSUME NEW a \in Analyses, DetectConflict(a) PROVE RerunInv'
    BY <1>2 DEF DetectConflict, Escalate
<1>3. ASSUME NEW a \in Analyses, GroundingFails(a) PROVE RerunInv'
    BY <1>3 DEF GroundingFails, Escalate
<1>4. ASSUME NEW a \in Analyses, NothingToReview(a) PROVE RerunInv'
    BY <1>4 DEF NothingToReview
<1>5. ASSUME NEW a \in Analyses, ReceiveReply(a) PROVE RerunInv'
  <2>1. status[a] # "absent"
      BY <1>5 DEF ReceiveReply
  <2>2. UnusedAnalysisIsBlank'
      BY <1>5, <2>1 DEF ReceiveReply
  <2>3. RequestKnowsItsTask' /\ RerunFollowsDecision'
      BY <1>5 DEF ReceiveReply
  <2>4. UNCHANGED <<request, reqTask, cites, found>>
      BY <1>5 DEF ReceiveReply
  <2>5. \A b \in Analyses : raised'[b] = raised[b] \/ \E n \in Attempts : raised'[b] = found[b][n]
      BY <1>5 DEF ReceiveReply
  <2>6. RerunNeverBlocksOnItsTask'
      BY ONLY TypeInv, RerunInv, <2>4, <2>5, ResultsComeFromOpenTasks
  <2> QED
      BY <2>2, <2>3, <2>6
<1>6. ASSUME NEW a \in Analyses, SaveResult(a) PROVE RerunInv'
  <2>1. UnusedAnalysisIsBlank'
      BY <1>6 DEF SaveResult, EndRun, CancelCalls
  <2>2. RequestKnowsItsTask' /\ RerunFollowsDecision'
      BY <1>6 DEF SaveResult, EndRun, CancelCalls
  <2>3. \A b \in Analyses, k \in Attempts : found'[b][k] = found[b][k] \/ found'[b][k] = None
      BY <1>6 DEF SaveResult, EndRun, CancelCalls
  <2>4. /\ UNCHANGED <<request, reqTask, raised>>
        /\ \A b \in Analyses : cites'[b] = cites[b] \/ cites'[b] = raised[b]
      BY <1>6 DEF SaveResult, EndRun
  <2>5. RerunNeverBlocksOnItsTask'
      BY ONLY TypeInv, RerunInv, <2>3, <2>4, ResultsComeFromOpenTasks
  <2> QED
      BY <2>1, <2>2, <2>5
<1>7. ASSUME NEW a \in Analyses, NEW n \in Attempts, LookUpTask(a, n) PROVE RerunInv'
  <2>1. CASE UNCHANGED <<found, attach>>
      BY <1>7, <2>1 DEF LookUpTask
  <2>2. ASSUME NEW t \in Tasks, Open(t), found' = [found EXCEPT ![a][n] = t]
        PROVE RerunInv'
    <3>1. status[a] # "absent"
        BY <1>7 DEF LookUpTask
    <3>2. UnusedAnalysisIsBlank'
        BY <1>7, <2>2, <3>1 DEF LookUpTask
    <3>3. RequestKnowsItsTask' /\ RerunFollowsDecision'
        BY <1>7 DEF LookUpTask
    <3>4. UNCHANGED <<request, reqTask, raised, cites, taskStatus>>
        BY <1>7 DEF LookUpTask
    <3>5. \A b \in Analyses, k \in Attempts : found'[b][k] = found[b][k] \/ ~Closed(found'[b][k])
        BY <2>2
    <3>6. RerunNeverBlocksOnItsTask'
        BY ONLY TypeInv, RerunInv, <3>4, <3>5, ResultsComeFromOpenTasks
    <3> QED
        BY <3>2, <3>3, <3>6
  <2> QED
      BY <1>7, <2>1, <2>2 DEF LookUpTask, SameOpenTask
<1>8. ASSUME NEW a \in Analyses, NEW n \in Attempts, AttachTask(a, n) PROVE RerunInv'
    BY <1>8 DEF AttachTask
<1>9. ASSUME NEW a \in Analyses, NEW n \in Attempts, InsertTask(a, n) PROVE RerunInv'
  <2>1. status[a] # "absent"
      BY <1>9 DEF InsertTask
  <2>2. UnusedAnalysisIsBlank'
      BY <1>9, <2>1 DEF InsertTask
  <2>3. RequestKnowsItsTask' /\ RerunFollowsDecision'
      BY <1>9 DEF InsertTask
  <2>4. RerunNeverBlocksOnItsTask'
      BY <1>9, ResultsComeFromOpenTasks DEF InsertTask
  <2> QED
      BY <2>2, <2>3, <2>4
<1>10. ASSUME NEW a \in Analyses, CallTimesOut(a) PROVE RerunInv'
    BY <1>10 DEF CallTimesOut, Fault
<1>11. ASSUME NEW a \in Analyses, LastCallTimesOut(a) PROVE RerunInv'
    BY <1>11 DEF LastCallTimesOut, Fault
<1>12. ASSUME NEW a \in Analyses, CallFails(a) PROVE RerunInv'
  <2>1. status[a] # "absent"
      BY <1>12 DEF CallFails, ForgetCall, Fault
  <2>2. UnusedAnalysisIsBlank'
      BY <1>12, <2>1 DEF CallFails, ForgetCall, Fault
  <2>3. RequestKnowsItsTask' /\ RerunFollowsDecision'
      BY <1>12 DEF CallFails, ForgetCall, Fault
  <2>4. \A b \in Analyses, k \in Attempts : found'[b][k] = found[b][k] \/ found'[b][k] = None
      BY <1>12 DEF CallFails, ForgetCall, Fault
  <2>5. /\ UNCHANGED <<request, reqTask>>
        /\ \A b \in Analyses : cites'[b] = cites[b] /\ raised'[b] = raised[b]
      BY <1>12 DEF CallFails
  <2>6. RerunNeverBlocksOnItsTask'
      BY ONLY TypeInv, RerunInv, <2>4, <2>5, ResultsComeFromOpenTasks
  <2> QED
      BY <2>2, <2>3, <2>6
<1>13. ASSUME NEW a \in Analyses, SaveFailure(a) PROVE RerunInv'
  <2>1. status[a] # "absent"
      BY <1>13 DEF SaveFailure, EndRun, CancelCalls, Fault
  <2>2. UnusedAnalysisIsBlank'
      BY <1>13, <2>1 DEF SaveFailure, EndRun, CancelCalls, Fault
  <2>3. RequestKnowsItsTask' /\ RerunFollowsDecision'
      BY <1>13 DEF SaveFailure, EndRun, CancelCalls, Fault
  <2>4. \A b \in Analyses, k \in Attempts : found'[b][k] = found[b][k] \/ found'[b][k] = None
      BY <1>13 DEF SaveFailure, EndRun, CancelCalls
  <2>5. UNCHANGED <<request, reqTask, raised, cites>>
      BY <1>13 DEF SaveFailure, EndRun
  <2>6. RerunNeverBlocksOnItsTask'
      BY ONLY TypeInv, RerunInv, <2>4, <2>5, ResultsComeFromOpenTasks
  <2> QED
      BY <2>2, <2>3, <2>6
<1>14. ASSUME NEW a \in Analyses, RunThrows(a) PROVE RerunInv'
  <2>1. status[a] # "absent"
      BY <1>14 DEF RunThrows, EndRun, CancelCalls, Fault
  <2>2. UnusedAnalysisIsBlank'
      BY <1>14, <2>1 DEF RunThrows, EndRun, CancelCalls, Fault
  <2>3. RequestKnowsItsTask' /\ RerunFollowsDecision'
      BY <1>14 DEF RunThrows, EndRun, CancelCalls, Fault
  <2>4. \A b \in Analyses, k \in Attempts : found'[b][k] = found[b][k] \/ found'[b][k] = None
      BY <1>14 DEF RunThrows, EndRun, CancelCalls
  <2>5. UNCHANGED <<request, reqTask, raised, cites>>
      BY <1>14 DEF RunThrows, EndRun
  <2>6. RerunNeverBlocksOnItsTask'
      BY ONLY TypeInv, RerunInv, <2>4, <2>5, ResultsComeFromOpenTasks
  <2> QED
      BY <2>2, <2>3, <2>6
<1>15. ASSUME NEW a \in Analyses, RunKilled(a) PROVE RerunInv'
    BY <1>15 DEF RunKilled, EndRun, CancelCalls, Fault
<1>16. ASSUME NEW a \in Analyses, NEW n \in Attempts, AbandonedCallDies(a, n) PROVE RerunInv'
  <2>1. status[a] # "absent"
      BY <1>16 DEF AbandonedCallDies, ForgetCall
  <2>2. UnusedAnalysisIsBlank'
      BY <1>16, <2>1 DEF AbandonedCallDies, ForgetCall
  <2>3. RequestKnowsItsTask' /\ RerunFollowsDecision'
      BY <1>16 DEF AbandonedCallDies, ForgetCall
  <2>4. \A b \in Analyses, k \in Attempts : found'[b][k] = found[b][k] \/ found'[b][k] = None
      BY <1>16 DEF AbandonedCallDies, ForgetCall
  <2>5. /\ UNCHANGED <<request, reqTask>>
        /\ \A b \in Analyses : cites'[b] = cites[b] /\ raised'[b] = raised[b]
      BY <1>16 DEF AbandonedCallDies
  <2>6. RerunNeverBlocksOnItsTask'
      BY ONLY TypeInv, RerunInv, <2>4, <2>5, ResultsComeFromOpenTasks
  <2> QED
      BY <2>2, <2>3, <2>6
<1>17. ASSUME NEW r \in Requests, NEW t \in Tasks, CheckTask(r, t) PROVE RerunInv'
  <2>1. \A b \in Analyses : request[b] # r
      BY <1>17, IdleRequestHasNoRerun DEF CheckTask
  <2>2. UnusedAnalysisIsBlank' /\ RequestKnowsItsTask'
      BY <1>17 DEF CheckTask
  <2>3. RerunFollowsDecision' /\ RerunNeverBlocksOnItsTask'
      BY <1>17, <2>1 DEF CheckTask
  <2> QED
      BY <2>2, <2>3
<1>18. ASSUME NEW r \in Requests, NEW t \in Tasks, RefuseTask(r, t) PROVE RerunInv'
  <2>1. \A b \in Analyses : request[b] # r
      BY <1>18, IdleRequestHasNoRerun DEF RefuseTask
  <2>2. UnusedAnalysisIsBlank' /\ RequestKnowsItsTask'
      BY <1>18 DEF RefuseTask
  <2>3. RerunFollowsDecision' /\ RerunNeverBlocksOnItsTask'
      BY <1>18, <2>1 DEF RefuseTask
  <2> QED
      BY <2>2, <2>3
<1>19. ASSUME NEW r \in Requests, LockTask(r) PROVE RerunInv'
    BY <1>19 DEF LockTask, Current
<1>20. ASSUME NEW r \in Requests, CommitDecision(r) PROVE RerunInv'
    BY <1>20 DEF CommitDecision
<1>21. ASSUME NEW r \in Requests, FindBlocked(r) PROVE RerunInv'
    BY <1>21 DEF FindBlocked
<1>22. ASSUME NEW r \in Requests, FinishResolve(r) PROVE RerunInv'
    BY <1>22 DEF FinishResolve, RerunOf
<1>23. ASSUME NEW r \in Requests, NEW a \in Analyses, NEW b \in Analyses, StartRerun(r, a, b) PROVE RerunInv'
    BY <1>23 DEF StartRerun, BeginRun
<1>24. ASSUME NEW r \in Requests, RequestKilled(r) PROVE RerunInv'
    BY <1>24 DEF RequestKilled, Fault
<1>25. CASE UNCHANGED vars
    BY <1>25 DEF vars
<1> QED
    BY <1>1, <1>2, <1>3, <1>4, <1>5, <1>6, <1>7, <1>8, <1>9, <1>10, <1>11, <1>12, <1>13, <1>14,
       <1>15, <1>16, <1>17, <1>18, <1>19, <1>20, <1>21, <1>22, <1>23, <1>24, <1>25
    DEF Next, RunStep, RunFault, ResolveStep, ServeCall

(***************************************************************************)
(* Verification records.                                                   *)
(***************************************************************************)
\* A record is written with the decision, about the subject of its task.
RecordFollowsDecision ==
  \A r \in Requests : record[r] # "absent" => reqPc[r] \in Decided /\ WritesRecord(r)

\* The row lock of the task.
OneLockPerTask ==
  \A q, r \in Requests :
    reqPc[q] = "locked" /\ reqPc[r] = "locked" /\ reqTask[q] = reqTask[r] => q = r

\* What a request read under the lock is still what it has to supersede: records
\* about its subject, and every current one that belongs to its task.
PreviousIsUpToDate ==
  \A r \in Requests : reqPc[r] = "locked" =>
    /\ \A q \in previous[r] :
         WritesRecord(r) /\ record[q] # "absent" /\ taskSubject[reqTask[q]] = taskSubject[reqTask[r]]
    /\ \A q \in Requests :
         WritesRecord(r) /\ record[q] = "verified" /\ reqTask[q] = reqTask[r] => q \in previous[r]

RecordInv ==
  /\ RecordFollowsDecision /\ OneLockPerTask /\ PreviousIsUpToDate
  /\ OneCurrentRecordPerTask /\ CurrentRecordSurvives

\* No record exists initially.
LEMMA InitRecord == Init => RecordInv
BY DEF Init, RecordInv, RecordFollowsDecision, OneLockPerTask, PreviousIsUpToDate,
   OneCurrentRecordPerTask, CurrentRecordSurvives

recordVars == <<record, reqPc, reqTask, dismiss, previous, taskSubject>>

\* Steps that do not touch the records nor the requests.
LEMMA RecordFrame == RecordInv /\ UNCHANGED recordVars => RecordInv'
BY DEF RecordInv, recordVars, RecordFollowsDecision, OneLockPerTask, PreviousIsUpToDate,
   OneCurrentRecordPerTask, CurrentRecordSurvives, WritesRecord, Current

\* A new task has no record, so inserting one disturbs nothing.
LEMMA RecordInsertTask ==
  ASSUME TypeInv, RerunInv, RecordInv, NEW a \in Analyses, NEW n \in Attempts, InsertTask(a, n)
  PROVE  RecordInv'
<1>1. UNCHANGED <<record, reqPc, reqTask, dismiss, previous>>
    BY DEF InsertTask, reqVars
<1>2. \A r \in Requests : reqPc[r] # "idle" => taskSubject'[reqTask[r]] = taskSubject[reqTask[r]]
    BY DEF InsertTask, RerunInv, RequestKnowsItsTask, TypeInv, TypeOK
<1>3. \A r \in Requests : record[r] # "absent" => reqPc[r] # "idle"
    BY DEF RecordInv, RecordFollowsDecision, Decided
<1>4. \A r \in Requests : reqPc[r] # "idle" => WritesRecord(r)' = WritesRecord(r)
    BY <1>1, <1>2 DEF WritesRecord
<1>5. RecordFollowsDecision'
    BY <1>1, <1>3, <1>4 DEF RecordInv, RecordFollowsDecision
<1>6. OneLockPerTask' /\ OneCurrentRecordPerTask'
    BY <1>1 DEF RecordInv, OneLockPerTask, OneCurrentRecordPerTask
<1>7. PreviousIsUpToDate'
  <2> SUFFICES ASSUME NEW r \in Requests, reqPc[r] = "locked"
               PROVE  /\ \A q \in previous[r] :
                           WritesRecord(r)' /\ record[q] # "absent" /\ taskSubject'[reqTask[q]] = taskSubject'[reqTask[r]]
                      /\ \A q \in Requests :
                           WritesRecord(r)' /\ record[q] = "verified" /\ reqTask[q] = reqTask[r] => q \in previous[r]
      BY <1>1 DEF PreviousIsUpToDate
  <2>1. previous[r] \subseteq Requests
      BY DEF TypeInv, TypeOK
  <2>2. WritesRecord(r)' = WritesRecord(r)
      BY <1>4
  <2>3. ASSUME NEW q \in previous[r]
        PROVE  WritesRecord(r)' /\ record[q] # "absent" /\ taskSubject'[reqTask[q]] = taskSubject'[reqTask[r]]
      BY <1>2, <1>3, <2>1, <2>2, <2>3 DEF RecordInv, PreviousIsUpToDate
  <2> QED
      BY <2>2, <2>3 DEF RecordInv, PreviousIsUpToDate
<1>8. CurrentRecordSurvives'
    BY <1>1, <1>2, <1>3 DEF RecordInv, CurrentRecordSurvives, Current
<1> QED
    BY <1>5, <1>6, <1>7, <1>8 DEF RecordInv

\* A request that turns to a task, or gives up, has written no record.
LEMMA RecordRequestMoves ==
  ASSUME TypeInv, RecordInv, NEW r \in Requests,
         UNCHANGED <<record, taskSubject>>,
         \A q \in Requests : previous'[q] = previous[q] \/ previous'[q] = {},
         \A q \in Requests \ {r} : reqPc'[q] = reqPc[q] /\ reqTask'[q] = reqTask[q] /\ dismiss'[q] = dismiss[q]
                                   /\ previous'[q] = previous[q],
         reqPc'[r] # "locked",
         \/ record[r] = "absent"
         \/ reqPc'[r] \in Decided /\ reqTask'[r] = reqTask[r] /\ dismiss'[r] = dismiss[r]
  PROVE  RecordInv'
<1>1. RecordFollowsDecision'
    BY DEF RecordInv, RecordFollowsDecision, WritesRecord
<1>2. OneLockPerTask'
    BY DEF RecordInv, OneLockPerTask
<1>3. PreviousIsUpToDate'
    BY DEF RecordInv, PreviousIsUpToDate, WritesRecord, TypeInv, TypeOK
<1>4. \A q \in Requests : record[q] # "absent" => reqTask'[q] = reqTask[q]
    OBVIOUS
<1>5. OneCurrentRecordPerTask'
    BY <1>4 DEF RecordInv, OneCurrentRecordPerTask
<1>6. \A s : Current(s)' = Current(s)
    BY <1>4 DEF Current
<1>7. CurrentRecordSurvives'
    BY <1>4, <1>6 DEF RecordInv, CurrentRecordSurvives
<1> QED
    BY <1>1, <1>2, <1>3, <1>5, <1>7 DEF RecordInv

\* What a request reads under the row lock is all there is to supersede.
LEMMA RecordLock ==
  ASSUME TypeInv, RecordInv, NEW r \in Requests, LockTask(r)
  PROVE  RecordInv'
<1>1. /\ reqPc[r] = "checked" /\ reqPc' = [reqPc EXCEPT ![r] = "locked"]
      /\ \A q \in Requests : ~(reqPc[q] = "locked" /\ reqTask[q] = reqTask[r])
      /\ previous' = [previous EXCEPT ![r] = IF WritesRecord(r) THEN Current(taskSubject[reqTask[r]]) ELSE {}]
      /\ UNCHANGED <<record, reqTask, dismiss, taskSubject>>
    BY DEF LockTask, taskTable
<1>2. /\ \A q \in Requests : WritesRecord(q)' = WritesRecord(q)
      /\ \A s : Current(s)' = Current(s)
    BY <1>1 DEF WritesRecord, Current
<1>3. RecordFollowsDecision'
    BY <1>1, <1>2 DEF RecordInv, RecordFollowsDecision, Decided, TypeInv, TypeOK
<1>4. OneLockPerTask'
    BY <1>1 DEF RecordInv, OneLockPerTask, TypeInv, TypeOK
<1>5. previous'[r] = IF WritesRecord(r) THEN Current(taskSubject[reqTask[r]]) ELSE {}
    BY <1>1 DEF TypeInv, TypeOK
<1>6. \A q \in Requests \ {r} : previous'[q] = previous[q] /\ reqPc'[q] = reqPc[q]
    BY <1>1 DEF TypeInv, TypeOK
<1>7. PreviousIsUpToDate'
    BY <1>1, <1>2, <1>5, <1>6 DEF RecordInv, PreviousIsUpToDate, Current
<1>8. OneCurrentRecordPerTask' /\ CurrentRecordSurvives'
    BY <1>1, <1>2 DEF RecordInv, OneCurrentRecordPerTask, CurrentRecordSurvives
<1> QED
    BY <1>3, <1>4, <1>7, <1>8 DEF RecordInv

\* A decision supersedes what its request read and then writes its own record.
LEMMA RecordCommit ==
  ASSUME TypeInv, RecordInv, NEW r \in Requests, CommitDecision(r)
  PROVE  RecordInv'
<1>1. /\ reqPc[r] = "locked" /\ reqPc' = [reqPc EXCEPT ![r] = "committed"]
      /\ record' = [q \in Requests |->
                      IF q = r /\ WritesRecord(r) THEN "verified"
                      ELSE IF q \in previous[r] THEN "superseded" ELSE record[q]]
      /\ previous' = [previous EXCEPT ![r] = {}]
      /\ UNCHANGED <<reqTask, dismiss, taskSubject>>
    BY DEF CommitDecision
<1>2. /\ \A q \in Requests : WritesRecord(q)' = WritesRecord(q)
      /\ \A q \in Requests \ {r} : reqPc'[q] = reqPc[q] /\ previous'[q] = previous[q]
      /\ reqPc'[r] = "committed"
    BY <1>1 DEF WritesRecord, TypeInv, TypeOK
<1>3. record[r] = "absent"
    BY <1>1 DEF RecordInv, RecordFollowsDecision, Decided, TypeInv, TypeOK
<1>4. \A q \in previous[r] :
        WritesRecord(r) /\ record[q] # "absent" /\ taskSubject[reqTask[q]] = taskSubject[reqTask[r]]
    BY <1>1 DEF RecordInv, PreviousIsUpToDate
<1>5. RecordFollowsDecision'
    BY <1>1, <1>2, <1>3, <1>4 DEF RecordInv, RecordFollowsDecision, Decided
<1>6. OneLockPerTask'
    BY <1>1, <1>2 DEF RecordInv, OneLockPerTask
<1>7. OneCurrentRecordPerTask'
  <2>1. WritesRecord(r) =>
          \A q \in Requests : record[q] = "verified" /\ reqTask[q] = reqTask[r] => q \in previous[r]
      BY <1>1 DEF RecordInv, PreviousIsUpToDate
  <2> QED
      BY <1>1, <1>3, <2>1 DEF RecordInv, OneCurrentRecordPerTask
<1>8. PreviousIsUpToDate'
  <2> SUFFICES ASSUME NEW q \in Requests, reqPc'[q] = "locked"
               PROVE  /\ \A p \in previous'[q] :
                           WritesRecord(q)' /\ record'[p] # "absent" /\ taskSubject'[reqTask'[p]] = taskSubject'[reqTask'[q]]
                      /\ \A p \in Requests :
                           WritesRecord(q)' /\ record'[p] = "verified" /\ reqTask'[p] = reqTask'[q] => p \in previous'[q]
      BY DEF PreviousIsUpToDate
  <2>1. q # r /\ reqPc[q] = "locked" /\ previous'[q] = previous[q] /\ previous[q] \subseteq Requests
      BY <1>2 DEF TypeInv, TypeOK
  <2>2. reqTask[q] # reqTask[r]
      BY <1>1, <2>1 DEF RecordInv, OneLockPerTask
  <2>3. \A p \in Requests \ {r} : record'[p] = "verified" => record[p] = "verified"
      BY <1>1 DEF TypeInv, TypeOK
  <2>4. \A p \in Requests : record[p] # "absent" => record'[p] # "absent"
      BY <1>1
  <2> QED
      BY <1>1, <1>2, <2>1, <2>2, <2>3, <2>4 DEF RecordInv, PreviousIsUpToDate
<1>9. CurrentRecordSurvives'
  <2> SUFFICES ASSUME NEW q \in Requests, record'[q] # "absent"
               PROVE  \E c \in Requests : record'[c] = "verified" /\ taskSubject[reqTask[c]] = taskSubject[reqTask[q]]
      BY <1>1 DEF CurrentRecordSurvives, Current
  <2>1. CASE q = r
      BY <1>1, <1>3, <1>4, <2>1
  <2>2. CASE q # r
    <3>1. record[q] # "absent"
        BY <1>1, <1>4, <2>2
    <3>2. PICK c \in Requests : record[c] = "verified" /\ taskSubject[reqTask[c]] = taskSubject[reqTask[q]]
        BY <3>1 DEF RecordInv, CurrentRecordSurvives, Current
    <3>3. CASE c \in previous[r]
        BY <1>1, <1>4, <3>2, <3>3
    <3>4. CASE c \notin previous[r]
        BY <1>1, <3>2, <3>4
    <3> QED
        BY <3>3, <3>4
  <2> QED
      BY <2>1, <2>2
<1> QED
    BY <1>5, <1>6, <1>7, <1>8, <1>9 DEF RecordInv

\* Every step keeps one current record per task, and never loses the last one.
LEMMA StepRecord == TypeInv /\ RerunInv /\ RecordInv /\ [Next]_vars => RecordInv'
<1> SUFFICES ASSUME TypeInv, RerunInv, RecordInv, [Next]_vars PROVE RecordInv'
    OBVIOUS
<1> USE DEF taskTable, reqVars, recordVars
<1>1. ASSUME NEW a \in Analyses, StartAnalysis(a) \/ RunFault(a) PROVE RecordInv'
    BY <1>1, RecordFrame DEF StartAnalysis, RunFault, CallTimesOut, LastCallTimesOut, CallFails, SaveFailure,
       RunThrows, RunKilled, AbandonedCallDies, EndRun
<1>2. ASSUME NEW a \in Analyses, RunStep(a) PROVE RecordInv'
  <2>1. CASE \E n \in Attempts : InsertTask(a, n)
      BY <2>1, RecordInsertTask
  <2>2. CASE UNCHANGED recordVars
      BY <2>2, RecordFrame
  <2> QED
      BY <1>2, <2>1, <2>2 DEF RunStep, DetectConflict, GroundingFails, Escalate, NothingToReview, ReceiveReply,
         SaveResult, EndRun, ServeCall, LookUpTask, AttachTask
<1>3. ASSUME NEW r \in Requests, NEW t \in Tasks, CheckTask(r, t) \/ RefuseTask(r, t) PROVE RecordInv'
  <2>1. record[r] = "absent"
      BY <1>3 DEF CheckTask, RefuseTask, RecordInv, RecordFollowsDecision, Decided
  <2> QED
      BY <1>3, <2>1, RecordRequestMoves DEF CheckTask, RefuseTask, TypeInv, TypeOK
<1>4. ASSUME NEW r \in Requests, ResolveStep(r) PROVE RecordInv'
  <2>1. CASE FindBlocked(r) \/ FinishResolve(r)
    <3>1. /\ reqPc[r] \in Decided /\ reqPc'[r] \in Decided \ {"locked"}
          /\ UNCHANGED <<record, taskSubject, previous, reqTask, dismiss>>
          /\ \A q \in Requests \ {r} : reqPc'[q] = reqPc[q]
        BY <2>1 DEF FindBlocked, FinishResolve, Decided, TypeInv, TypeOK
    <3> QED
        BY <3>1, RecordRequestMoves DEF Decided
  <2>2. CASE \E a, b \in Analyses : StartRerun(r, a, b)
      BY <2>2, RecordFrame DEF StartRerun
  <2> QED
      BY <1>4, <2>1, <2>2, RecordLock, RecordCommit DEF ResolveStep
<1>5. ASSUME NEW r \in Requests, RequestKilled(r) PROVE RecordInv'
  <2>1. /\ reqPc[r] \in Deciding \cup Resuming
        /\ reqPc'[r] = IF reqPc[r] \in Deciding THEN "aborted" ELSE "stopped"
        /\ UNCHANGED <<record, taskSubject, reqTask, dismiss>>
        /\ \A q \in Requests \ {r} : reqPc'[q] = reqPc[q] /\ previous'[q] = previous[q]
        /\ previous'[r] = {}
      BY <1>5 DEF RequestKilled, TypeInv, TypeOK
  <2>2. record[r] = "absent" \/ reqPc'[r] \in Decided
      BY <2>1 DEF RecordInv, RecordFollowsDecision, Decided, Deciding, Resuming
  <2> QED
      BY <2>1, <2>2, RecordRequestMoves
<1>6. CASE UNCHANGED vars
    BY <1>6, RecordFrame DEF vars
<1> QED
    BY <1>1, <1>2, <1>3, <1>4, <1>5, <1>6 DEF Next

(***************************************************************************)
(* Citations and superseded analyses.                                      *)
(***************************************************************************)
IsAbout(t, a) == taskStatus[t] # "absent" /\ taskSubject[t] = subject[a]

\* What is being disputed is settled before anything is asked about it, and every
\* task id a run holds, in a call, in its state or in its row, is about that.
CitationsAgree ==
  \A a \in Analyses :
    /\ pc[a] \in {"unused", "graph"} =>
         raised[a] = None /\ cites[a] = None /\ \A n \in Attempts : callPc[a][n] = "idle" /\ found[a][n] = None
    /\ raised[a] # None => IsAbout(raised[a], a)
    /\ cites[a] # None => IsAbout(cites[a], a)
    /\ \A n \in Attempts : found[a][n] # None => IsAbout(found[a][n], a)

\* Nothing cites a task initially.
LEMMA InitCitations == Init => CitationsAgree
BY DEF Init, CitationsAgree

\* Tasks keep their subject, so steps that copy or drop ids keep citations right.
LEMMA CitationsCopied ==
  ASSUME TypeInv, CitationsAgree, UNCHANGED subject,
         \A t \in Tasks : taskStatus[t] # "absent" =>
           taskStatus'[t] # "absent" /\ taskSubject'[t] = taskSubject[t],
         \A a \in Analyses : pc'[a] \in {"unused", "graph"} =>
           /\ pc[a] \in {"unused", "graph"} /\ raised'[a] = raised[a] /\ cites'[a] = cites[a]
           /\ \A n \in Attempts : callPc'[a][n] = callPc[a][n] /\ found'[a][n] = found[a][n],
         \A a \in Analyses : raised'[a] = raised[a] \/ \E n \in Attempts : raised'[a] = found[a][n],
         \A a \in Analyses : cites'[a] = cites[a] \/ cites'[a] = raised[a],
         \A a \in Analyses, n \in Attempts :
           \/ found'[a][n] = found[a][n] \/ found'[a][n] = None
           \/ (found[a][n] \in Tasks /\ IsAbout(found[a][n], a))'
  PROVE  CitationsAgree'
<1>1. \A t \in Tasks, a \in Analyses : IsAbout(t, a) => taskStatus'[t] # "absent" /\ taskSubject'[t] = subject'[a]
    BY DEF IsAbout
<1> SUFFICES ASSUME NEW a \in Analyses
             PROVE  /\ pc'[a] \in {"unused", "graph"} =>
                         /\ raised'[a] = None /\ cites'[a] = None
                         /\ \A n \in Attempts : callPc'[a][n] = "idle" /\ found'[a][n] = None
                    /\ raised'[a] # None => IsAbout(raised[a], a)'
                    /\ cites'[a] # None => IsAbout(cites[a], a)'
                    /\ \A n \in Attempts : found'[a][n] # None => IsAbout(found[a][n], a)'
    BY DEF CitationsAgree
<1> DEFINE StillAbout(t) == t # None => taskStatus'[t] # "absent" /\ taskSubject'[t] = subject'[a]
<1>2. StillAbout(raised[a])
    BY <1>1 DEF TypeInv, TypeOK, CitationsAgree
<1>3. StillAbout(cites[a])
    BY <1>1 DEF TypeInv, TypeOK, CitationsAgree
<1>4. ASSUME NEW n \in Attempts PROVE StillAbout(found[a][n])
  <2>1. found[a][n] \in Tasks \cup {None}
    <3>1. found \in [Analyses -> [Attempts -> Tasks \cup {None}]]
        BY DEF TypeInv, TypeOK
    <3> QED
        BY <3>1
  <2>2. found[a][n] # None => IsAbout(found[a][n], a)
      BY DEF CitationsAgree
  <2> QED
      BY <1>1, <2>1, <2>2
<1>5. \A n \in Attempts : found'[a][n] # None => IsAbout(found[a][n], a)'
    BY <1>4 DEF IsAbout
<1>6. raised'[a] # None => IsAbout(raised[a], a)'
    BY <1>2, <1>4 DEF IsAbout
<1>7. cites'[a] # None => IsAbout(cites[a], a)'
    BY <1>2, <1>3 DEF IsAbout
<1> QED
    BY <1>5, <1>6, <1>7 DEF CitationsAgree

\* An analysis that escalates takes a subject and cites nothing yet.
LEMMA CitationsEscalate ==
  ASSUME TypeInv, CitationsAgree, NEW a \in Analyses, NEW s \in Subjects, Escalate(a, s)
  PROVE  CitationsAgree'
BY DEF Escalate, CitationsAgree, IsAbout, analysisTable, taskTable, TypeInv, TypeOK

\* An inserted task is about the subject of the analysis that asked for it.
LEMMA CitationsInsertTask ==
  ASSUME TypeInv, CitationsAgree, NEW a \in Analyses, NEW n \in Attempts, InsertTask(a, n)
  PROVE  CitationsAgree'
<1>1. PICK t \in Tasks : /\ taskStatus[t] = "absent"
                         /\ taskStatus' = [taskStatus EXCEPT ![t] = "open"]
                         /\ taskSubject' = [taskSubject EXCEPT ![t] = subject[a]]
                         /\ found' = [found EXCEPT ![a][n] = t]
  <2>1. \A t \in Tasks : (\A u \in Tasks : taskStatus[u] = "absent" <=> u >= t) => taskStatus[t] = "absent"
      BY BoundsAssumption
  <2> QED
      BY <2>1 DEF InsertTask
<1>2. /\ UNCHANGED <<subject, raised, cites, pc>>
      /\ callPc[a][n] = "looked" /\ callPc' = [callPc EXCEPT ![a][n] = "replied"]
    BY DEF InsertTask, runVars, analysisTable
<1>3. pc[a] \notin {"unused", "graph"}
    BY <1>2 DEF CitationsAgree
<1>4. \A u \in Tasks : taskStatus[u] # "absent" => taskStatus'[u] # "absent" /\ taskSubject'[u] = taskSubject[u]
    BY <1>1 DEF TypeInv, TypeOK
<1>5. \A b \in Analyses, k \in Attempts :
        found'[b][k] = found[b][k] \/ (found[b][k] \in Tasks /\ IsAbout(found[b][k], b))'
    BY <1>1, <1>2 DEF IsAbout, TypeInv, TypeOK
<1>6. \A b \in Analyses \ {a}, k \in Attempts : callPc'[b][k] = callPc[b][k] /\ found'[b][k] = found[b][k]
    BY <1>1, <1>2 DEF TypeInv, TypeOK
<1> QED
    BY <1>2, <1>3, <1>4, <1>5, <1>6, CitationsCopied

\* A task that is found is about the subject that was looked for.
LEMMA CitationsLookUp ==
  ASSUME TypeInv, CitationsAgree, NEW a \in Analyses, NEW n \in Attempts, LookUpTask(a, n)
  PROVE  CitationsAgree'
<1>1. /\ UNCHANGED <<subject, raised, cites, pc, taskStatus, taskSubject>>
      /\ callPc[a][n] = "sent" /\ callPc' = [callPc EXCEPT ![a][n] = "looked"]
    BY DEF LookUpTask, runVars, analysisTable, taskTable
<1>2. pc[a] \notin {"unused", "graph"}
    BY <1>1 DEF CitationsAgree
<1>3. \A b \in Analyses, k \in Attempts :
        found'[b][k] = found[b][k] \/ (found[b][k] \in Tasks /\ IsAbout(found[b][k], b))'
  <2>1. CASE UNCHANGED found
      BY <2>1
  <2>2. ASSUME NEW t \in Tasks, taskStatus[t] = "open", taskSubject[t] = subject[a],
               found' = [found EXCEPT ![a][n] = t]
        PROVE  \A b \in Analyses, k \in Attempts :
                 found'[b][k] = found[b][k] \/ (found[b][k] \in Tasks /\ IsAbout(found[b][k], b))'
    <3>1. (found[a][n] \in Tasks /\ IsAbout(found[a][n], a))'
        BY <1>1, <2>2 DEF IsAbout, TypeInv, TypeOK
    <3> QED
        BY <2>2, <3>1 DEF TypeInv, TypeOK
  <2> QED
      BY <2>1, <2>2 DEF LookUpTask, SameOpenTask, Open
<1>4. \A b \in Analyses \ {a}, k \in Attempts : callPc'[b][k] = callPc[b][k] /\ found'[b][k] = found[b][k]
    BY <1>1 DEF LookUpTask, TypeInv, TypeOK
<1> QED
    BY <1>1, <1>2, <1>3, <1>4, CitationsCopied

\* Every step keeps ids of tasks with analyses about the same subject.
LEMMA StepCitations == TypeInv /\ RerunInv /\ CitationsAgree /\ [Next]_vars => CitationsAgree'
<1> SUFFICES ASSUME TypeInv, RerunInv, CitationsAgree, [Next]_vars PROVE CitationsAgree'
    OBVIOUS
<1> USE DEF analysisTable, taskTable, runVars, callVars, reqVars
<1>1. ASSUME NEW a \in Analyses, NEW b \in Analyses, NEW r, BeginRun(a, b, r) \/ BeginRun(a, NoAnalysis, r),
             UNCHANGED <<taskTable, callVars>>
      PROVE  CitationsAgree'
  <2>1. status[a] = "absent" /\ pc' = [pc EXCEPT ![a] = "graph"] /\ UNCHANGED <<cites, subject, raised>>
      BY <1>1, BoundsAssumption DEF BeginRun
  <2>2. pc[a] = "unused"
      BY <2>1 DEF RerunInv, UnusedAnalysisIsBlank
  <2> QED
      BY <1>1, <2>1, <2>2, CitationsCopied DEF TypeInv, TypeOK
<1>2. ASSUME NEW a \in Analyses, StartAnalysis(a) PROVE CitationsAgree'
    BY <1>1, <1>2 DEF StartAnalysis
<1>3. ASSUME NEW a \in Analyses, DetectConflict(a) \/ GroundingFails(a) PROVE CitationsAgree'
    BY <1>3, CitationsEscalate DEF DetectConflict, GroundingFails
<1>4. ASSUME NEW a \in Analyses, NothingToReview(a) \/ LastCallTimesOut(a) PROVE CitationsAgree'
    BY <1>4, CitationsCopied DEF NothingToReview, LastCallTimesOut, TypeInv, TypeOK
<1>5. ASSUME NEW a \in Analyses, ReceiveReply(a) PROVE CitationsAgree'
    BY <1>5, CitationsCopied DEF ReceiveReply, TypeInv, AttemptKnown, TypeOK
<1>6. ASSUME NEW a \in Analyses, SaveResult(a) PROVE CitationsAgree'
  <2>1. /\ pc' = [pc EXCEPT ![a] = "returned"] /\ cites' = [cites EXCEPT ![a] = raised[a]]
        /\ callPc' = [callPc EXCEPT ![a] = [n \in Attempts |-> "idle"]]
        /\ found' = [found EXCEPT ![a] = [n \in Attempts |-> None]]
        /\ UNCHANGED <<raised, subject, taskStatus, taskSubject>>
      BY <1>6 DEF SaveResult, EndRun, CancelCalls
  <2> QED
      BY <2>1, CitationsCopied DEF TypeInv, TypeOK
<1>7. ASSUME NEW a \in Analyses, SaveFailure(a) \/ RunThrows(a) \/ RunKilled(a) PROVE CitationsAgree'
  <2>1. /\ \E end \in {"returned", "threw", "killed"} : pc' = [pc EXCEPT ![a] = end]
        /\ callPc' = [callPc EXCEPT ![a] = [n \in Attempts |-> "idle"]]
        /\ found' = [found EXCEPT ![a] = [n \in Attempts |-> None]]
        /\ UNCHANGED <<cites, raised, subject, taskStatus, taskSubject>>
      BY <1>7 DEF SaveFailure, RunThrows, RunKilled, EndRun, CancelCalls
  <2> QED
      BY <2>1, CitationsCopied DEF TypeInv, TypeOK
<1>8. ASSUME NEW a \in Analyses, NEW n \in Attempts, ServeCall(a, n) PROVE CitationsAgree'
  <2>1. ASSUME AttachTask(a, n) PROVE CitationsAgree'
    <3>1. /\ UNCHANGED <<subject, raised, cites, pc, found, taskStatus, taskSubject>>
          /\ callPc[a][n] = "looked" /\ callPc' = [callPc EXCEPT ![a][n] = "replied"]
        BY <2>1 DEF AttachTask
    <3>2. pc[a] \notin {"unused", "graph"}
        BY <3>1 DEF CitationsAgree
    <3> QED
        BY <3>1, <3>2, CitationsCopied DEF TypeInv, TypeOK
  <2> QED
      BY <1>8, <2>1, CitationsLookUp, CitationsInsertTask DEF ServeCall
<1>9. ASSUME NEW a \in Analyses, CallTimesOut(a) PROVE CitationsAgree'
  <2>1. pc[a] = "raising" /\ callPc' = [callPc EXCEPT ![a][attempt[a] + 1] = "sent"]
      BY <1>9 DEF CallTimesOut
  <2>2. \A b \in Analyses : pc[b] \in {"unused", "graph"} => callPc'[b] = callPc[b]
      BY <2>1 DEF TypeInv, TypeOK
  <2> QED
      BY <1>9, <2>2, CitationsCopied DEF CallTimesOut
<1>10. ASSUME NEW a \in Analyses, CallFails(a) PROVE CitationsAgree'
  <2>1. /\ pc[a] = "raising" /\ pc' = [pc EXCEPT ![a] = "answer"] /\ ForgetCall(a, attempt[a])
        /\ UNCHANGED <<cites, raised, subject, taskStatus, taskSubject>>
      BY <1>10 DEF CallFails
  <2>2. \A b \in Analyses, n \in Attempts : found'[b][n] = found[b][n] \/ found'[b][n] = None
      BY <2>1 DEF ForgetCall, TypeInv, TypeOK
  <2>3. \A b \in Analyses \ {a} : callPc'[b] = callPc[b] /\ found'[b] = found[b] /\ pc'[b] = pc[b]
      BY <2>1 DEF ForgetCall, TypeInv, TypeOK
  <2>4. pc'[a] = "answer"
      BY <2>1 DEF TypeInv, TypeOK
  <2> QED
      BY <2>1, <2>2, <2>3, <2>4, CitationsCopied
<1>11. ASSUME NEW a \in Analyses, NEW n \in Attempts, AbandonedCallDies(a, n) PROVE CitationsAgree'
  <2>1. /\ pc[a] = "raising" /\ ForgetCall(a, n)
        /\ UNCHANGED <<pc, cites, raised, subject, taskStatus, taskSubject>>
      BY <1>11 DEF AbandonedCallDies
  <2>2. \A b \in Analyses, k \in Attempts : found'[b][k] = found[b][k] \/ found'[b][k] = None
      BY <2>1 DEF ForgetCall, TypeInv, TypeOK
  <2>3. \A b \in Analyses \ {a} : callPc'[b] = callPc[b] /\ found'[b] = found[b]
      BY <2>1 DEF ForgetCall, TypeInv, TypeOK
  <2> QED
      BY <2>1, <2>2, <2>3, CitationsCopied
<1>12. ASSUME NEW r \in Requests, NEW t \in Tasks, CheckTask(r, t) \/ RefuseTask(r, t) PROVE CitationsAgree'
    BY <1>12 DEF CheckTask, RefuseTask, CitationsAgree, IsAbout
<1>13. ASSUME NEW r \in Requests, ResolveStep(r) PROVE CitationsAgree'
  <2>1. ASSUME NEW a \in Analyses, NEW b \in Analyses, StartRerun(r, a, b) PROVE CitationsAgree'
      BY <1>1, <2>1 DEF StartRerun
  <2>2. CASE LockTask(r) \/ FindBlocked(r) \/ FinishResolve(r)
      BY <2>2 DEF LockTask, FindBlocked, FinishResolve, CitationsAgree, IsAbout
  <2>3. CASE CommitDecision(r)
    <3>1. \A t \in Tasks : taskStatus[t] # "absent" => taskStatus'[t] # "absent"
        BY <2>3 DEF CommitDecision, TypeInv, TypeOK
    <3> QED
        BY <2>3, <3>1, CitationsCopied DEF CommitDecision
  <2> QED
      BY <1>13, <2>1, <2>2, <2>3 DEF ResolveStep
<1>14. ASSUME NEW r \in Requests, RequestKilled(r) PROVE CitationsAgree'
  <2> DEFINE killed == {a \in Analyses : request[a] = r /\ pc[a] \in Running}
  <2>1. /\ pc' = [a \in Analyses |-> IF a \in killed THEN "killed" ELSE pc[a]]
        /\ callPc' = [a \in Analyses |-> IF a \in killed THEN [n \in Attempts |-> "idle"] ELSE callPc[a]]
        /\ found' = [a \in Analyses |-> IF a \in killed THEN [n \in Attempts |-> None] ELSE found[a]]
        /\ UNCHANGED <<cites, raised, subject, taskStatus, taskSubject>>
      BY <1>14 DEF RequestKilled
  <2> QED
      BY <2>1, CitationsCopied
<1>15. CASE UNCHANGED vars
    BY <1>15 DEF vars, CitationsAgree, IsAbout
<1> QED
    BY <1>2, <1>3, <1>4, <1>5, <1>6, <1>7, <1>8, <1>9, <1>10, <1>11, <1>12, <1>13, <1>14, <1>15
    DEF Next, RunStep, RunFault

Reviewed == {"needs_human_review", "complete"}
Saved == Reviewed \cup {"failed"}

\* A re-run replaces an older analysis that had been left in review; an analysis that
\* is superseded is settled, and what supersedes it has returned.
SupersedeInv ==
  /\ \A a \in Analyses : /\ pc[a] \in Running => status[a] = "running"
                         /\ pc[a] = "returned" => status[a] \in Saved
  /\ \A b \in Analyses : original[b] # NoAnalysis => original[b] < b /\ status[original[b]] \in Reviewed
  /\ \A r \in Requests : \A a \in blocked[r] : status[a] \in Reviewed
  /\ \A a \in Analyses : supersededBy[a] # NoAnalysis =>
       status[a] = "complete" /\ original[supersededBy[a]] = a /\ pc[supersededBy[a]] = "returned"

supersedeVars == <<status, supersededBy, original, blocked, pc>>

\* Nothing is superseded initially.
LEMMA InitSupersede == Init => SupersedeInv
BY DEF Init, SupersedeInv, Running

\* Steps inside a run change its pc only from one running step to the next.
LEMMA SupersedeFrame ==
  ASSUME TypeInv, SupersedeInv, UNCHANGED <<status, supersededBy, original>>,
         \A r \in Requests : blocked'[r] = blocked[r] \/ blocked'[r] = {},
         \A a \in Analyses : pc'[a] = pc[a] \/ (pc[a] \in Running /\ pc'[a] \in Running \cup {"threw", "killed"})
  PROVE  SupersedeInv'
<1>1. \A a \in Analyses : /\ pc'[a] \in Running => pc[a] \in Running
                          /\ pc[a] = "returned" <=> pc'[a] = "returned"
    BY DEF Running
<1>2. \A a \in Analyses : supersededBy[a] # NoAnalysis => supersededBy[a] \in Analyses
    BY DEF TypeInv, TypeOK
<1> QED
    BY <1>1, <1>2 DEF SupersedeInv

\* A new row is newer than every row it can replace.
LEMMA SupersedeBegin ==
  ASSUME TypeInv, RerunInv, SupersedeInv, NEW a \in Analyses, NEW o \in Analyses \cup {NoAnalysis}, NEW r,
         BeginRun(a, o, r), o # NoAnalysis => status[o] \in Reviewed,
         \A q \in Requests : blocked'[q] \subseteq blocked[q]
  PROVE  SupersedeInv'
<1>1. /\ status[a] = "absent" /\ \A b \in Analyses : status[b] = "absent" <=> b >= a
      /\ status' = [status EXCEPT ![a] = "running"] /\ pc' = [pc EXCEPT ![a] = "graph"]
      /\ original' = [original EXCEPT ![a] = o] /\ UNCHANGED supersededBy
    BY BoundsAssumption DEF BeginRun
<1>2. pc[a] = "unused" /\ supersededBy[a] = NoAnalysis
    BY <1>1 DEF RerunInv, UnusedAnalysisIsBlank
<1>3. /\ status'[a] = "running" /\ pc'[a] = "graph" /\ original'[a] = o
      /\ \A b \in Analyses \ {a} : status'[b] = status[b] /\ pc'[b] = pc[b] /\ original'[b] = original[b]
    BY <1>1 DEF TypeInv, TypeOK
<1>4. o # NoAnalysis => o < a /\ o # a
    BY <1>1, BoundsAssumption DEF Reviewed
<1>5. \A b \in Analyses : status[b] \in Reviewed => b # a /\ status'[b] = status[b]
    BY <1>1, <1>3 DEF Reviewed
<1>6. \A b \in Analyses : /\ pc'[b] \in Running => status'[b] = "running"
                          /\ pc'[b] = "returned" => status'[b] \in Saved
    BY <1>3 DEF SupersedeInv
<1>7. \A b \in Analyses : original'[b] # NoAnalysis => original'[b] < b /\ status'[original'[b]] \in Reviewed
    BY <1>3, <1>4, <1>5 DEF SupersedeInv, TypeInv, TypeOK
<1>8. \A q \in Requests : \A b \in blocked'[q] : status'[b] \in Reviewed
    BY <1>5 DEF SupersedeInv, TypeInv, TypeOK
<1>9. ASSUME NEW b \in Analyses, supersededBy[b] # NoAnalysis
      PROVE  status'[b] = "complete" /\ original'[supersededBy[b]] = b /\ pc'[supersededBy[b]] = "returned"
  <2>1. supersededBy[b] \in Analyses \ {a} /\ b # a
      BY <1>1, <1>2, <1>9 DEF SupersedeInv, TypeInv, TypeOK
  <2> QED
      BY <1>3, <1>9, <2>1 DEF SupersedeInv
<1> QED
    BY <1>1, <1>6, <1>7, <1>8, <1>9 DEF SupersedeInv

\* A run that ends with a saved result.
LEMMA SupersedeSave ==
  ASSUME TypeInv, SupersedeInv, NEW a \in Analyses, NEW end \in Saved,
         pc[a] \in Running, status' = [status EXCEPT ![a] = end], pc' = [pc EXCEPT ![a] = "returned"],
         UNCHANGED <<supersededBy, original, blocked>>
  PROVE  SupersedeInv'
<1>1. /\ status'[a] = end /\ pc'[a] = "returned"
      /\ \A b \in Analyses \ {a} : status'[b] = status[b] /\ pc'[b] = pc[b]
    BY DEF TypeInv, TypeOK
<1>2. \A b \in Analyses : status[b] \in Reviewed => b # a /\ status'[b] = status[b]
    BY <1>1 DEF SupersedeInv, Reviewed
<1>3. \A b \in Analyses : supersededBy[b] # NoAnalysis => supersededBy[b] \in Analyses /\ pc'[supersededBy[b]] = "returned"
    BY <1>1 DEF SupersedeInv, TypeInv, TypeOK
<1>4. \A b \in Analyses : original[b] # NoAnalysis => original[b] \in Analyses
    BY DEF TypeInv, TypeOK
<1>5. \A r \in Requests : blocked[r] \subseteq Analyses
    BY DEF TypeInv, TypeOK
<1> QED
    BY <1>1, <1>2, <1>3, <1>4, <1>5 DEF SupersedeInv, Running, Reviewed

\* A request supersedes its originals by re-runs that returned.
LEMMA SupersedeFinish ==
  ASSUME TypeInv, SupersedeInv, NEW r \in Requests, FinishResolve(r)
  PROVE  SupersedeInv'
<1>1. /\ status' = [a \in Analyses |-> IF RerunOf(r, a) # {} THEN "complete" ELSE status[a]]
      /\ supersededBy' = [a \in Analyses |-> IF RerunOf(r, a) # {} THEN CHOOSE b \in RerunOf(r, a) : TRUE
                                             ELSE supersededBy[a]]
      /\ UNCHANGED <<pc, original, blocked>>
    BY DEF FinishResolve, runVars
<1>2. \A a, b \in Analyses : b \in RerunOf(r, a) => original[b] = a /\ pc[b] = "returned" /\ status[a] \in Reviewed
    BY DEF RerunOf, SupersedeInv
<1>3. \A a \in Analyses : RerunOf(r, a) # {} => supersededBy'[a] \in RerunOf(r, a) /\ RerunOf(r, a) \subseteq Analyses
    BY <1>1 DEF RerunOf
<1>4. \A a \in Analyses : status'[a] = status[a] \/ (status[a] \in Reviewed /\ status'[a] = "complete")
    BY <1>1, <1>2 DEF RerunOf
<1>5. \A a \in Analyses : pc[a] \in Running => status'[a] = "running"
    BY <1>4 DEF SupersedeInv, Reviewed
<1>6. \A a \in Analyses : pc[a] = "returned" => status'[a] \in Saved
    BY <1>4 DEF SupersedeInv, Saved, Reviewed
<1>7. \A a \in Analyses : original[a] # NoAnalysis => original[a] < a /\ status'[original[a]] \in Reviewed
    BY <1>4 DEF SupersedeInv, Reviewed, TypeInv, TypeOK
<1>8. \A q \in Requests : \A a \in blocked[q] : status'[a] \in Reviewed
    BY <1>4 DEF SupersedeInv, Reviewed, TypeInv, TypeOK
<1>9. \A a \in Analyses : supersededBy'[a] # NoAnalysis =>
        status'[a] = "complete" /\ original[supersededBy'[a]] = a /\ pc[supersededBy'[a]] = "returned"
    BY <1>1, <1>2, <1>3 DEF SupersedeInv
<1> QED
    BY <1>1, <1>5, <1>6, <1>7, <1>8, <1>9 DEF SupersedeInv

\* Every step keeps superseded analyses settled and replaced by saved ones.
LEMMA StepSupersede == TypeInv /\ RerunInv /\ SupersedeInv /\ [Next]_vars => SupersedeInv'
<1> SUFFICES ASSUME TypeInv, RerunInv, SupersedeInv, [Next]_vars PROVE SupersedeInv'
    OBVIOUS
<1> USE DEF analysisTable, runVars, reqVars
<1>1. ASSUME NEW a \in Analyses, StartAnalysis(a) PROVE SupersedeInv'
    BY <1>1, SupersedeBegin DEF StartAnalysis
<1>2. ASSUME NEW a \in Analyses, RunStep(a) PROVE SupersedeInv'
  <2>1. CASE SaveResult(a)
    <3>1. pc[a] \in Running /\ UNCHANGED <<supersededBy, original, blocked>>
        BY <2>1 DEF SaveResult, EndRun, Running
    <3> QED
        BY <2>1, <3>1, SupersedeSave DEF SaveResult, EndRun, Saved, Reviewed
  <2>2. CASE DetectConflict(a) \/ GroundingFails(a)
      BY <2>2, SupersedeFrame DEF DetectConflict, GroundingFails, Escalate, Running, TypeInv, TypeOK
  <2>3. CASE NothingToReview(a) \/ ReceiveReply(a)
      BY <2>3, SupersedeFrame DEF NothingToReview, ReceiveReply, Running, TypeInv, TypeOK
  <2>4. CASE \E n \in Attempts : ServeCall(a, n)
      BY <2>4, SupersedeFrame DEF ServeCall, LookUpTask, AttachTask, InsertTask
  <2> QED
      BY <1>2, <2>1, <2>2, <2>3, <2>4 DEF RunStep
<1>3. ASSUME NEW a \in Analyses, RunFault(a) PROVE SupersedeInv'
  <2>1. CASE SaveFailure(a)
      BY <2>1, SupersedeSave DEF SaveFailure, EndRun, Saved
  <2>2. CASE RunThrows(a) \/ RunKilled(a)
      BY <2>2, SupersedeFrame DEF RunThrows, RunKilled, EndRun, TypeInv, TypeOK
  <2>3. CASE CallTimesOut(a) \/ \E n \in Attempts : AbandonedCallDies(a, n)
      BY <2>3, SupersedeFrame DEF CallTimesOut, AbandonedCallDies
  <2>4. CASE LastCallTimesOut(a) \/ CallFails(a)
      BY <2>4, SupersedeFrame DEF LastCallTimesOut, CallFails, Running, TypeInv, TypeOK
  <2> QED
      BY <1>3, <2>1, <2>2, <2>3, <2>4 DEF RunFault
<1>4. ASSUME NEW r \in Requests, NEW t \in Tasks, CheckTask(r, t) \/ RefuseTask(r, t) PROVE SupersedeInv'
    BY <1>4, SupersedeFrame DEF CheckTask, RefuseTask
<1>5. ASSUME NEW r \in Requests, ResolveStep(r) PROVE SupersedeInv'
  <2>1. ASSUME NEW a \in Analyses, NEW b \in Analyses, StartRerun(r, a, b) PROVE SupersedeInv'
    <3>1. status[a] \in Reviewed /\ \A q \in Requests : blocked'[q] \subseteq blocked[q]
        BY <2>1 DEF StartRerun, SupersedeInv, TypeInv, TypeOK
    <3> QED
        BY <2>1, <3>1, SupersedeBegin DEF StartRerun
  <2>2. CASE LockTask(r) \/ CommitDecision(r)
      BY <2>2, SupersedeFrame DEF LockTask, CommitDecision
  <2>3. CASE FindBlocked(r)
    <3>1. blocked' = [blocked EXCEPT ![r] = BlockedAnalyses(r)] /\ UNCHANGED <<status, supersededBy, original, pc>>
        BY <2>3 DEF FindBlocked
    <3>2. \A a \in BlockedAnalyses(r) : status[a] \in Reviewed
        BY DEF BlockedAnalyses, Newest, Pending, Reviewed
    <3> QED
        BY <3>1, <3>2 DEF SupersedeInv, TypeInv, TypeOK
  <2> QED
      BY <1>5, <2>1, <2>2, <2>3, SupersedeFinish DEF ResolveStep
<1>6. ASSUME NEW r \in Requests, RequestKilled(r) PROVE SupersedeInv'
    BY <1>6, SupersedeFrame DEF RequestKilled, TypeInv, TypeOK
<1>7. CASE UNCHANGED vars
    BY <1>7, SupersedeFrame DEF vars
<1> QED
    BY <1>1, <1>2, <1>3, <1>4, <1>5, <1>6, <1>7 DEF Next

(***************************************************************************)
(* The theorems.                                                           *)
(***************************************************************************)
IInv == TypeInv /\ RerunInv /\ RecordInv /\ CitationsAgree /\ SupersedeInv

\* What supersedes an analysis is newer and was saved.
LEMMA SupersedeImpliesProperty == TypeInv /\ SupersedeInv => SupersededBySavedRun
<1> SUFFICES ASSUME TypeInv, SupersedeInv, NEW a \in Analyses, supersededBy[a] # NoAnalysis
             PROVE  /\ status[a] = "complete" /\ supersededBy[a] > a /\ original[supersededBy[a]] = a
                    /\ status[supersededBy[a]] \in Saved
    BY DEF SupersededBySavedRun, Saved, Reviewed
<1>1. supersededBy[a] \in Analyses /\ original[supersededBy[a]] = a /\ pc[supersededBy[a]] = "returned"
    BY DEF TypeInv, TypeOK, SupersedeInv
<1>2. a < supersededBy[a]
    BY <1>1 DEF SupersedeInv
<1> QED
    BY <1>1, <1>2, BoundsAssumption DEF SupersedeInv

\* The strengthening of all the properties below is an invariant of the specification.
THEOREM Invariance == Spec => []IInv
<1>1. Init => IInv
    BY InitType, InitRerun, InitRecord, InitCitations, InitSupersede DEF IInv
<1>2. IInv /\ [Next]_vars => IInv'
    BY StepType, StepRerun, StepRecord, StepCitations, StepSupersede DEF IInv
<1> QED
    BY <1>1, <1>2, PTL DEF Spec

\* Every column of every table keeps its type: for any number of analyses, tasks,
\* requests, attempts and faults, no step of a run, a call or a request leaves it.
THEOREM TypeCorrect == Spec => []TypeOK
<1>1. IInv => TypeOK
    BY DEF IInv, TypeInv
<1> QED
    BY <1>1, Invariance, PTL

\* resolve commits before it resumes, so no re-run ever ends up on the task whose
\* resolution started it, whatever else runs, times out or is killed meanwhile.
THEOREM RerunsSeeTheDecision == Spec => []RerunNeverBlocksOnItsTask
<1>1. IInv => RerunNeverBlocksOnItsTask
    BY DEF IInv, RerunInv
<1> QED
    BY <1>1, Invariance, PTL

\* Any number of requests may resolve one task at once: the row lock held from the
\* first flush to the commit leaves at most one current record for it.
THEOREM RecordsAreSuperseded == Spec => []OneCurrentRecordPerTask
<1>1. IInv => OneCurrentRecordPerTask
    BY DEF IInv, RecordInv
<1> QED
    BY <1>1, Invariance, PTL

\* Superseding never leaves a verified fact without a current record, even when
\* duplicate tasks about it are resolved at once.
THEOREM VerifiedFactStaysVerified == Spec => []CurrentRecordSurvives
<1>1. IInv => CurrentRecordSurvives
    BY DEF IInv, RecordInv
<1> QED
    BY <1>1, Invariance, PTL

\* A stored result only sends the traveller to a stored task about what it disputes,
\* for any number of concurrent, abandoned and repeated calls.
THEOREM CitationsAreRight == Spec => []CitedTaskIsAboutTheAnalysis
<1>1. IInv => CitedTaskIsAboutTheAnalysis
    BY DEF IInv, CitationsAgree, IsAbout, CitedTaskIsAboutTheAnalysis
<1> QED
    BY <1>1, Invariance, PTL

\* superseded_by always leads from a settled analysis to a newer saved one.
THEOREM SupersededIsReplaced == Spec => []SupersededBySavedRun
<1>1. IInv => SupersededBySavedRun
    BY SupersedeImpliesProperty DEF IInv
<1> QED
    BY <1>1, Invariance, PTL

(***************************************************************************)
(* HumanReview implements ReviewPromise.                                   *)
(*                                                                         *)
(* A step of the tables, the runs and the requests is one of the promise,  *)
(* or none. The hard case is the end of a resolve request: that what it    *)
(* releases waited for the very subject it decided, through a task id the  *)
(* request read, or the name of an analysis the task held, long before.    *)
(* PromiseInv says so; Steady is what no step ever changes about it.       *)
(***************************************************************************)

(***************************************************************************)
(* What a request is about.                                                *)
(***************************************************************************)
\* What an analysis disputes is settled once its graph has asked for a review.
Asked(a) == pc[a] \notin {"unused", "graph"}
Asks(a, t) == Asked(a) /\ IsAbout(t, a)

\* It waits, or has been released.
Held(a) == status[a] = "needs_human_review" \/ supersededBy[a] # NoAnalysis

\* A request has read its task, and that is the task the analysis waits for.
Concerns(r, a) == reqPc[r] # "idle" /\ Asks(a, reqTask[r])

\* Only what has a subject is asked about, and every task has one.
SubjectsKnown ==
  /\ \A a \in Analyses, n \in Attempts : callPc[a][n] # "idle" => subject[a] # None
  /\ \A a \in Analyses : pc[a] = "raising" => subject[a] # None
  /\ \A t \in Tasks : taskStatus[t] # "absent" => taskSubject[t] # None

\* The analysis a task names disputes what the task is about, and so do all those
\* a request has still to re-run, or has re-run.
TasksNameTheirOwn == \A t \in Tasks : taskAnalysis[t] # NoAnalysis => Asks(taskAnalysis[t], t)
NamedIsConcerned == \A r \in Requests : named[r] # NoAnalysis => Concerns(r, named[r])
BlockedIsConcerned == \A r \in Requests : \A a \in blocked[r] : Held(a) /\ Concerns(r, a)
OriginalIsConcerned ==
  \A b \in Analyses : original[b] # NoAnalysis =>
    request[b] # None /\ Held(original[b]) /\ Concerns(request[b], original[b])

PromiseInv ==
  SubjectsKnown /\ TasksNameTheirOwn /\ NamedIsConcerned /\ BlockedIsConcerned /\ OriginalIsConcerned

\* Nothing is asked initially, and the seeded tasks are about facts.
LEMMA InitPromise == Init => PromiseInv
<1> SUFFICES ASSUME Init PROVE PromiseInv
    OBVIOUS
<1> USE NamesAssumption DEF Init
<1>1. \A t \in Tasks : taskStatus[t] # "absent" => taskSubject[t] # None
    OBVIOUS
<1>2. SubjectsKnown
    BY <1>1 DEF SubjectsKnown
<1> QED
    BY <1>2 DEF PromiseInv, TasksNameTheirOwn, NamedIsConcerned, BlockedIsConcerned, OriginalIsConcerned

(***************************************************************************)
(* What no step changes.                                                   *)
(***************************************************************************)
TasksSteady == \A t \in Tasks :
  taskStatus[t] # "absent" => taskStatus'[t] # "absent" /\ taskSubject'[t] = taskSubject[t]
RequestsSteady == \A r \in Requests : reqPc[r] # "idle" => reqPc'[r] # "idle" /\ reqTask'[r] = reqTask[r]
SubjectsSteady == \A a \in Analyses : Asked(a) => Asked(a)' /\ subject'[a] = subject[a]
HeldSteady == \A a \in Analyses : Held(a) => Held(a)'
Steady == TasksSteady /\ RequestsSteady /\ SubjectsSteady /\ HeldSteady

\* A row that is only now inserted has asked for nothing and holds nothing.
LEMMA SteadyBegin ==
  ASSUME TypeInv, RerunInv, NEW a \in Analyses, NEW o, NEW r, BeginRun(a, o, r)
  PROVE  SubjectsSteady /\ HeldSteady
<1>1. /\ status[a] = "absent" /\ pc[a] = "unused" /\ supersededBy[a] = NoAnalysis
      /\ status' = [status EXCEPT ![a] = "running"] /\ pc' = [pc EXCEPT ![a] = "graph"]
      /\ UNCHANGED <<supersededBy, subject>>
    BY BoundsAssumption DEF BeginRun, RerunInv, UnusedAnalysisIsBlank
<1> QED
    BY <1>1 DEF SubjectsSteady, HeldSteady, Asked, Held, TypeInv, TypeOK

\* A run that ends keeps its subject, and what is held stays so.
LEMMA SteadyEnd ==
  ASSUME TypeInv, SupersedeInv, NEW a \in Analyses, NEW end \in {"returned", "threw", "killed"},
         pc[a] \in Running, EndRun(a, end), \A b \in Analyses \ {a} : status'[b] = status[b]
  PROVE  Steady
<1>1. /\ pc' = [pc EXCEPT ![a] = end]
      /\ UNCHANGED <<supersededBy, taskStatus, taskSubject, subject, reqPc, reqTask>>
    BY DEF EndRun, taskTable, reqVars
<1>2. ~Held(a)
    BY DEF SupersedeInv, Held
<1>3. SubjectsSteady
    BY <1>1 DEF SubjectsSteady, Asked, TypeInv, TypeOK
<1>4. HeldSteady
    BY <1>1, <1>2 DEF HeldSteady, Held
<1> QED
    BY <1>1, <1>3, <1>4 DEF Steady, TasksSteady, RequestsSteady

\* Every step is steady.
LEMMA StepSteady == TypeInv /\ RerunInv /\ SupersedeInv /\ [Next]_vars => Steady
<1> SUFFICES ASSUME TypeInv, RerunInv, SupersedeInv, [Next]_vars PROVE Steady
    OBVIOUS
<1> USE DEF analysisTable, taskTable, runVars, reqVars
<1>1. ASSUME NEW a \in Analyses, StartAnalysis(a) PROVE Steady
    BY <1>1, SteadyBegin DEF StartAnalysis, Steady, TasksSteady, RequestsSteady
<1>2. ASSUME NEW a \in Analyses, RunStep(a) PROVE Steady
  <2>1. CASE DetectConflict(a) \/ GroundingFails(a)
    <3>1. /\ pc[a] = "graph" /\ pc' = [pc EXCEPT ![a] = "raising"]
          /\ \A b \in Analyses \ {a} : subject'[b] = subject[b]
          /\ UNCHANGED <<status, supersededBy, taskStatus, taskSubject, reqPc, reqTask>>
        BY <2>1 DEF DetectConflict, GroundingFails, Escalate, TypeInv, TypeOK
    <3> QED
        BY <3>1 DEF Steady, TasksSteady, RequestsSteady, SubjectsSteady, HeldSteady, Asked, Held, TypeInv, TypeOK
  <2>2. CASE NothingToReview(a) \/ ReceiveReply(a)
      BY <2>2 DEF NothingToReview, ReceiveReply,
         Steady, TasksSteady, RequestsSteady, SubjectsSteady, HeldSteady, Asked, Held, TypeInv, TypeOK
  <2>3. CASE SaveResult(a)
      BY <2>3, SteadyEnd DEF SaveResult, Running, TypeInv, TypeOK
  <2>4. CASE \E n \in Attempts : LookUpTask(a, n) \/ AttachTask(a, n)
      BY <2>4 DEF LookUpTask, AttachTask, Steady, TasksSteady, RequestsSteady, SubjectsSteady, HeldSteady, Asked, Held
  <2>5. ASSUME NEW n \in Attempts, InsertTask(a, n) PROVE Steady
    <3>1. TasksSteady
        BY <2>5 DEF InsertTask, TasksSteady, TypeInv, TypeOK
    <3> QED
        BY <2>5, <3>1 DEF InsertTask, Steady, RequestsSteady, SubjectsSteady, HeldSteady, Asked, Held
  <2> QED
      BY <1>2, <2>1, <2>2, <2>3, <2>4, <2>5 DEF RunStep, ServeCall
<1>3. ASSUME NEW a \in Analyses, RunFault(a) PROVE Steady
  <2>1. CASE SaveFailure(a) \/ RunThrows(a) \/ RunKilled(a)
      BY <2>1, SteadyEnd DEF SaveFailure, RunThrows, RunKilled, TypeInv, TypeOK
  <2>2. CASE CallTimesOut(a) \/ \E n \in Attempts : AbandonedCallDies(a, n)
      BY <2>2 DEF CallTimesOut, AbandonedCallDies,
         Steady, TasksSteady, RequestsSteady, SubjectsSteady, HeldSteady, Asked, Held
  <2>3. CASE LastCallTimesOut(a) \/ CallFails(a)
      BY <2>3 DEF LastCallTimesOut, CallFails,
         Steady, TasksSteady, RequestsSteady, SubjectsSteady, HeldSteady, Asked, Held, TypeInv, TypeOK
  <2> QED
      BY <1>3, <2>1, <2>2, <2>3 DEF RunFault
<1>4. ASSUME NEW r \in Requests, NEW t \in Tasks, CheckTask(r, t) \/ RefuseTask(r, t) PROVE Steady
    BY <1>4 DEF CheckTask, RefuseTask,
       Steady, TasksSteady, RequestsSteady, SubjectsSteady, HeldSteady, Asked, Held, TypeInv, TypeOK
<1>5. ASSUME NEW r \in Requests, ResolveStep(r) PROVE Steady
  <2>1. CASE LockTask(r) \/ FindBlocked(r)
      BY <2>1 DEF LockTask, FindBlocked,
         Steady, TasksSteady, RequestsSteady, SubjectsSteady, HeldSteady, Asked, Held, TypeInv, TypeOK
  <2>2. CASE CommitDecision(r)
    <3>1. TasksSteady /\ RequestsSteady
        BY <2>2 DEF CommitDecision, TasksSteady, RequestsSteady, TypeInv, TypeOK
    <3> QED
        BY <2>2, <3>1 DEF CommitDecision, Steady, SubjectsSteady, HeldSteady, Asked, Held
  <2>3. CASE FinishResolve(r)
    <3>1. /\ status' = [a \in Analyses |-> IF RerunOf(r, a) # {} THEN "complete" ELSE status[a]]
          /\ supersededBy' = [a \in Analyses |-> IF RerunOf(r, a) # {} THEN CHOOSE b \in RerunOf(r, a) : TRUE
                                                 ELSE supersededBy[a]]
          /\ reqPc' = [reqPc EXCEPT ![r] = "done"]
          /\ UNCHANGED <<taskStatus, taskSubject, reqTask, pc, subject>>
        BY <2>3 DEF FinishResolve
    <3>2. \A a \in Analyses : RerunOf(r, a) # {} => supersededBy'[a] \in Analyses
        BY <3>1 DEF RerunOf
    <3>3. HeldSteady
        BY <3>1, <3>2 DEF HeldSteady, Held
    <3> QED
        BY <3>1, <3>3 DEF Steady, TasksSteady, RequestsSteady, SubjectsSteady, Asked, TypeInv, TypeOK
  <2>4. ASSUME NEW a \in Analyses, NEW b \in Analyses, StartRerun(r, a, b) PROVE Steady
      BY <2>4, SteadyBegin DEF StartRerun, Steady, TasksSteady, RequestsSteady
  <2> QED
      BY <1>5, <2>1, <2>2, <2>3, <2>4 DEF ResolveStep
<1>6. ASSUME NEW r \in Requests, RequestKilled(r) PROVE Steady
  <2>1. /\ \A a \in Analyses : pc'[a] = pc[a] \/ (pc'[a] = "killed" /\ pc[a] \in Running)
        /\ reqPc' = [reqPc EXCEPT ![r] = IF @ \in Deciding THEN "aborted" ELSE "stopped"]
        /\ UNCHANGED <<status, supersededBy, taskStatus, taskSubject, reqTask, subject>>
      BY <1>6 DEF RequestKilled
  <2> QED
      BY <2>1 DEF Steady, TasksSteady, RequestsSteady, SubjectsSteady, HeldSteady, Asked, Held, TypeInv, TypeOK
<1>7. CASE UNCHANGED vars
    BY <1>7 DEF vars, Steady, TasksSteady, RequestsSteady, SubjectsSteady, HeldSteady, Asked, Held
<1> QED
    BY <1>1, <1>2, <1>3, <1>4, <1>5, <1>6, <1>7 DEF Next

\* What an analysis and a task, or a request, agree on lasts.
LEMMA AsksLasts ==
  ASSUME TypeInv, Steady, NEW a \in Analyses, NEW t \in Tasks, Asks(a, t)
  PROVE  Asks(a, t)'
BY DEF Steady, TasksSteady, SubjectsSteady, Asks, IsAbout

\* A request turns to one task only, so it stays concerned with what it found.
LEMMA ConcernsLasts ==
  ASSUME TypeInv, RerunInv, Steady, NEW a \in Analyses, NEW r \in Requests, Concerns(r, a)
  PROVE  Concerns(r, a)'
<1>1. reqTask[r] \in Tasks /\ reqTask'[r] = reqTask[r] /\ reqPc'[r] # "idle"
    BY DEF Concerns, RerunInv, RequestKnowsItsTask, Steady, RequestsSteady
<1> QED
    BY <1>1, AsksLasts DEF Concerns, Asks, IsAbout

\* Every step asks only about what has a subject.
LEMMA StepSubjects == TypeInv /\ RerunInv /\ SubjectsKnown /\ [Next]_vars => SubjectsKnown'
<1> SUFFICES ASSUME TypeInv, RerunInv, SubjectsKnown, [Next]_vars PROVE SubjectsKnown'
    OBVIOUS
<1> USE NamesAssumption, BoundsAssumption DEF SubjectsKnown, taskTable, callVars, runVars, reqVars
<1>1. ASSUME NEW a \in Analyses, NEW o, NEW r, BeginRun(a, o, r), UNCHANGED <<taskTable, callVars>>
      PROVE SubjectsKnown'
    BY <1>1 DEF BeginRun, TypeInv, TypeOK
<1>2. ASSUME NEW a \in Analyses, NEW s \in Subjects, Escalate(a, s) PROVE SubjectsKnown'
    BY <1>2 DEF Escalate, TypeInv, TypeOK
<1>3. ASSUME NEW a \in Analyses, NEW end \in {"returned", "threw", "killed"}, EndRun(a, end) PROVE SubjectsKnown'
    BY <1>3 DEF EndRun, CancelCalls, TypeInv, TypeOK
<1>4. ASSUME NEW a \in Analyses, RunStep(a) PROVE SubjectsKnown'
  <2>1. CASE DetectConflict(a) \/ GroundingFails(a)
      BY <2>1, <1>2 DEF DetectConflict, GroundingFails
  <2>2. CASE NothingToReview(a) \/ ReceiveReply(a)
      BY <2>2 DEF NothingToReview, ReceiveReply, TypeInv, TypeOK
  <2>3. CASE SaveResult(a)
      BY <2>3, <1>3 DEF SaveResult
  <2>4. ASSUME NEW n \in Attempts, LookUpTask(a, n) \/ AttachTask(a, n) PROVE SubjectsKnown'
      BY <2>4 DEF LookUpTask, AttachTask, TypeInv, TypeOK
  <2>5. ASSUME NEW n \in Attempts, InsertTask(a, n) PROVE SubjectsKnown'
      BY <2>5 DEF InsertTask, TypeInv, TypeOK
  <2> QED
      BY <1>4, <2>1, <2>2, <2>3, <2>4, <2>5 DEF RunStep, ServeCall
<1>5. ASSUME NEW a \in Analyses, RunFault(a) PROVE SubjectsKnown'
  <2>1. CASE SaveFailure(a) \/ RunThrows(a) \/ RunKilled(a)
      BY <2>1, <1>3 DEF SaveFailure, RunThrows, RunKilled
  <2>2. CASE CallTimesOut(a)
      BY <2>2 DEF CallTimesOut, TypeInv, TypeOK
  <2>3. CASE LastCallTimesOut(a)
      BY <2>3 DEF LastCallTimesOut, TypeInv, TypeOK
  <2>4. CASE CallFails(a)
      BY <2>4 DEF CallFails, ForgetCall, TypeInv, TypeOK
  <2>5. ASSUME NEW n \in Attempts, AbandonedCallDies(a, n) PROVE SubjectsKnown'
      BY <2>5 DEF AbandonedCallDies, ForgetCall, TypeInv, TypeOK
  <2> QED
      BY <1>5, <2>1, <2>2, <2>3, <2>4, <2>5 DEF RunFault
<1>6. ASSUME NEW r \in Requests, NEW t \in Tasks, CheckTask(r, t) \/ RefuseTask(r, t) PROVE SubjectsKnown'
    BY <1>6 DEF CheckTask, RefuseTask
<1>7. ASSUME NEW r \in Requests, ResolveStep(r) PROVE SubjectsKnown'
  <2>1. CASE LockTask(r) \/ FindBlocked(r) \/ FinishResolve(r)
      BY <2>1 DEF LockTask, FindBlocked, FinishResolve
  <2>2. CASE CommitDecision(r)
    <3>1. taskStatus[reqTask[r]] # "absent"
        BY <2>2 DEF CommitDecision, RerunInv, RequestKnowsItsTask
    <3> QED
        BY <2>2, <3>1 DEF CommitDecision, TypeInv, TypeOK
  <2>3. ASSUME NEW a \in Analyses, NEW b \in Analyses, StartRerun(r, a, b) PROVE SubjectsKnown'
      BY <2>3, <1>1 DEF StartRerun
  <2> QED
      BY <1>7, <2>1, <2>2, <2>3 DEF ResolveStep
<1>8. ASSUME NEW r \in Requests, RequestKilled(r) PROVE SubjectsKnown'
    BY <1>8 DEF RequestKilled, Running
<1>9. CASE UNCHANGED vars
    BY <1>9 DEF vars
<1> QED
    BY <1>1, <1>4, <1>5, <1>6, <1>7, <1>8, <1>9 DEF Next, StartAnalysis


\* What a task, a request or a re-run held already it may keep: only what is new has
\* to be argued for.
LEMMA TasksKeep ==
  ASSUME TypeInv, TasksNameTheirOwn, Steady,
         \A t \in Tasks : \/ taskAnalysis'[t] = taskAnalysis[t]
                          \/ \E a \in Analyses : taskAnalysis'[t] = a /\ Asks(a, t)'
  PROVE  TasksNameTheirOwn'
<1>1. \A t \in Tasks : taskAnalysis[t] # NoAnalysis => taskAnalysis[t] \in Analyses /\ Asks(taskAnalysis[t], t)
    BY DEF TypeInv, TypeOK, TasksNameTheirOwn
<1>2. \A a \in Analyses, t \in Tasks : Asks(a, t) => Asks(a, t)'
    BY AsksLasts
<1> QED
    BY <1>1, <1>2 DEF TasksNameTheirOwn, Asks, Asked, IsAbout

\* A request that still holds a name read it from its task.
LEMMA NamedKeep ==
  ASSUME TypeInv, RerunInv, NamedIsConcerned, Steady,
         \A r \in Requests : \/ named'[r] \in {named[r], NoAnalysis}
                             \/ \E a \in Analyses : named'[r] = a /\ Concerns(r, a)'
  PROVE  NamedIsConcerned'
<1>1. \A r \in Requests : named[r] # NoAnalysis => named[r] \in Analyses /\ Concerns(r, named[r])
    BY DEF TypeInv, TypeOK, NamedIsConcerned
<1>2. \A a \in Analyses, r \in Requests : Concerns(r, a) => Concerns(r, a)'
    BY ConcernsLasts
<1> QED
    BY <1>1, <1>2 DEF NamedIsConcerned, Concerns, Asks, Asked, IsAbout

\* An analysis that is to be re-run stays held until it is.
LEMMA BlockedKeep ==
  ASSUME TypeInv, RerunInv, BlockedIsConcerned, Steady,
         \A r \in Requests : \A a \in blocked'[r] :
           a \in blocked[r] \/ (a \in Analyses /\ Held(a) /\ Concerns(r, a))
  PROVE  BlockedIsConcerned'
<1>1. \A r \in Requests : \A a \in blocked'[r] : a \in Analyses /\ Held(a) /\ Concerns(r, a)
    BY DEF TypeInv, TypeOK, BlockedIsConcerned
<1>2. \A a \in Analyses, r \in Requests : Concerns(r, a) => Concerns(r, a)'
    BY ConcernsLasts
<1>3. \A a \in Analyses : Held(a) => Held(a)'
    BY DEF Steady, HeldSteady
<1> QED
    BY <1>1, <1>2, <1>3 DEF BlockedIsConcerned, Concerns, Asks, Asked, IsAbout, Held

\* What a re-run replaces stays held and of its request's concern.
LEMMA OriginalKeep ==
  ASSUME TypeInv, RerunInv, OriginalIsConcerned, Steady,
         \A b \in Analyses :
           \/ original'[b] = original[b] /\ request'[b] = request[b]
           \/ original'[b] = NoAnalysis
           \/ \E r \in Requests, a \in Analyses :
                original'[b] = a /\ request'[b] = r /\ Held(a) /\ Concerns(r, a)
  PROVE  OriginalIsConcerned'
<1>1. \A b \in Analyses : original'[b] # NoAnalysis =>
        /\ request'[b] \in Requests /\ original'[b] \in Analyses
        /\ Held(original'[b]) /\ Concerns(request'[b], original'[b])
  <2> SUFFICES ASSUME NEW b \in Analyses, original'[b] # NoAnalysis
               PROVE  /\ request'[b] \in Requests /\ original'[b] \in Analyses
                      /\ Held(original'[b]) /\ Concerns(request'[b], original'[b])
      OBVIOUS
  <2>1. CASE original'[b] = original[b] /\ request'[b] = request[b]
      BY <2>1 DEF TypeInv, TypeOK, OriginalIsConcerned
  <2>2. CASE \E r \in Requests, a \in Analyses :
               original'[b] = a /\ request'[b] = r /\ Held(a) /\ Concerns(r, a)
      BY <2>2
  <2> QED
      BY <2>1, <2>2
<1>2. \A a \in Analyses, r \in Requests : Concerns(r, a) => Concerns(r, a)'
    BY ConcernsLasts
<1>3. \A a \in Analyses : Held(a) => Held(a)'
    BY DEF Steady, HeldSteady
<1> QED
    BY <1>1, <1>2, <1>3, NamesAssumption DEF OriginalIsConcerned, Concerns, Asks, Asked, IsAbout, Held

concernVars == <<taskAnalysis, named, blocked, original, request>>

\* Most steps only have to be steady.
LEMMA ConcernFrame ==
  ASSUME TypeInv, RerunInv, PromiseInv, Steady, SubjectsKnown', UNCHANGED concernVars
  PROVE  PromiseInv'
BY TasksKeep, NamedKeep, BlockedKeep, OriginalKeep DEF PromiseInv, concernVars

\* A call attaches its analysis to a task it found, or inserted, for what it asked about.
LEMMA PromiseServe ==
  ASSUME TypeInv, RerunInv, CitationsAgree, PromiseInv, Steady, SubjectsKnown',
         NEW a \in Analyses, NEW n \in Attempts, AttachTask(a, n) \/ InsertTask(a, n)
  PROVE  PromiseInv'
<1>1. UNCHANGED <<named, blocked, original, request, pc, subject>>
    BY DEF AttachTask, InsertTask, runVars, reqVars
<1>2. Asked(a)
    BY DEF AttachTask, InsertTask, CitationsAgree, Asked
<1>3. \A t \in Tasks : \/ taskAnalysis'[t] = taskAnalysis[t]
                       \/ \E b \in Analyses : taskAnalysis'[t] = b /\ Asks(b, t)'
  <2>1. CASE AttachTask(a, n)
    <3>1. /\ found[a][n] # None
          /\ taskAnalysis' = IF attach[a][n] THEN [taskAnalysis EXCEPT ![found[a][n]] = a] ELSE taskAnalysis
          /\ UNCHANGED <<found, taskStatus, taskSubject>>
        BY <2>1 DEF AttachTask
    <3>2. found[a][n] \in Tasks
      <4>1. found \in [Analyses -> [Attempts -> Tasks \cup {None}]]
          BY DEF TypeInv, TypeOK
      <4> QED
          BY ONLY <3>1, <4>1
    <3>3. IsAbout(found[a][n], a)
        BY <3>1 DEF CitationsAgree
    <3>4. \A t \in Tasks : taskAnalysis'[t] = taskAnalysis[t] \/ (t = found[a][n] /\ taskAnalysis'[t] = a)
      <4>1. CASE attach[a][n]
          BY <3>1, <3>2, <4>1 DEF TypeInv, TypeOK
      <4>2. CASE ~attach[a][n]
          BY <3>1, <4>2
      <4> QED
          BY <4>1, <4>2
    <3> QED
        BY <1>1, <1>2, <3>1, <3>3, <3>4 DEF Asks, Asked, IsAbout
  <2>2. CASE InsertTask(a, n)
    <3>1. PICK t \in Tasks :
            /\ taskStatus' = [taskStatus EXCEPT ![t] = "open"]
            /\ taskSubject' = [taskSubject EXCEPT ![t] = subject[a]]
            /\ taskAnalysis' = [taskAnalysis EXCEPT ![t] = a]
        BY <2>2 DEF InsertTask
    <3>2. Asks(a, t)'
        BY <1>1, <1>2, <3>1 DEF Asks, Asked, IsAbout, TypeInv, TypeOK
    <3> QED
        BY <3>1, <3>2 DEF TypeInv, TypeOK
  <2> QED
      BY <2>1, <2>2
<1>4. TasksNameTheirOwn'
    BY <1>3, TasksKeep DEF PromiseInv
<1> QED
    BY <1>1, <1>4, NamedKeep, BlockedKeep, OriginalKeep DEF PromiseInv

\* A request reads the name its task holds ...
LEMMA PromiseCheck ==
  ASSUME TypeInv, RerunInv, PromiseInv, Steady, SubjectsKnown',
         NEW r \in Requests, NEW t \in Tasks, CheckTask(r, t)
  PROVE  PromiseInv'
<1>1. /\ reqPc'[r] # "idle" /\ reqTask'[r] = t /\ named'[r] = taskAnalysis[t]
      /\ \A q \in Requests \ {r} : named'[q] = named[q]
      /\ UNCHANGED <<pc, subject, taskStatus, taskSubject, taskAnalysis, blocked, original, request>>
    BY DEF CheckTask, TypeInv, TypeOK, runVars, taskTable
<1>2. taskAnalysis[t] # NoAnalysis => taskAnalysis[t] \in Analyses /\ Asks(taskAnalysis[t], t)
    BY DEF PromiseInv, TasksNameTheirOwn, TypeInv, TypeOK
<1>3. taskAnalysis[t] # NoAnalysis => Concerns(r, taskAnalysis[t])'
    BY <1>1, <1>2 DEF Concerns, Asks, Asked, IsAbout
<1>4. \A q \in Requests : \/ named'[q] \in {named[q], NoAnalysis}
                          \/ \E a \in Analyses : named'[q] = a /\ Concerns(q, a)'
    BY <1>1, <1>2, <1>3 DEF Concerns, Asks, Asked, IsAbout
<1>5. NamedIsConcerned'
    BY <1>4, NamedKeep DEF PromiseInv
<1> QED
    BY <1>1, <1>5, TasksKeep, BlockedKeep, OriginalKeep DEF PromiseInv

\* ... and finds, by that name and by citation, analyses that wait for its subject.
LEMMA PromiseFind ==
  ASSUME TypeInv, RerunInv, CitationsAgree, PromiseInv, Steady, SubjectsKnown',
         NEW r \in Requests, FindBlocked(r)
  PROVE  PromiseInv'
<1>1. /\ reqPc[r] = "committed" /\ blocked' = [blocked EXCEPT ![r] = BlockedAnalyses(r)]
      /\ named' = [named EXCEPT ![r] = NoAnalysis]
      /\ UNCHANGED <<taskAnalysis, original, request>>
    BY DEF FindBlocked, taskTable, runVars
<1>2. reqTask[r] \in Tasks /\ reqTask[r] # None
    BY <1>1, NamesAssumption DEF RerunInv, RequestKnowsItsTask
<1>3. ASSUME NEW a \in BlockedAnalyses(r) PROVE a \in Analyses /\ Held(a) /\ Concerns(r, a)
  <2>1. a \in Analyses /\ Held(a) /\ (a = named[r] \/ cites[a] = reqTask[r])
      BY <1>3 DEF BlockedAnalyses, Newest, Pending, Held
  <2>2. CASE a = named[r]
      BY <2>1, <2>2, BoundsAssumption DEF PromiseInv, NamedIsConcerned
  <2>3. CASE cites[a] = reqTask[r]
      BY <1>1, <1>2, <2>1, <2>3 DEF CitationsAgree, Concerns, Asks, Asked
  <2> QED
      BY <2>1, <2>2, <2>3
<1>4. \A q \in Requests : \A a \in blocked'[q] :
        a \in blocked[q] \/ (a \in Analyses /\ Held(a) /\ Concerns(q, a))
    BY <1>1, <1>3 DEF TypeInv, TypeOK
<1>5. \A q \in Requests : named'[q] \in {named[q], NoAnalysis}
    BY <1>1 DEF TypeInv, TypeOK
<1> QED
    BY <1>1, <1>4, <1>5, TasksKeep, NamedKeep, BlockedKeep, OriginalKeep DEF PromiseInv

\* A re-run replaces an analysis its request had found blocked.
LEMMA PromiseRerun ==
  ASSUME TypeInv, RerunInv, PromiseInv, Steady, SubjectsKnown',
         NEW r \in Requests, NEW a \in Analyses, NEW b \in Analyses, StartRerun(r, a, b)
  PROVE  PromiseInv'
<1>1. /\ Held(a) /\ Concerns(r, a)
      /\ original' = [original EXCEPT ![b] = a] /\ request' = [request EXCEPT ![b] = r]
      /\ blocked' = [blocked EXCEPT ![r] = @ \ {a}]
      /\ UNCHANGED <<taskAnalysis, named>>
    BY DEF StartRerun, BeginRun, PromiseInv, BlockedIsConcerned, taskTable
<1>2. \A q \in Requests : \A c \in blocked'[q] : c \in blocked[q]
    BY <1>1 DEF TypeInv, TypeOK
<1>3. \A c \in Analyses : \/ original'[c] = original[c] /\ request'[c] = request[c]
                          \/ original'[c] = a /\ request'[c] = r
    BY <1>1 DEF TypeInv, TypeOK
<1> QED
    BY <1>1, <1>2, <1>3, TasksKeep, NamedKeep, BlockedKeep, OriginalKeep DEF PromiseInv

\* Every step keeps PromiseInv.
LEMMA StepPromise ==
  TypeInv /\ RerunInv /\ CitationsAgree /\ SupersedeInv /\ PromiseInv /\ [Next]_vars => PromiseInv'
<1> SUFFICES ASSUME TypeInv, RerunInv, CitationsAgree, SupersedeInv, PromiseInv, [Next]_vars
             PROVE  PromiseInv'
    OBVIOUS
<1>0. Steady /\ SubjectsKnown'
    BY StepSteady, StepSubjects DEF PromiseInv
<1> USE <1>0, ConcernFrame DEF concernVars, taskTable, runVars, reqVars
<1>1. ASSUME NEW a \in Analyses, StartAnalysis(a) PROVE PromiseInv'
  <2>1. /\ \A b \in Analyses : \/ original'[b] = original[b] /\ request'[b] = request[b]
                               \/ original'[b] = NoAnalysis
        /\ UNCHANGED <<taskAnalysis, named, blocked>>
      BY <1>1 DEF StartAnalysis, BeginRun, TypeInv, TypeOK
  <2> QED
      BY <2>1, TasksKeep, NamedKeep, BlockedKeep, OriginalKeep DEF PromiseInv
<1>2. ASSUME NEW a \in Analyses, RunStep(a) PROVE PromiseInv'
  <2>1. CASE \E n \in Attempts : AttachTask(a, n) \/ InsertTask(a, n)
      BY <2>1, PromiseServe
  <2>2. CASE UNCHANGED concernVars
      BY <2>2
  <2> QED
      BY <1>2, <2>1, <2>2 DEF RunStep, DetectConflict, GroundingFails, Escalate, NothingToReview, ReceiveReply,
         SaveResult, EndRun, ServeCall, LookUpTask
<1>3. ASSUME NEW a \in Analyses, RunFault(a) PROVE PromiseInv'
    BY <1>3 DEF RunFault, CallTimesOut, LastCallTimesOut, CallFails, SaveFailure, RunThrows, RunKilled,
       AbandonedCallDies, EndRun
<1>4. ASSUME NEW r \in Requests, NEW t \in Tasks, CheckTask(r, t) \/ RefuseTask(r, t) PROVE PromiseInv'
    BY <1>4, PromiseCheck DEF RefuseTask
<1>5. ASSUME NEW r \in Requests, ResolveStep(r) PROVE PromiseInv'
  <2>1. CASE LockTask(r) \/ FinishResolve(r) \/ CommitDecision(r)
      BY <2>1 DEF LockTask, FinishResolve, CommitDecision
  <2> QED
      BY <1>5, <2>1, PromiseFind, PromiseRerun DEF ResolveStep
<1>6. ASSUME NEW r \in Requests, RequestKilled(r) PROVE PromiseInv'
  <2>1. /\ \A q \in Requests : named'[q] \in {named[q], NoAnalysis} /\ blocked'[q] \subseteq blocked[q]
        /\ UNCHANGED <<taskAnalysis, original, request>>
      BY <1>6 DEF RequestKilled, TypeInv, TypeOK
  <2> QED
      BY <2>1, TasksKeep, NamedKeep, BlockedKeep, OriginalKeep DEF PromiseInv
<1>7. CASE UNCHANGED vars
    BY <1>7 DEF vars
<1> QED
    BY <1>1, <1>2, <1>3, <1>4, <1>5, <1>6, <1>7 DEF Next

(***************************************************************************)
(* The refinement.                                                         *)
(***************************************************************************)
Phases == [a \in Analyses |-> PhaseOf(a)]
Waits == [a \in Analyses |-> BlockedOn(a)]
DecidedSubjects == {taskSubject[t] : t \in {u \in Tasks : Closed(u)}}

\* The rows the seed leaves behind are those of the promise.
LEMMA InitMaps == Init => P!PromiseInit
<1> SUFFICES ASSUME Init PROVE P!PromiseInit
    OBVIOUS
<1>1. \A a \in Analyses : PhaseOf(a) = "absent" /\ BlockedOn(a) = {}
    BY DEF Init, PhaseOf, BlockedOn
<1>2. \A t \in Tasks : ~Closed(t)
    BY DEF Init, Closed
<1> QED
    BY <1>1, <1>2 DEF P!PromiseInit

\* A step that leaves the rows of analyses alone, and closes nothing, is no step of
\* the promise, whatever it does to open tasks.
LEMMA NothingPromised ==
  ASSUME TypeInv, SupersedeInv, Steady, UNCHANGED <<status, supersededBy>>,
         \A a \in Analyses : pc[a] \in Running \/ subject'[a] = subject[a],
         \A t \in Tasks : Closed(t)' <=> Closed(t)
  PROVE  UNCHANGED P!promiseVars
<1>1. \A a \in Analyses : PhaseOf(a)' = PhaseOf(a)
    BY DEF PhaseOf
<1>2. \A a \in Analyses : BlockedOn(a)' = BlockedOn(a)
    BY DEF BlockedOn, SupersedeInv
<1>3. DecidedSubjects' = DecidedSubjects
    BY DEF DecidedSubjects, Closed, Steady, TasksSteady
<1> QED
    BY <1>1, <1>2, <1>3 DEF P!promiseVars, DecidedSubjects

\* A new row: an analysis begins.
LEMMA BeginMaps ==
  ASSUME TypeInv, RerunInv, NEW a \in Analyses, NEW o, NEW r, BeginRun(a, o, r),
         UNCHANGED <<taskStatus, taskSubject>>
  PROVE  P!Begin(a)
<1>1. /\ status[a] = "absent" /\ supersededBy[a] = NoAnalysis
      /\ status' = [status EXCEPT ![a] = "running"] /\ UNCHANGED <<supersededBy, subject>>
    BY BoundsAssumption DEF BeginRun, RerunInv, UnusedAnalysisIsBlank
<1>2. /\ PhaseOf(a) = "absent" /\ PhaseOf(a)' = "running"
      /\ \A b \in Analyses \ {a} : PhaseOf(b)' = PhaseOf(b)
    BY <1>1 DEF PhaseOf, TypeInv, TypeOK
<1>3. \A b \in Analyses : BlockedOn(b)' = BlockedOn(b)
    BY <1>1 DEF BlockedOn, TypeInv, TypeOK
<1>4. DecidedSubjects' = DecidedSubjects
    BY DEF DecidedSubjects, Closed
<1> QED
    BY <1>2, <1>3, <1>4 DEF P!Begin, DecidedSubjects

\* A saved result: the analysis is answered, has failed or waits for its subject.
LEMMA EndMaps ==
  ASSUME TypeInv, SupersedeInv, NEW a \in Analyses, NEW end \in Saved, pc[a] \in Running,
         status' = [status EXCEPT ![a] = end], end = "needs_human_review" => subject[a] # None,
         UNCHANGED <<supersededBy, subject, taskStatus, taskSubject>>
  PROVE  P!Answer(a) \/ \E s \in Subjects : P!Wait(a, s)
<1>1. status[a] = "running" /\ supersededBy[a] = NoAnalysis /\ status'[a] = end
    BY DEF SupersedeInv, TypeInv, TypeOK
<1>2. PhaseOf(a) = "running" /\ BlockedOn(a) = {}
    BY <1>1 DEF PhaseOf, BlockedOn
<1>3. \A b \in Analyses \ {a} : PhaseOf(b)' = PhaseOf(b) /\ BlockedOn(b)' = BlockedOn(b)
    BY DEF PhaseOf, BlockedOn, TypeInv, TypeOK
<1>4. DecidedSubjects' = DecidedSubjects
    BY DEF DecidedSubjects, Closed
<1>5. CASE end \in {"complete", "failed"}
  <2>1. PhaseOf(a)' \in {"answered", "failed"} /\ BlockedOn(a)' = {}
      BY <1>1, <1>5 DEF PhaseOf, BlockedOn
  <2> DEFINE after == PhaseOf(a)'
  <2>2. [b \in Analyses |-> PhaseOf(b)'] = [[b \in Analyses |-> PhaseOf(b)] EXCEPT ![a] = after]
      BY <1>3
  <2>3. \A b \in Analyses : BlockedOn(b)' = BlockedOn(b)
      BY <1>2, <1>3, <2>1
  <2> QED
      BY <1>2, <1>4, <2>1, <2>2, <2>3 DEF P!Answer, DecidedSubjects
<1>6. CASE end = "needs_human_review"
  <2>1. subject[a] \in Subjects
      BY <1>6 DEF TypeInv, TypeOK
  <2>2. PhaseOf(a)' = "waiting" /\ BlockedOn(a)' = {subject[a]}
      BY <1>1, <1>6 DEF PhaseOf, BlockedOn
  <2>3. P!Wait(a, subject[a])
      BY <1>2, <1>3, <1>4, <2>2 DEF P!Wait, DecidedSubjects
  <2> QED
      BY <2>1, <2>3
<1> QED
    BY <1>5, <1>6 DEF Saved, Reviewed

\* A reviewer's decision: the subject of the task is decided.
LEMMA CommitMaps ==
  ASSUME TypeInv, RerunInv, PromiseInv, NEW r \in Requests, CommitDecision(r)
  PROVE  \E s \in Subjects : P!Decide(s)
<1>1. /\ reqTask[r] \in Tasks
      /\ taskStatus' = [taskStatus EXCEPT ![reqTask[r]] = IF dismiss[r] THEN "dismissed" ELSE "resolved"]
      /\ UNCHANGED <<status, supersededBy, subject, taskSubject>>
    BY DEF CommitDecision, RerunInv, RequestKnowsItsTask, analysisTable, runVars
<1>2. taskSubject[reqTask[r]] \in Subjects
    BY <1>1 DEF CommitDecision, RerunInv, RequestKnowsItsTask, PromiseInv, SubjectsKnown, TypeInv, TypeOK
<1>3. \A t \in Tasks : Closed(t)' <=> Closed(t) \/ t = reqTask[r]
    BY <1>1 DEF Closed, TypeInv, TypeOK
<1>4. DecidedSubjects' = DecidedSubjects \cup {taskSubject[reqTask[r]]}
    BY <1>1, <1>3 DEF DecidedSubjects
<1>5. \A a \in Analyses : PhaseOf(a)' = PhaseOf(a) /\ BlockedOn(a)' = BlockedOn(a)
    BY <1>1 DEF PhaseOf, BlockedOn
<1>6. P!Decide(taskSubject[reqTask[r]])
    BY <1>4, <1>5 DEF P!Decide, DecidedSubjects
<1> QED
    BY <1>2, <1>6 DEF P!Decide

\* The end of a request: every analysis it re-ran was waiting for the subject it has
\* decided, and its re-run is newer and was carried to its end.
LEMMA FinishMaps ==
  ASSUME TypeInv, RerunInv, SupersedeInv, PromiseInv, NEW r \in Requests, FinishResolve(r)
  PROVE  \E S \in SUBSET Analyses : P!Release(S)
<1> DEFINE S == {a \in Analyses : RerunOf(r, a) # {} /\ supersededBy[a] = NoAnalysis}
<1>1. /\ status' = [a \in Analyses |-> IF RerunOf(r, a) # {} THEN "complete" ELSE status[a]]
      /\ supersededBy' = [a \in Analyses |-> IF RerunOf(r, a) # {} THEN CHOOSE b \in RerunOf(r, a) : TRUE
                                             ELSE supersededBy[a]]
      /\ reqPc[r] = "resuming" /\ UNCHANGED <<subject, taskStatus, taskSubject>>
    BY DEF FinishResolve, runVars
<1>2. ASSUME NEW a \in Analyses, RerunOf(r, a) # {}
      PROVE  /\ Held(a) /\ IsAbout(reqTask[r], a)
             /\ \E b \in Analyses : a < b /\ status[b] \in Saved
             /\ status'[a] = "complete" /\ supersededBy'[a] # NoAnalysis
  <2>1. PICK b \in Analyses : request[b] = r /\ original[b] = a /\ pc[b] = "returned"
      BY <1>2 DEF RerunOf
  <2>2. Held(a) /\ Concerns(r, a)
      BY <2>1, BoundsAssumption DEF PromiseInv, OriginalIsConcerned
  <2>3. a < b /\ status[b] \in Saved
      BY <2>1, BoundsAssumption DEF SupersedeInv
  <2>4. status'[a] = "complete" /\ supersededBy'[a] \in Analyses
      BY <1>1, <1>2 DEF RerunOf
  <2> QED
      BY <2>2, <2>3, <2>4, BoundsAssumption DEF Concerns, Asks
<1>3. \A b \in Analyses : status[b] \in Saved => PhaseOf(b) \in P!Ended
    BY DEF PhaseOf, Saved, Reviewed, P!Ended
<1>4. reqTask[r] \in Tasks /\ Closed(reqTask[r])
    BY <1>1 DEF RerunInv, RequestKnowsItsTask, Decided
<1>5. \A a \in S : PhaseOf(a) = "waiting" /\ BlockedOn(a) \subseteq DecidedSubjects
    BY <1>2, <1>4 DEF PhaseOf, BlockedOn, Held, IsAbout, DecidedSubjects
<1>6. \A a \in Analyses : PhaseOf(a)' = IF a \in S THEN "released" ELSE PhaseOf(a)
  <2> SUFFICES ASSUME NEW a \in Analyses PROVE PhaseOf(a)' = IF a \in S THEN "released" ELSE PhaseOf(a)
      OBVIOUS
  <2>1. CASE RerunOf(r, a) # {}
      BY <1>2, <2>1 DEF PhaseOf
  <2>2. CASE RerunOf(r, a) = {}
    <3>1. status'[a] = status[a] /\ supersededBy'[a] = supersededBy[a]
        BY <1>1, <2>2
    <3> QED
        BY <2>2, <3>1 DEF PhaseOf
  <2> QED
      BY <2>1, <2>2
<1>7. \A a \in Analyses : BlockedOn(a)' = BlockedOn(a)
    BY <1>1, <1>2 DEF BlockedOn, Held
<1>8. DecidedSubjects' = DecidedSubjects
    BY <1>1 DEF DecidedSubjects, Closed
<1>9. \A a \in S : \E b \in Analyses : b > a /\ PhaseOf(b) \in P!Ended
    BY <1>2, <1>3, BoundsAssumption
<1>10. P!Release(S)
    BY <1>5, <1>6, <1>7, <1>8, <1>9 DEF P!Release, DecidedSubjects
<1> QED
    BY <1>10

\* Every step of the system is a step of the promise, or none.
LEMMA StepMaps ==
  TypeInv /\ RerunInv /\ SupersedeInv /\ PromiseInv /\ [Next]_vars
    => P!PromiseNext \/ UNCHANGED P!promiseVars
<1> SUFFICES ASSUME TypeInv, RerunInv, SupersedeInv, PromiseInv, [Next]_vars
             PROVE  P!PromiseNext \/ UNCHANGED P!promiseVars
    OBVIOUS
<1>0. Steady
    BY StepSteady
<1> USE <1>0, NothingPromised DEF analysisTable, taskTable, runVars, reqVars
<1>1. ASSUME NEW a \in Analyses, StartAnalysis(a) PROVE P!PromiseNext
    BY <1>1, BeginMaps DEF StartAnalysis, P!PromiseNext
<1>2. ASSUME NEW a \in Analyses, RunStep(a) PROVE P!PromiseNext \/ UNCHANGED P!promiseVars
  <2>1. CASE SaveResult(a)
    <3>1. /\ pc[a] \in Running /\ UNCHANGED <<supersededBy, subject, taskStatus, taskSubject>>
          /\ status' = [status EXCEPT ![a] = IF subject[a] = None THEN "complete" ELSE "needs_human_review"]
        BY <2>1 DEF SaveResult, EndRun, Running
    <3>2. CASE subject[a] = None
        BY <3>1, <3>2, EndMaps DEF P!PromiseNext, Saved, Reviewed
    <3>3. CASE subject[a] # None
        BY <3>1, <3>3, EndMaps DEF P!PromiseNext, Saved, Reviewed
    <3> QED
        BY <3>2, <3>3
  <2>2. CASE DetectConflict(a) \/ GroundingFails(a)
    <3>1. /\ \A b \in Analyses : pc[b] \in Running \/ subject'[b] = subject[b]
          /\ UNCHANGED <<status, supersededBy, taskStatus>>
        BY <2>2 DEF DetectConflict, GroundingFails, Escalate, Running, TypeInv, TypeOK
    <3> QED
        BY <3>1 DEF Closed
  <2>3. CASE NothingToReview(a) \/ ReceiveReply(a) \/ \E n \in Attempts : LookUpTask(a, n) \/ AttachTask(a, n)
      BY <2>3 DEF NothingToReview, ReceiveReply, LookUpTask, AttachTask, Closed
  <2>4. ASSUME NEW n \in Attempts, InsertTask(a, n) PROVE UNCHANGED P!promiseVars
    <3>1. PICK t \in Tasks : /\ \A u \in Tasks : taskStatus[u] = "absent" <=> u >= t
                             /\ taskStatus' = [taskStatus EXCEPT ![t] = "open"]
        BY <2>4 DEF InsertTask
    <3>2. \A u \in Tasks : Closed(u)' <=> Closed(u)
        BY <3>1, BoundsAssumption DEF Closed, TypeInv, TypeOK
    <3> QED
        BY <2>4, <3>2 DEF InsertTask
  <2> QED
      BY <1>2, <2>1, <2>2, <2>3, <2>4 DEF RunStep, ServeCall
<1>3. ASSUME NEW a \in Analyses, RunFault(a) PROVE P!PromiseNext \/ UNCHANGED P!promiseVars
  <2>1. CASE SaveFailure(a)
      BY <2>1, EndMaps DEF SaveFailure, EndRun, Saved, P!PromiseNext
  <2>2. CASE UNCHANGED <<status, supersededBy, subject, taskStatus>>
      BY <2>2 DEF Closed
  <2> QED
      BY <1>3, <2>1, <2>2 DEF RunFault, CallTimesOut, LastCallTimesOut, CallFails, RunThrows, RunKilled,
         AbandonedCallDies, EndRun
<1>4. ASSUME NEW r \in Requests, NEW t \in Tasks, CheckTask(r, t) \/ RefuseTask(r, t)
      PROVE  UNCHANGED P!promiseVars
    BY <1>4 DEF CheckTask, RefuseTask, Closed
<1>5. ASSUME NEW r \in Requests, ResolveStep(r) PROVE P!PromiseNext \/ UNCHANGED P!promiseVars
  <2>1. CASE LockTask(r) \/ FindBlocked(r)
      BY <2>1 DEF LockTask, FindBlocked, Closed
  <2>2. CASE CommitDecision(r)
      BY <2>2, CommitMaps DEF P!PromiseNext
  <2>3. CASE FinishResolve(r)
      BY <2>3, FinishMaps DEF P!PromiseNext
  <2>4. ASSUME NEW a \in Analyses, NEW b \in Analyses, StartRerun(r, a, b) PROVE P!PromiseNext
      BY <2>4, BeginMaps DEF StartRerun, P!PromiseNext
  <2> QED
      BY <1>5, <2>1, <2>2, <2>3, <2>4 DEF ResolveStep
<1>6. ASSUME NEW r \in Requests, RequestKilled(r) PROVE UNCHANGED P!promiseVars
    BY <1>6 DEF RequestKilled, Closed
<1>7. CASE UNCHANGED vars
    BY <1>7 DEF vars, Closed
<1> QED
    BY <1>1, <1>2, <1>3, <1>4, <1>5, <1>6, <1>7 DEF Next

\* What human review promises is kept by the code's tables, calls and requests, for
\* any number of them and of faults: nothing is released before its subject was
\* decided and a newer run took its place, and no decision is ever undone.
THEOREM PromiseIsKept == Spec => KeepsPromise
<1>1. Init => P!PromiseInit
    BY InitMaps
<1>2. Init => PromiseInv
    BY InitPromise
<1>3. IInv /\ PromiseInv /\ [Next]_vars => PromiseInv'
    BY StepPromise DEF IInv
<1>4. IInv /\ PromiseInv /\ [Next]_vars => [P!PromiseNext]_(P!promiseVars)
    BY StepMaps DEF IInv
<1> QED
    BY <1>1, <1>2, <1>3, <1>4, Invariance, PTL DEF Spec, KeepsPromise, P!PromiseSpec
=============================================================================
