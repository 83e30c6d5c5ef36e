---------------------------- MODULE HumanReview ----------------------------
(***************************************************************************)
(* Human review and resumption by re-execution.                            *)
(*                                                                         *)
(* Three kinds of process share three tables:                              *)
(*   - an analysis run (AnalysisService._run) inserts its row, executes a  *)
(*     graph that may escalate, and saves its result in a second session;  *)
(*   - a tool call create_human_review_request, which the gateway serves   *)
(*     in a session of its own and whose caller may stop waiting for it;   *)
(*   - a resolve request (ReviewService.resolve), which commits a          *)
(*     reviewer's decision, re-runs every blocked analysis and commits     *)
(*     again.                                                              *)
(* Statements of one session are separate steps wherever another session   *)
(* can run between them (PostgreSQL, READ COMMITTED).                      *)
(***************************************************************************)
EXTENDS Naturals, FiniteSets

CONSTANTS
  Facts,         \* disputed facts: a subject with a field_name
  Topics,        \* subjects of reviews without a field_name
  Requests,      \* calls of POST /admin/reviews/{id}/resolve
  MaxAnalyses,   \* bound: rows of analyses
  MaxTasks,      \* bound: rows of human_review_tasks
  MaxTravellers, \* bound: analyses started by a traveller
  PendingLimit,  \* the LIMIT of the pending scan (50 in the code)
  MaxAttempts,   \* attempts of a tool call (2 in every contract)
  Faults,        \* the faults that may happen
  MaxFaults,     \* bound: faults in a behaviour
  None           \* SQL NULL / Python None

FaultKinds == {"timeout", "tool_error", "graph_error", "run_error", "restart"}

ASSUME BoundsAssumption ==
  /\ MaxAnalyses \in Nat
  /\ MaxTasks \in Nat
  /\ MaxTravellers \in Nat
  /\ PendingLimit \in Nat
  /\ MaxAttempts \in Nat \ {0}
  /\ MaxFaults \in Nat
ASSUME NamesAssumption ==
  /\ Facts \cap Topics = {}
  /\ None \notin Facts \cup Topics \cup Requests \cup Nat
  /\ Faults \subseteq FaultKinds

VARIABLES
  \* table analyses, a column each
  status,        \* status
  cites,         \* result_payload.human_review_task_id
  supersededBy,  \* result_payload.superseded_by
  \* table human_review_tasks
  taskStatus,    \* status
  taskSubject,   \* subject and field_name
  taskAnalysis,  \* analysis_id
  decidedBy,     \* resolved_value and resolved_by: the request that wrote them
  resumed,       \* resumed
  \* table verification_records, one row per request that writes one
  record,
  \* the process executing an analysis
  pc,
  subject,       \* what needs review, None when nothing does
  attempt,       \* the attempt of the tool call it waits for
  raised,        \* human_review_task_id of the graph state
  original,      \* of a re-run: the analysis it replaces ...
  request,       \* ... and the resolve request that waits for it
  \* its calls of create_human_review_request, by attempt
  callPc,
  found,         \* existing.id, then the id replied
  attach,        \* existing.analysis_id was empty
  \* the resolve requests
  reqPc,
  reqTask,
  dismiss,
  named,         \* task.analysis_id as first read
  previous,      \* records to supersede
  blocked,       \* analyses still to re-run
  \* faults that have happened
  faults

analysisTable == <<status, cites, supersededBy>>
taskTable == <<taskStatus, taskSubject, taskAnalysis, decidedBy, resumed>>
runVars == <<pc, subject, attempt, raised, original, request>>
callVars == <<callPc, found, attach>>
reqVars == <<reqPc, reqTask, dismiss, named, previous, blocked>>
vars == <<analysisTable, taskTable, record, runVars, callVars, reqVars, faults>>

Subjects == Facts \cup Topics
Analyses == 1..MaxAnalyses
Tasks == 1..MaxTasks
Attempts == 1..MaxAttempts
NoAnalysis == 0

Running == {"graph", "raising", "answer"}
Deciding == {"checked", "locked"}
Resuming == {"committed", "resuming"}

TypeOK ==
  /\ status \in [Analyses -> {"absent", "running", "complete", "needs_human_review", "failed"}]
  /\ cites \in [Analyses -> Tasks \cup {None}]
  /\ supersededBy \in [Analyses -> Analyses \cup {NoAnalysis}]
  /\ taskStatus \in [Tasks -> {"absent", "open", "resolved", "dismissed"}]
  /\ taskSubject \in [Tasks -> Subjects \cup {None}]
  /\ taskAnalysis \in [Tasks -> Analyses \cup {NoAnalysis}]
  /\ decidedBy \in [Tasks -> Requests \cup {None}]
  /\ resumed \in [Tasks -> BOOLEAN]
  /\ record \in [Requests -> {"absent", "verified", "superseded"}]
  /\ pc \in [Analyses -> {"unused", "returned", "threw", "killed"} \cup Running]
  /\ subject \in [Analyses -> Subjects \cup {None}]
  /\ attempt \in [Analyses -> Attempts \cup {0}]
  /\ raised \in [Analyses -> Tasks \cup {None}]
  /\ original \in [Analyses -> Analyses \cup {NoAnalysis}]
  /\ request \in [Analyses -> Requests \cup {None}]
  /\ callPc \in [Analyses -> [Attempts -> {"idle", "sent", "looked", "replied"}]]
  /\ found \in [Analyses -> [Attempts -> Tasks \cup {None}]]
  /\ attach \in [Analyses -> [Attempts -> BOOLEAN]]
  /\ reqPc \in [Requests -> {"idle", "refused", "done", "aborted", "stopped"} \cup Deciding \cup Resuming]
  /\ reqTask \in [Requests -> Tasks \cup {None}]
  /\ dismiss \in [Requests -> BOOLEAN]
  /\ named \in [Requests -> Analyses \cup {NoAnalysis}]
  /\ previous \in [Requests -> SUBSET Requests]
  /\ blocked \in [Requests -> SUBSET Analyses]
  /\ faults \in 0..MaxFaults

Open(t) == taskStatus[t] = "open"
Closed(t) == taskStatus[t] \in {"resolved", "dismissed"}

Init ==
  /\ status = [a \in Analyses |-> "absent"]
  /\ cites = [a \in Analyses |-> None]
  /\ supersededBy = [a \in Analyses |-> NoAnalysis]
  /\ \E seeded \in [Facts -> Tasks] :  \* the seed opens a task for each disputed fact
       /\ \A f, g \in Facts : seeded[f] = seeded[g] => f = g
       /\ \A f \in Facts, t \in Tasks : t < seeded[f] => \E g \in Facts : seeded[g] = t
       /\ taskStatus = [t \in Tasks |-> IF \E f \in Facts : seeded[f] = t THEN "open" ELSE "absent"]
       /\ taskSubject = [t \in Tasks |-> IF \E f \in Facts : seeded[f] = t
                                         THEN CHOOSE f \in Facts : seeded[f] = t ELSE None]
  /\ taskAnalysis = [t \in Tasks |-> NoAnalysis]
  /\ decidedBy = [t \in Tasks |-> None]
  /\ resumed = [t \in Tasks |-> FALSE]
  /\ record = [r \in Requests |-> "absent"]
  /\ pc = [a \in Analyses |-> "unused"]
  /\ subject = [a \in Analyses |-> None]
  /\ attempt = [a \in Analyses |-> 0]
  /\ raised = [a \in Analyses |-> None]
  /\ original = [a \in Analyses |-> NoAnalysis]
  /\ request = [a \in Analyses |-> None]
  /\ callPc = [a \in Analyses |-> [n \in Attempts |-> "idle"]]
  /\ found = [a \in Analyses |-> [n \in Attempts |-> None]]
  /\ attach = [a \in Analyses |-> [n \in Attempts |-> FALSE]]
  /\ reqPc = [r \in Requests |-> "idle"]
  /\ reqTask = [r \in Requests |-> None]
  /\ dismiss = [r \in Requests |-> FALSE]
  /\ named = [r \in Requests |-> NoAnalysis]
  /\ previous = [r \in Requests |-> {}]
  /\ blocked = [r \in Requests |-> {}]
  /\ faults = 0

\* A fault of an enabled kind happens.
Fault(kind) ==
  /\ kind \in Faults /\ faults < MaxFaults
  /\ faults' = faults + 1

(***************************************************************************)
(* An analysis run.                                                        *)
(***************************************************************************)
\* _run commits a "running" row before the graph starts. Ids are handed out in
\* creation order, so a greater id is a newer row.
BeginRun(a, o, r) ==
  /\ \A b \in Analyses : status[b] = "absent" <=> b >= a
  /\ status' = [status EXCEPT ![a] = "running"]
  /\ pc' = [pc EXCEPT ![a] = "graph"]
  /\ original' = [original EXCEPT ![a] = o]
  /\ request' = [request EXCEPT ![a] = r]
  /\ UNCHANGED <<cites, supersededBy, subject, attempt, raised>>

StartAnalysis(a) ==
  /\ Cardinality({b \in Analyses : pc[b] # "unused" /\ request[b] = None}) < MaxTravellers
  /\ BeginRun(a, NoAnalysis, None)
  /\ UNCHANGED <<taskTable, record, callVars, reqVars, faults>>

\* confidence_check routes to human_review, whose only call asks for a task.
Escalate(a, s) ==
  /\ pc[a] = "graph"
  /\ pc' = [pc EXCEPT ![a] = "raising"]
  /\ subject' = [subject EXCEPT ![a] = s]
  /\ attempt' = [attempt EXCEPT ![a] = 1]
  /\ callPc' = [callPc EXCEPT ![a][1] = "sent"]
  /\ UNCHANGED <<analysisTable, taskTable, record, raised, original, request, found, attach, reqVars, faults>>

\* grounding_check reads the open conflicts and the answer depends on one.
DetectConflict(a) == \E t \in Tasks : Open(t) /\ taskSubject[t] \in Facts /\ Escalate(a, taskSubject[t])

\* No conflict bears on the answer, but stale or unsupported claims do.
GroundingFails(a) == \E s \in Topics : Escalate(a, s)

\* Nothing to review, or get_verification_status failed and no conflict was seen.
NothingToReview(a) ==
  /\ pc[a] = "graph"
  /\ pc' = [pc EXCEPT ![a] = "answer"]
  /\ UNCHANGED <<analysisTable, taskTable, record, subject, attempt, raised, original, request,
                 callVars, reqVars, faults>>

\* The server side of create_human_review_request: look for an open task ...
SameOpenTask(a) == {t \in Tasks : Open(t) /\ taskSubject[t] = subject[a]}

LookUpAnyOpenTask(a, n) ==
  /\ callPc[a][n] = "sent"
  /\ callPc' = [callPc EXCEPT ![a][n] = "looked"]
  /\ \/ /\ \A t \in Tasks : ~Open(t)
        /\ UNCHANGED <<found, attach>>
     \/ \E t \in Tasks :
          /\ Open(t)
          /\ found' = [found EXCEPT ![a][n] = t]
          /\ attach' = [attach EXCEPT ![a][n] = taskAnalysis[t] = NoAnalysis]
  /\ UNCHANGED <<analysisTable, taskTable, record, runVars, reqVars, faults>>

LookUpTask(a, n) ==
  /\ callPc[a][n] = "sent"
  /\ callPc' = [callPc EXCEPT ![a][n] = "looked"]
  /\ \/ /\ SameOpenTask(a) = {}
        /\ UNCHANGED <<found, attach>>
     \/ \E t \in SameOpenTask(a) :
          /\ found' = [found EXCEPT ![a][n] = t]
          /\ attach' = [attach EXCEPT ![a][n] = taskAnalysis[t] = NoAnalysis]
  /\ UNCHANGED <<analysisTable, taskTable, record, runVars, reqVars, faults>>

\* ... and, in a later statement, attach the analysis to it or insert a new one.
AttachTaskOnlyIfChanged(a, n) ==
  /\ callPc[a][n] = "looked" /\ found[a][n] # None /\ attach[a][n]
  /\ callPc' = [callPc EXCEPT ![a][n] = "replied"]
  /\ taskAnalysis' = [taskAnalysis EXCEPT ![found[a][n]] = a]
  /\ UNCHANGED <<analysisTable, taskStatus, taskSubject, decidedBy, resumed, record, runVars,
                 found, attach, reqVars, faults>>

AttachTask(a, n) ==
  /\ callPc[a][n] = "looked" /\ found[a][n] # None
  /\ callPc' = [callPc EXCEPT ![a][n] = "replied"]
  /\ taskAnalysis' = IF attach[a][n] THEN [taskAnalysis EXCEPT ![found[a][n]] = a] ELSE taskAnalysis
  /\ UNCHANGED <<analysisTable, taskStatus, taskSubject, decidedBy, resumed, record, runVars,
                 found, attach, reqVars, faults>>

InsertTask(a, n) ==
  /\ callPc[a][n] = "looked" /\ found[a][n] = None
  /\ \E t \in Tasks :
       /\ \A u \in Tasks : taskStatus[u] = "absent" <=> u >= t
       /\ taskStatus' = [taskStatus EXCEPT ![t] = "open"]
       /\ taskSubject' = [taskSubject EXCEPT ![t] = subject[a]]
       /\ taskAnalysis' = [taskAnalysis EXCEPT ![t] = a]
       /\ found' = [found EXCEPT ![a][n] = t]
  /\ callPc' = [callPc EXCEPT ![a][n] = "replied"]
  /\ UNCHANGED <<analysisTable, decidedBy, resumed, record, runVars, attach, reqVars, faults>>

\* The client side: ToolBelt.call returns the task id ...
ReceiveReply(a) ==
  /\ pc[a] = "raising" /\ callPc[a][attempt[a]] = "replied"
  /\ pc' = [pc EXCEPT ![a] = "answer"]
  /\ raised' = [raised EXCEPT ![a] = found[a][attempt[a]]]
  /\ UNCHANGED <<analysisTable, taskTable, record, subject, attempt, original, request,
                 callVars, reqVars, faults>>

\* Nothing is left of an attempt that was cancelled.
ForgetCall(a, n) ==
  /\ callPc' = [callPc EXCEPT ![a][n] = "idle"]
  /\ found' = [found EXCEPT ![a][n] = None]
  /\ attach' = [attach EXCEPT ![a][n] = FALSE]

\* ... or stops waiting and sends the call again. The one it abandons may still be
\* served: only the wait is cancelled for certain.
CallTimesOutUnbounded(a) ==
  /\ Fault("timeout") /\ pc[a] = "raising"
  /\ attempt' = [attempt EXCEPT ![a] = @ + 1]
  /\ callPc' = [callPc EXCEPT ![a][attempt[a] + 1] = "sent"]
  /\ UNCHANGED <<analysisTable, taskTable, record, pc, subject, raised, original, request,
                 found, attach, reqVars>>

CallTimesOut(a) ==
  /\ Fault("timeout") /\ pc[a] = "raising" /\ attempt[a] < MaxAttempts
  /\ attempt' = [attempt EXCEPT ![a] = @ + 1]
  /\ callPc' = [callPc EXCEPT ![a][attempt[a] + 1] = "sent"]
  /\ UNCHANGED <<analysisTable, taskTable, record, pc, subject, raised, original, request,
                 found, attach, reqVars>>

AbandonedCallDies(a, n) ==
  /\ pc[a] = "raising" /\ n < attempt[a] /\ callPc[a][n] # "idle"
  /\ ForgetCall(a, n)
  /\ UNCHANGED <<analysisTable, taskTable, record, runVars, reqVars, faults>>

\* The last attempt times out: call_optional swallows the error and returns None.
LastCallTimesOut(a) ==
  /\ Fault("timeout") /\ pc[a] = "raising" /\ attempt[a] = MaxAttempts
  /\ pc' = [pc EXCEPT ![a] = "answer"]
  /\ UNCHANGED <<analysisTable, taskTable, record, subject, attempt, raised, original, request,
                 callVars, reqVars>>

\* The gateway reports an error that is not transient: no retry, no task id.
CallFails(a) ==
  /\ Fault("tool_error") /\ pc[a] = "raising" /\ callPc[a][attempt[a]] \in {"sent", "looked"}
  /\ pc' = [pc EXCEPT ![a] = "answer"]
  /\ ForgetCall(a, attempt[a])
  /\ UNCHANGED <<analysisTable, taskTable, record, subject, attempt, raised, original, request, reqVars>>

\* Leaving the MCP session cancels whatever call is still being served.
CancelCalls(a) ==
  /\ callPc' = [callPc EXCEPT ![a] = [n \in Attempts |-> "idle"]]
  /\ found' = [found EXCEPT ![a] = [n \in Attempts |-> None]]
  /\ attach' = [attach EXCEPT ![a] = [n \in Attempts |-> FALSE]]

EndRun(a, end) ==
  /\ pc' = [pc EXCEPT ![a] = end]
  /\ CancelCalls(a)
  /\ UNCHANGED <<supersededBy, taskTable, record, subject, attempt, raised, original, request, reqVars>>

\* The second session writes status and result; the caller gets the result.
SaveResult(a) ==
  /\ pc[a] = "answer"
  /\ status' = [status EXCEPT ![a] = IF subject[a] = None THEN "complete" ELSE "needs_human_review"]
  /\ cites' = [cites EXCEPT ![a] = raised[a]]
  /\ EndRun(a, "returned")
  /\ UNCHANGED faults

\* The graph raised (budget, provider, bug): a failure result is saved instead.
SaveFailure(a) ==
  /\ Fault("graph_error") /\ pc[a] \in Running
  /\ status' = [status EXCEPT ![a] = "failed"]
  /\ EndRun(a, "returned")
  /\ UNCHANGED cites

\* _run itself raises (gateway start-up, database): the row stays "running".
RunThrows(a) ==
  /\ Fault("run_error") /\ pc[a] \in Running
  /\ EndRun(a, "threw")
  /\ UNCHANGED <<status, cites>>

\* The process executing a traveller's analysis stops: the row stays "running".
RunKilled(a) ==
  /\ Fault("restart") /\ pc[a] \in Running /\ request[a] = None
  /\ EndRun(a, "killed")
  /\ UNCHANGED <<status, cites>>

(***************************************************************************)
(* A resolve request.                                                      *)
(***************************************************************************)
\* The task is read, and accepted unless it is closed: no lock is taken.
CheckTask(r, t) ==
  /\ reqPc[r] = "idle" /\ Open(t)
  /\ reqPc' = [reqPc EXCEPT ![r] = "checked"]
  /\ reqTask' = [reqTask EXCEPT ![r] = t]
  /\ \E d \in BOOLEAN : dismiss' = [dismiss EXCEPT ![r] = d]
  /\ named' = [named EXCEPT ![r] = taskAnalysis[t]]
  /\ UNCHANGED <<analysisTable, taskTable, record, runVars, callVars, previous, blocked, faults>>

RefuseTask(r, t) ==
  /\ reqPc[r] = "idle" /\ Closed(t)
  /\ reqPc' = [reqPc EXCEPT ![r] = "refused"]
  /\ reqTask' = [reqTask EXCEPT ![r] = t]
  /\ UNCHANGED <<analysisTable, taskTable, record, runVars, callVars, dismiss, named,
                 previous, blocked, faults>>

\* Only a fact has a field_name, and only a field_name gets a record.
WritesRecord(r) == ~dismiss[r] /\ taskSubject[reqTask[r]] \in Facts
Current(s) == {q \in Requests : record[q] = "verified" /\ taskSubject[reqTask[q]] = s}

\* The first query after the assignments flushes the task row, which locks it; the
\* records to supersede are read under that lock.
LockTaskLate(r) ==
  /\ reqPc[r] = "checked"
  /\ reqPc' = [reqPc EXCEPT ![r] = "locked"]
  /\ previous' = [previous EXCEPT ![r] = IF WritesRecord(r) THEN Current(taskSubject[reqTask[r]]) ELSE {}]
  /\ UNCHANGED <<analysisTable, taskTable, record, runVars, callVars, reqTask, dismiss,
                 named, blocked, faults>>

LockTask(r) ==
  /\ reqPc[r] = "checked"
  /\ \A q \in Requests : ~(reqPc[q] = "locked" /\ reqTask[q] = reqTask[r])
  /\ reqPc' = [reqPc EXCEPT ![r] = "locked"]
  /\ previous' = [previous EXCEPT ![r] = IF WritesRecord(r) THEN Current(taskSubject[reqTask[r]]) ELSE {}]
  /\ UNCHANGED <<analysisTable, taskTable, record, runVars, callVars, reqTask, dismiss,
                 named, blocked, faults>>

\* The decision, the superseded records and the new one become visible together.
CommitThenSupersede(r) ==
  /\ reqPc[r] = "locked"
  /\ reqPc' = [reqPc EXCEPT ![r] = "committed"]
  /\ taskStatus' = [taskStatus EXCEPT ![reqTask[r]] = IF dismiss[r] THEN "dismissed" ELSE "resolved"]
  /\ decidedBy' = [decidedBy EXCEPT ![reqTask[r]] = r]
  /\ record' = [q \in Requests |->
                  IF q \in previous[r] \cup {r} /\ WritesRecord(r) THEN "superseded" ELSE record[q]]
  /\ previous' = [previous EXCEPT ![r] = {}]
  /\ UNCHANGED <<analysisTable, taskSubject, taskAnalysis, resumed, runVars, callVars,
                 reqTask, dismiss, named, blocked, faults>>

CommitAfterResume(r) ==
  /\ reqPc[r] = "locked"
  /\ reqPc' = [reqPc EXCEPT ![r] = "committed"]
  /\ previous' = [previous EXCEPT ![r] = {}]
  /\ UNCHANGED <<analysisTable, taskTable, record, runVars, callVars,
                 reqTask, dismiss, named, blocked, faults>>

CommitDecision(r) ==
  /\ reqPc[r] = "locked"
  /\ reqPc' = [reqPc EXCEPT ![r] = "committed"]
  /\ taskStatus' = [taskStatus EXCEPT ![reqTask[r]] = IF dismiss[r] THEN "dismissed" ELSE "resolved"]
  /\ decidedBy' = [decidedBy EXCEPT ![reqTask[r]] = r]
  /\ record' = [q \in Requests |->
                  IF q = r /\ WritesRecord(r) THEN "verified"
                  ELSE IF q \in previous[r] THEN "superseded" ELSE record[q]]
  /\ previous' = [previous EXCEPT ![r] = {}]
  /\ UNCHANGED <<analysisTable, taskSubject, taskAnalysis, resumed, runVars, callVars,
                 reqTask, dismiss, named, blocked, faults>>

\* The analysis the task names and, among the newest pending ones, those that cite it.
Pending == {a \in Analyses : status[a] = "needs_human_review"}
Newest(S) == {a \in S : Cardinality({b \in S : b > a}) < PendingLimit}

AllPending(r) == Pending
NamedAnalysisOnly(r) == {a \in Pending : a = named[r]}
BlockedAnalyses(r) ==
  {a \in Pending : a = named[r]} \cup {a \in Newest(Pending) : cites[a] = reqTask[r]}

FindBlocked(r) ==
  /\ reqPc[r] = "committed"
  /\ reqPc' = [reqPc EXCEPT ![r] = "resuming"]
  /\ blocked' = [blocked EXCEPT ![r] = BlockedAnalyses(r)]
  /\ named' = [named EXCEPT ![r] = NoAnalysis]
  /\ UNCHANGED <<analysisTable, taskTable, record, runVars, callVars, reqTask, dismiss,
                 previous, faults>>

Rerunning(r) == \E b \in Analyses : request[b] = r /\ pc[b] \in Running

\* Resumption is re-execution: a new analysis of the same input, one at a time.
StartRerun(r, a, b) ==
  /\ reqPc[r] = "resuming" /\ a \in blocked[r] /\ ~Rerunning(r)
  /\ BeginRun(b, a, r)
  /\ blocked' = [blocked EXCEPT ![r] = @ \ {a}]
  /\ UNCHANGED <<taskTable, record, callVars, reqPc, reqTask, dismiss, named, previous, faults>>

\* The re-run that replaces a: whatever it found, unless it raised.
RerunOfAnyOutcome(r, a) == {b \in Analyses : request[b] = r /\ original[b] = a}
RerunOf(r, a) == {b \in Analyses : request[b] = r /\ original[b] = a /\ pc[b] = "returned"}

\* The originals are rewritten in the request's own session and committed at its end.
FinishResolve(r) ==
  /\ reqPc[r] = "resuming" /\ blocked[r] = {} /\ ~Rerunning(r)
  /\ reqPc' = [reqPc EXCEPT ![r] = "done"]
  /\ status' = [a \in Analyses |-> IF RerunOf(r, a) # {} THEN "complete" ELSE status[a]]
  /\ supersededBy' = [a \in Analyses |-> IF RerunOf(r, a) # {} THEN CHOOSE b \in RerunOf(r, a) : TRUE
                                         ELSE supersededBy[a]]
  /\ resumed' = [resumed EXCEPT ![reqTask[r]] = @ \/ \E a \in Analyses : RerunOf(r, a) # {}]
  /\ UNCHANGED <<cites, taskStatus, taskSubject, taskAnalysis, decidedBy, record, runVars,
                 callVars, reqTask, dismiss, named, previous, blocked, faults>>

\* The process executing the request stops, and its re-run with it.
RequestKilled(r) ==
  /\ Fault("restart") /\ reqPc[r] \in Deciding \cup Resuming
  /\ reqPc' = [reqPc EXCEPT ![r] = IF @ \in Deciding THEN "aborted" ELSE "stopped"]
  /\ previous' = [previous EXCEPT ![r] = {}]
  /\ named' = [named EXCEPT ![r] = NoAnalysis]
  /\ blocked' = [blocked EXCEPT ![r] = {}]
  /\ LET killed == {a \in Analyses : request[a] = r /\ pc[a] \in Running}
     IN /\ pc' = [a \in Analyses |-> IF a \in killed THEN "killed" ELSE pc[a]]
        /\ callPc' = [a \in Analyses |-> IF a \in killed THEN [n \in Attempts |-> "idle"] ELSE callPc[a]]
        /\ found' = [a \in Analyses |-> IF a \in killed THEN [n \in Attempts |-> None] ELSE found[a]]
        /\ attach' = [a \in Analyses |-> IF a \in killed THEN [n \in Attempts |-> FALSE] ELSE attach[a]]
  /\ UNCHANGED <<analysisTable, taskTable, record, subject, attempt, raised, original, request,
                 reqTask, dismiss>>

ServeCall(a, n) == LookUpTask(a, n) \/ AttachTask(a, n) \/ InsertTask(a, n)

\* The steps a scheduled process takes on its own ...
RunStep(a) ==
  \/ DetectConflict(a) \/ GroundingFails(a) \/ NothingToReview(a)
  \/ ReceiveReply(a) \/ SaveResult(a)
  \/ \E n \in Attempts : ServeCall(a, n)
ResolveStep(r) ==
  \/ LockTask(r) \/ CommitDecision(r) \/ FindBlocked(r) \/ FinishResolve(r)
  \/ \E a, b \in Analyses : StartRerun(r, a, b)

\* ... and the ones nobody owes it.
RunFault(a) ==
  \/ CallTimesOut(a) \/ LastCallTimesOut(a) \/ CallFails(a)
  \/ SaveFailure(a) \/ RunThrows(a) \/ RunKilled(a)
  \/ \E n \in Attempts : AbandonedCallDies(a, n)

Next ==
  \/ \E a \in Analyses : StartAnalysis(a) \/ RunStep(a) \/ RunFault(a)
  \/ \E r \in Requests, t \in Tasks : CheckTask(r, t) \/ RefuseTask(r, t)
  \/ \E r \in Requests : ResolveStep(r) \/ RequestKilled(r)

Spec == Init /\ [][Next]_vars

\* The event loop keeps running the coroutines it has started, and every await of
\* theirs ends. Nobody owes the system a request, an answer that is late or a fault.
Fairness ==
  /\ \A a \in Analyses : WF_vars(RunStep(a))
  /\ \A r \in Requests : WF_vars(ResolveStep(r))

FairSpec == Spec /\ Fairness

(***************************************************************************)
(* Properties.                                                             *)
(***************************************************************************)
\* The comment of resolve: a re-run must observe the task as resolved, otherwise
\* the reviewer's work appears to have done nothing. So no re-run, and no call of
\* one, ever ends up on the task whose resolution it belongs to.
RerunNeverBlocksOnItsTask ==
  \A b \in Analyses : request[b] # None =>
    /\ raised[b] # reqTask[request[b]] /\ cites[b] # reqTask[request[b]]
    /\ \A n \in Attempts : found[b][n] # reqTask[request[b]]

\* superseded_by of _resume_one always leads to a newer analysis, made from the same
\* input, that reached a saved result; and what is superseded is settled for good.
SupersededBySavedRun ==
  \A a \in Analyses : LET b == supersededBy[a] IN
    b # NoAnalysis =>
      /\ status[a] = "complete" /\ b > a /\ original[b] = a
      /\ status[b] \in {"complete", "needs_human_review", "failed"}

\* However retries, races and abandoned calls interleave, the task a stored result
\* sends the traveller to is a stored task about what the analysis disputes.
CitedTaskIsAboutTheAnalysis ==
  \A a \in Analyses : cites[a] # None =>
    taskStatus[cites[a]] # "absent" /\ taskSubject[cites[a]] = subject[a]

\* _record_verification supersedes before it writes. Two requests for one task are
\* serialised by the row lock, so they never leave two current records behind.
OneCurrentRecordPerTask ==
  \A q, r \in Requests :
    record[q] = "verified" /\ record[r] = "verified" /\ reqTask[q] = reqTask[r] => q = r

\* Superseding never loses the fact: once a record was written about a subject, one
\* of them is current.
CurrentRecordSurvives ==
  \A q \in Requests : record[q] # "absent" => Current(taskSubject[reqTask[q]]) # {}

\* The system keeps the promise of ReviewPromise: nothing is released before its
\* subject is decided, nothing decided is undone, nothing released waits again.
PhaseOf(a) ==
  IF supersededBy[a] # NoAnalysis THEN "released"
  ELSE IF status[a] = "complete" THEN "answered"
  ELSE IF status[a] = "needs_human_review" THEN "waiting"
  ELSE status[a]
BlockedOn(a) ==
  IF status[a] = "needs_human_review" \/ supersededBy[a] # NoAnalysis THEN {subject[a]} ELSE {}

P == INSTANCE ReviewPromise WITH
       phase    <- [a \in Analyses |-> PhaseOf(a)],
       waitsFor <- [a \in Analyses |-> BlockedOn(a)],
       decided  <- {taskSubject[t] : t \in {u \in Tasks : Closed(u)}}
KeepsPromise == P!PromiseSpec

\* docs/adr/0007: one resolution releases every analysis waiting on it.
EveryBlockedAnalysisIsReleased ==
  \A r \in Requests, a \in Analyses :
    (reqPc[r] = "committed" /\ a \in Pending /\ cites[a] = reqTask[r]) ~> supersededBy[a] # NoAnalysis

\* Every analysis gets an answer: no retry, escalation or lost call leaves the
\* traveller waiting.
StartedAnalysisIsAnswered ==
  \A a \in Analyses : status[a] = "running" ~> status[a] # "running"

\* "Resolving the fact should release all of them": nothing that is left waiting
\* waits for a task whose resolution has already run to its end. The code breaks it.
NoAnalysisWaitsOnClosedTask ==
  \A a \in Pending, r \in Requests :
    reqPc[r] = "done" /\ supersededBy[a] = NoAnalysis => cites[a] # reqTask[r]
=============================================================================
