------------------------------ MODULE AgentRun ------------------------------
(***************************************************************************)
(* A run of one of the two agents: nodes that run one after the other over *)
(* the state they hand on, and call tools through a belt that charges each *)
(* call to one budget (agents/common/tools.py, state.py).                  *)
(*                                                                         *)
(* Any call of a tool or of the model may fail, MaxFaults times in a run.  *)
(* A failed tool call is an absent answer (call_optional), except that the *)
(* budget of calls, once spent, ends the run.                              *)
(***************************************************************************)
EXTENDS VerificationStatus

CONSTANTS
  Budget,     \* agent_max_tool_calls
  Queues,     \* what the review queue may hold
  MaxFaults

ASSUME RunAssumption == Budget \in Nat /\ MaxFaults \in Nat

VARIABLES
  node,      \* the node about to run
  used,      \* calls the budget was charged for
  faults,    \* calls that failed so far
  request,
  disputes,  \* the conflicts told of the review queue
  state      \* WhereNextState or RouteCheckState

vars == <<node, used, faults, request, disputes, state>>

None == [absent |-> TRUE]

\* The node runs, asks for some calls of which some fail, and hands over.
Step(here, next, calls, failed) ==
  /\ node = here
  /\ node' = IF used + calls > Budget THEN "exhausted" ELSE next
  /\ used' = used + calls
  /\ faults + failed <= MaxFaults
  /\ faults' = faults + failed
  /\ UNCHANGED <<request, disputes>>

Failed(answered) == IF answered THEN 0 ELSE 1

\* The calls among these that may fail.
Failures(calls) == UNION {kSubset(k, calls) : k \in 0..MaxFaults}

\* A run that spent its budget is a failed run.
Done == node \in {"done", "exhausted"} /\ UNCHANGED vars

\* However much a request asks for and whatever fails, a run never meets the end
\* of its budget of tool calls, which would fail it as a whole
\* (agents/common/tools.py ToolBudget.consume, core/config.py).
BudgetIsEnough == node # "exhausted"
=============================================================================
