----------------------------- MODULE ModelCalls -----------------------------
(***************************************************************************)
(* Calls of the language model: the vendor of the settings, behind it a    *)
(* second vendor or the deterministic stand-in, and the repair of an       *)
(* answer that does not fit its schema. The vendors are called like the    *)
(* providers of look-ups, with retries and a breaker each; the callers of  *)
(* ProviderCalls here also ask the model.                                  *)
(***************************************************************************)
EXTENDS ProviderCalls

CONSTANTS
  MaxRepairs,  \* max_repairs of complete_with_repair
  Settings     \* which of AllSettings the instance covers

\* "demo": the stand-in alone, also when the client of the primary cannot be
\* built. Otherwise a live primary, and as its secondary the stand-in, a second
\* client of the same vendor, or another vendor.
AllSettings == {"demo", "demo_behind", "same_vendor", "other_vendor"}

ASSUME ModelAssumption == MaxRepairs \in Nat /\ Settings \subseteq AllSettings

VARIABLES
  llm,     \* the settings the provider was built from
  asked,   \* times complete_with_repair has asked
  misfit   \* the last answer of the caller's model did not fit the schema

modelVars == <<llm, asked, misfit>>
allVars == <<vars, modelVars>>

ModelTypeOK ==
  /\ TypeOK
  /\ llm \in Settings
  /\ asked \in [Callers -> 0..(MaxRepairs + 1)]
  /\ misfit \in [Callers -> BOOLEAN]

ModelInit ==
  /\ Init
  /\ llm \in Settings
  /\ asked = [c \in Callers |-> 0]
  /\ misfit = [c \in Callers |-> FALSE]

\* call_with_resilience of an adapter whose breaker lets the call pass.
CallAdapter(c, a) ==
  /\ breaker[a] # "open"
  /\ AskBreaker(a)
  /\ kind' = [kind EXCEPT ![c] = a]
  /\ pc' = [pc EXCEPT ![c] = "calling"]
  /\ attempt' = [attempt EXCEPT ![c] = 1]
  /\ UNCHANGED answer

\* An open breaker fails the call of the primary at once: over to the secondary.
PrimaryIsBarred(c) ==
  /\ breaker["primary"] = "open"
  /\ kind' = [kind EXCEPT ![c] = "primary"]
  /\ pc' = [pc EXCEPT ![c] = "over"]
  /\ UNCHANGED <<breakerVars, attempt, answer>>

StandInAnswers(c) ==
  /\ Return(c, Of("demo"))
  /\ kind' = [kind EXCEPT ![c] = "primary"]
  /\ UNCHANGED <<breakerVars, attempt>>

\* One request to the provider that build_llm_provider has made.
Ask(c) ==
  /\ asked' = [asked EXCEPT ![c] = @ + 1]
  /\ misfit' = [misfit EXCEPT ![c] = FALSE]
  /\ IF llm = "demo" THEN StandInAnswers(c) ELSE CallAdapter(c, "primary") \/ PrimaryIsBarred(c)
  /\ UNCHANGED <<known, cacheVars, allowCar, llm>>

AskModel(c) == pc[c] = "idle" /\ Ask(c)

RepairWithoutEnd(c) == pc[c] = "again" /\ Ask(c)

\* The answer did not fit: ask once more, with the error.
Repair(c) == pc[c] = "again" /\ asked[c] <= MaxRepairs /\ Ask(c)

\* The caller gets no answer and writes its own.
GiveUp(c) ==
  /\ pc[c] = "again" /\ asked[c] > MaxRepairs
  /\ Return(c, {})
  /\ UNCHANGED <<known, cacheVars, breakerVars, kind, allowCar, attempt, modelVars>>

\* The name of the model is the one of the primary's vendor, for both clients.
KnowsModel(a) == a = "primary" \/ llm = "same_vendor"

ModelAnswers(c) ==
  LET a == kind[c] IN
  /\ pc[c] = "calling" /\ a \in Models /\ KnowsModel(a)
  /\ RecordSuccess(a)
  /\ Return(c, Of(a))
  /\ UNCHANGED <<known, cacheVars, kind, allowCar, attempt, modelVars>>

\* A primary that fails in whatever way hands over; of a secondary a misfit
\* goes to complete_with_repair and every other error to the caller.
HandOver(c) ==
  /\ kind[c] = "primary"
  /\ pc' = [pc EXCEPT ![c] = "over"]
  /\ UNCHANGED answer

\* An answer without content or that does not validate. The client of one
\* vendor validates within the call, which then counts as failed.
AnswerMisfits(c) ==
  LET a == kind[c] IN
  /\ pc[c] = "calling" /\ a \in Models /\ KnowsModel(a)
  /\ misfit' = [misfit EXCEPT ![c] = TRUE]
  /\ RecordSuccess(a) \/ RecordFailure(a)
  /\ \/ HandOver(c)
     \/ a = "secondary" /\ pc' = [pc EXCEPT ![c] = "again"] /\ UNCHANGED answer
  /\ UNCHANGED <<known, cacheVars, kind, allowCar, attempt, llm, asked>>

\* The last attempt fails, or one with an error that is not transient: such as
\* a vendor that does not know the model.
ModelCallFails(c) ==
  LET a == kind[c] IN
  /\ pc[c] = "calling" /\ a \in Models
  /\ RecordFailure(a)
  /\ misfit' = [misfit EXCEPT ![c] = FALSE]
  /\ \/ HandOver(c)
     \/ a = "secondary" /\ Return(c, {})
  /\ UNCHANGED <<known, cacheVars, kind, allowCar, attempt, llm, asked>>

SecondaryIsBarred(c) ==
  /\ breaker["secondary"] = "open"
  /\ kind' = [kind EXCEPT ![c] = "secondary"]
  /\ Return(c, {})
  /\ UNCHANGED <<breakerVars, attempt>>

AskSecondaryUnlessBarred(c) ==
  /\ pc[c] = "over"
  /\ IF llm = "demo_behind" /\ breaker["primary"] # "open" THEN StandInAnswers(c)
     ELSE CallAdapter(c, "secondary") \/ SecondaryIsBarred(c)
  /\ misfit' = [misfit EXCEPT ![c] = FALSE]
  /\ UNCHANGED <<known, cacheVars, allowCar, llm, asked>>

AskSecondary(c) ==
  /\ pc[c] = "over"
  /\ IF llm = "demo_behind" THEN StandInAnswers(c) ELSE CallAdapter(c, "secondary") \/ SecondaryIsBarred(c)
  /\ misfit' = [misfit EXCEPT ![c] = FALSE]
  /\ UNCHANGED <<known, cacheVars, allowCar, llm, asked>>

ModelStep(c) ==
  \/ ModelAnswers(c) \/ AnswerMisfits(c) \/ ModelCallFails(c)
  \/ AskSecondary(c) \/ Repair(c) \/ GiveUp(c)
  \/ (AttemptFails(c) \/ Retry(c)) /\ UNCHANGED modelVars

ModelNext ==
  \/ \E c \in Callers : AskModel(c) \/ ModelStep(c)
  \/ Next /\ UNCHANGED modelVars

\* Every attempt ends: each has a timeout. So does the pause before a retry.
Progress(c) == ModelStep(c) \/ (CallStep(c) /\ UNCHANGED modelVars)

ModelSpec == ModelInit /\ [][ModelNext]_allVars /\ \A c \in Callers : WF_allVars(Progress(c))

(***************************************************************************)
(* Properties.                                                             *)
(***************************************************************************)
\* With the stand-in behind the vendor no call of the model is left without an
\* answer: not when the breaker is open, nor when its answers never fit; and a
\* caller without an answer has spent its repairs or met a secondary that
\* failed, whatever other callers did to the breakers meanwhile.
StandInNeverFails ==
  \A c \in Callers : pc[c] = "done" /\ kind[c] \in Models /\ answer[c] = {}
    => /\ llm \in {"same_vendor", "other_vendor"}
       /\ misfit[c] => asked[c] = MaxRepairs + 1 /\ KnowsModel("secondary")

\* An answer that does not fit the schema is asked for again, with the error,
\* before anybody else is asked (providers/llm.py:657).
MisfitIsRepaired == \A c \in Callers : pc[c] = "over" => ~misfit[c]
=============================================================================
