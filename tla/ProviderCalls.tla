---------------------------- MODULE ProviderCalls ----------------------------
(***************************************************************************)
(* Look-ups of places, transport and weather through the live adapters:    *)
(* local knowledge, the shared cache, the circuit breaker of the provider, *)
(* a call with bounded retries, and the local answer when it fails.        *)
(*                                                                         *)
(* Each kind of look-up is asked one question here: one name, one pair of  *)
(* places, one place and month. What the callers share is the cache of     *)
(* that question and the breaker. Time is left out: the cooldown of a      *)
(* breaker may end, and a cached answer may expire, in any step.           *)
(***************************************************************************)
EXTENDS TransportSearch

CONSTANTS
  Callers,
  MaxAttempts,  \* RetryPolicy.max_attempts
  Threshold,    \* CircuitBreaker.failure_threshold
  RowSets,      \* the records the pair may have
  Distances,    \* its distance in km; -1 when a place is unknown
  Matches,      \* confidence of the catalogue's match in percent; 0 is no match
  LiveMinutes   \* what a live route may take

ASSUME ProviderAssumption ==
  /\ MaxAttempts \in Nat \ {0} /\ Threshold \in Nat \ {0}
  /\ RowSets \subseteq SUBSET [mode : Modes, minutes : Nat, needsCar : BOOLEAN, by : {"record"}]
  /\ \A rows \in RowSets : \A r \in rows : r.mode = "car" => r.needsCar
  /\ Distances \subseteq Nat \cup {-1}
  /\ Matches \subseteq {0} \cup 72..100
  /\ LiveMinutes \subseteq Nat

Kinds == {"place", "transport", "weather"}

\* Every adapter has a breaker of its own, the two of the language model too.
Models == {"primary", "secondary"}
Adapters == Kinds \cup Models

VARIABLES
  \* local knowledge, which does not change
  rows, km, match,
  weatherKnown,  \* the place of the weather question is in the catalogue
  \* shared
  cached,        \* a kind's live answers; {} when there is none
  normals,       \* weather normals: "none", "all" months or "gaps"
  breaker,       \* "closed", "open", or "cooled" when the cooldown has passed
  failures,
  \* a caller
  kind, allowCar, pc, attempt, answer

known == <<rows, km, match, weatherKnown>>
cacheVars == <<cached, normals>>
breakerVars == <<breaker, failures>>
callerVars == <<kind, allowCar, pc, attempt, answer>>
vars == <<known, cacheVars, breakerVars, callerVars>>

(***************************************************************************)
(* Answers are sets of options; a place or weather answer says only whose  *)
(* it is, and {} is no answer.                                             *)
(***************************************************************************)
Of(provider) == {[by |-> provider]}

LocalAnswer(c, k) ==
  CASE k = "place"     -> IF match > 0 THEN Of("catalogue") ELSE {}
    [] k = "transport" -> SeededOptions(rows, km, allowCar[c])
    [] k = "weather"   -> IF weatherKnown THEN Of("seeded") ELSE {}

\* Local knowledge that the provider is not asked about.
LocalWins(c, k) ==
  CASE k = "place"     -> match >= 90
    [] k = "transport" -> Verified(SeededOptions(rows, km, allowCar[c])) # {}
    [] k = "weather"   -> ~weatherKnown

\* Answers a provider may give to this caller; {} when it found nothing.
LiveAnswers(c, k) ==
  CASE k = "place"     -> {{}, Of("live")}
    [] k = "transport" -> {{}} \cup {LiveOptions(SeededOptions(rows, km, allowCar[c]), n, allowCar[c]) : n \in LiveMinutes}
    [] k = "weather"   -> {{}, Of("live")}

TypeOK ==
  /\ rows \in RowSets /\ km \in Distances /\ match \in Matches /\ weatherKnown \in BOOLEAN
  /\ DOMAIN cached = Kinds /\ normals \in {"none", "all", "gaps"}
  /\ breaker \in [Adapters -> {"closed", "open", "cooled"}]
  /\ failures \in [Adapters -> Nat]
  /\ kind \in [Callers -> Adapters \cup {"none"}]
  /\ allowCar \in [Callers -> BOOLEAN]
  /\ pc \in [Callers -> {"idle", "calling", "backoff", "over", "again", "done"}]
  /\ attempt \in [Callers -> 0..MaxAttempts]
  /\ DOMAIN answer = Callers

Init ==
  /\ rows \in RowSets /\ km \in Distances /\ match \in Matches /\ weatherKnown \in BOOLEAN
  /\ cached = [k \in Kinds |-> {}] /\ normals = "none"
  /\ breaker = [k \in Adapters |-> "closed"]
  /\ failures = [k \in Adapters |-> 0]
  /\ kind = [c \in Callers |-> "none"]
  /\ allowCar \in [Callers -> BOOLEAN]
  /\ pc = [c \in Callers |-> "idle"]
  /\ attempt = [c \in Callers |-> 0]
  /\ answer = [c \in Callers |-> {}]

(***************************************************************************)
(* CircuitBreaker.                                                         *)
(***************************************************************************)
\* is_open: a breaker that has cooled closes when it is asked.
AskBreaker(k) ==
  IF breaker[k] = "cooled"
    THEN breaker' = [breaker EXCEPT ![k] = "closed"] /\ failures' = [failures EXCEPT ![k] = 0]
    ELSE UNCHANGED breakerVars

RecordSuccess(k) ==
  /\ breaker' = [breaker EXCEPT ![k] = "closed"]
  /\ failures' = [failures EXCEPT ![k] = 0]

RecordFailureAbove(k) ==
  /\ failures' = [failures EXCEPT ![k] = @ + 1]
  /\ breaker' = [breaker EXCEPT ![k] = IF failures[k] + 1 > Threshold THEN "open" ELSE @]

\* Every failure past the threshold starts the cooldown again.
RecordFailure(k) ==
  /\ failures' = [failures EXCEPT ![k] = @ + 1]
  /\ breaker' = [breaker EXCEPT ![k] = IF failures[k] + 1 >= Threshold THEN "open" ELSE @]

CooldownEnds(k) ==
  /\ breaker[k] = "open"
  /\ breaker' = [breaker EXCEPT ![k] = "cooled"]
  /\ UNCHANGED <<known, cacheVars, failures, callerVars>>

(***************************************************************************)
(* A look-up.                                                              *)
(***************************************************************************)
Return(c, value) ==
  /\ answer' = [answer EXCEPT ![c] = value]
  /\ pc' = [pc EXCEPT ![c] = "done"]

\* Normals without the month: the seeded climate, and no call until they expire.
NormalsLackMonth(k) == k = "weather" /\ normals = "gaps"

Answerable(c, k) == LocalWins(c, k) \/ cached[k] # {} \/ NormalsLackMonth(k)

\* Weather looks into the cache before anything else, the others after their
\* local knowledge.
AnswerFromHere(c, k) ==
  /\ Answerable(c, k)
  /\ Return(c, IF LocalWins(c, k) \/ cached[k] = {} THEN LocalAnswer(c, k) ELSE cached[k])
  /\ UNCHANGED <<cacheVars, breakerVars, attempt>>

\* With the normals of the place cached, no call is made.
AnswerFromNormals(c, k) ==
  /\ ~Answerable(c, k) /\ k = "weather" /\ normals = "all"
  /\ Return(c, Of("live"))
  /\ cached' = [cached EXCEPT ![k] = Of("live")]
  /\ UNCHANGED <<normals, breakerVars, attempt>>

MustCall(c, k) == ~Answerable(c, k) /\ ~(k = "weather" /\ normals = "all")

RefuseCall(c, k) ==
  /\ MustCall(c, k) /\ breaker[k] = "open"
  /\ Return(c, LocalAnswer(c, k))
  /\ UNCHANGED <<cacheVars, breakerVars, attempt>>

BeginCall(c, k) ==
  /\ MustCall(c, k) /\ breaker[k] # "open"
  /\ AskBreaker(k)
  /\ pc' = [pc EXCEPT ![c] = "calling"]
  /\ attempt' = [attempt EXCEPT ![c] = 1]
  /\ UNCHANGED <<cacheVars, answer>>

LookUp(c, k) ==
  /\ pc[c] = "idle"
  /\ kind' = [kind EXCEPT ![c] = k]
  /\ AnswerFromHere(c, k) \/ AnswerFromNormals(c, k) \/ RefuseCall(c, k) \/ BeginCall(c, k)
  /\ UNCHANGED <<known, allowCar>>

\* The provider answers. Weather without the month in question, like a search
\* that found nothing, is answered locally; the normals are kept all the same.
CallSucceeds(c) ==
  LET k == kind[c] IN
  /\ pc[c] = "calling" /\ k \in Kinds
  /\ RecordSuccess(k)
  /\ \E live \in LiveAnswers(c, k) :
       /\ Return(c, IF live = {} THEN LocalAnswer(c, k) ELSE live)
       /\ cached' = IF live = {} THEN cached ELSE [cached EXCEPT ![k] = live]
       /\ normals' = IF k # "weather" THEN normals ELSE IF live = {} THEN "gaps" ELSE "all"
  /\ UNCHANGED <<known, kind, allowCar, attempt>>

\* A timeout or transient error of an attempt that is not the last.
AttemptFails(c) ==
  /\ pc[c] = "calling" /\ attempt[c] < MaxAttempts
  /\ RecordFailure(kind[c])
  /\ pc' = [pc EXCEPT ![c] = "backoff"]
  /\ UNCHANGED <<known, cacheVars, kind, allowCar, attempt, answer>>

RetryOnceClosed(c) ==
  /\ pc[c] = "backoff" /\ breaker[kind[c]] = "closed"
  /\ pc' = [pc EXCEPT ![c] = "calling"]
  /\ attempt' = [attempt EXCEPT ![c] = @ + 1]
  /\ UNCHANGED <<known, cacheVars, breakerVars, kind, allowCar, answer>>

\* The breaker is not asked again: calls that had begun go on with their retries.
Retry(c) ==
  /\ pc[c] = "backoff"
  /\ pc' = [pc EXCEPT ![c] = "calling"]
  /\ attempt' = [attempt EXCEPT ![c] = @ + 1]
  /\ UNCHANGED <<known, cacheVars, breakerVars, kind, allowCar, answer>>

\* The last attempt fails, or any attempt with an error that is not transient.
CallFails(c) ==
  /\ pc[c] = "calling" /\ kind[c] \in Kinds
  /\ RecordFailure(kind[c])
  /\ Return(c, LocalAnswer(c, kind[c]))
  /\ UNCHANGED <<known, cacheVars, kind, allowCar, attempt>>

Expire(k) ==
  /\ cached[k] # {}
  /\ cached' = [cached EXCEPT ![k] = {}]
  /\ UNCHANGED <<known, normals, breakerVars, callerVars>>

ExpireNormals ==
  /\ normals # "none" /\ normals' = "none"
  /\ UNCHANGED <<known, cached, breakerVars, callerVars>>

CallStep(c) == CallSucceeds(c) \/ AttemptFails(c) \/ Retry(c) \/ CallFails(c)

Next ==
  \/ \E c \in Callers : CallStep(c) \/ \E k \in Kinds : LookUp(c, k)
  \/ \E k \in Adapters : CooldownEnds(k)
  \/ \E k \in Kinds : Expire(k)
  \/ ExpireNormals

Spec == Init /\ [][Next]_vars

\* Every attempt ends: each has a timeout.
FairSpec == Spec /\ \A c \in Callers : WF_vars(CallStep(c))

(***************************************************************************)
(* Properties.                                                             *)
(***************************************************************************)
\* A place the catalogue is sure of and a pair with verified records are never
\* answered by the provider or an estimate, whatever others have put into the
\* cache; a hop known only by car is told as such, also to who does not drive.
LocalKnowledgeWins ==
  \A c \in Callers : pc[c] = "done" =>
    /\ kind[c] = "place" /\ match >= 90 => answer[c] = Of("catalogue")
    /\ kind[c] = "transport" /\ rows # {} =>
         /\ answer[c] # {} /\ \A o \in answer[c] : o.by = "record"
         /\ (\A r \in rows : r.mode = "car") => PickOption(answer[c]).needsCar

\* Of an answer with a live route, the leg that is picked is that public one, whoever
\* filled the cache (route_service.py _pick_option). The list around it does depend on
\* who filled it: it keeps the car options of that caller (transport.py:240, 293), which
\* search_transport passes on as they are.
CachedRouteSuitsAll ==
  \A c \in Callers :
    pc[c] = "done" /\ kind[c] = "transport" /\ (\E o \in answer[c] : o.by = "live")
      => PickOption(answer[c]).by = "live"

\* A closed breaker has seen fewer failures in a row than its threshold, with
\* the retries of many callers counting together.
ClosedBelowThreshold == \A k \in Adapters : breaker[k] = "closed" => failures[k] < Threshold

\* Every look-up or model call that reaches a provider ends, however the
\* attempts fail, fall back or are repaired.
EveryLookUpIsAnswered == \A c \in Callers : pc[c] = "calling" ~> pc[c] = "done"
=============================================================================
