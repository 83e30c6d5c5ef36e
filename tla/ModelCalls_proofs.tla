------------------------- MODULE ModelCalls_proofs -------------------------
(***************************************************************************)
(* Theorems about ModelCalls, and so about ProviderCalls, for any number   *)
(* of callers, attempts and repairs, any threshold of the breakers and any *)
(* local knowledge.                                                        *)
(*                                                                         *)
(* IInv is the inductive invariant. Beside the types it says what a call   *)
(* that has not ended presupposes: of a look-up, that local knowledge did  *)
(* not settle it; of a call of the model, which vendor it has got to.      *)
(***************************************************************************)
EXTENDS ModelCalls, TLAPS, WellFoundedInduction

(***************************************************************************)
(* The fastest option.                                                     *)
(***************************************************************************)
\* Numbers have a least one, however many there are.
LEMMA LeastExists == ASSUME NEW T, T \subseteq Nat, T # {} PROVE \E x \in T : \A y \in T : x <= y
<1> DEFINE R == OpToRel(<, Nat)
<1>1. IsWellFoundedOn(R, Nat)
    BY NatLessThanWellFounded
<1>2. \A x, y \in Nat : y < x => <<y, x>> \in R
    BY DEF OpToRel
<1> HIDE DEF R
<1>3. PICK x \in T : \A y \in T : ~(<<y, x>> \in R)
    BY <1>1, WFMin
<1>4. \A y \in T : ~(y < x)
    BY <1>2, <1>3
<1> QED
    BY <1>4

\* min() of a list that is not empty is one of the list.
LEMMA FastestIsOneOf ==
  ASSUME NEW S, S # {}, \A o \in S : o.minutes \in Nat
  PROVE  Fastest(S) \in S
<1>1. PICK n \in {o.minutes : o \in S} : \A m \in {o.minutes : o \in S} : n <= m
  <2> DEFINE T == {o.minutes : o \in S}
  <2>1. T \subseteq Nat /\ T # {}
      OBVIOUS
  <2> HIDE DEF T
  <2>2. \E x \in T : \A y \in T : x <= y
      BY <2>1, LeastExists
  <2> QED
      BY <2>2 DEF T
<1>2. \E o \in S : \A p \in S : o.minutes <= p.minutes
    BY <1>1
<1> QED
    BY <1>2 DEF Fastest

LEMMA FastestOfOne == ASSUME NEW o, o.minutes \in Nat PROVE Fastest({o}) = o
BY FastestIsOneOf

Row == [mode : Modes, minutes : Nat, needsCar : BOOLEAN, by : {"record"}]

LEMMA RowsAreRows ==
  ASSUME NEW R \in RowSets, NEW r \in R
  PROVE  r \in Row /\ (r.mode = "car" => r.needsCar) /\ r.minutes \in Nat
BY ProviderAssumption DEF Row

\* What the records of a pair say is told by the records alone, and a pair that is
\* only known by car is never told as a public connection.
LEMMA SeededFromRows ==
  ASSUME NEW R \in RowSets, R # {}, NEW d, NEW allow \in BOOLEAN
  PROVE  /\ SeededOptions(R, d, allow) # {}
         /\ \A o \in SeededOptions(R, d, allow) : o.by = "record"
         /\ (\A r \in R : r.mode = "car") => PickOption(SeededOptions(R, d, allow)).needsCar
<1>1. Fastest(R) \in R
    BY RowsAreRows, FastestIsOneOf
<1> DEFINE told == [Fastest(R) EXCEPT !.needsCar = TRUE]
<1>2. told \in Row /\ told.needsCar /\ told.mode = Fastest(R).mode /\ told.by = "record" /\ told.minutes \in Nat
    BY <1>1, RowsAreRows DEF Row
<1>3. CASE UsableRows(R, allow) # {}
  <2>1. SeededOptions(R, d, allow) = UsableRows(R, allow)
      BY <1>3 DEF SeededOptions
  <2>2. \A o \in UsableRows(R, allow) : o \in R /\ o.by = "record"
      BY RowsAreRows DEF UsableRows, Row
  <2>3. ASSUME \A r \in R : r.mode = "car" PROVE PickOption(UsableRows(R, allow)).needsCar
    <3>1. PublicOptions(UsableRows(R, allow)) = {}
        BY <2>3 DEF PublicOptions, UsableRows, PublicModes
    <3>2. Fastest(UsableRows(R, allow)) \in R
        BY <1>3, <2>2, RowsAreRows, FastestIsOneOf
    <3> QED
        BY <2>3, <3>1, <3>2, RowsAreRows DEF PickOption
  <2> QED
      BY <1>3, <2>1, <2>2, <2>3
<1>4. CASE UsableRows(R, allow) = {}
  <2>1. SeededOptions(R, d, allow) = {told}
      BY <1>4 DEF SeededOptions
  <2>2. PublicOptions({told}) = {}
      BY <1>2 DEF PublicOptions
  <2>3. PickOption({told}) = told
      BY <1>2, <2>2, FastestOfOne DEF PickOption
  <2> QED
      BY <1>2, <2>1, <2>3
<1> QED
    BY <1>3, <1>4

\* Nothing local is a live answer.
LEMMA SeededIsNotLive ==
  ASSUME NEW R \in RowSets, NEW d, NEW allow \in BOOLEAN
  PROVE  \A o \in SeededOptions(R, d, allow) : o.by # "live"
<1>1. CASE R # {}
    BY <1>1, SeededFromRows
<1>2. CASE R = {}
    BY <1>2 DEF SeededOptions, UsableRows, Estimates, EstimateOption, Option
<1> QED
    BY <1>1, <1>2

\* A live answer has one public option, the route that was found, whoever it was
\* found for; so that route is picked from it for everyone.
LiveRoute(options) ==
  \E n \in LiveMinutes : PublicOptions(options) = {Option("local_train", n, FALSE, "live")}

LEMMA LiveOptionsAreLive ==
  ASSUME NEW seeded, NEW n \in LiveMinutes, NEW allow
  PROVE  LiveRoute(LiveOptions(seeded, n, allow))
BY DEF LiveRoute, LiveOptions, PublicOptions, PublicModes, Option

LEMMA LiveRouteIsPicked ==
  ASSUME NEW options, LiveRoute(options)
  PROVE  options # {} /\ PickOption(options).by = "live"
<1>1. PICK n \in LiveMinutes : PublicOptions(options) = {Option("local_train", n, FALSE, "live")}
    BY DEF LiveRoute
<1> DEFINE o == Option("local_train", n, FALSE, "live")
<1>2. o.minutes \in Nat /\ o.by = "live"
    BY ProviderAssumption DEF Option
<1>3. Verified({o}) = {o}
    BY <1>2 DEF Verified
<1>4. PickOption(options) = Fastest({o})
    BY <1>1, <1>3 DEF PickOption
<1> QED
    BY <1>1, <1>2, <1>4, FastestOfOne DEF PublicOptions

(***************************************************************************)
(* Types.                                                                  *)
(***************************************************************************)
\* A caller that pauses has attempts left, and one that has not begun asked nothing.
TypeInv ==
  /\ ModelTypeOK
  /\ \A c \in Callers : pc[c] = "backoff" => attempt[c] < MaxAttempts
  /\ \A c \in Callers : pc[c] = "idle" => asked[c] = 0

Pcs == {"idle", "calling", "backoff", "over", "again", "done"}

\* All variables are well typed initially.
LEMMA InitTypes == ModelInit => TypeInv
BY ProviderAssumption, ModelAssumption DEF ModelInit, Init, TypeInv, ModelTypeOK, TypeOK, Adapters, Models, Kinds

\* Asking, closing and opening a breaker.
LEMMA BreakerTypes ==
  ASSUME TypeInv, NEW a, AskBreaker(a) \/ RecordSuccess(a) \/ RecordFailure(a)
  PROVE  breaker' \in [Adapters -> {"closed", "open", "cooled"}] /\ failures' \in [Adapters -> Nat]
BY DEF AskBreaker, RecordSuccess, RecordFailure, breakerVars, TypeInv, ModelTypeOK, TypeOK

\* A step of one caller that hands the answer over or returns it.
LEMMA CallerTypes ==
  ASSUME TypeInv, NEW c \in Callers, NEW a \in Adapters, NEW p \in Pcs,
         UNCHANGED <<known, allowCar, llm>>,
         breaker' \in [Adapters -> {"closed", "open", "cooled"}], failures' \in [Adapters -> Nat],
         DOMAIN cached' = Kinds, normals' \in {"none", "all", "gaps"},
         kind' = kind \/ kind' = [kind EXCEPT ![c] = a],
         pc' = [pc EXCEPT ![c] = p],
         attempt' = attempt \/ attempt' = [attempt EXCEPT ![c] = 1],
         DOMAIN answer' = Callers,
         asked' \in [Callers -> 0..(MaxRepairs + 1)],
         \A d \in Callers \ {c} : asked'[d] = asked[d],
         misfit' \in [Callers -> BOOLEAN],
         p # "idle", p = "backoff" => attempt' = attempt /\ attempt[c] < MaxAttempts
  PROVE  TypeInv'
<1> USE ProviderAssumption DEF TypeInv, ModelTypeOK, TypeOK, known, Pcs
<1>1. kind' \in [Callers -> Adapters \cup {"none"}] /\ pc' \in [Callers -> Pcs]
    OBVIOUS
<1>2. attempt' \in [Callers -> 0..MaxAttempts]
    OBVIOUS
<1>3. \A d \in Callers : pc'[d] = "backoff" => attempt'[d] < MaxAttempts
    OBVIOUS
<1>4. \A d \in Callers : pc'[d] = "idle" => asked'[d] = 0
    OBVIOUS
<1> QED
    BY <1>1, <1>2, <1>3, <1>4

\* Every step keeps the types, one case per action.
LEMMA StepTypes == TypeInv /\ [ModelNext]_allVars => TypeInv'
<1> SUFFICES ASSUME TypeInv, [ModelNext]_allVars PROVE TypeInv'
    OBVIOUS
<1>0. /\ \A c \in Callers : asked[c] \in 0..(MaxRepairs + 1) /\ attempt[c] \in 0..MaxAttempts
      /\ breaker \in [Adapters -> {"closed", "open", "cooled"}] /\ failures \in [Adapters -> Nat]
      /\ DOMAIN cached = Kinds /\ normals \in {"none", "all", "gaps"} /\ DOMAIN answer = Callers
      /\ asked \in [Callers -> 0..(MaxRepairs + 1)] /\ misfit \in [Callers -> BOOLEAN]
    BY DEF TypeInv, ModelTypeOK, TypeOK
<1> USE <1>0, BreakerTypes, CallerTypes
        DEF Pcs, Adapters, Kinds, Models, Return, known, cacheVars, breakerVars, callerVars, modelVars
<1>1. ASSUME NEW c \in Callers, pc[c] \in {"idle", "again"}, pc[c] = "again" => asked[c] <= MaxRepairs, Ask(c)
      PROVE  TypeInv'
  <2>1. asked[c] + 1 \in 0..(MaxRepairs + 1)
      BY <1>1, ModelAssumption DEF TypeInv
  <2>2. /\ asked' = [asked EXCEPT ![c] = @ + 1] /\ misfit' = [misfit EXCEPT ![c] = FALSE]
        /\ UNCHANGED <<known, cacheVars, allowCar, llm>>
      BY <1>1 DEF Ask
  <2>3. asked' \in [Callers -> 0..(MaxRepairs + 1)] /\ misfit' \in [Callers -> BOOLEAN]
      BY <2>1, <2>2
  <2>4. \A d \in Callers \ {c} : asked'[d] = asked[d]
      BY <2>2
  <2>5. CASE StandInAnswers(c)
      BY <2>2, <2>3, <2>4, <2>5 DEF StandInAnswers
  <2>6. CASE CallAdapter(c, "primary")
      BY <2>2, <2>3, <2>4, <2>6 DEF CallAdapter
  <2>7. CASE PrimaryIsBarred(c)
      BY <2>2, <2>3, <2>4, <2>7 DEF PrimaryIsBarred
  <2> QED
      BY <1>1, <2>5, <2>6, <2>7 DEF Ask
<1>2. ASSUME NEW c \in Callers, AskModel(c) \/ Repair(c) PROVE TypeInv'
    BY <1>1, <1>2 DEF AskModel, Repair
<1>3. ASSUME NEW c \in Callers, ModelAnswers(c) PROVE TypeInv'
    BY <1>3 DEF ModelAnswers
<1>4. ASSUME NEW c \in Callers, AnswerMisfits(c) PROVE TypeInv'
  <2>1. misfit' \in [Callers -> BOOLEAN] /\ UNCHANGED <<known, cacheVars, kind, allowCar, attempt, llm, asked>>
      BY <1>4 DEF AnswerMisfits
  <2>2. \E p \in {"over", "again"} : pc' = [pc EXCEPT ![c] = p]
      BY <1>4 DEF AnswerMisfits, HandOver
  <2>3. UNCHANGED answer
      BY <1>4 DEF AnswerMisfits, HandOver
  <2>4. RecordSuccess(kind[c]) \/ RecordFailure(kind[c])
      BY <1>4 DEF AnswerMisfits
  <2> QED
      BY <2>1, <2>2, <2>3, <2>4
<1>5. ASSUME NEW c \in Callers, ModelCallFails(c) PROVE TypeInv'
  <2>1. misfit' \in [Callers -> BOOLEAN] /\ UNCHANGED <<known, cacheVars, kind, allowCar, attempt, llm, asked>>
      BY <1>5 DEF ModelCallFails
  <2>2. \E p \in {"over", "done"} : pc' = [pc EXCEPT ![c] = p]
      BY <1>5 DEF ModelCallFails, HandOver
  <2>3. DOMAIN answer' = Callers /\ RecordFailure(kind[c])
      BY <1>5 DEF ModelCallFails, HandOver
  <2> QED
      BY <2>1, <2>2, <2>3
<1>6. ASSUME NEW c \in Callers, AskSecondary(c) PROVE TypeInv'
  <2>1. misfit' \in [Callers -> BOOLEAN] /\ UNCHANGED <<known, cacheVars, allowCar, llm, asked>>
      BY <1>6 DEF AskSecondary
  <2>2. CASE StandInAnswers(c)
      BY <2>1, <2>2 DEF StandInAnswers
  <2>3. CASE CallAdapter(c, "secondary")
      BY <2>1, <2>3 DEF CallAdapter
  <2>4. CASE SecondaryIsBarred(c)
      BY <2>1, <2>4 DEF SecondaryIsBarred
  <2> QED
      BY <1>6, <2>2, <2>3, <2>4 DEF AskSecondary
<1>7. ASSUME NEW c \in Callers, GiveUp(c) PROVE TypeInv'
    BY <1>7 DEF GiveUp
<1>8. ASSUME NEW c \in Callers, AttemptFails(c), UNCHANGED modelVars PROVE TypeInv'
    BY <1>8 DEF AttemptFails
<1>9. ASSUME NEW c \in Callers, Retry(c), UNCHANGED modelVars PROVE TypeInv'
  <2>1. attempt[c] + 1 \in 0..MaxAttempts
      BY <1>9, ProviderAssumption DEF Retry, TypeInv
  <2> QED
      BY <1>9, <2>1 DEF Retry, TypeInv, ModelTypeOK, TypeOK
<1>10. ASSUME NEW c \in Callers, CallSucceeds(c), UNCHANGED modelVars PROVE TypeInv'
  <2>1. DOMAIN cached' = Kinds /\ normals' \in {"none", "all", "gaps"}
      BY <1>10 DEF CallSucceeds
  <2>2. /\ DOMAIN answer' = Callers /\ pc' = [pc EXCEPT ![c] = "done"] /\ RecordSuccess(kind[c])
        /\ UNCHANGED <<known, kind, allowCar, attempt>>
      BY <1>10 DEF CallSucceeds
  <2> QED
      BY <1>10, <2>1, <2>2
<1>11. ASSUME NEW c \in Callers, CallFails(c), UNCHANGED modelVars PROVE TypeInv'
    BY <1>11 DEF CallFails
<1>12. ASSUME NEW c \in Callers, NEW k \in Kinds, LookUp(c, k), UNCHANGED modelVars PROVE TypeInv'
  <2>1. kind' = [kind EXCEPT ![c] = k] /\ UNCHANGED <<known, allowCar>>
      BY <1>12 DEF LookUp
  <2>2. CASE AnswerFromHere(c, k) \/ RefuseCall(c, k)
    <3>1. /\ DOMAIN answer' = Callers /\ pc' = [pc EXCEPT ![c] = "done"]
          /\ UNCHANGED <<cacheVars, breakerVars, attempt>>
        BY <2>2 DEF AnswerFromHere, RefuseCall
    <3> QED
        BY <1>12, <2>1, <3>1
  <2>3. CASE AnswerFromNormals(c, k)
      BY <1>12, <2>1, <2>3 DEF AnswerFromNormals
  <2>4. CASE BeginCall(c, k)
      BY <1>12, <2>1, <2>4 DEF BeginCall
  <2> QED
      BY <1>12, <2>2, <2>3, <2>4 DEF LookUp
<1>13. ASSUME NEW k \in Adapters, CooldownEnds(k), UNCHANGED modelVars PROVE TypeInv'
    BY <1>13 DEF CooldownEnds, TypeInv, ModelTypeOK, TypeOK
<1>14. ASSUME NEW k \in Kinds, Expire(k), UNCHANGED modelVars PROVE TypeInv'
    BY <1>14 DEF Expire, TypeInv, ModelTypeOK, TypeOK
<1>15. CASE ExpireNormals /\ UNCHANGED modelVars
    BY <1>15 DEF ExpireNormals, TypeInv, ModelTypeOK, TypeOK
<1>16. CASE UNCHANGED allVars
    BY <1>16 DEF allVars, vars, TypeInv, ModelTypeOK, TypeOK
<1> QED
    BY <1>2, <1>3, <1>4, <1>5, <1>6, <1>7, <1>8, <1>9, <1>10, <1>11, <1>12, <1>13, <1>14, <1>15, <1>16
    DEF ModelNext, ModelStep, Next, CallStep

(***************************************************************************)
(* The breakers.                                                           *)
(***************************************************************************)
\* No call, retry or cooldown, of however many callers, leaves a breaker closed that
\* has seen as many failures as its threshold.
LEMMA StepBreakers == TypeInv /\ ClosedBelowThreshold /\ [ModelNext]_allVars => ClosedBelowThreshold'
<1> SUFFICES ASSUME TypeInv, ClosedBelowThreshold, [ModelNext]_allVars PROVE ClosedBelowThreshold'
    OBVIOUS
<1>1. /\ breaker \in [Adapters -> {"closed", "open", "cooled"}] /\ failures \in [Adapters -> Nat]
    BY DEF TypeInv, ModelTypeOK, TypeOK
<1>2. CASE UNCHANGED breakerVars
    BY <1>2 DEF breakerVars, ClosedBelowThreshold
<1>3. ASSUME NEW a, AskBreaker(a) \/ RecordSuccess(a) \/ RecordFailure(a) PROVE ClosedBelowThreshold'
    BY <1>1, <1>2, <1>3, ProviderAssumption DEF AskBreaker, RecordSuccess, RecordFailure, ClosedBelowThreshold
<1>4. CASE \E k \in Adapters : CooldownEnds(k)
    BY <1>1, <1>4 DEF CooldownEnds, ClosedBelowThreshold
<1> USE <1>2, <1>3
<1>5. ASSUME NEW c \in Callers, Ask(c) PROVE ClosedBelowThreshold'
    BY <1>5 DEF Ask, StandInAnswers, CallAdapter, PrimaryIsBarred
<1>6. ASSUME NEW c \in Callers, ModelStep(c) PROVE ClosedBelowThreshold'
  <2>1. CASE ModelAnswers(c) \/ AnswerMisfits(c) \/ ModelCallFails(c)
      BY <2>1 DEF ModelAnswers, AnswerMisfits, ModelCallFails
  <2>2. CASE AskSecondary(c)
      BY <2>2 DEF AskSecondary, StandInAnswers, CallAdapter, SecondaryIsBarred
  <2>3. CASE Repair(c) \/ GiveUp(c)
      BY <2>3, <1>5 DEF Repair, GiveUp
  <2>4. CASE AttemptFails(c) \/ Retry(c)
      BY <2>4 DEF AttemptFails, Retry
  <2> QED
      BY <1>6, <2>1, <2>2, <2>3, <2>4 DEF ModelStep
<1>7. CASE Next
  <2>1. ASSUME NEW c \in Callers, CallStep(c) PROVE ClosedBelowThreshold'
      BY <2>1 DEF CallStep, CallSucceeds, AttemptFails, Retry, CallFails
  <2>2. ASSUME NEW c \in Callers, NEW k \in Kinds, LookUp(c, k) PROVE ClosedBelowThreshold'
      BY <2>2 DEF LookUp, AnswerFromHere, AnswerFromNormals, RefuseCall, BeginCall
  <2>3. CASE ExpireNormals \/ \E k \in Kinds : Expire(k)
      BY <2>3 DEF ExpireNormals, Expire
  <2> QED
      BY <1>4, <1>7, <2>1, <2>2, <2>3 DEF Next
<1>8. CASE UNCHANGED allVars
    BY <1>8 DEF allVars, vars
<1> QED
    BY <1>5, <1>6, <1>7, <1>8 DEF ModelNext, AskModel

(***************************************************************************)
(* Look-ups.                                                               *)
(***************************************************************************)
\* Whoever is to repair an answer has asked the model.
ModelCallsNameModels == \A c \in Callers : pc[c] = "again" => kind[c] \in Models

SeededFor(c) == SeededOptions(rows, km, allowCar[c])

\* What a look-up that has ended tells.
Told(c) ==
  /\ kind[c] = "place" /\ match >= 90 => answer[c] = Of("catalogue")
  /\ kind[c] = "transport" =>
       /\ rows # {} => answer[c] = SeededFor(c)
       /\ answer[c] = SeededFor(c) \/ LiveRoute(answer[c])

\* A call is only made when local knowledge does not settle the question, and what
\* is cached for the pair is a live route.
LookUpInv ==
  /\ \A c \in Callers, k \in Kinds : pc[c] \in {"calling", "backoff"} /\ kind[c] = k => ~LocalWins(c, k)
  /\ cached["transport"] = {} \/ LiveRoute(cached["transport"])
  /\ \A c \in Callers : pc[c] = "done" => Told(c)

\* No look-up has begun initially.
LEMMA InitLookUps == ModelInit => LookUpInv
BY DEF ModelInit, Init, LookUpInv, Kinds

\* A step of one caller leaves what the others were told, or wait for.
LEMMA LookUpOfOne ==
  ASSUME TypeInv, LookUpInv, NEW c \in Callers, UNCHANGED <<known, allowCar>>,
         \A d \in Callers \ {c} : pc'[d] = pc[d] /\ kind'[d] = kind[d] /\ answer'[d] = answer[d],
         cached'["transport"] \in {{}, cached["transport"]} \/ LiveRoute(cached'["transport"]),
         \A k \in Kinds : pc'[c] \in {"calling", "backoff"} /\ kind'[c] = k => ~LocalWins(c, k),
         pc'[c] = "done" => Told(c)'
  PROVE  LookUpInv'
<1>1. \A d \in Callers, k \in Kinds : LocalWins(d, k)' <=> LocalWins(d, k)
    BY DEF LocalWins, known
<1>2. \A d \in Callers \ {c} : Told(d) => Told(d)'
    BY DEF Told, SeededFor, known
<1>3. \A d \in Callers, k \in Kinds : pc'[d] \in {"calling", "backoff"} /\ kind'[d] = k => ~LocalWins(d, k)'
    BY <1>1 DEF LookUpInv
<1>4. \A d \in Callers : pc'[d] = "done" => Told(d)'
    BY <1>2 DEF LookUpInv
<1> QED
    BY <1>3, <1>4 DEF LookUpInv

\* What local knowledge answers may be told.
LEMMA LocalIsTold ==
  ASSUME TypeInv, NEW c \in Callers, NEW k \in Kinds
  PROVE  /\ k = "place" /\ match >= 90 => LocalWins(c, k) /\ LocalAnswer(c, k) = Of("catalogue")
         /\ k = "transport" => LocalAnswer(c, k) = SeededFor(c)
         /\ k = "transport" /\ rows # {} => LocalWins(c, k)
<1>1. k = "transport" /\ rows # {} => LocalWins(c, k)
  <2> SUFFICES ASSUME rows # {} PROVE Verified(SeededFor(c)) # {}
      BY DEF LocalWins, SeededFor
  <2>1. rows \in RowSets /\ allowCar[c] \in BOOLEAN
      BY DEF TypeInv, ModelTypeOK, TypeOK
  <2>2. SeededFor(c) # {} /\ \A o \in SeededFor(c) : o.by = "record"
      BY <2>1, SeededFromRows DEF SeededFor
  <2> QED
      BY <2>2 DEF Verified
<1>2. k = "transport" => LocalAnswer(c, k) = SeededFor(c)
    BY DEF LocalAnswer, SeededFor
<1>3. k = "place" /\ match >= 90 => LocalWins(c, k) /\ LocalAnswer(c, k) = Of("catalogue")
  <2>1. match \in Nat
      BY ProviderAssumption DEF TypeInv, ModelTypeOK, TypeOK
  <2> QED
      BY <2>1 DEF LocalAnswer, LocalWins
<1> QED
    BY <1>1, <1>2, <1>3

\* A live answer for the pair is a live route.
LEMMA LiveIsTold ==
  ASSUME NEW c \in Callers, NEW live \in LiveAnswers(c, "transport"), live # {}
  PROVE  LiveRoute(live)
BY LiveOptionsAreLive DEF LiveAnswers

\* Every step keeps what look-ups were told, one case per action.
LEMMA StepLookUps == TypeInv /\ ModelCallsNameModels /\ LookUpInv /\ [ModelNext]_allVars => LookUpInv'
<1> SUFFICES ASSUME TypeInv, ModelCallsNameModels, LookUpInv, [ModelNext]_allVars PROVE LookUpInv'
    OBVIOUS
<1>0. /\ DOMAIN answer = Callers /\ DOMAIN cached = Kinds
      /\ kind \in [Callers -> Adapters \cup {"none"}] /\ DOMAIN pc = Callers
    BY DEF TypeInv, ModelTypeOK, TypeOK
<1>1. ASSUME NEW c \in Callers, UNCHANGED <<known, allowCar, cached>>, kind'[c] \in Models,
             \A d \in Callers \ {c} : pc'[d] = pc[d] /\ kind'[d] = kind[d] /\ answer'[d] = answer[d]
      PROVE  LookUpInv'
    BY <1>1, LookUpOfOne DEF Told, Models, Kinds
<1>2. ASSUME NEW c \in Callers, Ask(c) \/ AskSecondary(c) PROVE LookUpInv'
    BY <1>0, <1>1, <1>2 DEF Ask, AskSecondary, StandInAnswers, CallAdapter, PrimaryIsBarred, SecondaryIsBarred,
       Return, Models, cacheVars
<1>3. ASSUME NEW c \in Callers, ModelAnswers(c) \/ AnswerMisfits(c) \/ ModelCallFails(c) PROVE LookUpInv'
    BY <1>0, <1>1, <1>3 DEF ModelAnswers, AnswerMisfits, ModelCallFails, HandOver, Return, cacheVars
<1>4. ASSUME NEW c \in Callers, GiveUp(c) PROVE LookUpInv'
    BY <1>0, <1>1, <1>4 DEF GiveUp, Return, cacheVars, ModelCallsNameModels
<1>5. ASSUME NEW c \in Callers, AttemptFails(c) \/ Retry(c) PROVE LookUpInv'
  <2>1. /\ UNCHANGED <<known, allowCar, cached, kind, answer>>
        /\ pc[c] \in {"calling", "backoff"} /\ pc'[c] \in {"calling", "backoff"}
        /\ \A d \in Callers \ {c} : pc'[d] = pc[d]
      BY <1>0, <1>5 DEF AttemptFails, Retry, cacheVars
  <2> QED
      BY <2>1, LookUpOfOne DEF LookUpInv
<1>6. ASSUME NEW c \in Callers, NEW k \in Kinds, NEW value,
             UNCHANGED <<known, allowCar>>, kind' = kind \/ kind' = [kind EXCEPT ![c] = k], kind'[c] = k,
             Return(c, value), cached'["transport"] \in {{}, cached["transport"]} \/ LiveRoute(cached'["transport"]),
             value = LocalAnswer(c, k) \/ (~LocalWins(c, k) /\ (k = "transport" => LiveRoute(value)))
      PROVE  LookUpInv'
  <2>1. /\ pc'[c] = "done" /\ answer'[c] = value
        /\ \A d \in Callers \ {c} : pc'[d] = pc[d] /\ kind'[d] = kind[d] /\ answer'[d] = answer[d]
      BY <1>0, <1>6 DEF Return
  <2>2. /\ k = "place" /\ match >= 90 => value = Of("catalogue")
        /\ k = "transport" => /\ rows # {} => value = SeededFor(c)
                              /\ value = SeededFor(c) \/ LiveRoute(value)
      BY <1>6, LocalIsTold
  <2>3. SeededFor(c)' = SeededFor(c) /\ UNCHANGED <<match, rows>>
      BY <1>6 DEF SeededFor, known
  <2>4. Told(c)'
      BY <1>6, <2>1, <2>2, <2>3 DEF Told, LiveRoute
  <2>5. ASSUME NEW j \in Kinds, pc'[c] \in {"calling", "backoff"}, kind'[c] = j PROVE ~LocalWins(c, j)
      BY <2>1, <2>5
  <2>6. pc'[c] = "done" => Told(c)'
      BY <2>4
  <2>7. cached'["transport"] \in {{}, cached["transport"]} \/ LiveRoute(cached'["transport"])
      BY <1>6
  <2>8. UNCHANGED <<known, allowCar>>
      BY <1>6
  <2> QED
      BY ONLY TypeInv, LookUpInv, <2>1, <2>5, <2>6, <2>7, <2>8, LookUpOfOne
<1>7. ASSUME NEW c \in Callers, CallSucceeds(c) PROVE LookUpInv'
  <2>1. kind[c] \in Kinds /\ ~LocalWins(c, kind[c])
      BY <1>7 DEF CallSucceeds, LookUpInv
  <2>2. PICK live \in LiveAnswers(c, kind[c]) :
          /\ Return(c, IF live = {} THEN LocalAnswer(c, kind[c]) ELSE live)
          /\ cached' = IF live = {} THEN cached ELSE [cached EXCEPT ![kind[c]] = live]
      BY <1>7 DEF CallSucceeds
  <2>3. UNCHANGED <<known, allowCar, kind>>
      BY <1>7 DEF CallSucceeds
  <2>4. live # {} /\ kind[c] = "transport" => LiveRoute(live)
      BY <2>2, LiveIsTold
  <2>5. cached'["transport"] = cached["transport"] \/ LiveRoute(cached'["transport"])
      BY <1>0, <2>1, <2>2, <2>4 DEF Kinds
  <2> QED
      BY <1>6, <2>1, <2>2, <2>3, <2>4, <2>5
<1>8. ASSUME NEW c \in Callers, CallFails(c) PROVE LookUpInv'
    BY <1>6, <1>8 DEF CallFails, cacheVars
<1>9. ASSUME NEW c \in Callers, NEW k \in Kinds, LookUp(c, k) PROVE LookUpInv'
  <2>1. kind' = [kind EXCEPT ![c] = k] /\ kind'[c] = k /\ UNCHANGED <<known, allowCar>>
      BY <1>0, <1>9 DEF LookUp
  <2>2. CASE AnswerFromHere(c, k)
    <3>1. CASE LocalWins(c, k) \/ cached[k] = {}
        BY <1>6, <2>1, <2>2, <3>1 DEF AnswerFromHere, cacheVars
    <3>2. CASE ~LocalWins(c, k) /\ cached[k] # {}
      <4>1. Return(c, cached[k]) /\ UNCHANGED cached
          BY <2>2, <3>2 DEF AnswerFromHere, cacheVars
      <4>2. k = "transport" => LiveRoute(cached[k])
          BY <3>2 DEF LookUpInv
      <4> QED
          BY <1>6, <2>1, <3>2, <4>1, <4>2
    <3> QED
        BY <3>1, <3>2
  <2>3. CASE AnswerFromNormals(c, k)
    <3>1. /\ ~LocalWins(c, k) /\ k = "weather" /\ Return(c, Of("live"))
          /\ cached'["transport"] = cached["transport"]
        BY <1>0, <2>3 DEF AnswerFromNormals, Answerable, Kinds
    <3> QED
        BY <1>6, <2>1, <3>1
  <2>4. CASE RefuseCall(c, k)
      BY <1>6, <2>1, <2>4 DEF RefuseCall, cacheVars
  <2>5. CASE BeginCall(c, k)
    <3>1. /\ ~LocalWins(c, k) /\ pc'[c] = "calling" /\ UNCHANGED <<cached, answer>>
          /\ \A d \in Callers \ {c} : pc'[d] = pc[d] /\ kind'[d] = kind[d]
        BY <1>0, <2>1, <2>5 DEF BeginCall, MustCall, Answerable, cacheVars
    <3> QED
        BY <2>1, <3>1, LookUpOfOne
  <2> QED
      BY <1>9, <2>2, <2>3, <2>4, <2>5 DEF LookUp
<1>10. CASE (\E k \in Adapters : CooldownEnds(k)) \/ (\E k \in Kinds : Expire(k)) \/ ExpireNormals \/ UNCHANGED allVars
  <2>1. UNCHANGED <<known, kind, allowCar, pc, answer>>
      BY <1>10 DEF CooldownEnds, Expire, ExpireNormals, allVars, vars, callerVars, known
  <2>2. cached'["transport"] \in {{}, cached["transport"]}
    <3>1. CASE \E k \in Kinds : Expire(k)
        BY <1>0, <3>1 DEF Expire, Kinds
    <3>2. CASE UNCHANGED cached
        BY <3>2
    <3> QED
        BY <1>10, <3>1, <3>2 DEF CooldownEnds, ExpireNormals, allVars, vars, cacheVars
  <2>3. \A c \in Callers, k \in Kinds : LocalWins(c, k)' <=> LocalWins(c, k)
      BY <2>1 DEF LocalWins, known
  <2>4. \A c \in Callers : Told(c)' <=> Told(c)
      BY <2>1 DEF Told, SeededFor, known
  <2> QED
      BY <2>1, <2>3, <2>4, <2>2 DEF LookUpInv
<1> QED
    BY <1>2, <1>3, <1>4, <1>5, <1>7, <1>8, <1>9, <1>10
    DEF ModelNext, ModelStep, AskModel, Repair, Next, CallStep

(***************************************************************************)
(* Calls of the model.                                                     *)
(***************************************************************************)
\* Only a live primary is called, or hands over; only a live vendor behind it is
\* called after it; and only one that knows the model can answer with a misfit.
VendorsInOrder ==
  \A c \in Callers :
    /\ pc[c] = "over" => kind[c] = "primary"
    /\ kind[c] = "primary" /\ pc[c] # "done" => llm # "demo"
    /\ kind[c] = "secondary" => llm \in {"same_vendor", "other_vendor"}
    /\ pc[c] = "again" => kind[c] = "secondary" /\ llm = "same_vendor"

ModelInv == VendorsInOrder /\ StandInNeverFails

\* No model is asked initially.
LEMMA InitModels == ModelInit => ModelInv
BY DEF ModelInit, Init, ModelInv, VendorsInOrder, StandInNeverFails, Models

\* A step of one caller leaves what the others ask and were answered.
LEMMA ModelOfOne ==
  ASSUME ModelInv, NEW c \in Callers, UNCHANGED llm,
         \A d \in Callers \ {c} : /\ pc'[d] = pc[d] /\ kind'[d] = kind[d] /\ answer'[d] = answer[d]
                                  /\ asked'[d] = asked[d] /\ misfit'[d] = misfit[d],
         pc'[c] = "over" => kind'[c] = "primary",
         kind'[c] = "primary" /\ pc'[c] # "done" => llm # "demo",
         kind'[c] = "secondary" => llm \in {"same_vendor", "other_vendor"},
         pc'[c] = "again" => kind'[c] = "secondary" /\ llm = "same_vendor",
         pc'[c] = "done" /\ kind'[c] \in Models /\ answer'[c] = {} =>
           /\ llm \in {"same_vendor", "other_vendor"}
           /\ misfit'[c] => asked'[c] = MaxRepairs + 1 /\ llm = "same_vendor"
  PROVE  ModelInv'
<1>1. VendorsInOrder'
    BY DEF ModelInv, VendorsInOrder
<1>2. KnowsModel("secondary")' <=> llm = "same_vendor"
    BY DEF KnowsModel
<1>3. KnowsModel("secondary") <=> llm = "same_vendor"
    BY DEF KnowsModel
<1>4. StandInNeverFails'
    BY <1>2, <1>3 DEF ModelInv, StandInNeverFails
<1> QED
    BY <1>1, <1>4 DEF ModelInv

\* Every step keeps the vendors in order, and leaves nobody without an answer that a
\* stand-in owes.
LEMMA StepModels == TypeInv /\ ModelInv /\ [ModelNext]_allVars => ModelInv'
<1> SUFFICES ASSUME TypeInv, ModelInv, [ModelNext]_allVars PROVE ModelInv'
    OBVIOUS
<1>0. /\ DOMAIN answer = Callers /\ llm \in AllSettings
      /\ kind \in [Callers -> Adapters \cup {"none"}] /\ DOMAIN pc = Callers
      /\ asked \in [Callers -> 0..(MaxRepairs + 1)] /\ misfit \in [Callers -> BOOLEAN]
    BY ModelAssumption DEF TypeInv, ModelTypeOK, TypeOK
<1>1. Of("demo") # {} /\ Of("primary") # {} /\ Of("secondary") # {}
    BY DEF Of
<1> USE <1>0, <1>1 DEF Models, Kinds, AllSettings, Return
<1>2. ASSUME NEW c \in Callers, Ask(c) PROVE ModelInv'
  <2>1. UNCHANGED llm /\ \A d \in Callers \ {c} : asked'[d] = asked[d] /\ misfit'[d] = misfit[d]
      BY <1>2 DEF Ask
  <2>2. CASE StandInAnswers(c)
      BY <2>1, <2>2, ModelOfOne DEF StandInAnswers
  <2>3. CASE llm # "demo" /\ (CallAdapter(c, "primary") \/ PrimaryIsBarred(c))
      BY <2>1, <2>3, ModelOfOne DEF CallAdapter, PrimaryIsBarred
  <2> QED
      BY <1>2, <2>2, <2>3 DEF Ask
<1>3. ASSUME NEW c \in Callers, AskModel(c) \/ Repair(c) PROVE ModelInv'
    BY <1>2, <1>3 DEF AskModel, Repair
<1>4. ASSUME NEW c \in Callers, ModelAnswers(c) PROVE ModelInv'
  <2>1. /\ pc'[c] = "done" /\ kind'[c] = kind[c] /\ answer'[c] # {} /\ UNCHANGED llm
        /\ \A d \in Callers \ {c} : /\ pc'[d] = pc[d] /\ kind'[d] = kind[d] /\ answer'[d] = answer[d]
                                    /\ asked'[d] = asked[d] /\ misfit'[d] = misfit[d]
      BY <1>4 DEF ModelAnswers, modelVars
  <2> QED
      BY <2>1, ModelOfOne DEF ModelInv, VendorsInOrder
<1>5. ASSUME NEW c \in Callers, AnswerMisfits(c) PROVE ModelInv'
  <2>1. /\ pc[c] = "calling" /\ kind'[c] = kind[c] /\ kind[c] \in Models /\ KnowsModel(kind[c]) /\ UNCHANGED llm
        /\ \/ kind[c] = "primary" /\ pc'[c] = "over"
           \/ kind[c] = "secondary" /\ pc'[c] = "again"
        /\ \A d \in Callers \ {c} : /\ pc'[d] = pc[d] /\ kind'[d] = kind[d] /\ answer'[d] = answer[d]
                                    /\ asked'[d] = asked[d] /\ misfit'[d] = misfit[d]
      BY <1>5 DEF AnswerMisfits, HandOver
  <2> QED
      BY <2>1, ModelOfOne DEF ModelInv, VendorsInOrder, KnowsModel
<1>6. ASSUME NEW c \in Callers, ModelCallFails(c) PROVE ModelInv'
  <2>1. /\ pc[c] = "calling" /\ kind'[c] = kind[c] /\ ~misfit'[c] /\ UNCHANGED llm
        /\ \/ kind[c] = "primary" /\ pc'[c] = "over"
           \/ kind[c] = "secondary" /\ pc'[c] = "done"
        /\ \A d \in Callers \ {c} : /\ pc'[d] = pc[d] /\ kind'[d] = kind[d] /\ answer'[d] = answer[d]
                                    /\ asked'[d] = asked[d] /\ misfit'[d] = misfit[d]
      BY <1>6 DEF ModelCallFails, HandOver
  <2> QED
      BY <2>1, ModelOfOne DEF ModelInv, VendorsInOrder
<1>7. ASSUME NEW c \in Callers, AskSecondary(c) PROVE ModelInv'
  <2>1. /\ pc[c] = "over" /\ kind[c] = "primary" /\ llm # "demo" /\ ~misfit'[c] /\ UNCHANGED llm
        /\ \A d \in Callers \ {c} : asked'[d] = asked[d] /\ misfit'[d] = misfit[d]
      BY <1>7 DEF AskSecondary, ModelInv, VendorsInOrder
  <2>2. CASE StandInAnswers(c)
      BY <2>1, <2>2, ModelOfOne DEF StandInAnswers
  <2>3. CASE llm # "demo_behind" /\ (CallAdapter(c, "secondary") \/ SecondaryIsBarred(c))
      BY <2>1, <2>3, ModelOfOne DEF CallAdapter, SecondaryIsBarred
  <2> QED
      BY <1>7, <2>2, <2>3 DEF AskSecondary
<1>8. ASSUME NEW c \in Callers, GiveUp(c) PROVE ModelInv'
  <2>1. asked[c] = MaxRepairs + 1 /\ kind[c] = "secondary" /\ llm = "same_vendor"
      BY <1>8, ModelAssumption DEF GiveUp, ModelInv, VendorsInOrder
  <2>2. /\ pc'[c] = "done" /\ UNCHANGED <<llm, kind, asked, misfit>>
        /\ \A d \in Callers \ {c} : pc'[d] = pc[d] /\ answer'[d] = answer[d]
      BY <1>8 DEF GiveUp, modelVars
  <2> QED
      BY <2>1, <2>2, ModelOfOne
<1>9. ASSUME NEW c \in Callers, UNCHANGED modelVars, AttemptFails(c) \/ Retry(c) PROVE ModelInv'
  <2>1. /\ pc[c] \in {"calling", "backoff"} /\ pc'[c] \in {"calling", "backoff"}
        /\ UNCHANGED <<llm, kind, answer, asked, misfit>> /\ \A d \in Callers \ {c} : pc'[d] = pc[d]
      BY <1>9 DEF AttemptFails, Retry, modelVars
  <2> QED
      BY <2>1, ModelOfOne DEF ModelInv, VendorsInOrder
<1>10. ASSUME NEW c \in Callers, UNCHANGED modelVars, CallSucceeds(c) \/ CallFails(c) PROVE ModelInv'
  <2>1. /\ kind[c] \in Kinds /\ pc'[c] = "done" /\ UNCHANGED <<llm, kind, asked, misfit>>
        /\ \A d \in Callers \ {c} : pc'[d] = pc[d] /\ answer'[d] = answer[d]
      BY <1>10 DEF CallSucceeds, CallFails, modelVars
  <2> QED
      BY <2>1, ModelOfOne
<1>11. ASSUME NEW c \in Callers, NEW k \in Kinds, UNCHANGED modelVars, LookUp(c, k) PROVE ModelInv'
  <2>1. /\ kind'[c] = k /\ pc'[c] \in {"done", "calling"} /\ UNCHANGED <<llm, asked, misfit>>
        /\ \A d \in Callers \ {c} : pc'[d] = pc[d] /\ kind'[d] = kind[d] /\ answer'[d] = answer[d]
      BY <1>11 DEF LookUp, AnswerFromHere, AnswerFromNormals, RefuseCall, BeginCall, modelVars
  <2> QED
      BY <2>1, ModelOfOne
<1>12. CASE UNCHANGED <<kind, pc, answer, modelVars>>
    BY <1>12 DEF modelVars, ModelInv, VendorsInOrder, StandInNeverFails, KnowsModel
<1> QED
    BY <1>3, <1>4, <1>5, <1>6, <1>7, <1>8, <1>9, <1>10, <1>11, <1>12
    DEF ModelNext, ModelStep, Next, CallStep, CooldownEnds, Expire, ExpireNormals, callerVars, allVars, vars

(***************************************************************************)
(* The theorems.                                                           *)
(***************************************************************************)
IInv == TypeInv /\ ClosedBelowThreshold /\ LookUpInv /\ ModelInv

\* What was told of a pair with records is what its records say.
LEMMA ToldOfRecords == TypeInv /\ LookUpInv => LocalKnowledgeWins
<1> SUFFICES ASSUME TypeInv, LookUpInv, NEW c \in Callers, pc[c] = "done"
             PROVE  /\ kind[c] = "place" /\ match >= 90 => answer[c] = Of("catalogue")
                    /\ kind[c] = "transport" /\ rows # {} =>
                         /\ answer[c] # {} /\ \A o \in answer[c] : o.by = "record"
                         /\ (\A r \in rows : r.mode = "car") => PickOption(answer[c]).needsCar
    BY DEF LocalKnowledgeWins
<1>1. Told(c) /\ rows \in RowSets /\ allowCar[c] \in BOOLEAN
    BY DEF LookUpInv, TypeInv, ModelTypeOK, TypeOK
<1> QED
    BY <1>1, SeededFromRows DEF Told, SeededFor

\* A live option was told with the route it came with, and that route is picked.
LEMMA ToldOfRoutes == TypeInv /\ LookUpInv => CachedRouteSuitsAll
<1> SUFFICES ASSUME TypeInv, LookUpInv, NEW c \in Callers, pc[c] = "done", kind[c] = "transport",
                    NEW o \in answer[c], o.by = "live"
             PROVE  PickOption(answer[c]).by = "live"
    BY DEF CachedRouteSuitsAll
<1>1. Told(c) /\ rows \in RowSets /\ allowCar[c] \in BOOLEAN
    BY DEF LookUpInv, TypeInv, ModelTypeOK, TypeOK
<1>2. LiveRoute(answer[c])
    BY <1>1, SeededIsNotLive DEF Told, SeededFor
<1> QED
    BY <1>2, LiveRouteIsPicked

\* The strengthening of all the properties below is an invariant of the specification.
THEOREM Invariance == ModelSpec => []IInv
<1>1. ModelInit => IInv
    BY InitTypes, InitLookUps, InitModels, ProviderAssumption DEF IInv, ModelInit, Init, ClosedBelowThreshold
<1>2. IInv /\ [ModelNext]_allVars => IInv'
  <2>1. ModelInv => ModelCallsNameModels
      BY DEF ModelInv, VendorsInOrder, ModelCallsNameModels, Models
  <2> QED
      BY <2>1, StepTypes, StepBreakers, StepLookUps, StepModels DEF IInv
<1> QED
    BY <1>1, <1>2, PTL DEF ModelSpec

\* Every variable keeps its type: no call makes more attempts than its policy
\* allows, nor is the model asked for more repairs than it may be.
THEOREM CallsAreTyped == ModelSpec => []ModelTypeOK
<1>1. IInv => ModelTypeOK
    BY DEF IInv, TypeInv
<1> QED
    BY <1>1, Invariance, PTL

\* What the catalogue is sure of, and what the records of a pair say, is what every
\* caller is told, whatever others have put into the cache meanwhile.
THEOREM LocalKnowledgeIsTold == ModelSpec => []LocalKnowledgeWins
<1>1. IInv => LocalKnowledgeWins
    BY ToldOfRecords DEF IInv
<1> QED
    BY <1>1, Invariance, PTL

\* The leg that is picked from an answer with a live route is that public one, for
\* whoever asks after the cache was filled, with a car or without one.
THEOREM CachedRoutesSuitAll == ModelSpec => []CachedRouteSuitsAll
<1>1. IInv => CachedRouteSuitsAll
    BY ToldOfRoutes DEF IInv
<1> QED
    BY <1>1, Invariance, PTL

\* A breaker that lets calls pass has seen fewer failures than its threshold, however
\* many callers fail and retry at once.
THEOREM BreakersOpenInTime == ModelSpec => []ClosedBelowThreshold
<1>1. IInv => ClosedBelowThreshold
    BY DEF IInv
<1> QED
    BY <1>1, Invariance, PTL

\* With the stand-in alone, or behind the vendor, no call of the model is left without
\* an answer, and otherwise only after a failed secondary or the last repair.
THEOREM StandInAlwaysAnswers == ModelSpec => []StandInNeverFails
<1>1. IInv => StandInNeverFails
    BY DEF IInv, ModelInv
<1> QED
    BY <1>1, Invariance, PTL
=============================================================================
