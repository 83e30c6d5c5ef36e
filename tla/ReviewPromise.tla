--------------------------- MODULE ReviewPromise ---------------------------
(***************************************************************************)
(* What human review promises, without tasks, calls or requests.           *)
(*                                                                         *)
(* An analysis is answered, fails, or waits for a subject to be decided.   *)
(* Deciding is permanent. A waiting analysis is released only after its    *)
(* subject was decided and a newer analysis was carried to its end in its  *)
(* place; it is never released before, and never waits again afterwards.   *)
(***************************************************************************)
EXTENDS Naturals

CONSTANTS Subjects, Analyses

VARIABLES
  phase,     \* where each analysis stands
  waitsFor,  \* the subject that blocks it, a set of at most one
  decided    \* subjects a reviewer has decided

promiseVars == <<phase, waitsFor, decided>>

Ended == {"answered", "failed", "waiting", "released"}

PromiseInit ==
  /\ phase = [a \in Analyses |-> "absent"]
  /\ waitsFor = [a \in Analyses |-> {}]
  /\ decided = {}

Begin(a) ==
  /\ phase[a] = "absent"
  /\ phase' = [phase EXCEPT ![a] = "running"]
  /\ UNCHANGED <<waitsFor, decided>>

Answer(a) ==
  /\ phase[a] = "running"
  /\ \E end \in {"answered", "failed"} : phase' = [phase EXCEPT ![a] = end]
  /\ UNCHANGED <<waitsFor, decided>>

Wait(a, s) ==
  /\ phase[a] = "running"
  /\ phase' = [phase EXCEPT ![a] = "waiting"]
  /\ waitsFor' = [waitsFor EXCEPT ![a] = {s}]
  /\ UNCHANGED decided

Decide(s) ==
  /\ decided' = decided \cup {s}
  /\ UNCHANGED <<phase, waitsFor>>

\* One request may release several analyses, each superseded by one of its own.
Release(S) ==
  /\ \A a \in S : phase[a] = "waiting" /\ waitsFor[a] \subseteq decided
  /\ \A a \in S : \E b \in Analyses : b > a /\ phase[b] \in Ended
  /\ phase' = [a \in Analyses |-> IF a \in S THEN "released" ELSE phase[a]]
  /\ UNCHANGED <<waitsFor, decided>>

PromiseNext ==
  \/ \E a \in Analyses : Begin(a) \/ Answer(a) \/ (\E s \in Subjects : Wait(a, s))
  \/ \E s \in Subjects : Decide(s)
  \/ \E S \in SUBSET Analyses : Release(S)

PromiseSpec == PromiseInit /\ [][PromiseNext]_promiseVars
=============================================================================
