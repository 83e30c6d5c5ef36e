--------------------------- MODULE ClosingSummary ---------------------------
(***************************************************************************)
(* The closing summary of an analysis (agents/common/explanation.py and    *)
(* domain/explanation.py): the model restates a sheet of facts, and what   *)
(* it adds to them, or leaves out that is disputed, is discarded for a     *)
(* summary built from the facts alone.                                     *)
(*                                                                         *)
(* The facts are a record [told, disputed, doubtful]: the literals on the  *)
(* sheet, whether it has a conflict or waits for a reviewer, and whether   *)
(* its confidence is low or something is unknown. Of a summary the model   *)
(* keeps the literals and whether it has caveats.                          *)
(***************************************************************************)
EXTENDS Guardrails

Facts(told, disputed, doubtful) == [told |-> told, disputed |-> disputed, doubtful |-> doubtful]

DeterministicSummary(facts) ==
  [by |-> "deterministic", literals |-> facts.told, caveats |-> facts.disputed \/ facts.doubtful]

\* The closing sentences of the model, with a caveat or without
ModelSummaries(sentences) == [by : {"model"}, literals : {Range(s) : s \in sentences}, caveats : BOOLEAN]

InventsALiteral(summary, facts) == ~(summary.literals \subseteq facts.told)

Violation(summary, facts) ==
  InventsALiteral(summary, facts) \/ (facts.disputed /\ ~summary.caveats)

\* The model may also fail altogether.
FinalExplanations(sentences, facts) ==
  {DeterministicSummary(facts)} \cup {s \in ModelSummaries(sentences) : ~Violation(s, facts)}
=============================================================================
