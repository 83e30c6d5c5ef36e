----------------------------- MODULE Guardrails -----------------------------
(***************************************************************************)
(* The checks every draft of an agent passes before it is shown            *)
(* (agents/common/guardrails.py): what they find, how far they lower the   *)
(* confidence of the answer and when they ask for a human.                 *)
(*                                                                         *)
(* Prose is the sequence of operational literals it asserts: a literal is  *)
(* a pair of its kind (time, price, date) and its text. A chunk of         *)
(* evidence is a record with its id, the literals it contains and whether  *)
(* it is a stale chunk about a critical topic. A draft is a record:        *)
(*   blocks     the set of prose blocks                                    *)
(*   cited      the set of evidence ids it cites                           *)
(*   evidence   the set of chunks retrieved for it                         *)
(*   computed   the literals among the deterministic values                *)
(*   hostile    whether a retrieved chunk was quarantined                  *)
(*   floor      the least number of chunks for a confident answer          *)
(*   disputed   whether it depends on a conflict                           *)
(*   gaps       the checks that could not be performed                     *)
(***************************************************************************)
EXTENDS Integers, Sequences, FiniteSets, FiniteSetsExt, Functions

Kinds == {"time", "price", "date"}

(***************************************************************************)
(* Confidence states, in the order of _downgrade.                          *)
(***************************************************************************)
Insufficient == 0
Low == 1
Medium == 2
High == 3
Confidences == Insufficient..High

NoReason == "none"

Chunk(id, literals, staleCritical) ==
  [id |-> id, literals |-> literals, staleCritical |-> staleCritical]

\* operational_literals of a set of blocks
Literals(blocks) == UNION {Range(block) : block \in blocks}

Ids(evidence) == {c.id : c \in evidence}

(***************************************************************************)
(* G1 - G7.                                                                *)
(***************************************************************************)
DanglingCitations(d) == d.cited \ Ids(d.evidence)

Supported(d) == UNION {c.literals : c \in d.evidence} \cup d.computed

\* Each literal of a kind is looked up anew in the block: the first one is found.
FirstOfKind(block, kind) ==
  LET places == {i \in DOMAIN block : block[i][1] = kind}
  IN  IF places = {} THEN {} ELSE {block[Min(places)]}

Asserted(blocks) == UNION {FirstOfKind(b, k) : b \in blocks, k \in Kinds}

UnsupportedClaims(d) == Asserted(d.blocks) \ Supported(d)

StaleChunks(d) == {c \in d.evidence : c.staleCritical}

\* Stale, cited, and a figure of it is repeated.
LoadBearing(d) == {c \in StaleChunks(d) : c.id \in d.cited /\ c.literals \cap Literals(d.blocks) # {}}

\* Any evidence will do.
NoEvidence(d) == d.evidence = {}

TooLittleEvidence(d) == Cardinality(d.evidence) < d.floor

Findings(d) ==
  {code \in {"G1", "G2", "G3", "G4", "G5", "G7"} :
     CASE code = "G1" -> DanglingCitations(d) # {}
       [] code = "G2" -> UnsupportedClaims(d) # {}
       [] code = "G3" -> StaleChunks(d) # {}
       [] code = "G4" -> TooLittleEvidence(d)
       [] code = "G5" -> d.hostile
       [] code = "G7" -> d.gaps # {}}

(***************************************************************************)
(* run_guardrails.                                                         *)
(***************************************************************************)
Cap(d, code) == IF code \in {"G1", "G2", "G4", "G7"} THEN Low ELSE Medium

Confidence(d) ==
  Min({High} \cup {Cap(d, code) : code \in Findings(d)}
             \cup (IF d.evidence = {} THEN {Insufficient} ELSE {})
             \cup (IF d.disputed THEN {Medium} ELSE {}))

\* A conflict lowers the confidence, and nobody is asked.
ReviewReasonOfEvidence(d) ==
  IF LoadBearing(d) # {} THEN "stale_critical_evidence"
  ELSE IF Findings(d) \cap {"G1", "G2"} # {} THEN "grounding_failed"
  ELSE NoReason

ReviewReason(d) ==
  IF d.disputed THEN "conflicting_sources"
  ELSE IF LoadBearing(d) # {} THEN "stale_critical_evidence"
  ELSE IF Findings(d) \cap {"G1", "G2"} # {} THEN "grounding_failed"
  ELSE NoReason

Report(d) == [confidence |-> Confidence(d), reason |-> ReviewReason(d),
              stripped |-> UnsupportedClaims(d), findings |-> Findings(d)]

NoReport == [confidence |-> Medium, reason |-> NoReason, stripped |-> {}, findings |-> {}]

\* human_review_required is set with a reason, and only then.
NeedsHuman(report) == report.reason # NoReason

=============================================================================
