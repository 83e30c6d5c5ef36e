--------------------------- MODULE PurchasePromise ---------------------------
(***************************************************************************)
(* What a purchase promises, without sessions, events, keys or requests.   *)
(*                                                                         *)
(* A purchase is stored as pending, once and for good, as a demo or at     *)
(* Stripe. It is recorded as paid when it is a demo or Stripe has the      *)
(* money, and cancelled by a request that found it pending. Money that     *)
(* was taken is never given back, and none is taken for a demo.            *)
(***************************************************************************)
CONSTANT Purchases

VARIABLES
  phase,      \* where each purchase stands
  kind,       \* "demo" or "stripe" once it is stored
  money,      \* the purchases that Stripe was paid for
  cancelling  \* the purchases with a cancel under way

promiseVars == <<phase, kind, money, cancelling>>

PromiseInit ==
  /\ phase = [p \in Purchases |-> "none"]
  /\ kind = [p \in Purchases |-> "none"]
  /\ money = {}
  /\ cancelling = {}

Store(p, k) ==
  /\ phase[p] = "none"
  /\ k = "demo" => p \notin money
  /\ phase' = [phase EXCEPT ![p] = "pending"]
  /\ kind' = [kind EXCEPT ![p] = k]
  /\ UNCHANGED <<money, cancelling>>

\* The payment may be made before the purchase is stored, or for none at all.
Pay(p) ==
  /\ kind[p] # "demo"
  /\ money' = money \cup {p}
  /\ UNCHANGED <<phase, kind, cancelling>>

\* A cancelled purchase may be paid after all: Stripe goes on asking for the
\* money, and a demo can still be confirmed.
Record(p) ==
  /\ kind[p] = "demo" \/ (kind[p] = "stripe" /\ p \in money)
  /\ phase' = [phase EXCEPT ![p] = "paid"]
  /\ UNCHANGED <<kind, money, cancelling>>

AskToCancel(p) ==
  /\ phase[p] = "pending"
  /\ cancelling' = cancelling \cup {p}
  /\ UNCHANGED <<phase, kind, money>>

\* The purchase may have been paid since the cancel was asked for. Others may
\* have asked as well.
Cancel(p) ==
  /\ p \in cancelling
  /\ phase' = [phase EXCEPT ![p] = "cancelled"]
  /\ cancelling' \in {cancelling, cancelling \ {p}}
  /\ UNCHANGED <<kind, money>>

DropCancels ==
  /\ cancelling' \subseteq cancelling
  /\ UNCHANGED <<phase, kind, money>>

PromiseNext ==
  \/ \E p \in Purchases :
       \/ \E k \in {"demo", "stripe"} : Store(p, k)
       \/ Pay(p) \/ Record(p) \/ AskToCancel(p) \/ Cancel(p)
  \/ DropCancels

PromiseSpec == PromiseInit /\ [][PromiseNext]_promiseVars
=============================================================================
