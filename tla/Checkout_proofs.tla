-------------------------- MODULE Checkout_proofs --------------------------
(***************************************************************************)
(* Theorems about Checkout, for any number of purchases, requests and      *)
(* faults.                                                                 *)
(*                                                                         *)
(* IInv adds to the types what each pending write rests on: a delivery     *)
(* that was read and a sync that was answered saw a paid session, and a    *)
(* session that is paid stays so, whatever is committed before the write.  *)
(* With it, Checkout implements PurchasePromise.                           *)
(***************************************************************************)
EXTENDS Checkout, TLAPS

\* What is true of a purchase whose checkout has gone this far.
Advanced ==
  \A p \in Purchases :
    /\ pc[p] = "idle" => provider[p] = "none" /\ status[p] = "none"
    /\ status[p] # "none" => pc[p] = "committed"
    /\ pc[p] = "asking" => provider[p] = "stripe"
    /\ pc[p] \in {"ready", "committed"} /\ provider[p] = "stripe" => session[p] # "none"
    /\ pc[p] \in {"ready", "committed"} => provider[p] \in {"demo", "stripe"}
    /\ linked[p] => status[p] # "none"
    /\ session[p] # "none" => provider[p] = "stripe"

\* A write that marks a Stripe purchase as paid follows from a paid session.
WritesArePaid ==
  /\ \A p \in Purchases : event[p] = "paid" => session[p] = "paid"
  /\ \A p \in Purchases : hook[p] = "read" => WebhookConcerns(p)
  /\ \A r \in Requests :
       reqPc[r] # "idle" =>
         /\ on[r] \in Purchases
         /\ status[on[r]] # "none"
         /\ reqPc[r] = "write" /\ op[r] = "confirm" => provider[on[r]] = "demo"
         /\ reqPc[r] = "write" /\ op[r] = "sync" => session[on[r]] = "paid"
         /\ op[r] \in {"confirm", "cancel", "sync"}
         /\ reqPc[r] = "asking" => op[r] = "sync"

IInv == TypeOK /\ Advanced /\ WritesArePaid /\ PaidMeansPaid /\ StoredCanBeSettled

\* The start satisfies the invariant: nothing is stored and nobody has paid.
LEMMA InitInv == Init => IInv
BY CheckoutAssumption DEF Init, IInv, TypeOK, Advanced, WritesArePaid, PaidMeansPaid,
   StoredCanBeSettled, Modes, Statuses, WebhookConcerns

\* Every step keeps the types.
LEMMA StepType == IInv /\ [Next]_vars => TypeOK'
<1> SUFFICES ASSUME IInv, [Next]_vars PROVE TypeOK'
    OBVIOUS
<1> USE CheckoutAssumption DEF IInv, TypeOK, Modes, Statuses, purchaseTable, checkoutVars,
        stripeVars, hookVars, requestVars
<1>1. ASSUME NEW p \in Purchases, StartCheckout(p) PROVE TypeOK'
    BY <1>1 DEF StartCheckout
<1>2. ASSUME NEW p \in Purchases, StripeCreatesSession(p) \/ TakeSession(p) PROVE TypeOK'
    BY <1>2 DEF StripeCreatesSession, TakeSession
<1>3. ASSUME NEW p \in Purchases, CommitCheckout(p) \/ SendUrl(p) PROVE TypeOK'
  <2>1. CASE SendUrl(p)
      BY <2>1 DEF SendUrl
  <2>2. CASE CommitCheckout(p)
    <3>1. (provider[p] = "stripe") \in BOOLEAN
        OBVIOUS
    <3>2. linked' \in [Purchases -> BOOLEAN]
        BY <2>2, <3>1, Zenon DEF CommitCheckout
    <3> QED
        BY <2>2, <3>2 DEF CommitCheckout
  <2> QED
      BY <1>3, <2>1, <2>2
<1>4. ASSUME NEW p \in Purchases, CheckoutFails(p) PROVE TypeOK'
    BY <1>4 DEF CheckoutFails, Fault
<1>5. ASSUME NEW p \in Purchases, CompleteSession(p) \/ FundsArrive(p) PROVE TypeOK'
    BY <1>5 DEF CompleteSession, FundsArrive
<1>6. ASSUME NEW p \in Purchases, WebhookStep(p) PROVE TypeOK'
    BY <1>6 DEF WebhookStep, IgnoreWebhook, ReadWebhook, CommitWebhook, MarkPaid
<1>7. ASSUME NEW p \in Purchases, WebhookFails(p) \/ RedeliverWebhook(p) PROVE TypeOK'
    BY <1>7 DEF WebhookFails, RedeliverWebhook, Fault
<1>8. ASSUME NEW r \in Requests, NEW p \in Purchases, ConfirmDemo(r, p) \/ Cancel(r, p) \/ Sync(r, p)
      PROVE TypeOK'
    BY <1>8 DEF ConfirmDemo, Cancel, Sync, Read
<1>9. ASSUME NEW r \in Requests, StripeAnswersSync(r) \/ CommitRequest(r) PROVE TypeOK'
    BY <1>9 DEF StripeAnswersSync, CommitRequest, MarkPaid
<1>10. ASSUME NEW r \in Requests, RequestFails(r) PROVE TypeOK'
    BY <1>10 DEF RequestFails, Fault
<1>11. CASE Restart
    BY <1>11 DEF Restart, Fault
<1>12. CASE UNCHANGED vars
    BY <1>12 DEF vars
<1> QED
    BY <1>1, <1>2, <1>3, <1>4, <1>5, <1>6, <1>7, <1>8, <1>9, <1>10, <1>11, <1>12
       DEF Next, CheckoutStep, RequestStep

\* Every step keeps what the writes rest on.
LEMMA StepFacts == IInv /\ [Next]_vars => (Advanced /\ WritesArePaid /\ PaidMeansPaid /\ StoredCanBeSettled)'
<1> SUFFICES ASSUME IInv, [Next]_vars
             PROVE  Advanced' /\ WritesArePaid' /\ PaidMeansPaid' /\ StoredCanBeSettled'
    OBVIOUS
<1> DEFINE Facts == Advanced /\ WritesArePaid /\ PaidMeansPaid /\ StoredCanBeSettled
<1> USE CheckoutAssumption DEF IInv, TypeOK, Modes, Statuses, purchaseTable, checkoutVars,
        stripeVars, hookVars, requestVars, Advanced, WritesArePaid, PaidMeansPaid, StoredCanBeSettled, WebhookConcerns
<1>1. ASSUME NEW p \in Purchases, StartCheckout(p) PROVE Facts'
    BY <1>1 DEF StartCheckout
<1>2. ASSUME NEW p \in Purchases, StripeCreatesSession(p) \/ TakeSession(p) PROVE Facts'
    BY <1>2 DEF StripeCreatesSession, TakeSession
<1>3. ASSUME NEW p \in Purchases, CommitCheckout(p) \/ SendUrl(p) PROVE Facts'
  <2>1. CASE SendUrl(p)
      BY <2>1 DEF SendUrl
  <2>2. CASE CommitCheckout(p) /\ provider[p] = "stripe"
    <3>1. linked' = [linked EXCEPT ![p] = TRUE]
        BY <2>2, Zenon DEF CommitCheckout
    <3> QED
        BY <2>2, <3>1 DEF CommitCheckout
  <2>3. CASE CommitCheckout(p) /\ provider[p] # "stripe"
    <3>1. linked' = [linked EXCEPT ![p] = FALSE]
        BY <2>3, Zenon DEF CommitCheckout
    <3> QED
        BY <2>3, <3>1 DEF CommitCheckout
  <2> QED
      BY <1>3, <2>1, <2>2, <2>3
<1>4. ASSUME NEW p \in Purchases, CheckoutFails(p) PROVE Facts'
    BY <1>4 DEF CheckoutFails, Fault
<1>5. ASSUME NEW p \in Purchases, CompleteSession(p) \/ FundsArrive(p) PROVE Facts'
    BY <1>5 DEF CompleteSession, FundsArrive
<1>6. ASSUME NEW p \in Purchases, WebhookStep(p) PROVE Facts'
    BY <1>6 DEF WebhookStep, IgnoreWebhook, ReadWebhook, WebhookConcerns, CommitWebhook, MarkPaid
<1>7. ASSUME NEW p \in Purchases, WebhookFails(p) \/ RedeliverWebhook(p) PROVE Facts'
    BY <1>7 DEF WebhookFails, RedeliverWebhook, Fault
<1>8. ASSUME NEW r \in Requests, NEW p \in Purchases, ConfirmDemo(r, p) \/ Cancel(r, p) \/ Sync(r, p)
      PROVE Facts'
    BY <1>8 DEF ConfirmDemo, Cancel, Sync, Read
<1>9. ASSUME NEW r \in Requests, StripeAnswersSync(r) PROVE Facts'
  <2>1. CASE session[on[r]] = "paid"
      BY <1>9, <2>1 DEF StripeAnswersSync
  <2>2. CASE session[on[r]] # "paid"
      BY <1>9, <2>2 DEF StripeAnswersSync
  <2> QED
      BY <2>1, <2>2
<1>10. ASSUME NEW r \in Requests, CommitRequest(r) PROVE Facts'
    BY <1>10 DEF CommitRequest, MarkPaid
<1>11. ASSUME NEW r \in Requests, RequestFails(r) PROVE Facts'
    BY <1>11 DEF RequestFails, Fault
<1>12. CASE Restart
    BY <1>12 DEF Restart, Fault
<1>13. CASE UNCHANGED vars
    BY <1>13 DEF vars
<1> QED
    BY <1>1, <1>2, <1>3, <1>4, <1>5, <1>6, <1>7, <1>8, <1>9, <1>10, <1>11, <1>12, <1>13
       DEF Next, CheckoutStep, RequestStep

\* The invariant holds in every reachable state.
LEMMA Invariance == Spec => []IInv
<1>1. IInv /\ [Next]_vars => IInv'
    BY StepType, StepFacts DEF IInv
<1> QED
    BY InitInv, <1>1, PTL DEF Spec

\* The variables of Checkout keep their types.
THEOREM CheckoutTypes == Spec => []TypeOK
<1>1. IInv => TypeOK
    BY DEF IInv
<1> QED
    BY Invariance, <1>1, PTL

\* A Stripe purchase that is recorded as paid was paid, with any number of
\* confirms, syncs and deliveries in flight.
THEOREM PaidPurchasesWerePaid == Spec => []PaidMeansPaid
<1>1. IInv => PaidMeansPaid
    BY DEF IInv
<1> QED
    BY Invariance, <1>1, PTL

\* No stored Stripe purchase is cut off from its session.
THEOREM StoredPurchasesCanBeSettled == Spec => []StoredCanBeSettled
<1>1. IInv => StoredCanBeSettled
    BY DEF IInv
<1> QED
    BY Invariance, <1>1, PTL

(***************************************************************************)
(* Checkout implements PurchasePromise.                                    *)
(***************************************************************************)
\* The start of Checkout is the start of the promise.
LEMMA InitMaps == Init => Promise!PromiseInit
BY DEF Init, Promise!PromiseInit, KindStored, Money, Cancelling, CancelIsOpen

\* A step that leaves the stored purchases, the payments and the open cancels
\* alone is none of the promise.
LEMMA NothingPromised ==
  ASSUME status' = status, provider' = provider, Money' = Money, Cancelling' = Cancelling
  PROVE  UNCHANGED Promise!promiseVars
BY DEF Promise!promiseVars, KindStored

\* As long as no request with a cancel starts or ends, the open cancels stay.
LEMMA SameCancels ==
  ASSUME reqPc' = reqPc, op' = op, on' = on
  PROVE  Cancelling' = Cancelling
BY DEF Cancelling, CancelIsOpen

\* A checkout stores its purchase when it commits. Its other steps promise nothing.
LEMMA CheckoutMaps ==
  ASSUME IInv, NEW p \in Purchases, CheckoutStep(p) \/ CheckoutFails(p)
  PROVE  Promise!PromiseNext \/ UNCHANGED Promise!promiseVars
<1> USE DEF requestVars, stripeVars, hookVars, checkoutVars, purchaseTable
<1>1. Cancelling' = Cancelling
    BY SameCancels DEF CheckoutStep, StartCheckout, StripeCreatesSession, TakeSession, CommitCheckout, SendUrl,
       CheckoutFails, CompleteSession, FundsArrive
<1>2. CASE StartCheckout(p)
  <2>1. KindStored' = KindStored
      BY <1>2 DEF StartCheckout, KindStored, IInv, Advanced, TypeOK
  <2>2. Money' = Money
      BY <1>2 DEF StartCheckout, Money
  <2> QED
      BY <1>1, <1>2, <2>1, <2>2 DEF StartCheckout, Promise!promiseVars
<1>3. CASE StripeCreatesSession(p)
  <2>1. Money' = Money
      BY <1>3 DEF StripeCreatesSession, Money, IInv, TypeOK
  <2> QED
      BY <1>1, <1>3, <2>1, NothingPromised DEF StripeCreatesSession
<1>4. CASE TakeSession(p) \/ SendUrl(p) \/ CheckoutFails(p)
  <2>1. status' = status /\ provider' = provider /\ session' = session
      BY <1>4 DEF TakeSession, SendUrl, CheckoutFails
  <2>2. Money' = Money
      BY <2>1 DEF Money
  <2> QED
      BY <1>1, <2>1, <2>2, NothingPromised
<1>5. CASE CommitCheckout(p)
  <2>1. status[p] = "none" /\ provider[p] \in {"demo", "stripe"} /\ provider' = provider /\ session' = session
      BY <1>5 DEF CommitCheckout, IInv, Advanced
  <2>2. provider[p] = "demo" => p \notin Money
      BY DEF Money, IInv, Advanced
  <2>3. status' = [status EXCEPT ![p] = "pending"]
      BY <1>5 DEF CommitCheckout
  <2>4. KindStored' = [KindStored EXCEPT ![p] = provider[p]]
      BY <2>1, <2>3 DEF KindStored, IInv, TypeOK
  <2>5. Money' = Money
      BY <2>1 DEF Money
  <2>6. Promise!Store(p, provider[p])
      BY <1>1, <2>1, <2>2, <2>3, <2>4, <2>5 DEF Promise!Store
  <2> QED
      BY <2>1, <2>6 DEF Promise!PromiseNext
<1>6. CASE CompleteSession(p) \/ FundsArrive(p)
  <2>1. status' = status /\ provider' = provider
      BY <1>6 DEF CompleteSession, FundsArrive
  <2>2. session[p] \in {"open", "processing"} /\ provider[p] = "stripe"
      BY <1>6 DEF CompleteSession, FundsArrive, IInv, Advanced
  <2>3. KindStored' = KindStored /\ KindStored[p] # "demo"
      BY <2>1, <2>2 DEF KindStored
  <2>4. \/ session' = [session EXCEPT ![p] = "paid"]
        \/ session' = [session EXCEPT ![p] = "processing"]
      BY <1>6 DEF CompleteSession, FundsArrive
  <2>5. Money' = Money \cup {p} \/ Money' = Money
      BY <2>2, <2>4 DEF Money, IInv, TypeOK
  <2>6. CASE Money' = Money
      BY <1>1, <2>1, <2>6, NothingPromised
  <2>7. CASE Money' = Money \cup {p}
    <3>1. Promise!Pay(p)
        BY <1>1, <2>1, <2>3, <2>7 DEF Promise!Pay
    <3> QED
        BY <3>1 DEF Promise!PromiseNext
  <2> QED
      BY <2>5, <2>6, <2>7
<1> QED
    BY <1>2, <1>3, <1>4, <1>5, <1>6 DEF CheckoutStep

\* Whoever marks a stored purchase as paid, by a confirm or by money, keeps the
\* promise, whatever its status was when it was read.
LEMMA MarkPaidMaps ==
  ASSUME TypeOK, NEW p \in Purchases, NEW statusRead, MarkPaid(p, statusRead), status[p] # "none",
         provider[p] = "demo" \/ (provider[p] = "stripe" /\ session[p] = "paid"),
         provider' = provider, session' = session, Cancelling' = Cancelling
  PROVE  Promise!PromiseNext \/ UNCHANGED Promise!promiseVars
<1>1. Money' = Money
    BY DEF Money
<1>2. CASE status' = status
    BY <1>1, <1>2, NothingPromised
<1>3. CASE status' = [status EXCEPT ![p] = "paid"]
  <2>1. KindStored[p] = "demo" \/ (KindStored[p] = "stripe" /\ p \in Money)
      BY DEF KindStored, Money
  <2>2. KindStored' = KindStored
      BY <1>3 DEF KindStored, TypeOK
  <2>3. Promise!Record(p)
      BY <1>1, <1>3, <2>1, <2>2 DEF Promise!Record
  <2> QED
      BY <2>3 DEF Promise!PromiseNext
<1> QED
    BY <1>2, <1>3 DEF MarkPaid

\* A delivery records a payment that was made, once it is committed.
LEMMA WebhookMaps ==
  ASSUME IInv, NEW p \in Purchases, WebhookStep(p) \/ WebhookFails(p) \/ RedeliverWebhook(p)
  PROVE  Promise!PromiseNext \/ UNCHANGED Promise!promiseVars
<1> USE DEF requestVars, stripeVars, checkoutVars, purchaseTable
<1>1. /\ Cancelling' = Cancelling
      /\ provider' = provider /\ session' = session
    BY SameCancels DEF WebhookStep, IgnoreWebhook, ReadWebhook, CommitWebhook, WebhookFails, RedeliverWebhook
<1>2. CASE CommitWebhook(p)
  <2>1. MarkPaid(p, hookSeen[p]) /\ linked[p] /\ session[p] = "paid"
      BY <1>2 DEF CommitWebhook, IInv, WritesArePaid, WebhookConcerns
  <2>2. status[p] # "none" /\ provider[p] = "stripe"
      BY <2>1 DEF IInv, Advanced
  <2> QED
      BY <1>1, <2>1, <2>2, MarkPaidMaps DEF IInv
<1>3. CASE ~CommitWebhook(p)
  <2>1. status' = status
      BY <1>3 DEF WebhookStep, IgnoreWebhook, ReadWebhook, WebhookFails, RedeliverWebhook
  <2>2. Money' = Money
      BY <1>1 DEF Money
  <2> QED
      BY <1>1, <2>1, <2>2, NothingPromised
<1> QED
    BY <1>2, <1>3

\* A request asks for a cancel when it has read a pending purchase. Nothing else
\* that it reads is promised.
LEMMA ReadMaps ==
  ASSUME IInv, NEW r \in Requests, NEW p \in Purchases, ConfirmDemo(r, p) \/ Cancel(r, p) \/ Sync(r, p)
  PROVE  Promise!PromiseNext \/ UNCHANGED Promise!promiseVars
<1> USE DEF stripeVars, purchaseTable, Read
<1>1. /\ reqPc[r] = "idle"
      /\ status' = status /\ provider' = provider /\ session' = session
    BY DEF ConfirmDemo, Cancel, Sync
<1>2. Money' = Money
    BY <1>1 DEF Money
<1>3. \A q \in Requests \ {r} : reqPc'[q] = reqPc[q] /\ op'[q] = op[q] /\ on'[q] = on[q]
    BY DEF ConfirmDemo, Cancel, Sync, IInv, TypeOK
<1>4. CASE Cancel(r, p) /\ status[p] = "pending"
  <2>1. reqPc'[r] = "write" /\ op'[r] = "cancel" /\ on'[r] = p
      BY <1>4 DEF Cancel, IInv, TypeOK
  <2>2. Cancelling' = Cancelling \cup {p}
      BY <1>1, <1>3, <2>1 DEF Cancelling, CancelIsOpen
  <2>3. KindStored' = KindStored
      BY <1>1 DEF KindStored
  <2>4. Promise!AskToCancel(p)
      BY <1>1, <1>2, <1>4, <2>2, <2>3 DEF Promise!AskToCancel
  <2> QED
      BY <2>4 DEF Promise!PromiseNext
<1>5. CASE ~(Cancel(r, p) /\ status[p] = "pending")
  <2>1. ~(reqPc'[r] = "write" /\ op'[r] = "cancel")
      BY <1>5 DEF ConfirmDemo, Cancel, Sync, IInv, TypeOK
  <2>2. Cancelling' = Cancelling
      BY <1>1, <1>3, <2>1 DEF Cancelling, CancelIsOpen
  <2> QED
      BY <1>1, <1>2, <2>2, NothingPromised
<1> QED
    BY <1>4, <1>5

\* The write of a request cancels a purchase that was found pending or marks
\* one as paid that is a demo or was paid for.
LEMMA WriteMaps ==
  ASSUME IInv, NEW r \in Requests, CommitRequest(r)
  PROVE  Promise!PromiseNext \/ UNCHANGED Promise!promiseVars
<1> USE DEF stripeVars
<1> DEFINE p == on[r]
<1>1. /\ reqPc[r] = "write" /\ reqPc' = [reqPc EXCEPT ![r] = "done"]
      /\ provider' = provider /\ session' = session /\ op' = op /\ on' = on
    BY DEF CommitRequest
<1>2. p \in Purchases /\ status[p] # "none"
    BY <1>1 DEF IInv, WritesArePaid
<1>3. Money' = Money
    BY <1>1 DEF Money
<1>4. \A q \in Requests : reqPc'[q] = IF q = r THEN "done" ELSE reqPc[q]
    BY <1>1 DEF IInv, TypeOK
<1>5. CASE op[r] = "cancel"
  <2>1. status' = [status EXCEPT ![p] = "cancelled"]
      BY <1>5 DEF CommitRequest
  <2>2. p \in Cancelling
      BY <1>1, <1>2, <1>5 DEF Cancelling, CancelIsOpen
  <2>3. Cancelling' \in {Cancelling, Cancelling \ {p}}
    <3>1. \A q \in Purchases \ {p} : q \in Cancelling' <=> q \in Cancelling
        BY <1>1, <1>4 DEF Cancelling, CancelIsOpen
    <3>2. Cancelling \subseteq Purchases /\ Cancelling' \subseteq Purchases
        BY DEF Cancelling
    <3> QED
        BY <2>2, <3>1, <3>2
  <2>4. KindStored' = KindStored
      BY <1>1, <1>2, <2>1 DEF KindStored, IInv, TypeOK
  <2>5. Promise!Cancel(p)
      BY <1>3, <2>1, <2>2, <2>3, <2>4 DEF Promise!Cancel
  <2> QED
      BY <1>2, <2>5 DEF Promise!PromiseNext
<1>6. CASE op[r] # "cancel"
  <2>1. MarkPaid(p, seen[r])
      BY <1>6 DEF CommitRequest
  <2>2. provider[p] = "demo" \/ (provider[p] = "stripe" /\ session[p] = "paid")
      BY <1>1, <1>2, <1>6 DEF IInv, WritesArePaid, Advanced
  <2>3. Cancelling' = Cancelling
      BY <1>1, <1>4, <1>6 DEF Cancelling, CancelIsOpen
  <2> QED
      BY <1>1, <1>2, <2>1, <2>2, <2>3, MarkPaidMaps DEF IInv
<1> QED
    BY <1>5, <1>6

\* A request that fails or is killed may drop its cancel and does nothing else.
LEMMA DropMaps ==
  ASSUME status' = status, provider' = provider, session' = session, op' = op, on' = on,
         \A r \in Requests : reqPc'[r] = "write" => reqPc[r] = "write"
  PROVE  Promise!PromiseNext
<1>1. Cancelling' \subseteq Cancelling
    BY DEF Cancelling, CancelIsOpen
<1>2. KindStored' = KindStored /\ Money' = Money
    BY DEF KindStored, Money
<1> QED
    BY <1>1, <1>2 DEF Promise!PromiseNext, Promise!DropCancels

\* Every step keeps the promise or does nothing of what is promised.
LEMMA StepMaps ==
  IInv /\ [Next]_vars => Promise!PromiseNext \/ UNCHANGED Promise!promiseVars
<1> SUFFICES ASSUME IInv, [Next]_vars
             PROVE  Promise!PromiseNext \/ UNCHANGED Promise!promiseVars
    OBVIOUS
<1>1. ASSUME NEW p \in Purchases,
             CheckoutStep(p) \/ WebhookStep(p) \/ WebhookFails(p) \/ RedeliverWebhook(p)
      PROVE  Promise!PromiseNext \/ UNCHANGED Promise!promiseVars
    BY <1>1, CheckoutMaps, WebhookMaps
<1>2. ASSUME NEW r \in Requests, RequestStep(r)
      PROVE  Promise!PromiseNext \/ UNCHANGED Promise!promiseVars
  <2>1. CASE StripeAnswersSync(r)
    <3>1. ~CancelIsOpen(r, on[r]) /\ op[r] # "cancel"
        BY <2>1 DEF StripeAnswersSync, IInv, WritesArePaid, CancelIsOpen
    <3>2. /\ status' = status /\ provider' = provider /\ session' = session /\ op' = op /\ on' = on
          /\ \A q \in Requests \ {r} : reqPc'[q] = reqPc[q]
        BY <2>1 DEF StripeAnswersSync, purchaseTable, stripeVars, IInv, TypeOK
    <3>3. Cancelling' = Cancelling
        BY <3>1, <3>2 DEF Cancelling, CancelIsOpen
    <3>4. Money' = Money
        BY <3>2 DEF Money
    <3> QED
        BY <3>2, <3>3, <3>4, NothingPromised
  <2>2. CASE RequestFails(r)
    <3>1. /\ status' = status /\ provider' = provider /\ session' = session /\ op' = op /\ on' = on
          /\ \A q \in Requests : reqPc'[q] = "write" => reqPc[q] = "write"
        BY <2>2 DEF RequestFails, purchaseTable, stripeVars, IInv, TypeOK
    <3> QED
        BY <3>1, DropMaps
  <2> QED
      BY <1>2, <2>1, <2>2, ReadMaps, WriteMaps DEF RequestStep
<1>3. CASE Restart
  <2>1. /\ status' = status /\ provider' = provider /\ session' = session /\ op' = op /\ on' = on
        /\ \A q \in Requests : reqPc'[q] = "write" => reqPc[q] = "write"
      BY <1>3 DEF Restart, purchaseTable, stripeVars
  <2> QED
      BY <2>1, DropMaps
<1>4. CASE UNCHANGED vars
  <2>1. status' = status /\ provider' = provider /\ session' = session
      BY <1>4 DEF vars, purchaseTable, stripeVars
  <2>2. Cancelling' = Cancelling
      BY <1>4, SameCancels DEF vars, requestVars
  <2>3. Money' = Money
      BY <2>1 DEF Money
  <2> QED
      BY <2>1, <2>2, <2>3, NothingPromised
<1> QED
    BY <1>1, <1>2, <1>3, <1>4 DEF Next

\* Checkout implements PurchasePromise: with any number of purchases and requests,
\* a purchase is stored once, is paid only for money or as a demo, is cancelled
\* only by a cancel that found it pending, and a demo is never charged.
THEOREM PromiseIsKept == Spec => KeepsPromise
<1>1. IInv /\ [Next]_vars => [Promise!PromiseNext]_(Promise!promiseVars)
    BY StepMaps
<1> QED
    BY Invariance, InitMaps, <1>1, PTL DEF Spec, KeepsPromise, Promise!PromiseSpec
=============================================================================
