------------------------------ MODULE Checkout ------------------------------
(***************************************************************************)
(* Checkout of the paid plans: BillingService and its routes.              *)
(*                                                                         *)
(* A checkout inserts a purchase and, unless no Stripe key is configured,  *)
(* has Stripe create a payment session before the transaction commits. The *)
(* traveller pays on Stripe's page. The purchase learns of it from Stripe's*)
(* webhook, which is redelivered until it is answered, or from the return  *)
(* page, which asks Stripe; the page of a cancelled checkout cancels it.   *)
(* Every request reads the purchase and writes it back in a transaction of *)
(* its own, without a lock in between.                                     *)
(***************************************************************************)
EXTENDS Naturals

CONSTANTS
  Purchases,   \* calls of POST /checkout; a row is named after the call
  Requests,    \* calls of demo-confirm, cancel and sync
  Price,       \* the configured price of a plan
  Production,  \* environment = "production"
  MaxFaults,   \* bound: aborted requests, timeouts, redeliveries and restarts
  None

Plans == {"free", "verified_route", "route_check"}
Kinds == {"where_next", "route_check"}

ASSUME CheckoutAssumption ==
  /\ Price \in [Plans \ {"free"} -> Nat]
  /\ Production \in BOOLEAN
  /\ MaxFaults \in Nat
  /\ None \notin Purchases \cup Kinds

VARIABLES
  mode,      \* "demo", "stripe_test" or "stripe_live": what the key says
  \* table purchases
  status,    \* "none" until the insert is committed
  provider,
  linked,    \* provider_session_id is set
  \* POST /checkout
  pc,
  url,       \* the traveller has been sent the checkout_url
  \* Stripe
  session,   \* the payment session of a purchase
  event,     \* payment_status in its checkout.session.completed event
  hook,      \* delivery of that event
  hookSeen,  \* purchase.status as the webhook read it
  \* a request
  op,
  on,        \* its purchase
  reqPc,
  seen,      \* purchase.status as it read it
  faults

purchaseTable == <<status, provider, linked>>
checkoutVars == <<pc, url>>
stripeVars == <<session, event>>
hookVars == <<hook, hookSeen>>
requestVars == <<op, on, reqPc, seen>>
vars == <<mode, purchaseTable, checkoutVars, stripeVars, hookVars, requestVars, faults>>

Modes == {"demo", "stripe_test", "stripe_live"}
Statuses == {"none", "pending", "paid", "cancelled"}

TypeOK ==
  /\ mode \in Modes
  /\ status \in [Purchases -> Statuses]
  /\ provider \in [Purchases -> {"none", "demo", "stripe"}]
  /\ linked \in [Purchases -> BOOLEAN]
  /\ pc \in [Purchases -> {"idle", "asking", "ready", "committed", "failed"}]
  /\ url \in [Purchases -> BOOLEAN]
  /\ session \in [Purchases -> {"none", "open", "processing", "paid"}]
  /\ event \in [Purchases -> {"none", "unpaid", "paid"}]
  /\ hook \in [Purchases -> {"none", "due", "read", "answered"}]
  /\ hookSeen \in [Purchases -> Statuses]
  /\ op \in [Requests -> {"none", "confirm", "cancel", "sync"}]
  /\ on \in [Requests -> Purchases \cup {None}]
  /\ reqPc \in [Requests -> {"idle", "asking", "write", "done"}]
  /\ seen \in [Requests -> Statuses]
  /\ faults \in 0..MaxFaults

Init ==
  /\ mode \in Modes
  /\ status = [p \in Purchases |-> "none"]
  /\ provider = [p \in Purchases |-> "none"]
  /\ linked = [p \in Purchases |-> FALSE]
  /\ pc = [p \in Purchases |-> "idle"]
  /\ url = [p \in Purchases |-> FALSE]
  /\ session = [p \in Purchases |-> "none"]
  /\ event = [p \in Purchases |-> "none"]
  /\ hook = [p \in Purchases |-> "none"]
  /\ hookSeen = [p \in Purchases |-> "none"]
  /\ op = [r \in Requests |-> "none"]
  /\ on = [r \in Requests |-> None]
  /\ reqPc = [r \in Requests |-> "idle"]
  /\ seen = [r \in Requests |-> "none"]
  /\ faults = 0

Fault == faults < MaxFaults /\ faults' = faults + 1

(***************************************************************************)
(* POST /checkout.                                                         *)
(***************************************************************************)
\* A plan that costs something, against no analysis or one of its own kind.
MaySell(plan, kind) ==
  /\ plan \in DOMAIN Price /\ Price[plan] > 0
  /\ \/ kind = None
     \/ plan = "verified_route" /\ kind = "where_next"
     \/ plan = "route_check" /\ kind = "route_check"

\* _client refuses a live key outside production.
ClientIsAllowed == mode # "demo" /\ (mode = "stripe_live" => Production)

StartCheckout(p) ==
  /\ pc[p] = "idle"
  /\ \E plan \in Plans, kind \in Kinds \cup {None} : MaySell(plan, kind)
  /\ \/ /\ mode = "demo"
        /\ provider' = [provider EXCEPT ![p] = "demo"]
        /\ pc' = [pc EXCEPT ![p] = "ready"]
     \/ /\ ClientIsAllowed
        /\ provider' = [provider EXCEPT ![p] = "stripe"]
        /\ pc' = [pc EXCEPT ![p] = "asking"]
  /\ UNCHANGED <<mode, status, linked, url, stripeVars, hookVars, requestVars, faults>>

\* Stripe may create the session when the caller has already given up.
StripeCreatesSession(p) ==
  /\ provider[p] = "stripe" /\ pc[p] \in {"asking", "failed"} /\ session[p] = "none"
  /\ session' = [session EXCEPT ![p] = "open"]
  /\ UNCHANGED <<mode, purchaseTable, checkoutVars, event, hookVars, requestVars, faults>>

TakeSession(p) ==
  /\ pc[p] = "asking" /\ session[p] # "none"
  /\ pc' = [pc EXCEPT ![p] = "ready"]
  /\ UNCHANGED <<mode, purchaseTable, url, stripeVars, hookVars, requestVars, faults>>

CommitCheckoutAsAtStripe(p) ==
  /\ pc[p] = "ready"
  /\ pc' = [pc EXCEPT ![p] = "committed"]
  /\ status' = [status EXCEPT ![p] = session[p]]
  /\ linked' = [linked EXCEPT ![p] = provider[p] = "stripe"]
  /\ UNCHANGED <<mode, provider, url, stripeVars, hookVars, requestVars, faults>>

CommitCheckout(p) ==
  /\ pc[p] = "ready"
  /\ pc' = [pc EXCEPT ![p] = "committed"]
  /\ status' = [status EXCEPT ![p] = "pending"]
  /\ linked' = [linked EXCEPT ![p] = provider[p] = "stripe"]
  /\ UNCHANGED <<mode, provider, url, stripeVars, hookVars, requestVars, faults>>

\* The commit is the exit of a dependency of the route: whether it comes before
\* or after the response is sent depends on the installed FastAPI.
SendUrl(p) ==
  /\ pc[p] \in {"ready", "committed"} /\ ~url[p]
  /\ url' = [url EXCEPT ![p] = TRUE]
  /\ UNCHANGED <<mode, purchaseTable, pc, stripeVars, hookVars, requestVars, faults>>

CheckoutFailsKeepingRow(p) ==
  /\ Fault
  /\ pc[p] \in {"asking", "ready"}
  /\ pc' = [pc EXCEPT ![p] = "failed"]
  /\ status' = [status EXCEPT ![p] = "pending"]
  /\ UNCHANGED <<mode, provider, linked, url, stripeVars, hookVars, requestVars>>

\* The timeout of Stripe's call, or any other error: the insert is rolled back.
CheckoutFails(p) ==
  /\ Fault
  /\ pc[p] \in {"asking", "ready"}
  /\ pc' = [pc EXCEPT ![p] = "failed"]
  /\ UNCHANGED <<mode, purchaseTable, url, stripeVars, hookVars, requestVars>>

(***************************************************************************)
(* The traveller on Stripe's page. A payment method may settle later.      *)
(***************************************************************************)
CompleteSession(p) ==
  /\ url[p] /\ session[p] = "open"
  /\ \/ /\ session' = [session EXCEPT ![p] = "paid"]
        /\ event' = [event EXCEPT ![p] = "paid"]
     \/ /\ session' = [session EXCEPT ![p] = "processing"]
        /\ event' = [event EXCEPT ![p] = "unpaid"]
  /\ hook' = [hook EXCEPT ![p] = "due"]
  /\ UNCHANGED <<mode, purchaseTable, checkoutVars, hookSeen, requestVars, faults>>

\* Announced by an event of another type, which handle_webhook ignores.
FundsArrive(p) ==
  /\ session[p] = "processing"
  /\ session' = [session EXCEPT ![p] = "paid"]
  /\ UNCHANGED <<mode, purchaseTable, checkoutVars, event, hookVars, requestVars, faults>>

(***************************************************************************)
(* POST /webhook.                                                          *)
(***************************************************************************)
WebhookConcerns(p) == linked[p] /\ event[p] = "paid"

\* No committed purchase has this session, or it is not paid: answered, and
\* Stripe does not send it again.
IgnoreWebhook(p) ==
  /\ hook[p] = "due" /\ ~WebhookConcerns(p)
  /\ hook' = [hook EXCEPT ![p] = "answered"]
  /\ UNCHANGED <<mode, purchaseTable, checkoutVars, stripeVars, hookSeen, requestVars, faults>>

ReadWebhook(p) ==
  /\ hook[p] = "due" /\ WebhookConcerns(p)
  /\ hook' = [hook EXCEPT ![p] = "read"]
  /\ hookSeen' = [hookSeen EXCEPT ![p] = status[p]]
  /\ UNCHANGED <<mode, purchaseTable, checkoutVars, stripeVars, requestVars, faults>>

MarkPaid(p, statusRead) ==
  status' = IF statusRead = "paid" THEN status ELSE [status EXCEPT ![p] = "paid"]

CommitWebhook(p) ==
  /\ hook[p] = "read"
  /\ MarkPaid(p, hookSeen[p])
  /\ hook' = [hook EXCEPT ![p] = "answered"]
  /\ UNCHANGED <<mode, provider, linked, checkoutVars, stripeVars, hookSeen, requestVars, faults>>

WebhookFailsQuietly(p) ==
  /\ Fault
  /\ hook[p] = "read"
  /\ hook' = [hook EXCEPT ![p] = "answered"]
  /\ UNCHANGED <<mode, purchaseTable, checkoutVars, stripeVars, hookSeen, requestVars>>

\* An error is answered with a status that has Stripe try again.
WebhookFails(p) ==
  /\ Fault
  /\ hook[p] = "read"
  /\ hook' = [hook EXCEPT ![p] = "due"]
  /\ UNCHANGED <<mode, purchaseTable, checkoutVars, stripeVars, hookSeen, requestVars>>

\* Stripe may deliver an event more than once.
RedeliverWebhook(p) ==
  /\ Fault
  /\ hook[p] = "answered"
  /\ hook' = [hook EXCEPT ![p] = "due"]
  /\ UNCHANGED <<mode, purchaseTable, checkoutVars, stripeVars, hookSeen, requestVars>>

(***************************************************************************)
(* demo-confirm, cancel and sync.                                          *)
(***************************************************************************)
\* r has read purchase p and goes on to step next.
Read(r, p, call, next) ==
  /\ reqPc[r] = "idle" /\ status[p] # "none"
  /\ op' = [op EXCEPT ![r] = call]
  /\ on' = [on EXCEPT ![r] = p]
  /\ seen' = [seen EXCEPT ![r] = status[p]]
  /\ reqPc' = [reqPc EXCEPT ![r] = next]
  /\ UNCHANGED <<mode, purchaseTable, checkoutVars, stripeVars, hookVars, faults>>

ConfirmAny(r, p) == Read(r, p, "confirm", "write")

ConfirmDemo(r, p) ==
  Read(r, p, "confirm", IF provider[p] = "demo" THEN "write" ELSE "done")

CancelAny(r, p) == Read(r, p, "cancel", "write")

Cancel(r, p) ==
  Read(r, p, "cancel", IF status[p] = "pending" THEN "write" ELSE "done")

\* Nothing to ask for a demo purchase, a paid one, or one without a session.
Sync(r, p) ==
  LET asks == provider[p] = "stripe" /\ status[p] # "paid" /\ linked[p]
  IN  Read(r, p, "sync", IF asks /\ ClientIsAllowed THEN "asking" ELSE "done")

StripeAnswersSync(r) ==
  /\ reqPc[r] = "asking"
  /\ reqPc' = [reqPc EXCEPT ![r] = IF session[on[r]] = "paid" THEN "write" ELSE "done"]
  /\ UNCHANGED <<mode, purchaseTable, checkoutVars, stripeVars, hookVars, op, on, seen, faults>>

\* The write goes by what was read, whatever has been committed since.
CommitRequest(r) ==
  /\ reqPc[r] = "write"
  /\ \/ op[r] = "cancel" /\ status' = [status EXCEPT ![on[r]] = "cancelled"]
     \/ op[r] # "cancel" /\ MarkPaid(on[r], seen[r])
  /\ reqPc' = [reqPc EXCEPT ![r] = "done"]
  /\ UNCHANGED <<mode, provider, linked, checkoutVars, stripeVars, hookVars, op, on, seen, faults>>

RequestFails(r) ==
  /\ Fault
  /\ reqPc[r] \in {"asking", "write"}
  /\ reqPc' = [reqPc EXCEPT ![r] = "done"]
  /\ UNCHANGED <<mode, purchaseTable, checkoutVars, stripeVars, hookVars, op, on, seen>>

\* The process stops and starts, maybe with another key or none.
Restart ==
  /\ Fault
  /\ mode' \in Modes
  /\ pc' = [p \in Purchases |-> IF pc[p] \in {"asking", "ready"} THEN "failed" ELSE pc[p]]
  /\ hook' = [p \in Purchases |-> IF hook[p] = "read" THEN "due" ELSE hook[p]]
  /\ reqPc' = [r \in Requests |-> IF reqPc[r] = "idle" THEN "idle" ELSE "done"]
  /\ UNCHANGED <<purchaseTable, url, stripeVars, hookSeen, op, on, seen>>

CheckoutStep(p) ==
  \/ StartCheckout(p) \/ StripeCreatesSession(p) \/ TakeSession(p)
  \/ CommitCheckout(p) \/ SendUrl(p) \/ CheckoutFails(p)
  \/ CompleteSession(p) \/ FundsArrive(p)

WebhookStep(p) == IgnoreWebhook(p) \/ ReadWebhook(p) \/ CommitWebhook(p)

RequestStep(r) ==
  \/ \E p \in Purchases : ConfirmDemo(r, p) \/ Cancel(r, p) \/ Sync(r, p)
  \/ StripeAnswersSync(r) \/ CommitRequest(r) \/ RequestFails(r)

Next ==
  \/ \E p \in Purchases :
       CheckoutStep(p) \/ WebhookStep(p) \/ WebhookFails(p) \/ RedeliverWebhook(p)
  \/ \E r \in Requests : RequestStep(r)
  \/ Restart

Spec == Init /\ [][Next]_vars

\* Stripe goes on delivering an event that was not answered; requests end.
FairSpec == Spec /\ \A p \in Purchases : WF_vars(WebhookStep(p))

(***************************************************************************)
(* Properties.                                                             *)
(***************************************************************************)
\* A purchase that is recorded as paid and is not a demo was paid on Stripe's
\* page, whatever confirm, sync and webhook requests met on it, and whatever
\* they read before the others wrote.
PaidMeansPaid ==
  \A p \in Purchases : status[p] = "paid" /\ provider[p] = "stripe" => session[p] = "paid"

\* A stored Stripe purchase knows its session, so that the webhook and sync can
\* settle it: no timeout or abort of a checkout leaves one that cannot be.
StoredCanBeSettled ==
  \A p \in Purchases :
    status[p] # "none" /\ provider[p] = "stripe" => linked[p] /\ session[p] # "none"

\* What PurchasePromise is told of the state.
KindStored == [p \in Purchases |-> IF status[p] = "none" THEN "none" ELSE provider[p]]
Money == {p \in Purchases : session[p] = "paid"}
CancelIsOpen(r, p) == reqPc[r] = "write" /\ op[r] = "cancel" /\ on[r] = p
Cancelling == {p \in Purchases : \E r \in Requests : CancelIsOpen(r, p)}

Promise == INSTANCE PurchasePromise WITH
  phase <- status, kind <- KindStored, money <- Money, cancelling <- Cancelling

\* Seen without sessions, events and requests, the purchases do as the promise
\* says: stored once and never lost, paid only for money or as a demo, cancelled
\* only by a cancel that found them pending, a demo never charged.
KeepsPromise == Promise!PromiseSpec

\* Once a payment is announced for a stored purchase, the purchase is marked
\* paid, through failed deliveries, restarts and cancels: at some time, for a cancel
\* or sync that read it before may write it over (KeepsPromise says by what).
PaymentIsRecorded ==
  \A p \in Purchases :
    hook[p] = "due" /\ event[p] = "paid" /\ status[p] # "none" ~> status[p] = "paid"
=============================================================================
