------------------------------- MODULE Billing -------------------------------
(***************************************************************************)
(* The subscription of one organisation, paid by bank transfer (VietQR) or *)
(* by card (Stripe): routers/billing.py.  The plan is stored twice, in     *)
(* subscriptions and, "for the read-fast path", in organizations.  Stripe  *)
(* delivers its events at least once and in any order.                     *)
(***************************************************************************)
EXTENDS Integers

CONSTANTS
    Owners,         \* requests that confirm a transfer at the same time
    StripeSubs,     \* ids of Stripe subscriptions
    NoStripe,       \* no such id
    BillingMonths   \* bound: months

ASSUME BillingAssumption == BillingMonths \in Nat \ {0} /\ NoStripe \notin StripeSubs

VARIABLES
    subscription,   \* the row of subscriptions; "absent" if there is none
    org_plan,       \* organizations.plan
    invoices,       \* the statuses of the invoices of each reference
    confirming,     \* what each confirmation has read
    stripe,         \* external: the plan of each Stripe subscription and its events
    billing_month

billingVars == <<subscription, org_plan, invoices, confirming, stripe, billing_month>>

Plans == {"starter", "pro", "enterprise"}
Sold  == {"starter", "pro"}     \* with a price

\* make_vietqr_reference: the plan and the month, for one organisation.
References == Sold \X (1..BillingMonths)
NoReference == <<>>

NotConfirming == [at |-> "idle"]
Confirmations == [at : {"read"}, ref : References, plan : Plans]
Events == {"completed", "deleted", "failed"}

BillingTypeOK ==
    /\ subscription \in [plan : Plans, ref : References \cup {NoReference}, stripe : StripeSubs \cup {NoStripe},
                         status : {"absent", "active", "past_due", "cancelled", "pending_payment"}]
    /\ org_plan \in Plans
    /\ invoices \in [References -> SUBSET {"pending", "paid"}]
    /\ confirming \in [Owners -> {NotConfirming} \cup Confirmations]
    /\ stripe \in [StripeSubs -> [plan : Sold, events : SUBSET Events]]
    /\ billing_month \in 1..BillingMonths

\* Migration 0050 gives a row to every organisation that exists by then;
\* create_org gives none to the later ones, which start with the free plan.
BillingInit ==
    /\ org_plan \in Plans
    /\ subscription \in [plan : {org_plan}, ref : {NoReference}, stripe : {NoStripe}, status : {"absent", "active"}]
    /\ subscription.status = "absent" => org_plan = "starter"
    /\ invoices = [r \in References |-> {}]
    /\ confirming = [o \in Owners |-> NotConfirming]
    /\ stripe \in [StripeSubs -> [plan : Sold, events : {{}}]]
    /\ billing_month = 1

\* start_vietqr_checkout: both statements touch nothing without a row.
CheckoutVietqr(p) ==
    /\ subscription.status # "absent"
    /\ subscription' = [subscription EXCEPT !.plan = p, !.status = "pending_payment", !.ref = <<p, billing_month>>]
    /\ invoices' = [invoices EXCEPT ![<<p, billing_month>>] = @ \cup {"pending"}]
    /\ UNCHANGED <<org_plan, confirming, stripe, billing_month>>

\* confirm_vietqr_transfer reads the row of the reference, whatever its
\* status ...
ReadForConfirm(o) ==
    /\ confirming[o] = NotConfirming
    /\ subscription.ref # NoReference
    /\ confirming' = [confirming EXCEPT ![o] = [at |-> "read", ref |-> subscription.ref, plan |-> subscription.plan]]
    /\ UNCHANGED <<subscription, org_plan, invoices, stripe, billing_month>>

Paid(ref) == [invoices EXCEPT ![ref] = IF @ = {} THEN {} ELSE {"paid"}]

\* Fault: the plan is not mirrored.
ConfirmWithoutMirror(o) ==
    /\ confirming[o] # NotConfirming
    /\ subscription' = [subscription EXCEPT !.status = "active"]
    /\ invoices' = Paid(confirming[o].ref)
    /\ confirming' = [confirming EXCEPT ![o] = NotConfirming]
    /\ UNCHANGED <<org_plan, stripe, billing_month>>

\* ... and writes by id, with the plan that it has read.
ConfirmVietqr(o) ==
    /\ confirming[o] # NotConfirming
    /\ subscription' = [subscription EXCEPT !.status = "active"]
    /\ org_plan' = confirming[o].plan
    /\ invoices' = Paid(confirming[o].ref)
    /\ confirming' = [confirming EXCEPT ![o] = NotConfirming]
    /\ UNCHANGED <<stripe, billing_month>>

DropConfirm(o) ==
    /\ confirming[o] # NotConfirming
    /\ confirming' = [confirming EXCEPT ![o] = NotConfirming]
    /\ UNCHANGED <<subscription, org_plan, invoices, stripe, billing_month>>

\* External: Stripe sells a subscription, fails to collect, or ends it.
StripeEvent(s, e) ==
    /\ e # "completed" => "completed" \in stripe[s].events
    /\ e \notin stripe[s].events
    /\ stripe' = [stripe EXCEPT ![s].events = @ \cup {e}]
    /\ UNCHANGED <<subscription, org_plan, invoices, confirming, billing_month>>

\* stripe_webhook, for each type of event.
StripeCompleted(s) ==
    /\ "completed" \in stripe[s].events
    /\ subscription' = IF subscription.status = "absent" THEN subscription
                       ELSE [subscription EXCEPT !.plan = stripe[s].plan, !.status = "active", !.stripe = s]
    /\ org_plan' = stripe[s].plan
    /\ UNCHANGED <<invoices, confirming, stripe, billing_month>>

StripeDeleted(s) ==
    /\ "deleted" \in stripe[s].events /\ subscription.stripe = s
    /\ subscription' = [subscription EXCEPT !.status = "cancelled", !.plan = "starter"]
    /\ org_plan' = "starter"
    /\ UNCHANGED <<invoices, confirming, stripe, billing_month>>

StripeFailed(s) ==
    /\ "failed" \in stripe[s].events /\ subscription.stripe = s
    /\ subscription' = [subscription EXCEPT !.status = "past_due"]
    /\ UNCHANGED <<org_plan, invoices, confirming, stripe, billing_month>>

NextBillingMonth ==
    /\ billing_month < BillingMonths
    /\ billing_month' = billing_month + 1
    /\ UNCHANGED <<subscription, org_plan, invoices, confirming, stripe>>

BillingNext ==
    \/ \E p \in Sold : CheckoutVietqr(p)
    \/ \E o \in Owners : ReadForConfirm(o) \/ ConfirmVietqr(o) \/ DropConfirm(o)
    \/ \E s \in StripeSubs :
          \/ \E e \in Events : StripeEvent(s, e)
          \/ StripeCompleted(s) \/ StripeDeleted(s) \/ StripeFailed(s)
    \/ NextBillingMonth

-----------------------------------------------------------------------------
\* The row that a confirmation has read still has its reference and plan.
ConfirmationsHold ==
    \A o \in Owners : confirming[o] # NotConfirming =>
        subscription.ref = confirming[o].ref /\ subscription.plan = confirming[o].plan

PlanMirrored == subscription.status = "active" => org_plan = subscription.plan
=============================================================================
