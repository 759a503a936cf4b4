----------------------------- MODULE BackOffice -----------------------------
(***************************************************************************)
(* Parts of the platform that share no state: payment claims,              *)
(* e-invoices, billing, warranty reminders, the mirror of incidents in the *)
(* daily log, and the rate limiters.  A behaviour is one of one part, the  *)
(* others stay as they were: together they would only multiply.            *)
(***************************************************************************)
EXTENDS PaymentClaims, EInvoices, Billing, Reminders, DailyLogSync, RateLimits

VARIABLE part       \* the part that runs

officeVars == <<vars, invoiceVars, billingVars, reminderVars, dailyLogVars, rateVars, part>>

OfficeTypeOK ==
    /\ part \in {"claims", "invoices", "billing", "reminders", "daily log", "windows", "buckets"}
    /\ TypeOK /\ InvoiceTypeOK /\ BillingTypeOK /\ ReminderTypeOK /\ DailyLogTypeOK /\ RateTypeOK

\* A part that does not run starts in one of its initial states.
OfficeInit ==
    /\ part \in {"claims", "invoices", "billing", "reminders", "daily log", "windows", "buckets"}
    /\ Init /\ InvoiceInit /\ BillingInit /\ ReminderInit /\ DailyLogInit /\ RateInit
    /\ part # "invoices" => invoice.direction = "issued" /\ invoice.lined
    /\ part # "billing" => /\ subscription.status = "active" /\ org_plan = "starter"
                           /\ \A s \in StripeSubs : stripe[s].plan = "pro"
    /\ part # "daily log" => incidents = {}

RunsClaims    == part = "claims" /\ UNCHANGED <<invoiceVars, billingVars, reminderVars, dailyLogVars, rateVars, part>>
RunsInvoices  == part = "invoices" /\ UNCHANGED <<vars, billingVars, reminderVars, dailyLogVars, rateVars, part>>
RunsBilling   == part = "billing" /\ UNCHANGED <<vars, invoiceVars, reminderVars, dailyLogVars, rateVars, part>>
RunsReminders == part = "reminders" /\ UNCHANGED <<vars, invoiceVars, billingVars, dailyLogVars, rateVars, part>>
RunsDailyLog  == part = "daily log" /\ UNCHANGED <<vars, invoiceVars, billingVars, reminderVars, rateVars, part>>
RunsWindows   == part = "windows" /\ UNCHANGED <<vars, invoiceVars, billingVars, reminderVars, dailyLogVars, part>>
RunsBuckets   == part = "buckets" /\ UNCHANGED <<vars, invoiceVars, billingVars, reminderVars, dailyLogVars, part>>

OfficeNext ==
    \/ RunsClaims /\ Next
    \/ RunsInvoices /\ InvoiceNext
    \/ RunsBilling /\ BillingNext
    \/ RunsReminders /\ ReminderNext
    \/ RunsDailyLog /\ DailyLogNext
    \/ RunsWindows /\ WindowNext
    \/ RunsBuckets /\ BucketNext

\* Time passes, and a call that is not cut off sends its second command.
Fairness ==
    /\ WF_officeVars(RunsWindows /\ WindowTick)
    /\ \A c \in Callers : WF_officeVars(RunsWindows /\ Expire(c))

OfficeSpec == OfficeInit /\ [][OfficeNext]_officeVars /\ Fairness

-----------------------------------------------------------------------------
(* Properties of more than a state.                                        *)

\* The two copies of the plan of an active subscription agree, whatever
\* checkouts, confirmations and Stripe's events, late and repeated, come
\* between, as long as no confirmation uses a plan that it read before a
\* later checkout or event.
HeldConfirmationsMirrorPlan == []ConfirmationsHold => []PlanMirrored

\* Who is refused is let through again: the window ends, unless a call was
\* cut off between INCR and EXPIRE, which leaves a key without a TTL.
RefusalsEnd == []~stranded => [](refused => <>(counter.count = 0))
=============================================================================
