--------------------------- MODULE BackOfficeProofs ---------------------------
(***************************************************************************)
(* What TLC checks of the parts of BackOffice on small instances, for any  *)
(* claims, clerks, owners, warranties, incidents, jobs, limits, capacities *)
(* and windows.  Each part is proved on its own; what the office adds is   *)
(* that every step of it is a step of one part or leaves the part alone.   *)
(* The limiters need the sums over the last ticks, which the folds of the  *)
(* model are shown to be; the types of all the parts come last.            *)
(***************************************************************************)
EXTENDS BackOffice, PaymentClaimsProofs

-----------------------------------------------------------------------------
(* The parts.                                                              *)

LEMMA OfficeInitIsEveryInit ==
    OfficeInit => Init /\ InvoiceInit /\ BillingInit /\ ReminderInit /\ DailyLogInit
BY DEF OfficeInit

LEMMA OfficeStepIsAPartStep ==
    ASSUME [OfficeNext]_officeVars
    PROVE  /\ [Next]_vars /\ [InvoiceNext]_invoiceVars /\ [BillingNext]_billingVars
           /\ [ReminderNext]_reminderVars /\ [DailyLogNext]_dailyLogVars
<1>1. CASE RunsClaims /\ Next
  BY <1>1 DEF RunsClaims
<1>2. CASE RunsInvoices /\ InvoiceNext
  BY <1>2 DEF RunsInvoices
<1>3. CASE RunsBilling /\ BillingNext
  BY <1>3 DEF RunsBilling
<1>4. CASE RunsReminders /\ ReminderNext
  BY <1>4 DEF RunsReminders
<1>5. CASE RunsDailyLog /\ DailyLogNext
  BY <1>5 DEF RunsDailyLog
<1>6. CASE RunsWindows \/ RunsBuckets
  BY <1>6 DEF RunsWindows, RunsBuckets
<1>7. CASE UNCHANGED officeVars
  BY <1>7 DEF officeVars
<1> QED BY <1>1, <1>2, <1>3, <1>4, <1>5, <1>6, <1>7 DEF OfficeNext

\* The claims of the office are claims: what holds for PaymentClaims holds
\* for them.
THEOREM OfficeKeepsClaims == OfficeSpec => Spec
<1>1. OfficeInit => Init
  BY OfficeInitIsEveryInit
<1>2. [OfficeNext]_officeVars => [Next]_vars
  BY OfficeStepIsAPartStep
<1> QED BY <1>1, <1>2, PTL DEF OfficeSpec, Spec

\* So every run of the office keeps the properties of the claims.
THEOREM OfficeClaims ==
    OfficeSpec => /\ []ApprovedByOwner /\ []PaidPerApproval /\ []PartsAddUp
                  /\ HeldReadsKeepTotals /\ HeldReadsPayOnce /\ HeldReadsNumberApart
<1> QED BY OfficeKeepsClaims, ApprovalIsTheOwners, PaymentsAreApproved, PartsOfAnyClaimAddUp, ReadsKeepTotals,
           ReadsPayOnce, ReadsNumberApart

-----------------------------------------------------------------------------
(* E-invoices.                                                             *)

LEMMA InvoiceType == InvoiceTypeOK /\ [InvoiceNext]_invoiceVars => InvoiceTypeOK'
<1> SUFFICES ASSUME InvoiceTypeOK, [InvoiceNext]_invoiceVars PROVE InvoiceTypeOK'
  OBVIOUS
<1>1. ASSUME NEW c \in Clerks, EditDraft(c) \/ IssueDraft(c) \/ CancelInvoice(c) \/ ClerkLeaves(c)
      PROVE  InvoiceTypeOK'
  BY <1>1 DEF EditDraft, IssueDraft, CancelInvoice, ClerkLeaves, Wants, InvoiceTypeOK, ClerkStates
<1>2. ASSUME NEW c \in Clerks, WriteEdit(c) PROVE InvoiceTypeOK'
  <2>1. invoice.body + 1 \in 0..MaxEdits
    <3>1. invoice.body \in 0..MaxEdits
      BY DEF InvoiceTypeOK
    <3>2. invoice.body < MaxEdits
      BY <1>2 DEF WriteEdit
    <3> QED BY <3>1, <3>2, InvoiceAssumption
  <2>2. late' \in Nat /\ sent' \in Nat
    <3>1. late \in Nat /\ sent \in Nat
      BY DEF InvoiceTypeOK
    <3>2. late' \in {late, late + 1} /\ sent' = sent
      BY <1>2 DEF WriteEdit
    <3> QED BY <3>1, <3>2
  <2>3. clerk' \in [Clerks -> ClerkStates]
    BY <1>2 DEF WriteEdit, Finishes, InvoiceTypeOK, ClerkStates
  <2>4. invoice' = [invoice EXCEPT !.body = @ + 1]
    BY <1>2 DEF WriteEdit
  <2> QED BY <2>1, <2>2, <2>3, <2>4 DEF InvoiceTypeOK
<1>3. ASSUME NEW c \in Clerks, WriteIssue(c) \/ WriteCancel(c) PROVE InvoiceTypeOK'
  BY <1>3 DEF WriteIssue, WriteCancel, Finishes, InvoiceTypeOK, ClerkStates, InvoiceStatuses
<1>4. CASE SubmitGdt \/ WindowCloses
  <2>1. late' \in Nat /\ sent' \in Nat
    <3>1. late \in Nat /\ sent \in Nat
      BY DEF InvoiceTypeOK
    <3>2. late' = late /\ sent' \in {sent, sent + 1}
      BY <1>4 DEF SubmitGdt, WindowCloses
    <3> QED BY <3>1, <3>2
  <2>2. clerk' = clerk /\ (invoice' = [invoice EXCEPT !.status = "submitted_gdt"] \/ invoice' = [invoice EXCEPT !.accepted = "long ago"])
    BY <1>4 DEF SubmitGdt, WindowCloses
  <2> QED BY <2>1, <2>2 DEF InvoiceTypeOK, InvoiceStatuses
<1>5. ASSUME NEW accept \in BOOLEAN, GdtCallback(accept) PROVE InvoiceTypeOK'
  BY <1>5 DEF GdtCallback, InvoiceTypeOK, InvoiceStatuses
<1>6. CASE UNCHANGED invoiceVars
  BY <1>6 DEF invoiceVars, InvoiceTypeOK
<1> QED BY <1>1, <1>2, <1>3, <1>4, <1>5, <1>6 DEF InvoiceNext

LEMMA InvoiceStart == InvoiceInit => InvoiceTypeOK
<1> SUFFICES ASSUME InvoiceInit PROVE InvoiceTypeOK
  OBVIOUS
<1>1. 0 \in 0..MaxEdits
  BY InvoiceAssumption
<1> QED BY <1>1 DEF InvoiceInit, InvoiceTypeOK, InvoiceStatuses, ClerkStates

\* The requests that have found a draft and not yet written.
WritesPending == {c \in Clerks : clerk[c] \in {"edit", "issue"}}

\* Out of the draft no more of them come, and each counts once: while it is
\* pending, as a late edit, or as an issued invoice that is still to be sent.
StaleInv ==
    IF invoice.status = "draft" THEN late = 0 /\ sent = 0
    ELSE late + sent + Cardinality(WritesPending) + (IF invoice.status = "issued" THEN 1 ELSE 0) <= Cardinality(Clerks)

LEMMA PendingCount ==
    ASSUME InvoiceTypeOK
    PROVE  /\ Cardinality(Clerks) \in Nat /\ Cardinality(WritesPending) \in Nat
           /\ Cardinality(WritesPending) <= Cardinality(Clerks)
BY InvoiceAssumption, FS_Subset, FS_CardinalityType DEF WritesPending

\* One that writes or leaves is no longer among them.
LEMMA OneLess ==
    ASSUME InvoiceTypeOK, NEW c \in Clerks, clerk' = [clerk EXCEPT ![c] = "idle"]
    PROVE  Cardinality(WritesPending') = IF c \in WritesPending THEN Cardinality(WritesPending) - 1 ELSE Cardinality(WritesPending)
<1>1. WritesPending' = WritesPending \ {c}
  BY DEF WritesPending, InvoiceTypeOK
<1>2. IsFiniteSet(WritesPending)
  BY InvoiceAssumption, FS_Subset DEF WritesPending
<1> QED BY <1>1, <1>2, FS_RemoveElement

LEMMA StaleStep ==
    ASSUME InvoiceTypeOK, StaleInv, [InvoiceNext]_invoiceVars
    PROVE  StaleInv'
<1> DEFINE all == Cardinality(Clerks)
           n   == Cardinality(WritesPending)
<1>0. /\ all \in Nat /\ n \in Nat /\ n <= all /\ late \in Nat /\ sent \in Nat
      /\ Cardinality(WritesPending') \in Nat /\ Cardinality(WritesPending') <= all
  <2>1. InvoiceTypeOK'
    BY InvoiceType
  <2>2. Cardinality(WritesPending') \in Nat /\ Cardinality(WritesPending') <= Cardinality(Clerks)
    BY <2>1, InvoiceAssumption, FS_Subset, FS_CardinalityType DEF WritesPending
  <2> QED BY <2>2, PendingCount DEF InvoiceTypeOK
<1>1. ASSUME NEW c \in Clerks, EditDraft(c) \/ IssueDraft(c) PROVE StaleInv'
  BY <1>1 DEF EditDraft, IssueDraft, Wants, StaleInv
<1>2. ASSUME NEW c \in Clerks, CancelInvoice(c) PROVE StaleInv'
  <2>1. WritesPending' = WritesPending /\ UNCHANGED <<invoice, late, sent>>
    BY <1>2 DEF CancelInvoice, Wants, WritesPending, InvoiceTypeOK
  <2> QED BY <2>1 DEF StaleInv
<1>3. ASSUME NEW c \in Clerks, WriteEdit(c) PROVE StaleInv'
  <2>1. /\ clerk' = [clerk EXCEPT ![c] = "idle"] /\ c \in WritesPending /\ sent' = sent
        /\ late' = IF invoice.status = "draft" THEN late ELSE late + 1
    BY <1>3 DEF WriteEdit, Finishes, WritesPending
  <2>2. invoice'.status = invoice.status
    BY <1>3 DEF WriteEdit, InvoiceTypeOK
  <2>3. Cardinality(WritesPending') = n - 1
    BY <2>1, OneLess
  <2> HIDE DEF n, all
  <2> QED BY <1>0, <2>1, <2>2, <2>3 DEF StaleInv, n, all
<1>4. ASSUME NEW c \in Clerks, WriteIssue(c) PROVE StaleInv'
  <2>1. clerk' = [clerk EXCEPT ![c] = "idle"] /\ c \in WritesPending /\ UNCHANGED <<late, sent>>
    BY <1>4 DEF WriteIssue, Finishes, WritesPending
  <2>2. invoice'.status = "issued"
    BY <1>4 DEF WriteIssue, InvoiceTypeOK
  <2>3. Cardinality(WritesPending') = n - 1
    BY <2>1, OneLess
  <2>4. invoice.status = "draft" => late = 0 /\ sent = 0
    BY DEF StaleInv
  <2>5. invoice.status # "draft" => late + sent + n <= all
    BY <1>0 DEF StaleInv
  <2> HIDE DEF n, all
  <2>6. late + sent + (n - 1) + 1 <= all
    BY <1>0, <2>4, <2>5
  <2> QED BY <2>1, <2>2, <2>3, <2>6 DEF StaleInv, all
<1>5. ASSUME NEW c \in Clerks, WriteCancel(c) \/ ClerkLeaves(c) PROVE StaleInv'
  <2>1. clerk' = [clerk EXCEPT ![c] = "idle"] /\ UNCHANGED <<late, sent>>
    BY <1>5 DEF WriteCancel, Finishes, ClerkLeaves
  <2>2. invoice'.status \in {"cancelled", invoice.status}
    BY <1>5 DEF WriteCancel, ClerkLeaves, InvoiceTypeOK
  <2>3. Cardinality(WritesPending') <= n
    <3>1. Cardinality(WritesPending') = n - 1 \/ Cardinality(WritesPending') = n
      BY <2>1, OneLess
    <3> HIDE DEF n
    <3> QED BY <1>0, <3>1
  <2> HIDE DEF n, all
  <2> QED BY <1>0, <2>1, <2>2, <2>3 DEF StaleInv, n, all
<1>6. CASE SubmitGdt
  <2>1. invoice.status = "issued" /\ sent' = sent + 1 /\ late' = late /\ WritesPending' = WritesPending
    BY <1>6 DEF SubmitGdt, WritesPending
  <2>2. invoice'.status = "submitted_gdt"
    BY <1>6 DEF SubmitGdt, InvoiceTypeOK
  <2> HIDE DEF n, all
  <2> QED BY <1>0, <2>1, <2>2 DEF StaleInv, n, all
<1>7. ASSUME NEW accept \in BOOLEAN, GdtCallback(accept) PROVE StaleInv'
  <2>1. UNCHANGED <<late, sent>> /\ WritesPending' = WritesPending
    BY <1>7 DEF GdtCallback, WritesPending
  <2>2. invoice'.status \in {"accepted_gdt", "rejected_gdt"}
    BY <1>7 DEF GdtCallback, InvoiceTypeOK
  <2> HIDE DEF n, all
  <2> QED BY <1>0, <2>1, <2>2 DEF StaleInv, n, all
<1>8. CASE WindowCloses
  <2>1. UNCHANGED <<late, sent>> /\ WritesPending' = WritesPending /\ invoice'.status = invoice.status
    BY <1>8 DEF WindowCloses, WritesPending, InvoiceTypeOK
  <2> QED BY <2>1 DEF StaleInv
<1>9. CASE UNCHANGED invoiceVars
  BY <1>9 DEF invoiceVars, StaleInv, WritesPending
<1> QED BY <1>1, <1>2, <1>3, <1>4, <1>5, <1>6, <1>7, <1>8, <1>9 DEF InvoiceNext

\* For any number of requests on an invoice: late edits and submissions are no
\* more than the requests, in whatever order they and the tax office write.
THEOREM InvoiceStaleWritesEnd == OfficeSpec => []StaleWritesEnd
<1>1. OfficeInit => InvoiceTypeOK /\ StaleInv
  BY OfficeInitIsEveryInit, InvoiceStart DEF InvoiceInit, StaleInv
<1>2. InvoiceTypeOK /\ StaleInv /\ [OfficeNext]_officeVars => InvoiceTypeOK' /\ StaleInv'
  BY InvoiceType, StaleStep, OfficeStepIsAPartStep
<1>3. InvoiceTypeOK /\ StaleInv => StaleWritesEnd
  <2> SUFFICES ASSUME InvoiceTypeOK, StaleInv PROVE late + sent <= Cardinality(Clerks)
    BY DEF StaleWritesEnd
  <2>1. late \in Nat /\ sent \in Nat /\ Cardinality(Clerks) \in Nat /\ Cardinality(WritesPending) \in Nat
    BY PendingCount DEF InvoiceTypeOK
  <2> QED BY <2>1 DEF StaleInv
<1> QED BY <1>1, <1>2, <1>3, PTL DEF OfficeSpec

-----------------------------------------------------------------------------
(* Billing.                                                                *)

LEMMA BillingType == BillingTypeOK /\ [BillingNext]_billingVars => BillingTypeOK'
<1> SUFFICES ASSUME BillingTypeOK, [BillingNext]_billingVars PROVE BillingTypeOK'
  OBVIOUS
<1>1. ASSUME NEW p \in Sold, CheckoutVietqr(p) PROVE BillingTypeOK'
  <2>1. <<p, billing_month>> \in References
    BY DEF BillingTypeOK, References
  <2> QED BY <1>1, <2>1 DEF CheckoutVietqr, BillingTypeOK, Sold, Plans
<1>2. ASSUME NEW o \in Owners, ReadForConfirm(o) PROVE BillingTypeOK'
  BY <1>2 DEF ReadForConfirm, BillingTypeOK, Confirmations
<1>3. ASSUME NEW o \in Owners, ConfirmVietqr(o) PROVE BillingTypeOK'
  <2>1. confirming[o] \in Confirmations
    BY <1>3 DEF ConfirmVietqr, BillingTypeOK
  <2>2. confirming[o].ref \in References /\ confirming[o].plan \in Plans
    BY <2>1 DEF Confirmations
  <2>3. Paid(confirming[o].ref) \in [References -> SUBSET {"pending", "paid"}]
    BY <2>2 DEF Paid, BillingTypeOK
  <2> QED BY <1>3, <2>2, <2>3 DEF ConfirmVietqr, BillingTypeOK
<1>4. ASSUME NEW o \in Owners, DropConfirm(o) PROVE BillingTypeOK'
  BY <1>4 DEF DropConfirm, BillingTypeOK
<1>5. ASSUME NEW s \in StripeSubs, NEW e \in Events, StripeEvent(s, e) PROVE BillingTypeOK'
  BY <1>5 DEF StripeEvent, BillingTypeOK
<1>6. ASSUME NEW s \in StripeSubs, StripeCompleted(s) \/ StripeDeleted(s) \/ StripeFailed(s)
      PROVE  BillingTypeOK'
  <2>1. CASE StripeCompleted(s)
    BY <2>1 DEF StripeCompleted, BillingTypeOK, Sold, Plans
  <2>2. CASE StripeDeleted(s)
    BY <2>2 DEF StripeDeleted, BillingTypeOK, Plans
  <2>3. CASE StripeFailed(s)
    BY <2>3 DEF StripeFailed, BillingTypeOK
  <2> QED BY <1>6, <2>1, <2>2, <2>3
<1>7. CASE NextBillingMonth
  BY <1>7, BillingAssumption DEF NextBillingMonth, BillingTypeOK
<1>8. CASE UNCHANGED billingVars
  BY <1>8 DEF billingVars, BillingTypeOK
<1> QED BY <1>1, <1>2, <1>3, <1>4, <1>5, <1>6, <1>7, <1>8 DEF BillingNext

LEMMA BillingStart == BillingInit => BillingTypeOK /\ PlanMirrored
<1> SUFFICES ASSUME BillingInit PROVE BillingTypeOK /\ PlanMirrored
  OBVIOUS
<1>1. 1 \in 1..BillingMonths
  BY BillingAssumption
<1>2. subscription \in [plan : {org_plan}, ref : {NoReference}, stripe : {NoStripe}, status : {"absent", "active"}]
  BY DEF BillingInit
<1> QED BY <1>1, <1>2 DEF BillingInit, BillingTypeOK, PlanMirrored

LEMMA BillingMirrors ==
    ASSUME BillingTypeOK, ConfirmationsHold, PlanMirrored, [BillingNext]_billingVars
    PROVE  PlanMirrored'
<1>1. ASSUME NEW p \in Sold, CheckoutVietqr(p) PROVE PlanMirrored'
  BY <1>1 DEF CheckoutVietqr, BillingTypeOK, PlanMirrored
<1>2. ASSUME NEW o \in Owners, ReadForConfirm(o) \/ DropConfirm(o) PROVE PlanMirrored'
  BY <1>2 DEF ReadForConfirm, DropConfirm, PlanMirrored
<1>3. ASSUME NEW o \in Owners, ConfirmVietqr(o) PROVE PlanMirrored'
  BY <1>3 DEF ConfirmVietqr, BillingTypeOK, ConfirmationsHold, PlanMirrored
<1>4. ASSUME NEW s \in StripeSubs, NEW e \in Events, StripeEvent(s, e) PROVE PlanMirrored'
  BY <1>4 DEF StripeEvent, PlanMirrored
<1>5. ASSUME NEW s \in StripeSubs, StripeCompleted(s) \/ StripeDeleted(s) \/ StripeFailed(s)
      PROVE  PlanMirrored'
  BY <1>5 DEF StripeCompleted, StripeDeleted, StripeFailed, BillingTypeOK, PlanMirrored
<1>6. CASE NextBillingMonth \/ UNCHANGED billingVars
  BY <1>6 DEF NextBillingMonth, billingVars, PlanMirrored
<1> QED BY <1>1, <1>2, <1>3, <1>4, <1>5, <1>6 DEF BillingNext

\* For any owners, Stripe subscriptions and events: the copies of the plan
\* agree while no confirmation uses a plan it read before a later change.
THEOREM ConfirmationsMirror == OfficeSpec => HeldConfirmationsMirrorPlan
<1>1. OfficeInit => BillingTypeOK /\ PlanMirrored
  BY OfficeInitIsEveryInit, BillingStart
<1>2. BillingTypeOK /\ [OfficeNext]_officeVars => BillingTypeOK'
  BY BillingType, OfficeStepIsAPartStep
<1>3. BillingTypeOK /\ ConfirmationsHold /\ PlanMirrored /\ [OfficeNext]_officeVars => PlanMirrored'
  BY BillingMirrors, OfficeStepIsAPartStep
<1>4. OfficeSpec => ([]ConfirmationsHold => []PlanMirrored)
  BY <1>1, <1>2, <1>3, PTL DEF OfficeSpec
<1> QED BY <1>4 DEF HeldConfirmationsMirrorPlan

-----------------------------------------------------------------------------
(* Warranty reminders.                                                     *)

LEMMA CountToTwo == \A n \in 0..2 : Min({2, n + 1}) = IF n = 0 THEN 1 ELSE 2
<1> SUFFICES ASSUME NEW n \in 0..2 PROVE Min({2, n + 1}) = IF n = 0 THEN 1 ELSE 2
  OBVIOUS
<1>1. Min({2, n + 1}) = IF 2 <= n + 1 THEN 2 ELSE n + 1
  BY MinOfTwo
<1> QED BY <1>1

\* What is left of a window is neither logged nor mailed by this run or an
\* earlier one.
WindowIsNew ==
    /\ run.at = "window" =>
          /\ run.window \in Windows
          /\ \A w \in run.todo : <<w, run.window>> \notin reminders \cup run.logged
    /\ run.at # "window" => run.logged = {}

ReminderInv == ReminderTypeOK /\ WindowIsNew /\ RemindedOnce

LEMMA NoRunType ==
    /\ 1 \in 1..LastDay
    /\ NoRun \in [at : {"none", "between", "window"}, day : 1..LastDay, left : SUBSET Windows,
                  window : Windows \cup {0}, todo : SUBSET Warranties, logged : SUBSET (Warranties \X Windows)]
<1>1. 1 \in 1..LastDay
  BY ReminderAssumption
<1> QED BY <1>1 DEF NoRun

LEMMA RunFields ==
    ASSUME ReminderTypeOK
    PROVE  /\ run.at \in {"none", "between", "window"} /\ run.day \in 1..LastDay
           /\ run.left \in SUBSET Windows /\ run.window \in Windows \cup {0}
           /\ run.todo \in SUBSET Warranties /\ run.logged \in SUBSET (Warranties \X Windows)
BY DEF ReminderTypeOK

LEMMA RemindedKept ==
    ASSUME RemindedOnce, mailed' = mailed, (cut => cut'),
           ~cut' => reminders' \cup run'.logged = reminders \cup run.logged
    PROVE  RemindedOnce'
BY DEF RemindedOnce

LEMMA OpenStep ==
    ASSUME ReminderInv, OpenWindow
    PROVE  ReminderInv'
<1> DEFINE days == Max(run.left)
<1>1. days \in run.left /\ days \in Windows
  <2>1. IsFiniteSet(run.left) /\ run.left # {} /\ run.left \subseteq Int
    BY ReminderAssumption, RunFields, FS_Subset DEF OpenWindow, ReminderInv
  <2> QED BY <2>1, MaxOfFinite, RunFields DEF ReminderInv
<1>2. PICK T \in SUBSET Warranties : T = {w \in Due(days) : <<w, days>> \notin reminders}
  BY DEF Due
<1>3. /\ run' = [run EXCEPT !.at = "window", !.window = days, !.left = @ \ {days}, !.todo = T]
      /\ run.at = "between" /\ UNCHANGED <<today, warranty, reminders, mailed, cut>>
  BY <1>2 DEF OpenWindow
<1> HIDE DEF days
<1>4. /\ run'.at = "window" /\ run'.window = days /\ run'.todo = T
      /\ run'.logged = run.logged /\ run.logged = {}
  BY <1>3 DEF ReminderInv, ReminderTypeOK, WindowIsNew
<1>5. ReminderTypeOK'
  BY <1>1, <1>3 DEF ReminderInv, ReminderTypeOK
<1>6. WindowIsNew'
  BY <1>1, <1>2, <1>3, <1>4 DEF WindowIsNew
<1>7. RemindedOnce'
  BY <1>3, <1>4, RemindedKept DEF ReminderInv
<1> QED BY <1>5, <1>6, <1>7 DEF ReminderInv

LEMMA RemindStep ==
    ASSUME ReminderInv, NEW w \in Warranties, Remind(w)
    PROVE  ReminderInv'
<1>1. PICK d \in Windows : d = run.window /\ <<w, d>> \notin reminders \cup run.logged
  BY RunFields DEF Remind, ReminderInv, WindowIsNew
<1> DEFINE r == <<w, d>>
<1>2. /\ run' = [run EXCEPT !.todo = @ \ {w}, !.logged = @ \cup {r}]
      /\ mailed' = [mailed EXCEPT ![r] = Min({2, @ + 1})]
      /\ run.at = "window" /\ w \in run.todo /\ UNCHANGED <<today, warranty, reminders, cut>>
  BY <1>1 DEF Remind
<1>3. /\ run'.at = "window" /\ run'.window = d /\ run'.todo = run.todo \ {w}
      /\ run'.logged = run.logged \cup {r}
  BY <1>1, <1>2 DEF ReminderInv, ReminderTypeOK
<1>4. /\ mailed[r] \in 0..2 /\ mailed'[r] = IF mailed[r] = 0 THEN 1 ELSE 2
      /\ \A q \in Warranties \X Windows : q # r => mailed'[q] = mailed[q]
  BY <1>1, <1>2, CountToTwo DEF ReminderInv, ReminderTypeOK
<1>5. ReminderTypeOK'
  <2>1. mailed' \in [Warranties \X Windows -> 0..2]
    <3>1. mailed'[r] \in 0..2 /\ r \in Warranties \X Windows
      BY <1>4
    <3>2. mailed \in [Warranties \X Windows -> 0..2]
      BY DEF ReminderInv, ReminderTypeOK
    <3>3. mailed' = [mailed EXCEPT ![r] = mailed'[r]]
      BY <1>2, <3>1, <3>2
    <3> HIDE DEF r
    <3> QED BY <3>1, <3>2, <3>3
  <2> QED BY <1>1, <1>2, <2>1 DEF ReminderInv, ReminderTypeOK
<1>6. WindowIsNew'
  BY <1>1, <1>2, <1>3 DEF ReminderInv, WindowIsNew
<1>7. RemindedOnce'
  <2> SUFFICES ASSUME ~cut, NEW v \in Warranties, NEW e \in Windows
               PROVE  mailed'[<<v, e>>] = IF <<v, e>> \in reminders \cup run'.logged THEN 1 ELSE 0
    BY <1>2 DEF RemindedOnce
  <2>1. mailed[<<v, e>>] = IF <<v, e>> \in reminders \cup run.logged THEN 1 ELSE 0
    BY DEF ReminderInv, RemindedOnce
  <2>2. CASE <<v, e>> = r
    BY <1>1, <1>3, <1>4, <2>1, <2>2
  <2>3. CASE <<v, e>> # r
    BY <1>3, <1>4, <2>1, <2>3
  <2> QED BY <2>2, <2>3
<1> QED BY <1>5, <1>6, <1>7 DEF ReminderInv

LEMMA ReminderStep == ReminderInv /\ [ReminderNext]_reminderVars => ReminderInv'
<1> SUFFICES ASSUME ReminderInv, [ReminderNext]_reminderVars PROVE ReminderInv'
  OBVIOUS
<1>1. ASSUME NEW w \in Warranties, NEW status \in {"active", "other"}, NEW contact \in BOOLEAN,
             SaveWarranty(w, status, contact)
      PROVE  ReminderInv'
  <2>1. ReminderTypeOK'
    BY <1>1 DEF SaveWarranty, ReminderInv, ReminderTypeOK
  <2> QED BY <1>1, <2>1 DEF SaveWarranty, ReminderInv, WindowIsNew, RemindedOnce
<1>2. CASE StartRun
  <2>1. /\ run'.at = "between" /\ run'.logged = {} /\ run.logged = {}
        /\ UNCHANGED <<today, warranty, reminders, mailed, cut>>
    BY <1>2 DEF StartRun, NoRun, ReminderInv, WindowIsNew
  <2>2. ReminderTypeOK'
    BY <1>2 DEF StartRun, NoRun, ReminderInv, ReminderTypeOK
  <2> QED BY <2>1, <2>2, RemindedKept DEF ReminderInv, WindowIsNew
<1>3. CASE CommitWindow
  <2>1. /\ run'.at = "between" /\ run'.logged = {} /\ reminders' = reminders \cup run.logged
        /\ UNCHANGED <<today, warranty, mailed, cut>>
    BY <1>3 DEF CommitWindow, ReminderInv, ReminderTypeOK
  <2>2. ReminderTypeOK'
    BY <1>3, RunFields DEF CommitWindow, ReminderInv, ReminderTypeOK
  <2> QED BY <2>1, <2>2, RemindedKept DEF ReminderInv, WindowIsNew
<1>4. CASE EndRun
  <2>1. /\ run'.at = "none" /\ run'.logged = {} /\ run.logged = {}
        /\ UNCHANGED <<today, warranty, reminders, mailed, cut>>
    BY <1>4 DEF EndRun, NoRun, ReminderInv, WindowIsNew
  <2>2. ReminderTypeOK'
    BY <1>4, NoRunType DEF EndRun, ReminderInv, ReminderTypeOK
  <2> QED BY <2>1, <2>2, RemindedKept DEF ReminderInv, WindowIsNew
<1>5. CASE CutRun
  <2>1. /\ run'.at = "none" /\ run'.logged = {} /\ (cut' <=> (cut \/ run.logged # {}))
        /\ UNCHANGED <<today, warranty, reminders, mailed>> /\ cut' \in BOOLEAN
    BY <1>5 DEF CutRun, NoRun, ReminderInv, ReminderTypeOK
  <2>2. ReminderTypeOK'
    BY <1>5, <2>1, NoRunType DEF CutRun, ReminderInv, ReminderTypeOK
  <2> QED BY <2>1, <2>2, RemindedKept DEF ReminderInv, WindowIsNew
<1>6. CASE NextDay
  <2>1. ReminderTypeOK'
    BY <1>6, ReminderAssumption DEF NextDay, ReminderInv, ReminderTypeOK
  <2> QED BY <1>6, <2>1 DEF NextDay, ReminderInv, WindowIsNew, RemindedOnce
<1>7. CASE UNCHANGED reminderVars
  BY <1>7 DEF reminderVars, ReminderInv, ReminderTypeOK, WindowIsNew, RemindedOnce
<1> QED BY <1>1, <1>2, <1>3, <1>4, <1>5, <1>6, <1>7, OpenStep, RemindStep DEF ReminderNext

LEMMA ReminderStart == ReminderInit => ReminderInv
<1> SUFFICES ASSUME ReminderInit PROVE ReminderInv
  OBVIOUS
<1>1. ReminderTypeOK
  <2>1. /\ today \in 1..LastDay /\ run = NoRun /\ cut \in BOOLEAN
        /\ reminders \subseteq Warranties \X Windows
    BY NoRunType DEF ReminderInit
  <2>2. warranty \in [Warranties -> [status : {"absent", "active", "other"}, contact : BOOLEAN]]
    BY DEF ReminderInit
  <2>3. mailed \in [Warranties \X Windows -> 0..2]
    BY DEF ReminderInit
  <2> QED BY <2>1, <2>2, <2>3, NoRunType DEF ReminderTypeOK
<1>2. WindowIsNew
  BY DEF ReminderInit, WindowIsNew, NoRun
<1>3. RemindedOnce
  <2> SUFFICES ASSUME NEW w \in Warranties, NEW d \in Windows
               PROVE  mailed[<<w, d>>] = IF <<w, d>> \in reminders \cup run.logged THEN 1 ELSE 0
    BY DEF RemindedOnce
  <2> QED BY DEF ReminderInit, NoRun
<1> QED BY <1>1, <1>2, <1>3 DEF ReminderInv

\* For any warranties, expiry dates and windows: one mail for what is logged
\* and none else, until a run is cut inside a window.
THEOREM RemindersAgree == OfficeSpec => []RemindedOnce
<1>1. OfficeInit => ReminderInv
  BY OfficeInitIsEveryInit, ReminderStart
<1>2. ReminderInv /\ [OfficeNext]_officeVars => ReminderInv'
  BY ReminderStep, OfficeStepIsAPartStep
<1>3. ReminderInv => RemindedOnce
  BY DEF ReminderInv
<1> QED BY <1>1, <1>2, <1>3, PTL DEF OfficeSpec

-----------------------------------------------------------------------------
(* The mirror in the daily log.                                            *)

\* What a job has in hand.  The incidents of a photo analysis are its own
\* until it commits, those of a backfill are committed; who is about to
\* insert a mirror holds the lock under which it found none.
PhotoSound(q) ==
    /\ (q.mine \cup q.todo) \cap incidents = {} /\ q.mine \cap q.todo = {}
    /\ q.made \subseteq q.mine /\ q.bare \subseteq q.mine
    /\ q.at # "next" => q.now \subseteq q.mine /\ q.now \cap q.bare = {}
    /\ ~q.aborted => q.made = (IF q.at = "next" THEN q.mine ELSE q.mine \ q.now) \ q.bare

JobSound(j) ==
    LET q == job[j] IN
    /\ q.kind = "none" => q = NoJob
    /\ q.at # "next" => \E i \in Incidents : q.now = {i}
    /\ q.at \in {"check", "insert"} => \A i \in q.now : DateOf[i] \in q.locked
    /\ q.at = "insert" => \A i \in q.now : observed[i] = 0
    /\ q.aborted => q.at = "next"
    /\ q.kind = "backfill" => q.todo \cup q.now \subseteq incidents /\ q.mine = {} /\ q.made = {} /\ q.bare = {}
    /\ q.kind = "photo" => PhotoSound(q)

JobsApart(j, k) ==
    /\ job[j].locked \cap job[k].locked = {}
    /\ job[j].kind = "photo" /\ job[k].kind = "photo" =>
          (job[j].mine \cup job[j].todo) \cap (job[k].mine \cup job[k].todo) = {}

DailyLogInv ==
    /\ manual \subseteq incidents
    /\ observed \in [Incidents -> 0..2]
    /\ job \in [Jobs -> JobSet]
    /\ \A j \in Jobs : JobSound(j)
    /\ \A j, k \in Jobs : j # k => JobsApart(j, k)
    /\ MirroredOnce

LEMMA JobFields ==
    ASSUME DailyLogInv, NEW j \in Jobs
    PROVE  /\ job[j].kind \in {"none", "photo", "backfill"} /\ job[j].at \in {"next", "ensure", "check", "insert"}
           /\ job[j].now \in SUBSET Incidents /\ job[j].todo \in SUBSET Incidents
           /\ job[j].mine \in SUBSET Incidents /\ job[j].made \in SUBSET Incidents
           /\ job[j].bare \in SUBSET Incidents
           /\ job[j].locked \in SUBSET {DateOf[i] : i \in Incidents} /\ job[j].aborted \in BOOLEAN
           /\ job[j] \in JobSet
BY DEF DailyLogInv, JobSet

\* A step of one job that commits nothing.
LEMMA QuietStep ==
    ASSUME DailyLogInv, NEW j \in Jobs, NEW q \in JobSet,
           job' = [job EXCEPT ![j] = q], UNCHANGED <<incidents, observed, manual, unmirrored>>,
           JobSound(j)', \A k \in Jobs \ {j} : JobsApart(j, k)'
    PROVE  DailyLogInv'
<1>1. job' \in [Jobs -> JobSet] /\ \A k \in Jobs : k # j => job'[k] = job[k]
  BY DEF DailyLogInv
<1>2. \A k \in Jobs : JobSound(k)'
  <2> SUFFICES ASSUME NEW k \in Jobs, k # j PROVE JobSound(k)'
    OBVIOUS
  <2>1. JobSound(k) /\ job'[k] = job[k]
    BY <1>1 DEF DailyLogInv
  <2> QED BY <2>1 DEF JobSound, PhotoSound
<1>3. \A k, l \in Jobs : k # l => JobsApart(k, l)'
  <2> SUFFICES ASSUME NEW k \in Jobs, NEW l \in Jobs, k # l PROVE JobsApart(k, l)'
    OBVIOUS
  <2>1. CASE k = j
    BY <2>1
  <2>2. CASE l = j
    <3>1. JobsApart(j, k)'
      BY <2>2
    <3> QED BY <2>2, <3>1 DEF JobsApart
  <2>3. CASE k # j /\ l # j
    <3>1. JobsApart(k, l)
      BY DEF DailyLogInv
    <3> QED BY <1>1, <2>3, <3>1 DEF JobsApart
  <2> QED BY <2>1, <2>2, <2>3
<1>4. MirroredOnce'
  BY DEF DailyLogInv, MirroredOnce
<1> QED BY <1>1, <1>2, <1>3, <1>4 DEF DailyLogInv

LEMMA NoJobStep ==
    ASSUME DailyLogInv, NEW j \in Jobs, job' = [job EXCEPT ![j] = NoJob], UNCHANGED <<incidents, observed, manual, unmirrored>>
    PROVE  DailyLogInv'
<1>1. NoJob \in JobSet
  BY DEF NoJob, JobSet
<1>2. job'[j] = NoJob /\ \A k \in Jobs \ {j} : job'[k] = job[k]
  BY DEF DailyLogInv
<1>3. JobSound(j)' /\ \A k \in Jobs \ {j} : JobsApart(j, k)'
  BY <1>2 DEF JobSound, JobsApart, NoJob
<1> QED BY <1>1, <1>3, QuietStep

LEMMA PhotoStart ==
    ASSUME DailyLogInv, NEW j \in Jobs, NEW I \in SUBSET Incidents, StartPhoto(j, I)
    PROVE  DailyLogInv'
<1> DEFINE q == [NoJob EXCEPT !.kind = "photo", !.todo = I]
<1>1. /\ q \in JobSet /\ q.kind = "photo" /\ q.at = "next" /\ q.todo = I /\ q.mine = {} /\ q.made = {}
      /\ q.bare = {} /\ q.locked = {} /\ q.aborted = FALSE
  BY DEF NoJob, JobSet
<1>2. job' = [job EXCEPT ![j] = q] /\ I \subseteq Unknown /\ UNCHANGED <<incidents, observed, manual, unmirrored>>
  BY DEF StartPhoto, dailyLogRows
<1> HIDE DEF q
<1>3. job'[j] = q /\ \A k \in Jobs \ {j} : job'[k] = job[k]
  BY <1>2 DEF DailyLogInv
<1>4. I \cap incidents = {} /\ \A k \in Jobs : I \cap (job[k].mine \cup job[k].todo) = {}
  BY <1>2 DEF Unknown
<1>5. JobSound(j)'
  BY <1>1, <1>2, <1>3, <1>4 DEF JobSound, PhotoSound
<1>6. \A k \in Jobs \ {j} : JobsApart(j, k)'
  BY <1>1, <1>3, <1>4 DEF JobsApart
<1> QED BY <1>1, <1>2, <1>5, <1>6, QuietStep

LEMMA BackfillStart ==
    ASSUME DailyLogInv, incidents \subseteq Incidents, NEW j \in Jobs, StartBackfill(j)
    PROVE  DailyLogInv'
<1> DEFINE q == [NoJob EXCEPT !.kind = "backfill", !.todo = incidents]
<1>1. /\ q \in JobSet /\ q.kind = "backfill" /\ q.at = "next" /\ q.todo = incidents /\ q.now = {}
      /\ q.mine = {} /\ q.made = {} /\ q.bare = {} /\ q.locked = {} /\ q.aborted = FALSE
  BY DEF NoJob, JobSet
<1>2. job' = [job EXCEPT ![j] = q] /\ UNCHANGED <<incidents, observed, manual, unmirrored>>
  BY DEF StartBackfill, dailyLogRows
<1> HIDE DEF q
<1>3. job'[j] = q /\ \A k \in Jobs \ {j} : job'[k] = job[k]
  BY <1>2 DEF DailyLogInv
<1>4. JobSound(j)'
  BY <1>1, <1>2, <1>3 DEF JobSound
<1>5. \A k \in Jobs \ {j} : JobsApart(j, k)'
  BY <1>1, <1>3 DEF JobsApart
<1> QED BY <1>1, <1>2, <1>4, <1>5, QuietStep

LEMMA TakeStep ==
    ASSUME DailyLogInv, NEW j \in Jobs, NEW i \in Incidents, TakeIncident(j, i)
    PROVE  DailyLogInv'
<1> DEFINE q == job[j]
           M == IF q.kind = "photo" THEN q.mine \cup {i} ELSE q.mine
           r == [q EXCEPT !.at = "ensure", !.now = {i}, !.todo = @ \ {i}, !.mine = M]
<1>1. /\ q.kind \in {"photo", "backfill"} /\ q.at = "next" /\ q.aborted = FALSE /\ i \in q.todo
      /\ UNCHANGED <<incidents, observed, manual, unmirrored>>
  BY JobFields DEF TakeIncident, dailyLogRows, Earliest
<1>2. job' = [job EXCEPT ![j] = r]
  BY DEF TakeIncident, dailyLogRows
<1>3. r \in JobSet
  <2>1. q \in JobSet /\ M \in SUBSET Incidents /\ q.todo \ {i} \in SUBSET Incidents
    BY JobFields
  <2> HIDE DEF M, q
  <2> QED BY <2>1 DEF JobSet
<1>4. job'[j] = r /\ \A k \in Jobs \ {j} : job'[k] = job[k]
  BY <1>2 DEF DailyLogInv
<1>5. /\ r.kind = q.kind /\ r.at = "ensure" /\ r.now = {i} /\ r.todo = q.todo \ {i} /\ r.mine = M
      /\ r.made = q.made /\ r.bare = q.bare /\ r.locked = q.locked /\ r.aborted = q.aborted
  <2>1. q \in JobSet
    BY JobFields
  <2> HIDE DEF M, q
  <2> QED BY <2>1 DEF JobSet
<1>6. JobSound(j) /\ \A k \in Jobs \ {j} : JobsApart(j, k)
  BY DEF DailyLogInv
<1> HIDE DEF r
<1>7. JobSound(j)'
  <2>1. CASE q.kind = "photo"
    <3>1. /\ (q.mine \cup q.todo) \cap incidents = {} /\ q.mine \cap q.todo = {}
          /\ q.bare \subseteq q.mine /\ q.made = q.mine \ q.bare
      BY <1>1, <1>6, <2>1 DEF JobSound, PhotoSound
    <3>2. /\ (r.mine \cup r.todo) \cap incidents = {} /\ r.mine \cap r.todo = {}
          /\ r.made \subseteq r.mine /\ r.bare \subseteq r.mine
          /\ r.now \subseteq r.mine /\ r.now \cap r.bare = {} /\ r.made = (r.mine \ r.now) \ r.bare
      <4> HIDE DEF q
      <4> QED BY <1>1, <1>5, <2>1, <3>1
    <3> QED BY <1>1, <1>4, <1>5, <2>1, <3>2 DEF JobSound, PhotoSound
  <2>2. CASE q.kind = "backfill"
    BY <1>1, <1>4, <1>5, <1>6, <2>2 DEF JobSound
  <2> QED BY <1>1, <2>1, <2>2
<1>8. \A k \in Jobs \ {j} : JobsApart(j, k)'
  BY <1>1, <1>4, <1>5, <1>6 DEF JobsApart
<1> QED BY <1>1, <1>2, <1>3, <1>7, <1>8, QuietStep

LEMMA EnsureStep ==
    ASSUME DailyLogInv, NEW j \in Jobs, EnsureDailyLog(j)
    PROVE  DailyLogInv'
<1> DEFINE q == job[j]
           D == {DateOf[i] : i \in q.now}
           r == [q EXCEPT !.at = "check", !.locked = @ \cup D]
<1>1. /\ q.at = "ensure" /\ \A k \in Jobs \ {j} : D \cap job[k].locked = {}
      /\ UNCHANGED <<incidents, observed, manual, unmirrored>>
  BY DEF EnsureDailyLog, dailyLogRows
<1>2. job' = [job EXCEPT ![j] = r]
  BY DEF EnsureDailyLog, dailyLogRows
<1>3. r \in JobSet
  <2>1. D \in SUBSET {DateOf[i] : i \in Incidents}
    BY JobFields
  <2>2. q \in JobSet
    BY JobFields
  <2>3. q.locked \cup D \in SUBSET {DateOf[i] : i \in Incidents}
    BY <2>1, JobFields
  <2> HIDE DEF D, q
  <2> QED BY <2>2, <2>3 DEF JobSet
<1>4. job'[j] = r /\ \A k \in Jobs \ {j} : job'[k] = job[k]
  BY <1>2 DEF DailyLogInv
<1>5. /\ r.kind = q.kind /\ r.at = "check" /\ r.now = q.now /\ r.todo = q.todo /\ r.mine = q.mine
      /\ r.made = q.made /\ r.bare = q.bare /\ r.locked = q.locked \cup D /\ r.aborted = q.aborted
  <2>1. q \in JobSet
    BY JobFields
  <2> HIDE DEF D, q
  <2> QED BY <2>1 DEF JobSet
<1>6. JobSound(j) /\ \A k \in Jobs \ {j} : JobsApart(j, k)
  BY DEF DailyLogInv
<1>7. q.aborted = FALSE /\ q.kind # "none"
  BY <1>1, <1>6, JobFields DEF JobSound, NoJob
<1> HIDE DEF r
<1>8. JobSound(j)'
  <2>1. \A i \in r.now : DateOf[i] \in r.locked
    <3>1. \A i \in q.now : DateOf[i] \in D
      OBVIOUS
    <3> HIDE DEF D, q
    <3> QED BY <1>5, <3>1
  <2> HIDE DEF D
  <2>2. CASE q.kind = "photo"
    <3>1. /\ (r.mine \cup r.todo) \cap incidents = {} /\ r.mine \cap r.todo = {}
          /\ r.made \subseteq r.mine /\ r.bare \subseteq r.mine
          /\ r.now \subseteq r.mine /\ r.now \cap r.bare = {} /\ r.made = (r.mine \ r.now) \ r.bare
      BY <1>1, <1>5, <1>6, <1>7, <2>2 DEF JobSound, PhotoSound
    <3>2. \E i \in Incidents : r.now = {i}
      BY <1>1, <1>5, <1>6 DEF JobSound
    <3> QED BY <1>1, <1>4, <1>5, <1>7, <2>1, <2>2, <3>1, <3>2 DEF JobSound, PhotoSound
  <2>3. CASE q.kind = "backfill"
    <3>1. /\ \E i \in Incidents : r.now = {i}
          /\ r.todo \cup r.now \subseteq incidents
          /\ r.mine = {} /\ r.made = {} /\ r.bare = {}
      BY <1>1, <1>5, <1>6, <2>3 DEF JobSound
    <3> QED BY <1>1, <1>4, <1>5, <1>7, <2>1, <2>3, <3>1 DEF JobSound
  <2> QED BY <1>7, <2>2, <2>3, JobFields
<1>9. \A k \in Jobs \ {j} : JobsApart(j, k)'
  <2> HIDE DEF D
  <2> QED BY <1>1, <1>4, <1>5, <1>6 DEF JobsApart
<1> QED BY <1>1, <1>2, <1>3, <1>8, <1>9, QuietStep

LEMMA CheckMirrorStep ==
    ASSUME DailyLogInv, NEW j \in Jobs, CheckMirror(j)
    PROVE  DailyLogInv'
<1> DEFINE q == job[j]
           found == \E i \in q.now : observed[i] > 0 \/ i \in manual \cup q.made
           r == [q EXCEPT !.at = IF found THEN "next" ELSE "insert"]
<1>1. q.at = "check" /\ job' = [job EXCEPT ![j] = r] /\ UNCHANGED <<incidents, observed, manual, unmirrored>>
  BY DEF CheckMirror, dailyLogRows
<1>2. /\ r \in JobSet /\ r.kind = q.kind /\ r.now = q.now /\ r.todo = q.todo /\ r.mine = q.mine
      /\ r.made = q.made /\ r.bare = q.bare /\ r.locked = q.locked /\ r.aborted = q.aborted
      /\ r.at = IF found THEN "next" ELSE "insert"
  <2>1. q \in JobSet
    BY JobFields
  <2> HIDE DEF q, found
  <2> QED BY <2>1 DEF JobSet
<1>3. job'[j] = r /\ \A k \in Jobs \ {j} : job'[k] = job[k]
  BY <1>1 DEF DailyLogInv
<1>4. JobSound(j) /\ \A k \in Jobs \ {j} : JobsApart(j, k)
  BY DEF DailyLogInv
<1>5. q.aborted = FALSE /\ q.kind \in {"photo", "backfill"}
  BY <1>1, <1>4, JobFields DEF JobSound, NoJob
<1>6. (\E i \in Incidents : q.now = {i}) /\ \A i \in q.now : DateOf[i] \in q.locked
  BY <1>1, <1>4 DEF JobSound
<1>7. \A i \in Incidents : observed[i] \in 0..2
  BY DEF DailyLogInv
<1> HIDE DEF r
<1>8. JobSound(j)'
  <2>1. CASE q.kind = "photo"
    <3>1. /\ (q.mine \cup q.todo) \cap incidents = {} /\ q.mine \cap q.todo = {}
          /\ q.made \subseteq q.mine /\ q.bare \subseteq q.mine
          /\ q.now \subseteq q.mine /\ q.now \cap q.bare = {} /\ q.made = (q.mine \ q.now) \ q.bare
      BY <1>1, <1>4, <1>5, <2>1 DEF JobSound, PhotoSound
    <3>2. \A i \in q.now : observed[i] = 0 /\ i \notin manual \cup q.made
      BY <1>7, <3>1, JobFields DEF DailyLogInv, MirroredOnce
    <3>3. ~found
      BY <3>2
    <3> HIDE DEF q, found
    <3> QED BY <1>1, <1>2, <1>3, <1>5, <1>6, <2>1, <3>1, <3>2, <3>3 DEF JobSound, PhotoSound
  <2>2. CASE q.kind = "backfill"
    <3>1. q.todo \cup q.now \subseteq incidents /\ q.mine = {} /\ q.made = {} /\ q.bare = {}
      BY <1>4, <2>2 DEF JobSound
    <3>2. ~found => \A i \in q.now : observed[i] = 0
      BY <1>7, JobFields
    <3> HIDE DEF q, found
    <3> QED BY <1>1, <1>2, <1>3, <1>5, <1>6, <2>2, <3>1, <3>2 DEF JobSound
  <2> QED BY <1>5, <2>1, <2>2
<1>9. \A k \in Jobs \ {j} : JobsApart(j, k)'
  BY <1>2, <1>3, <1>4 DEF JobsApart
<1> QED BY <1>1, <1>2, <1>8, <1>9, QuietStep

\* The three ways to the next incident that commit nothing: the mirror of a
\* photo analysis is written, or a statement of it fails, or it raises.
LEMMA BackToNext ==
    ASSUME DailyLogInv, NEW j \in Jobs, NEW r \in JobSet,
           job[j].at # "next", job' = [job EXCEPT ![j] = r], UNCHANGED <<incidents, observed, manual, unmirrored>>,
           r.at = "next", r.kind = job[j].kind, r.now = job[j].now, r.todo = job[j].todo, r.mine = job[j].mine,
           r.locked \subseteq job[j].locked,
           \/ r.kind = "photo" /\ ~r.aborted /\ r.made = job[j].made \cup job[j].now /\ r.bare = job[j].bare
           \/ r.made = job[j].made /\ r.bare = job[j].bare /\ r.aborted = (r.kind = "photo")
           \/ r.kind = "photo" /\ ~r.aborted /\ r.made = job[j].made /\ r.bare = job[j].bare \cup job[j].now
    PROVE  DailyLogInv'
<1> DEFINE q == job[j]
<1>1. job'[j] = r /\ \A k \in Jobs \ {j} : job'[k] = job[k]
  BY DEF DailyLogInv
<1>2. JobSound(j) /\ \A k \in Jobs \ {j} : JobsApart(j, k)
  BY DEF DailyLogInv
<1>3. q.kind \in {"photo", "backfill"} /\ q.aborted = FALSE
  BY <1>2, JobFields DEF JobSound, NoJob
<1>4. JobSound(j)'
  <2>1. CASE q.kind = "photo"
    <3>1. /\ (q.mine \cup q.todo) \cap incidents = {} /\ q.mine \cap q.todo = {}
          /\ q.made \subseteq q.mine /\ q.bare \subseteq q.mine
          /\ q.now \subseteq q.mine /\ q.now \cap q.bare = {} /\ q.made = (q.mine \ q.now) \ q.bare
      BY <1>2, <1>3, <2>1 DEF JobSound, PhotoSound
    <3>2. r.made \subseteq r.mine /\ r.bare \subseteq r.mine /\ (~r.aborted => r.made = r.mine \ r.bare)
      BY <2>1, <3>1
    <3> HIDE DEF q
    <3> QED BY <1>1, <2>1, <3>1, <3>2 DEF JobSound, PhotoSound, q
  <2>2. CASE q.kind = "backfill"
    <3>1. q.todo \cup q.now \subseteq incidents /\ q.mine = {} /\ q.made = {} /\ q.bare = {}
      BY <1>2, <2>2 DEF JobSound
    <3> QED BY <1>1, <2>2, <3>1 DEF JobSound
  <2> QED BY <1>3, <2>1, <2>2
<1>5. \A k \in Jobs \ {j} : JobsApart(j, k)'
  BY <1>1, <1>2 DEF JobsApart
<1> QED BY <1>4, <1>5, QuietStep

LEMMA FailStep ==
    ASSUME DailyLogInv, NEW j \in Jobs, MirrorFails(j)
    PROVE  DailyLogInv'
<1> DEFINE q == job[j]
           r == [q EXCEPT !.at = "next", !.locked = {}, !.aborted = (q.kind = "photo")]
<1>1. q.at # "next" /\ job' = [job EXCEPT ![j] = r] /\ UNCHANGED <<incidents, observed, manual, unmirrored>>
  BY DEF MirrorFails, dailyLogRows
<1>2. /\ r \in JobSet /\ r.at = "next" /\ r.kind = q.kind /\ r.now = q.now /\ r.todo = q.todo /\ r.mine = q.mine
      /\ r.made = q.made /\ r.bare = q.bare /\ r.locked = {} /\ r.aborted = (q.kind = "photo")
  <2>1. q \in JobSet
    BY JobFields
  <2> HIDE DEF q
  <2> QED BY <2>1 DEF JobSet
<1> HIDE DEF r
<1> QED BY <1>1, <1>2, BackToNext

LEMMA RaiseStep ==
    ASSUME DailyLogInv, NEW j \in Jobs, MirrorRaises(j)
    PROVE  DailyLogInv'
<1> DEFINE q == job[j]
           r == [q EXCEPT !.at = "next", !.bare = @ \cup q.now]
<1>1. /\ q.at # "next" /\ q.kind = "photo" /\ job' = [job EXCEPT ![j] = r]
      /\ UNCHANGED <<incidents, observed, manual, unmirrored>>
  BY DEF MirrorRaises, dailyLogRows
<1>2. /\ r \in JobSet /\ r.at = "next" /\ r.kind = q.kind /\ r.now = q.now /\ r.todo = q.todo /\ r.mine = q.mine
      /\ r.made = q.made /\ r.bare = q.bare \cup q.now /\ r.locked = q.locked /\ r.aborted = q.aborted
  <2>1. q \in JobSet /\ q.bare \cup q.now \in SUBSET Incidents
    BY JobFields
  <2> HIDE DEF q
  <2> QED BY <2>1 DEF JobSet
<1>3. q.aborted = FALSE
  BY <1>1, JobFields DEF DailyLogInv, JobSound
<1> HIDE DEF r
<1> QED BY <1>1, <1>2, <1>3, BackToNext

LEMMA CountOf ==
    ASSUME DailyLogInv, NEW I, NEW i \in Incidents
    PROVE  Count(I)[i] = IF i \in I THEN (IF observed[i] = 0 THEN 1 ELSE 2) ELSE observed[i]
<1>1. observed[i] \in 0..2
  BY DEF DailyLogInv
<1> QED BY <1>1, CountToTwo DEF Count

LEMMA PhotoInsert ==
    ASSUME DailyLogInv, NEW j \in Jobs, InsertMirror(j), job[j].kind # "backfill"
    PROVE  DailyLogInv'
<1> DEFINE q == job[j]
           r == [q EXCEPT !.at = "next", !.made = @ \cup q.now]
<1>1. /\ q.at = "insert" /\ job' = [job EXCEPT ![j] = r]
      /\ UNCHANGED <<incidents, observed, manual, unmirrored>>
  BY DEF InsertMirror
<1>2. /\ r \in JobSet /\ r.at = "next" /\ r.kind = q.kind /\ r.now = q.now /\ r.todo = q.todo /\ r.mine = q.mine
      /\ r.made = q.made \cup q.now /\ r.bare = q.bare /\ r.locked = q.locked /\ r.aborted = q.aborted
  <2>1. q \in JobSet /\ q.made \cup q.now \in SUBSET Incidents
    BY JobFields
  <2> HIDE DEF q
  <2> QED BY <2>1 DEF JobSet
<1>3. q.kind = "photo" /\ q.aborted = FALSE
  BY <1>1, JobFields DEF DailyLogInv, JobSound, NoJob
<1> HIDE DEF r
<1> QED BY <1>1, <1>2, <1>3, BackToNext

LEMMA BackfillInsert ==
    ASSUME DailyLogInv, NEW j \in Jobs, InsertMirror(j), job[j].kind = "backfill"
    PROVE  DailyLogInv'
<1> DEFINE q == job[j]
           r == [q EXCEPT !.at = "next", !.locked = {}]
<1>1. /\ q.at = "insert" /\ job' = [job EXCEPT ![j] = r] /\ observed' = Count(q.now)
      /\ UNCHANGED <<incidents, manual, unmirrored>>
  BY DEF InsertMirror
<1>2. /\ r \in JobSet /\ r.at = "next" /\ r.kind = "backfill" /\ r.now = q.now /\ r.todo = q.todo
      /\ r.mine = q.mine /\ r.made = q.made /\ r.bare = q.bare /\ r.locked = {} /\ r.aborted = q.aborted
  <2>1. q \in JobSet /\ q.kind = "backfill"
    BY JobFields
  <2> HIDE DEF q
  <2> QED BY <2>1 DEF JobSet
<1> HIDE DEF r
<1>3. job' \in [Jobs -> JobSet] /\ job'[j] = r /\ \A k \in Jobs \ {j} : job'[k] = job[k]
  BY <1>1, <1>2 DEF DailyLogInv
<1>4. JobSound(j) /\ \A k \in Jobs \ {j} : JobsApart(j, k) /\ JobSound(k)
  BY DEF DailyLogInv
<1>5. /\ q.todo \cup q.now \subseteq incidents /\ q.mine = {} /\ q.made = {} /\ q.bare = {}
      /\ q.now \subseteq Incidents
      /\ \A i \in q.now : observed[i] = 0 /\ DateOf[i] \in q.locked
  BY <1>1, <1>4, JobFields DEF JobSound
<1>6. \A i \in Incidents : observed'[i] = IF i \in q.now THEN 1 ELSE observed[i]
  BY <1>1, <1>5, CountOf
<1>7. observed' \in [Incidents -> 0..2]
  <2>1. \A i \in Incidents : observed'[i] \in 0..2
    BY <1>6 DEF DailyLogInv
  <2> QED BY <1>1, <2>1 DEF Count
<1>8. JobSound(j)'
  BY <1>1, <1>2, <1>3, <1>4, <1>5 DEF JobSound
<1>9. ASSUME NEW k \in Jobs \ {j} PROVE JobSound(k)'
  <2>1. ASSUME NEW i \in job[k].now, job[k].at = "insert" PROVE observed'[i] = 0
    <3>1. observed[i] = 0 /\ DateOf[i] \in job[k].locked /\ i \in Incidents
      BY <1>4, <2>1, JobFields DEF JobSound
    <3>2. i \notin q.now
      BY <1>4, <1>5, <3>1 DEF JobsApart
    <3> QED BY <1>6, <3>1, <3>2
  <2> QED BY <1>1, <1>3, <1>4, <2>1 DEF JobSound, PhotoSound
<1>10. ASSUME NEW k \in Jobs, NEW l \in Jobs, k # l PROVE JobsApart(k, l)'
  <2>1. JobsApart(k, l)
    BY <1>10 DEF DailyLogInv
  <2> QED BY <1>2, <1>3, <2>1 DEF JobsApart
<1>11. MirroredOnce' /\ (manual \subseteq incidents)'
  <2> SUFFICES ASSUME NEW i \in Incidents
               PROVE  /\ observed'[i] <= 1
                      /\ i \in incidents \ unmirrored => observed'[i] = 1
                      /\ observed'[i] > 0 => i \in incidents
    BY <1>1 DEF MirroredOnce, DailyLogInv
  <2>1. /\ observed[i] <= 1 /\ (i \in incidents \ unmirrored => observed[i] = 1)
        /\ (observed[i] > 0 => i \in incidents)
    BY DEF DailyLogInv, MirroredOnce
  <2> QED BY <1>5, <1>6, <2>1
<1> QED BY <1>3, <1>7, <1>8, <1>9, <1>10, <1>11 DEF DailyLogInv

\* The commit of a photo analysis, and the end of a backfill.
LEMMA EndStep ==
    ASSUME DailyLogInv, NEW j \in Jobs, EndJob(j)
    PROVE  DailyLogInv'
<1> DEFINE q == job[j]
<1>1. /\ q.kind # "none" /\ q.at = "next" /\ job' = [job EXCEPT ![j] = NoJob] /\ UNCHANGED manual
  BY DEF EndJob
<1>2. CASE q.aborted
  <2>1. UNCHANGED <<incidents, observed, unmirrored>>
    BY <1>2 DEF EndJob
  <2> QED BY <1>1, <2>1, NoJobStep
<1>3. CASE ~q.aborted
  <2>1. /\ incidents' = incidents \cup q.mine /\ observed' = Count(q.made)
        /\ unmirrored' = unmirrored \cup q.bare
    BY <1>3 DEF EndJob
  <2>2. JobSound(j) /\ \A k \in Jobs \ {j} : JobsApart(j, k) /\ JobSound(k)
    BY DEF DailyLogInv
  <2>3. q.made = q.mine \ q.bare /\ q.bare \subseteq q.mine /\ q.mine \cap incidents = {} /\ q.mine \subseteq Incidents
    BY <1>1, <1>3, <2>2, JobFields DEF JobSound, PhotoSound
  <2>4. \A i \in Incidents : observed'[i] = IF i \in q.made THEN 1 ELSE observed[i]
    <3>1. \A i \in q.made : observed[i] = 0
      BY <2>3 DEF DailyLogInv, MirroredOnce
    <3> QED BY <2>1, <2>3, <3>1, CountOf
  <2>5. observed' \in [Incidents -> 0..2]
    <3>1. \A i \in Incidents : observed'[i] \in 0..2
      BY <2>4 DEF DailyLogInv
    <3> QED BY <2>1, <3>1 DEF Count
  <2>6. /\ job' \in [Jobs -> JobSet] /\ job'[j] = NoJob
        /\ \A k \in Jobs \ {j} : job'[k] = job[k]
    BY <1>1 DEF DailyLogInv, NoJob, JobSet
  <2>7. JobSound(j)'
    BY <2>6 DEF JobSound, NoJob
  <2>8. ASSUME NEW k \in Jobs \ {j} PROVE JobSound(k)'
    <3>1. job[k].kind = "photo" => (job[k].mine \cup job[k].todo) \cap q.mine = {}
      <4>1. q.kind = "photo" \/ q.mine = {}
        BY <1>1, <2>2, JobFields DEF JobSound
      <4> QED BY <2>2, <4>1 DEF JobsApart
    <3>2. ASSUME NEW i \in job[k].now, job[k].at = "insert" PROVE observed'[i] = 0
      <4>1. observed[i] = 0 /\ i \in Incidents
        BY <2>2, <3>2, JobFields DEF JobSound
      <4>2. i \notin q.mine
        <5>1. CASE job[k].kind = "photo"
          <6>1. i \in job[k].mine
            BY <2>2, <3>2, <5>1 DEF JobSound, PhotoSound
          <6> QED BY <3>1, <5>1, <6>1
        <5>2. CASE job[k].kind = "backfill"
          BY <2>2, <2>3, <3>2, <5>2 DEF JobSound
        <5>3. CASE job[k].kind = "none"
          BY <2>2, <3>2, <5>3 DEF JobSound, NoJob
        <5> QED BY <5>1, <5>2, <5>3, JobFields
      <4> QED BY <2>3, <2>4, <4>1, <4>2
    <3>3. job[k].kind = "photo" => (job[k].mine \cup job[k].todo) \cap incidents' = {}
      BY <2>1, <2>2, <3>1 DEF JobSound, PhotoSound
    <3>4. job[k].kind = "backfill" => job[k].todo \cup job[k].now \subseteq incidents'
      BY <2>1, <2>2 DEF JobSound
    <3>5. /\ job[k].at # "next" => \E i \in Incidents : job[k].now = {i}
          /\ job[k].at \in {"check", "insert"} => \A i \in job[k].now : DateOf[i] \in job[k].locked
          /\ job[k].aborted => job[k].at = "next"
      BY <2>2 DEF JobSound
    <3>6. job'[k] = job[k]
      BY <2>6
    <3>7. CASE job[k].kind = "none"
      BY <2>2, <3>6, <3>7 DEF JobSound, NoJob
    <3>8. CASE job[k].kind = "backfill"
      <4>1. job[k].mine = {} /\ job[k].made = {} /\ job[k].bare = {}
        BY <2>2, <3>8 DEF JobSound
      <4> QED BY <3>2, <3>4, <3>5, <3>6, <3>8, <4>1 DEF JobSound
    <3>9. CASE job[k].kind = "photo"
      <4>1. PhotoSound(job[k])
        BY <2>2, <3>9 DEF JobSound
      <4> QED BY <3>2, <3>3, <3>5, <3>6, <3>9, <4>1 DEF JobSound, PhotoSound
    <3> QED BY <3>7, <3>8, <3>9, JobFields
  <2>9. ASSUME NEW k \in Jobs, NEW l \in Jobs, k # l PROVE JobsApart(k, l)'
    <3>1. JobsApart(k, l)
      BY <2>9 DEF DailyLogInv
    <3> QED BY <2>6, <3>1 DEF JobsApart, NoJob
  <2>10. MirroredOnce' /\ (manual \subseteq incidents)'
    <3> SUFFICES ASSUME NEW i \in Incidents
                 PROVE  /\ observed'[i] <= 1
                        /\ i \in incidents' \ unmirrored' => observed'[i] = 1
                        /\ observed'[i] > 0 => i \in incidents'
      BY <1>1, <2>1 DEF MirroredOnce, DailyLogInv
    <3>1. /\ observed[i] <= 1 /\ (i \in incidents \ unmirrored => observed[i] = 1)
          /\ (observed[i] > 0 => i \in incidents)
      BY DEF DailyLogInv, MirroredOnce
    <3> QED BY <2>1, <2>3, <2>4, <3>1
  <2> QED BY <2>5, <2>6, <2>7, <2>8, <2>9, <2>10 DEF DailyLogInv
<1> QED BY <1>2, <1>3

-----------------------------------------------------------------------------
LEMMA DailyLogStart == DailyLogInit => DailyLogInv
<1> SUFFICES ASSUME DailyLogInit PROVE DailyLogInv
  OBVIOUS
<1>1. \A j \in Jobs : job[j] = NoJob
  BY DEF DailyLogInit
<1>2. job \in [Jobs -> JobSet] /\ observed \in [Incidents -> 0..2]
  BY DEF DailyLogInit, NoJob, JobSet
<1>3. \A j \in Jobs : JobSound(j)
  BY <1>1 DEF JobSound, NoJob
<1>4. \A j, k \in Jobs : j # k => JobsApart(j, k)
  BY <1>1 DEF JobsApart, NoJob
<1>5. MirroredOnce /\ manual \subseteq incidents
  BY DEF DailyLogInit, MirroredOnce
<1> QED BY <1>2, <1>3, <1>4, <1>5 DEF DailyLogInv

\* incidents holds ids of incidents only.
LEMMA IncidentsKnown ==
    ASSUME DailyLogInv, incidents \subseteq Incidents, [DailyLogNext]_dailyLogVars
    PROVE  incidents' \subseteq Incidents
<1>1. ASSUME NEW j \in Jobs, EndJob(j) PROVE incidents' \subseteq Incidents
  BY <1>1, JobFields DEF EndJob
<1>2. ASSUME NEW j \in Jobs, ~EndJob(j),
             \/ \E I \in SUBSET Incidents : StartPhoto(j, I)
             \/ StartBackfill(j)
             \/ \E i \in Incidents : TakeIncident(j, i)
             \/ EnsureDailyLog(j) \/ CheckMirror(j) \/ InsertMirror(j)
             \/ MirrorFails(j) \/ MirrorRaises(j) \/ KillJob(j)
      PROVE  incidents' = incidents
  BY <1>2 DEF StartPhoto, StartBackfill, TakeIncident, EnsureDailyLog, CheckMirror, InsertMirror,
              MirrorFails, MirrorRaises, KillJob, dailyLogRows
<1>3. CASE (\E i \in Noted : CreateObservation(i) \/ DeleteObservation(i)) \/ UNCHANGED dailyLogVars
  BY <1>3 DEF CreateObservation, DeleteObservation, dailyLogVars, dailyLogRows
<1> QED BY <1>1, <1>2, <1>3 DEF DailyLogNext

\* A step of users: the sync relies on nothing but that they write of
\* committed incidents.
LEMMA NoteStep ==
    ASSUME DailyLogInv, UNCHANGED <<incidents, observed, job, unmirrored>>, (manual \subseteq incidents)'
    PROVE  DailyLogInv'
<1>1. ASSUME NEW j \in Jobs PROVE JobSound(j)'
  <2>1. JobSound(j)
    BY DEF DailyLogInv
  <2> QED BY <2>1 DEF JobSound, PhotoSound
<1>2. ASSUME NEW j \in Jobs, NEW k \in Jobs, j # k PROVE JobsApart(j, k)'
  <2>1. JobsApart(j, k)
    BY <1>2 DEF DailyLogInv
  <2> QED BY <2>1 DEF JobsApart
<1>3. MirroredOnce'
  BY DEF DailyLogInv, MirroredOnce
<1> QED BY <1>1, <1>2, <1>3 DEF DailyLogInv

LEMMA DailyLogStep ==
    DailyLogInv /\ incidents \subseteq Incidents /\ [DailyLogNext]_dailyLogVars => DailyLogInv'
<1> SUFFICES ASSUME DailyLogInv, incidents \subseteq Incidents, [DailyLogNext]_dailyLogVars PROVE DailyLogInv'
  OBVIOUS
<1>1. ASSUME NEW j \in Jobs, InsertMirror(j) PROVE DailyLogInv'
  BY <1>1, PhotoInsert, BackfillInsert
<1>2. ASSUME NEW j \in Jobs, KillJob(j) PROVE DailyLogInv'
  BY <1>2, NoJobStep DEF KillJob, dailyLogRows
<1>3. CASE (\E i \in Noted : CreateObservation(i) \/ DeleteObservation(i)) \/ UNCHANGED dailyLogVars
  <2>1. UNCHANGED <<incidents, observed, job, unmirrored>> /\ (manual \subseteq incidents)'
    BY <1>3 DEF CreateObservation, DeleteObservation, dailyLogVars, dailyLogRows, DailyLogInv
  <2> QED BY <2>1, NoteStep
<1>4. ASSUME NEW j \in Jobs,
             (\E I \in SUBSET Incidents : StartPhoto(j, I)) \/ StartBackfill(j)
             \/ \E i \in Incidents : TakeIncident(j, i)
      PROVE  DailyLogInv'
  BY <1>4, PhotoStart, BackfillStart, TakeStep
<1>5. ASSUME NEW j \in Jobs, EnsureDailyLog(j) \/ CheckMirror(j) \/ MirrorFails(j) \/ MirrorRaises(j) \/ EndJob(j)
      PROVE  DailyLogInv'
  BY <1>5, EnsureStep, CheckMirrorStep, FailStep, RaiseStep, EndStep
<1>6. CASE DailyLogNext /\ ~\E i \in Noted : CreateObservation(i) \/ DeleteObservation(i)
  <2>1. PICK j \in Jobs :
           \/ \E I \in SUBSET Incidents : StartPhoto(j, I)
           \/ StartBackfill(j)
           \/ \E i \in Incidents : TakeIncident(j, i)
           \/ EnsureDailyLog(j) \/ CheckMirror(j) \/ InsertMirror(j)
           \/ MirrorFails(j) \/ MirrorRaises(j) \/ EndJob(j) \/ KillJob(j)
    BY <1>6 DEF DailyLogNext
  <2> QED BY <2>1, <1>1, <1>2, <1>4, <1>5
<1> QED BY <1>3, <1>6

\* For any incidents, days and jobs: the sync mirrors no incident twice, and
\* each as soon as it can be seen unless its mirror raised, by the lock of
\* the log's row alone, whatever observations users write.
THEOREM MirrorsAreUnique == OfficeSpec => []MirroredOnce
<1> DEFINE I == DailyLogInv /\ incidents \subseteq Incidents
<1>1. OfficeInit => I
  BY OfficeInitIsEveryInit, DailyLogStart DEF DailyLogInit
<1>2. I /\ [OfficeNext]_officeVars => I'
  BY DailyLogStep, IncidentsKnown, OfficeStepIsAPartStep
<1>3. I => MirroredOnce
  BY DEF DailyLogInv
<1> QED BY <1>1, <1>2, <1>3, PTL DEF OfficeSpec

-----------------------------------------------------------------------------
(* Sums over the last ticks.                                               *)

\* What the last k + 1 ticks have.
Upto(f, k) == SumFunctionOnSet(f, 0..k)

LEMMA InWindowIsSum ==
    ASSUME NEW f
    PROVE  InWindow(f) = Upto(f, Window - 1)
<1> DEFINE S == Slots
           op(t) == f[t]
           Is(h) == h = [s \in SUBSET S |->
                          IF s = {} THEN 0 ELSE op(CHOOSE x \in s : TRUE) + h[s \ {CHOOSE x \in s : TRUE}]]
           it == CHOOSE h : Is(h)
<1>1. InWindow(f) = it[S]
  BY DEF InWindow, MapThenSumSet, MapThenFoldSet
<1>2. IsFiniteSet(S) /\ S = 0..(Window - 1)
  BY RateAssumption, FS_Interval DEF Slots
<1>3. \A h : Is(h) <=> IsSum(f, h, S)
  BY DEF IsSum, Step, Pick
<1> HIDE DEF S
<1>4. IsSum(f, it, S)
  <2>1. \E h : IsSum(f, h, S)
    BY <1>2, SumExists
  <2> HIDE DEF Is
  <2>2. \E h : Is(h)
    BY <1>3, <2>1
  <2>3. Is(it)
    BY <2>2
  <2> HIDE DEF it
  <2> QED BY <1>3, <2>3
<1> HIDE DEF it
<1>5. PICK g : IsSum(f, g, S) /\ SumFunctionOnSet(f, S) = g[S]
  BY <1>2, SumIsSum
<1>6. it[S] = g[S]
  BY <1>2, <1>4, <1>5, SumIsUnique
<1>7. Upto(f, Window - 1) = SumFunctionOnSet(f, S)
  BY <1>2 DEF Upto
<1> QED BY <1>1, <1>5, <1>6, <1>7

Ticks(f) == f \in [Slots -> Nat]

LEMMA SlotFacts ==
    /\ Window \in Nat /\ Window >= 1 /\ Window - 1 \in Nat /\ Slots = 0..(Window - 1)
    /\ 0 \in Slots /\ Window - 1 \in Slots /\ \A k \in Slots : k \in Nat /\ 0..k \subseteq Slots
    /\ \A k \in 0..(Window - 2) : k \in Slots /\ k + 1 \in Slots
BY RateAssumption DEF Slots

LEMMA UptoType ==
    ASSUME NEW f, Ticks(f), NEW k \in Slots
    PROVE  Upto(f, k) \in Nat
<1> DEFINE S == 0..k
<1>1. IsFiniteSet(S) /\ \A x \in S : f[x] \in Nat
  <2>1. k \in Nat /\ S \subseteq Slots
    BY SlotFacts
  <2>2. \A x \in Slots : f[x] \in Nat
    BY DEF Ticks
  <2> QED BY <2>1, <2>2, FS_Interval
<1> HIDE DEF S
<1>2. SumFunctionOnSet(f, S) \in Nat
  BY <1>1, SumOfNaturals
<1> QED BY <1>2 DEF Upto, S

LEMMA UptoFirst ==
    ASSUME NEW f, Ticks(f)
    PROVE  Upto(f, 0) = f[0] /\ f[0] \in Nat
<1> DEFINE S == {0}
<1>1. f[0] \in Nat
  BY SlotFacts DEF Ticks
<1>2. 0..0 = S /\ S \ {0} = {} /\ 0 \in S
  OBVIOUS
<1>3. IsFiniteSet(S) /\ \A x \in S : f[x] \in Int
  BY <1>1, FS_Singleton
<1> HIDE DEF S
<1>4. SumFunctionOnSet(f, S) = SumFunctionOnSet(f, S \ {0}) + f[0]
  BY <1>2, <1>3, SumOfMore
<1>5. SumFunctionOnSet(f, S \ {0}) = 0
  BY <1>2, SumOfEmpty
<1> QED BY <1>1, <1>2, <1>4, <1>5 DEF Upto

LEMMA UptoNext ==
    ASSUME NEW f, Ticks(f)
    PROVE  \A k \in 0..(Window - 2) : Upto(f, k + 1) = Upto(f, k) + f[k + 1]
<1> SUFFICES ASSUME NEW k \in 0..(Window - 2) PROVE Upto(f, k + 1) = Upto(f, k) + f[k + 1]
  OBVIOUS
<1> DEFINE u == k + 1
           T == 0..u
           S == 0..k
<1>0. k \in Nat /\ u \in Slots /\ Window \in Nat
  BY SlotFacts
<1>1. T \ {u} = S /\ u \in T
  BY <1>0
<1>2. IsFiniteSet(T)
  BY <1>0, FS_Interval
<1>3. \A x \in T : f[x] \in Int
  <2>1. T \subseteq Slots
    BY <1>0, SlotFacts
  <2>2. \A x \in Slots : f[x] \in Nat
    BY DEF Ticks
  <2> QED BY <2>1, <2>2
<1> HIDE DEF S, T, u
<1>4. SumFunctionOnSet(f, T) = SumFunctionOnSet(f, T \ {u}) + f[u]
  BY <1>1, <1>2, <1>3, SumOfMore
<1>5. Upto(f, u) = SumFunctionOnSet(f, T) /\ Upto(f, k) = SumFunctionOnSet(f, S)
  BY DEF Upto, T, S
<1> QED BY <1>1, <1>4, <1>5 DEF u

\* More ticks have no less, and no fewer than one of them.
LEMMA UptoGrows ==
    ASSUME NEW f, Ticks(f)
    PROVE  \A k \in Slots : Upto(f, k) <= Upto(f, Window - 1) /\ f[k] <= Upto(f, k)
<1>0. /\ \A k \in Slots : Upto(f, k) \in Nat /\ f[k] \in Nat
      /\ \A k \in 0..(Window - 2) : /\ k \in Slots /\ k + 1 \in Slots
                                    /\ Upto(f, k + 1) = Upto(f, k) + f[k + 1]
  BY UptoType, UptoNext, SlotFacts DEF Ticks
<1>1. \A k \in Slots : f[k] <= Upto(f, k)
  <2> SUFFICES ASSUME NEW k \in Slots PROVE f[k] <= Upto(f, k)
    OBVIOUS
  <2>1. CASE k = 0
    BY <1>0, <2>1, UptoFirst
  <2>2. CASE k # 0
    <3> DEFINE j == k - 1
    <3>1. j \in 0..(Window - 2) /\ j + 1 = k
      BY <2>2, SlotFacts
    <3> HIDE DEF j
    <3>2. Upto(f, k) = Upto(f, j) + f[k] /\ Upto(f, j) \in Nat
      BY <1>0, <3>1
    <3> QED BY <1>0, <3>2
  <2> QED BY <2>1, <2>2
<1>2. ASSUME NEW k \in Slots PROVE Upto(f, k) <= Upto(f, Window - 1)
  <2> DEFINE m == Window - 1
             S == {i \in 0..m : k <= i => Upto(f, k) <= Upto(f, i)}
  <2>0. m \in Nat /\ 0 \in 0..m /\ k \in Nat /\ Slots = 0..m
    BY SlotFacts
  <2>1. 0 \in S
    <3>1. k <= 0 => k = 0
      BY <2>0
    <3>2. Upto(f, k) \in Nat
      BY <1>0
    <3> QED BY <2>0, <3>1, <3>2
  <2>2. ASSUME NEW i \in 0..(m - 1), i \in S PROVE i + 1 \in S
    <3>1. i \in 0..m /\ i + 1 \in 0..m /\ i \in 0..(Window - 2)
      BY <2>0, SlotFacts
    <3>2. Upto(f, i + 1) = Upto(f, i) + f[i + 1] /\ Upto(f, i) \in Nat /\ f[i + 1] \in Nat
          /\ Upto(f, k) \in Nat /\ Upto(f, i + 1) \in Nat
      BY <1>0, <3>1
    <3>3. CASE k <= i
      <4>1. Upto(f, k) <= Upto(f, i)
        BY <2>2, <3>3
      <4>2. Upto(f, k) <= Upto(f, i + 1)
        BY <3>2, <4>1
      <4> QED BY <3>1, <4>2
    <3>4. CASE ~(k <= i)
      <4>1. k <= i + 1 => k = i + 1
        BY <2>0, <3>4
      <4> QED BY <3>1, <3>2, <4>1
    <3> QED BY <3>3, <3>4
  <2> HIDE DEF S
  <2>3. 0..m \subseteq S
    <3> HIDE DEF m
    <3> QED BY <2>0, <2>1, <2>2, IntervalInduction
  <2>4. m \in S /\ k <= m
    BY <2>0, <2>3
  <2> QED BY <2>4 DEF S
<1> QED BY <1>1, <1>2

\* One more call in this tick.
LEMMA UptoOneMore ==
    ASSUME NEW f, Ticks(f), NEW h, h = [f EXCEPT ![0] = @ + 1]
    PROVE  Ticks(h) /\ \A k \in Slots : Upto(h, k) = Upto(f, k) + 1
<1>1. Ticks(h) /\ h[0] = f[0] + 1 /\ f[0] \in Nat /\ \A t \in Slots \ {0} : h[t] = f[t]
  BY SlotFacts DEF Ticks
<1> DEFINE S == {k \in Slots : Upto(h, k) = Upto(f, k) + 1}
           m == Window - 1
<1>0. m \in Nat /\ 0 \in 0..m /\ Slots = 0..m
  BY SlotFacts
<1>2. 0 \in S
  <2>1. Upto(h, 0) = h[0] /\ Upto(f, 0) = f[0]
    BY <1>1, UptoFirst
  <2> QED BY <1>0, <1>1, <2>1
<1>3. ASSUME NEW i \in 0..(m - 1), i \in S PROVE i + 1 \in S
  <2>1. i \in 0..(Window - 2) /\ i \in Slots /\ i + 1 \in Slots /\ i + 1 # 0
    BY <1>0, SlotFacts
  <2>2. Upto(f, i + 1) = Upto(f, i) + f[i + 1] /\ Upto(h, i + 1) = Upto(h, i) + h[i + 1]
    BY <1>1, <2>1, UptoNext
  <2>3. h[i + 1] = f[i + 1] /\ f[i + 1] \in Nat /\ Upto(f, i) \in Nat
    BY <1>1, <2>1, UptoType DEF Ticks
  <2>4. Upto(h, i) = Upto(f, i) + 1
    BY <1>3
  <2>5. Upto(h, i + 1) = Upto(f, i + 1) + 1
    BY <2>2, <2>3, <2>4
  <2> QED BY <2>1, <2>5
<1> HIDE DEF S
<1>4. 0..m \subseteq S
  <2> HIDE DEF m
  <2> QED BY <1>0, <1>2, <1>3, IntervalInduction
<1> QED BY <1>0, <1>1, <1>4 DEF S

\* A tick later.
LEMMA UptoShifted ==
    ASSUME NEW f, Ticks(f), NEW h, h = Shift(f)
    PROVE  /\ Ticks(h) /\ Upto(h, 0) = 0
           /\ \A k \in 0..(Window - 2) : Upto(h, k + 1) = Upto(f, k)
           /\ \A t \in Slots : h[t] = IF t = 0 THEN 0 ELSE f[t - 1]
<1>0. \A t \in Slots : t = 0 \/ t - 1 \in Slots
  BY SlotFacts
<1>1. \A t \in Slots : h[t] = IF t = 0 THEN 0 ELSE f[t - 1]
  BY DEF Shift
<1>2. Ticks(h)
  BY <1>0, SlotFacts DEF Ticks, Shift
<1>3. Upto(h, 0) = 0
  BY <1>1, <1>2, UptoFirst, SlotFacts
<1> DEFINE m == Window - 1
           S == {k \in Slots : k + 1 \in Slots => Upto(h, k + 1) = Upto(f, k)}
<1>4. m \in Nat /\ 0 \in 0..m /\ Slots = 0..m /\ Window \in Nat
  BY SlotFacts
<1>5. 0 \in S
  <2> SUFFICES ASSUME 0 + 1 \in Slots PROVE Upto(h, 0 + 1) = Upto(f, 0)
    BY <1>4
  <2>1. 0 \in 0..(Window - 2)
    BY <1>4
  <2>2. Upto(h, 0 + 1) = Upto(h, 0) + h[0 + 1]
    BY <1>2, <2>1, UptoNext
  <2>3. h[0 + 1] = f[0]
    BY <1>1
  <2> QED BY <1>3, <2>2, <2>3, UptoFirst
<1>6. ASSUME NEW i \in 0..(m - 1), i \in S PROVE i + 1 \in S
  <2>1. i + 1 \in Slots /\ i \in Slots /\ i \in 0..(Window - 2)
    BY <1>4, SlotFacts
  <2>2. ASSUME (i + 1) + 1 \in Slots PROVE Upto(h, (i + 1) + 1) = Upto(f, i + 1)
    <3> DEFINE j == i + 1
    <3>1. j \in 0..(Window - 2)
      BY <1>4, <2>2
    <3>2. Upto(h, j + 1) = Upto(h, j) + h[j + 1]
      BY <1>2, <3>1, UptoNext
    <3>3. h[j + 1] = f[j]
      <4>1. j + 1 # 0 /\ (j + 1) - 1 = j /\ j + 1 \in Slots
        BY <2>2, <3>1
      <4> QED BY <1>1, <4>1
    <3>4. Upto(h, j) = Upto(f, i)
      BY <1>6, <2>1
    <3>5. Upto(f, j) = Upto(f, i) + f[j]
      BY <2>1, UptoNext
    <3> QED BY <3>2, <3>3, <3>4, <3>5
  <2> QED BY <2>1, <2>2
<1> HIDE DEF S
<1>7. 0..m \subseteq S
  <2> HIDE DEF m
  <2> QED BY <1>4, <1>5, <1>6, IntervalInduction
<1>8. \A k \in 0..(Window - 2) : Upto(h, k + 1) = Upto(f, k)
  <2>1. \A k \in 0..(Window - 2) : k \in Slots /\ k + 1 \in Slots
    BY SlotFacts
  <2> QED BY <1>4, <1>7, <2>1 DEF S
<1> QED BY <1>1, <1>2, <1>3, <1>8

LEMMA UptoZero ==
    Ticks(Zero) /\ \A k \in Slots : Upto(Zero, k) = 0
<1>1. Ticks(Zero) /\ \A t \in Slots : Zero[t] = 0
  BY DEF Ticks, Zero
<1> DEFINE m == Window - 1
           S == {k \in Slots : Upto(Zero, k) = 0}
<1>2. m \in Nat /\ 0 \in 0..m /\ Slots = 0..m
  BY SlotFacts
<1>3. 0 \in S
  BY <1>1, <1>2, UptoFirst
<1>4. ASSUME NEW i \in 0..(m - 1), i \in S PROVE i + 1 \in S
  <2>1. i + 1 \in Slots /\ i \in 0..(Window - 2)
    BY <1>2, SlotFacts
  <2>2. Upto(Zero, i + 1) = Upto(Zero, i) + Zero[i + 1]
    BY <1>1, <2>1, UptoNext
  <2>3. Upto(Zero, i + 1) = 0
    BY <1>1, <1>4, <2>1, <2>2
  <2> QED BY <2>1, <2>3
<1> HIDE DEF S
<1>5. 0..m \subseteq S
  <2> HIDE DEF m
  <2> QED BY <1>2, <1>3, <1>4, IntervalInduction
<1> QED BY <1>1, <1>2, <1>5 DEF S

LEMMA ShiftHasNoMore ==
    ASSUME NEW f, Ticks(f), NEW h, h = Shift(f)
    PROVE  Upto(h, Window - 1) <= Upto(f, Window - 1)
<1>1. CASE Window = 1
  <2>1. Upto(h, Window - 1) = 0
    BY <1>1, UptoShifted
  <2> QED BY <2>1, UptoType, SlotFacts
<1>2. CASE Window # 1
  <2> DEFINE k == Window - 2
  <2>1. k \in 0..(Window - 2) /\ k + 1 = Window - 1 /\ k \in Slots
    BY <1>2, SlotFacts
  <2>2. Upto(h, k + 1) = Upto(f, k)
    BY <2>1, UptoShifted
  <2>3. Upto(f, k) <= Upto(f, Window - 1)
    BY <2>1, UptoGrows
  <2> QED BY <2>1, <2>2, <2>3
<1> QED BY <1>1, <1>2

-----------------------------------------------------------------------------
(* The window in Redis.                                                    *)

\* The calls that INCR gave an answer to.
Answered == [t \in Slots |-> admitted[t] - open[t]]

KeyTyped ==
    /\ counter \in [count : 0..(CallLimit + 1), ttl : 1..Window \cup {Never}]
    /\ caller \in [Callers -> {"idle", "expire"}]
    /\ refused \in BOOLEAN /\ stranded \in BOOLEAN
    /\ Ticks(admitted) /\ Ticks(open) /\ Ticks(Answered)
    /\ \A t \in Slots : open[t] <= MaxErrors

\* A call between INCR and EXPIRE is the only one, and its key has no TTL.
KeyInv ==
    /\ counter.count = 0 => counter.ttl = Never
    /\ \A c \in Callers : caller[c] = "expire" =>
          /\ counter.count > 0 /\ counter.ttl = Never
          /\ \A d \in Callers \ {c} : caller[d] = "idle"

Limited == IF counter.count <= CallLimit THEN counter.count ELSE CallLimit
Pending == IF \A c \in Callers : caller[c] = "idle" THEN 0 ELSE 1
Age     == IF counter.ttl = Never THEN 0 ELSE Window - counter.ttl

\* Since its first call, the window has let through what it counted, but for
\* the call between INCR and EXPIRE; before it, at most a full window.
WindowInv ==
    /\ Upto(Answered, Age) <= Limited - Pending
    /\ Upto(Answered, Window - 1) <= CallLimit + (Limited - Pending)

RedisInv == KeyTyped /\ KeyInv /\ WindowInv

LEMMA KeyFacts ==
    ASSUME KeyTyped
    PROVE  /\ counter.count \in 0..(CallLimit + 1) /\ counter.ttl \in 1..Window \cup {Never}
           /\ CallLimit \in Nat /\ CallLimit >= 1 /\ Window \in Nat /\ Window >= 1
           /\ Limited \in Nat /\ Limited <= CallLimit /\ Pending \in {0, 1}
           /\ Age \in Slots /\ Window - 1 \in Slots
           /\ Upto(Answered, Age) \in Nat /\ Upto(Answered, Window - 1) \in Nat
<1>1. counter.count \in 0..(CallLimit + 1) /\ counter.ttl \in 1..Window \cup {Never}
  BY DEF KeyTyped
<1>2. CallLimit \in Nat /\ CallLimit >= 1 /\ Window \in Nat /\ Window >= 1
  BY RateAssumption
<1>3. Limited \in Nat /\ Limited <= CallLimit /\ Pending \in {0, 1}
  BY <1>1, <1>2 DEF Limited, Pending
<1>4. Age \in Slots /\ Window - 1 \in Slots
  BY <1>1, <1>2, SlotFacts DEF Age, Never
<1>5. Upto(Answered, Age) \in Nat /\ Upto(Answered, Window - 1) \in Nat
  BY <1>4, UptoType DEF KeyTyped
<1> QED BY <1>1, <1>2, <1>3, <1>4, <1>5

LEMMA RedisStart == RateInit => RedisInv
<1> SUFFICES ASSUME RateInit PROVE RedisInv
  OBVIOUS
<1>1. KeyTyped
  <2>1. NoKey \in [count : 0..(CallLimit + 1), ttl : 1..Window \cup {Never}]
    BY RateAssumption DEF NoKey
  <2>2. [c \in Callers |-> "idle"] \in [Callers -> {"idle", "expire"}]
    OBVIOUS
  <2>3. Ticks(Zero) /\ Answered = Zero /\ \A t \in Slots : open[t] = 0 /\ open[t] <= MaxErrors
    BY UptoZero, RateAssumption DEF RateInit, Answered, Zero
  <2> QED BY <2>1, <2>2, <2>3 DEF RateInit, KeyTyped
<1>2. KeyInv
  BY DEF RateInit, KeyInv, NoKey
<1>3. Upto(Answered, Age) = 0 /\ Upto(Answered, Window - 1) = 0
  <2>1. Answered = Zero /\ Age \in Slots /\ Window - 1 \in Slots
    BY <1>1, KeyFacts DEF RateInit, Answered, Zero
  <2>2. \A k \in Slots : Upto(Zero, k) = 0
    BY UptoZero
  <2> QED BY <2>1, <2>2
<1>4. Limited - Pending \in Nat /\ CallLimit \in Nat
  BY <1>1, KeyFacts DEF RateInit, Pending
<1>5. WindowInv
  <2> DEFINE m == Limited - Pending
  <2> HIDE DEF m
  <2>1. m \in Nat
    BY <1>4 DEF m
  <2>2. 0 <= m /\ 0 <= CallLimit + m
    BY <1>4, <2>1
  <2> QED BY <1>3, <2>2 DEF WindowInv, m
<1> QED BY <1>1, <1>2, <1>5 DEF RedisInv

\* What INCR does to the key.
LEMMA CountStep ==
    ASSUME KeyTyped, counter' = Counted
    PROVE  /\ counter' \in [count : 0..(CallLimit + 1), ttl : 1..Window \cup {Never}]
           /\ counter'.ttl = counter.ttl /\ counter'.count > 0 /\ Age' = Age
           /\ Limited' \in Nat /\ Limited' \in {Limited, Limited + 1}
           /\ counter.count < CallLimit => Limited' = Limited + 1
<1> DEFINE n == counter.count
           v == IF CallLimit + 1 <= n + 1 THEN CallLimit + 1 ELSE n + 1
<1>1. n \in 0..(CallLimit + 1) /\ CallLimit \in Nat /\ CallLimit >= 1
  BY KeyFacts
<1>2. v \in 0..(CallLimit + 1) /\ Min({CallLimit + 1, n + 1}) = v
  BY <1>1, MinOfTwo
<1>3. counter' = [counter EXCEPT !.count = v]
  <2>1. counter' = [counter EXCEPT !.count = Min({CallLimit + 1, n + 1})]
    BY DEF Counted
  <2> HIDE DEF v
  <2> QED BY <1>2, <2>1
<1>4. counter \in [count : 0..(CallLimit + 1), ttl : 1..Window \cup {Never}]
  BY DEF KeyTyped
<1>5. /\ counter' \in [count : 0..(CallLimit + 1), ttl : 1..Window \cup {Never}]
      /\ counter'.count = v /\ counter'.ttl = counter.ttl
  <2> HIDE DEF v
  <2> QED BY <1>2, <1>3, <1>4
<1>6. Age' = Age
  BY <1>5 DEF Age
<1>7. v > 0 /\ v \in Nat
  BY <1>1
<1>8. /\ Limited = IF n <= CallLimit THEN n ELSE CallLimit
      /\ Limited' = IF v <= CallLimit THEN v ELSE CallLimit
  BY <1>5 DEF Limited
<1>9. /\ Limited' \in Nat /\ Limited' \in {Limited, Limited + 1}
      /\ n < CallLimit => Limited' = Limited + 1
  BY <1>1, <1>8
<1> QED BY <1>5, <1>6, <1>7, <1>9

\* What an answer does to the ghosts, if INCR gave one.
LEMMA AnswerStep ==
    ASSUME KeyTyped, NEW through \in BOOLEAN, Answer(through), open' = open
    PROVE  /\ refused' \in BOOLEAN
           /\ Ticks(admitted)' /\ Ticks(open)' /\ Ticks(Answered)' /\ (\A t \in Slots : open[t] <= MaxErrors)'
           /\ \A k \in Slots : Upto(Answered', k) = IF through THEN Upto(Answered, k) + 1 ELSE Upto(Answered, k)
<1>1. refused' \in BOOLEAN
  BY DEF Answer
<1>2. Ticks(admitted) /\ Ticks(open) /\ Ticks(Answered) /\ \A t \in Slots : open[t] <= MaxErrors
  BY DEF KeyTyped
<1>3. CASE ~through
  <2>1. admitted' = admitted /\ Answered' = Answered
    BY <1>3 DEF Answer, Answered
  <2> QED BY <1>1, <1>2, <1>3, <2>1
<1>4. CASE through
  <2>1. admitted' = [admitted EXCEPT ![0] = @ + 1]
    BY <1>4 DEF Answer
  <2>2. Ticks(admitted')
    BY <1>2, <2>1, UptoOneMore
  <2>3. \A t \in Slots : admitted[t] \in Nat /\ open[t] \in Nat
    BY <1>2 DEF Ticks
  <2>4. Answered' = [Answered EXCEPT ![0] = @ + 1]
    <3>1. \A t \in Slots : admitted'[t] = IF t = 0 THEN admitted[0] + 1 ELSE admitted[t]
      BY <1>2, <2>1 DEF Ticks
    <3>2. \A t \in Slots : Answered'[t] = admitted'[t] - open[t] /\ Answered[t] = admitted[t] - open[t]
      BY DEF Answered
    <3>3. \A t \in Slots : Answered'[t] = IF t = 0 THEN Answered[0] + 1 ELSE Answered[t]
      <4> SUFFICES ASSUME NEW t \in Slots
                   PROVE  Answered'[t] = IF t = 0 THEN Answered[0] + 1 ELSE Answered[t]
        OBVIOUS
      <4>1. CASE t = 0
        <5>1. 0 \in Slots
          BY SlotFacts
        <5>2. admitted'[0] = admitted[0] + 1
          BY <3>1, <5>1
        <5>3. admitted[0] \in Nat /\ open[0] \in Nat
          BY <2>3, <5>1
        <5>4. Answered'[0] = admitted'[0] - open[0] /\ Answered[0] = admitted[0] - open[0]
          BY <3>2, <5>1
        <5>5. Answered'[0] = Answered[0] + 1
          BY <5>2, <5>3, <5>4
        <5> QED BY <4>1, <5>5
      <4>2. CASE t # 0
        <5>1. admitted'[t] = admitted[t]
          BY <3>1, <4>2
        <5>2. Answered'[t] = Answered[t]
          BY <3>2, <5>1
        <5> QED BY <4>2, <5>2
      <4> QED BY <4>1, <4>2
    <3>4. Answered' = [t \in Slots |-> Answered'[t]] /\ Answered = [t \in Slots |-> Answered[t]]
      BY DEF Answered
    <3> QED BY <3>3, <3>4
  <2>5. Ticks(Answered') /\ \A k \in Slots : Upto(Answered', k) = Upto(Answered, k) + 1
    BY <1>2, <2>4, UptoOneMore
  <2> QED BY <1>1, <1>2, <1>4, <2>2, <2>5
<1> QED BY <1>3, <1>4

\* INCR.
LEMMA IncrStep ==
    ASSUME RedisInv, NEW c \in Callers, Incr(c)
    PROVE  RedisInv'
<1>0. KeyTyped /\ KeyInv /\ WindowInv
  BY DEF RedisInv
<1>1. /\ counter' \in [count : 0..(CallLimit + 1), ttl : 1..Window \cup {Never}]
      /\ counter'.ttl = counter.ttl /\ counter'.count > 0 /\ Age' = Age
      /\ Limited' \in Nat /\ Limited' \in {Limited, Limited + 1}
      /\ counter.count < CallLimit => Limited' = Limited + 1
  BY <1>0, CountStep DEF Incr
<1>2. CASE counter.count = 0
  <2>1. caller' = [caller EXCEPT ![c] = "expire"] /\ UNCHANGED <<refused, admitted, open, stranded>>
    BY <1>2 DEF Incr
  <2>2. Answered' = Answered
    BY <2>1 DEF Answered
  <2>3. counter.ttl = Never /\ \A d \in Callers : caller[d] = "idle"
    BY <1>0, <1>2 DEF KeyInv, KeyTyped
  <2>4. KeyTyped'
    BY <1>0, <1>1, <2>1, <2>2 DEF KeyTyped
  <2>5. KeyInv'
    BY <1>0, <1>1, <2>1, <2>3 DEF KeyInv, KeyTyped
  <2>6. caller'[c] = "expire"
    BY <1>0, <2>1 DEF KeyTyped
  <2>7. Pending = 0 /\ Pending' = 1
    BY <2>3, <2>6 DEF Pending
  <2>8. Limited' = Limited + 1
    BY <1>0, <1>1, <1>2, KeyFacts
  <2>9. Limited' - Pending' = Limited - Pending
    BY <1>0, <2>7, <2>8, KeyFacts
  <2>10. WindowInv'
    BY <1>0, <1>1, <2>2, <2>9 DEF WindowInv
  <2> QED BY <2>4, <2>5, <2>10 DEF RedisInv
<1>3. CASE counter.count # 0
  <2> DEFINE through == counter.count < CallLimit
  <2>1. Answer(through) /\ UNCHANGED <<caller, open, stranded>>
    BY <1>3 DEF Incr
  <2>2. /\ refused' \in BOOLEAN
        /\ Ticks(admitted)' /\ Ticks(open)' /\ Ticks(Answered)' /\ (\A t \in Slots : open[t] <= MaxErrors)'
        /\ \A k \in Slots : Upto(Answered', k) = IF through THEN Upto(Answered, k) + 1 ELSE Upto(Answered, k)
    <3> HIDE DEF through
    <3>1. through \in BOOLEAN
      BY DEF through
    <3> QED BY <1>0, <2>1, <3>1, AnswerStep
  <2>3. KeyTyped'
    BY <1>0, <1>1, <2>1, <2>2 DEF KeyTyped
  <2>4. KeyInv'
    BY <1>0, <1>1, <2>1 DEF KeyInv
  <2>5. Pending' = Pending
    BY <2>1 DEF Pending
  <2>6. /\ Upto(Answered', Age) = IF through THEN Upto(Answered, Age) + 1 ELSE Upto(Answered, Age)
        /\ Upto(Answered', Window - 1) = IF through THEN Upto(Answered, Window - 1) + 1
                                         ELSE Upto(Answered, Window - 1)
    BY <1>0, <2>2, KeyFacts
  <2>7. WindowInv'
    <3>1. CASE through
      BY <1>0, <1>1, <2>5, <2>6, <3>1, KeyFacts DEF WindowInv
    <3>2. CASE ~through
      BY <1>0, <1>1, <2>5, <2>6, <3>2, KeyFacts DEF WindowInv
    <3> QED BY <3>1, <3>2
  <2> QED BY <2>3, <2>4, <2>7 DEF RedisInv
<1> QED BY <1>2, <1>3

\* A call that was between INCR and EXPIRE is there no longer.
LEMMA CallerLeaves ==
    ASSUME RedisInv, NEW c \in Callers, caller[c] = "expire", caller' = [caller EXCEPT ![c] = "idle"]
    PROVE  /\ counter.count > 0 /\ counter.ttl = Never
           /\ caller' \in [Callers -> {"idle", "expire"}] /\ \A d \in Callers : caller'[d] = "idle"
           /\ Pending = 1 /\ Pending' = 0
<1>1. /\ counter.count > 0 /\ counter.ttl = Never
      /\ \A d \in Callers \ {c} : caller[d] = "idle"
      /\ caller' \in [Callers -> {"idle", "expire"}]
  BY DEF RedisInv, KeyInv, KeyTyped
<1>2. \A d \in Callers : caller'[d] = "idle"
  BY <1>1 DEF RedisInv, KeyTyped
<1> QED BY <1>1, <1>2 DEF Pending

\* EXPIRE.
LEMMA ExpireStep ==
    ASSUME RedisInv, NEW c \in Callers, Expire(c)
    PROVE  RedisInv'
<1>0. KeyTyped /\ KeyInv /\ WindowInv
  BY DEF RedisInv
<1>1. /\ counter.count > 0 /\ counter.ttl = Never
      /\ caller' \in [Callers -> {"idle", "expire"}] /\ \A d \in Callers : caller'[d] = "idle"
      /\ Pending = 1 /\ Pending' = 0
  BY CallerLeaves DEF Expire
<1>2. /\ counter'.count = counter.count /\ counter'.ttl = Window /\ Window # Never
      /\ counter' \in [count : 0..(CallLimit + 1), ttl : 1..Window \cup {Never}]
  BY <1>0, RateAssumption DEF Expire, KeyTyped, Never
<1>3. /\ refused' \in BOOLEAN
      /\ Ticks(admitted)' /\ Ticks(open)' /\ Ticks(Answered)' /\ (\A t \in Slots : open[t] <= MaxErrors)'
      /\ \A k \in Slots : Upto(Answered', k) = Upto(Answered, k) + 1
  BY <1>0, AnswerStep DEF Expire
<1>4. KeyTyped'
  BY <1>0, <1>1, <1>2, <1>3 DEF KeyTyped, Expire
<1>5. KeyInv'
  BY <1>1, <1>2 DEF KeyInv
<1>6. Limited' = Limited /\ Age = 0 /\ Age' = 0
  BY <1>1, <1>2, RateAssumption DEF Limited, Age
<1>7. /\ Upto(Answered', Age') = Upto(Answered, Age) + 1
      /\ Upto(Answered', Window - 1) = Upto(Answered, Window - 1) + 1
  BY <1>3, <1>6, SlotFacts
<1>8. WindowInv'
  BY <1>0, <1>1, <1>6, <1>7, KeyFacts DEF WindowInv
<1> QED BY <1>4, <1>5, <1>8 DEF RedisInv

\* EXPIRE raises, or the process dies before it.
LEMMA StrandStep ==
    ASSUME RedisInv, NEW c \in Callers, NEW dies \in BOOLEAN, Strand(c, dies)
    PROVE  RedisInv'
<1>0. KeyTyped /\ KeyInv /\ WindowInv
  BY DEF RedisInv
<1>1. /\ counter.count > 0 /\ counter.ttl = Never
      /\ caller' \in [Callers -> {"idle", "expire"}] /\ \A d \in Callers : caller'[d] = "idle"
      /\ Pending = 1 /\ Pending' = 0
  BY CallerLeaves DEF Strand
<1>2. stranded' = TRUE /\ UNCHANGED <<counter, open>>
  BY DEF Strand
<1>3. Limited' = Limited /\ Age' = Age
  BY <1>2 DEF Limited, Age
<1>4. KeyInv'
  BY <1>0, <1>1, <1>2 DEF KeyInv
<1>5. CASE dies
  <2>1. UNCHANGED <<refused, admitted>>
    BY <1>5 DEF Strand
  <2>2. Answered' = Answered
    BY <1>2, <2>1 DEF Answered
  <2>3. KeyTyped'
    BY <1>0, <1>1, <1>2, <2>1, <2>2 DEF KeyTyped
  <2>4. WindowInv'
    BY <1>0, <1>1, <1>3, <2>2, KeyFacts DEF WindowInv
  <2> QED BY <1>4, <2>3, <2>4 DEF RedisInv
<1>6. CASE ~dies
  <2>1. /\ refused' \in BOOLEAN
        /\ Ticks(admitted)' /\ Ticks(open)' /\ Ticks(Answered)' /\ (\A t \in Slots : open[t] <= MaxErrors)'
        /\ \A k \in Slots : Upto(Answered', k) = Upto(Answered, k) + 1
    BY <1>0, <1>2, <1>6, AnswerStep DEF Strand
  <2>2. KeyTyped'
    BY <1>0, <1>1, <1>2, <2>1 DEF KeyTyped
  <2>3. /\ Upto(Answered', Age') = Upto(Answered, Age) + 1
        /\ Upto(Answered', Window - 1) = Upto(Answered, Window - 1) + 1
    BY <1>0, <1>3, <2>1, KeyFacts
  <2>4. WindowInv'
    BY <1>0, <1>1, <1>3, <2>3, KeyFacts DEF WindowInv
  <2> QED BY <1>4, <2>2, <2>4 DEF RedisInv
<1> QED BY <1>5, <1>6

\* The call that an error lets through is one more of both ghosts.
LEMMA FailOpenStep ==
    ASSUME RedisInv, NEW executed \in BOOLEAN, FailOpen(executed)
    PROVE  RedisInv'
<1>0. KeyTyped /\ KeyInv /\ WindowInv
  BY DEF RedisInv
<1>1. /\ open[0] < MaxErrors /\ open' = [open EXCEPT ![0] = @ + 1]
      /\ admitted' = [admitted EXCEPT ![0] = @ + 1] /\ refused' = FALSE /\ caller' = caller
      /\ stranded' \in BOOLEAN
  BY DEF FailOpen, Answer
<1>2. Ticks(admitted) /\ Ticks(open) /\ Ticks(Answered) /\ \A t \in Slots : open[t] <= MaxErrors
  BY <1>0 DEF KeyTyped
<1>3. Ticks(admitted') /\ Ticks(open')
  BY <1>1, <1>2, UptoOneMore
<1>4. Answered' = Answered
  <2>1. \A t \in Slots : admitted[t] \in Nat /\ open[t] \in Nat
    BY <1>2 DEF Ticks
  <2> QED BY <1>1, <1>2, <2>1 DEF Ticks, Answered
<1>5. \A t \in Slots : open'[t] <= MaxErrors
  <2>1. open[0] \in Nat /\ MaxErrors \in Nat
    BY <1>2, RateAssumption, SlotFacts DEF Ticks
  <2> QED BY <1>1, <1>2, <2>1 DEF Ticks
<1>6. Pending' = Pending
  BY <1>1 DEF Pending
<1>7. CASE executed
  <2>1. /\ counter' \in [count : 0..(CallLimit + 1), ttl : 1..Window \cup {Never}]
        /\ counter'.ttl = counter.ttl /\ counter'.count > 0 /\ Age' = Age
        /\ Limited' \in Nat /\ Limited' \in {Limited, Limited + 1}
    BY <1>0, <1>7, CountStep DEF FailOpen
  <2>2. KeyTyped'
    BY <1>0, <1>1, <1>2, <1>3, <1>4, <1>5, <2>1 DEF KeyTyped
  <2>3. KeyInv'
    BY <1>0, <1>1, <2>1 DEF KeyInv
  <2>4. WindowInv'
    BY <1>0, <1>4, <1>6, <2>1, KeyFacts DEF WindowInv
  <2> QED BY <2>2, <2>3, <2>4 DEF RedisInv
<1>8. CASE ~executed
  <2>1. counter' = counter
    BY <1>8 DEF FailOpen
  <2>2. KeyTyped'
    BY <1>0, <1>1, <1>2, <1>3, <1>4, <1>5, <2>1 DEF KeyTyped
  <2>3. KeyInv'
    BY <1>0, <1>1, <2>1 DEF KeyInv
  <2>4. Limited' = Limited /\ Age' = Age
    BY <2>1 DEF Limited, Age
  <2>5. WindowInv'
    BY <1>0, <1>4, <1>6, <2>4 DEF WindowInv
  <2> QED BY <2>2, <2>3, <2>5 DEF RedisInv
<1> QED BY <1>7, <1>8

LEMMA WindowTickStep ==
    ASSUME RedisInv, WindowTick
    PROVE  RedisInv'
<1>0. KeyTyped /\ KeyInv /\ WindowInv
  BY DEF RedisInv
<1>1. admitted' = Shift(admitted) /\ open' = Shift(open) /\ UNCHANGED <<caller, refused, stranded>>
  BY DEF WindowTick
<1>2. Answered' = Shift(Answered)
  <2>1. \A t \in Slots : t = 0 \/ t - 1 \in Slots
    BY SlotFacts
  <2>2. \A t \in Slots : admitted'[t] - open'[t] = IF t = 0 THEN 0 ELSE Answered[t - 1]
    BY <1>1, <2>1 DEF Shift, Answered
  <2> QED BY <2>2 DEF Shift, Answered
<1>3. /\ Ticks(Answered') /\ Upto(Answered', 0) = 0
      /\ \A k \in 0..(Window - 2) : Upto(Answered', k + 1) = Upto(Answered, k)
      /\ Upto(Answered', Window - 1) <= Upto(Answered, Window - 1)
      /\ Upto(Answered', Window - 1) \in Nat
  <2>1. Ticks(Answered)
    BY <1>0 DEF KeyTyped
  <2>2. /\ Ticks(Answered') /\ Upto(Answered', 0) = 0
        /\ \A k \in 0..(Window - 2) : Upto(Answered', k + 1) = Upto(Answered, k)
    BY <1>2, <2>1, UptoShifted
  <2>3. Upto(Answered', Window - 1) <= Upto(Answered, Window - 1)
    BY <1>2, <2>1, ShiftHasNoMore
  <2>4. Upto(Answered', Window - 1) \in Nat
    BY <2>2, UptoType, SlotFacts
  <2> QED BY <2>2, <2>3, <2>4
<1>4. Ticks(admitted') /\ Ticks(open') /\ \A t \in Slots : open'[t] <= MaxErrors
  <2>1. /\ Ticks(admitted') /\ Ticks(open')
        /\ \A t \in Slots : open'[t] = IF t = 0 THEN 0 ELSE open[t - 1]
    BY <1>0, <1>1, UptoShifted DEF KeyTyped
  <2>2. \A t \in Slots : t = 0 \/ t - 1 \in Slots
    BY SlotFacts
  <2> QED BY <1>0, <2>1, <2>2, RateAssumption DEF KeyTyped
<1>5. Pending' = Pending
  BY <1>1 DEF Pending
<1>6. CASE counter.ttl = Never
  <2>1. counter' = counter
    BY <1>6 DEF WindowTick
  <2>2. KeyTyped' /\ KeyInv'
    BY <1>0, <1>1, <1>3, <1>4, <2>1 DEF KeyTyped, KeyInv
  <2>3. Age = 0 /\ Age' = 0 /\ Limited' = Limited
    BY <1>6, <2>1 DEF Age, Limited
  <2>4. Upto(Answered', Age') = 0
    BY <1>3, <2>3
  <2>5. WindowInv'
    BY <1>0, <1>3, <1>5, <2>3, <2>4, KeyFacts DEF WindowInv
  <2> QED BY <2>2, <2>5 DEF RedisInv
<1>7. CASE counter.ttl # Never
  <2>1. \A c \in Callers : caller[c] = "idle"
    BY <1>0, <1>7 DEF KeyInv, KeyTyped
  <2>2. Pending = 0 /\ counter.ttl \in 1..Window /\ Age = Window - counter.ttl /\ counter.count # 0
    BY <1>0, <1>7, <2>1, KeyFacts DEF Pending, Age, KeyInv
  <2>3. CASE counter.ttl = 1
    <3>1. counter' = NoKey
      BY <1>7, <2>3 DEF WindowTick
    <3>2. counter'.count = 0 /\ counter'.ttl = Never
          /\ counter' \in [count : 0..(CallLimit + 1), ttl : 1..Window \cup {Never}]
      BY <3>1, RateAssumption DEF NoKey
    <3>3. KeyTyped' /\ KeyInv'
      BY <1>0, <1>1, <1>3, <1>4, <2>1, <3>2 DEF KeyTyped, KeyInv
    <3>4. Age' = 0 /\ Limited' = 0 /\ Age = Window - 1
      BY <2>2, <2>3, <3>2, RateAssumption DEF Age, Limited
    <3>5. Upto(Answered', Age') = 0
      BY <1>3, <3>4
    <3>6. Upto(Answered, Age) = Upto(Answered, Window - 1)
      BY <3>4
    <3>7. WindowInv'
      BY <1>0, <1>3, <1>5, <2>2, <3>4, <3>5, <3>6, KeyFacts DEF WindowInv
    <3> QED BY <3>3, <3>7 DEF RedisInv
  <2>4. CASE counter.ttl # 1
    <3>1. counter' = [counter EXCEPT !.ttl = @ - 1]
      BY <1>7, <2>4 DEF WindowTick
    <3>2. counter'.count = counter.count /\ counter'.ttl = counter.ttl - 1 /\ counter.ttl - 1 \in 1..Window
          /\ counter.ttl - 1 # Never
          /\ counter' \in [count : 0..(CallLimit + 1), ttl : 1..Window \cup {Never}]
      BY <1>0, <2>2, <2>4, <3>1, RateAssumption DEF KeyTyped, Never
    <3>3. KeyTyped' /\ KeyInv'
      BY <1>0, <1>1, <1>3, <1>4, <2>1, <2>2, <3>2 DEF KeyTyped, KeyInv
    <3>4. Age' = Age + 1 /\ Limited' = Limited /\ Age \in 0..(Window - 2)
      BY <2>2, <2>4, <3>2, RateAssumption DEF Age, Limited
    <3>5. Upto(Answered', Age + 1) = Upto(Answered, Age)
      BY <1>3, <3>4
    <3>6. Upto(Answered', Age') = Upto(Answered, Age)
      BY <3>4, <3>5
    <3>7. WindowInv'
      BY <1>0, <1>3, <1>5, <3>4, <3>6, KeyFacts DEF WindowInv
    <3> QED BY <3>3, <3>7 DEF RedisInv
  <2> QED BY <2>3, <2>4
<1> QED BY <1>6, <1>7

LEMMA RedisKept == RedisInv /\ UNCHANGED redisVars => RedisInv'
<1> SUFFICES ASSUME RedisInv, UNCHANGED redisVars PROVE RedisInv'
  OBVIOUS
<1>1. UNCHANGED <<counter, caller, refused, admitted, open, stranded>>
  BY DEF redisVars
<1>2. Answered' = Answered
  BY <1>1 DEF Answered
<1>3. KeyTyped' /\ KeyInv'
  BY <1>1, <1>2 DEF RedisInv, KeyTyped, KeyInv
<1>4. WindowInv'
  BY <1>1, <1>2 DEF RedisInv, WindowInv, Age, Limited, Pending
<1> QED BY <1>3, <1>4 DEF RedisInv

-----------------------------------------------------------------------------
(* The bucket.                                                             *)

\* Parts of a token: of so many tokens, and of a full bucket.
Parts(u) == Window * u
Full(c)  == c * Window

BucketTyped ==
    /\ bucket \in [capacity : Capacities \cup {0}, tokens : Nat]
    /\ swapped \in BOOLEAN /\ Ticks(taken)

\* In any number of last ticks the bucket has let through a full bucket, its
\* refill and no more, less what is left in it.
BucketInv ==
    /\ bucket.tokens <= Full(bucket.capacity)
    /\ ~swapped => IF bucket.capacity = 0 THEN taken = Zero
                   ELSE \A j \in Slots : Parts(Upto(taken, j)) + bucket.tokens
                                           <= Full(bucket.capacity) + bucket.capacity * j
    /\ swapped => Upto(taken, Window - 1) <= 2 * Most

TokenInv == BucketTyped /\ BucketInv

LEMMA PartFacts ==
    /\ \A u \in Nat : Parts(u) \in Nat /\ Parts(u + 1) = Parts(u) + Window
    /\ \A u, c \in Nat : c >= 1 /\ Parts(u) <= 2 * Full(c) - c => u + 1 <= 2 * c
<1>0. Window \in Nat /\ Window >= 1
  BY SlotFacts
<1>1. \A u \in Nat : Parts(u) \in Nat /\ Parts(u + 1) = Parts(u) + Window
  BY <1>0 DEF Parts
<1>2. ASSUME NEW u \in Nat, NEW c \in Nat, c >= 1, Parts(u) <= 2 * Full(c) - c, ~(u + 1 <= 2 * c)
      PROVE  FALSE
  <2> DEFINE d == u - 2 * c
  <2>1. d \in Nat /\ u = 2 * c + d
    BY <1>2
  <2> HIDE DEF d
  <2>2. Window * d \in Nat /\ Window * u = 2 * (c * Window) + Window * d
    BY <1>0, <2>1
  <2>3. c * Window \in Nat
    BY <1>0
  <2> QED BY <1>2, <2>2, <2>3 DEF Parts, Full
<1> QED BY <1>1, <1>2

LEMMA RefillFacts ==
    /\ \A c \in Capacities \cup {0} : /\ c \in Nat /\ c <= Most /\ Full(c) \in Nat /\ Full(c) <= Full(Most)
                                      /\ \A j \in Slots : c * j \in Nat
                                      /\ c * (Window - 1) = Full(c) - c
                                      /\ \A j \in 0..(Window - 2) : c * (j + 1) = c * j + c
    /\ \A c \in Capacities : c >= 1 /\ Full(c) >= Window
    /\ Most \in Capacities /\ Most \in Nat /\ Full(Most) \in Nat /\ Full(0) = 0
<1>1. Most \in Capacities /\ \A c \in Capacities : c <= Most
  <2>1. IsFiniteSet(Capacities) /\ Capacities # {} /\ Capacities \subseteq Int
    BY RateAssumption
  <2> QED BY <2>1, MaxOfFinite DEF Most
<1>2. \A c \in Capacities : c \in Nat /\ c >= 1
  BY RateAssumption
<1>3. Window \in Nat /\ Window >= 1
  BY SlotFacts
<1>4. Most \in Nat /\ Full(Most) \in Nat
  BY <1>1, <1>2, <1>3 DEF Full
<1>5. ASSUME NEW c \in Capacities \cup {0}
      PROVE  /\ c \in Nat /\ c <= Most /\ Full(c) \in Nat /\ Full(c) <= Full(Most)
             /\ \A j \in Slots : c * j \in Nat
             /\ c * (Window - 1) = Full(c) - c
             /\ \A j \in 0..(Window - 2) : c * (j + 1) = c * j + c
  <2>1. c \in Nat /\ c <= Most
    BY <1>1, <1>2
  <2>2. \A j \in Nat : c * j \in Nat /\ c * (j + 1) = c * j + c
    BY <2>1
  <2>3. Full(c) \in Nat /\ c * (Window - 1) = Full(c) - c
    BY <1>3, <2>1 DEF Full
  <2>4. Full(c) <= Full(Most)
    <3> DEFINE d == Most - c
    <3>1. d \in Nat /\ Most = c + d
      BY <1>4, <2>1
    <3> HIDE DEF d
    <3>2. d * Window \in Nat /\ Most * Window = c * Window + d * Window
      BY <1>3, <2>1, <3>1
    <3> QED BY <2>3, <3>2 DEF Full
  <2>5. /\ \A j \in Slots : c * j \in Nat
        /\ \A j \in 0..(Window - 2) : c * (j + 1) = c * j + c
    <3>1. (\A j \in Slots : j \in Nat) /\ \A j \in 0..(Window - 2) : j \in Nat
      BY SlotFacts
    <3> HIDE <1>1, <1>2, <1>3
    <3> QED BY <2>2, <3>1
  <2> QED BY <2>1, <2>3, <2>4, <2>5
<1>6. ASSUME NEW c \in Capacities PROVE c >= 1 /\ Full(c) >= Window
  <2> DEFINE d == c - 1
  <2>1. d \in Nat /\ c = 1 + d /\ c >= 1
    BY <1>2
  <2> HIDE DEF d
  <2>2. d * Window \in Nat /\ c * Window = Window + d * Window
    BY <1>3, <2>1
  <2> QED BY <1>3, <2>1, <2>2 DEF Full
<1>7. Full(0) = 0
  BY <1>3 DEF Full
<1> QED BY <1>1, <1>4, <1>5, <1>6, <1>7

LEMMA TokenStart == RateInit => TokenInv
<1> SUFFICES ASSUME RateInit PROVE TokenInv
  OBVIOUS
<1>1. bucket = [capacity |-> 0, tokens |-> 0] /\ taken = Zero /\ swapped = FALSE
  BY DEF RateInit
<1>2. BucketTyped
  BY <1>1, UptoZero DEF BucketTyped
<1> QED BY <1>1, <1>2, RefillFacts DEF TokenInv, BucketInv

\* What the inductive invariant says of the whole window.
LEMMA TakenInWindow ==
    ASSUME TokenInv
    PROVE  /\ Upto(taken, Window - 1) \in Nat
           /\ ~swapped => Upto(taken, Window - 1) <= 2 * bucket.capacity
           /\ ~swapped /\ bucket.capacity # 0 => Upto(taken, Window - 1) + 1 <= 2 * Most
           /\ Upto(taken, Window - 1) <= 2 * Most
<1> DEFINE m == Window - 1
           c == bucket.capacity
           u == Upto(taken, m)
<1>1. /\ c \in Nat /\ c <= Most /\ Most \in Nat /\ Full(c) \in Nat
      /\ c * m = Full(c) - c /\ bucket.tokens \in Nat /\ m \in Slots
  BY RefillFacts, SlotFacts DEF TokenInv, BucketTyped
<1>2. u \in Nat
  BY <1>1, UptoType DEF TokenInv, BucketTyped
<1>3. /\ ~swapped /\ c = 0 => taken = Zero
      /\ ~swapped /\ c # 0 => Parts(u) + bucket.tokens <= Full(c) + c * m
      /\ swapped => u <= 2 * Most
  BY <1>1 DEF TokenInv, BucketInv
<1>4. taken = Zero => u = 0
  BY <1>1, UptoZero
<1>5. Parts(u) \in Nat
  BY <1>2, PartFacts
<1> HIDE DEF m, c, u
<1>6. ~swapped /\ c # 0 => u + 1 <= 2 * c
  <2> SUFFICES ASSUME ~swapped, c # 0 PROVE u + 1 <= 2 * c
    OBVIOUS
  <2>1. Parts(u) <= 2 * Full(c) - c /\ c >= 1
    BY <1>1, <1>3, <1>5
  <2> QED BY <1>1, <1>2, <2>1, PartFacts
<1>7. /\ ~swapped => u <= 2 * c
      /\ ~swapped /\ c # 0 => u + 1 <= 2 * Most
      /\ u <= 2 * Most
  <2>1. CASE swapped
    BY <1>3, <2>1
  <2>2. CASE ~swapped /\ c = 0
    BY <1>1, <1>3, <1>4, <2>2
  <2>3. CASE ~swapped /\ c # 0
    BY <1>1, <1>2, <1>6, <2>3
  <2> QED BY <2>1, <2>2, <2>3
<1> QED BY <1>2, <1>7 DEF m, c, u

LEMMA ConsumeStep ==
    ASSUME TokenInv, NEW cap \in Capacities, CheckAndConsume(cap)
    PROVE  TokenInv'
<1> DEFINE full == Full(cap)
           b == IF bucket.capacity = cap THEN bucket ELSE [capacity |-> cap, tokens |-> full]
<1>0. /\ bucket \in [capacity : Capacities \cup {0}, tokens : Nat] /\ swapped \in BOOLEAN /\ Ticks(taken)
      /\ cap \in Nat /\ cap >= 1 /\ full \in Nat /\ full >= Window /\ Window \in Nat /\ Window >= 1
      /\ bucket.tokens \in Nat /\ bucket.tokens <= Full(bucket.capacity)
  BY RefillFacts, SlotFacts DEF TokenInv, BucketTyped, BucketInv
<1>1. /\ bucket' = IF b.tokens >= Window THEN [b EXCEPT !.tokens = @ - Window] ELSE b
      /\ taken' = IF b.tokens >= Window /\ ~swapped THEN [taken EXCEPT ![0] = @ + 1] ELSE taken
      /\ swapped' = (swapped \/ bucket.capacity \notin {0, cap})
  BY DEF CheckAndConsume, Full
<1>2. /\ b \in [capacity : Capacities \cup {0}, tokens : Nat] /\ b.capacity = cap /\ b.tokens \in Nat
      /\ b.tokens <= full /\ (bucket.capacity # cap => b.tokens = full)
      /\ (bucket.capacity = cap => b.tokens = bucket.tokens)
  <2>1. bucket.capacity = cap => bucket.tokens <= full
    BY <1>0
  <2> HIDE DEF full
  <2> QED BY <1>0, <2>1
<1> HIDE DEF b, full
<1>3. /\ bucket' \in [capacity : Capacities \cup {0}, tokens : Nat] /\ bucket'.capacity = cap
      /\ bucket'.tokens = (IF b.tokens >= Window THEN b.tokens - Window ELSE b.tokens)
      /\ bucket'.tokens <= full
  <2>1. CASE b.tokens >= Window
    BY <1>0, <1>1, <1>2, <2>1
  <2>2. CASE ~(b.tokens >= Window)
    BY <1>0, <1>1, <1>2, <2>2
  <2> QED BY <2>1, <2>2
<1>4. bucket'.tokens <= Full(bucket'.capacity)
  BY <1>3 DEF full
<1>5. CASE swapped
  <2>1. taken' = taken /\ swapped'
    BY <1>1, <1>5
  <2>2. Upto(taken', Window - 1) <= 2 * Most
    BY <1>5, <2>1 DEF TokenInv, BucketInv
  <2> QED BY <1>0, <1>3, <1>4, <2>1, <2>2 DEF TokenInv, BucketTyped, BucketInv
<1>6. CASE ~swapped /\ ~(b.tokens >= Window)
  <2>1. bucket.capacity = cap
    BY <1>0, <1>2, <1>6
  <2>2. taken' = taken /\ bucket' = bucket /\ swapped' = swapped
    BY <1>0, <1>1, <1>6, <2>1 DEF b
  <2> QED BY <2>2 DEF TokenInv, BucketTyped, BucketInv
<1>7. CASE ~swapped /\ b.tokens >= Window
  <2>1. taken' = [taken EXCEPT ![0] = @ + 1] /\ bucket'.tokens = b.tokens - Window
    BY <1>1, <1>3, <1>7
  <2>2. Ticks(taken') /\ \A k \in Slots : Upto(taken', k) = Upto(taken, k) + 1 /\ Upto(taken, k) \in Nat
    BY <1>0, <2>1, UptoOneMore, UptoType
  <2>3. \A k \in Slots : Parts(Upto(taken', k)) = Parts(Upto(taken, k)) + Window /\ Parts(Upto(taken, k)) \in Nat
    BY <2>2, PartFacts
  <2>4. BucketTyped'
    BY <1>0, <1>1, <1>3, <2>2 DEF BucketTyped
  <2>5. CASE bucket.capacity = cap
    <3>1. /\ ~swapped' /\ bucket'.capacity = bucket.capacity /\ bucket'.tokens = bucket.tokens - Window
          /\ bucket.capacity # 0
      BY <1>0, <1>1, <1>2, <1>3, <1>7, <2>1, <2>5
    <3>2. \A j \in Slots : Parts(Upto(taken, j)) + bucket.tokens <= Full(bucket.capacity) + bucket.capacity * j
      BY <1>7, <3>1 DEF TokenInv, BucketInv
    <3>3. ASSUME NEW j \in Slots
          PROVE  Parts(Upto(taken', j)) + bucket'.tokens <= Full(bucket'.capacity) + bucket'.capacity * j
      <4>1. Parts(Upto(taken', j)) + bucket'.tokens = Parts(Upto(taken, j)) + bucket.tokens
        BY <1>0, <2>3, <3>1
      <4> QED BY <3>1, <3>2, <4>1
    <3> QED BY <1>4, <2>4, <3>1, <3>3 DEF TokenInv, BucketInv
  <2>6. CASE bucket.capacity = 0
    <3>1. ~swapped' /\ bucket'.capacity = cap /\ bucket'.tokens = full - Window /\ cap # 0
      BY <1>0, <1>1, <1>2, <1>3, <1>7, <2>1, <2>6
    <3>2. taken = Zero
      BY <1>7, <2>6 DEF TokenInv, BucketInv
    <3>3. ASSUME NEW j \in Slots
          PROVE  Parts(Upto(taken', j)) + bucket'.tokens <= Full(bucket'.capacity) + bucket'.capacity * j
      <4>1. Upto(taken, j) = 0
        BY <3>2, UptoZero
      <4>2. Parts(Upto(taken', j)) = Window
        <5>1. Parts(0) = 0
          BY <1>0 DEF Parts
        <5> QED BY <1>0, <2>3, <4>1, <5>1
      <4>3. cap * j \in Nat
        BY RefillFacts
      <4>4. Full(bucket'.capacity) = full /\ bucket'.capacity * j = cap * j
        BY <3>1 DEF full
      <4> QED BY <1>0, <3>1, <4>2, <4>3, <4>4
    <3> QED BY <1>4, <2>4, <3>1, <3>3 DEF TokenInv, BucketInv
  <2>7. CASE bucket.capacity \notin {0, cap}
    <3>1. swapped'
      BY <1>1, <2>7
    <3>2. Upto(taken', Window - 1) = Upto(taken, Window - 1) + 1
      BY <2>2, SlotFacts
    <3>3. Upto(taken', Window - 1) <= 2 * Most
      BY <1>7, <2>7, <3>2, TakenInWindow
    <3> QED BY <1>4, <2>4, <3>1, <3>3 DEF TokenInv, BucketInv
  <2> QED BY <2>5, <2>6, <2>7
<1> QED BY <1>5, <1>6, <1>7

LEMMA BucketTickStep ==
    ASSUME TokenInv, BucketTick
    PROVE  TokenInv'
<1> DEFINE c == bucket.capacity
           full == Full(c)
           s == bucket.tokens
           v == IF full <= s + c THEN full ELSE s + c
<1>0. /\ bucket \in [capacity : Capacities \cup {0}, tokens : Nat] /\ swapped \in BOOLEAN /\ Ticks(taken)
      /\ c \in Nat /\ full \in Nat /\ s \in Nat /\ s <= full
  BY RefillFacts DEF TokenInv, BucketTyped, BucketInv
<1>1. bucket' = [bucket EXCEPT !.tokens = v] /\ taken' = Shift(taken) /\ swapped' = swapped
  <2>1. Min({full, s + c}) = v
    BY <1>0, MinOfTwo
  <2>2. bucket' = [bucket EXCEPT !.tokens = Min({full, s + c})]
    BY DEF BucketTick, Full
  <2>3. taken' = Shift(taken) /\ swapped' = swapped
    BY DEF BucketTick
  <2> HIDE DEF c, full, s, v
  <2> QED BY <2>1, <2>2, <2>3
<1>2. /\ bucket'.capacity = c /\ bucket'.tokens = v /\ v \in Nat /\ v <= full /\ v <= s + c
      /\ bucket' \in [capacity : Capacities \cup {0}, tokens : Nat]
  <2>1. v \in Nat /\ v <= full /\ v <= s + c
    BY <1>0
  <2> HIDE DEF v
  <2> QED BY <1>0, <1>1, <2>1
<1>3. /\ Ticks(taken') /\ Upto(taken', 0) = 0 /\ \A j \in Slots : Upto(taken, j) \in Nat
      /\ \A k \in 0..(Window - 2) : Upto(taken', k + 1) = Upto(taken, k)
      /\ Upto(taken', Window - 1) <= Upto(taken, Window - 1)
      /\ Upto(taken', Window - 1) \in Nat
  <2>1. /\ Ticks(taken') /\ Upto(taken', 0) = 0
        /\ \A k \in 0..(Window - 2) : Upto(taken', k + 1) = Upto(taken, k)
        /\ Upto(taken', Window - 1) <= Upto(taken, Window - 1)
    BY <1>0, <1>1, UptoShifted, ShiftHasNoMore
  <2> QED BY <1>0, <2>1, UptoType, SlotFacts
<1>4. BucketTyped'
  BY <1>0, <1>1, <1>2, <1>3 DEF BucketTyped
<1>5. ASSUME ~swapped, c = 0 PROVE taken' = Zero
  <2>1. taken = Zero
    BY <1>5 DEF TokenInv, BucketInv
  <2>2. \A t \in Slots : t = 0 \/ t - 1 \in Slots
    BY SlotFacts
  <2> QED BY <1>1, <2>1, <2>2 DEF Shift, Zero
<1>6. ASSUME ~swapped, c # 0, NEW j \in Slots PROVE Parts(Upto(taken', j)) + v <= full + c * j
  <2>1. CASE j = 0
    <3>1. c * j = 0 /\ Parts(Upto(taken', j)) = 0
      <4>1. Window * 0 = 0
        BY SlotFacts
      <4> QED BY <1>0, <1>3, <2>1, <4>1 DEF Parts
    <3> HIDE DEF v, full, c
    <3> QED BY <1>0, <1>2, <2>1, <3>1
  <2>2. CASE j # 0
    <3> DEFINE i == j - 1
    <3>1. i \in 0..(Window - 2) /\ i + 1 = j /\ i \in Slots
      BY <2>2, SlotFacts
    <3>2. Upto(taken', j) = Upto(taken, i) /\ Parts(Upto(taken, i)) \in Nat
      BY <1>3, <3>1, PartFacts
    <3>3. Parts(Upto(taken, i)) + s <= full + c * i
      BY <1>6, <3>1 DEF TokenInv, BucketInv
    <3>4. c * j = c * i + c /\ c * i \in Nat
      <4>1. c \in Capacities \cup {0}
        BY <1>0
      <4> HIDE DEF c, i
      <4> QED BY <3>1, <4>1, RefillFacts
    <3> HIDE DEF v, full, c, s, i
    <3> QED BY <1>0, <1>2, <3>2, <3>3, <3>4
  <2> QED BY <2>1, <2>2
<1>7. swapped => Upto(taken', Window - 1) <= 2 * Most
  <2>1. Upto(taken, Window - 1) <= 2 * Most /\ Upto(taken, Window - 1) \in Nat /\ Most \in Nat
    BY TakenInWindow, RefillFacts
  <2> QED BY <1>3, <2>1
<1>8. BucketInv'
  <2>1. Full(bucket'.capacity) = full
    BY <1>2
  <2> HIDE DEF v, full, c
  <2> QED BY <1>1, <1>2, <1>5, <1>6, <1>7, <2>1 DEF BucketInv
<1> QED BY <1>4, <1>8 DEF TokenInv

LEMMA TokenKept == TokenInv /\ UNCHANGED bucketVars => TokenInv'
<1> SUFFICES ASSUME TokenInv, UNCHANGED bucketVars PROVE TokenInv'
  OBVIOUS
<1>1. UNCHANGED <<bucket, taken, swapped>>
  BY DEF bucketVars
<1> QED BY <1>1 DEF TokenInv, BucketTyped, BucketInv

-----------------------------------------------------------------------------
(* Both limiters.                                                          *)

RateInv == RedisInv /\ TokenInv

LEMMA RateStart == RateInit => RateInv
BY RedisStart, TokenStart DEF RateInv

LEMMA RateStep ==
    ASSUME RateInv, WindowNext \/ BucketNext \/ UNCHANGED rateVars
    PROVE  RateInv'
<1>0. RedisInv /\ TokenInv
  BY DEF RateInv
<1>1. CASE WindowTick
  BY <1>0, <1>1, WindowTickStep, TokenKept DEF WindowTick, RateInv
<1>2. ASSUME NEW c \in Callers, Incr(c) \/ Expire(c) PROVE RateInv'
  <2>1. RedisInv'
    BY <1>0, <1>2, IncrStep, ExpireStep
  <2>2. UNCHANGED bucketVars
    BY <1>2 DEF Incr, Expire
  <2> QED BY <1>0, <2>1, <2>2, TokenKept DEF RateInv
<1>3. ASSUME NEW c \in Callers, NEW dies \in BOOLEAN, Strand(c, dies) PROVE RateInv'
  <2>1. RedisInv'
    BY <1>0, <1>3, StrandStep
  <2>2. UNCHANGED bucketVars
    BY <1>3 DEF Strand
  <2> QED BY <1>0, <2>1, <2>2, TokenKept DEF RateInv
<1>4. ASSUME NEW executed \in BOOLEAN, FailOpen(executed) PROVE RateInv'
  <2>1. RedisInv'
    BY <1>0, <1>4, FailOpenStep
  <2>2. UNCHANGED bucketVars
    BY <1>4 DEF FailOpen
  <2> QED BY <1>0, <2>1, <2>2, TokenKept DEF RateInv
<1>5. CASE BucketTick
  BY <1>0, <1>5, BucketTickStep, RedisKept DEF BucketTick, RateInv
<1>6. ASSUME NEW cap \in Capacities, CheckAndConsume(cap) PROVE RateInv'
  <2>1. UNCHANGED redisVars
    BY <1>6 DEF CheckAndConsume
  <2> QED BY <1>0, <1>6, <2>1, ConsumeStep, RedisKept DEF RateInv
<1>7. CASE UNCHANGED rateVars
  <2>1. UNCHANGED redisVars /\ UNCHANGED bucketVars
    BY <1>7 DEF rateVars, redisVars, bucketVars
  <2> QED BY <1>0, <2>1, RedisKept, TokenKept DEF RateInv
<1> QED BY <1>1, <1>2, <1>3, <1>4, <1>5, <1>6, <1>7 DEF WindowNext, BucketNext

LEMMA OfficeStepIsARateStep ==
    [OfficeNext]_officeVars => WindowNext \/ BucketNext \/ UNCHANGED rateVars
BY DEF OfficeNext, officeVars, RunsClaims, RunsInvoices, RunsBilling, RunsReminders, RunsDailyLog

LEMMA LimitersSound == OfficeSpec => []RateInv
<1>1. OfficeInit => RateInv
  BY RateStart DEF OfficeInit
<1>2. RateInv /\ [OfficeNext]_officeVars => RateInv'
  BY RateStep, OfficeStepIsARateStep
<1> QED BY <1>1, <1>2, PTL DEF OfficeSpec

\* For any limit, any capacities and any window, whatever Redis fails to
\* answer: no window of time, wherever it begins, sees more than twice the
\* limit let through and one call for each that INCR gave no answer to, nor
\* more than twice the capacity of a bucket that one capacity uses.
THEOREM LimitsAtMostTwice == OfficeSpec => []AtMostTwice
<1>1. RateInv => AtMostTwice
  <2> SUFFICES ASSUME RateInv PROVE AtMostTwice
    OBVIOUS
  <2>1. RedisInv /\ TokenInv /\ KeyTyped /\ WindowInv
    BY DEF RateInv, RedisInv
  <2>2. Upto(Answered, Window - 1) <= 2 * CallLimit
    BY <2>1, KeyFacts DEF WindowInv
  <2>3. ~swapped => Upto(taken, Window - 1) <= 2 * bucket.capacity
    BY <2>1, TakenInWindow
  <2>4. InWindow([t \in Slots |-> admitted[t] - open[t]]) = Upto(Answered, Window - 1)
    BY InWindowIsSum DEF Answered
  <2> QED BY <2>2, <2>3, <2>4, InWindowIsSum DEF AtMostTwice
<1> QED BY <1>1, LimitersSound, PTL

LEMMA TicksBounded ==
    ASSUME NEW f, Ticks(f), NEW m \in Nat, Upto(f, Window - 1) <= m
    PROVE  f \in [Slots -> 0..m]
<1>1. \A t \in Slots : f[t] <= Upto(f, t) /\ Upto(f, t) <= Upto(f, Window - 1)
  BY UptoGrows
<1>2. \A t \in Slots : f[t] \in Nat /\ Upto(f, t) \in Nat /\ Upto(f, Window - 1) \in Nat
  BY UptoType, SlotFacts DEF Ticks
<1>3. \A t \in Slots : f[t] \in 0..m
  BY <1>1, <1>2
<1> QED BY <1>3 DEF Ticks

LEMMA LimiterTypes == RateInv => RateTypeOK
<1> SUFFICES ASSUME RateInv PROVE RateTypeOK
  OBVIOUS
<1>1. RedisInv /\ TokenInv /\ KeyTyped /\ WindowInv /\ BucketTyped /\ BucketInv
  BY DEF RateInv, RedisInv, TokenInv
<1>2. 2 * CallLimit \in Nat /\ 2 * Most \in Nat /\ MaxErrors \in Nat
  BY RateAssumption, RefillFacts
<1>3. taken \in [Slots -> 0..(2 * Most)]
  BY <1>1, <1>2, TakenInWindow, TicksBounded DEF BucketTyped
<1>4. Answered \in [Slots -> 0..(2 * CallLimit)]
  <2>1. Upto(Answered, Window - 1) <= 2 * CallLimit
    BY <1>1, KeyFacts DEF WindowInv
  <2> QED BY <1>1, <1>2, <2>1, TicksBounded DEF KeyTyped
<1>5. open \in [Slots -> 0..MaxErrors] /\ admitted \in [Slots -> 0..(2 * CallLimit + MaxErrors)]
  <2>1. \A t \in Slots : open[t] \in Nat /\ open[t] <= MaxErrors /\ admitted[t] \in Nat
    BY <1>1 DEF KeyTyped, Ticks
  <2>2. \A t \in Slots : Answered[t] \in 0..(2 * CallLimit) /\ Answered[t] = admitted[t] - open[t]
    BY <1>4 DEF Answered
  <2>3. \A t \in Slots : open[t] \in 0..MaxErrors /\ admitted[t] \in 0..(2 * CallLimit + MaxErrors)
    BY <1>2, <2>1, <2>2
  <2> QED BY <1>1, <2>3 DEF KeyTyped, Ticks
<1>6. bucket \in [capacity : Capacities \cup {0}, tokens : 0..(Most * Window)]
  <2>1. bucket \in [capacity : Capacities \cup {0}, tokens : Nat]
    BY <1>1 DEF BucketTyped
  <2>2. bucket.tokens \in 0..Full(Most)
    <3>1. bucket.tokens \in Nat /\ bucket.capacity \in Capacities \cup {0}
      BY <2>1
    <3>2. Full(bucket.capacity) \in Nat /\ Full(bucket.capacity) <= Full(Most) /\ Full(Most) \in Nat
      BY <3>1, RefillFacts
    <3>3. bucket.tokens <= Full(bucket.capacity)
      BY <1>1 DEF BucketInv
    <3> QED BY <3>1, <3>2, <3>3
  <2>3. \A N, T : \A b \in [capacity : N, tokens : Nat] : b.tokens \in T => b \in [capacity : N, tokens : T]
    OBVIOUS
  <2> QED BY <2>1, <2>2, <2>3 DEF Full
<1> QED BY <1>1, <1>3, <1>5, <1>6 DEF RateTypeOK, KeyTyped, BucketTyped

-----------------------------------------------------------------------------
(* The types of the office.                                                *)

LEMMA DailyLogTypes ==
    ASSUME DailyLogInv, DailyLogTypeOK, [DailyLogNext]_dailyLogVars
    PROVE  DailyLogTypeOK'
<1>1. /\ incidents \subseteq Incidents /\ unmirrored \subseteq incidents /\ lost \subseteq Incidents
      /\ \A j \in Jobs : job[j].mine \subseteq Incidents /\ job[j].todo \subseteq Incidents
  BY JobFields DEF DailyLogTypeOK
<1>2. DailyLogInv' /\ incidents' \subseteq Incidents
  BY <1>1, DailyLogStep, IncidentsKnown
<1>3. unmirrored' \subseteq incidents' /\ lost' \subseteq Incidents
  <2>1. ASSUME NEW j \in Jobs, EndJob(j) PROVE unmirrored' \subseteq incidents' /\ lost' \subseteq Incidents
    <3>1. job[j].at = "next" /\ job[j].kind # "none"
      BY <2>1 DEF EndJob
    <3>2. job[j].bare \subseteq job[j].mine
      BY <3>1, JobFields DEF DailyLogInv, JobSound, PhotoSound
    <3> QED BY <1>1, <2>1, <3>2 DEF EndJob
  <2>2. ASSUME NEW j \in Jobs,
               \/ \E I \in SUBSET Incidents : StartPhoto(j, I)
               \/ StartBackfill(j)
               \/ \E i \in Incidents : TakeIncident(j, i)
               \/ EnsureDailyLog(j) \/ CheckMirror(j) \/ InsertMirror(j)
               \/ MirrorFails(j) \/ MirrorRaises(j) \/ KillJob(j)
        PROVE  UNCHANGED <<incidents, unmirrored, lost>>
    BY <2>2 DEF StartPhoto, StartBackfill, TakeIncident, EnsureDailyLog, CheckMirror, InsertMirror,
                MirrorFails, MirrorRaises, KillJob, dailyLogRows
  <2>3. CASE (\E i \in Noted : CreateObservation(i) \/ DeleteObservation(i)) \/ UNCHANGED dailyLogVars
    BY <1>1, <2>3 DEF CreateObservation, DeleteObservation, dailyLogVars, dailyLogRows
  <2> QED BY <1>1, <2>1, <2>2, <2>3 DEF DailyLogNext
<1> QED BY <1>2, <1>3 DEF DailyLogTypeOK, DailyLogInv

LEMMA PartIsKept == [OfficeNext]_officeVars => part' = part
BY DEF OfficeNext, officeVars, RunsClaims, RunsInvoices, RunsBilling, RunsReminders, RunsDailyLog, RunsWindows,
       RunsBuckets

\* Whichever part runs, every variable of the office keeps its type, for any
\* values of the constants.
THEOREM OfficeTypes == OfficeSpec => []OfficeTypeOK
<1> DEFINE P == part \in {"claims", "invoices", "billing", "reminders", "daily log", "windows", "buckets"}
           D == DailyLogInv /\ DailyLogTypeOK
           I == P /\ InvoiceTypeOK /\ BillingTypeOK /\ ReminderInv /\ D
<1>1. OfficeInit => I
  <2> SUFFICES ASSUME OfficeInit PROVE I
    OBVIOUS
  <2>1. InvoiceTypeOK /\ BillingTypeOK /\ ReminderInv /\ DailyLogInv
    BY OfficeInitIsEveryInit, InvoiceStart, BillingStart, ReminderStart, DailyLogStart
  <2>2. P
    BY DEF OfficeInit
  <2>3. DailyLogTypeOK
    BY <2>1, OfficeInitIsEveryInit DEF DailyLogInit, DailyLogTypeOK, DailyLogInv
  <2> QED BY <2>1, <2>2, <2>3
<1>2. I /\ [OfficeNext]_officeVars => I'
  <2> SUFFICES ASSUME I, [OfficeNext]_officeVars PROVE I'
    OBVIOUS
  <2>1. InvoiceTypeOK' /\ BillingTypeOK' /\ ReminderInv'
    BY OfficeStepIsAPartStep, InvoiceType, BillingType, ReminderStep
  <2>2. [DailyLogNext]_dailyLogVars /\ incidents \subseteq Incidents
    BY OfficeStepIsAPartStep DEF DailyLogTypeOK
  <2>3. D'
    BY <2>2, DailyLogStep, DailyLogTypes
  <2>4. P'
    BY PartIsKept
  <2> QED BY <2>1, <2>3, <2>4
<1>3. I /\ TypeOK /\ RateInv => OfficeTypeOK
  BY LimiterTypes DEF OfficeTypeOK, ReminderInv
<1>4. OfficeSpec => []TypeOK
  BY OfficeKeepsClaims, ClaimsType
<1> HIDE DEF I
<1> QED BY <1>1, <1>2, <1>3, <1>4, LimitersSound, PTL DEF OfficeSpec
=============================================================================
