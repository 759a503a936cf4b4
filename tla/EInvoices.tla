------------------------------ MODULE EInvoices ------------------------------
(***************************************************************************)
(* One electronic invoice on its way to the tax office (routers/           *)
(* einvoice.py).  Editing, issuing and cancelling read the status with a   *)
(* plain SELECT and then UPDATE by id; sending is one guarded UPDATE; the  *)
(* decision of the tax office (GDT) is applied to whatever it meets.       *)
(***************************************************************************)
EXTENDS Integers, FiniteSets

CONSTANTS
    Clerks,         \* requests on the invoice served at the same time
    MaxEdits        \* bound: edits of the invoice

ASSUME InvoiceAssumption == MaxEdits \in Nat /\ IsFiniteSet(Clerks)

VARIABLES
    invoice,        \* the row of einvoices; body counts its edits
    clerk,          \* what each request has read and not yet acted on
    late,           \* ghost: edits written after it had left the draft
    sent            \* ghost: times it was submitted

invoiceVars == <<invoice, clerk, late, sent>>

InvoiceStatuses ==
    {"draft", "issued", "submitted_gdt", "accepted_gdt", "rejected_gdt", "cancelled"}

ClerkStates == {"idle", "edit", "issue", "cancel"}

\* accepted: gdt_accepted_at, as far as the window of 24 hours tells it apart.
InvoiceTypeOK ==
    /\ invoice \in [direction : {"issued", "received"}, lined : BOOLEAN, status : InvoiceStatuses,
                    body : 0..MaxEdits, accepted : {"never", "recently", "long ago"}]
    /\ clerk \in [Clerks -> ClerkStates]
    /\ late \in Nat /\ sent \in Nat

\* create_invoice.
InvoiceInit ==
    /\ invoice \in [direction : {"issued", "received"}, lined : BOOLEAN, status : {"draft"},
                    body : {0}, accepted : {"never"}]
    /\ clerk = [c \in Clerks |-> "idle"]
    /\ late = 0 /\ sent = 0

Wants(c, what) ==
    /\ clerk[c] = "idle"
    /\ clerk' = [clerk EXCEPT ![c] = what]
    /\ UNCHANGED <<invoice, late, sent>>

Finishes(c, what) ==
    /\ clerk[c] = what
    /\ clerk' = [clerk EXCEPT ![c] = "idle"]

Cancellable == invoice.status # "cancelled" /\ invoice.accepted # "long ago"

EditDraft(c)     == Wants(c, "edit") /\ invoice.status = "draft"
IssueDraft(c)    == Wants(c, "issue") /\ invoice.status = "draft"
                    /\ invoice.direction = "issued" /\ invoice.lined
CancelInvoice(c) == Wants(c, "cancel") /\ Cancellable

WriteEdit(c) ==
    /\ Finishes(c, "edit")
    /\ invoice.body < MaxEdits
    /\ invoice' = [invoice EXCEPT !.body = @ + 1]
    /\ late' = IF invoice.status = "draft" THEN late ELSE late + 1
    /\ UNCHANGED sent

WriteIssue(c) ==
    /\ Finishes(c, "issue")
    /\ invoice' = [invoice EXCEPT !.status = "issued"]
    /\ UNCHANGED <<late, sent>>

WriteCancel(c) ==
    /\ Finishes(c, "cancel")
    /\ invoice' = [invoice EXCEPT !.status = "cancelled"]
    /\ UNCHANGED <<late, sent>>

SubmitGdt ==
    /\ invoice.status = "issued"
    /\ invoice' = [invoice EXCEPT !.status = "submitted_gdt"]
    /\ sent' = sent + 1
    /\ UNCHANGED <<clerk, late>>

\* Fault: a rejection opens the invoice for editing again.
GdtCallbackReopens(accept) ==
    /\ invoice' = IF accept THEN [invoice EXCEPT !.status = "accepted_gdt", !.accepted = "recently"]
                            ELSE [invoice EXCEPT !.status = "draft"]
    /\ UNCHANGED <<clerk, late, sent>>

\* gdt_callback: no status is asked for.
GdtCallback(accept) ==
    /\ invoice' = IF accept THEN [invoice EXCEPT !.status = "accepted_gdt", !.accepted = "recently"]
                            ELSE [invoice EXCEPT !.status = "rejected_gdt"]
    /\ UNCHANGED <<clerk, late, sent>>

WindowCloses ==
    /\ invoice.accepted = "recently"
    /\ invoice' = [invoice EXCEPT !.accepted = "long ago"]
    /\ UNCHANGED <<clerk, late, sent>>

\* The request dies, and its transaction with it.
ClerkLeaves(c) ==
    /\ clerk[c] # "idle"
    /\ clerk' = [clerk EXCEPT ![c] = "idle"]
    /\ UNCHANGED <<invoice, late, sent>>

InvoiceNext ==
    \/ \E c \in Clerks :
          \/ EditDraft(c) \/ IssueDraft(c) \/ CancelInvoice(c)
          \/ WriteEdit(c) \/ WriteIssue(c) \/ WriteCancel(c)
          \/ ClerkLeaves(c)
    \/ SubmitGdt \/ WindowCloses
    \/ \E accept \in BOOLEAN : GdtCallback(accept)

-----------------------------------------------------------------------------
\* What stale checks can do to an invoice is bounded by the requests that are
\* served at one time: all that found a draft were under way when it left the
\* draft, and each of them edits it late or issues it, perhaps anew, once.  So
\* late edits and submissions to the tax office, repeated ones included, are
\* together no more than the requests, whatever the tax office answers.
StaleWritesEnd == late + sent <= Cardinality(Clerks)
=============================================================================
