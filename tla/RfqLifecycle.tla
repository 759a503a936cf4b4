----------------------------- MODULE RfqLifecycle -----------------------------
(***************************************************************************)
(* One request for quotation (a row of rfqs) and the three programs that   *)
(* write it: the dispatch job that mails the suppliers (services/          *)
(* rfq_dispatch.py), the public endpoint where a supplier submits a quote  *)
(* (routers/public_rfq.py) and the daily job that expires overdue slots    *)
(* (rfq_deadlines_cron of workers/queue.py).                               *)
(*                                                                         *)
(* Each of them reads the row without a lock, computes, and writes the     *)
(* whole responses array back from what it read.  The dispatch job keeps   *)
(* its copy for as long as the mail server takes.  PostgreSQL only makes   *)
(* the reads and the writes atomic, so each program is several actions.    *)
(***************************************************************************)
EXTENDS Naturals, FiniteSets

CONSTANTS
    Suppliers,      \* sent_to of the request
    MaxTries,       \* max_tries of the arq worker
    MaxQuotes       \* bound: quotes a supplier submits

ASSUME BoundsAssumption == MaxTries \in Nat \ {0} /\ MaxQuotes \in Nat

VARIABLES
    \* ---- the row ----
    status,         \* rfqs.status; "absent" before the request is created
    slots,          \* rfqs.responses: the entry of each supplier
    \* ---- the dispatch job ----
    job,            \* where the arq job and its run stand
    tries,          \* runs of the job that were started
    job_read,       \* status as the run loaded it
    entries,        \* existing_by_supplier: the run's copy of slots
    todo,           \* suppliers the run has not come to
    any_sent,       \* dispatched > 0
    \* ---- the other programs: the row each has read, or Nothing ----
    request,        \* the POST /respond of each supplier
    cron,           \* rfq_deadlines_cron
    overdue,        \* deadline < today - 1 day
    \* ---- ghosts ----
    mailed,         \* suppliers who received a link
    served,         \* suppliers whom a run reported as delivered
    received        \* the last quote of each supplier answered "received"

row    == <<status, slots>>
run    == <<tries, job_read, entries, todo, any_sent>>
ghosts == <<mailed, served, received>>
vars   == <<row, job, run, request, cron, overdue, ghosts>>

-----------------------------------------------------------------------------
RfqStatuses  == {"draft", "sent", "responded", "expired"}
SlotStatuses == {"none", "skipped", "dispatched", "bounced", "responded", "expired"}

\* Fault: a quote already received does not keep the slot from being mailed.
TerminalDispatchedOnly == {"dispatched"}

\* _TERMINAL_SLOT_STATUSES
TerminalSlot == {"dispatched", "responded"}

Slot    == [status : SlotStatuses, quote : 0..MaxQuotes]
NoSlot  == [status |-> "none", quote |-> 0]
Slots   == [Suppliers -> Slot]
NoSlots == [s \in Suppliers |-> NoSlot]

\* What a program holds between its SELECT and its UPDATE.
Reading == [status : RfqStatuses, slots : Slots]
Nothing == [status |-> "absent", slots |-> NoSlots]
TheRow  == [status |-> status, slots |-> slots]

TypeOK ==
    /\ status \in RfqStatuses \cup {"absent"}
    /\ slots \in Slots
    /\ job \in {"none", "unqueued", "queued", "running", "saved", "finished"}
    /\ tries \in 0..MaxTries
    /\ job_read \in RfqStatuses \cup {"absent"}
    /\ entries \in Slots
    /\ todo \in SUBSET Suppliers
    /\ any_sent \in BOOLEAN
    /\ request \in [Suppliers -> Reading \cup {Nothing}]
    /\ cron \in Reading \cup {Nothing}
    /\ overdue \in BOOLEAN
    /\ mailed \in SUBSET Suppliers
    /\ served \in SUBSET Suppliers
    /\ received \in [Suppliers -> 0..MaxQuotes]

Init ==
    /\ status = "absent" /\ slots = NoSlots
    /\ job = "none" /\ tries = 0 /\ job_read = "absent"
    /\ entries = NoSlots /\ todo = {} /\ any_sent = FALSE
    /\ request = [s \in Suppliers |-> Nothing]
    /\ cron = Nothing
    /\ overdue = FALSE
    /\ mailed = {} /\ served = {}
    /\ received = [s \in Suppliers |-> 0]

-----------------------------------------------------------------------------
(* The buyer.                                                              *)

\* create_rfq up to its commit.
CreateRfq ==
    /\ status = "absent"
    /\ status' = "draft"
    /\ job' = "unqueued"
    /\ UNCHANGED <<slots, run, request, cron, overdue, ghosts>>

\* enqueue_rfq_dispatch, after the commit: the API process may die, or Redis
\* refuse, in between, and then nothing ever dispatches the request.
EnqueueDispatch(enqueued) ==
    /\ job = "unqueued"
    /\ job' = IF enqueued THEN "queued" ELSE "finished"
    /\ UNCHANGED <<row, run, request, cron, overdue, ghosts>>

-----------------------------------------------------------------------------
(* The dispatch job.                                                       *)

\* A run starts: dispatch_rfq loads the row, whatever its status.
StartDispatch ==
    /\ job = "queued" /\ tries < MaxTries
    /\ job' = "running"
    /\ tries' = tries + 1
    /\ job_read' = status
    /\ entries' = slots
    /\ todo' = Suppliers
    /\ any_sent' = FALSE
    /\ UNCHANGED <<row, request, cron, overdue, ghosts>>

\* Slots a prior run or a quote has settled are left as they are.
SkipTerminal(s) ==
    /\ job = "running" /\ s \in todo
    /\ entries[s].status \in TerminalSlot
    /\ todo' = todo \ {s}
    /\ UNCHANGED <<row, job, tries, job_read, entries, any_sent, request, cron, overdue, ghosts>>

\* The supplier is not visible to the tenant, or has no e-mail address.
SkipSupplier(s) ==
    /\ job = "running" /\ s \in todo
    /\ entries[s].status \notin TerminalSlot
    /\ todo' = todo \ {s}
    /\ entries' = [entries EXCEPT ![s].status = "skipped"]
    /\ UNCHANGED <<row, job, tries, job_read, any_sent, request, cron, overdue, ghosts>>

\* Fault: a mail that bounced is recorded as dispatched.
MailAlwaysDispatched(s, delivered, arrives) ==
    /\ job = "running" /\ s \in todo
    /\ entries[s].status \notin TerminalSlot
    /\ delivered => arrives
    /\ todo' = todo \ {s}
    /\ entries' = [entries EXCEPT ![s].status = "dispatched"]
    /\ any_sent' = TRUE
    /\ mailed' = IF arrives THEN mailed \cup {s} ELSE mailed
    /\ UNCHANGED <<row, job, tries, job_read, request, cron, overdue, served, received>>

\* _send_with_retry and the update of the entry.  A mail reported as not
\* delivered (a timeout after the server took it) may arrive all the same.
MailSupplier(s, delivered, arrives) ==
    /\ job = "running" /\ s \in todo
    /\ entries[s].status \notin TerminalSlot
    /\ delivered => arrives
    /\ todo' = todo \ {s}
    /\ entries' = [entries EXCEPT ![s].status = IF delivered THEN "dispatched" ELSE "bounced"]
    /\ any_sent' = (any_sent \/ delivered)
    /\ mailed' = IF arrives THEN mailed \cup {s} ELSE mailed
    /\ served' = IF delivered THEN served \cup {s} ELSE served
    /\ UNCHANGED <<row, job, tries, job_read, request, cron, overdue, received>>

\* The run's local variables and its session are gone.
EndRun ==
    /\ job_read' = "absent"
    /\ entries' = NoSlots
    /\ todo' = {}
    /\ any_sent' = FALSE

\* The flush and commit of TenantAwareSession.__aexit__: the whole array,
\* and the status column only if the run changed what it had loaded.
FinishDispatch ==
    /\ job = "running" /\ todo = {}
    /\ slots' = entries
    /\ status' = IF any_sent /\ job_read # "sent" THEN "sent" ELSE status
    /\ job' = "saved"
    /\ EndRun
    /\ UNCHANGED <<tries, request, cron, overdue, ghosts>>

\* arq records the result and takes the job off its queue.
AckJob ==
    /\ job = "saved"
    /\ job' = "finished"
    /\ UNCHANGED <<row, run, request, cron, overdue, ghosts>>

\* The worker dies or is restarted: an open transaction rolls back and arq
\* runs the job again, unless it has no try left or its time was up.
JobDies(again) ==
    /\ job \in {"running", "saved"}
    /\ again => tries < MaxTries
    /\ job' = IF again THEN "queued" ELSE "finished"
    /\ EndRun
    /\ UNCHANGED <<row, tries, request, cron, overdue, ghosts>>

-----------------------------------------------------------------------------
(* The supplier's POST /respond.                                           *)

\* submit_rfq_response up to its last SELECT: the token of a mail that
\* arrived, the row loaded.  The status of the row is not a reason to refuse.
LoadResponse(s) ==
    /\ s \in mailed
    /\ status # "absent"
    /\ request[s] = Nothing
    /\ received[s] < MaxQuotes
    /\ request' = [request EXCEPT ![s] = TheRow]
    /\ UNCHANGED <<row, job, run, cron, overdue, ghosts>>

\* Faults: the slot gets the status of the portal's context; the mutated
\* array is not flagged as modified, so that only the status is written.
SaveAsSubmitted(s) ==
    /\ request[s] # Nothing
    /\ slots' = [request[s].slots EXCEPT ![s] = [status |-> "submitted", quote |-> received[s] + 1]]
    /\ status' = IF request[s].status \in {"draft", "sent"} THEN "responded" ELSE status
    /\ received' = [received EXCEPT ![s] = @ + 1]
    /\ request' = [request EXCEPT ![s] = Nothing]
    /\ UNCHANGED <<job, run, cron, overdue, mailed, served>>

SaveUnflagged(s) ==
    /\ request[s] # Nothing
    /\ status' = IF request[s].status \in {"draft", "sent"} THEN "responded" ELSE status
    /\ received' = [received EXCEPT ![s] = @ + 1]
    /\ request' = [request EXCEPT ![s] = Nothing]
    /\ UNCHANGED <<slots, job, run, cron, overdue, mailed, served>>

\* Its UPDATE and commit.
SaveResponse(s) ==
    /\ request[s] # Nothing
    /\ slots' = [request[s].slots EXCEPT ![s] = [status |-> "responded", quote |-> received[s] + 1]]
    /\ status' = IF request[s].status \in {"draft", "sent"} THEN "responded" ELSE status
    /\ received' = [received EXCEPT ![s] = @ + 1]
    /\ request' = [request EXCEPT ![s] = Nothing]
    /\ UNCHANGED <<job, run, cron, overdue, mailed, served>>

DropResponse(s) ==
    /\ request[s] # Nothing
    /\ request' = [request EXCEPT ![s] = Nothing]
    /\ UNCHANGED <<row, job, run, cron, overdue, ghosts>>

-----------------------------------------------------------------------------
(* rfq_deadlines_cron.                                                     *)

\* The grace day after the deadline is over.
DeadlinePasses ==
    /\ status # "absent"
    /\ ~overdue
    /\ overdue' = TRUE
    /\ UNCHANGED <<row, job, run, request, cron, ghosts>>

\* Faults: the cutoff is dropped; requests never marked sent are passed over.
ReadAnyDeadline ==
    /\ cron = Nothing
    /\ status \notin {"absent", "closed", "expired"}
    /\ cron' = TheRow
    /\ UNCHANGED <<row, job, run, request, overdue, ghosts>>

ReadOverdueSent ==
    /\ cron = Nothing
    /\ overdue /\ status \in {"sent", "responded"}
    /\ cron' = TheRow
    /\ UNCHANGED <<row, job, run, request, overdue, ghosts>>

\* The SELECT: status NOT IN ('closed', 'expired') AND deadline < :cutoff.
ReadOverdue ==
    /\ cron = Nothing
    /\ overdue
    /\ status \notin {"absent", "closed", "expired"}
    /\ cron' = TheRow
    /\ UNCHANGED <<row, job, run, request, overdue, ghosts>>

\* Fault: slots with a quote expire like the others.
ExpireAll(r) ==
    [status |-> "expired",
     slots  |-> [s \in Suppliers |->
                    IF r.slots[s].status \in {"dispatched", "bounced", "responded"}
                    THEN [r.slots[s] EXCEPT !.status = "expired"] ELSE r.slots[s]]]

\* What the loop makes of the row it read: slots without a quote expire, and
\* so does the request if no slot has one.
Expire(r) ==
    [status |-> IF \E s \in Suppliers : r.slots[s].status = "responded" THEN r.status ELSE "expired",
     slots  |-> [s \in Suppliers |->
                    IF r.slots[s].status \in {"dispatched", "bounced"}
                    THEN [r.slots[s] EXCEPT !.status = "expired"] ELSE r.slots[s]]]

\* The UPDATE, of both columns and only if one of them changes, and commit.
WriteExpired ==
    /\ cron # Nothing
    /\ IF Expire(cron) # cron
       THEN status' = Expire(cron).status /\ slots' = Expire(cron).slots
       ELSE UNCHANGED row
    /\ cron' = Nothing
    /\ UNCHANGED <<job, run, request, overdue, ghosts>>

CronDies ==
    /\ cron # Nothing
    /\ cron' = Nothing
    /\ UNCHANGED <<row, job, run, request, overdue, ghosts>>

-----------------------------------------------------------------------------
Dispatch ==
    \/ StartDispatch
    \/ \E s \in Suppliers : SkipTerminal(s) \/ SkipSupplier(s)
    \/ \E s \in Suppliers, delivered, arrives \in BOOLEAN : MailSupplier(s, delivered, arrives)
    \/ FinishDispatch
    \/ AckJob

Next ==
    \/ CreateRfq
    \/ \E enqueued \in BOOLEAN : EnqueueDispatch(enqueued)
    \/ Dispatch
    \/ \E again \in BOOLEAN : JobDies(again)
    \/ \E s \in Suppliers : LoadResponse(s) \/ SaveResponse(s) \/ DropResponse(s)
    \/ DeadlinePasses
    \/ ReadOverdue \/ WriteExpired \/ CronDies

Spec == Init /\ [][Next]_vars

\* arq starts queued jobs and the daily cron; runs come to an end, and the
\* cron is not killed every single day.
Fairness == WF_vars(Dispatch) /\ WF_vars(ReadOverdue) /\ SF_vars(WriteExpired)

FairSpec == Spec /\ Fairness

\* No two of the programs hold a copy of the row at the same time: what a row
\* lock taken by each SELECT would give.
OneAtATime ==
    /\ \A s \in Suppliers : request[s] # Nothing =>
          /\ job # "running" /\ cron = Nothing
          /\ \A r \in Suppliers \ {s} : request[r] = Nothing
    /\ cron # Nothing => job # "running"

-----------------------------------------------------------------------------
(* Properties.                                                             *)

\* A slot shown as dispatched was mailed to its supplier, whichever run,
\* crash or overwrite the row has gone through.
DispatchedWasMailed ==
    \A s \in Suppliers : slots[s].status = "dispatched" => s \in served

\* A slot holds a quote exactly when it is shown as responded: no overwrite
\* by the job or by the cron leaves a quote in a slot that looks unanswered.
QuoteIffResponded ==
    \A s \in Suppliers : slots[s].status = "responded" <=> slots[s].quote > 0

\* Nothing expires before the deadline and its grace day, however old the
\* copy of the row that the cron or the job writes back.
ExpiredOnlyOverdue ==
    ~overdue => status # "expired" /\ \A s \in Suppliers : slots[s].status # "expired"

QuotesAreKept ==
    \A s \in Suppliers :
        received[s] > 0 => slots[s] = [status |-> "responded", quote |-> received[s]]

RespondedHasQuote ==
    status = "responded" => \E s \in Suppliers : slots[s].quote > 0

\* As long as the programs run one at a time, the last quote a supplier was
\* told is received is the one in its slot, whatever re-runs of the job,
\* crashes and deadlines come after it.
SerialKeepsQuotes == []OneAtATime => []QuotesAreKept

\* Under the same condition a request shown as responded has a quote to look
\* at.
SerialRespondedHasQuote == []OneAtATime => []RespondedHasQuote

\* An overdue request that nobody answered is expired by the cron, even if a
\* slow dispatch or response writes an older copy back.
EventuallyExpired ==
    overdue ~> status = "expired" \/ \E s \in Suppliers : slots[s].status = "responded"
=============================================================================
