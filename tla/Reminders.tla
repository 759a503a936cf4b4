------------------------------ MODULE Reminders ------------------------------
(***************************************************************************)
(* The daily reminders of expiring warranties: warranty_reminders_cron of  *)
(* workers/queue.py, over the warranties that routers/handover.py creates  *)
(* and updates.  A run handles one window after the other, mails as it     *)
(* goes, and commits the log of a window when all its mails are out.  arq  *)
(* starts a cron job once, and again if the worker was shut down under it. *)
(***************************************************************************)
EXTENDS Integers, FiniteSets, FiniteSetsExt

CONSTANTS
    Warranties,     \* warranty_items
    Expiry,         \* expiry_date of each
    Windows,        \* days before the expiry
    LastDay         \* bound: days

ASSUME ReminderAssumption ==
    /\ Expiry \in [Warranties -> Nat] /\ Windows \subseteq Nat /\ IsFiniteSet(Windows)
    /\ LastDay \in Nat \ {0}

VARIABLES
    today,
    warranty,       \* the status of each item, and whether claim_contact has an address
    reminders,      \* warranty_reminders_sent
    run,            \* the run of the cron
    mailed,         \* ghost: the reminders mailed, once or more
    cut             \* ghost: a run ended between a mail and its commit

reminderVars == <<today, warranty, reminders, run, mailed, cut>>

NoRun == [at |-> "none", day |-> 1, left |-> {}, window |-> 0, todo |-> {}, logged |-> {}]

ReminderTypeOK ==
    /\ today \in 1..LastDay
    /\ warranty \in [Warranties -> [status : {"absent", "active", "other"}, contact : BOOLEAN]]
    /\ reminders \subseteq Warranties \X Windows
    /\ run \in [at : {"none", "between", "window"}, day : 1..LastDay, left : SUBSET Windows,
                window : Windows \cup {0}, todo : SUBSET Warranties, logged : SUBSET (Warranties \X Windows)]
    /\ mailed \in [Warranties \X Windows -> 0..2]
    /\ cut \in BOOLEAN

ReminderInit ==
    /\ today = 1
    /\ warranty = [w \in Warranties |-> [status |-> "absent", contact |-> FALSE]]
    /\ reminders = {}
    /\ run = NoRun
    /\ mailed = [r \in Warranties \X Windows |-> 0]
    /\ cut = FALSE

\* create_warranty, and update_warranty of status and claim_contact.
SaveWarranty(w, status, contact) ==
    /\ warranty[w].status = "absent" => status = "active"
    /\ warranty' = [warranty EXCEPT ![w] = [status |-> status, contact |-> contact]]
    /\ UNCHANGED <<today, reminders, run, mailed, cut>>

StartRun ==
    /\ run = NoRun
    /\ run' = [NoRun EXCEPT !.at = "between", !.day = today, !.left = Windows]
    /\ UNCHANGED <<today, warranty, reminders, mailed, cut>>

Due(days) ==
    {w \in Warranties : /\ warranty[w].status = "active" /\ Expiry[w] = run.day + days
                        /\ warranty[w].contact}

\* Fault: the log is not looked at.
OpenWindowAfresh ==
    /\ run.at = "between" /\ run.left # {}
    /\ LET days == Max(run.left) IN
       run' = [run EXCEPT !.at = "window", !.window = days, !.left = @ \ {days}, !.todo = Due(days)]
    /\ UNCHANGED <<today, warranty, reminders, mailed, cut>>

\* The SELECT of a window, the longest one first.  Items without an address
\* are skipped, and not logged.
OpenWindow ==
    /\ run.at = "between" /\ run.left # {}
    /\ LET days == Max(run.left) IN
       run' = [run EXCEPT !.at = "window", !.window = days, !.left = @ \ {days},
                          !.todo = {w \in Due(days) : <<w, days>> \notin reminders}]
    /\ UNCHANGED <<today, warranty, reminders, mailed, cut>>

\* The mails of an item, delivered or not, and the INSERT into the log.
Remind(w) ==
    /\ run.at = "window" /\ w \in run.todo
    /\ run' = [run EXCEPT !.todo = @ \ {w}, !.logged = @ \cup {<<w, run.window>>}]
    /\ mailed' = [mailed EXCEPT ![<<w, run.window>>] = Min({2, @ + 1})]
    /\ UNCHANGED <<today, warranty, reminders, cut>>

CommitWindow ==
    /\ run.at = "window" /\ run.todo = {}
    /\ reminders' = reminders \cup run.logged
    /\ run' = [run EXCEPT !.at = "between", !.window = 0, !.logged = {}]
    /\ UNCHANGED <<today, warranty, mailed, cut>>

EndRun ==
    /\ run.at = "between" /\ run.left = {}
    /\ run' = NoRun
    /\ UNCHANGED <<today, warranty, reminders, mailed, cut>>

\* The worker is killed, the job takes longer than job_timeout, or a
\* statement fails.
CutRun ==
    /\ run # NoRun
    /\ cut' = (cut \/ run.logged # {})
    /\ run' = NoRun
    /\ UNCHANGED <<today, warranty, reminders, mailed>>

NextDay ==
    /\ today < LastDay
    /\ today' = today + 1
    /\ UNCHANGED <<warranty, reminders, run, mailed, cut>>

ReminderNext ==
    \/ \E w \in Warranties : Remind(w)
    \/ \E w \in Warranties, status \in {"active", "other"}, contact \in BOOLEAN : SaveWarranty(w, status, contact)
    \/ StartRun \/ OpenWindow \/ CommitWindow \/ EndRun \/ CutRun
    \/ NextDay

-----------------------------------------------------------------------------
\* The log and the mails agree, over all runs, days and changes of the
\* warranties, unless a run was cut in the middle of a window: an item is
\* reminded once per window, and what the log has was mailed.
RemindedOnce ==
    ~cut => \A w \in Warranties, d \in Windows :
                mailed[<<w, d>>] = IF <<w, d>> \in reminders \cup run.logged THEN 1 ELSE 0
=============================================================================
