-------------------------- MODULE RfqLifecycleProofs --------------------------
(***************************************************************************)
(* The safety properties of RfqLifecycle, for any suppliers, number of     *)
(* runs and number of quotes.                                              *)
(*                                                                         *)
(* Every program writes back a copy of the array, so what holds of the row *)
(* must hold of every copy in flight: SoundSlots says of an array what the *)
(* three properties say of the row, and IInv says it of the row, of the    *)
(* dispatch run's entries, of every request and of the cron.               *)
(***************************************************************************)
EXTENDS RfqLifecycle, TLAPS

\* An array any of the programs may hold.
SoundSlots(a) ==
    \A s \in Suppliers :
        /\ a[s].status = "dispatched" => s \in served
        /\ a[s].status = "responded" <=> a[s].quote > 0
        /\ ~overdue => a[s].status # "expired"

SoundStatus(x) == ~overdue => x # "expired"

RowIsSound     == SoundSlots(slots) /\ SoundStatus(status)
RunIsSound     == SoundSlots(entries)
RequestIsSound ==
    \A s \in Suppliers :
        /\ SoundSlots(request[s].slots)
        /\ request[s] # Nothing => received[s] < MaxQuotes
CronIsSound    == SoundSlots(cron.slots) /\ (cron # Nothing => overdue)

IInv ==
    /\ TypeOK
    /\ RowIsSound
    /\ RunIsSound
    /\ RequestIsSound
    /\ CronIsSound

-----------------------------------------------------------------------------
\* The invariant implies the properties that the runs check.
LEMMA IInvImplies ==
    IInv => TypeOK /\ DispatchedWasMailed /\ QuoteIffResponded /\ ExpiredOnlyOverdue
BY DEF IInv, RowIsSound, SoundSlots, SoundStatus, DispatchedWasMailed,
       QuoteIffResponded, ExpiredOnlyOverdue

\* The empty array is sound, and so is the copy of a program that holds none.
LEMMA NoSlotsIsSound == NoSlots \in Slots /\ Nothing.slots = NoSlots /\ SoundSlots(NoSlots)
BY BoundsAssumption DEF NoSlots, NoSlot, Slots, Slot, SlotStatuses, Nothing, SoundSlots

\* Initially nothing is written and nothing is in flight.
LEMMA InitIInv == Init => IInv
<1> SUFFICES ASSUME Init PROVE IInv
  OBVIOUS
<1>1. TypeOK
  <2>1. MaxTries \in Nat /\ 0 \in 0..MaxTries /\ 0 \in 0..MaxQuotes
    BY BoundsAssumption
  <2> HIDE DEF Slots, Reading, Nothing, NoSlots
  <2> QED BY <2>1, NoSlotsIsSound DEF Init, TypeOK
<1>2. RowIsSound /\ RunIsSound
  BY NoSlotsIsSound DEF Init, RowIsSound, RunIsSound, SoundStatus
<1>3. RequestIsSound /\ CronIsSound
  BY NoSlotsIsSound DEF Init, RequestIsSound, CronIsSound
<1> QED BY <1>1, <1>2, <1>3 DEF IInv

-----------------------------------------------------------------------------
\* A sound array stays sound while more suppliers are served and time passes.
LEMMA SoundSlotsStable ==
    ASSUME NEW a, SoundSlots(a), served \subseteq served', overdue => overdue'
    PROVE  \A s \in Suppliers :
              /\ a[s].status = "dispatched" => s \in served'
              /\ a[s].status = "responded" <=> a[s].quote > 0
              /\ ~overdue' => a[s].status # "expired"
BY DEF SoundSlots

\* The buyer's steps and the end of a run write no slot.
LEMMA BuyerStep ==
    ASSUME IInv,
           \/ CreateRfq
           \/ \E enqueued \in BOOLEAN : EnqueueDispatch(enqueued)
           \/ AckJob
           \/ \E again \in BOOLEAN : JobDies(again)
    PROVE  IInv'
<1> USE NoSlotsIsSound
<1>1. TypeOK'
  BY DEF IInv, TypeOK, CreateRfq, EnqueueDispatch, AckJob, JobDies, EndRun,
         row, run, ghosts, RfqStatuses
<1>2. RowIsSound' /\ RunIsSound'
  BY DEF IInv, RowIsSound, RunIsSound, SoundSlots, SoundStatus, CreateRfq, EnqueueDispatch,
         AckJob, JobDies, EndRun, row, run, ghosts
<1>3. RequestIsSound' /\ CronIsSound'
  BY DEF IInv, RequestIsSound, CronIsSound, SoundSlots, CreateRfq, EnqueueDispatch,
         AckJob, JobDies, row, run, ghosts
<1> QED BY <1>1, <1>2, <1>3 DEF IInv

\* A run copies the row, changes the slots it is free to change and writes
\* them back.
LEMMA DispatchStep ==
    ASSUME IInv,
           \/ StartDispatch
           \/ \E s \in Suppliers : SkipTerminal(s) \/ SkipSupplier(s)
           \/ FinishDispatch
    PROVE  IInv'
<1> USE NoSlotsIsSound
<1>1. TypeOK'
  <2>1. CASE StartDispatch
    <3>1. tries + 1 \in 0..MaxTries
      BY <2>1, BoundsAssumption DEF IInv, TypeOK, StartDispatch
    <3> QED BY <2>1, <3>1 DEF IInv, TypeOK, StartDispatch, row, ghosts
  <2>2. CASE \E s \in Suppliers : SkipTerminal(s) \/ SkipSupplier(s)
    BY <2>2, SMTT(40) DEF IInv, TypeOK, SkipTerminal, SkipSupplier, row, ghosts, Slots, Slot, SlotStatuses
  <2>3. CASE FinishDispatch
    BY <2>3 DEF IInv, TypeOK, FinishDispatch, EndRun, ghosts, RfqStatuses
  <2> QED BY <2>1, <2>2, <2>3
<1>2. RowIsSound'
  BY DEF IInv, RowIsSound, RunIsSound, SoundSlots, SoundStatus, StartDispatch,
         SkipTerminal, SkipSupplier, FinishDispatch, row, ghosts
<1>3. RunIsSound'
  <2>1. CASE StartDispatch
    BY <2>1 DEF IInv, RowIsSound, RunIsSound, SoundSlots, StartDispatch, row, ghosts
  <2>2. ASSUME NEW s \in Suppliers, SkipTerminal(s) \/ SkipSupplier(s)
        PROVE  RunIsSound'
    BY <2>2, SMTT(40) DEF IInv, TypeOK, RunIsSound, SoundSlots, SkipTerminal, SkipSupplier, TerminalSlot,
                ghosts, Slots, Slot
  <2>3. CASE FinishDispatch
    BY <2>3 DEF IInv, RunIsSound, SoundSlots, FinishDispatch, EndRun, ghosts
  <2> QED BY <2>1, <2>2, <2>3
<1>4. RequestIsSound' /\ CronIsSound'
  BY DEF IInv, RequestIsSound, CronIsSound, SoundSlots, StartDispatch, SkipTerminal,
         SkipSupplier, FinishDispatch, row, ghosts
<1> QED BY <1>1, <1>2, <1>3, <1>4 DEF IInv

\* A mail adds its supplier to the served before the slot says dispatched.
LEMMA MailStep ==
    ASSUME IInv, NEW s \in Suppliers, NEW delivered \in BOOLEAN, NEW arrives \in BOOLEAN,
           MailSupplier(s, delivered, arrives)
    PROVE  IInv'
<1>1. TypeOK'
  BY DEF IInv, TypeOK, MailSupplier, row, Slots, Slot, SlotStatuses
<1>2. served \subseteq served' /\ overdue' = overdue /\ received' = received
  BY DEF MailSupplier
<1>3. RowIsSound' /\ RequestIsSound' /\ CronIsSound'
  BY <1>2, SoundSlotsStable
     DEF IInv, RowIsSound, RequestIsSound, CronIsSound, SoundSlots, SoundStatus, MailSupplier, row
<1>4. RunIsSound'
  BY <1>2 DEF IInv, TypeOK, RunIsSound, SoundSlots, MailSupplier, TerminalSlot, Slots, Slot
<1> QED BY <1>1, <1>3, <1>4 DEF IInv

\* A response writes one slot over the copy of the others.
LEMMA ResponseStep ==
    ASSUME IInv, NEW s \in Suppliers, LoadResponse(s) \/ SaveResponse(s) \/ DropResponse(s)
    PROVE  IInv'
<1> USE NoSlotsIsSound
<1>1. TypeOK'
  <2>1. CASE LoadResponse(s)
    BY <2>1 DEF IInv, TypeOK, LoadResponse, TheRow, Reading, row, run, ghosts
  <2>2. CASE SaveResponse(s)
    <3>1. request[s] \in Reading /\ received[s] \in Nat /\ received[s] < MaxQuotes
      BY <2>2, BoundsAssumption DEF IInv, TypeOK, RequestIsSound, SaveResponse
    <3>2. [status |-> "responded", quote |-> received[s] + 1] \in Slot
      BY <3>1, BoundsAssumption DEF Slot, SlotStatuses
    <3>3. slots' \in Slots /\ status' \in RfqStatuses \cup {"absent"}
      BY <2>2, <3>1, <3>2 DEF IInv, TypeOK, SaveResponse, Reading, Slots, RfqStatuses
    <3>4. received' \in [Suppliers -> 0..MaxQuotes]
      BY <2>2, <3>1, BoundsAssumption DEF IInv, TypeOK, SaveResponse
    <3>5. request' \in [Suppliers -> Reading \cup {Nothing}]
      BY <2>2 DEF IInv, TypeOK, SaveResponse
    <3> QED BY <2>2, <3>3, <3>4, <3>5 DEF IInv, TypeOK, SaveResponse, run
  <2>3. CASE DropResponse(s)
    BY <2>3 DEF IInv, TypeOK, DropResponse, row, run, ghosts
  <2> QED BY <2>1, <2>2, <2>3
<1>2. RowIsSound'
  <2>1. CASE SaveResponse(s)
    <3>1. request[s].slots \in Slots /\ SoundSlots(request[s].slots) /\ received[s] \in Nat
      BY <2>1, BoundsAssumption DEF IInv, TypeOK, RequestIsSound, SaveResponse, Reading
    <3> QED BY <2>1, <3>1 DEF IInv, RowIsSound, SoundSlots, SoundStatus, SaveResponse, Slots
  <2>2. CASE LoadResponse(s) \/ DropResponse(s)
    BY <2>2 DEF IInv, RowIsSound, SoundSlots, SoundStatus, LoadResponse, DropResponse, row, ghosts
  <2> QED BY <2>1, <2>2
<1>3. RunIsSound' /\ CronIsSound'
  BY DEF IInv, RunIsSound, CronIsSound, SoundSlots, LoadResponse, SaveResponse, DropResponse,
         run, ghosts
<1>4. RequestIsSound'
  <2> SUFFICES ASSUME NEW r \in Suppliers
               PROVE  /\ SoundSlots(request[r].slots)'
                      /\ (request[r] # Nothing => received[r] < MaxQuotes)'
    BY DEF RequestIsSound
  <2>1. served' = served /\ overdue' = overdue
    BY DEF LoadResponse, SaveResponse, DropResponse, ghosts
  <2>2. CASE r # s
    BY <2>1, <2>2 DEF IInv, TypeOK, RequestIsSound, SoundSlots, LoadResponse, SaveResponse,
                      DropResponse, ghosts
  <2>3. CASE r = s /\ LoadResponse(s)
    BY <2>1, <2>3 DEF IInv, TypeOK, RowIsSound, SoundSlots, LoadResponse, TheRow, ghosts
  <2>4. CASE r = s /\ (SaveResponse(s) \/ DropResponse(s))
    <3>1. request'[r] = Nothing
      BY <2>4 DEF IInv, TypeOK, SaveResponse, DropResponse
    <3> QED BY <3>1, <2>1 DEF SoundSlots
  <2> QED BY <2>2, <2>3, <2>4
<1> QED BY <1>1, <1>2, <1>3, <1>4 DEF IInv

\* The cron holds a copy only of an overdue row, and expires no quote.
LEMMA CronStep ==
    ASSUME IInv, DeadlinePasses \/ ReadOverdue \/ WriteExpired \/ CronDies
    PROVE  IInv'
<1> USE NoSlotsIsSound
<1>1. ASSUME WriteExpired
      PROVE  /\ Expire(cron).slots \in Slots /\ Expire(cron).status \in RfqStatuses
             /\ SoundSlots(Expire(cron).slots)
  <2>1. cron \in Reading /\ overdue /\ SoundSlots(cron.slots)
    BY <1>1 DEF IInv, TypeOK, CronIsSound, WriteExpired
  <2> QED BY <2>1 DEF Expire, Reading, Slots, Slot, SlotStatuses, RfqStatuses, SoundSlots
<1>2. TypeOK'
  <2>1. CASE WriteExpired
    BY <1>1, <2>1 DEF IInv, TypeOK, WriteExpired, row, run, ghosts
  <2>2. CASE DeadlinePasses
    BY <2>2 DEF IInv, TypeOK, DeadlinePasses, row, run, ghosts
  <2>3. CASE ReadOverdue
    BY <2>3 DEF IInv, TypeOK, ReadOverdue, TheRow, Reading, row, run, ghosts
  <2>4. CASE CronDies
    BY <2>4 DEF IInv, TypeOK, CronDies, row, run, ghosts
  <2> QED BY <2>1, <2>2, <2>3, <2>4
<1>3. RowIsSound'
  <2>1. CASE WriteExpired
    BY <1>1, <2>1 DEF IInv, CronIsSound, RowIsSound, SoundSlots, SoundStatus, WriteExpired, row, ghosts
  <2>2. CASE DeadlinePasses \/ ReadOverdue \/ CronDies
    BY <2>2 DEF IInv, RowIsSound, SoundSlots, SoundStatus, DeadlinePasses, ReadOverdue, CronDies,
                row, ghosts
  <2> QED BY <2>1, <2>2
<1>4. RunIsSound' /\ RequestIsSound'
  BY DEF IInv, RunIsSound, RequestIsSound, SoundSlots, DeadlinePasses, ReadOverdue, WriteExpired,
         CronDies, run, ghosts
<1>5. CronIsSound'
  BY DEF IInv, RowIsSound, CronIsSound, SoundSlots, DeadlinePasses, ReadOverdue, WriteExpired,
         CronDies, TheRow, ghosts
<1> QED BY <1>2, <1>3, <1>4, <1>5 DEF IInv

\* Every step of the system preserves the invariant.
LEMMA NextIInv == IInv /\ [Next]_vars => IInv'
<1> SUFFICES ASSUME IInv, [Next]_vars PROVE IInv'
  OBVIOUS
<1>1. CASE UNCHANGED vars
  BY <1>1 DEF IInv, TypeOK, RowIsSound, RunIsSound, RequestIsSound, CronIsSound, SoundSlots,
              SoundStatus, vars, row, run, ghosts
<1>2. CASE Next
  BY <1>2, BuyerStep, DispatchStep, MailStep, ResponseStep, CronStep DEF Next, Dispatch
<1> QED BY <1>1, <1>2

-----------------------------------------------------------------------------
\* The inductive invariant holds in every reachable state, with any number of
\* programs working on copies of the row at the same time.
THEOREM Invariance == Spec => []IInv
<1>1. Init => IInv
  BY InitIInv
<1>2. IInv /\ [Next]_vars => IInv'
  BY NextIInv
<1> QED BY <1>1, <1>2, PTL DEF Spec

\* Type correctness of the row and of every copy in flight.
THEOREM TypeCorrect == Spec => []TypeOK
BY Invariance, IInvImplies, PTL

\* A slot is shown as dispatched only to a buyer whose supplier was mailed.
THEOREM DispatchedIsTrue == Spec => []DispatchedWasMailed
BY Invariance, IInvImplies, PTL

\* Quotes and the responded status of a slot never come apart.
THEOREM QuotesAreVisible == Spec => []QuoteIffResponded
BY Invariance, IInvImplies, PTL

\* Neither a slot nor the request expires early.
THEOREM ExpiryIsDue == Spec => []ExpiredOnlyOverdue
BY Invariance, IInvImplies, PTL

-----------------------------------------------------------------------------
(* One program at a time.  If no two programs hold a copy of the row at    *)
(* the same time (OneAtATime), then no quote is ever lost, for any         *)
(* suppliers, any number of runs of the dispatch job, crashes included,    *)
(* and any number of quotes: a row lock from SELECT to COMMIT is enough to *)
(* keep quotes, and what is lost without it is due to overlapping copies.  *)

\* The copy in flight, if there is one, agrees with the row.
CopiesAreFresh ==
    /\ \A s \in Suppliers : request[s] # Nothing => request[s] = TheRow
    /\ cron # Nothing => cron = TheRow
    /\ job = "running" => \A s \in Suppliers : entries[s].quote = slots[s].quote

SInv ==
    /\ IInv
    /\ OneAtATime
    /\ CopiesAreFresh
    /\ QuotesAreKept
    /\ RespondedHasQuote

LEMMA InitSInv == Init => SInv
<1> SUFFICES ASSUME Init PROVE SInv
  OBVIOUS
<1>1. OneAtATime /\ CopiesAreFresh
  BY DEF Init, OneAtATime, CopiesAreFresh
<1>2. QuotesAreKept /\ RespondedHasQuote
  BY DEF Init, QuotesAreKept, RespondedHasQuote
<1> QED BY <1>1, <1>2, InitIInv DEF SInv

-----------------------------------------------------------------------------
\* Steps that write neither the row nor a copy of it.
LEMMA QuietStep ==
    ASSUME SInv, IInv', OneAtATime',
           \/ \E enqueued \in BOOLEAN : EnqueueDispatch(enqueued)
           \/ AckJob \/ DeadlinePasses \/ CronDies
           \/ \E again \in BOOLEAN : JobDies(again)
           \/ \E s \in Suppliers : DropResponse(s)
           \/ CreateRfq
    PROVE  SInv'
<1>1. CopiesAreFresh'
  <2>1. CASE CreateRfq
    BY <2>1 DEF SInv, IInv, TypeOK, CopiesAreFresh, CreateRfq, TheRow, Reading, RfqStatuses,
                row, run, ghosts
  <2>2. CASE ~CreateRfq
    BY <2>2 DEF SInv, IInv, TypeOK, CopiesAreFresh, EnqueueDispatch, AckJob, DeadlinePasses, CronDies,
                JobDies, EndRun, DropResponse, TheRow, row, run, ghosts
  <2> QED BY <2>1, <2>2
<1>2. QuotesAreKept' /\ RespondedHasQuote'
  BY DEF SInv, QuotesAreKept, RespondedHasQuote, EnqueueDispatch, AckJob, DeadlinePasses, CronDies,
         JobDies, DropResponse, CreateRfq, row, run, ghosts
<1> QED BY <1>1, <1>2 DEF SInv

\* A run changes no quote in its copy, so that writing it back loses none.
LEMMA RunStep ==
    ASSUME SInv, IInv', OneAtATime', Dispatch, ~AckJob
    PROVE  SInv'
<1>1. CASE StartDispatch
  BY <1>1 DEF SInv, CopiesAreFresh, QuotesAreKept, RespondedHasQuote, StartDispatch, TheRow, row, ghosts
<1>2. CASE \E s \in Suppliers : SkipTerminal(s) \/ SkipSupplier(s)
  <2>1. PICK s \in Suppliers : SkipTerminal(s) \/ SkipSupplier(s)
    BY <1>2
  <2>2. \A r \in Suppliers : entries'[r].quote = entries[r].quote
    <3>1. entries \in [Suppliers -> Slot]
      BY DEF SInv, IInv, TypeOK, Slots
    <3>2. entries' = entries \/ entries' = [entries EXCEPT ![s].status = "skipped"]
      BY <2>1 DEF SkipTerminal, SkipSupplier
    <3>3. \A e \in Slot : [e EXCEPT !.status = "skipped"].quote = e.quote
      BY DEF Slot
    <3> QED BY <3>1, <3>2, <3>3
  <2> QED BY <2>1, <2>2 DEF SInv, CopiesAreFresh, QuotesAreKept, RespondedHasQuote, SkipTerminal,
                            SkipSupplier, TheRow, row, ghosts
<1>3. CASE \E s \in Suppliers, delivered, arrives \in BOOLEAN : MailSupplier(s, delivered, arrives)
  <2>1. PICK s \in Suppliers, delivered \in BOOLEAN, arrives \in BOOLEAN :
           MailSupplier(s, delivered, arrives)
    BY <1>3
  <2>2. \A r \in Suppliers : entries'[r].quote = entries[r].quote
    BY <2>1 DEF SInv, IInv, TypeOK, MailSupplier, Slots, Slot
  <2>3. /\ slots' = slots /\ status' = status /\ received' = received
        /\ request' = request /\ cron' = cron /\ job' = job
    BY <2>1 DEF MailSupplier, row
  <2>4. CopiesAreFresh'
    BY <2>1, <2>2, <2>3 DEF SInv, CopiesAreFresh, MailSupplier, TheRow
  <2>5. QuotesAreKept' /\ RespondedHasQuote'
    BY <2>3 DEF SInv, QuotesAreKept, RespondedHasQuote
  <2> QED BY <2>4, <2>5 DEF SInv
<1>4. CASE FinishDispatch
  <2>1. \A s \in Suppliers : slots'[s] = entries[s] /\ entries[s].quote = slots[s].quote
    BY <1>4 DEF SInv, CopiesAreFresh, FinishDispatch
  <2>2. received' = received /\ \A s \in Suppliers : received[s] \in Nat
    BY <1>4, BoundsAssumption DEF SInv, IInv, TypeOK, FinishDispatch, ghosts
  <2>3. QuotesAreKept'
    <3> SUFFICES ASSUME NEW s \in Suppliers, received[s] > 0
                 PROVE  entries[s] = [status |-> "responded", quote |-> received[s]]
      BY <2>1, <2>2 DEF QuotesAreKept
    <3>0. slots[s] = [status |-> "responded", quote |-> received[s]]
      BY DEF SInv, QuotesAreKept
    <3>1. entries[s].quote = received[s]
      BY <2>1, <3>0
    <3>2. entries[s].status = "responded"
      BY <3>1 DEF SInv, IInv, RunIsSound, SoundSlots
    <3>3. entries[s] \in Slot
      BY DEF SInv, IInv, TypeOK, Slots
    <3>4. \A e \in Slot : e = [status |-> e.status, quote |-> e.quote]
      BY DEF Slot
    <3> QED BY <3>1, <3>2, <3>3, <3>4
  <2>4. RespondedHasQuote'
    BY <1>4, <2>1 DEF SInv, RespondedHasQuote, FinishDispatch
  <2>5. CopiesAreFresh'
    BY <1>4 DEF SInv, OneAtATime, CopiesAreFresh, FinishDispatch
  <2> QED BY <2>3, <2>4, <2>5 DEF SInv
<1> QED BY <1>1, <1>2, <1>3, <1>4 DEF Dispatch

\* A response writes its own slot over an exact copy of the others.
LEMMA QuoteStep ==
    ASSUME SInv, IInv', OneAtATime', NEW s \in Suppliers, LoadResponse(s) \/ SaveResponse(s)
    PROVE  SInv'
<1>1. CASE LoadResponse(s)
  BY <1>1 DEF SInv, IInv, TypeOK, CopiesAreFresh, QuotesAreKept, RespondedHasQuote, LoadResponse,
              TheRow, row, run, ghosts
<1>2. CASE SaveResponse(s)
  <2>1. /\ request[s].slots = slots
        /\ slots' = [slots EXCEPT ![s] = [status |-> "responded", quote |-> received[s] + 1]]
        /\ received' = [received EXCEPT ![s] = @ + 1]
        /\ slots \in Slots /\ received \in [Suppliers -> 0..MaxQuotes]
    BY <1>2 DEF SInv, IInv, TypeOK, CopiesAreFresh, SaveResponse, TheRow
  <2>2. QuotesAreKept'
    BY <2>1 DEF SInv, QuotesAreKept, Slots
  <2>3. RespondedHasQuote'
    BY <2>1, BoundsAssumption DEF RespondedHasQuote, Slots
  <2>4. CopiesAreFresh'
    BY <1>2 DEF SInv, IInv, TypeOK, OneAtATime, CopiesAreFresh, SaveResponse
  <2> QED BY <2>2, <2>3, <2>4 DEF SInv
<1> QED BY <1>1, <1>2

\* The cron writes back the row it read, with only unanswered slots changed.
LEMMA ExpiryStep ==
    ASSUME SInv, IInv', OneAtATime', ReadOverdue \/ WriteExpired
    PROVE  SInv'
<1>1. CASE ReadOverdue
  BY <1>1 DEF SInv, CopiesAreFresh, QuotesAreKept, RespondedHasQuote, ReadOverdue, TheRow, row, run, ghosts
<1>2. CASE WriteExpired
  <2>1. /\ cron = TheRow /\ slots \in Slots /\ SoundSlots(slots)
        /\ received' = received /\ cron' = Nothing /\ request' = request /\ job' = job
    BY <1>2 DEF SInv, IInv, TypeOK, RowIsSound, CopiesAreFresh, WriteExpired, ghosts
  <2>2. /\ slots' = Expire(TheRow).slots /\ status' = Expire(TheRow).status
    BY <1>2, <2>1 DEF WriteExpired, TheRow, row
  <2>3. \A s \in Suppliers : /\ slots'[s].quote = slots[s].quote
                             /\ slots[s].status = "responded" => slots'[s] = slots[s]
    BY <2>1, <2>2 DEF Expire, TheRow, Slots, Slot
  <2>4. QuotesAreKept'
    BY <2>1, <2>3 DEF SInv, QuotesAreKept
  <2>5. RespondedHasQuote'
    BY <2>1, <2>2, <2>3 DEF RespondedHasQuote, Expire, TheRow, SoundSlots
  <2>6. CopiesAreFresh'
    BY <1>2, <2>1 DEF SInv, OneAtATime, CopiesAreFresh, WriteExpired
  <2> QED BY <2>4, <2>5, <2>6 DEF SInv
<1> QED BY <1>1, <1>2

\* Every step taken alone preserves the invariant.
LEMMA SerialNextSInv == SInv /\ OneAtATime' /\ [Next]_vars => SInv'
<1> SUFFICES ASSUME SInv, OneAtATime', [Next]_vars PROVE SInv'
  OBVIOUS
<1>0. IInv'
  BY NextIInv DEF SInv
<1>1. CASE UNCHANGED vars
  BY <1>0, <1>1 DEF SInv, CopiesAreFresh, QuotesAreKept, RespondedHasQuote, TheRow,
                    vars, row, run, ghosts
<1>2. CASE Next
  BY <1>0, <1>2, QuietStep, RunStep, QuoteStep, ExpiryStep DEF Next, Dispatch
<1> QED BY <1>1, <1>2

-----------------------------------------------------------------------------
\* With one program at a time, every quote answered "received" stays in its
\* slot, through later runs of the dispatch job and through the deadline.
THEOREM QuotesSurvive == Spec => SerialKeepsQuotes
<1>1. SInv => QuotesAreKept
  BY DEF SInv
<1> QED BY <1>1, InitSInv, SerialNextSInv, PTL DEF Spec, SerialKeepsQuotes

\* And a request shown as responded has a quote to look at.
THEOREM RespondedIsTrue == Spec => SerialRespondedHasQuote
<1>1. SInv => RespondedHasQuote
  BY DEF SInv
<1> QED BY <1>1, InitSInv, SerialNextSInv, PTL DEF Spec, SerialRespondedHasQuote
=============================================================================
