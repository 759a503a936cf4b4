---------------------------- MODULE OutboxContract ----------------------------
(***************************************************************************)
(* What the webhook outbox promises a customer, without transactions,      *)
(* batches, locks or crashes.  A delivery is open, then it is settled once *)
(* and for good: delivered if its receiver accepted it, failed if the      *)
(* whole retry schedule was tried.  Only open deliveries (or deliveries    *)
(* whose rows were deleted under a running tick) are ever POSTed.          *)
(***************************************************************************)
EXTENDS Naturals

CONSTANTS
    Deliveries,
    Subs,           \* subscriptions
    None,           \* no subscription
    MaxAttempts     \* POSTs after which a delivery may be given up

VARIABLES
    stage,          \* absent, open, delivered, failed, gone
    owner,          \* subscription of a delivery
    accepted,       \* deliveries their receiver accepted
    posts           \* POSTs made, counted up to MaxAttempts

vars == <<stage, owner, accepted, posts>>

Init ==
    /\ stage = [d \in Deliveries |-> "absent"]
    /\ owner = [d \in Deliveries |-> None]
    /\ accepted = {}
    /\ posts = [d \in Deliveries |-> 0]

\* One event becomes one delivery per matching subscription.
Insert(D) ==
    /\ \A d \in D : stage[d] = "absent"
    /\ stage' = [d \in Deliveries |-> IF d \in D THEN "open" ELSE stage[d]]
    /\ \E for \in [D -> Subs] :
         owner' = [d \in Deliveries |-> IF d \in D THEN for[d] ELSE owner[d]]
    /\ UNCHANGED <<accepted, posts>>

Try(d) ==
    /\ stage[d] \in {"open", "gone"}
    /\ posts' = [posts EXCEPT ![d] = IF @ < MaxAttempts THEN @ + 1 ELSE @]
    /\ accepted' \in {accepted, accepted \cup {d}}
    /\ UNCHANGED <<stage, owner>>

MaySettle(d, verdict) ==
    /\ stage[d] = "open"
    /\ verdict = "delivered" => d \in accepted
    /\ verdict = "failed" => posts[d] = MaxAttempts

\* Several deliveries are settled at once.
Settle(D) ==
    /\ \E verdict \in [D -> {"delivered", "failed"}] :
         /\ \A d \in D : MaySettle(d, verdict[d])
         /\ stage' = [d \in Deliveries |-> IF d \in D THEN verdict[d] ELSE stage[d]]
    /\ UNCHANGED <<owner, accepted, posts>>

\* A subscription is deleted with all its deliveries.
Withdraw(s) ==
    /\ stage' = [d \in Deliveries |-> IF owner[d] = s THEN "gone" ELSE stage[d]]
    /\ UNCHANGED <<owner, accepted, posts>>

\* Old settled deliveries are pruned; unsettled ones never are.
Prune(D) ==
    /\ \A d \in D : stage[d] \in {"delivered", "failed"}
    /\ stage' = [d \in Deliveries |-> IF d \in D THEN "gone" ELSE stage[d]]
    /\ UNCHANGED <<owner, accepted, posts>>

Next ==
    \/ \E D \in SUBSET Deliveries : Insert(D) \/ Settle(D) \/ Prune(D)
    \/ \E d \in Deliveries : Try(d)
    \/ \E s \in Subs : Withdraw(s)

Spec == Init /\ [][Next]_vars
=============================================================================
