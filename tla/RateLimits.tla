----------------------------- MODULE RateLimits -----------------------------
(***************************************************************************)
(* Two limiters, for one key each.  core/rate_limit.py counts the calls of *)
(* a fixed window in Redis, with INCR and, for the first call, EXPIRE as a *)
(* second command; on any error of Redis it lets the call through.         *)
(* services/rate_limit.py keeps a token bucket in the process, under a     *)
(* lock.  Time is a tick, a window has Window of them; the ghosts keep     *)
(* numbers of calls of the last Window ticks, this one first.  Tokens are  *)
(* counted in parts of which Window make a whole one, so that a tick       *)
(* brings as many parts as the capacity has tokens (floats in the code).   *)
(***************************************************************************)
EXTENDS Integers, FiniteSets, FiniteSetsExt

CONSTANTS
    Callers,        \* calls that may be between the two commands
    CallLimit,      \* limit of the window
    Capacities,     \* capacities that the routes of the bucket give
    Window,         \* window_sec, per_seconds
    MaxErrors       \* bound: calls in a tick that an error lets through

ASSUME RateAssumption ==
    /\ Window \in Nat \ {0} /\ CallLimit \in Nat \ {0}
    /\ IsFiniteSet(Capacities) /\ Capacities # {}
    /\ Capacities \subseteq Nat \ {0} /\ MaxErrors \in Nat

VARIABLES
    counter,        \* the key in Redis: its value, and its TTL or Never
    caller,         \* a call between INCR and EXPIRE
    refused,        \* whether the last call was answered 429
    admitted,       \* ghost: calls let through
    open,           \* ghost: those of them that INCR gave no answer to
    stranded,       \* ghost: a count of 1 was left without its EXPIRE
    bucket,         \* the token bucket; a capacity of 0 if there is none
    taken,          \* ghost: calls that it let through
    swapped         \* ghost: another capacity has replaced it

rateVars == <<counter, caller, refused, admitted, open, stranded, bucket, taken, swapped>>

Never == -1
NoKey == [count |-> 0, ttl |-> Never]
Slots == 0..(Window - 1)
Zero  == [t \in Slots |-> 0]
Most  == Max(Capacities)

RateTypeOK ==
    /\ counter \in [count : 0..(CallLimit + 1), ttl : 1..Window \cup {Never}]
    /\ caller \in [Callers -> {"idle", "expire"}]
    /\ refused \in BOOLEAN /\ stranded \in BOOLEAN /\ swapped \in BOOLEAN
    /\ admitted \in [Slots -> 0..(2 * CallLimit + MaxErrors)]
    /\ open \in [Slots -> 0..MaxErrors]
    /\ bucket \in [capacity : Capacities \cup {0}, tokens : 0..(Most * Window)]
    /\ taken \in [Slots -> 0..(2 * Most)]

RateInit ==
    /\ counter = NoKey
    /\ caller = [c \in Callers |-> "idle"]
    /\ refused = FALSE
    /\ admitted = Zero /\ open = Zero
    /\ stranded = FALSE
    /\ bucket = [capacity |-> 0, tokens |-> 0]
    /\ taken = Zero
    /\ swapped = FALSE

redisVars  == <<counter, caller, refused, admitted, open, stranded>>
bucketVars == <<bucket, taken, swapped>>

-----------------------------------------------------------------------------
\* INCR.  The count is kept up to one above the limit.
Counted == [counter EXCEPT !.count = Min({CallLimit + 1, @ + 1})]

\* The answer of _acquire.
Answer(through) ==
    /\ refused' = ~through
    /\ admitted' = IF through THEN [admitted EXCEPT ![0] = @ + 1] ELSE admitted

\* Fault: the first call is like the others.
IncrOnly(c) ==
    /\ caller[c] = "idle"
    /\ counter' = Counted
    /\ Answer(counter.count < CallLimit)
    /\ UNCHANGED <<caller, open, stranded, bucketVars>>

Incr(c) ==
    /\ caller[c] = "idle"
    /\ counter' = Counted
    /\ IF counter.count = 0
       THEN caller' = [caller EXCEPT ![c] = "expire"] /\ UNCHANGED <<refused, admitted>>
       ELSE Answer(counter.count < CallLimit) /\ UNCHANGED caller
    /\ UNCHANGED <<open, stranded, bucketVars>>

\* Fault: the window is a tick, whatever its length.
ExpireEarly(c) ==
    /\ caller[c] = "expire"
    /\ counter' = [counter EXCEPT !.ttl = 1]
    /\ caller' = [caller EXCEPT ![c] = "idle"]
    /\ Answer(TRUE)
    /\ UNCHANGED <<open, stranded, bucketVars>>

\* EXPIRE; count is 1 here.
Expire(c) ==
    /\ caller[c] = "expire"
    /\ counter' = [counter EXCEPT !.ttl = Window]
    /\ caller' = [caller EXCEPT ![c] = "idle"]
    /\ Answer(TRUE)
    /\ UNCHANGED <<open, stranded, bucketVars>>

\* EXPIRE raises and the call is let through, or the process dies before it.
Strand(c, dies) ==
    /\ caller[c] = "expire"
    /\ caller' = [caller EXCEPT ![c] = "idle"]
    /\ IF dies THEN UNCHANGED <<refused, admitted>> ELSE Answer(TRUE)
    /\ stranded' = TRUE
    /\ UNCHANGED <<counter, open, bucketVars>>

\* Connecting, INCR or aclose raises, whether or not the server has counted
\* the call: "failing open".
FailOpen(executed) ==
    /\ open[0] < MaxErrors
    /\ counter' = IF executed THEN Counted ELSE counter
    /\ stranded' = (stranded \/ (executed /\ counter.count = 0))
    /\ open' = [open EXCEPT ![0] = @ + 1]
    /\ Answer(TRUE)
    /\ UNCHANGED <<caller, bucketVars>>

-----------------------------------------------------------------------------
\* check_and_consume: a bucket of another capacity is replaced by a full one.
CheckAndConsume(cap) ==
    LET b == IF bucket.capacity = cap THEN bucket ELSE [capacity |-> cap, tokens |-> cap * Window]
    IN /\ bucket' = IF b.tokens >= Window THEN [b EXCEPT !.tokens = @ - Window] ELSE b
       /\ taken' = IF b.tokens >= Window /\ ~swapped THEN [taken EXCEPT ![0] = @ + 1] ELSE taken
       /\ swapped' = (swapped \/ bucket.capacity \notin {0, cap})
       /\ UNCHANGED redisVars

\* Time passes: the key expires; the bucket refills, which the code does at
\* the next call.
Shift(f) == [t \in Slots |-> IF t = 0 THEN 0 ELSE f[t - 1]]

WindowTick ==
    /\ counter' = IF counter.ttl = Never THEN counter
                  ELSE IF counter.ttl = 1 THEN NoKey ELSE [counter EXCEPT !.ttl = @ - 1]
    /\ admitted' = Shift(admitted) /\ open' = Shift(open)
    /\ UNCHANGED <<caller, refused, stranded, bucketVars>>

BucketTick ==
    /\ bucket' = [bucket EXCEPT !.tokens = Min({bucket.capacity * Window, @ + bucket.capacity})]
    /\ taken' = Shift(taken)
    /\ UNCHANGED <<redisVars, swapped>>

WindowNext ==
    \/ WindowTick
    \/ \E c \in Callers : Incr(c) \/ Expire(c) \/ \E dies \in BOOLEAN : Strand(c, dies)
    \/ \E executed \in BOOLEAN : FailOpen(executed)

BucketNext == BucketTick \/ \E cap \in Capacities : CheckAndConsume(cap)

-----------------------------------------------------------------------------
InWindow(f) == MapThenSumSet(LAMBDA t : f[t], Slots)

\* No window of time, wherever it begins, sees more than twice the limit and
\* one call more for each one that Redis did not answer: an error lets its
\* own call through and no other, whatever it left in the key.  Nor does one
\* see more than a full bucket and its refill, unless two routes use one key
\* with different capacities.
AtMostTwice ==
    /\ InWindow([t \in Slots |-> admitted[t] - open[t]]) <= 2 * CallLimit
    /\ ~swapped => InWindow(taken) <= 2 * bucket.capacity
=============================================================================
