------------------------------- MODULE Bucket -------------------------------
(***************************************************************************)
(* The token bucket of internal/bucket: a record of tokens and the instant *)
(* of the last refill, and the operations its methods perform under the    *)
(* bucket's mutex.  Every method takes an explicit instant `now', as in    *)
(* the code, so the operators are pure functions of a bucket and `now'.    *)
(*                                                                         *)
(* The code keeps a float64 of tokens and a rate in tokens per second.     *)
(* Here tokens are counted in fractions: Unit fractions make one whole     *)
(* token, a rate is a number of fractions per clock tick, and Ms ticks     *)
(* make one millisecond, the resolution in which a wait travels on the     *)
(* wire.  Conversions that truncate in the code truncate here.             *)
(***************************************************************************)
EXTENDS Integers

CONSTANTS
    Unit,       \* fractions in one whole token
    Ms          \* clock ticks in one millisecond

ASSUME BucketAssumption == Unit \in Nat \ {0} /\ Ms \in Nat \ {0}

\* type Bucket, without the mutex (an operator is one critical section)
\* and without rate and cap, which never change.
BucketType(cap) == [tokens : 0..cap, last : Nat]

\* New: a bucket starts full.
NewBucket(cap, now) == [tokens |-> cap, last |-> now]

\* Mistakes in refillLocked: it follows an older instant; it forgets the cap.
RefillFollowsOld(b, rate, cap, now) ==
    LET filled == b.tokens + (IF now > b.last THEN rate * (now - b.last) ELSE 0)
    IN  [tokens |-> IF filled > cap THEN cap ELSE filled, last |-> now]

RefillUncapped(b, rate, cap, now) ==
    IF now > b.last
    THEN [tokens |-> b.tokens + rate * (now - b.last), last |-> now] ELSE b

\* refillLocked: an instant that is not after the last refill adds nothing.
RefillLocked(b, rate, cap, now) ==
    IF now > b.last
    THEN LET filled == b.tokens + rate * (now - b.last)
         IN  [tokens |-> IF filled > cap THEN cap ELSE filled, last |-> now]
    ELSE b

\* int(b.tokens): the whole tokens of a bucket.
Whole(b) == b.tokens \div Unit

\* Mistake: the whole balance leaves the bucket.
TakenWhole(b, n) == Whole(b)

\* TakeUpTo's return value: at most n, and only whole tokens.
TakenUpTo(b, n) == IF Whole(b) > n THEN n ELSE Whole(b)

\* b.tokens -= float64(take)
Debit(b, take) == [b EXCEPT !.tokens = @ - take * Unit]

\* NextTokenIn, on a refilled bucket: a time.Duration in ticks, truncated.
NextTokenIn(b, rate) ==
    IF b.tokens >= Unit THEN 0 ELSE (Unit - b.tokens) \div rate

\* Mistake: the truncated wait is sent as it is.
RetryAfterTruncated(b, rate) == NextTokenIn(b, rate) \div Ms

\* Duration.Milliseconds() truncates once more, and the handler adds one.
RetryAfterMs(b, rate) == (NextTokenIn(b, rate) \div Ms) + 1
=============================================================================
