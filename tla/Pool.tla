-------------------------------- MODULE Pool --------------------------------
(***************************************************************************)
(* The per-tenant pool of leased tokens of internal/worker/limiter.go: the *)
(* record a worker keeps, and what one critical section of Check and of    *)
(* renew does to it.  Instants and durations are clock ticks; the instant  *)
(* 0 is Go's zero time.Time, which is before every reading of the clock.   *)
(***************************************************************************)
EXTENDS Integers

CONSTANTS
    Nil,            \* no channel
    LeaseTTL,       \* Grant.TTL, the coordinator's lease.durationMs
    MinRetryAfter,  \* minRetryAfter
    BackoffMin,     \* backoffMin
    BackoffMax,     \* backoffMax
    UnknownTTL      \* unknownTenantTTL

ASSUME PoolAssumption ==
    /\ LeaseTTL \in Nat \ {0} /\ MinRetryAfter \in Nat \ {0}
    /\ BackoffMin \in Nat \ {0} /\ BackoffMax \in Nat /\ BackoffMin <= BackoffMax
    /\ UnknownTTL \in Nat \ {0}

\* type pool, without the mutex; &pool{} is the zero value.
NewPool == [tokens |-> 0, expiry |-> 0, lastGrant |-> 0, renewing |-> FALSE,
            renewDone |-> Nil, nextTry |-> 0, backoff |-> 0, unknownUntil |-> 0]

\* int(float64(lastGrant) * prefetchFraction), at least 1.
Watermark(grant) == IF grant \div 5 < 1 THEN 1 ELSE grant \div 5

\* Check drops tokens whose grant has expired.
DropExpired(p, now) ==
    IF p.tokens > 0 /\ now >= p.expiry THEN [p EXCEPT !.tokens = 0] ELSE p

\* Admission is all or nothing.
Admits(p, cost) == p.tokens >= cost
DebitedCopy(p, cost) == p                       \* mistake: a copy is debited
Debited(p, cost) == [p EXCEPT !.tokens = @ - cost]
Spend(p, cost) == IF Admits(p, cost) THEN Debited(p, cost) ELSE p

\* Mistakes in shouldRenewLocked: no singleflight, no pacing, no watermark,
\* no starvation guard.
RenewTwice(p, now, insufficient) ==
    /\ now >= p.nextTry
    /\ insufficient \/ p.lastGrant = 0 \/ p.tokens < Watermark(p.lastGrant)
RenewUnpaced(p, now, insufficient) ==
    /\ ~p.renewing
    /\ insufficient \/ p.lastGrant = 0 \/ p.tokens < Watermark(p.lastGrant)
RenewAlways(p, now, insufficient) == ~p.renewing /\ now >= p.nextTry
RenewAtWatermark(p, now, insufficient) ==
    /\ ~p.renewing /\ now >= p.nextTry
    /\ p.lastGrant = 0 \/ p.tokens < Watermark(p.lastGrant)

\* shouldRenewLocked
ShouldRenewLocked(p, now, insufficient) ==
    /\ ~p.renewing /\ now >= p.nextTry
    /\ insufficient \/ p.lastGrant = 0 \/ p.tokens < Watermark(p.lastGrant)

\* needRenew: the pool enters a renewal and gets a fresh channel.
BeginRenew(p, channel) == [p EXCEPT !.renewing = TRUE, !.renewDone = channel]

\* canWait: never leased or expired, a renewal in flight, and neither pacing
\* nor backoff recorded.
Cold(p, now) == p.lastGrant = 0 \/ now >= p.expiry
CanWait(p, now, admitted) ==
    ~admitted /\ p.renewing /\ p.nextTry = 0 /\ Cold(p, now)

\* After the wait only unexpired tokens count; nothing is dropped here.
AdmitsWoken(p, now, cost) == p.tokens >= cost /\ now < p.expiry

\* Mistake: the backoff doubles for ever.
BackoffUncapped(b) == IF b = 0 THEN BackoffMin ELSE 2 * b

\* Exponential backoff, capped, and its jitter of one quarter either way.
NextBackoff(b) ==
    IF b = 0 THEN BackoffMin ELSE IF 2 * b > BackoffMax THEN BackoffMax ELSE 2 * b
Jittered(b) == {d \in 0..2 * b : 4 * d >= 3 * b /\ 4 * d < 5 * b}

\* renew's critical section, in its four outcomes.
EndRenew(p) == [p EXCEPT !.renewing = FALSE, !.renewDone = Nil]

\* Mistake: a tenant that turns out unknown keeps its tokens.
RenewUnknownKeeps(p, now) ==
    [EndRenew(p) EXCEPT !.unknownUntil = now + UnknownTTL]

RenewUnknown(p, now) ==
    [EndRenew(p) EXCEPT !.tokens = 0, !.unknownUntil = now + UnknownTTL]

\* Mistake: an error returns before the renewal is over.
RenewErrorStuck(p, now, delay) ==
    [p EXCEPT !.renewDone = Nil, !.backoff = NextBackoff(@), !.nextTry = now + delay]

RenewError(p, now, delay) ==
    [EndRenew(p) EXCEPT !.backoff = NextBackoff(@), !.nextTry = now + delay]

RenewZero(p, now, retryAfter) ==
    [EndRenew(p) EXCEPT
        !.backoff = 0,
        !.nextTry = now + (IF retryAfter < MinRetryAfter THEN MinRetryAfter ELSE retryAfter)]

RenewGrant(p, now, tokens) ==
    [EndRenew(p) EXCEPT !.backoff = 0, !.nextTry = 0, !.tokens = @ + tokens,
                        !.expiry = now + LeaseTTL, !.lastGrant = tokens]
=============================================================================
