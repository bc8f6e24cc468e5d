---------------------------- MODULE Coordinator -----------------------------
(***************************************************************************)
(* The coordinator process of internal/coordinator: one token bucket and   *)
(* three counters per tenant, and the goroutines net/http starts for POST  *)
(* /v1/lease.  A handler reads the clock before it takes the bucket's      *)
(* mutex, takes the mutex once to debit a grant and a second time to       *)
(* compute the wait of a zero grant, and updates the counters outside it,  *)
(* so each of these is a step of its own and any two handlers interleave   *)
(* between them.  The process may be killed between any two steps and      *)
(* starts again with full buckets and zero counters.                       *)
(*                                                                         *)
(* History variables record one observation window [winStart, clock]: what *)
(* was granted inside it by handlers that read the clock inside it         *)
(* (winFresh), by handlers that had read it before (winStale), how many    *)
(* handlers were in that position when the window opened (winLate), and    *)
(* how often the process started again inside it (winStarts).              *)
(***************************************************************************)
EXTENDS Bucket, FiniteSets, Functions

CONSTANTS
    Tenants,    \* the keys of cfg.Tenants
    Strangers,  \* names a request may carry that cfg.Tenants lacks
    Malformed,  \* a body that does not decode, or has an empty tenant
    Handlers,   \* identities of handler goroutines
    Rate,       \* Rate[t]: fractions of a token per tick
    Second,     \* ticks in one second; BurstSeconds = 1
    LeaseSize,  \* cfg.Lease.Size
    LeaseTTL,   \* cfg.Lease.DurationMs, in ticks
    MinTTL,     \* the 100 ms below which Load refuses a duration, in ticks
    MaxClock,   \* bound: the last instant of the model
    MaxCalls,   \* bound: lease calls per tenant in one life of the process
    MaxStarts   \* bound: how often the process may start again

Bodies == Tenants \cup Strangers \cup {Malformed}

\* The checks Load makes before it returns a configuration.
Load == /\ LeaseSize >= 1
        /\ LeaseTTL >= MinTTL
        /\ Tenants # {}
        /\ \A t \in Tenants : Rate[t] > 0

ASSUME CoordinatorAssumption ==
    /\ LeaseSize \in Int /\ LeaseTTL \in Int /\ MinTTL \in Nat
    /\ Rate \in [Tenants -> Int]
    /\ Second \in Nat \ {0}
    /\ IsFiniteSet(Tenants) /\ IsFiniteSet(Handlers)
    /\ MaxClock \in Nat \ {0} /\ MaxCalls \in Nat /\ MaxStarts \in Nat
    /\ Strangers \cap Tenants = {}
    /\ Malformed \notin Tenants \cup Strangers
    /\ Load

\* New: capacity is rate * BurstSeconds.
Cap(t) == Rate[t] * Second

VARIABLES
    clock,          \* the host's monotonic clock
    up,             \* the process is running and its port is bound
    started,        \* Server.started
    bucket,         \* tenantState.bucket
    leaseRequests,  \* tenantState.leaseRequests
    zeroGrants,     \* tenantState.zeroGrants
    tokensGranted,  \* tenantState.tokensGranted
    handler,        \* the locals of each handler goroutine
    winStart, winFresh, winStale, winLate, winStarts    \* history

counters == <<leaseRequests, zeroGrants, tokensGranted>>
window   == <<winStart, winFresh, winStale, winLate, winStarts>>
vars     == <<clock, up, started, bucket, counters, handler, window>>

\* A handler waits at the statement `pc' names; reply holds the response.
Idle == [pc |-> "idle", tenant |-> Malformed, now |-> 0, granted |-> 0,
         retryAfter |-> 0, status |-> 200]

HandlerType ==
    [pc : {"idle", "take", "zero", "hint", "grant", "reply"},
     tenant : Bodies, now : Nat, granted : 0..LeaseSize,
     retryAfter : Nat, status : {200, 400, 404}]

TypeOK ==
    /\ clock \in Nat /\ up \in BOOLEAN /\ started \in Nat
    /\ bucket \in [Tenants -> [tokens : Nat, last : Nat]]
    /\ \A t \in Tenants : bucket[t] \in BucketType(Cap(t))
    /\ leaseRequests \in [Tenants -> Nat]
    /\ zeroGrants \in [Tenants -> Nat]
    /\ tokensGranted \in [Tenants -> Nat]
    /\ handler \in [Handlers -> HandlerType]
    /\ \A h \in Handlers : handler[h].pc \in {"take", "zero", "hint", "grant"}
                             => handler[h].tenant \in Tenants
    /\ winStart \in Nat /\ winStarts \in Nat
    /\ winFresh \in [Tenants -> Nat] /\ winStale \in [Tenants -> Nat]
    /\ winLate \in [Tenants -> Nat]

Zero == [t \in Tenants |-> 0]

Init ==
    /\ clock = 1 /\ up = TRUE /\ started = 1
    /\ bucket = [t \in Tenants |-> NewBucket(Cap(t), 1)]
    /\ leaseRequests = Zero /\ zeroGrants = Zero /\ tokensGranted = Zero
    /\ handler = [h \in Handlers |-> Idle]
    /\ winStart = 0 /\ winStarts = 0
    /\ winFresh = Zero /\ winStale = Zero /\ winLate = Zero

-----------------------------------------------------------------------------
(* handleLease *)

\* A body that does not decode gets 400, an unknown tenant 404.
RefuseLease(h, body) ==
    /\ up /\ handler[h].pc = "idle"
    /\ handler' = [handler EXCEPT ![h] =
         [@ EXCEPT !.pc = "reply", !.tenant = body,
                   !.status = IF body = Malformed THEN 400 ELSE 404]]
    /\ UNCHANGED <<clock, up, started, bucket, counters, window>>

\* A known tenant: count the call and read the clock.
HandleLease(h, t) ==
    /\ up /\ handler[h].pc = "idle"
    /\ leaseRequests[t] < MaxCalls
    /\ leaseRequests' = [leaseRequests EXCEPT ![t] = @ + 1]
    /\ handler' = [handler EXCEPT ![h] =
         [@ EXCEPT !.pc = "take", !.tenant = t, !.now = clock]]
    /\ UNCHANGED <<clock, up, started, bucket, zeroGrants, tokensGranted, window>>

\* granted := ts.bucket.TakeUpTo(s.cfg.Lease.Size, now)
TakeUpTo(h) ==
    LET t == handler[h].tenant
        b == RefillLocked(bucket[t], Rate[t], Cap(t), handler[h].now)
        g == TakenUpTo(b, LeaseSize)
    IN  /\ handler[h].pc = "take"
        /\ bucket' = [bucket EXCEPT ![t] = Debit(b, g)]
        /\ handler' = [handler EXCEPT ![h] =
             [@ EXCEPT !.granted = g, !.pc = IF g = 0 THEN "zero" ELSE "grant"]]
        /\ IF winStart > 0 /\ handler[h].now >= winStart
           THEN winFresh' = [winFresh EXCEPT ![t] = @ + g] ELSE UNCHANGED winFresh
        /\ IF winStart > 0 /\ handler[h].now < winStart
           THEN winStale' = [winStale EXCEPT ![t] = @ + g] ELSE UNCHANGED winStale
        /\ UNCHANGED <<clock, up, started, counters, winStart, winLate, winStarts>>

\* Mistake: the zero grant is not counted.
CountZeroForgotten(h) ==
    /\ handler[h].pc = "zero"
    /\ handler' = [handler EXCEPT ![h].pc = "hint"]
    /\ UNCHANGED <<clock, up, started, bucket, counters, window>>

\* ts.zeroGrants.Add(1)
CountZero(h) ==
    /\ handler[h].pc = "zero"
    /\ zeroGrants' = [zeroGrants EXCEPT ![handler[h].tenant] = @ + 1]
    /\ handler' = [handler EXCEPT ![h].pc = "hint"]
    /\ UNCHANGED <<clock, up, started, bucket, leaseRequests, tokensGranted, window>>

\* resp.RetryAfterMs = ts.bucket.NextTokenIn(now).Milliseconds() + 1, which
\* refills under the mutex a second time, with the same now.
ZeroGrant(h) ==
    LET t == handler[h].tenant
        b == RefillLocked(bucket[t], Rate[t], Cap(t), handler[h].now)
    IN  /\ handler[h].pc = "hint"
        /\ bucket' = [bucket EXCEPT ![t] = b]
        /\ handler' = [handler EXCEPT ![h] =
             [@ EXCEPT !.retryAfter = RetryAfterMs(b, Rate[t]), !.pc = "reply"]]
        /\ UNCHANGED <<clock, up, started, counters, window>>

\* Mistake: a partial grant is topped up with a second TakeUpTo.
CountGrantTopUp(h) ==
    /\ handler[h].pc = "grant"
    /\ tokensGranted' = [tokensGranted EXCEPT ![handler[h].tenant] = @ + handler[h].granted]
    /\ handler' = [handler EXCEPT ![h].pc =
                     IF handler[h].granted < LeaseSize THEN "take" ELSE "reply"]
    /\ UNCHANGED <<clock, up, started, bucket, leaseRequests, zeroGrants, window>>

\* ts.tokensGranted.Add(int64(granted))
CountGrant(h) ==
    /\ handler[h].pc = "grant"
    /\ tokensGranted' = [tokensGranted EXCEPT ![handler[h].tenant] = @ + handler[h].granted]
    /\ handler' = [handler EXCEPT ![h].pc = "reply"]
    /\ UNCHANGED <<clock, up, started, bucket, leaseRequests, zeroGrants, window>>

\* json.NewEncoder(w).Encode(resp), or http.Error: the handler returns.
Reply(h) ==
    /\ handler[h].pc = "reply"
    /\ handler' = [handler EXCEPT ![h] = Idle]
    /\ UNCHANGED <<clock, up, started, bucket, counters, window>>

-----------------------------------------------------------------------------
(* The process and its environment *)

\* The pod is killed: memory and every goroutine are gone.
Crash ==
    /\ up /\ winStarts < MaxStarts
    /\ up' = FALSE
    /\ handler' = [h \in Handlers |-> Idle]
    /\ UNCHANGED <<clock, started, bucket, counters, window>>

\* Mistake: the counter of tokens survives a start.
StartKeepsTokens ==
    /\ ~up
    /\ up' = TRUE /\ started' = clock
    /\ bucket' = [t \in Tenants |-> NewBucket(Cap(t), clock)]
    /\ leaseRequests' = Zero /\ zeroGrants' = Zero
    /\ winStarts' = winStarts + 1
    /\ UNCHANGED <<clock, handler, tokensGranted, winStart, winFresh, winStale, winLate>>

\* Run, New: full buckets, zero counters.
Start ==
    /\ ~up
    /\ up' = TRUE /\ started' = clock
    /\ bucket' = [t \in Tenants |-> NewBucket(Cap(t), clock)]
    /\ leaseRequests' = Zero /\ zeroGrants' = Zero /\ tokensGranted' = Zero
    /\ winStarts' = winStarts + 1
    /\ UNCHANGED <<clock, handler, winStart, winFresh, winStale, winLate>>

Tick == /\ clock < MaxClock
        /\ clock' = clock + 1
        /\ UNCHANGED <<up, started, bucket, counters, handler, window>>

\* A handler of tenant t that read the clock before now and has not debited.
Late(t, now) == {h \in Handlers : /\ handler[h].pc = "take"
                                  /\ handler[h].tenant = t
                                  /\ handler[h].now < now}

\* An observer opens its window; at most once in a behaviour, at any time.
OpenWindow ==
    /\ winStart = 0
    /\ winStart' = clock /\ winStarts' = 0
    /\ winLate' = [t \in Tenants |-> Cardinality(Late(t, clock))]
    /\ UNCHANGED <<clock, up, started, bucket, counters, handler, winFresh, winStale>>

HandlerStep(h) == \/ TakeUpTo(h)
                  \/ CountZero(h)
                  \/ ZeroGrant(h)
                  \/ CountGrant(h)
                  \/ Reply(h)

Next == \/ \E h \in Handlers, t \in Tenants : HandleLease(h, t)
        \/ \E h \in Handlers, body \in Bodies \ Tenants : RefuseLease(h, body)
        \/ \E h \in Handlers : HandlerStep(h)
        \/ Crash \/ Start \/ Tick \/ OpenWindow

Spec == Init /\ [][Next]_vars

-----------------------------------------------------------------------------
(* Properties *)

\* What a window may carry: every start of the process brings one burst.
Allowance(t, from, to, starts) == Cap(t) * (1 + starts) + Rate[t] * (to - from)

\* The core guarantee, for the instants the handlers read: what handlers
\* that read the clock inside the window debit from the bucket never
\* exceeds rate * window plus one burst per start, whatever the order in
\* which they reach the mutex (refillLocked must ignore an older now).
WindowBound ==
    winStart > 0 => \A t \in Tenants :
        winFresh[t] * Unit <= Allowance(t, winStart, clock, winStarts)

\* The rest of what is granted in real time inside the window comes from
\* handlers that had read the clock before it opened (handleLease reads it
\* before TakeUpTo locks the bucket): at most one lease for each of them.
StaleBound ==
    winStart > 0 => \A t \in Tenants : winStale[t] <= LeaseSize * winLate[t]

\* Handlers of t between their debit and their tokensGranted.Add.
Uncounted(t) == {h \in Handlers : handler[h].pc = "grant" /\ handler[h].tenant = t}

\* What those handlers are about to add.
Pending(t) == SumFunctionOnSet([h \in Handlers |-> handler[h].granted], Uncounted(t))

\* The counter the harness scrapes is honest: what tokensGranted shows, with
\* the grants debited and not yet added and the balance of the bucket, never
\* exceeds one burst plus what the rate earned since this start.
LedgerBound ==
    up => \A t \in Tenants :
        (tokensGranted[t] + Pending(t)) * Unit + bucket[t].tokens
          <= Cap(t) + Rate[t] * (bucket[t].last - started)

\* The three counters agree with each other and with the calls in flight: a
\* call that is not waiting for its counter is either one zero grant or one
\* grant of 1 to LeaseSize tokens, also after a kill and a fresh start.
CountersAgree ==
    up => \A t \in Tenants :
        LET open   == {h \in Handlers : /\ handler[h].tenant = t
                                        /\ handler[h].pc \in {"take", "zero", "grant"}}
            grants == leaseRequests[t] - zeroGrants[t] - Cardinality(open)
        IN  /\ grants <= tokensGranted[t]
            /\ tokensGranted[t] <= LeaseSize * grants

\* A zero grant's hint is long enough: a caller that waits retryAfterMs from
\* the reply finds a whole token if nobody else took one, even when other
\* handlers refilled or drained the bucket between TakeUpTo and NextTokenIn.
HintSuffices ==
    [][\A h \in Handlers :
         handler[h].pc = "hint" /\ handler'[h].pc = "reply" =>
           LET t == handler[h].tenant
           IN  RefillLocked(bucket'[t], Rate[t], Cap(t),
                            clock + Ms * handler'[h].retryAfter).tokens >= Unit]_vars

\* DESIGN.md section 3 in real time: everything granted over any window, by
\* whichever handler, is at most rate * window + burst.
RealTimeWindowBound ==
    winStart > 0 => \A t \in Tenants :
        (winFresh[t] + winStale[t]) * Unit <= Allowance(t, winStart, clock, winStarts)
=============================================================================
