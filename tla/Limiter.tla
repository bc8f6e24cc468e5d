------------------------------- MODULE Limiter ------------------------------
(***************************************************************************)
(* The workers of internal/worker: a fleet of Limiters, each with one pool *)
(* per tenant, the goroutines net/http starts for GET /v1/check, and the   *)
(* renew goroutines that Check spawns.  Check reads the clock before it    *)
(* takes the pool's mutex, so a decision may be made with an old reading;  *)
(* it may then wait, without the mutex, for a renewal to close its channel *)
(* or for a timeout.  The lease call of a renewal takes any time and has   *)
(* any outcome; what the coordinator really answers is in RateLimiter.     *)
(***************************************************************************)
EXTENDS Pool, FiniteSets

CONSTANTS
    Workers,        \* the worker processes
    Tenants,        \* the tenant names clients ask for
    Requests,       \* identities of check goroutines
    Renewers,       \* identities of renew goroutines and of their channels
    Closed,         \* a channel that has been closed
    Costs,          \* the costs requests carry
    MaxCost,        \* the largest cost handleCheck lets through (1000)
    LeaseSize,      \* the most tokens one grant carries
    Grants,         \* the sizes of the grants considered
    Hints,          \* the retry hints of zero grants considered
    WaitForLease,   \* waitForLease
    MaxClock        \* bound: the last instant of the model

ASSUME LimiterAssumption ==
    /\ MaxCost \in Nat \ {0} /\ Costs \subseteq 0..MaxCost
    /\ LeaseSize \in Nat \ {0} /\ Grants \subseteq 1..LeaseSize /\ Hints \subseteq Nat
    /\ WaitForLease \in Nat /\ MaxClock \in Nat \ {0}
    /\ {Nil, Closed} \cap Renewers = {} /\ Nil # Closed

Keys == Workers \X Tenants      \* one pool for each tenant of each worker

VARIABLES
    clock,      \* the monotonic clock; only differences matter to a worker
    pool,       \* pool[k]: Limiter.pools of the worker k[1], entry k[2]
    req,        \* the locals of each Check
    renewer     \* the locals of each renew

vars == <<clock, pool, req, renewer>>

\* What httpLeaser.Lease returns: a grant, a zero grant with its hint, any
\* error (transport, timeout, status, decoding), or ErrUnknownTenant.
Answers ==
    [kind : {"grant"}, tokens : Grants, retryAfter : {0}]
      \cup [kind : {"zero"}, tokens : {0}, retryAfter : Hints]
      \cup [kind : {"error", "unknown"}, tokens : {0}, retryAfter : {0}]

NoAnswer == [kind |-> "error", tokens |-> 0, retryAfter |-> 0]

PoolType ==
    [tokens : Nat, expiry : Nat, lastGrant : 0..LeaseSize, renewing : BOOLEAN,
     renewDone : Renewers \cup {Nil}, nextTry : Nat,
     backoff : {0} \cup BackoffMin..BackoffMax, unknownUntil : Nat]

ReqType ==
    [pc : {"idle", "lock", "wait", "relock", "count"}, key : Keys \cup {Nil},
     cost : 0..MaxCost, now : Nat, done : Renewers \cup {Nil, Closed},
     until : Nat, admitted : BOOLEAN]

RenewerType ==
    [pc : {"idle", "call", "lease", "lock"}, key : Keys \cup {Nil},
     now : Nat, answer : Answers]

TypeOK ==
    /\ clock \in Nat
    /\ pool \in [Keys -> PoolType]
    /\ req \in [Requests -> ReqType]
    /\ renewer \in [Renewers -> RenewerType]
    /\ \A q \in Requests : req[q].pc # "idle" => req[q].key \in Keys
    /\ \A r \in Renewers : renewer[r].pc # "idle" => renewer[r].key \in Keys

IdleReq == [pc |-> "idle", key |-> Nil, cost |-> 0, now |-> 0, done |-> Nil,
            until |-> 0, admitted |-> FALSE]
IdleRenewer == [pc |-> "idle", key |-> Nil, now |-> 0, answer |-> NoAnswer]

Init ==
    /\ clock = 1
    /\ pool = [k \in Keys |-> NewPool]
    /\ req = [q \in Requests |-> IdleReq]
    /\ renewer = [r \in Renewers |-> IdleRenewer]

-----------------------------------------------------------------------------
(* Check *)

\* handleCheck calls Check: clamp the cost, find the pool, read the clock.
CheckStart(q, k, cost) ==
    /\ req[q].pc = "idle"
    /\ req' = [req EXCEPT ![q] = [@ EXCEPT !.pc = "lock", !.key = k,
                 !.cost = IF cost < 1 THEN 1 ELSE cost, !.now = clock]]
    /\ UNCHANGED <<clock, pool, renewer>>

\* The negative cache answers: Unknown, nothing counted.
CheckUnknown(q) ==
    /\ req[q].pc = "lock" /\ req[q].now < pool[req[q].key].unknownUntil
    /\ req' = [req EXCEPT ![q] = IdleReq]
    /\ UNCHANGED <<clock, pool, renewer>>

\* The pool after the drop of expired tokens and the debit of an admission.
Decided(p, now, cost) == Spend(DropExpired(p, now), cost)
Admitted(p, now, cost) == Admits(DropExpired(p, now), cost)

\* After the unlock: wait for the renewal in flight, or go and count.
Proceed(q, p, admitted) ==
    req' = [req EXCEPT ![q] =
        IF CanWait(p, req[q].now, admitted) /\ p.renewDone # Nil
        THEN [@ EXCEPT !.pc = "wait", !.done = p.renewDone,
                       !.until = clock + WaitForLease]
        ELSE [@ EXCEPT !.pc = "count", !.admitted = admitted]]

\* The critical section of Check when no renewal is to start.
CheckLocked(q) ==
    LET k   == req[q].key
        now == req[q].now
        ok  == Admitted(pool[k], now, req[q].cost)
        p   == Decided(pool[k], now, req[q].cost)
    IN  /\ req[q].pc = "lock" /\ now >= pool[k].unknownUntil
        /\ ~ShouldRenewLocked(p, now, ~ok)
        /\ pool' = [pool EXCEPT ![k] = p]
        /\ Proceed(q, p, ok)
        /\ UNCHANGED <<clock, renewer>>

\* The same with needRenew: make the channel and `go lm.renew(tenant, p)'.
CheckRenew(q, r) ==
    LET k   == req[q].key
        now == req[q].now
        ok  == Admitted(pool[k], now, req[q].cost)
        p   == Decided(pool[k], now, req[q].cost)
    IN  /\ req[q].pc = "lock" /\ now >= pool[k].unknownUntil
        /\ ShouldRenewLocked(p, now, ~ok)
        /\ renewer[r].pc = "idle"
        /\ pool' = [pool EXCEPT ![k] = BeginRenew(p, r)]
        /\ renewer' = [renewer EXCEPT ![r] = [IdleRenewer EXCEPT !.pc = "call", !.key = k]]
        /\ Proceed(q, BeginRenew(p, r), ok)
        /\ UNCHANGED clock

\* case <-done: read the clock again.
WaitDone(q) ==
    /\ req[q].pc = "wait" /\ req[q].done = Closed
    /\ req' = [req EXCEPT ![q] = [@ EXCEPT !.pc = "relock", !.now = clock, !.done = Nil]]
    /\ UNCHANGED <<clock, pool, renewer>>

\* Mistakes: a wait that timed out returns without counting; no timeout.
WaitTimeoutUncounted(q) ==
    /\ req[q].pc = "wait" /\ clock >= req[q].until
    /\ req' = [req EXCEPT ![q] = IdleReq]
    /\ UNCHANGED <<clock, pool, renewer>>
WaitForEver(q) ==
    req[q].pc = "wait" /\ req[q].done = Closed /\ WaitDone(q)

\* case <-time.After(waitForLease); when both are ready select picks either.
WaitTimeout(q) ==
    /\ req[q].pc = "wait" /\ clock >= req[q].until
    /\ req' = [req EXCEPT ![q] = [@ EXCEPT !.pc = "count", !.done = Nil]]
    /\ UNCHANGED <<clock, pool, renewer>>

\* The second critical section, after the wait.
WokenUnknown(q) ==
    /\ req[q].pc = "relock" /\ req[q].now < pool[req[q].key].unknownUntil
    /\ req' = [req EXCEPT ![q] = IdleReq]
    /\ UNCHANGED <<clock, pool, renewer>>

\* Mistake: the second critical section admits without spending.
WokenLockedFree(q) ==
    LET k  == req[q].key
        ok == AdmitsWoken(pool[k], req[q].now, req[q].cost)
    IN  /\ req[q].pc = "relock" /\ req[q].now >= pool[k].unknownUntil
        /\ req' = [req EXCEPT ![q] = [@ EXCEPT !.pc = "count", !.admitted = ok]]
        /\ UNCHANGED <<clock, pool, renewer>>

WokenLocked(q) ==
    LET k  == req[q].key
        ok == AdmitsWoken(pool[k], req[q].now, req[q].cost)
    IN  /\ req[q].pc = "relock" /\ req[q].now >= pool[k].unknownUntil
        /\ pool' = IF ok THEN [pool EXCEPT ![k] = Debited(pool[k], req[q].cost)] ELSE pool
        /\ req' = [req EXCEPT ![q] = [@ EXCEPT !.pc = "count", !.admitted = ok]]
        /\ UNCHANGED <<clock, renewer>>

\* Count the decision and return it.
CheckReturn(q) ==
    /\ req[q].pc = "count"
    /\ req' = [req EXCEPT ![q] = IdleReq]
    /\ UNCHANGED <<clock, pool, renewer>>

-----------------------------------------------------------------------------
(* renew *)

\* Count the call and send POST /v1/lease.
RenewCall(r) ==
    /\ renewer[r].pc = "call"
    /\ renewer' = [renewer EXCEPT ![r].pc = "lease"]
    /\ UNCHANGED <<clock, pool, req>>

\* Lease returns; renew reads the clock, then asks for the mutex.
LeaseReturn(r, answer) ==
    /\ renewer[r].pc = "lease"
    /\ renewer' = [renewer EXCEPT ![r] =
                     [@ EXCEPT !.pc = "lock", !.answer = answer, !.now = clock]]
    /\ UNCHANGED <<clock, pool, req>>

\* Mistake: the channel is dropped without being closed.
CloseNobody(p) == req' = req

\* close(p.renewDone), if it is not nil: everyone selecting on it can go.
CloseDone(p) ==
    req' = [q \in Requests |->
              IF req[q].pc = "wait" /\ p.renewDone # Nil /\ req[q].done = p.renewDone
              THEN [req[q] EXCEPT !.done = Closed] ELSE req[q]]

\* renew's critical section: the four cases of the switch.
RenewLocked(r) ==
    LET k   == renewer[r].key
        p   == pool[k]
        now == renewer[r].now
        a   == renewer[r].answer
    IN  /\ renewer[r].pc = "lock"
        /\ \/ a.kind = "unknown" /\ pool' = [pool EXCEPT ![k] = RenewUnknown(p, now)]
           \/ a.kind = "error" /\ \E delay \in Jittered(NextBackoff(p.backoff)) :
                pool' = [pool EXCEPT ![k] = RenewError(p, now, delay)]
           \/ a.kind = "zero" /\ pool' = [pool EXCEPT ![k] = RenewZero(p, now, a.retryAfter)]
           \/ a.kind = "grant" /\ pool' = [pool EXCEPT ![k] = RenewGrant(p, now, a.tokens)]
        /\ CloseDone(p)
        /\ renewer' = [renewer EXCEPT ![r] = IdleRenewer]
        /\ UNCHANGED clock

-----------------------------------------------------------------------------
(* Processes and time *)

\* A worker is killed and replaced: empty pools, no goroutines.
WorkerCrash(w) ==
    /\ pool' = [k \in Keys |-> IF k[1] = w THEN NewPool ELSE pool[k]]
    /\ req' = [q \in Requests |->
                 IF req[q].pc # "idle" /\ req[q].key[1] = w THEN IdleReq ELSE req[q]]
    /\ renewer' = [r \in Renewers |->
                 IF renewer[r].pc # "idle" /\ renewer[r].key[1] = w
                 THEN IdleRenewer ELSE renewer[r]]
    /\ UNCHANGED clock

Tick == /\ clock < MaxClock
        /\ clock' = clock + 1
        /\ UNCHANGED <<pool, req, renewer>>

CheckStep(q) == \/ CheckUnknown(q)
                \/ CheckLocked(q)
                \/ \E r \in Renewers : CheckRenew(q, r)
                \/ WaitDone(q) \/ WaitTimeout(q)
                \/ WokenUnknown(q) \/ WokenLocked(q)
                \/ CheckReturn(q)

Next == \/ \E q \in Requests, k \in Keys, c \in Costs : CheckStart(q, k, c)
        \/ \E q \in Requests : CheckStep(q)
        \/ \E r \in Renewers : RenewCall(r) \/ RenewLocked(r)
        \/ \E r \in Renewers, a \in Answers : LeaseReturn(r, a)
        \/ \E w \in Workers : WorkerCrash(w)
        \/ Tick

Spec == Init /\ [][Next]_vars

-----------------------------------------------------------------------------
(* Properties *)

\* At most one lease call is in flight per pool: every live renewal belongs
\* to a pool that is renewing and whose channel is its own, and a pool that
\* is renewing has such a renewal, so the flag can never stay set for ever.
Singleflight ==
    /\ \A r \in Renewers : renewer[r].pc # "idle" =>
         pool[renewer[r].key].renewing /\ pool[renewer[r].key].renewDone = r
    /\ \A k \in Keys :
         IF pool[k].renewing
         THEN pool[k].renewDone # Nil /\ renewer[pool[k].renewDone].pc # "idle"
                                     /\ renewer[pool[k].renewDone].key = k
         ELSE pool[k].renewDone = Nil

\* No lost wake-up: a request that selects on a channel still open waits for
\* the very renewal its pool has in flight, whose end will close it.
NoLostWakeup ==
    \A q \in Requests : req[q].pc = "wait" /\ req[q].done # Closed =>
        pool[req[q].key].renewing /\ pool[req[q].key].renewDone = req[q].done

\* A renewal starts below the watermark or below the cost of a request it
\* turned away, and adds one grant.
Reserve == IF Watermark(LeaseSize) > MaxCost THEN Watermark(LeaseSize) ELSE MaxCost

\* What a pool can hold, and a killed worker strand, for each tenant: one
\* lease and less than the larger of the watermark and the largest cost.
PoolBound ==
    \A k \in Keys : pool[k].tokens <= LeaseSize + Reserve - 1

\* An unknown tenant is quiet while the negative cache holds it: no budget
\* to admit from and no lease call in flight, however old the clock reading
\* of a late Check is.
NegativeCacheQuiet ==
    \A k \in Keys : clock < pool[k].unknownUntil =>
        ~pool[k].renewing /\ pool[k].tokens = 0

\* Pacing and backoff are honoured: while a lease call is in flight the
\* instant before which the worker promised not to call has passed, and a
\* pool in backoff always has such an instant.
PacingHonoured ==
    \A k \in Keys : /\ pool[k].renewing => pool[k].nextTry <= clock
                    /\ pool[k].backoff > 0 => pool[k].nextTry > 0

\* The starvation guard: when Check finds fewer tokens than the cost, a
\* renewal is in flight afterwards unless pacing forbids one, even above
\* the watermark.
ShortfallRenews ==
    [][\A q \in Requests :
         req[q].pc = "lock" /\ req'[q].pc \in {"wait", "count"} /\ ~req'[q].admitted
           => \/ pool'[req[q].key].renewing
              \/ req[q].now < pool[req[q].key].nextTry]_vars

\* limiter.go on pool.expiry: tokens beyond that instant are stale and
\* dropped.  When renew reads a clock at which the pool's tokens have already
\* expired, nothing but the new grant is left.
ExpiredDropped ==
    [][\A r \in Renewers :
         LET k == renewer[r].key
         IN  /\ renewer[r].pc = "lock" /\ renewer[r].answer.kind = "grant"
             /\ renewer'[r].pc = "idle" /\ pool'[k] # NewPool
             /\ renewer[r].now >= pool[k].expiry
             => pool'[k].tokens = renewer[r].answer.tokens]_vars
=============================================================================
