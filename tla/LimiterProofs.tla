---------------------------- MODULE LimiterProofs ---------------------------
(***************************************************************************)
(* Proofs about the workers for every number of workers, tenants, requests *)
(* and renewals, every lease size and largest cost, and every sequence of  *)
(* answers, timeouts and kills: first the pools and renewals of Limiter,   *)
(* then the counters and the tokens of LimiterAccounting.                  *)
(***************************************************************************)
EXTENDS LimiterAccounting, SumProofs

-----------------------------------------------------------------------------
(***************************************************************************)
(* The inductive invariant.  PoolBound is not inductive: a renewal adds a  *)
(* whole grant, so what a pool may hold while one is in flight has to be   *)
(* known.  That is GoodPool, a predicate of one pool and the clock; Linked *)
(* ties a pool to its renewal, and the rest says what the goroutines know. *)
(***************************************************************************)

GoodPool(p, c) ==
    /\ p.tokens <= LeaseSize + Reserve - 1
    /\ p.renewing => p.tokens <= Reserve - 1 /\ p.nextTry <= c
    /\ p.lastGrant = 0 => p.tokens = 0
    /\ c < p.unknownUntil => ~p.renewing /\ p.tokens = 0
    /\ p.backoff > 0 => p.nextTry > 0

Linked(k) ==
    IF pool[k].renewing
    THEN pool[k].renewDone # Nil /\ renewer[pool[k].renewDone].pc # "idle"
                                 /\ renewer[pool[k].renewDone].key = k
    ELSE pool[k].renewDone = Nil

RequestOK(q) ==
    /\ req[q].now <= clock
    /\ req[q].pc # "idle" => req[q].cost >= 1
    /\ req[q].pc = "wait" => req[q].done # Nil
    /\ req[q].pc = "wait" /\ req[q].done # Closed =>
         pool[req[q].key].renewing /\ pool[req[q].key].renewDone = req[q].done

RenewerOK(r) ==
    /\ renewer[r].now <= clock
    /\ renewer[r].pc # "idle" =>
         pool[renewer[r].key].renewing /\ pool[renewer[r].key].renewDone = r

IInv == /\ TypeOK
        /\ \A k \in Keys : GoodPool(pool[k], clock)
        /\ \A k \in Keys : Linked(k)
        /\ \A q \in Requests : RequestOK(q)
        /\ \A r \in Renewers : RenewerOK(r)

-----------------------------------------------------------------------------
(* What one critical section does to a pool *)

\* The watermark is positive and grows with the grant.
LEMMA WatermarkFacts ==
    ASSUME NEW g \in 0..LeaseSize
    PROVE  /\ Watermark(g) \in Nat \ {0} /\ Watermark(g) <= Reserve
           /\ Reserve \in Nat \ {0} /\ MaxCost <= Reserve
<1>1. LeaseSize \in Nat /\ MaxCost \in Nat \ {0} /\ g \in Nat /\ g <= LeaseSize
    BY LimiterAssumption
<1>2. g \div 5 \in Nat /\ LeaseSize \div 5 \in Nat /\ g \div 5 <= LeaseSize \div 5
    BY <1>1
<1>3. QED
    BY <1>1, <1>2 DEF Watermark, Reserve

\* Dropping what expired and spending a cost leaves a good pool good, and
\* a renewal that this decision calls for starts below the reserve.
LEMMA DecidedFacts ==
    ASSUME NEW p \in PoolType, NEW c \in Nat, GoodPool(p, c), NEW now \in Nat, now <= c,
           NEW cost \in 1..MaxCost, now >= p.unknownUntil
    PROVE  LET d == Decided(p, now, cost)
           IN  /\ d \in PoolType /\ GoodPool(d, c)
               /\ d.renewing = p.renewing /\ d.renewDone = p.renewDone
               /\ \A r \in Renewers :
                    ShouldRenewLocked(d, now, ~Admitted(p, now, cost)) =>
                      /\ ~p.renewing
                      /\ BeginRenew(d, r) \in PoolType /\ GoodPool(BeginRenew(d, r), c)
                      /\ BeginRenew(d, r).renewing /\ BeginRenew(d, r).renewDone = r
<1> DEFINE e == DropExpired(p, now)
           d == Spend(e, cost)
<1>1. /\ e \in PoolType
      /\ e = [p EXCEPT !.tokens = e.tokens] /\ e.tokens <= p.tokens
    BY DEF DropExpired, PoolType
<1>2. /\ d \in PoolType
      /\ d = [e EXCEPT !.tokens = d.tokens] /\ d.tokens <= e.tokens
      /\ ~Admits(e, cost) => d.tokens < cost
    BY <1>1, LimiterAssumption DEF Spend, Debited, Admits, PoolType
<1> HIDE DEF d, e
<1>3. /\ d = [p EXCEPT !.tokens = d.tokens] /\ d.tokens <= p.tokens
      /\ d.renewing = p.renewing /\ d.renewDone = p.renewDone
      /\ d.lastGrant = p.lastGrant /\ d.nextTry = p.nextTry
      /\ d.unknownUntil = p.unknownUntil /\ d.backoff = p.backoff
    BY <1>1, <1>2 DEF PoolType
<1>4. /\ d.tokens \in Nat /\ p.tokens \in Nat /\ d.nextTry \in Nat /\ d.lastGrant \in 0..LeaseSize
      /\ d.unknownUntil \in Nat /\ cost <= MaxCost /\ cost \in Nat
      /\ Reserve \in Nat \ {0} /\ MaxCost <= Reserve /\ LeaseSize \in Nat /\ MaxCost \in Nat
      /\ Watermark(d.lastGrant) \in Nat /\ Watermark(d.lastGrant) <= Reserve
    BY <1>2, WatermarkFacts, LimiterAssumption DEF PoolType
<1>5. GoodPool(d, c)
    BY <1>3, <1>4 DEF GoodPool
<1>6. ASSUME NEW r \in Renewers, ShouldRenewLocked(d, now, ~Admits(e, cost))
      PROVE  /\ ~p.renewing
             /\ BeginRenew(d, r) \in PoolType /\ GoodPool(BeginRenew(d, r), c)
             /\ BeginRenew(d, r).renewing /\ BeginRenew(d, r).renewDone = r
  <2>1. d.tokens <= Reserve - 1 /\ d.nextTry <= c /\ ~d.renewing
      BY <1>2, <1>4, <1>5, <1>6 DEF ShouldRenewLocked, GoodPool
  <2>2. c >= d.unknownUntil
      BY <1>3, <1>4
  <2> DEFINE f == BeginRenew(d, r)
  <2>3. /\ f \in PoolType /\ f.renewing /\ f.renewDone = r /\ f.tokens = d.tokens
        /\ f.nextTry = d.nextTry /\ f.lastGrant = d.lastGrant
        /\ f.unknownUntil = d.unknownUntil /\ f.backoff = d.backoff
      BY <1>2 DEF BeginRenew, PoolType
  <2> HIDE DEF f
  <2>4. GoodPool(f, c)
      BY <1>4, <1>5, <2>1, <2>2, <2>3 DEF GoodPool
  <2>5. QED
      BY <1>3, <2>1, <2>3, <2>4 DEF f
<1>7. QED
    BY <1>2, <1>3, <1>5, <1>6 DEF Decided, Admitted, d, e

\* Spending after the wait leaves a good pool good.
LEMMA WokenFacts ==
    ASSUME NEW p \in PoolType, NEW c \in Nat, GoodPool(p, c), NEW cost \in 1..MaxCost,
           p.tokens >= cost
    PROVE  LET d == Debited(p, cost)
           IN  /\ d \in PoolType /\ GoodPool(d, c)
               /\ d.renewing = p.renewing /\ d.renewDone = p.renewDone
<1> DEFINE d == Debited(p, cost)
<1>1. /\ d \in PoolType /\ d.tokens = p.tokens - cost
      /\ d.renewing = p.renewing /\ d.renewDone = p.renewDone
      /\ d.lastGrant = p.lastGrant /\ d.nextTry = p.nextTry
      /\ d.unknownUntil = p.unknownUntil /\ d.backoff = p.backoff
    BY LimiterAssumption DEF Debited, PoolType
<1>2. /\ p.tokens \in Nat /\ cost \in Nat \ {0} /\ LeaseSize \in Nat
      /\ Reserve \in Nat \ {0} /\ 0 \in 0..LeaseSize
    BY WatermarkFacts, LimiterAssumption DEF PoolType
<1> HIDE DEF d
<1>3. GoodPool(d, c)
    BY <1>1, <1>2 DEF GoodPool
<1>4. QED
    BY <1>1, <1>3 DEF d

\* Backoff stays within its limits, and its jitter never makes it zero.
LEMMA BackoffFacts ==
    ASSUME NEW b \in {0} \cup BackoffMin..BackoffMax, NEW delay \in Jittered(NextBackoff(b))
    PROVE  NextBackoff(b) \in BackoffMin..BackoffMax /\ delay \in Nat \ {0}
<1>1. NextBackoff(b) \in BackoffMin..BackoffMax
    BY PoolAssumption DEF NextBackoff
<1> DEFINE n == NextBackoff(b)
<1> HIDE DEF n
<1>2. n \in Nat \ {0} /\ delay \in 0..2 * n /\ 4 * delay >= 3 * n
    BY <1>1, PoolAssumption DEF Jittered, n
<1>3. QED
    BY <1>1, <1>2

\* The four outcomes of a renewal, for a pool with one in flight.
Outcomes(p, now) ==
    {RenewUnknown(p, now)}
      \cup {RenewError(p, now, delay) : delay \in Jittered(NextBackoff(p.backoff))}
      \cup {RenewZero(p, now, hint) : hint \in Hints}
      \cup {RenewGrant(p, now, tokens) : tokens \in Grants}

\* Every outcome ends the renewal and leaves a good pool: a grant comes on
\* top of less than the reserve.
LEMMA RenewFacts ==
    ASSUME NEW p \in PoolType, NEW c \in Nat, GoodPool(p, c), p.renewing,
           NEW now \in Nat, now <= c, NEW d \in Outcomes(p, now)
    PROVE  d \in PoolType /\ GoodPool(d, c) /\ ~d.renewing /\ d.renewDone = Nil
<1>1. EndRenew(p) \in PoolType
    BY DEF EndRenew, PoolType
<1>2. PICK e \in PoolType :
      /\ e = EndRenew(p) /\ ~e.renewing /\ e.renewDone = Nil /\ e.tokens = p.tokens
      /\ e.expiry = p.expiry /\ e.lastGrant = p.lastGrant /\ e.nextTry = p.nextTry
      /\ e.backoff = p.backoff /\ e.unknownUntil = p.unknownUntil
    BY <1>1 DEF EndRenew, PoolType
<1>3. /\ p.tokens \in Nat /\ p.tokens <= Reserve - 1 /\ LeaseSize \in Nat \ {0}
      /\ Reserve \in Nat \ {0} /\ p.unknownUntil \in Nat /\ p.nextTry \in Nat
      /\ p.lastGrant \in Nat
      /\ p.unknownUntil <= c
      /\ LeaseTTL \in Nat /\ UnknownTTL \in Nat /\ MinRetryAfter \in Nat \ {0}
      /\ BackoffMin \in Nat \ {0} /\ BackoffMax \in Nat
      /\ Hints \subseteq Nat /\ Grants \subseteq 1..LeaseSize
  <2>1. Reserve \in Nat \ {0} /\ LeaseSize \in Nat \ {0}
    <3>1. 0 \in 0..LeaseSize
        BY LimiterAssumption
    <3>2. QED
        BY <3>1, WatermarkFacts, LimiterAssumption
  <2>2. QED
      BY <2>1, LimiterAssumption, PoolAssumption DEF PoolType, GoodPool
<1>4. CASE d = RenewUnknown(p, now)
  <2>1. PICK x \in Nat : x = now + UnknownTTL
      BY <1>3
  <2>2. d = [e EXCEPT !.tokens = 0, !.unknownUntil = x]
      BY <1>2, <1>4, <2>1 DEF RenewUnknown
  <2>3. d \in PoolType
      BY <2>2 DEF PoolType
  <2>4. /\ d.renewing = e.renewing /\ d.renewDone = e.renewDone /\ d.tokens = 0
        /\ d.nextTry = e.nextTry /\ d.backoff = e.backoff
      BY <2>2 DEF PoolType
  <2>5. GoodPool(d, c)
      BY <1>2, <1>3, <2>4 DEF GoodPool
  <2>6. QED
      BY <1>2, <2>3, <2>4, <2>5
<1>5. ASSUME NEW delay \in Jittered(NextBackoff(p.backoff)), d = RenewError(p, now, delay)
      PROVE  d \in PoolType /\ GoodPool(d, c) /\ ~d.renewing /\ d.renewDone = Nil
  <2>1. PICK n \in BackoffMin..BackoffMax : n = NextBackoff(p.backoff) /\ delay \in Nat \ {0}
      BY BackoffFacts DEF PoolType
  <2>2. PICK x \in Nat \ {0} : x = now + delay
      BY <2>1
  <2>3. d = [e EXCEPT !.backoff = n, !.nextTry = x]
      BY <1>2, <1>5, <2>1, <2>2 DEF RenewError
  <2>4. d \in PoolType
      BY <2>3 DEF PoolType
  <2>5. /\ d.renewing = e.renewing /\ d.renewDone = e.renewDone /\ d.tokens = e.tokens
        /\ d.nextTry = x /\ d.lastGrant = e.lastGrant /\ d.unknownUntil = e.unknownUntil
      BY <2>3 DEF PoolType
  <2>6. GoodPool(d, c)
      BY <1>2, <1>3, <2>5 DEF GoodPool
  <2>7. QED
      BY <1>2, <2>4, <2>5, <2>6
<1>6. ASSUME NEW hint \in Hints, d = RenewZero(p, now, hint)
      PROVE  d \in PoolType /\ GoodPool(d, c) /\ ~d.renewing /\ d.renewDone = Nil
  <2>1. PICK x \in Nat : x = now + (IF hint < MinRetryAfter THEN MinRetryAfter ELSE hint)
      BY <1>3
  <2>2. d = [e EXCEPT !.backoff = 0, !.nextTry = x]
      BY <1>2, <1>6, <2>1 DEF RenewZero
  <2>3. d \in PoolType
      BY <2>2 DEF PoolType
  <2>4. /\ d.renewing = e.renewing /\ d.renewDone = e.renewDone /\ d.tokens = e.tokens
        /\ d.backoff = 0 /\ d.lastGrant = e.lastGrant /\ d.unknownUntil = e.unknownUntil
      BY <2>2 DEF PoolType
  <2>5. GoodPool(d, c)
      BY <1>2, <1>3, <2>4 DEF GoodPool
  <2>6. QED
      BY <1>2, <2>3, <2>4, <2>5
<1>7. ASSUME NEW tokens \in Grants, d = RenewGrant(p, now, tokens)
      PROVE  d \in PoolType /\ GoodPool(d, c) /\ ~d.renewing /\ d.renewDone = Nil
  <2>1. tokens \in 1..LeaseSize /\ tokens \in 0..LeaseSize
      BY <1>3
  <2>2. PICK x \in Nat, y \in Nat : x = p.tokens + tokens /\ y = now + LeaseTTL
      BY <1>3, <2>1
  <2>3. d = [e EXCEPT !.backoff = 0, !.nextTry = 0, !.tokens = x,
                      !.expiry = y, !.lastGrant = tokens]
      BY <1>2, <1>7, <2>2 DEF RenewGrant
  <2>4. d \in PoolType
      BY <2>1, <2>3 DEF PoolType
  <2>5. /\ d.renewing = e.renewing /\ d.renewDone = e.renewDone /\ d.tokens = x
        /\ d.lastGrant = tokens /\ d.backoff = 0 /\ d.unknownUntil = e.unknownUntil
      BY <2>3 DEF PoolType
  <2>6. GoodPool(d, c)
      BY <1>2, <1>3, <2>1, <2>2, <2>5 DEF GoodPool
  <2>7. QED
      BY <1>2, <2>4, <2>5, <2>6
<1>8. QED
    BY <1>4, <1>5, <1>6, <1>7 DEF Outcomes

-----------------------------------------------------------------------------
(* Steps, by what they change *)

\* A step of one request that leaves the pools alone.
LEMMA RequestStep ==
    ASSUME IInv, UNCHANGED <<clock, pool, renewer>>,
           NEW q \in Requests, NEW v \in ReqType, req' = [req EXCEPT ![q] = v],
           v.now <= clock, v.pc # "idle" => v.key \in Keys /\ v.cost >= 1,
           v.pc # "wait"
    PROVE  IInv'
<1>1. /\ req' \in [Requests -> ReqType] /\ req'[q] = v
      /\ \A x \in Requests : x # q => req'[x] = req[x]
    BY DEF IInv, TypeOK
<1>2. TypeOK'
    BY <1>1 DEF IInv, TypeOK
<1>3. \A k \in Keys : GoodPool(pool[k], clock)'
    BY DEF IInv, GoodPool
<1>4. \A k \in Keys : Linked(k)'
    BY DEF IInv, Linked
<1>5. \A x \in Requests : RequestOK(x)'
    BY <1>1 DEF IInv, RequestOK
<1>6. \A r \in Renewers : RenewerOK(r)'
    BY DEF IInv, RenewerOK
<1>7. QED
    BY <1>2, <1>3, <1>4, <1>5, <1>6 DEF IInv

\* A step of one request that also changes its pool's tokens, and starts no
\* renewal.
LEMMA PoolStep ==
    ASSUME IInv, UNCHANGED <<clock, renewer>>,
           NEW k \in Keys, NEW d \in PoolType, pool' = [pool EXCEPT ![k] = d],
           GoodPool(d, clock),
           d.renewing = pool[k].renewing, d.renewDone = pool[k].renewDone,
           NEW q \in Requests, NEW v \in ReqType, req' = [req EXCEPT ![q] = v],
           v.now <= clock, v.key = k, v.cost >= 1,
           v.pc = "wait" => /\ v.done # Nil
                            /\ v.done # Closed => d.renewing /\ d.renewDone = v.done
    PROVE  IInv'
<1>1. /\ req' \in [Requests -> ReqType] /\ req'[q] = v
      /\ \A x \in Requests : x # q => req'[x] = req[x]
    BY DEF IInv, TypeOK
<1>2. /\ pool' \in [Keys -> PoolType] /\ pool'[k] = d
      /\ \A x \in Keys : x # k => pool'[x] = pool[x]
    BY DEF IInv, TypeOK
<1>3. \A x \in Keys : /\ pool'[x].renewing = pool[x].renewing
                      /\ pool'[x].renewDone = pool[x].renewDone
    BY <1>2
<1>4. TypeOK'
    BY <1>1, <1>2 DEF IInv, TypeOK
<1>5. \A x \in Keys : GoodPool(pool[x], clock)'
    BY <1>2 DEF IInv, GoodPool
<1>6. \A x \in Keys : Linked(x)'
    BY <1>3 DEF IInv, Linked
<1>7. \A x \in Requests : RequestOK(x)'
  <2>1. RequestOK(q)'
      BY <1>1, <1>2 DEF RequestOK
  <2>2. ASSUME NEW x \in Requests, x # q PROVE RequestOK(x)'
      BY <1>1, <1>3, <2>2 DEF IInv, RequestOK, TypeOK
  <2>3. QED
      BY <2>1, <2>2
<1>8. \A r \in Renewers : RenewerOK(r)'
    BY <1>3 DEF IInv, RenewerOK, TypeOK
<1>9. QED
    BY <1>4, <1>5, <1>6, <1>7, <1>8 DEF IInv

\* A step of one request that starts a renewal of its pool.
LEMMA BeginStep ==
    ASSUME IInv, clock' = clock,
           NEW k \in Keys, NEW d \in PoolType, pool' = [pool EXCEPT ![k] = d],
           GoodPool(d, clock), ~pool[k].renewing,
           NEW r \in Renewers, d.renewing, d.renewDone = r, renewer[r].pc = "idle",
           NEW n \in RenewerType, renewer' = [renewer EXCEPT ![r] = n],
           n.pc # "idle", n.key = k, n.now <= clock,
           NEW q \in Requests, NEW v \in ReqType, req' = [req EXCEPT ![q] = v],
           v.now <= clock, v.key = k, v.cost >= 1,
           v.pc = "wait" => v.done = r
    PROVE  IInv'
<1>1. /\ req' \in [Requests -> ReqType] /\ req'[q] = v
      /\ \A x \in Requests : x # q => req'[x] = req[x]
    BY DEF IInv, TypeOK
<1>2. /\ pool' \in [Keys -> PoolType] /\ pool'[k] = d
      /\ \A x \in Keys : x # k => pool'[x] = pool[x]
    BY DEF IInv, TypeOK
<1>3. /\ renewer' \in [Renewers -> RenewerType] /\ renewer'[r] = n
      /\ \A x \in Renewers : x # r => renewer'[x] = renewer[x]
    BY DEF IInv, TypeOK
<1>4. TypeOK'
    BY <1>1, <1>2, <1>3 DEF IInv, TypeOK
<1>5. \A x \in Keys : GoodPool(pool[x], clock)'
    BY <1>2 DEF IInv, GoodPool
<1>6. \A x \in Keys : Linked(x)'
  <2>1. Linked(k)'
      BY <1>2, <1>3, LimiterAssumption DEF Linked
  <2>2. ASSUME NEW x \in Keys, x # k PROVE Linked(x)'
    <3>1. Linked(x) /\ pool'[x] = pool[x] /\ pool[x].renewDone \in Renewers \cup {Nil}
        BY <1>2, <2>2 DEF IInv, TypeOK, PoolType
    <3>2. QED
        BY <1>3, <3>1 DEF Linked
  <2>3. QED
      BY <2>1, <2>2
<1>7. \A x \in Requests : RequestOK(x)'
  <2>1. RequestOK(q)'
      BY <1>1, <1>2, LimiterAssumption DEF RequestOK
  <2>2. ASSUME NEW x \in Requests, x # q PROVE RequestOK(x)'
    \* nobody can be waiting for a pool that was not renewing
    <3>1. RequestOK(x) /\ req'[x] = req[x]
        BY <1>1, <2>2 DEF IInv
    <3>2. req[x].pc # "idle" => req[x].key \in Keys
        BY DEF IInv, TypeOK
    <3>3. QED
        BY <1>2, <3>1, <3>2 DEF RequestOK
  <2>3. QED
      BY <2>1, <2>2
<1>8. \A x \in Renewers : RenewerOK(x)'
  <2>1. RenewerOK(r)'
      BY <1>2, <1>3 DEF RenewerOK
  <2>2. ASSUME NEW x \in Renewers, x # r PROVE RenewerOK(x)'
    <3>1. RenewerOK(x) /\ renewer'[x] = renewer[x]
        BY <1>3, <2>2 DEF IInv
    <3>2. renewer[x].pc # "idle" => renewer[x].key \in Keys
        BY DEF IInv, TypeOK
    <3>3. QED
        BY <1>2, <3>1, <3>2 DEF RenewerOK
  <2>3. QED
      BY <2>1, <2>2
<1>9. QED
    BY <1>4, <1>5, <1>6, <1>7, <1>8 DEF IInv

\* A step of one renewal that does not end it.
LEMMA RenewerStep ==
    ASSUME IInv, UNCHANGED <<clock, pool, req>>,
           NEW r \in Renewers, NEW n \in RenewerType, renewer' = [renewer EXCEPT ![r] = n],
           renewer[r].pc # "idle", n.pc # "idle", n.key = renewer[r].key, n.now <= clock
    PROVE  IInv'
<1>1. /\ renewer' \in [Renewers -> RenewerType] /\ renewer'[r] = n
      /\ \A x \in Renewers : x # r => renewer'[x] = renewer[x]
    BY DEF IInv, TypeOK
<1>2. \A x \in Renewers : renewer'[x].key = renewer[x].key
                         /\ (renewer'[x].pc = "idle") = (renewer[x].pc = "idle")
    BY <1>1
<1>3. TypeOK'
    BY <1>1, <1>2 DEF IInv, TypeOK
<1>4. \A k \in Keys : GoodPool(pool[k], clock)'
    BY DEF IInv, GoodPool
<1>5. ASSUME NEW k \in Keys PROVE Linked(k)'
  <2>1. Linked(k) /\ pool[k].renewDone \in Renewers \cup {Nil}
      BY DEF IInv, TypeOK, PoolType
  <2>2. QED
      BY <1>2, <2>1 DEF Linked
<1>6. \A q \in Requests : RequestOK(q)'
    BY DEF IInv, RequestOK
<1>7. \A x \in Renewers : RenewerOK(x)'
    BY <1>1, <1>2 DEF IInv, RenewerOK
<1>8. QED
    BY <1>3, <1>4, <1>5, <1>6, <1>7 DEF IInv

\* The step that ends a renewal: whoever waits for it is released.
LEMMA EndStep ==
    ASSUME IInv, clock' = clock,
           NEW r \in Renewers, renewer[r].pc # "idle",
           NEW k \in Keys, k = renewer[r].key,
           NEW d \in PoolType, pool' = [pool EXCEPT ![k] = d], GoodPool(d, clock),
           ~d.renewing, d.renewDone = Nil,
           renewer' = [renewer EXCEPT ![r] = IdleRenewer],
           CloseDone(pool[k])
    PROVE  IInv'
<1>1. /\ pool' \in [Keys -> PoolType] /\ pool'[k] = d
      /\ \A x \in Keys : x # k => pool'[x] = pool[x]
    BY DEF IInv, TypeOK
<1>2. IdleRenewer \in RenewerType /\ IdleRenewer.pc = "idle" /\ IdleRenewer.now = 0
    BY DEF IdleRenewer, RenewerType, NoAnswer, Answers
<1>3. /\ renewer' \in [Renewers -> RenewerType] /\ renewer'[r] = IdleRenewer
      /\ \A x \in Renewers : x # r => renewer'[x] = renewer[x]
    BY <1>2 DEF IInv, TypeOK
<1>4. pool[k].renewing /\ pool[k].renewDone = r /\ r # Nil /\ r # Closed
    BY LimiterAssumption DEF IInv, RenewerOK
<1>5. ASSUME NEW q \in Requests
      PROVE  /\ req'[q] \in ReqType
             /\ req'[q].pc = req[q].pc /\ req'[q].key = req[q].key
             /\ req'[q].now = req[q].now /\ req'[q].cost = req[q].cost
             /\ IF req[q].pc = "wait" /\ req[q].done = r
                THEN req'[q].done = Closed ELSE req'[q].done = req[q].done
  <2>1. req[q] \in ReqType
      BY DEF IInv, TypeOK
  <2>2. req'[q] = IF req[q].pc = "wait" /\ req[q].done = r
                  THEN [req[q] EXCEPT !.done = Closed] ELSE req[q]
      BY <1>4 DEF CloseDone
  <2>3. QED
      BY <2>1, <2>2 DEF ReqType
<1>6. req' \in [Requests -> ReqType]
    BY <1>5 DEF CloseDone
<1>7. TypeOK'
    BY <1>1, <1>2, <1>3, <1>5, <1>6 DEF IInv, TypeOK
<1>8. \A x \in Keys : GoodPool(pool[x], clock)'
    BY <1>1 DEF IInv, GoodPool
<1>9. ASSUME NEW x \in Keys PROVE Linked(x)'
  <2>1. CASE x = k
      BY <1>1, <2>1 DEF Linked
  <2>2. CASE x # k
    <3>1. Linked(x) /\ pool'[x] = pool[x] /\ pool[x].renewDone \in Renewers \cup {Nil}
        BY <1>1, <2>2 DEF IInv, TypeOK, PoolType
    <3>2. pool[x].renewing => pool[x].renewDone # r
        BY <2>2, <3>1 DEF Linked
    <3>3. QED
        BY <1>3, <3>1, <3>2 DEF Linked
  <2>3. QED
      BY <2>1, <2>2
<1>10. ASSUME NEW q \in Requests PROVE RequestOK(q)'
  <2>1. RequestOK(q) /\ (req[q].pc # "idle" => req[q].key \in Keys)
      BY DEF IInv, TypeOK
  <2>2. req[q].pc = "wait" /\ req[q].done # r /\ req[q].done # Closed => req[q].key # k
      BY <1>4, <2>1 DEF RequestOK
  <2>3. QED
      BY <1>1, <1>4, <1>5, <2>1, <2>2, LimiterAssumption DEF RequestOK
<1>11. ASSUME NEW x \in Renewers PROVE RenewerOK(x)'
  <2>1. CASE x = r
      BY <1>2, <1>3, <2>1 DEF RenewerOK, IInv, TypeOK
  <2>2. CASE x # r
    <3>1. RenewerOK(x) /\ renewer'[x] = renewer[x]
        BY <1>3, <2>2 DEF IInv
    <3>2. renewer[x].pc # "idle" => renewer[x].key \in Keys /\ renewer[x].key # k
        BY <1>4, <2>2, <3>1 DEF IInv, TypeOK, RenewerOK
    <3>3. QED
        BY <1>1, <3>1, <3>2 DEF RenewerOK
  <2>3. QED
      BY <2>1, <2>2
<1>12. QED
    BY <1>7, <1>8, <1>9, <1>10, <1>11 DEF IInv

\* The kill of a worker takes its pools, requests and renewals together.
LEMMA CrashStep ==
    ASSUME IInv, NEW w \in Workers, WorkerCrash(w)
    PROVE  IInv'
<1>1. /\ IdleRenewer \in RenewerType /\ IdleRenewer.pc = "idle" /\ IdleRenewer.now = 0
      /\ IdleReq \in ReqType /\ IdleReq.pc = "idle" /\ IdleReq.now = 0
    BY LimiterAssumption
    DEF IdleRenewer, RenewerType, NoAnswer, Answers, IdleReq, ReqType
<1>2. /\ NewPool \in PoolType /\ ~NewPool.renewing /\ NewPool.renewDone = Nil
      /\ GoodPool(NewPool, clock)
  <2>1. NewPool \in PoolType
      BY LimiterAssumption DEF NewPool, PoolType
  <2>2. 0 \in 0..LeaseSize /\ LeaseSize \in Nat
      BY LimiterAssumption
  <2>3. Reserve \in Nat \ {0}
      BY <2>2, WatermarkFacts
  <2>4. QED
      BY <2>1, <2>2, <2>3 DEF NewPool, GoodPool, IInv, TypeOK
<1>3. \A k \in Keys : pool'[k] = IF k[1] = w THEN NewPool ELSE pool[k]
    BY DEF WorkerCrash
<1>4. \A q \in Requests : req'[q] =
         IF req[q].pc # "idle" /\ req[q].key[1] = w THEN IdleReq ELSE req[q]
    BY DEF WorkerCrash
<1>5. \A r \in Renewers : renewer'[r] =
         IF renewer[r].pc # "idle" /\ renewer[r].key[1] = w THEN IdleRenewer ELSE renewer[r]
    BY DEF WorkerCrash
<1>6. clock' = clock
    BY DEF WorkerCrash
<1>7. TypeOK'
  <2>1. pool' \in [Keys -> PoolType]
      BY <1>2 DEF WorkerCrash, IInv, TypeOK
  <2>2. req' \in [Requests -> ReqType]
      BY <1>1 DEF WorkerCrash, IInv, TypeOK
  <2>3. renewer' \in [Renewers -> RenewerType]
      BY <1>1 DEF WorkerCrash, IInv, TypeOK
  <2>4. QED
      BY <1>1, <1>4, <1>5, <1>6, <2>1, <2>2, <2>3 DEF IInv, TypeOK
<1>8. \A k \in Keys : GoodPool(pool[k], clock)'
    BY <1>2, <1>3, <1>6 DEF IInv, GoodPool
<1>9. ASSUME NEW k \in Keys PROVE Linked(k)'
  <2>1. Linked(k) /\ pool[k].renewDone \in Renewers \cup {Nil}
      BY DEF IInv, TypeOK, PoolType
  <2>2. QED
      BY <1>2, <1>3, <1>5, <2>1 DEF Linked
<1>10. ASSUME NEW q \in Requests PROVE RequestOK(q)'
  <2>1. RequestOK(q) /\ (req[q].pc # "idle" => req[q].key \in Keys) /\ clock \in Nat
      BY DEF IInv, TypeOK
  <2>2. QED
      BY <1>1, <1>3, <1>4, <1>6, <2>1 DEF RequestOK
<1>11. ASSUME NEW r \in Renewers PROVE RenewerOK(r)'
  <2>1. RenewerOK(r) /\ (renewer[r].pc # "idle" => renewer[r].key \in Keys) /\ clock \in Nat
      BY DEF IInv, TypeOK
  <2>2. QED
      BY <1>1, <1>3, <1>5, <1>6, <2>1 DEF RenewerOK
<1>12. QED
    BY <1>7, <1>8, <1>9, <1>10, <1>11 DEF IInv

\* Time passes: a promise that has been kept stays kept.
LEMMA TickStep ==
    ASSUME IInv, Tick
    PROVE  IInv'
<1>1. /\ clock \in Nat /\ clock' = clock + 1
      /\ pool' = pool /\ req' = req /\ renewer' = renewer
    BY DEF IInv, TypeOK, Tick
<1>2. TypeOK'
    BY <1>1 DEF IInv, TypeOK
<1>3. ASSUME NEW k \in Keys PROVE GoodPool(pool[k], clock)'
  <2>1. GoodPool(pool[k], clock) /\ pool[k].nextTry \in Nat /\ pool[k].unknownUntil \in Nat
      BY DEF IInv, TypeOK, PoolType
  <2>2. QED
      BY <1>1, <2>1 DEF GoodPool
<1>4. \A k \in Keys : Linked(k)'
    BY <1>1 DEF IInv, Linked
<1>5. ASSUME NEW q \in Requests PROVE RequestOK(q)'
  <2>1. RequestOK(q) /\ req[q].now \in Nat
      BY DEF IInv, TypeOK, ReqType
  <2>2. QED
      BY <1>1, <2>1 DEF RequestOK
<1>6. ASSUME NEW r \in Renewers PROVE RenewerOK(r)'
  <2>1. RenewerOK(r) /\ renewer[r].now \in Nat
      BY DEF IInv, TypeOK, RenewerType
  <2>2. QED
      BY <1>1, <2>1 DEF RenewerOK
<1>7. QED
    BY <1>2, <1>3, <1>4, <1>5, <1>6 DEF IInv

-----------------------------------------------------------------------------
(* The critical sections *)

\* What Proceed leaves of the request that decided.
LEMMA ProceedFacts ==
    ASSUME IInv, NEW q \in Requests, req[q].pc = "lock",
           NEW p \in PoolType, NEW admitted \in BOOLEAN, Proceed(q, p, admitted)
    PROVE  \E v \in ReqType :
             /\ req' = [req EXCEPT ![q] = v]
             /\ v.now = req[q].now /\ v.key = req[q].key /\ v.cost = req[q].cost
             /\ v.pc = "wait" => v.done = p.renewDone /\ v.done # Nil /\ p.renewing
<1>1. req[q] \in ReqType /\ clock \in Nat /\ WaitForLease \in Nat
    BY LimiterAssumption DEF IInv, TypeOK
<1>2. PICK until \in Nat : until = clock + WaitForLease
    BY <1>1
<1>3. CASE CanWait(p, req[q].now, admitted) /\ p.renewDone # Nil
  <2> DEFINE v == [req[q] EXCEPT !.pc = "wait", !.done = p.renewDone, !.until = until]
  <2>1. req' = [req EXCEPT ![q] = v]
      BY <1>2, <1>3 DEF Proceed
  <2>2. v \in ReqType
      BY <1>1, <1>2 DEF ReqType, PoolType
  <2>3. /\ v.now = req[q].now /\ v.key = req[q].key /\ v.cost = req[q].cost
        /\ v.done = p.renewDone
      BY <1>1 DEF ReqType
  <2>4. p.renewing
      BY <1>3 DEF CanWait
  <2> HIDE DEF v
  <2>5. QED
      BY <1>3, <2>1, <2>2, <2>3, <2>4
<1>4. CASE ~(CanWait(p, req[q].now, admitted) /\ p.renewDone # Nil)
  <2> DEFINE v == [req[q] EXCEPT !.pc = "count", !.admitted = admitted]
  <2>1. req' = [req EXCEPT ![q] = v]
      BY <1>4 DEF Proceed
  <2>2. v \in ReqType
      BY <1>1 DEF ReqType
  <2>3. /\ v.now = req[q].now /\ v.key = req[q].key /\ v.cost = req[q].cost
        /\ v.pc = "count"
      BY <1>1 DEF ReqType
  <2> HIDE DEF v
  <2>4. QED
      BY <2>1, <2>2, <2>3
<1>5. QED
    BY <1>3, <1>4

\* What a request that is not idle knows of its pool.
LEMMA Locals ==
    ASSUME IInv, NEW q \in Requests, req[q].pc # "idle"
    PROVE  \E k \in Keys, p \in PoolType, now \in Nat, cost \in 1..MaxCost :
             /\ k = req[q].key /\ p = pool[k] /\ now = req[q].now /\ cost = req[q].cost
             /\ clock \in Nat /\ now <= clock /\ GoodPool(p, clock)
<1>1. /\ req[q].key \in Keys /\ req[q].now \in Nat /\ req[q].cost \in 0..MaxCost
      /\ req[q].cost >= 1 /\ req[q].now <= clock /\ clock \in Nat
    BY DEF IInv, TypeOK, ReqType, RequestOK
<1>2. pool[req[q].key] \in PoolType /\ GoodPool(pool[req[q].key], clock)
    BY <1>1 DEF IInv, TypeOK
<1>3. QED
    BY <1>1, <1>2, LimiterAssumption

LEMMA CheckLockedStep ==
    ASSUME IInv, NEW q \in Requests, CheckLocked(q)
    PROVE  IInv'
<1>1. req[q].pc = "lock"
    BY DEF CheckLocked
<1>2. PICK k \in Keys, p \in PoolType, now \in Nat, cost \in 1..MaxCost :
        /\ k = req[q].key /\ p = pool[k] /\ now = req[q].now /\ cost = req[q].cost
        /\ clock \in Nat /\ now <= clock /\ GoodPool(p, clock)
    BY <1>1, Locals
<1>3. PICK c \in Nat : c = clock
    BY <1>2
<1>4. GoodPool(p, c) /\ now <= c /\ now >= p.unknownUntil
    BY <1>2, <1>3 DEF CheckLocked
<1>5. PICK d \in PoolType :
        /\ d = Decided(p, now, cost) /\ GoodPool(d, c)
        /\ d.renewing = p.renewing /\ d.renewDone = p.renewDone
    BY <1>4, DecidedFacts
<1> DEFINE ok == Admitted(p, now, cost)
<1>6. ok \in BOOLEAN
    BY DEF Admitted, Admits
<1>7. /\ pool' = [pool EXCEPT ![k] = d] /\ Proceed(q, d, ok) /\ UNCHANGED <<clock, renewer>>
    BY <1>2, <1>5, <1>6 DEF CheckLocked
<1> HIDE DEF ok
<1>8. PICK v \in ReqType :
             /\ req' = [req EXCEPT ![q] = v]
             /\ v.now = req[q].now /\ v.key = req[q].key /\ v.cost = req[q].cost
             /\ v.pc = "wait" => v.done = d.renewDone /\ v.done # Nil /\ d.renewing
    BY <1>1, <1>6, <1>7, ProceedFacts
<1>9. GoodPool(d, clock) /\ v.now <= clock /\ v.key = k /\ v.cost >= 1
    BY <1>2, <1>3, <1>5, <1>8
<1>10. QED
    BY <1>2, <1>5, <1>7, <1>8, <1>9, PoolStep

LEMMA CheckRenewStep ==
    ASSUME IInv, NEW q \in Requests, NEW r \in Renewers, CheckRenew(q, r)
    PROVE  IInv'
<1>1. req[q].pc = "lock"
    BY DEF CheckRenew
<1>2. PICK k \in Keys, p \in PoolType, now \in Nat, cost \in 1..MaxCost :
        /\ k = req[q].key /\ p = pool[k] /\ now = req[q].now /\ cost = req[q].cost
        /\ clock \in Nat /\ now <= clock /\ GoodPool(p, clock)
    BY <1>1, Locals
<1>3. PICK c \in Nat : c = clock
    BY <1>2
<1>4. GoodPool(p, c) /\ now <= c /\ now >= p.unknownUntil
    BY <1>2, <1>3 DEF CheckRenew
<1>5. ShouldRenewLocked(Decided(p, now, cost), now, ~Admitted(p, now, cost))
    BY <1>2 DEF CheckRenew
<1>6. PICK d \in PoolType :
        /\ d = BeginRenew(Decided(p, now, cost), r) /\ GoodPool(d, c)
        /\ d.renewing /\ d.renewDone = r /\ ~p.renewing
    BY <1>4, <1>5, DecidedFacts
<1> DEFINE ok == Admitted(p, now, cost)
<1>7. ok \in BOOLEAN
    BY DEF Admitted, Admits
<1>8. /\ pool' = [pool EXCEPT ![k] = d] /\ Proceed(q, d, ok) /\ clock' = clock
      /\ renewer[r].pc = "idle"
      /\ renewer' = [renewer EXCEPT ![r] = [IdleRenewer EXCEPT !.pc = "call", !.key = k]]
    BY <1>2, <1>6, <1>7 DEF CheckRenew
<1> HIDE DEF ok
<1> DEFINE n == [IdleRenewer EXCEPT !.pc = "call", !.key = k]
<1>9. n \in RenewerType /\ n.pc = "call" /\ n.key = k /\ n.now = 0
    BY DEF IdleRenewer, RenewerType, NoAnswer, Answers
<1>10. n.pc # "idle" /\ renewer' = [renewer EXCEPT ![r] = n]
    BY <1>8, <1>9
<1> HIDE DEF n
<1>11. PICK v \in ReqType :
             /\ req' = [req EXCEPT ![q] = v]
             /\ v.now = req[q].now /\ v.key = req[q].key /\ v.cost = req[q].cost
             /\ v.pc = "wait" => v.done = d.renewDone /\ v.done # Nil /\ d.renewing
    BY <1>1, <1>7, <1>8, ProceedFacts
<1>12. GoodPool(d, clock) /\ v.now <= clock /\ v.key = k /\ v.cost >= 1 /\ n.now <= clock
    BY <1>2, <1>3, <1>6, <1>9, <1>11
<1>13. v.pc = "wait" => v.done = r
    BY <1>6, <1>11
<1>14. clock' = clock /\ pool' = [pool EXCEPT ![k] = d] /\ renewer[r].pc = "idle"
    BY <1>8
<1>15. ~pool[k].renewing /\ d.renewing /\ d.renewDone = r
    BY <1>2, <1>6
<1>16. req' = [req EXCEPT ![q] = v]
    BY <1>11
<1>17. n \in RenewerType /\ n.key = k
    BY <1>9
<1>18. QED
    BY <1>12, <1>13, <1>10, <1>14, <1>15, <1>16, <1>17, BeginStep

LEMMA WokenLockedStep ==
    ASSUME IInv, NEW q \in Requests, WokenLocked(q)
    PROVE  IInv'
<1>1. req[q].pc = "relock" /\ req[q] \in ReqType
    BY DEF WokenLocked, IInv, TypeOK
<1>2. PICK k \in Keys, p \in PoolType, now \in Nat, cost \in 1..MaxCost :
        /\ k = req[q].key /\ p = pool[k] /\ now = req[q].now /\ cost = req[q].cost
        /\ clock \in Nat /\ now <= clock /\ GoodPool(p, clock)
    BY <1>1, Locals
<1> DEFINE ok == AdmitsWoken(p, now, cost)
           v == [req[q] EXCEPT !.pc = "count", !.admitted = ok]
           d == Debited(p, cost)
<1>3. ok \in BOOLEAN /\ (ok => p.tokens >= cost)
    BY DEF AdmitsWoken
<1>4. /\ req' = [req EXCEPT ![q] = v] /\ UNCHANGED <<clock, renewer>>
      /\ pool' = IF ok THEN [pool EXCEPT ![k] = d] ELSE pool
    BY <1>2 DEF WokenLocked
<1> HIDE DEF ok
<1>5. /\ v \in ReqType /\ v.pc = "count"
      /\ v.key = req[q].key /\ v.now = req[q].now /\ v.cost = req[q].cost
    BY <1>1, <1>3 DEF ReqType
<1> HIDE DEF v
<1>6. v.now <= clock /\ v.key = k /\ v.cost >= 1 /\ v.pc # "wait"
    BY <1>2, <1>5
<1>7. CASE ok
  <2>1. PICK c \in Nat : c = clock
      BY <1>2
  <2>2. GoodPool(p, c)
      BY <1>2, <2>1
  <2>3. /\ d \in PoolType /\ GoodPool(d, c)
        /\ d.renewing = p.renewing /\ d.renewDone = p.renewDone
      BY <1>3, <1>7, <2>2, WokenFacts
  <2> HIDE DEF d
  <2>4. GoodPool(d, clock) /\ pool' = [pool EXCEPT ![k] = d]
      BY <1>4, <1>7, <2>1, <2>3
  <2>5. QED
      BY <1>2, <1>4, <1>5, <1>6, <2>3, <2>4, PoolStep
<1>8. CASE ~ok
    BY <1>4, <1>5, <1>6, <1>8, RequestStep
<1>9. QED
    BY <1>7, <1>8

LEMMA RenewLockedStep ==
    ASSUME IInv, NEW r \in Renewers, RenewLocked(r)
    PROVE  IInv'
<1>1. renewer[r].pc # "idle" /\ renewer[r] \in RenewerType
    BY DEF RenewLocked, IInv, TypeOK
<1>2. PICK k \in Keys : k = renewer[r].key
    BY <1>1 DEF IInv, TypeOK
<1>3. PICK p \in PoolType, now \in Nat, c \in Nat :
        p = pool[k] /\ now = renewer[r].now /\ c = clock
    BY <1>1 DEF IInv, TypeOK, RenewerType
<1>4. now <= c /\ p.renewing /\ GoodPool(p, c)
    BY <1>1, <1>2, <1>3 DEF IInv, RenewerOK
<1>5. PICK a \in Answers : a = renewer[r].answer
    BY <1>1 DEF RenewerType
<1>6. (a.kind = "grant" => a.tokens \in Grants) /\ (a.kind = "zero" => a.retryAfter \in Hints)
    BY DEF Answers
<1>7. \/ pool' = [pool EXCEPT ![k] = RenewUnknown(p, now)]
      \/ \E delay \in Jittered(NextBackoff(p.backoff)) :
           pool' = [pool EXCEPT ![k] = RenewError(p, now, delay)]
      \/ \E hint \in Hints : pool' = [pool EXCEPT ![k] = RenewZero(p, now, hint)]
      \/ \E tokens \in Grants : pool' = [pool EXCEPT ![k] = RenewGrant(p, now, tokens)]
    BY <1>2, <1>3, <1>5, <1>6 DEF RenewLocked
<1>8. PICK d \in Outcomes(p, now) : pool' = [pool EXCEPT ![k] = d]
    BY <1>7 DEF Outcomes
<1>9. d \in PoolType /\ GoodPool(d, c) /\ ~d.renewing /\ d.renewDone = Nil
    BY <1>4, RenewFacts
<1>10. /\ CloseDone(pool[k]) /\ clock' = clock
       /\ renewer' = [renewer EXCEPT ![r] = IdleRenewer]
    BY <1>2 DEF RenewLocked
<1>11. GoodPool(d, clock)
    BY <1>3, <1>9
<1>12. QED
    BY <1>1, <1>2, <1>8, <1>9, <1>10, <1>11, EndStep

\* The steps of a request that touch no pool.
LEMMA QuietStep ==
    ASSUME IInv, NEW q \in Requests,
           \/ \E k \in Keys, cost \in Costs : CheckStart(q, k, cost)
           \/ CheckUnknown(q) \/ WaitDone(q) \/ WaitTimeout(q)
           \/ WokenUnknown(q) \/ CheckReturn(q)
    PROVE  IInv'
<1>1. req[q] \in ReqType /\ clock \in Nat /\ UNCHANGED <<clock, pool, renewer>>
    BY DEF IInv, TypeOK, CheckStart, CheckUnknown, WaitDone, WaitTimeout, WokenUnknown,
           CheckReturn
<1>2. req[q].now <= clock /\ (req[q].pc # "idle" => req[q].cost >= 1 /\ req[q].key \in Keys)
    BY DEF IInv, TypeOK, RequestOK
<1>3. ASSUME NEW k \in Keys, NEW cost \in Costs, CheckStart(q, k, cost)
      PROVE  IInv'
  <2>1. PICK n \in 1..MaxCost : n = IF cost < 1 THEN 1 ELSE cost
      BY LimiterAssumption
  <2> DEFINE v == [req[q] EXCEPT !.pc = "lock", !.key = k, !.cost = n, !.now = clock]
  <2>2. req' = [req EXCEPT ![q] = v]
      BY <1>3, <2>1 DEF CheckStart
  <2>3. n \in 0..MaxCost
      BY <2>1
  <2>4. v \in ReqType
      BY <1>1, <2>3 DEF ReqType
  <2>5. v.pc = "lock" /\ v.key = k /\ v.cost = n /\ v.now = clock
      BY <1>1 DEF ReqType
  <2> HIDE DEF v
  <2>6. v.now <= clock /\ v.key \in Keys /\ v.cost >= 1 /\ v.pc # "wait"
      BY <1>1, <2>1, <2>5
  <2>7. QED
      BY <1>1, <2>2, <2>4, <2>6, RequestStep
<1>4. CASE CheckUnknown(q) \/ WokenUnknown(q) \/ CheckReturn(q)
  <2>1. IdleReq \in ReqType /\ IdleReq.pc = "idle" /\ IdleReq.now = 0
      BY LimiterAssumption DEF IdleReq, ReqType
  <2>2. req' = [req EXCEPT ![q] = IdleReq]
      BY <1>4 DEF CheckUnknown, WokenUnknown, CheckReturn
  <2>3. IdleReq.now <= clock /\ IdleReq.pc # "wait"
      BY <1>1, <2>1
  <2>4. QED
      BY <1>1, <2>1, <2>2, <2>3, RequestStep
<1>5. CASE WaitDone(q)
  <2> DEFINE v == [req[q] EXCEPT !.pc = "relock", !.now = clock, !.done = Nil]
  <2>1. req' = [req EXCEPT ![q] = v]
      BY <1>5 DEF WaitDone
  <2>2. v \in ReqType
      BY <1>1 DEF ReqType
  <2>3. v.pc = "relock" /\ v.key = req[q].key /\ v.cost = req[q].cost /\ v.now = clock
      BY <1>1 DEF ReqType
  <2> HIDE DEF v
  <2>4. req[q].pc # "idle"
      BY <1>5 DEF WaitDone
  <2>5. v.now <= clock /\ v.key \in Keys /\ v.cost >= 1 /\ v.pc # "wait"
      BY <1>1, <1>2, <2>3, <2>4
  <2>6. QED
      BY <1>1, <2>1, <2>2, <2>5, RequestStep
<1>6. CASE WaitTimeout(q)
  <2> DEFINE v == [req[q] EXCEPT !.pc = "count", !.done = Nil]
  <2>1. req' = [req EXCEPT ![q] = v]
      BY <1>6 DEF WaitTimeout
  <2>2. v \in ReqType
      BY <1>1 DEF ReqType
  <2>3. v.pc = "count" /\ v.key = req[q].key /\ v.cost = req[q].cost /\ v.now = req[q].now
      BY <1>1 DEF ReqType
  <2> HIDE DEF v
  <2>4. req[q].pc # "idle"
      BY <1>6 DEF WaitTimeout
  <2>5. v.now <= clock /\ v.key \in Keys /\ v.cost >= 1 /\ v.pc # "wait"
      BY <1>2, <2>3, <2>4
  <2>6. QED
      BY <1>1, <2>1, <2>2, <2>5, RequestStep
<1>7. QED
    BY <1>3, <1>4, <1>5, <1>6

\* The steps of a renewal before its critical section.
LEMMA CallStep ==
    ASSUME IInv, NEW r \in Renewers, NEW a \in Answers, RenewCall(r) \/ LeaseReturn(r, a)
    PROVE  IInv'
<1>1. /\ renewer[r] \in RenewerType /\ clock \in Nat /\ UNCHANGED <<clock, pool, req>>
      /\ renewer[r].now <= clock
    BY DEF IInv, TypeOK, RenewCall, LeaseReturn, RenewerOK
<1>2. renewer[r].pc # "idle"
    BY DEF RenewCall, LeaseReturn
<1>3. CASE RenewCall(r)
  <2> DEFINE n == [renewer[r] EXCEPT !.pc = "lease"]
  <2>1. renewer' = [renewer EXCEPT ![r] = n]
      BY <1>3 DEF RenewCall
  <2>2. n \in RenewerType
      BY <1>1 DEF RenewerType
  <2>3. n.pc = "lease" /\ n.key = renewer[r].key /\ n.now = renewer[r].now
      BY <1>1 DEF RenewerType
  <2> HIDE DEF n
  <2>4. n.pc # "idle" /\ n.now <= clock
      BY <1>1, <2>3
  <2>5. QED
      BY <1>1, <1>2, <2>1, <2>2, <2>3, <2>4, RenewerStep
<1>4. CASE LeaseReturn(r, a)
  <2> DEFINE n == [renewer[r] EXCEPT !.pc = "lock", !.answer = a, !.now = clock]
  <2>1. renewer' = [renewer EXCEPT ![r] = n]
      BY <1>4 DEF LeaseReturn
  <2>2. n \in RenewerType
      BY <1>1 DEF RenewerType
  <2>3. n.pc = "lock" /\ n.key = renewer[r].key /\ n.now = clock
      BY <1>1 DEF RenewerType
  <2> HIDE DEF n
  <2>4. n.pc # "idle" /\ n.now <= clock
      BY <1>1, <2>3
  <2>5. QED
      BY <1>1, <1>2, <2>1, <2>2, <2>3, <2>4, RenewerStep
<1>5. QED
    BY <1>3, <1>4

-----------------------------------------------------------------------------
(* Theorems *)

\* The workers start with empty pools and no goroutine.
LEMMA InitOK == Init => IInv
<1> SUFFICES ASSUME Init PROVE IInv
    OBVIOUS
<1>1. /\ IdleRenewer \in RenewerType /\ IdleRenewer.pc = "idle" /\ IdleRenewer.now = 0
      /\ IdleReq \in ReqType /\ IdleReq.pc = "idle" /\ IdleReq.now = 0
    BY LimiterAssumption
    DEF IdleRenewer, RenewerType, NoAnswer, Answers, IdleReq, ReqType
<1>2. NewPool \in PoolType /\ ~NewPool.renewing /\ NewPool.renewDone = Nil
    BY LimiterAssumption DEF NewPool, PoolType
<1>3. 0 \in 0..LeaseSize /\ LeaseSize \in Nat
    BY LimiterAssumption
<1>4. Reserve \in Nat \ {0}
    BY <1>3, WatermarkFacts
<1>5. GoodPool(NewPool, 1)
    BY <1>3, <1>4 DEF NewPool, GoodPool
<1>6. TypeOK
    BY <1>1, <1>2 DEF Init, TypeOK
<1>7. \A k \in Keys : GoodPool(pool[k], clock)
    BY <1>5 DEF Init
<1>8. \A k \in Keys : Linked(k)
    BY <1>2 DEF Init, Linked
<1>9. \A q \in Requests : RequestOK(q)
    BY <1>1 DEF Init, RequestOK
<1>10. \A r \in Renewers : RenewerOK(r)
    BY <1>1 DEF Init, RenewerOK
<1>11. QED
    BY <1>6, <1>7, <1>8, <1>9, <1>10 DEF IInv

\* Every step of a worker keeps the invariant.
LEMMA StepOK ==
    ASSUME IInv, [Next]_vars
    PROVE  IInv'
<1>1. ASSUME NEW q \in Requests, NEW k \in Keys, NEW cost \in Costs, CheckStart(q, k, cost)
      PROVE  IInv'
    BY <1>1, QuietStep
<1>2. ASSUME NEW q \in Requests, CheckStep(q) PROVE IInv'
  <2>1. CASE \/ CheckUnknown(q) \/ WaitDone(q) \/ WaitTimeout(q)
             \/ WokenUnknown(q) \/ CheckReturn(q)
      BY <2>1, QuietStep
  <2>2. CASE CheckLocked(q)
      BY <2>2, CheckLockedStep
  <2>3. ASSUME NEW r \in Renewers, CheckRenew(q, r) PROVE IInv'
      BY <2>3, CheckRenewStep
  <2>4. CASE WokenLocked(q)
      BY <2>4, WokenLockedStep
  <2>5. QED
      BY <1>2, <2>1, <2>2, <2>3, <2>4 DEF CheckStep
<1>3. ASSUME NEW r \in Renewers, RenewCall(r) PROVE IInv'
  <2>1. NoAnswer \in Answers
      BY DEF NoAnswer, Answers
  <2>2. QED
      BY <1>3, <2>1, CallStep
<1>4. ASSUME NEW r \in Renewers, RenewLocked(r) PROVE IInv'
    BY <1>4, RenewLockedStep
<1>5. ASSUME NEW r \in Renewers, NEW a \in Answers, LeaseReturn(r, a) PROVE IInv'
    BY <1>5, CallStep
<1>6. ASSUME NEW w \in Workers, WorkerCrash(w) PROVE IInv'
    BY <1>6, CrashStep
<1>7. CASE Tick
    BY <1>7, TickStep
<1>8. CASE UNCHANGED vars
    BY <1>8 DEF vars, IInv, TypeOK, GoodPool, Linked, RequestOK, RenewerOK
<1>9. QED
    BY <1>1, <1>2, <1>3, <1>4, <1>5, <1>6, <1>7, <1>8 DEF Next

\* The invariant on which the others rest: every pool is good, linked to at
\* most one renewal, and every waiter to the renewal that will release it.
THEOREM Inductive == Spec => []IInv
    BY InitOK, StepOK, PTL DEF Spec

\* Every variable keeps its type, whatever answers and kills occur.
THEOREM TypeCorrect == Spec => []TypeOK
<1>1. IInv => TypeOK
    BY DEF IInv
<1>2. QED
    BY <1>1, Inductive, PTL

\* shouldRenewLocked and renew keep at most one lease call in flight per
\* pool, and never leave the renewing flag set without one.
THEOREM SingleflightGuaranteed == Spec => []Singleflight
<1>1. IInv => Singleflight
    BY DEF IInv, Singleflight, Linked, RenewerOK
<1>2. QED
    BY <1>1, Inductive, PTL

\* The channel a request waits on is the one its pool's renewal will close.
THEOREM NoWakeupLost == Spec => []NoLostWakeup
<1>1. IInv => NoLostWakeup
    BY DEF IInv, NoLostWakeup, RequestOK
<1>2. QED
    BY <1>1, Inductive, PTL

\* No pool holds more than a lease and the reserve, for every lease size,
\* largest cost and grant history.
THEOREM PoolBounded == Spec => []PoolBound
<1>1. IInv => PoolBound
    BY DEF IInv, PoolBound, GoodPool
<1>2. QED
    BY <1>1, Inductive, PTL

\* While the negative cache holds a tenant its pool is empty and silent.
THEOREM UnknownQuiet == Spec => []NegativeCacheQuiet
<1>1. IInv => NegativeCacheQuiet
    BY DEF IInv, NegativeCacheQuiet, GoodPool
<1>2. QED
    BY <1>1, Inductive, PTL

\* No lease call starts before the instant that pacing or backoff recorded.
THEOREM PacingKept == Spec => []PacingHonoured
<1>1. IInv => PacingHonoured
    BY DEF IInv, PacingHonoured, GoodPool
<1>2. QED
    BY <1>1, Inductive, PTL
-----------------------------------------------------------------------------
(* The starvation guard *)

\* Dropping and spending touch the tokens alone.
LEMMA DecidedPacing ==
    ASSUME NEW p \in PoolType, NEW now \in Nat, NEW cost \in 1..MaxCost
    PROVE  LET d == Decided(p, now, cost)
           IN  d.renewing = p.renewing /\ d.nextTry = p.nextTry
<1> DEFINE e == DropExpired(p, now)
<1>1. e \in PoolType /\ e.renewing = p.renewing /\ e.nextTry = p.nextTry
    BY DEF DropExpired, PoolType
<1> HIDE DEF e
<1>2. Spend(e, cost).renewing = e.renewing /\ Spend(e, cost).nextTry = e.nextTry
    BY <1>1 DEF Spend, Debited, PoolType
<1>3. QED
    BY <1>1, <1>2 DEF Decided, e

\* A request that goes on to count is not admitted only if it was refused.
LEMMA ProceedCounts ==
    ASSUME IInv, NEW q \in Requests, NEW p, NEW admitted \in BOOLEAN, Proceed(q, p, admitted),
           req'[q].pc = "count"
    PROVE  req'[q].admitted = admitted
<1>1. req[q] \in ReqType /\ req \in [Requests -> ReqType]
    BY DEF IInv, TypeOK
<1> DEFINE w == [req[q] EXCEPT !.pc = "wait", !.done = p.renewDone,
                               !.until = clock + WaitForLease]
           v == [req[q] EXCEPT !.pc = "count", !.admitted = admitted]
<1>2. w.pc = "wait" /\ v.admitted = admitted
    BY <1>1 DEF ReqType
<1>3. req'[q] = w \/ req'[q] = v
    BY <1>1 DEF Proceed
<1> HIDE DEF w, v
<1>4. QED
    BY <1>2, <1>3

\* A step of the others, and one that makes no decision, leaves a request at
\* its mutex or ends it.
LEMMA LockLeft ==
    ASSUME IInv, [Next]_vars, NEW q \in Requests, req[q].pc = "lock",
           req'[q].pc \in {"wait", "count"}
    PROVE  CheckLocked(q) \/ \E r \in Renewers : CheckRenew(q, r)
<1>1. req \in [Requests -> ReqType]
    BY DEF IInv, TypeOK
<1>2. ASSUME NEW x \in Requests, NEW v, req' = [req EXCEPT ![x] = v] PROVE x = q
    BY <1>1, <1>2
<1>3. ~(req' = req)
    OBVIOUS
<1>4. ASSUME NEW x \in Requests, NEW k \in Keys, NEW c \in Costs, CheckStart(x, k, c)
      PROVE  FALSE
  <2>1. x = q
      BY <1>1, <1>4 DEF CheckStart
  <2>2. QED
      BY <1>4, <2>1 DEF CheckStart
<1>5. ASSUME NEW x \in Requests, CheckStep(x)
      PROVE  CheckLocked(q) \/ \E r \in Renewers : CheckRenew(q, r)
  <2>1. x = q
      BY <1>1, <1>5 DEF CheckStep, CheckUnknown, CheckLocked, CheckRenew, Proceed, WaitDone,
                        WaitTimeout, WokenUnknown, WokenLocked, CheckReturn
  <2>2. ~CheckUnknown(q)
      BY <1>1 DEF CheckUnknown, IdleReq
  <2>3. QED
      BY <1>5, <2>1, <2>2 DEF CheckStep, WaitDone, WaitTimeout, WokenUnknown, WokenLocked,
                              CheckReturn
<1>6. ASSUME NEW r \in Renewers, RenewCall(r) PROVE FALSE
    BY <1>3, <1>6 DEF RenewCall
<1>7. ASSUME NEW r \in Renewers, RenewLocked(r) PROVE FALSE
    BY <1>7 DEF RenewLocked, CloseDone
<1>8. ASSUME NEW r \in Renewers, NEW a \in Answers, LeaseReturn(r, a) PROVE FALSE
    BY <1>3, <1>8 DEF LeaseReturn
<1>9. ASSUME NEW w \in Workers, WorkerCrash(w) PROVE FALSE
    BY <1>9 DEF WorkerCrash, IdleReq
<1>10. ~Tick /\ ~(UNCHANGED vars)
    BY <1>3 DEF Tick, vars
<1>11. QED
    BY <1>4, <1>5, <1>6, <1>7, <1>8, <1>9, <1>10 DEF Next

\* The starvation guard of shouldRenewLocked: a Check that finds too few
\* tokens leaves a renewal in flight unless pacing forbids one, for every
\* cost and watermark.
THEOREM ShortfallAlwaysRenews == Spec => ShortfallRenews
<1>1. ASSUME IInv, [Next]_vars, NEW q \in Requests, req[q].pc = "lock",
             req'[q].pc \in {"wait", "count"}, ~req'[q].admitted
      PROVE  \/ pool'[req[q].key].renewing
             \/ req[q].now < pool[req[q].key].nextTry
  <2>1. PICK k \in Keys, p \in PoolType, now \in Nat, cost \in 1..MaxCost :
          /\ k = req[q].key /\ p = pool[k] /\ now = req[q].now /\ cost = req[q].cost
      BY <1>1, Locals
  <2> DEFINE d == Decided(p, now, cost)
             ok == Admitted(p, now, cost)
  <2>2. ok \in BOOLEAN
      BY DEF Admitted, Admits
  <2>3. d.renewing = p.renewing /\ d.nextTry = p.nextTry
      BY DecidedPacing
  <2>4. pool \in [Keys -> PoolType]
      BY <1>1 DEF IInv, TypeOK
  <2>5. CASE CheckLocked(q)
    <3>1. /\ ~ShouldRenewLocked(d, now, ~ok) /\ pool' = [pool EXCEPT ![k] = d]
          /\ Proceed(q, d, ok) /\ now >= p.unknownUntil
        BY <2>1, <2>5 DEF CheckLocked
    <3>2. pool'[k] = d
        BY <2>4, <3>1
    <3>3. d \in PoolType
      <4>1. GoodPool(p, clock) /\ now <= clock /\ clock \in Nat
          BY <1>1, <2>1, Locals DEF IInv, TypeOK, RequestOK
      <4>2. QED
          BY <3>1, <4>1, DecidedFacts
    <3> HIDE DEF d, ok
    <3>4. CASE req'[q].pc = "wait"
      <4>1. PICK v \in ReqType : /\ req' = [req EXCEPT ![q] = v]
                                 /\ v.pc = "wait" => d.renewing
          BY <1>1, <2>2, <3>1, <3>3, ProceedFacts
      <4>2. d.renewing
          BY <1>1, <3>4, <4>1 DEF IInv, TypeOK
      <4>3. QED
          BY <2>1, <3>2, <4>2
    <3>5. CASE req'[q].pc = "count"
      <4>1. ~ok
          BY <1>1, <2>2, <3>1, <3>5, ProceedCounts
      <4>2. d.renewing \/ ~(now >= d.nextTry)
          BY <3>1, <4>1 DEF ShouldRenewLocked
      <4>3. CASE d.renewing
          BY <2>1, <3>2, <4>3
      <4>4. CASE ~(now >= d.nextTry)
        <5>1. now < p.nextTry
            BY <2>3, <4>4 DEF PoolType
        <5>2. QED
            BY <2>1, <5>1
      <4>5. QED
          BY <4>2, <4>3, <4>4
    <3>6. QED
        BY <1>1, <3>4, <3>5
  <2>6. ASSUME NEW r \in Renewers, CheckRenew(q, r) PROVE pool'[req[q].key].renewing
    <3>1. /\ pool' = [pool EXCEPT ![k] = BeginRenew(d, r)] /\ now >= p.unknownUntil
          /\ ShouldRenewLocked(d, now, ~ok)
        BY <2>1, <2>6 DEF CheckRenew
    <3>2. GoodPool(p, clock) /\ now <= clock /\ clock \in Nat
        BY <1>1, <2>1, Locals DEF IInv, TypeOK, RequestOK
    <3>3. BeginRenew(d, r).renewing
        BY <3>1, <3>2, DecidedFacts
    <3>4. pool'[k] = BeginRenew(d, r)
        BY <2>4, <3>1
    <3>5. QED
        BY <2>1, <3>3, <3>4
  <2>7. QED
      BY <1>1, <2>5, <2>6, LockLeft
<1>2. IInv /\ [Next]_vars =>
        [\A q \in Requests :
           req[q].pc = "lock" /\ req'[q].pc \in {"wait", "count"} /\ ~req'[q].admitted
             => \/ pool'[req[q].key].renewing
                \/ req[q].now < pool[req[q].key].nextTry]_vars
    BY <1>1
<1>3. QED
    BY <1>2, Inductive, PTL DEF Spec, ShortfallRenews

-----------------------------------------------------------------------------
(***************************************************************************)
(* The counters a worker publishes and the tokens that pass through its    *)
(* pools.  Every step changes the sums of one pool by what one request or  *)
(* one answer brings.                                                      *)
(***************************************************************************)

CountsType == [admitted : Nat, admittedTokens : Nat, rejected : Nat,
               leaseCalls : Nat, leaseErrs : Nat]
LedgerType == [leased : Nat, dropped : Nat, checks : Nat, unknown : Nat]

\* The tokens of pool k are conserved.
Conserved(k) ==
    ledger[k].leased =
        counts[k].admittedTokens + Pending(k) + pool[k].tokens + ledger[k].dropped

\* The Checks of pool k are accounted for.
Accounted(k) ==
    ledger[k].checks =
        counts[k].admitted + counts[k].rejected + ledger[k].unknown
          + Cardinality(InFlight(k))

\* A request that has not decided is not admitted: WaitTimeout counts what
\* the local says, so the local must still be false when the wait begins.
AInv == /\ counts \in [Keys -> CountsType] /\ ledger \in [Keys -> LedgerType]
        /\ \A q \in Requests : req[q].pc # "count" => req[q].admitted = FALSE
        /\ \A k \in Keys : Conserved(k) /\ Accounted(k)

-----------------------------------------------------------------------------
(* One request's step *)

\* Only the locals of q change.
Only(q) == \A x \in Requests : x # q => req'[x] = req[x]

\* How the number of requests in flight follows the step of one request.
LEMMA InFlightMoves ==
    ASSUME NEW q \in Requests, NEW k, Only(q)
    PROVE  /\ Cardinality(InFlight(k)) \in Nat /\ Cardinality(InFlight(k)') \in Nat
           /\ Cardinality(InFlight(k)') = Cardinality(InFlight(k))
                - (IF q \in InFlight(k) THEN 1 ELSE 0) + (IF q \in InFlight(k)' THEN 1 ELSE 0)
<1>1. \A x : x # q => (x \in InFlight(k) <=> x \in InFlight(k)')
    BY DEF InFlight, Only
<1>2. IsFiniteSet(InFlight(k))
    BY AccountingAssumption, FS_Subset DEF InFlight
<1>3. QED
    BY <1>1, <1>2, CardSwap

\* A request admitted and not counted is in flight.
LEMMA UncountedIs ==
    ASSUME NEW k, NEW q
    PROVE  /\ q \in Uncounted(k) <=> /\ q \in Requests /\ req[q].pc = "count"
                                     /\ req[q].key = k /\ req[q].admitted
           /\ q \in Uncounted(k)' <=> /\ q \in Requests /\ req'[q].pc = "count"
                                      /\ req'[q].key = k /\ req'[q].admitted
    BY DEF Uncounted, InFlight

\* How the costs still to be counted follow it.
LEMMA PendingMoves ==
    ASSUME TypeOK, TypeOK', NEW q \in Requests, NEW k, Only(q)
    PROVE  /\ Pending(k) \in Nat /\ Pending(k)' \in Nat
           /\ Pending(k)' = Pending(k) - (IF q \in Uncounted(k) THEN req[q].cost ELSE 0)
                                       + (IF q \in Uncounted(k)' THEN req'[q].cost ELSE 0)
<1> DEFINE f == [x \in Requests |-> req[x].cost]
           g == [x \in Requests |-> req'[x].cost]
           S == Uncounted(k)
           T == Uncounted(k)'
<1>1. /\ \A x : x # q => (x \in S <=> x \in T)
      /\ S \subseteq Requests /\ T \subseteq Requests
      /\ IsFiniteSet(S) /\ IsFiniteSet(T)
  <2>1. S \subseteq Requests /\ T \subseteq Requests
      BY DEF Uncounted, InFlight
  <2>2. \A x : x # q => (x \in S <=> x \in T)
      BY UncountedIs DEF Only
  <2>3. QED
      BY <2>1, <2>2, AccountingAssumption, FS_Subset
<1>2. \A x \in Requests : /\ req[x].cost \in Nat /\ req'[x].cost \in Nat
                          /\ x # q => req'[x].cost = req[x].cost
    BY LimiterAssumption DEF TypeOK, ReqType, Only
<1>3. /\ \A x \in S : f[x] \in Nat
      /\ \A x \in T : g[x] \in Nat
      /\ \A x \in S : f[x] \in Int
      /\ \A x \in T : g[x] \in Int
      /\ \A x \in S : x # q => f[x] = g[x]
      /\ f[q] = req[q].cost /\ g[q] = req'[q].cost
    BY <1>1, <1>2
<1>4. Pending(k) = SumFunctionOnSet(f, S) /\ Pending(k)' = SumFunctionOnSet(g, T)
    BY DEF Pending
<1> HIDE DEF f, g, S, T
<1>5. /\ SumFunctionOnSet(f, S) \in Nat /\ SumFunctionOnSet(g, T) \in Nat
    BY <1>1, <1>3, SumNat
<1>6. SumFunctionOnSet(g, T) = SumFunctionOnSet(f, S) - (IF q \in S THEN f[q] ELSE 0)
                                                     + (IF q \in T THEN g[q] ELSE 0)
  <2>1. IsFiniteSet(S) /\ \A x : x # q => (x \in S <=> x \in T)
      BY <1>1
  <2>2. /\ \A x \in S : f[x] \in Int
        /\ \A x \in T : g[x] \in Int
        /\ \A x \in S : x # q => f[x] = g[x]
      BY <1>3
  <2>3. QED
      BY <2>1, <2>2, SumSwap
<1>7. QED
    BY <1>3, <1>4, <1>5, <1>6 DEF S, T

\* A pool that q has nothing to do with, before or after the step.
LEMMA OtherPool ==
    ASSUME TypeOK, TypeOK', AInv, NEW q \in Requests, NEW x \in Keys, Only(q),
           req[q].pc = "idle" \/ req[q].key # x,
           req'[q].pc = "idle" \/ req'[q].key # x,
           pool'[x].tokens = pool[x].tokens, counts'[x] = counts[x], ledger'[x] = ledger[x]
    PROVE  Conserved(x)' /\ Accounted(x)'
<1>1. q \notin InFlight(x) /\ q \notin InFlight(x)'
    BY DEF InFlight
<1>2. q \notin Uncounted(x) /\ q \notin Uncounted(x)'
    BY <1>1 DEF Uncounted
<1>3. Cardinality(InFlight(x)') = Cardinality(InFlight(x))
    BY <1>1, InFlightMoves
<1>4. Pending(x)' = Pending(x)
    BY <1>2, PendingMoves
<1>5. QED
    BY <1>3, <1>4 DEF AInv, Conserved, Accounted

-----------------------------------------------------------------------------
(* What the steps of Check do *)

\* Counting and noting touch one field of one pool.
LEMMA CountsAreNat ==
    ASSUME AInv, NEW k \in Keys
    PROVE  /\ counts[k].admitted \in Nat /\ counts[k].admittedTokens \in Nat
           /\ counts[k].rejected \in Nat
           /\ ledger[k].leased \in Nat /\ ledger[k].dropped \in Nat
           /\ ledger[k].checks \in Nat /\ ledger[k].unknown \in Nat
    BY DEF AInv, CountsType, LedgerType

LEMMA NoteFacts ==
    ASSUME AInv, NEW k \in Keys, NEW n \in Nat
    PROVE  /\ Note(k, "checks", n) =>
                /\ ledger' \in [Keys -> LedgerType]
                /\ ledger'[k].checks = ledger[k].checks + n
                /\ ledger'[k].leased = ledger[k].leased
                /\ ledger'[k].dropped = ledger[k].dropped
                /\ ledger'[k].unknown = ledger[k].unknown
                /\ \A x \in Keys : x # k => ledger'[x] = ledger[x]
           /\ Note(k, "unknown", n) =>
                /\ ledger' \in [Keys -> LedgerType]
                /\ ledger'[k].checks = ledger[k].checks
                /\ ledger'[k].leased = ledger[k].leased
                /\ ledger'[k].dropped = ledger[k].dropped
                /\ ledger'[k].unknown = ledger[k].unknown + n
                /\ \A x \in Keys : x # k => ledger'[x] = ledger[x]
           /\ Note(k, "dropped", n) =>
                /\ ledger' \in [Keys -> LedgerType]
                /\ ledger'[k].checks = ledger[k].checks
                /\ ledger'[k].leased = ledger[k].leased
                /\ ledger'[k].dropped = ledger[k].dropped + n
                /\ ledger'[k].unknown = ledger[k].unknown
                /\ \A x \in Keys : x # k => ledger'[x] = ledger[x]
<1>1. ledger \in [Keys -> LedgerType]
    BY DEF AInv
<1>2. ASSUME Note(k, "checks", n)
      PROVE  /\ ledger' \in [Keys -> LedgerType]
             /\ ledger'[k].checks = ledger[k].checks + n
             /\ ledger'[k].leased = ledger[k].leased
             /\ ledger'[k].dropped = ledger[k].dropped
             /\ ledger'[k].unknown = ledger[k].unknown
             /\ \A x \in Keys : x # k => ledger'[x] = ledger[x]
    BY <1>1, <1>2 DEF Note, LedgerType
<1>3. ASSUME Note(k, "unknown", n)
      PROVE  /\ ledger' \in [Keys -> LedgerType]
             /\ ledger'[k].checks = ledger[k].checks
             /\ ledger'[k].leased = ledger[k].leased
             /\ ledger'[k].dropped = ledger[k].dropped
             /\ ledger'[k].unknown = ledger[k].unknown + n
             /\ \A x \in Keys : x # k => ledger'[x] = ledger[x]
    BY <1>1, <1>3 DEF Note, LedgerType
<1>4. ASSUME Note(k, "dropped", n)
      PROVE  /\ ledger' \in [Keys -> LedgerType]
             /\ ledger'[k].checks = ledger[k].checks
             /\ ledger'[k].leased = ledger[k].leased
             /\ ledger'[k].dropped = ledger[k].dropped + n
             /\ ledger'[k].unknown = ledger[k].unknown
             /\ \A x \in Keys : x # k => ledger'[x] = ledger[x]
    BY <1>1, <1>4 DEF Note, LedgerType
<1>5. QED
    BY <1>2, <1>3, <1>4

\* A step of q, which is a request of pool k before or after it.  It keeps the
\* invariant when what it moves in the sums of k balances.
LEMMA RequestBalances ==
    ASSUME IInv, TypeOK', AInv, NEW q \in Requests, NEW k \in Keys, Only(q),
           req[q].pc = "idle" \/ req[q].key = k,
           req'[q].pc = "idle" \/ req'[q].key = k,
           req'[q].pc # "count" => req'[q].admitted = FALSE,
           counts' \in [Keys -> CountsType], ledger' \in [Keys -> LedgerType],
           \A x \in Keys : x # k => /\ pool'[x].tokens = pool[x].tokens
                                    /\ counts'[x] = counts[x] /\ ledger'[x] = ledger[x],
           Conserved(k)', Accounted(k)'
    PROVE  AInv'
<1>1. \A x \in Requests : req'[x].pc # "count" => req'[x].admitted = FALSE
    BY DEF AInv, Only
<1>2. ASSUME NEW x \in Keys, x # k PROVE Conserved(x)' /\ Accounted(x)'
    BY <1>2, OtherPool DEF IInv
<1>3. QED
    BY <1>1, <1>2 DEF AInv

\* handleCheck starts a Check: one more in flight, one more noted.
LEMMA StartKept ==
    ASSUME IInv, TypeOK', AInv, NEW q \in Requests, NEW k \in Keys, NEW c \in Costs,
           AccCheckStart(q, k, c)
    PROVE  AInv'
<1>1. /\ req[q].pc = "idle" /\ req[q] \in ReqType /\ req[q].admitted = FALSE
      /\ UNCHANGED <<pool, counts>> /\ Note(k, "checks", 1)
    BY DEF AccCheckStart, CheckStart, IInv, TypeOK, AInv
<1>2. PICK cost : req' = [req EXCEPT ![q] = [@ EXCEPT !.pc = "lock", !.key = k,
                                               !.cost = cost, !.now = clock]]
    BY DEF AccCheckStart, CheckStart
<1>3. /\ Only(q) /\ req'[q].pc = "lock" /\ req'[q].key = k
      /\ req'[q].admitted = FALSE
    BY <1>1, <1>2 DEF IInv, TypeOK, ReqType, Only
<1>4. /\ ledger' \in [Keys -> LedgerType]
      /\ ledger'[k].checks = ledger[k].checks + 1
      /\ ledger'[k].leased = ledger[k].leased
      /\ ledger'[k].dropped = ledger[k].dropped
      /\ ledger'[k].unknown = ledger[k].unknown
      /\ \A x \in Keys : x # k => ledger'[x] = ledger[x]
    BY <1>1, NoteFacts
<1>5. q \notin InFlight(k) /\ q \in InFlight(k)' /\ q \notin Uncounted(k) /\ q \notin Uncounted(k)'
    BY <1>1, <1>3, UncountedIs DEF InFlight
<1>6. /\ Cardinality(InFlight(k)') = Cardinality(InFlight(k)) + 1
      /\ Cardinality(InFlight(k)) \in Nat
    BY <1>3, <1>5, InFlightMoves
<1>7. Pending(k)' = Pending(k)
    BY <1>3, <1>5, PendingMoves DEF IInv
<1>8. Conserved(k)'
    BY <1>1, <1>4, <1>7 DEF Conserved, AInv
<1>9. Accounted(k)'
  <2>1. Accounted(k)
      BY DEF AInv
  <2>2. /\ counts[k].admitted \in Nat /\ counts[k].rejected \in Nat
        /\ ledger[k].checks \in Nat /\ ledger[k].unknown \in Nat /\ counts'[k] = counts[k]
      BY <1>1, CountsAreNat
  <2>3. QED
      BY <1>4, <1>6, <2>1, <2>2 DEF Accounted
<1>10. counts' \in [Keys -> CountsType]
    BY <1>1 DEF AInv
<1>11. QED
    BY <1>1, <1>3, <1>4, <1>8, <1>9, <1>10, RequestBalances

\* The negative cache answers: noted, not counted.
LEMMA UnknownKept ==
    ASSUME IInv, TypeOK', AInv, NEW q \in Requests, AccCheckUnknown(q)
    PROVE  AInv'
<1>1. /\ req[q].pc \in {"lock", "relock"} /\ req' = [req EXCEPT ![q] = IdleReq]
      /\ UNCHANGED <<pool, counts>>
    BY DEF AccCheckUnknown, CheckUnknown, WokenUnknown
<1>2. PICK k \in Keys : k = req[q].key
    BY <1>1 DEF IInv, TypeOK
<1>3. Only(q) /\ req'[q].pc = "idle" /\ req'[q].admitted = FALSE
    BY <1>1 DEF IInv, TypeOK, IdleReq, Only
<1>4. /\ ledger' \in [Keys -> LedgerType]
      /\ ledger'[k].checks = ledger[k].checks
      /\ ledger'[k].leased = ledger[k].leased
      /\ ledger'[k].dropped = ledger[k].dropped
      /\ ledger'[k].unknown = ledger[k].unknown + 1
      /\ \A x \in Keys : x # k => ledger'[x] = ledger[x]
  <2>1. Note(k, "unknown", 1)
      BY <1>2 DEF AccCheckUnknown
  <2>2. QED
      BY <2>1, NoteFacts
<1>5. q \in InFlight(k) /\ q \notin InFlight(k)' /\ q \notin Uncounted(k) /\ q \notin Uncounted(k)'
    BY <1>1, <1>2, <1>3, UncountedIs DEF InFlight
<1>6. /\ Cardinality(InFlight(k)') = Cardinality(InFlight(k)) - 1
      /\ Cardinality(InFlight(k)) \in Nat
    BY <1>3, <1>5, InFlightMoves
<1>7. Pending(k)' = Pending(k)
    BY <1>3, <1>5, PendingMoves DEF IInv
<1>8. Conserved(k)'
    BY <1>1, <1>4, <1>7 DEF Conserved, AInv
<1>9. Accounted(k)'
  <2>1. Accounted(k)
      BY DEF AInv
  <2>2. /\ counts[k].admitted \in Nat /\ counts[k].rejected \in Nat
        /\ ledger[k].checks \in Nat /\ ledger[k].unknown \in Nat /\ counts'[k] = counts[k]
      BY <1>1, CountsAreNat
  <2>3. QED
      BY <1>4, <1>6, <2>1, <2>2 DEF Accounted
<1>10. counts' \in [Keys -> CountsType]
    BY <1>1 DEF AInv
<1>11. QED
    BY <1>1, <1>2, <1>3, <1>4, <1>8, <1>9, <1>10, RequestBalances

\* What the decision does to the tokens: drop what expired, spend the cost of
\* an admission, and nothing else, also when a renewal begins.
LEMMA DecidedTokens ==
    ASSUME NEW p \in PoolType, NEW now \in Nat, NEW cost \in 1..MaxCost, NEW r
    PROVE  LET e == DropExpired(p, now)
               d == Decided(p, now, cost)
               spent == IF Admitted(p, now, cost) THEN cost ELSE 0
           IN  /\ e.tokens \in Nat /\ p.tokens \in Nat /\ p.tokens - e.tokens \in Nat
               /\ d.tokens = e.tokens - spent /\ BeginRenew(d, r).tokens = d.tokens
<1> DEFINE e == DropExpired(p, now)
           d == Spend(e, cost)
<1>1. e \in PoolType /\ e.tokens <= p.tokens
    BY DEF DropExpired, PoolType
<1>2. e.tokens \in Nat /\ p.tokens \in Nat /\ cost \in Nat
    BY <1>1, LimiterAssumption DEF PoolType
<1> HIDE DEF e
<1>3. d \in PoolType /\ d.tokens = e.tokens - (IF Admits(e, cost) THEN cost ELSE 0)
    BY <1>1, <1>2 DEF Spend, Debited, Admits, PoolType
<1> HIDE DEF d
<1>4. BeginRenew(d, r).tokens = d.tokens
    BY <1>3 DEF BeginRenew, PoolType
<1>5. QED
    BY <1>1, <1>2, <1>3, <1>4 DEF Decided, Admitted, d, e

\* Proceed leaves a request admitted and uncounted exactly when it admitted it.
LEMMA ProceedAdmits ==
    ASSUME TypeOK, AInv, NEW q \in Requests, req[q].pc = "lock", NEW p, NEW ok \in BOOLEAN,
           Proceed(q, p, ok)
    PROVE  /\ Only(q) /\ req'[q].key = req[q].key /\ req'[q].cost = req[q].cost
           /\ req'[q].pc \in {"wait", "count"}
           /\ req'[q].pc # "count" => req'[q].admitted = FALSE
           /\ (req'[q].pc = "count" /\ req'[q].admitted) <=> ok
<1>1. req \in [Requests -> ReqType] /\ req[q] \in ReqType /\ req[q].admitted = FALSE
    BY DEF TypeOK, AInv
<1>2. CASE CanWait(p, req[q].now, ok) /\ p.renewDone # Nil
  <2>1. PICK until : req' = [req EXCEPT ![q] =
                        [@ EXCEPT !.pc = "wait", !.done = p.renewDone, !.until = until]]
      BY <1>2 DEF Proceed
  <2>2. ~ok
      BY <1>2 DEF CanWait
  <2>3. /\ Only(q) /\ req'[q].key = req[q].key /\ req'[q].cost = req[q].cost
        /\ req'[q].pc = "wait" /\ req'[q].admitted = req[q].admitted
      BY <1>1, <2>1 DEF ReqType, Only
  <2>4. QED
      BY <1>1, <2>2, <2>3
<1>3. CASE ~(CanWait(p, req[q].now, ok) /\ p.renewDone # Nil)
  <2>1. req' = [req EXCEPT ![q] = [@ EXCEPT !.pc = "count", !.admitted = ok]]
      BY <1>3 DEF Proceed
  <2>2. /\ Only(q) /\ req'[q].key = req[q].key /\ req'[q].cost = req[q].cost
        /\ req'[q].pc = "count" /\ req'[q].admitted = ok
      BY <1>1, <2>1 DEF ReqType, Only
  <2>3. QED
      BY <2>2
<1>4. QED
    BY <1>2, <1>3

\* A request that stays in flight and spends `spent' tokens of its pool, while
\* `dropped' tokens of it expire.
LEMMA SpendKept ==
    ASSUME IInv, TypeOK', AInv, NEW q \in Requests, NEW k \in Keys, Only(q),
           req[q].pc \notin {"idle", "count"}, req[q].key = k,
           req'[q].pc # "idle", req'[q].key = k, req'[q].cost = req[q].cost,
           req'[q].pc # "count" => req'[q].admitted = FALSE,
           NEW n \in Nat, (ledger' = ledger /\ n = 0) \/ Note(k, "dropped", n),
           counts' = counts,
           \A x \in Keys : x # k => pool'[x] = pool[x],
           pool'[k].tokens + n
             + (IF req'[q].pc = "count" /\ req'[q].admitted THEN req[q].cost ELSE 0)
             = pool[k].tokens
    PROVE  AInv'
<1> DEFINE spent == IF req'[q].pc = "count" /\ req'[q].admitted THEN req[q].cost ELSE 0
<1>1. /\ ledger' \in [Keys -> LedgerType]
      /\ ledger'[k].checks = ledger[k].checks
      /\ ledger'[k].leased = ledger[k].leased
      /\ ledger'[k].dropped = ledger[k].dropped + n
      /\ ledger'[k].unknown = ledger[k].unknown
      /\ \A x \in Keys : x # k => ledger'[x] = ledger[x]
  <2>1. CASE ledger' = ledger /\ n = 0
    <3>1. ledger[k].dropped \in Nat /\ ledger \in [Keys -> LedgerType]
        BY CountsAreNat DEF AInv
    <3>2. QED
        BY <2>1, <3>1
  <2>2. CASE Note(k, "dropped", n)
      BY <2>2, NoteFacts
  <2>3. QED
      BY <2>1, <2>2
<1>2. q \in InFlight(k) /\ q \in InFlight(k)'
    BY DEF InFlight
<1>3. Cardinality(InFlight(k)') = Cardinality(InFlight(k))
    BY <1>2, InFlightMoves
<1>4. /\ q \notin Uncounted(k)
      /\ q \in Uncounted(k)' <=> req'[q].pc = "count" /\ req'[q].admitted
    BY UncountedIs
<1>5. Pending(k) \in Nat /\ Pending(k)' = Pending(k) + spent
    BY <1>4, PendingMoves DEF IInv
<1>6. spent \in Nat
    BY LimiterAssumption DEF IInv, TypeOK, ReqType
<1>7. pool[k].tokens \in Nat /\ pool'[k].tokens \in Nat
    BY DEF IInv, TypeOK, PoolType
<1>8. pool'[k].tokens + n + spent = pool[k].tokens
    OBVIOUS
<1> HIDE DEF spent
<1>9. Conserved(k)'
  <2>1. Conserved(k)
      BY DEF AInv
  <2>2. /\ counts[k].admittedTokens \in Nat /\ counts'[k] = counts[k]
        /\ ledger[k].dropped \in Nat /\ ledger[k].leased \in Nat
      BY CountsAreNat
  <2>3. QED
      BY <1>1, <1>5, <1>6, <1>7, <1>8, <2>1, <2>2 DEF Conserved
<1>10. Accounted(k)'
    BY <1>1, <1>3 DEF Accounted, AInv
<1>11. counts' \in [Keys -> CountsType]
    BY DEF AInv
<1>12. QED
    BY <1>1, <1>9, <1>10, <1>11, RequestBalances

\* The critical section of Check, with or without a renewal.
LEMMA DecisionKept ==
    ASSUME IInv, TypeOK', AInv, NEW q \in Requests, AccCheckLocked(q)
    PROVE  AInv'
<1>1. req[q].pc = "lock"
    BY DEF AccCheckLocked, CheckLocked, CheckRenew
<1>2. PICK k \in Keys, p \in PoolType, now \in Nat, cost \in 1..MaxCost :
        /\ k = req[q].key /\ p = pool[k] /\ now = req[q].now /\ cost = req[q].cost
    BY <1>1, Locals
<1> DEFINE ok == Admitted(p, now, cost)
<1>3. ok \in BOOLEAN
    BY DEF Admitted, Admits
<1>4. PICK d : /\ pool' = [pool EXCEPT ![k] = d] /\ Proceed(q, d, ok)
               /\ \/ d = Decided(p, now, cost)
                  \/ \E r \in Renewers : d = BeginRenew(Decided(p, now, cost), r)
  <2>1. CASE CheckLocked(q)
      BY <1>2, <2>1 DEF CheckLocked
  <2>2. ASSUME NEW r \in Renewers, CheckRenew(q, r)
        PROVE  /\ pool' = [pool EXCEPT ![k] = BeginRenew(Decided(p, now, cost), r)]
               /\ Proceed(q, BeginRenew(Decided(p, now, cost), r), ok)
      BY <1>2, <2>2 DEF CheckRenew
  <2>3. QED
      BY <2>1, <2>2 DEF AccCheckLocked
<1>5. PICK n \in Nat : n = p.tokens - DropExpired(p, now).tokens
    BY DecidedTokens
<1>6. Note(k, "dropped", n) /\ counts' = counts
    BY <1>2, <1>5 DEF AccCheckLocked
<1>7. d.tokens + n + (IF ok THEN cost ELSE 0) = p.tokens
  <2>1. /\ d.tokens = DropExpired(p, now).tokens - (IF ok THEN cost ELSE 0)
        /\ DropExpired(p, now).tokens \in Nat /\ p.tokens \in Nat
      BY <1>4, DecidedTokens
  <2>2. cost \in Nat
      BY LimiterAssumption
  <2> HIDE DEF ok
  <2>3. QED
      BY <1>5, <2>1, <2>2
<1>8. /\ Only(q) /\ req'[q].key = req[q].key /\ req'[q].cost = req[q].cost
      /\ req'[q].pc \in {"wait", "count"}
      /\ req'[q].pc # "count" => req'[q].admitted = FALSE
      /\ (req'[q].pc = "count" /\ req'[q].admitted) <=> ok
  <2> HIDE DEF ok
  <2>1. QED
      BY <1>1, <1>3, <1>4, ProceedAdmits DEF IInv
<1> HIDE DEF ok
<1>9. pool'[k] = d /\ \A x \in Keys : x # k => pool'[x] = pool[x]
    BY <1>4 DEF IInv, TypeOK
<1>10. pool'[k].tokens + n
         + (IF req'[q].pc = "count" /\ req'[q].admitted THEN req[q].cost ELSE 0)
         = pool[k].tokens
    BY <1>2, <1>7, <1>8, <1>9
<1>11. /\ req[q].pc \notin {"idle", "count"} /\ req[q].key = k /\ req'[q].pc # "idle"
       /\ req'[q].key = k
    BY <1>1, <1>2, <1>8
<1>12. QED
    BY <1>6, <1>8, <1>9, <1>10, <1>11, SpendKept

\* The end of a wait, by the channel, by the timeout, and the decision after.
LEMMA WaitKept ==
    ASSUME IInv, TypeOK', AInv, NEW q \in Requests, AccWait(q)
    PROVE  AInv'
<1>1. req[q].pc \in {"wait", "relock"} /\ req[q] \in ReqType /\ req[q].admitted = FALSE
    BY DEF AccWait, WaitDone, WaitTimeout, WokenLocked, IInv, TypeOK, AInv
<1>2. PICK k \in Keys, p \in PoolType, now \in Nat, cost \in 1..MaxCost :
        /\ k = req[q].key /\ p = pool[k] /\ now = req[q].now /\ cost = req[q].cost
    BY <1>1, Locals
<1>3. p.tokens \in Nat /\ cost \in Nat /\ counts' = counts /\ ledger' = ledger
    BY LimiterAssumption DEF PoolType, AccWait
<1>4. CASE WaitDone(q)
  <2>1. req' = [req EXCEPT ![q] = [@ EXCEPT !.pc = "relock", !.now = clock, !.done = Nil]]
      BY <1>4 DEF WaitDone
  <2>2. /\ Only(q) /\ req'[q].pc = "relock" /\ req'[q].key = k /\ req'[q].cost = req[q].cost
        /\ req'[q].admitted = FALSE
      BY <1>1, <1>2, <2>1 DEF IInv, TypeOK, ReqType, Only
  <2>3. pool' = pool
      BY <1>4 DEF WaitDone
  <2>4. pool'[k].tokens + 0
          + (IF req'[q].pc = "count" /\ req'[q].admitted THEN req[q].cost ELSE 0)
          = pool[k].tokens
      BY <1>2, <1>3, <2>2, <2>3
  <2>5. req[q].pc \notin {"idle", "count"} /\ req[q].key = k /\ req'[q].pc # "idle"
      BY <1>1, <1>2, <2>2
  <2>6. QED
      BY <1>3, <2>2, <2>3, <2>4, <2>5, SpendKept
<1>5. CASE WaitTimeout(q)
  <2>1. req' = [req EXCEPT ![q] = [@ EXCEPT !.pc = "count", !.done = Nil]]
      BY <1>5 DEF WaitTimeout
  <2>2. /\ Only(q) /\ req'[q].pc = "count" /\ req'[q].key = k /\ req'[q].cost = req[q].cost
        /\ req'[q].admitted = FALSE
      BY <1>1, <1>2, <2>1 DEF IInv, TypeOK, ReqType, Only
  <2>3. pool' = pool
      BY <1>5 DEF WaitTimeout
  <2>4. pool'[k].tokens + 0
          + (IF req'[q].pc = "count" /\ req'[q].admitted THEN req[q].cost ELSE 0)
          = pool[k].tokens
      BY <1>2, <1>3, <2>2, <2>3
  <2>5. req[q].pc \notin {"idle", "count"} /\ req[q].key = k /\ req'[q].pc # "idle"
      BY <1>1, <1>2, <2>2
  <2>6. QED
      BY <1>3, <2>2, <2>3, <2>4, <2>5, SpendKept
<1>6. CASE WokenLocked(q)
  <2> DEFINE ok == AdmitsWoken(p, now, cost)
             d == Debited(p, cost)
  <2>1. ok \in BOOLEAN /\ (ok => p.tokens >= cost)
      BY DEF AdmitsWoken
  <2>2. /\ req' = [req EXCEPT ![q] = [@ EXCEPT !.pc = "count", !.admitted = ok]]
        /\ pool' = IF ok THEN [pool EXCEPT ![k] = d] ELSE pool
      BY <1>2, <1>6 DEF WokenLocked
  <2>3. d.tokens = p.tokens - cost
      BY DEF Debited, PoolType
  <2> HIDE DEF ok, d
  <2>4. /\ Only(q) /\ req'[q].pc = "count" /\ req'[q].key = k /\ req'[q].cost = req[q].cost
        /\ req'[q].admitted = ok
      BY <1>1, <1>2, <2>1, <2>2 DEF IInv, TypeOK, ReqType, Only
  <2>5. /\ pool'[k].tokens = p.tokens - (IF ok THEN cost ELSE 0)
        /\ \A x \in Keys : x # k => pool'[x] = pool[x]
    <3>1. CASE ok
        BY <1>2, <2>2, <2>3, <3>1 DEF IInv, TypeOK
    <3>2. CASE ~ok
        BY <1>2, <1>3, <2>2, <3>2
    <3>3. QED
        BY <3>1, <3>2
  <2>6. pool'[k].tokens + 0
          + (IF req'[q].pc = "count" /\ req'[q].admitted THEN req[q].cost ELSE 0)
          = pool[k].tokens
      BY <1>2, <1>3, <2>4, <2>5
  <2>7. /\ req[q].pc \notin {"idle", "count"} /\ req[q].key = k /\ req'[q].pc # "idle"
        /\ req'[q].pc # "count" => req'[q].admitted = FALSE
      BY <1>1, <1>2, <2>4
  <2>8. QED
      BY <1>3, <2>4, <2>5, <2>6, <2>7, SpendKept
<1>7. QED
    BY <1>4, <1>5, <1>6 DEF AccWait

\* The decision is counted: the request leaves, its cost moves to the counter.
LEMMA ReturnKept ==
    ASSUME IInv, TypeOK', AInv, NEW q \in Requests, AccCheckReturn(q)
    PROVE  AInv'
<1>1. /\ req[q].pc = "count" /\ req' = [req EXCEPT ![q] = IdleReq]
      /\ UNCHANGED <<pool, ledger>> /\ req[q].admitted \in BOOLEAN
    BY DEF AccCheckReturn, CheckReturn, IInv, TypeOK, ReqType
<1>2. PICK k \in Keys, cost \in Nat : k = req[q].key /\ cost = req[q].cost
    BY <1>1, LimiterAssumption DEF IInv, TypeOK, ReqType
<1>3. Only(q) /\ req'[q].pc = "idle" /\ req'[q].admitted = FALSE
    BY <1>1 DEF IInv, TypeOK, IdleReq, Only
<1>4. q \in InFlight(k) /\ q \notin InFlight(k)' /\ q \notin Uncounted(k)'
      /\ (q \in Uncounted(k) <=> req[q].admitted)
    BY <1>1, <1>2, <1>3, UncountedIs DEF InFlight
<1>5. /\ Cardinality(InFlight(k)') = Cardinality(InFlight(k)) - 1
      /\ Cardinality(InFlight(k)) \in Nat
    BY <1>3, <1>4, InFlightMoves
<1>6. /\ Pending(k) \in Nat
      /\ Pending(k)' = Pending(k) - (IF req[q].admitted THEN cost ELSE 0)
    BY <1>2, <1>3, <1>4, PendingMoves DEF IInv
<1>7. /\ counts' \in [Keys -> CountsType]
      /\ \A x \in Keys : x # k => counts'[x] = counts[x]
      /\ counts'[k].admittedTokens = counts[k].admittedTokens
           + (IF req[q].admitted THEN cost ELSE 0)
      /\ counts'[k].admitted + counts'[k].rejected
           = counts[k].admitted + counts[k].rejected + 1
  <2>1. counts \in [Keys -> CountsType] /\ counts[k] \in CountsType
      BY DEF AInv
  <2>2. CASE req[q].admitted
    <3>1. counts' = [counts EXCEPT ![k].admitted = @ + 1, ![k].admittedTokens = @ + cost]
        BY <1>2, <2>2 DEF AccCheckReturn
    <3>2. PICK a \in Nat, b \in Nat : a = counts[k].admitted + 1 /\ b = counts[k].admittedTokens + cost
        BY CountsAreNat
    <3> DEFINE v == [counts[k] EXCEPT !.admitted = a, !.admittedTokens = b]
    <3>3. counts' = [counts EXCEPT ![k] = v]
        BY <2>1, <3>1, <3>2 DEF CountsType
    <3>4. /\ v \in CountsType /\ v.admitted = a /\ v.admittedTokens = b
          /\ v.rejected = counts[k].rejected
        BY <2>1 DEF CountsType
    <3> HIDE DEF v
    <3>5. QED
        BY <2>1, <2>2, <3>2, <3>3, <3>4, CountsAreNat
  <2>3. CASE ~req[q].admitted
    <3>1. counts' = [counts EXCEPT ![k].rejected = @ + 1]
        BY <1>2, <2>3 DEF AccCheckReturn
    <3>2. PICK a \in Nat : a = counts[k].rejected + 1
        BY CountsAreNat
    <3> DEFINE v == [counts[k] EXCEPT !.rejected = a]
    <3>3. counts' = [counts EXCEPT ![k] = v]
        BY <2>1, <3>1, <3>2 DEF CountsType
    <3>4. /\ v \in CountsType /\ v.rejected = a /\ v.admittedTokens = counts[k].admittedTokens
          /\ v.admitted = counts[k].admitted
        BY <2>1 DEF CountsType
    <3> HIDE DEF v
    <3>5. QED
        BY <2>1, <2>3, <3>2, <3>3, <3>4, CountsAreNat
  <2>4. QED
      BY <1>1, <2>2, <2>3
<1>8. /\ counts[k].admitted \in Nat /\ counts[k].rejected \in Nat
      /\ counts[k].admittedTokens \in Nat
      /\ ledger[k].checks \in Nat /\ ledger[k].unknown \in Nat
      /\ ledger[k].leased \in Nat /\ ledger[k].dropped \in Nat
      /\ pool[k].tokens \in Nat
    BY CountsAreNat DEF IInv, TypeOK, PoolType
<1>9. Conserved(k)'
  <2>1. Conserved(k)
      BY DEF AInv
  <2>2. QED
      BY <1>1, <1>2, <1>6, <1>7, <1>8, <2>1 DEF Conserved
<1>10. Accounted(k)'
  <2>1. Accounted(k)
      BY DEF AInv
  <2>2. counts'[k].admitted \in Nat /\ counts'[k].rejected \in Nat
      BY <1>7 DEF CountsType
  <2>3. QED
      BY <1>1, <1>5, <1>7, <1>8, <2>1, <2>2 DEF Accounted
<1>11. ledger' \in [Keys -> LedgerType]
    BY <1>1 DEF AInv
<1>12. QED
    BY <1>1, <1>2, <1>3, <1>7, <1>9, <1>10, <1>11, RequestBalances

-----------------------------------------------------------------------------
(* Renewals, kills and time *)

\* A step in which no request enters, leaves or decides.
LEMMA RequestsKept ==
    ASSUME TypeOK, NEW k,
           \A q \in Requests : /\ req'[q].pc = req[q].pc /\ req'[q].key = req[q].key
                               /\ req'[q].cost = req[q].cost
                               /\ req'[q].admitted = req[q].admitted
    PROVE  InFlight(k)' = InFlight(k) /\ Pending(k)' = Pending(k)
<1>1. InFlight(k)' = InFlight(k)
    BY DEF InFlight
<1>2. Uncounted(k)' = Uncounted(k)
    BY <1>1 DEF Uncounted, InFlight
<1>3. [q \in Requests |-> req'[q].cost] = [q \in Requests |-> req[q].cost]
    OBVIOUS
<1>4. QED
    BY <1>1, <1>2, <1>3 DEF Pending

\* An answer is applied: a grant is leased, an unknown tenant's tokens go.
LEMMA RenewKept ==
    ASSUME IInv, TypeOK', AInv, NEW r \in Renewers, AccRenewLocked(r)
    PROVE  AInv'
<1>1. /\ renewer[r].pc = "lock" /\ renewer[r].key \in Keys /\ renewer[r] \in RenewerType
    BY DEF AccRenewLocked, RenewLocked, IInv, TypeOK
<1>2. PICK k \in Keys, p \in PoolType, now \in Nat, a \in Answers :
        k = renewer[r].key /\ p = pool[k] /\ now = renewer[r].now /\ a = renewer[r].answer
    BY <1>1 DEF IInv, TypeOK, RenewerType
<1>3. /\ a.tokens \in Nat /\ p.tokens \in Nat
      /\ a.kind \in {"grant", "zero", "error", "unknown"}
      /\ a.kind # "grant" => a.tokens = 0
  <2>1. p.tokens \in Nat
      BY DEF PoolType
  <2>2. CASE a \in [kind : {"grant"}, tokens : Grants, retryAfter : {0}]
    <3>1. a.tokens \in Grants /\ a.kind = "grant"
        BY <2>2
    <3>2. Grants \subseteq Nat
        BY LimiterAssumption
    <3>3. a.tokens \in Nat
        BY <3>1, <3>2
    <3>4. QED
        BY <2>1, <3>1, <3>3
  <2>3. CASE a \in [kind : {"zero"}, tokens : {0}, retryAfter : Hints]
    <3>1. a.tokens = 0 /\ a.kind = "zero"
        BY <2>3
    <3>2. QED
        BY <2>1, <3>1
  <2>4. CASE a \in [kind : {"error", "unknown"}, tokens : {0}, retryAfter : {0}]
    <3>1. a.tokens = 0 /\ a.kind \in {"error", "unknown"}
        BY <2>4
    <3>2. QED
        BY <2>1, <3>1
  <2>5. QED
      BY <2>2, <2>3, <2>4 DEF Answers
<1> DEFINE gone == IF a.kind = "unknown" THEN p.tokens ELSE 0
<1>4. PICK d : pool' = [pool EXCEPT ![k] = d] /\ d.tokens = p.tokens + a.tokens - gone
  <2>1. EndRenew(p) \in PoolType /\ EndRenew(p).tokens = p.tokens
      BY DEF EndRenew, PoolType
  <2>2. PICK e \in PoolType : e = EndRenew(p) /\ e.tokens = p.tokens
      BY <2>1
  <2>3. CASE a.kind = "unknown"
    <3>1. pool' = [pool EXCEPT ![k] = RenewUnknown(p, now)]
        BY <1>2, <2>3 DEF AccRenewLocked, RenewLocked
    <3>2. RenewUnknown(p, now).tokens = 0
        BY <2>2 DEF RenewUnknown, PoolType
    <3>3. 0 = p.tokens + a.tokens - gone
        BY <1>3, <2>3
    <3>4. QED
        BY <3>1, <3>2, <3>3
  <2>4. CASE a.kind = "error"
    <3>1. PICK delay : pool' = [pool EXCEPT ![k] = RenewError(p, now, delay)]
        BY <1>2, <2>4 DEF AccRenewLocked, RenewLocked
    <3>2. RenewError(p, now, delay).tokens = p.tokens
        BY <2>2 DEF RenewError, PoolType
    <3>3. p.tokens = p.tokens + a.tokens - gone
        BY <1>3, <2>4
    <3>4. QED
        BY <3>1, <3>2, <3>3
  <2>5. CASE a.kind = "zero"
    <3>1. PICK h : pool' = [pool EXCEPT ![k] = RenewZero(p, now, h)]
        BY <1>2, <2>5 DEF AccRenewLocked, RenewLocked
    <3>2. RenewZero(p, now, h).tokens = p.tokens
        BY <2>2 DEF RenewZero, PoolType
    <3>3. p.tokens = p.tokens + a.tokens - gone
        BY <1>3, <2>5
    <3>4. QED
        BY <3>1, <3>2, <3>3
  <2>6. CASE a.kind = "grant"
    <3>1. pool' = [pool EXCEPT ![k] = RenewGrant(p, now, a.tokens)]
        BY <1>2, <2>6 DEF AccRenewLocked, RenewLocked
    <3>2. RenewGrant(p, now, a.tokens).tokens = p.tokens + a.tokens
        BY <2>2 DEF RenewGrant, PoolType
    <3>3. p.tokens + a.tokens = p.tokens + a.tokens - gone
        BY <1>3, <2>6
    <3>4. QED
        BY <3>1, <3>2, <3>3
  <2>7. QED
      BY <1>3, <2>3, <2>4, <2>5, <2>6
<1>5. /\ ledger' \in [Keys -> LedgerType]
      /\ ledger'[k].leased = ledger[k].leased + a.tokens
      /\ ledger'[k].dropped = ledger[k].dropped + gone
      /\ ledger'[k].checks = ledger[k].checks /\ ledger'[k].unknown = ledger[k].unknown
      /\ \A x \in Keys : x # k => ledger'[x] = ledger[x]
  <2>1. ledger' = [ledger EXCEPT ![k].leased = @ + a.tokens, ![k].dropped = @ + gone]
      BY <1>2 DEF AccRenewLocked
  <2>2. PICK m \in Nat, n \in Nat : m = ledger[k].leased + a.tokens /\ n = ledger[k].dropped + gone
      BY <1>3, CountsAreNat
  <2>3. ledger \in [Keys -> LedgerType] /\ ledger[k] \in LedgerType
      BY DEF AInv
  <2> DEFINE v == [ledger[k] EXCEPT !.leased = m, !.dropped = n]
  <2> HIDE DEF gone
  <2>4. ledger' = [ledger EXCEPT ![k] = v]
      BY <2>1, <2>2, <2>3 DEF LedgerType
  <2>5. /\ v \in LedgerType /\ v.leased = m /\ v.dropped = n
        /\ v.checks = ledger[k].checks /\ v.unknown = ledger[k].unknown
      BY <2>3 DEF LedgerType
  <2> HIDE DEF v
  <2>6. QED
      BY <2>2, <2>3, <2>4, <2>5
<1>6. /\ counts' \in [Keys -> CountsType]
      /\ \A x \in Keys : /\ counts'[x].admitted = counts[x].admitted
                         /\ counts'[x].admittedTokens = counts[x].admittedTokens
                         /\ counts'[x].rejected = counts[x].rejected
  <2>1. PICK n \in Nat : Count(k, "leaseErrs", n)
      BY <1>2 DEF AccRenewLocked
  <2>2. QED
      BY <2>1 DEF Count, AInv, CountsType
<1>7. \A q \in Requests : /\ req'[q].pc = req[q].pc /\ req'[q].key = req[q].key
                          /\ req'[q].cost = req[q].cost /\ req'[q].admitted = req[q].admitted
  <2>1. ASSUME NEW q \in Requests
        PROVE  req'[q] = req[q] \/ req'[q] = [req[q] EXCEPT !.done = Closed]
      BY DEF AccRenewLocked, RenewLocked, CloseDone
  <2>2. QED
      BY <2>1 DEF IInv, TypeOK, ReqType
<1>8. \A x \in Keys : /\ Cardinality(InFlight(x)') = Cardinality(InFlight(x))
                      /\ Pending(x)' = Pending(x)
    BY <1>7, RequestsKept DEF IInv
<1>9. pool'[k] = d /\ \A x \in Keys : x # k => pool'[x] = pool[x]
    BY <1>4 DEF IInv, TypeOK
<1>10. \A x \in Keys : Accounted(x)'
    BY <1>5, <1>6, <1>8 DEF AInv, Accounted
<1>11. ASSUME NEW x \in Keys, x # k PROVE Conserved(x)'
    BY <1>5, <1>6, <1>8, <1>9, <1>11 DEF AInv, Conserved
<1>12. Conserved(k)'
  <2>1. Conserved(k)
      BY DEF AInv
  <2>2. /\ counts[k].admittedTokens \in Nat /\ ledger[k].dropped \in Nat
        /\ ledger[k].leased \in Nat /\ gone \in Nat
      BY <1>3, CountsAreNat
  <2>3. Pending(k) \in Nat
    <3>1. IsFiniteSet(Uncounted(k)) /\ Uncounted(k) \subseteq Requests
        BY AccountingAssumption, FS_Subset DEF Uncounted, InFlight
    <3>2. \A q \in Uncounted(k) : [x \in Requests |-> req[x].cost][q] \in Nat
        BY <3>1, LimiterAssumption DEF IInv, TypeOK, ReqType
    <3>3. QED
        BY <3>1, <3>2, SumNat DEF Pending
  <2> HIDE DEF gone
  <2>4. pool'[k].tokens = pool[k].tokens + a.tokens - gone /\ pool[k].tokens \in Nat
      BY <1>2, <1>3, <1>4, <1>9
  <2>5. QED
      BY <1>3, <1>5, <1>6, <1>8, <2>1, <2>2, <2>3, <2>4 DEF Conserved
<1>13. QED
    BY <1>5, <1>6, <1>7, <1>10, <1>11, <1>12 DEF AInv

\* A worker is killed: its requests, its pools and its counters go together.
LEMMA KillKept ==
    ASSUME IInv, TypeOK', AInv, NEW w \in Workers, AccWorkerCrash(w)
    PROVE  AInv'
<1>1. /\ NoCounts \in CountsType /\ NoLedger \in LedgerType
      /\ NoCounts.admitted = 0 /\ NoCounts.admittedTokens = 0 /\ NoCounts.rejected = 0
      /\ NoLedger.leased = 0 /\ NoLedger.dropped = 0 /\ NoLedger.checks = 0
      /\ NoLedger.unknown = 0 /\ NewPool.tokens = 0
    BY DEF NoCounts, NoLedger, CountsType, LedgerType, NewPool
<1>2. /\ counts' = [k \in Keys |-> IF k[1] = w THEN NoCounts ELSE counts[k]]
      /\ ledger' = [k \in Keys |-> IF k[1] = w THEN NoLedger ELSE ledger[k]]
      /\ pool' = [k \in Keys |-> IF k[1] = w THEN NewPool ELSE pool[k]]
    BY DEF AccWorkerCrash, WorkerCrash
<1>3. \A q \in Requests :
        req'[q] = IF req[q].pc # "idle" /\ req[q].key[1] = w THEN IdleReq ELSE req[q]
    BY DEF AccWorkerCrash, WorkerCrash
<1>4. counts' \in [Keys -> CountsType] /\ ledger' \in [Keys -> LedgerType]
  <2>1. counts \in [Keys -> CountsType] /\ ledger \in [Keys -> LedgerType]
      BY DEF AInv
  <2>2. counts' \in [Keys -> CountsType]
      BY <1>1, <1>2, <2>1
  <2>3. ledger' \in [Keys -> LedgerType]
      BY <1>1, <1>2, <2>1
  <2>4. QED
      BY <2>2, <2>3
<1>5. \A q \in Requests : req'[q].pc # "count" => req'[q].admitted = FALSE
    BY <1>3 DEF AInv, IdleReq
<1>6. ASSUME NEW k \in Keys, k[1] = w PROVE Conserved(k)' /\ Accounted(k)'
  <2>1. InFlight(k)' = {}
      BY <1>3, <1>6 DEF InFlight, IdleReq
  <2>2. Uncounted(k)' = {}
      BY <2>1 DEF Uncounted
  <2>3. Pending(k)' = 0 /\ Cardinality(InFlight(k)') = 0
      BY <2>1, <2>2, SumEmpty, FS_EmptySet DEF Pending
  <2>4. counts'[k] = NoCounts /\ ledger'[k] = NoLedger /\ pool'[k] = NewPool
      BY <1>2, <1>6
  <2>5. QED
      BY <1>1, <2>3, <2>4 DEF Conserved, Accounted
<1>7. ASSUME NEW k \in Keys, k[1] # w PROVE Conserved(k)' /\ Accounted(k)'
  <2>1. counts'[k] = counts[k] /\ ledger'[k] = ledger[k] /\ pool'[k] = pool[k]
      BY <1>2, <1>7
  <2>2. /\ InFlight(k)' = InFlight(k)
        /\ \A q \in InFlight(k) : req'[q] = req[q]
      BY <1>3, <1>7 DEF InFlight, IdleReq
  <2>3. /\ Uncounted(k)' = Uncounted(k) /\ Uncounted(k) \subseteq InFlight(k)
        /\ InFlight(k) \subseteq Requests
      BY <2>2 DEF Uncounted, InFlight
  <2> DEFINE f == [q \in Requests |-> req[q].cost]
             g == [q \in Requests |-> req'[q].cost]
  <2>4. /\ \A q \in Uncounted(k) : f[q] \in Int
        /\ \A q \in Uncounted(k) : f[q] = g[q]
    <3>1. \A q \in Requests : req[q].cost \in Int
        BY LimiterAssumption DEF IInv, TypeOK, ReqType
    <3>2. QED
        BY <2>2, <2>3, <3>1
  <2>5. IsFiniteSet(Uncounted(k))
      BY <2>3, AccountingAssumption, FS_Subset
  <2>6. Pending(k) = SumFunctionOnSet(f, Uncounted(k))
        /\ Pending(k)' = SumFunctionOnSet(g, Uncounted(k))
      BY <2>3 DEF Pending
  <2> HIDE DEF f, g
  <2>7. Pending(k)' = Pending(k)
      BY <2>4, <2>5, <2>6, SumSame
  <2>8. QED
      BY <2>1, <2>2, <2>7 DEF AInv, Conserved, Accounted
<1>8. QED
    BY <1>4, <1>5, <1>6, <1>7 DEF AInv

-----------------------------------------------------------------------------
(* The theorems *)

\* Counting does not disturb the limiter.
LEMMA CountingObserves == AccSpec => Spec
<1>1. AccInit => Init
    BY DEF AccInit
<1>2. [AccNext]_accVars => [Next]_vars
  <2>1. ASSUME AccNext PROVE [Next]_vars
    <3>1. CASE \E q \in Requests, k \in Keys, c \in Costs : AccCheckStart(q, k, c)
        BY <3>1 DEF AccCheckStart, Next
    <3>2. ASSUME NEW q \in Requests, \/ AccCheckUnknown(q) \/ AccCheckLocked(q)
                                     \/ AccWait(q) \/ AccCheckReturn(q)
          PROVE  Next
      <4>1. CheckStep(q)
          BY <3>2 DEF AccCheckUnknown, AccCheckLocked, AccWait, AccCheckReturn, CheckStep
      <4>2. QED
          BY <4>1 DEF Next
    <3>3. ASSUME NEW r \in Renewers, AccRenewCall(r) \/ AccRenewLocked(r) PROVE Next
        BY <3>3 DEF AccRenewCall, AccRenewLocked, Next
    <3>4. ASSUME NEW r \in Renewers, NEW a \in Answers, AccLeaseReturn(r, a) PROVE Next
        BY <3>4 DEF AccLeaseReturn, Next
    <3>5. ASSUME NEW w \in Workers, AccWorkerCrash(w) PROVE Next
        BY <3>5 DEF AccWorkerCrash, Next
    <3>6. CASE AccTick
        BY <3>6 DEF AccTick, Next
    <3>7. QED
        BY <2>1, <3>1, <3>2, <3>3, <3>4, <3>5, <3>6 DEF AccNext
  <2>2. UNCHANGED accVars => UNCHANGED vars
      BY DEF accVars
  <2>3. QED
      BY <2>1, <2>2
<1>3. QED
    BY <1>1, <1>2, PTL DEF AccSpec, Spec

\* The accounts are kept in every reachable state of the fleet.
THEOREM AccountsKept == AccSpec => []AInv
<1>1. AccInit => AInv
  <2> SUFFICES ASSUME AccInit PROVE AInv
      OBVIOUS
  <2>1. /\ NoCounts \in CountsType /\ NoLedger \in LedgerType
        /\ NoCounts.admitted = 0 /\ NoCounts.admittedTokens = 0 /\ NoCounts.rejected = 0
        /\ NoLedger.leased = 0 /\ NoLedger.dropped = 0 /\ NoLedger.checks = 0
        /\ NoLedger.unknown = 0 /\ NewPool.tokens = 0
      BY DEF NoCounts, NoLedger, CountsType, LedgerType, NewPool
  <2>2. \A q \in Requests : req[q].pc = "idle" /\ req[q].admitted = FALSE
      BY DEF AccInit, Init, IdleReq
  <2>3. counts \in [Keys -> CountsType] /\ ledger \in [Keys -> LedgerType]
      BY <2>1 DEF AccInit
  <2>4. ASSUME NEW k \in Keys PROVE Conserved(k) /\ Accounted(k)
    <3>1. InFlight(k) = {} /\ Uncounted(k) = {}
        BY <2>2 DEF InFlight, Uncounted
    <3>2. Pending(k) = 0 /\ Cardinality(InFlight(k)) = 0
        BY <3>1, SumEmpty, FS_EmptySet DEF Pending
    <3>3. counts[k] = NoCounts /\ ledger[k] = NoLedger /\ pool[k] = NewPool
        BY DEF AccInit, Init
    <3>4. QED
        BY <2>1, <3>2, <3>3 DEF Conserved, Accounted
  <2>5. QED
      BY <2>2, <2>3, <2>4 DEF AInv
<1>2. IInv /\ TypeOK' /\ AInv /\ [AccNext]_accVars => AInv'
  <2> SUFFICES ASSUME IInv, TypeOK', AInv, [AccNext]_accVars PROVE AInv'
      OBVIOUS
  <2>1. ASSUME NEW q \in Requests, NEW k \in Keys, NEW c \in Costs, AccCheckStart(q, k, c)
        PROVE  AInv'
      BY <2>1, StartKept
  <2>2. ASSUME NEW q \in Requests, \/ AccCheckUnknown(q) \/ AccCheckLocked(q)
                                   \/ AccWait(q) \/ AccCheckReturn(q)
        PROVE  AInv'
      BY <2>2, UnknownKept, DecisionKept, WaitKept, ReturnKept
  <2>3. ASSUME NEW r \in Renewers, AccRenewLocked(r) PROVE AInv'
      BY <2>3, RenewKept
  <2>4. ASSUME UNCHANGED <<pool, req, ledger>>, counts' \in [Keys -> CountsType],
               \A x \in Keys : /\ counts'[x].admitted = counts[x].admitted
                               /\ counts'[x].admittedTokens = counts[x].admittedTokens
                               /\ counts'[x].rejected = counts[x].rejected
        PROVE  AInv'
    <3>1. \A k \in Keys : InFlight(k)' = InFlight(k) /\ Pending(k)' = Pending(k)
        BY <2>4, RequestsKept DEF IInv
    <3>2. ASSUME NEW k \in Keys PROVE Conserved(k)' /\ Accounted(k)'
        BY <2>4, <3>1 DEF AInv, Conserved, Accounted
    <3>3. QED
        BY <2>4, <3>2 DEF AInv
  <2>5. ASSUME NEW r \in Renewers, AccRenewCall(r) PROVE AInv'
    <3>1. PICK k \in Keys : k = renewer[r].key
        BY <2>5 DEF AccRenewCall, RenewCall, IInv, TypeOK
    <3>2. Count(k, "leaseCalls", 1) /\ UNCHANGED <<pool, req, ledger>>
        BY <2>5, <3>1 DEF AccRenewCall, RenewCall
    <3>3. /\ counts' \in [Keys -> CountsType]
          /\ \A x \in Keys : /\ counts'[x].admitted = counts[x].admitted
                             /\ counts'[x].admittedTokens = counts[x].admittedTokens
                             /\ counts'[x].rejected = counts[x].rejected
        BY <3>2 DEF Count, AInv, CountsType
    <3>4. QED
        BY <2>4, <3>2, <3>3
  <2>6. ASSUME NEW w \in Workers, AccWorkerCrash(w) PROVE AInv'
      BY <2>6, KillKept
  <2>7. CASE \/ \E r \in Renewers, a \in Answers : AccLeaseReturn(r, a)
             \/ AccTick \/ UNCHANGED accVars
    <3>1. UNCHANGED <<pool, req, ledger, counts>>
        BY <2>7 DEF AccLeaseReturn, LeaseReturn, AccTick, Tick, accVars, vars
    <3>2. counts \in [Keys -> CountsType]
        BY DEF AInv
    <3>3. QED
        BY <2>4, <3>1, <3>2
  <2>8. QED
      BY <2>1, <2>2, <2>3, <2>5, <2>6, <2>7 DEF AccNext
<1>3. QED
    BY <1>1, <1>2, CountingObserves, Inductive, TypeCorrect, PTL DEF AccSpec

\* No token is spent twice or lost, in any pool, whatever requests share a
\* renewal, time out, or are killed with their worker.
THEOREM TokensAreConserved == AccSpec => []TokensConserved
<1>1. AInv => TokensConserved
    BY DEF AInv, TokensConserved, Conserved
<1>2. QED
    BY <1>1, AccountsKept, PTL

\* Every Check that began is counted once, answered Unknown, or in flight.
THEOREM ChecksAreAccounted == AccSpec => []ChecksAccounted
<1>1. AInv => ChecksAccounted
    BY DEF AInv, ChecksAccounted, Accounted
<1>2. QED
    BY <1>1, AccountsKept, PTL
=============================================================================
