-------------------------- MODULE CoordinatorProofs --------------------------
(***************************************************************************)
(* Proofs about the coordinator for every configuration Load accepts,      *)
(* every number of handlers and every sequence of kills and starts.        *)
(***************************************************************************)
EXTENDS Coordinator, FiniteSetTheorems, TLAPS

-----------------------------------------------------------------------------
(* Arithmetic: the only nonlinear facts the proofs need. *)

\* Multiplication distributes over a sum and keeps the sign.
LEMMA Distribute ==
    ASSUME NEW a \in Int, NEW b \in Int, NEW c \in Int
    PROVE  /\ (a + b) * c = a * c + b * c
           /\ (a - b) * c = a * c - b * c
           /\ c * (a + b) = c * a + c * b
           /\ c * (a - b) = c * a - c * b
           /\ a * c \in Int
    BY Z3

\* A product of naturals is a natural, and grows with either factor.
LEMMA ProductNat ==
    ASSUME NEW a \in Nat, NEW b \in Nat
    PROVE  a * b \in Nat
    BY Z3

\* What a rate earns over adjacent intervals adds up.
LEMMA Span ==
    ASSUME NEW r \in Int, NEW a \in Int, NEW b \in Int, NEW c \in Int
    PROVE  /\ r * (b - a) \in Int /\ r * (c - b) \in Int /\ r * (c - a) \in Int
           /\ r * (c - a) = r * (b - a) + r * (c - b)
    BY Z3

\* One more start of the process allows one more burst.
LEMMA OneMore ==
    ASSUME NEW c \in Int, NEW n \in Int
    PROVE  /\ c * (1 + n) \in Int
           /\ c * (1 + (n + 1)) = c * (1 + n) + c
    BY Z3

\* Truncating division is exact up to a remainder below the divisor.
LEMMA DivFacts ==
    ASSUME NEW x \in Nat, NEW u \in Nat \ {0}
    PROVE  /\ x \div u \in Nat
           /\ (x \div u) * u <= x
           /\ x < ((x \div u) + 1) * u
    BY Z3

-----------------------------------------------------------------------------
(* The bucket's operations *)

\* Refilling keeps a bucket within its capacity, never moves `last' back and
\* adds at most what the rate earned since the last refill.
LEMMA RefillFacts ==
    ASSUME NEW cap \in Nat, NEW rate \in Nat, NEW now \in Nat,
           NEW b \in BucketType(cap)
    PROVE  LET f == RefillLocked(b, rate, cap, now)
           IN  /\ f \in BucketType(cap)
               /\ f.last = IF now > b.last THEN now ELSE b.last
               /\ f.tokens <= b.tokens + rate * (f.last - b.last)
<1>1. b.tokens \in Nat /\ b.last \in Nat /\ b.tokens <= cap
    BY DEF BucketType
<1>2. CASE now > b.last
  <2>1. rate * (now - b.last) \in Nat
      BY <1>1, <1>2, ProductNat
  <2>2. QED
      BY <1>1, <1>2, <2>1 DEF RefillLocked, BucketType
<1>3. CASE ~(now > b.last)
  <2>1. rate * (b.last - b.last) = 0
      BY <1>1
  <2>2. QED
      BY <1>1, <1>3, <2>1 DEF RefillLocked, BucketType
<1>4. QED
    BY <1>2, <1>3

\* A grant is at most n whole tokens, all of them in the bucket, and the
\* debit removes exactly them.
LEMMA TakeFacts ==
    ASSUME NEW cap \in Nat, NEW n \in Nat, NEW b \in BucketType(cap)
    PROVE  /\ TakenUpTo(b, n) \in 0..n
           /\ TakenUpTo(b, n) * Unit <= b.tokens
           /\ Debit(b, TakenUpTo(b, n)) \in BucketType(cap)
           /\ Debit(b, TakenUpTo(b, n)).tokens = b.tokens - TakenUpTo(b, n) * Unit
           /\ Debit(b, TakenUpTo(b, n)).last = b.last
<1> DEFINE g == TakenUpTo(b, n)
<1>1. b.tokens \in Nat /\ b.tokens <= cap /\ b.last \in Nat
    BY DEF BucketType
<1>2. Whole(b) \in Nat /\ Whole(b) * Unit <= b.tokens
    BY <1>1, DivFacts, BucketAssumption DEF Whole
<1>3. g \in 0..n /\ g <= Whole(b)
    BY <1>2 DEF TakenUpTo
<1>4. (Whole(b) - g) * Unit \in Nat
    BY <1>2, <1>3, ProductNat, BucketAssumption
<1>5. (Whole(b) - g) * Unit = Whole(b) * Unit - g * Unit
    BY <1>2, <1>3, Distribute, BucketAssumption
<1>6. g * Unit \in Nat
    BY <1>3, ProductNat, BucketAssumption
<1>7. Whole(b) * Unit \in Nat
    BY <1>2, ProductNat, BucketAssumption
<1>8. g * Unit <= b.tokens
    BY <1>1, <1>2, <1>4, <1>5, <1>6, <1>7
<1>9. QED
  <2> HIDE DEF g
  <2>1. b.tokens - g * Unit \in 0..cap
      BY <1>1, <1>6, <1>8
  <2>2. Debit(b, g) = [tokens |-> b.tokens - g * Unit, last |-> b.last]
      BY DEF Debit, BucketType
  <2>3. QED
      BY <1>1, <1>3, <1>8, <2>1, <2>2 DEF BucketType, g

\* Waiting the hint, counted from any instant not before the last refill,
\* leaves at least one whole token in a bucket that can hold one.
LEMMA HintFacts ==
    ASSUME NEW cap \in Nat, NEW rate \in Nat \ {0}, NEW at \in Nat,
           NEW b \in BucketType(cap), cap >= Unit, b.last <= at
    PROVE  /\ RetryAfterMs(b, rate) \in Nat \ {0}
           /\ RefillLocked(b, rate, cap, at + Ms * RetryAfterMs(b, rate)).tokens >= Unit
<1> DEFINE d == NextTokenIn(b, rate)
           ms == RetryAfterMs(b, rate)
           wait == Ms * ms
<1>0. b.tokens \in Nat /\ b.last \in Nat /\ Unit \in Nat /\ Ms \in Nat \ {0}
    BY BucketAssumption DEF BucketType
<1>1. d \in Nat /\ (d + 1) * rate + b.tokens >= Unit
  <2>1. CASE b.tokens >= Unit
    <3>1. d = 0 /\ rate * 1 = rate /\ (0 + 1) * rate = rate
        BY <2>1 DEF NextTokenIn
    <3>2. QED
        BY <1>0, <2>1, <3>1
  <2>2. CASE ~(b.tokens >= Unit)
    <3>1. d = (Unit - b.tokens) \div rate
        BY <2>2 DEF NextTokenIn
    <3>2. Unit - b.tokens \in Nat
        BY <1>0, <2>2
    <3>3. d \in Nat /\ Unit - b.tokens < (d + 1) * rate
        BY <3>1, <3>2, DivFacts
    <3>4. (d + 1) * rate \in Nat
        BY <3>3, ProductNat
    <3>5. QED
        BY <1>0, <3>3, <3>4
  <2>3. QED
      BY <2>1, <2>2
<1> HIDE DEF d
<1>2. ms = (d \div Ms) + 1
    BY DEF RetryAfterMs, d
<1>3. ms \in Nat \ {0} /\ d < ms * Ms
    BY <1>0, <1>1, <1>2, DivFacts
<1> HIDE DEF ms
<1>4. wait \in Nat /\ wait >= d + 1
  <2>1. ms * Ms = Ms * ms /\ Ms * ms \in Nat
      BY <1>0, <1>3, ProductNat
  <2>2. QED
      BY <1>1, <1>3, <2>1
<1> HIDE DEF wait
<1>5. rate * (at + wait - b.last) >= (d + 1) * rate
  <2> DEFINE e == at + wait - b.last
  <2>1. e \in Nat /\ e - (d + 1) \in Nat
      BY <1>0, <1>1, <1>4
  <2>2. (e - (d + 1)) * rate \in Nat
      BY <2>1, ProductNat
  <2> HIDE DEF e
  <2>3. (e - (d + 1)) * rate = e * rate - (d + 1) * rate
      BY <2>1, <1>1, Distribute
  <2>4. e * rate = rate * e /\ e * rate \in Nat /\ (d + 1) * rate \in Nat
      BY <2>1, <1>1, ProductNat
  <2>5. rate * e >= (d + 1) * rate
      BY <2>2, <2>3, <2>4
  <2>6. QED
      BY <2>5 DEF e
<1>6. rate * (at + wait - b.last) \in Nat /\ (d + 1) * rate \in Nat
  <2>1. at + wait - b.last \in Nat
      BY <1>0, <1>4
  <2>2. QED
      BY <2>1, <1>1, ProductNat
<1>7. at + wait > b.last
    BY <1>0, <1>1, <1>4
<1>8. RefillLocked(b, rate, cap, at + wait).tokens >= Unit
    BY <1>0, <1>1, <1>4, <1>5, <1>6, <1>7 DEF RefillLocked
<1>9. QED
    BY <1>3, <1>8 DEF wait, ms

-----------------------------------------------------------------------------
(* Type correctness *)

\* What Load's checks give: rates, capacities and the lease are positive.
LEMMA LoadFacts ==
    /\ LeaseSize \in Nat \ {0}
    /\ \A t \in Tenants : Rate[t] \in Nat \ {0} /\ Cap(t) \in Nat
<1>1. \A t \in Tenants : Rate[t] \in Nat \ {0}
    BY CoordinatorAssumption DEF Load
<1>2. \A t \in Tenants : Cap(t) \in Nat
    BY <1>1, ProductNat, CoordinatorAssumption DEF Cap
<1>3. QED
    BY <1>1, <1>2, CoordinatorAssumption DEF Load

\* Replacing one handler's locals by well-typed ones leaves the others alone.
LEMMA HandlerUpdate ==
    ASSUME handler \in [Handlers -> HandlerType], NEW h \in Handlers,
           NEW r \in HandlerType, handler' = [handler EXCEPT ![h] = r]
    PROVE  /\ handler' \in [Handlers -> HandlerType]
           /\ handler'[h] = r
           /\ \A k \in Handlers : k # h => handler'[k] = handler[k]
    OBVIOUS

\* Advancing one handler to another statement changes nothing else of it.
LEMMA PcUpdate ==
    ASSUME handler \in [Handlers -> HandlerType], NEW h \in Handlers,
           NEW p \in {"idle", "take", "zero", "hint", "grant", "reply"},
           handler' = [handler EXCEPT ![h].pc = p]
    PROVE  /\ handler' \in [Handlers -> HandlerType]
           /\ handler'[h].pc = p
           /\ \A k \in Handlers : /\ handler'[k].tenant = handler[k].tenant
                                  /\ handler'[k].now = handler[k].now
                                  /\ k # h => handler'[k] = handler[k]
<1> DEFINE r == [handler[h] EXCEPT !.pc = p]
<1>1. handler[h] \in HandlerType
    OBVIOUS
<1>2. /\ r \in HandlerType /\ r.pc = p
      /\ r.tenant = handler[h].tenant /\ r.now = handler[h].now
    BY <1>1 DEF HandlerType
<1>3. handler' = [handler EXCEPT ![h] = r]
    OBVIOUS
<1> HIDE DEF r
<1>4. QED
    BY <1>2, <1>3, HandlerUpdate

\* A process that has just started is well typed.
LEMMA InitTyped ==
    ASSUME Init
    PROVE  TypeOK
<1>1. \A t \in Tenants : bucket[t] \in BucketType(Cap(t))
    BY LoadFacts DEF Init, NewBucket, BucketType
<1>2. bucket \in [Tenants -> [tokens : Nat, last : Nat]]
    BY LoadFacts DEF Init, NewBucket
<1>3. QED
    BY <1>1, <1>2, LoadFacts DEF Init, TypeOK, Zero, Idle, HandlerType, Bodies

\* Every step keeps the types.
LEMMA StepTyped ==
    ASSUME TypeOK, [Next]_vars
    PROVE  TypeOK'
<1>1. ASSUME NEW h \in Handlers, NEW t \in Tenants, HandleLease(h, t)
      PROVE  TypeOK'
  <2> DEFINE r == [handler[h] EXCEPT !.pc = "take", !.tenant = t, !.now = clock]
  <2>1. handler[h] \in HandlerType /\ clock \in Nat
      BY DEF TypeOK
  <2>2. r \in HandlerType /\ r.tenant \in Tenants
      BY <2>1 DEF HandlerType, Bodies
  <2>3. handler' = [handler EXCEPT ![h] = r]
      BY <1>1 DEF HandleLease, TypeOK
  <2> HIDE DEF r
  <2>4. /\ handler' \in [Handlers -> HandlerType]
        /\ \A k \in Handlers : handler'[k].pc \in {"take", "zero", "hint", "grant"}
                                 => handler'[k].tenant \in Tenants
      BY <2>2, <2>3, HandlerUpdate DEF TypeOK
  <2>5. QED
      BY <1>1, <2>4 DEF TypeOK, HandleLease, window
<1>1a. ASSUME NEW h \in Handlers, NEW body \in Bodies, RefuseLease(h, body)
       PROVE  TypeOK'
  <2> DEFINE code == IF body = Malformed THEN 400 ELSE 404
             r == [handler[h] EXCEPT !.pc = "reply", !.tenant = body, !.status = code]
  <2>1. handler[h] \in HandlerType /\ code \in {400, 404}
      BY DEF TypeOK
  <2> HIDE DEF code
  <2>2. r \in HandlerType /\ r.pc = "reply"
      BY <2>1 DEF HandlerType
  <2>3. handler' = [handler EXCEPT ![h] = r]
      BY <1>1a DEF RefuseLease, TypeOK, code
  <2> HIDE DEF r
  <2>4. /\ handler' \in [Handlers -> HandlerType]
        /\ \A k \in Handlers : handler'[k].pc \in {"take", "zero", "hint", "grant"}
                                 => handler'[k].tenant \in Tenants
      BY <2>2, <2>3, HandlerUpdate DEF TypeOK
  <2>5. QED
      BY <1>1a, <2>4 DEF TypeOK, RefuseLease, counters, window
<1>2. ASSUME NEW h \in Handlers, TakeUpTo(h) PROVE TypeOK'
  <2> DEFINE t == handler[h].tenant
             b == RefillLocked(bucket[t], Rate[t], Cap(t), handler[h].now)
             g == TakenUpTo(b, LeaseSize)
  <2>1. t \in Tenants /\ handler[h].now \in Nat
      BY <1>2 DEF TypeOK, TakeUpTo, HandlerType
  <2>2. b \in BucketType(Cap(t))
      BY <2>1, RefillFacts, LoadFacts DEF TypeOK
  <2>3. g \in 0..LeaseSize /\ Debit(b, g) \in BucketType(Cap(t))
      BY <2>1, <2>2, TakeFacts, LoadFacts
  <2>4. /\ bucket' = [bucket EXCEPT ![t] = Debit(b, g)]
        /\ handler' = [handler EXCEPT ![h] =
             [@ EXCEPT !.granted = g, !.pc = IF g = 0 THEN "zero" ELSE "grant"]]
        /\ winFresh' = winFresh \/ winFresh' = [winFresh EXCEPT ![t] = @ + g]
        /\ winStale' = winStale \/ winStale' = [winStale EXCEPT ![t] = @ + g]
        /\ UNCHANGED <<clock, up, started, leaseRequests, zeroGrants,
                       tokensGranted, winStart, winLate, winStarts>>
      BY <1>2 DEF TakeUpTo, counters
  <2> HIDE DEF b, g
  <2>5. g \in Nat
      BY <2>3
  <2>6. /\ bucket' \in [Tenants -> [tokens : Nat, last : Nat]]
        /\ \A s \in Tenants : bucket'[s] \in BucketType(Cap(s))
      BY <2>1, <2>3, <2>4 DEF TypeOK, BucketType
  <2>7. /\ handler' \in [Handlers -> HandlerType]
        /\ handler'[h].tenant = t
        /\ \A k \in Handlers : k # h => handler'[k] = handler[k]
    <3> DEFINE r == [handler[h] EXCEPT
                       !.granted = g, !.pc = IF g = 0 THEN "zero" ELSE "grant"]
    <3>1. handler[h] \in HandlerType
        BY DEF TypeOK
    <3>2. r \in HandlerType /\ r.tenant = t
        BY <2>3, <3>1 DEF HandlerType
    <3>3. handler' = [handler EXCEPT ![h] = r]
        BY <2>4 DEF TypeOK
    <3> HIDE DEF r
    <3>4. QED
        BY <3>2, <3>3, HandlerUpdate DEF TypeOK
  <2>8. winFresh' \in [Tenants -> Nat] /\ winStale' \in [Tenants -> Nat]
    <3> HIDE DEF t
    <3>1. winFresh' \in [Tenants -> Nat]
        BY <2>1, <2>4, <2>5 DEF TypeOK
    <3>2. winStale' \in [Tenants -> Nat]
        BY <2>1, <2>4, <2>5 DEF TypeOK
    <3>3. QED
        BY <3>1, <3>2
  <2>9. QED
      BY <2>1, <2>4, <2>6, <2>7, <2>8 DEF TypeOK
<1>3. ASSUME NEW h \in Handlers, CountZero(h) PROVE TypeOK'
  <2>1. /\ handler' = [handler EXCEPT ![h].pc = "hint"]
        /\ handler[h].pc \in {"zero", "grant"} /\ handler[h].tenant \in Tenants
      BY <1>3 DEF CountZero, TypeOK
  <2>2. /\ handler' \in [Handlers -> HandlerType]
        /\ \A k \in Handlers : handler'[k].pc \in {"take", "zero", "hint", "grant"}
                                 => handler'[k].tenant \in Tenants
      BY <2>1, PcUpdate DEF TypeOK
  <2>3. handler[h].granted \in Nat
      BY LoadFacts DEF TypeOK, HandlerType
  <2>4. QED
      BY <1>3, <2>1, <2>2, <2>3 DEF TypeOK, CountZero, window
<1>4. ASSUME NEW h \in Handlers, ZeroGrant(h) PROVE TypeOK'
  <2> DEFINE t == handler[h].tenant
             b == RefillLocked(bucket[t], Rate[t], Cap(t), handler[h].now)
  <2>1. t \in Tenants /\ handler[h].now \in Nat
      BY <1>4 DEF TypeOK, ZeroGrant, HandlerType
  <2>2. b \in BucketType(Cap(t))
      BY <2>1, RefillFacts, LoadFacts DEF TypeOK
  <2>3. RetryAfterMs(b, Rate[t]) \in Nat
    <3>1. NextTokenIn(b, Rate[t]) \in Nat
      <4>1. CASE b.tokens >= Unit
          BY <4>1 DEF NextTokenIn
      <4>2. CASE ~(b.tokens >= Unit)
        <5>1. Unit - b.tokens \in Nat
            BY <2>2, <4>2, BucketAssumption DEF BucketType
        <5>2. (Unit - b.tokens) \div Rate[t] \in Nat
            BY <2>1, <5>1, DivFacts, LoadFacts
        <5>3. QED
            BY <4>2, <5>2 DEF NextTokenIn
      <4>3. QED
          BY <4>1, <4>2
    <3>2. QED
        BY <3>1, DivFacts, BucketAssumption DEF RetryAfterMs
  <2>4. /\ bucket' = [bucket EXCEPT ![t] = b]
        /\ handler' = [handler EXCEPT ![h] =
             [@ EXCEPT !.retryAfter = RetryAfterMs(b, Rate[t]), !.pc = "reply"]]
        /\ UNCHANGED <<clock, up, started, leaseRequests, zeroGrants,
                       tokensGranted, winStart, winFresh, winStale, winLate, winStarts>>
      BY <1>4 DEF ZeroGrant, counters, window
  <2> HIDE DEF b
  <2>5. /\ bucket' \in [Tenants -> [tokens : Nat, last : Nat]]
        /\ \A s \in Tenants : bucket'[s] \in BucketType(Cap(s))
      BY <2>1, <2>2, <2>4 DEF TypeOK, BucketType
  <2>6. /\ handler' \in [Handlers -> HandlerType]
        /\ handler'[h].pc = "reply"
        /\ \A k \in Handlers : k # h => handler'[k] = handler[k]
    <3> DEFINE r == [handler[h] EXCEPT
                       !.retryAfter = RetryAfterMs(b, Rate[t]), !.pc = "reply"]
    <3>1. handler[h] \in HandlerType
        BY DEF TypeOK
    <3>2. r \in HandlerType /\ r.pc = "reply"
        BY <2>3, <3>1 DEF HandlerType
    <3>3. handler' = [handler EXCEPT ![h] = r]
        BY <2>4 DEF TypeOK
    <3> HIDE DEF r
    <3>4. QED
        BY <3>2, <3>3, HandlerUpdate DEF TypeOK
  <2>7. QED
      BY <2>4, <2>5, <2>6 DEF TypeOK
<1>5. ASSUME NEW h \in Handlers, CountGrant(h) PROVE TypeOK'
  <2>1. /\ handler' = [handler EXCEPT ![h].pc = "reply"]
        /\ handler[h].pc \in {"zero", "grant"} /\ handler[h].tenant \in Tenants
      BY <1>5 DEF CountGrant, TypeOK
  <2>2. /\ handler' \in [Handlers -> HandlerType]
        /\ \A k \in Handlers : handler'[k].pc \in {"take", "zero", "hint", "grant"}
                                 => handler'[k].tenant \in Tenants
      BY <2>1, PcUpdate DEF TypeOK
  <2>3. handler[h].granted \in Nat
      BY LoadFacts DEF TypeOK, HandlerType
  <2>4. QED
      BY <1>5, <2>1, <2>2, <2>3 DEF TypeOK, CountGrant, window
<1>6. ASSUME NEW h \in Handlers, Reply(h) PROVE TypeOK'
  <2>1. Idle \in HandlerType /\ Idle.pc = "idle"
      BY LoadFacts DEF Idle, HandlerType, Bodies
  <2>2. QED
      BY <1>6, <2>1, HandlerUpdate DEF TypeOK, Reply, counters, window
<1>7. CASE Crash
  <2>1. Idle \in HandlerType /\ Idle.pc = "idle"
      BY LoadFacts DEF Idle, HandlerType, Bodies
  <2>2. QED
      BY <1>7, <2>1 DEF TypeOK, Crash, counters, window
<1>8. CASE Start
  <2>1. \A t \in Tenants : bucket'[t] \in BucketType(Cap(t))
      BY <1>8, LoadFacts DEF Start, NewBucket, BucketType, TypeOK
  <2>2. bucket' \in [Tenants -> [tokens : Nat, last : Nat]]
      BY <1>8, LoadFacts DEF Start, NewBucket, TypeOK
  <2>3. QED
      BY <1>8, <2>1, <2>2 DEF TypeOK, Start, Zero
<1>9. CASE Tick
    BY <1>9 DEF TypeOK, Tick, counters, window
<1>10. CASE OpenWindow
  <2>1. \A t \in Tenants : Cardinality(Late(t, clock)) \in Nat
    <3>1. TAKE t \in Tenants
    <3>2. Late(t, clock) \subseteq Handlers
        BY DEF Late
    <3>3. QED
        BY <3>2, FS_Subset, FS_CardinalityType, CoordinatorAssumption
  <2>2. QED
      BY <1>10, <2>1 DEF TypeOK, OpenWindow, counters
<1>11. CASE UNCHANGED vars
    BY <1>11 DEF TypeOK, vars, counters, window
<1>12. QED
    BY <1>1, <1>1a, <1>2, <1>3, <1>4, <1>5, <1>6, <1>7, <1>8, <1>9, <1>10, <1>11
    DEF Next, HandlerStep

\* Every reachable state of the coordinator is well typed: in particular no
\* bucket ever holds a negative balance or more than its capacity.
THEOREM TypeCorrect == Spec => []TypeOK
    BY InitTyped, StepTyped, PTL DEF Spec

-----------------------------------------------------------------------------
(***************************************************************************)
(* The core guarantee.  WindowBound is not inductive: it says nothing of   *)
(* the balance of the bucket, which the next grant spends.  The            *)
(* strengthening counts that balance too, up to the last refill, and says  *)
(* that nobody has read, or refilled to, an instant in the future.         *)
(***************************************************************************)

\* Tenant t's balance and its fresh grants fit the allowance at the last refill.
WindowInv(t) ==
    IF winStart = 0 \/ bucket[t].last < winStart
    THEN winFresh[t] = 0
    ELSE winFresh[t] * Unit + bucket[t].tokens
           <= Allowance(t, winStart, bucket[t].last, winStarts)

IInv == /\ TypeOK
        /\ winStart <= clock
        /\ \A h \in Handlers : handler[h].now <= clock
        /\ \A t \in Tenants : bucket[t].last <= clock
        /\ \A t \in Tenants : WindowInv(t)

\* A refill and a grant of g tokens by a handler that read `now' keep
\* WindowInv: this is where an old now must not move `last' back.
LEMMA GrantKeepsWindow ==
    ASSUME IInv, NEW t \in Tenants, NEW now \in Nat, NEW g \in Nat,
           NEW b \in BucketType(Cap(t)),
           b = RefillLocked(bucket[t], Rate[t], Cap(t), now),
           g * Unit <= b.tokens,
           bucket'[t].tokens = b.tokens - g * Unit, bucket'[t].last = b.last,
           winFresh'[t] = IF winStart > 0 /\ now >= winStart
                          THEN winFresh[t] + g ELSE winFresh[t],
           winStart' = winStart, winStarts' = winStarts
    PROVE  WindowInv(t)'
<1> DEFINE old == bucket[t]
           u == g * Unit
           F == winFresh[t] * Unit
           earned == Rate[t] * (b.last - old.last)
<1>1. /\ old \in BucketType(Cap(t)) /\ old.tokens \in Nat /\ old.last \in Nat
      /\ b.tokens \in Nat /\ b.last \in Nat /\ b.tokens <= Cap(t)
      /\ winStart \in Nat /\ winStarts \in Nat /\ winFresh[t] \in Nat
      /\ Rate[t] \in Nat /\ Cap(t) \in Nat /\ Unit \in Nat
    BY LoadFacts, BucketAssumption DEF IInv, TypeOK, BucketType
<1>2. /\ b.last = IF now > old.last THEN now ELSE old.last
      /\ b.tokens <= old.tokens + earned
    BY <1>1, RefillFacts
<1>3. u \in Nat /\ F \in Nat /\ earned \in Int
    BY <1>1, ProductNat, Distribute
<1>4. (winFresh[t] + g) * Unit = F + u
    BY <1>1, Distribute
<1>5. WindowInv(t)
    BY DEF IInv
<1>6. CASE winStart = 0 \/ b.last < winStart
    \* nothing inside the window yet, and this now is older than it
  <2>1. winFresh[t] = 0 /\ ~(winStart > 0 /\ now >= winStart)
      BY <1>1, <1>2, <1>5, <1>6 DEF WindowInv
  <2>2. QED
      BY <1>6, <2>1 DEF WindowInv
<1>7. CASE winStart > 0 /\ b.last >= winStart /\ old.last < winStart
    \* the first refill inside the window: the balance is at most one burst
  <2>1. winFresh[t] = 0 /\ now >= winStart
      BY <1>1, <1>2, <1>5, <1>7 DEF WindowInv
  <2>2. winFresh'[t] * Unit + bucket'[t].tokens = b.tokens
    <3>1. winFresh'[t] = g
        BY <1>7, <2>1
    <3>2. QED
        BY <1>1, <1>3, <3>1
  <2>3. b.tokens <= Allowance(t, winStart, b.last, winStarts)
    <3>1. Rate[t] * (b.last - winStart) \in Nat
        BY <1>1, <1>7, ProductNat
    <3>2. Cap(t) * (1 + winStarts) = Cap(t) + Cap(t) * winStarts
          /\ Cap(t) * winStarts \in Nat
        BY <1>1, Distribute, ProductNat
    <3>3. QED
        BY <1>1, <3>1, <3>2 DEF Allowance
  <2>4. QED
      BY <1>1, <1>7, <2>2, <2>3 DEF WindowInv
<1>8. CASE winStart > 0 /\ old.last >= winStart
    \* the balance before, what was earned since, and the grant itself
  <2>1. F + old.tokens <= Allowance(t, winStart, old.last, winStarts)
      BY <1>1, <1>5, <1>8 DEF WindowInv
  <2>2. /\ Allowance(t, winStart, b.last, winStarts)
            = Allowance(t, winStart, old.last, winStarts) + earned
        /\ Allowance(t, winStart, old.last, winStarts) \in Int
    <3>1. Cap(t) * (1 + winStarts) \in Int
        BY <1>1, OneMore
    <3>2. /\ Rate[t] * (old.last - winStart) \in Int
          /\ Rate[t] * (b.last - winStart) = Rate[t] * (old.last - winStart) + earned
        BY <1>1, Span
    <3>3. QED
        BY <1>3, <3>1, <3>2 DEF Allowance
  <2>3. winFresh'[t] * Unit + bucket'[t].tokens <= F + b.tokens
    <3>1. CASE winFresh'[t] = winFresh[t] + g
        BY <1>1, <1>3, <1>4, <3>1
    <3>2. CASE winFresh'[t] = winFresh[t]
        BY <1>1, <1>3, <3>2
    <3>3. QED
        BY <3>1, <3>2
  <2>4. winFresh'[t] * Unit + bucket'[t].tokens \in Int
    <3>1. CASE winFresh'[t] = winFresh[t] + g
        BY <1>1, <1>3, <1>4, <3>1
    <3>2. CASE winFresh'[t] = winFresh[t]
        BY <1>1, <1>3, <3>2
    <3>3. QED
        BY <3>1, <3>2
  <2>5. b.last >= winStart
      BY <1>1, <1>2, <1>8
  <2> DEFINE A0 == Allowance(t, winStart, old.last, winStarts)
             A1 == Allowance(t, winStart, b.last, winStarts)
             L == winFresh'[t] * Unit + bucket'[t].tokens
  <2> HIDE DEF A0, A1, L, F, earned
  <2>6. L <= A1
      BY <1>1, <1>2, <1>3, <2>1, <2>2, <2>3, <2>4 DEF A0, A1, L
  <2>7. QED
      BY <1>1, <1>8, <2>5, <2>6 DEF WindowInv, A1, L
<1>9. QED
    BY <1>1, <1>6, <1>7, <1>8

\* Nothing is granted yet.
LEMMA InitOK ==
    ASSUME Init, TypeOK
    PROVE  IInv
<1>1. QED
    BY DEF Init, IInv, WindowInv, NewBucket, Idle, Zero

\* Every step keeps the strengthened invariant.
LEMMA StepOK ==
    ASSUME TypeOK', IInv, [Next]_vars
    PROVE  IInv'
<1> DEFINE Same == /\ UNCHANGED <<bucket, window>>
                   /\ clock' \in Nat /\ clock <= clock'
                   /\ \A h \in Handlers : handler'[h].now <= clock'
<1>1. /\ clock \in Nat /\ winStart \in Nat
      /\ \A h \in Handlers : handler[h].now \in Nat
      /\ \A t \in Tenants : bucket[t].last \in Nat
    BY DEF IInv, TypeOK, HandlerType
<1>2. ASSUME Same PROVE IInv'
  \* the steps that touch neither a bucket nor the window
    BY <1>1, <1>2 DEF IInv, WindowInv, Allowance, window
<1>3. ASSUME NEW h \in Handlers, NEW t \in Tenants, HandleLease(h, t) PROVE IInv'
  <2>1. Same
      BY <1>1, <1>3 DEF HandleLease, IInv, TypeOK, HandlerType
  <2>2. QED
      BY <1>2, <2>1
<1>4. ASSUME NEW h \in Handlers, NEW body \in Bodies, RefuseLease(h, body) PROVE IInv'
  <2> DEFINE code == IF body = Malformed THEN 400 ELSE 404
             r == [handler[h] EXCEPT !.pc = "reply", !.tenant = body, !.status = code]
  <2>1. code \in {400, 404} /\ handler[h] \in HandlerType
      BY DEF IInv, TypeOK
  <2> HIDE DEF code
  <2>2. r \in HandlerType /\ r.now = handler[h].now
      BY <2>1 DEF HandlerType
  <2>3. handler' = [handler EXCEPT ![h] = r]
      BY <1>4 DEF RefuseLease, IInv, TypeOK, code
  <2> HIDE DEF r
  <2>4. clock' = clock /\ UNCHANGED <<bucket, window>>
      BY <1>4 DEF RefuseLease
  <2>5. \A k \in Handlers : handler'[k].now = handler[k].now
      BY <2>2, <2>3, HandlerUpdate DEF IInv, TypeOK
  <2>6. Same
      BY <1>1, <2>4, <2>5 DEF IInv
  <2>7. QED
      BY <1>2, <2>6
<1>5. ASSUME NEW h \in Handlers, CountZero(h) \/ CountGrant(h) PROVE IInv'
  <2>1. PICK p \in {"hint", "reply"} : handler' = [handler EXCEPT ![h].pc = p]
      BY <1>5 DEF CountZero, CountGrant
  <2>2. \A k \in Handlers : handler'[k].now = handler[k].now
      BY <2>1, PcUpdate DEF IInv, TypeOK
  <2>3. clock' = clock /\ UNCHANGED <<bucket, window>>
      BY <1>5 DEF CountZero, CountGrant
  <2>4. Same
      BY <1>1, <2>2, <2>3 DEF IInv
  <2>5. QED
      BY <1>2, <2>4
<1>6. ASSUME NEW h \in Handlers, Reply(h) PROVE IInv'
  <2>1. Same
      BY <1>1, <1>6 DEF Reply, Idle, IInv, TypeOK
  <2>2. QED
      BY <1>2, <2>1
<1>7. CASE Crash
  <2>1. Same
      BY <1>1, <1>7 DEF Crash, Idle
  <2>2. QED
      BY <1>2, <2>1
<1>8. CASE Tick
  <2>1. Same
      BY <1>1, <1>8 DEF Tick, IInv
  <2>2. QED
      BY <1>2, <2>1
<1>9. ASSUME NEW h \in Handlers, TakeUpTo(h) PROVE IInv'
  <2>1. PICK t \in Tenants, now \in Nat : t = handler[h].tenant /\ now = handler[h].now
      BY <1>1, <1>9 DEF IInv, TypeOK, TakeUpTo
  <2>2. /\ now <= clock /\ bucket[t] \in BucketType(Cap(t))
        /\ Cap(t) \in Nat /\ Rate[t] \in Nat /\ LeaseSize \in Nat
      BY <2>1, LoadFacts DEF IInv, TypeOK
  <2>3. PICK b \in BucketType(Cap(t)) :
          /\ b = RefillLocked(bucket[t], Rate[t], Cap(t), now)
          /\ b.last = IF now > bucket[t].last THEN now ELSE bucket[t].last
      BY <2>2, RefillFacts
  <2>4. PICK g \in Nat :
          /\ g = TakenUpTo(b, LeaseSize) /\ g * Unit <= b.tokens
          /\ Debit(b, g).tokens = b.tokens - g * Unit /\ Debit(b, g).last = b.last
      BY <2>2, TakeFacts
  <2>5. /\ bucket' = [bucket EXCEPT ![t] = Debit(b, g)]
        /\ winFresh' = IF winStart > 0 /\ now >= winStart
                       THEN [winFresh EXCEPT ![t] = @ + g] ELSE winFresh
        /\ clock' = clock /\ winStart' = winStart /\ winStarts' = winStarts
      BY <1>9, <2>1, <2>3, <2>4 DEF TakeUpTo
  <2>6. \A k \in Handlers : handler'[k].now = handler[k].now
      BY <1>9 DEF TakeUpTo, IInv, TypeOK, HandlerType
  <2>7. /\ bucket'[t] = Debit(b, g)
        /\ \A s \in Tenants : s # t => bucket'[s] = bucket[s] /\ winFresh'[s] = winFresh[s]
        /\ winFresh'[t] = IF winStart > 0 /\ now >= winStart
                          THEN winFresh[t] + g ELSE winFresh[t]
      BY <2>5 DEF IInv, TypeOK
  <2>8. WindowInv(t)'
      BY <2>3, <2>4, <2>5, <2>7, GrantKeepsWindow
  <2>9. \A s \in Tenants : bucket'[s].last <= clock'
      BY <1>1, <2>2, <2>3, <2>4, <2>5, <2>7 DEF IInv
  <2>10. ASSUME NEW s \in Tenants PROVE WindowInv(s)'
      BY <2>5, <2>7, <2>8 DEF IInv, WindowInv, Allowance
  <2>11. QED
      BY <2>5, <2>6, <2>9, <2>10 DEF IInv
<1>10. ASSUME NEW h \in Handlers, ZeroGrant(h) PROVE IInv'
  <2>1. PICK t \in Tenants, now \in Nat : t = handler[h].tenant /\ now = handler[h].now
      BY <1>1, <1>10 DEF IInv, TypeOK, ZeroGrant
  <2>2. /\ now <= clock /\ bucket[t] \in BucketType(Cap(t))
        /\ Cap(t) \in Nat /\ Rate[t] \in Nat
      BY <2>1, LoadFacts DEF IInv, TypeOK
  <2>3. PICK b \in BucketType(Cap(t)) :
          /\ b = RefillLocked(bucket[t], Rate[t], Cap(t), now)
          /\ b.last = IF now > bucket[t].last THEN now ELSE bucket[t].last
      BY <2>2, RefillFacts
  <2>4. /\ bucket' = [bucket EXCEPT ![t] = b]
        /\ UNCHANGED <<clock, winFresh, winStart, winStarts>>
      BY <1>10, <2>1, <2>3 DEF ZeroGrant, window
  <2>5. \A k \in Handlers : handler'[k].now = handler[k].now
      BY <1>10 DEF ZeroGrant, IInv, TypeOK, HandlerType
  <2>6. /\ bucket'[t] = b /\ winFresh'[t] = winFresh[t] /\ winFresh[t] \in Nat
        /\ \A s \in Tenants : s # t => bucket'[s] = bucket[s]
      BY <2>4 DEF IInv, TypeOK
  <2>7. WindowInv(t)'
    <3>1. b.tokens \in Nat /\ 0 * Unit = 0 /\ 0 \in Nat
        BY BucketAssumption DEF BucketType
    <3>2. QED
        BY <2>3, <2>4, <2>6, <3>1, GrantKeepsWindow
  <2>8. \A s \in Tenants : bucket'[s].last <= clock'
      BY <1>1, <2>2, <2>3, <2>4, <2>6 DEF IInv
  <2>9. ASSUME NEW s \in Tenants PROVE WindowInv(s)'
      BY <2>4, <2>6, <2>7 DEF IInv, WindowInv, Allowance
  <2>10. QED
      BY <2>4, <2>5, <2>8, <2>9 DEF IInv
<1>11. CASE Start
  <2>1. ASSUME NEW t \in Tenants PROVE WindowInv(t)' /\ bucket'[t].last = clock
    <3>1. /\ bucket'[t].tokens = Cap(t) /\ bucket'[t].last = clock
          /\ UNCHANGED <<clock, winStart, winFresh>> /\ winStarts' = winStarts + 1
        BY <1>11 DEF Start, NewBucket
    <3>2. /\ bucket[t].tokens \in Nat /\ bucket[t].last \in Nat /\ clock \in Nat
          /\ winStart \in Nat /\ winStarts \in Nat /\ winFresh[t] \in Nat
          /\ Cap(t) \in Nat /\ Rate[t] \in Nat /\ Unit \in Nat
          /\ winStart <= clock /\ bucket[t].last <= clock
        BY LoadFacts, BucketAssumption DEF IInv, TypeOK
    <3>3. WindowInv(t)
        BY DEF IInv
    <3>4. CASE winStart = 0
        BY <3>1, <3>3, <3>4 DEF WindowInv
    <3>5. CASE winStart > 0 /\ bucket[t].last < winStart
      <4>1. winFresh[t] = 0 /\ 0 * Unit = 0
          BY <3>2, <3>3, <3>5 DEF WindowInv
      <4>2. /\ Rate[t] * (clock - winStart) \in Nat
            /\ Cap(t) * (1 + winStarts) \in Nat
            /\ Cap(t) * (1 + (winStarts + 1)) = Cap(t) * (1 + winStarts) + Cap(t)
          BY <3>2, ProductNat, OneMore
      <4>3. Cap(t) <= Allowance(t, winStart, clock, winStarts + 1)
          BY <3>2, <4>2 DEF Allowance
      <4>4. QED
          BY <3>1, <3>2, <3>5, <4>1, <4>3 DEF WindowInv, Allowance
    <3>6. CASE winStart > 0 /\ bucket[t].last >= winStart
      <4> DEFINE F == winFresh[t] * Unit
                 A == Cap(t) * (1 + winStarts)
                 E0 == Rate[t] * (bucket[t].last - winStart)
                 E1 == Rate[t] * (clock - bucket[t].last)
                 E2 == Rate[t] * (clock - winStart)
      <4>1. F + bucket[t].tokens <= A + E0
          BY <3>2, <3>3, <3>6 DEF WindowInv, Allowance
      <4>2. E0 \in Int /\ E1 \in Nat /\ E2 = E0 + E1
          BY <3>2, Span, ProductNat
      <4>3. A \in Int /\ Cap(t) * (1 + (winStarts + 1)) = A + Cap(t) /\ F \in Nat
          BY <3>2, OneMore, ProductNat
      <4> HIDE DEF F, A, E0, E1, E2
      <4>4. F + Cap(t) <= (A + Cap(t)) + E2
          BY <3>2, <4>1, <4>2, <4>3
      <4>5. QED
          BY <3>1, <3>2, <3>6, <4>3, <4>4 DEF WindowInv, Allowance, F, A, E2
    <3>7. QED
        BY <3>1, <3>2, <3>4, <3>5, <3>6
  <2>2. QED
      BY <1>1, <1>11, <2>1 DEF Start, IInv
<1>12. CASE OpenWindow
  <2>1. ASSUME NEW t \in Tenants PROVE WindowInv(t)'
    <3>1. /\ winStart = 0 /\ winFresh'[t] = 0 /\ bucket' = bucket
          /\ winStart' = clock /\ winStarts' = 0
        BY <1>12 DEF OpenWindow, IInv, WindowInv
    <3>2. /\ bucket[t].tokens \in 0..Cap(t) /\ bucket[t].last \in Nat
          /\ bucket[t].last <= clock /\ clock \in Nat
          /\ Cap(t) \in Nat /\ Rate[t] \in Nat /\ Unit \in Nat
        BY LoadFacts, BucketAssumption DEF IInv, TypeOK, BucketType
    <3>3. CASE bucket[t].last < clock
        BY <3>1, <3>2, <3>3 DEF WindowInv
    <3>4. CASE bucket[t].last = clock
      <4>1. Rate[t] * (clock - clock) = 0 /\ Cap(t) * (1 + 0) = Cap(t) /\ 0 * Unit = 0
          BY <3>2
      <4>2. QED
          BY <3>1, <3>2, <3>4, <4>1 DEF WindowInv, Allowance
    <3>5. QED
        BY <3>2, <3>3, <3>4
  <2>2. QED
      BY <1>1, <1>12, <2>1 DEF OpenWindow, IInv
<1>13. CASE UNCHANGED vars
  <2>1. Same
      BY <1>1, <1>13 DEF vars, IInv
  <2>2. QED
      BY <1>2, <2>1
<1>14. QED
    BY <1>3, <1>4, <1>5, <1>6, <1>7, <1>8, <1>9, <1>10, <1>11, <1>12, <1>13
    DEF Next, HandlerStep

\* The strengthened invariant holds in every reachable state.
THEOREM Inductive == Spec => []IInv
    BY InitOK, StepOK, TypeCorrect, PTL DEF Spec

\* For every configuration, every number of handlers in any order and every
\* sequence of kills: grants of handlers that read the clock inside a window
\* never exceed rate * window plus one burst per start of the process.
THEOREM WindowGuaranteed == Spec => []WindowBound
<1>1. IInv => WindowBound
  <2> SUFFICES ASSUME IInv, winStart > 0, NEW t \in Tenants
               PROVE  winFresh[t] * Unit <= Allowance(t, winStart, clock, winStarts)
      BY DEF WindowBound
  <2> DEFINE F == winFresh[t] * Unit
             A == Cap(t) * (1 + winStarts)
             E0 == Rate[t] * (bucket[t].last - winStart)
             E1 == Rate[t] * (clock - bucket[t].last)
             E2 == Rate[t] * (clock - winStart)
  <2>1. /\ bucket[t].tokens \in Nat /\ bucket[t].last \in Nat /\ clock \in Nat
        /\ winStart \in Nat /\ winStarts \in Nat /\ winFresh[t] \in Nat
        /\ Cap(t) \in Nat /\ Rate[t] \in Nat /\ Unit \in Nat
        /\ winStart <= clock /\ bucket[t].last <= clock
      BY LoadFacts, BucketAssumption DEF IInv, TypeOK
  <2>2. /\ A \in Nat /\ E2 \in Nat /\ E1 \in Nat /\ F \in Nat
        /\ E0 \in Int /\ E2 = E0 + E1
      BY <2>1, ProductNat, Span
  <2>3. WindowInv(t)
      BY DEF IInv
  <2>4. CASE bucket[t].last < winStart
    <3>1. winFresh[t] = 0 /\ 0 * Unit = 0
        BY <2>1, <2>3, <2>4 DEF WindowInv
    <3>2. QED
        BY <2>2, <3>1 DEF Allowance
  <2>5. CASE bucket[t].last >= winStart
    <3>1. F + bucket[t].tokens <= A + E0
        BY <2>1, <2>3, <2>5 DEF WindowInv, Allowance
    <3> HIDE DEF F, A, E0, E1, E2
    <3>2. F <= A + E2
        BY <2>1, <2>2, <3>1
    <3>3. QED
        BY <3>2 DEF Allowance, F, A, E2
  <2>6. QED
      BY <2>1, <2>4, <2>5
<1>2. QED
    BY <1>1, Inductive, PTL

\* For every tenant whose burst holds a whole token, the retryAfterMs of a
\* zero grant is long enough, whatever other handlers did to the bucket
\* between TakeUpTo and NextTokenIn.
THEOREM HintsSuffice ==
    ASSUME \A t \in Tenants : Cap(t) >= Unit
    PROVE  Spec => HintSuffices
<1> DEFINE Hint == \A h \in Handlers :
         handler[h].pc = "hint" /\ handler'[h].pc = "reply" =>
           LET t == handler[h].tenant
           IN  RefillLocked(bucket'[t], Rate[t], Cap(t),
                            clock + Ms * handler'[h].retryAfter).tokens >= Unit
<1>1. IInv /\ [Next]_vars => [Hint]_vars
  <2> SUFFICES ASSUME IInv, Next, NEW h \in Handlers,
                      handler[h].pc = "hint", handler'[h].pc = "reply"
               PROVE  LET t == handler[h].tenant
                      IN  RefillLocked(bucket'[t], Rate[t], Cap(t),
                            clock + Ms * handler'[h].retryAfter).tokens >= Unit
      OBVIOUS
  <2>1. ZeroGrant(h)
    \* no other step takes a handler from computing the hint to its reply
    <3>1. ASSUME NEW k \in Handlers, k # h, HandlerStep(k) PROVE FALSE
        BY <3>1 DEF HandlerStep, TakeUpTo, CountZero, ZeroGrant, CountGrant, Reply, IInv, TypeOK
    <3>2. ASSUME HandlerStep(h) PROVE ZeroGrant(h)
        BY <3>2 DEF HandlerStep, TakeUpTo, CountZero, ZeroGrant, CountGrant, Reply
    <3>3. ASSUME NEW k \in Handlers, NEW t \in Tenants, HandleLease(k, t) PROVE FALSE
        BY <3>3 DEF HandleLease, IInv, TypeOK
    <3>4. ASSUME NEW k \in Handlers, NEW body \in Bodies, RefuseLease(k, body) PROVE FALSE
        BY <3>4 DEF RefuseLease, IInv, TypeOK
    <3>5. ~Crash /\ ~Start /\ ~Tick /\ ~OpenWindow
        BY DEF Crash, Start, Tick, OpenWindow, Idle
    <3>6. QED
        BY <3>1, <3>2, <3>3, <3>4, <3>5 DEF Next
  <2>2. PICK t \in Tenants, now \in Nat : t = handler[h].tenant /\ now = handler[h].now
      BY DEF IInv, TypeOK, HandlerType
  <2>3. /\ bucket[t] \in BucketType(Cap(t)) /\ Cap(t) \in Nat /\ Rate[t] \in Nat \ {0}
        /\ now <= clock /\ bucket[t].last <= clock /\ clock \in Nat
      BY <2>2, LoadFacts DEF IInv, TypeOK
  <2>4. PICK b \in BucketType(Cap(t)) :
          /\ b = RefillLocked(bucket[t], Rate[t], Cap(t), now)
          /\ b.last = IF now > bucket[t].last THEN now ELSE bucket[t].last
      BY <2>3, RefillFacts
  <2>5. b.last <= clock
      BY <2>3, <2>4
  <2>6. /\ bucket'[t] = b /\ handler'[h].retryAfter = RetryAfterMs(b, Rate[t])
      BY <2>1, <2>2, <2>4 DEF ZeroGrant, IInv, TypeOK, HandlerType
  <2>7. PICK at \in Nat : at = clock
      BY <2>3
  <2>8. RefillLocked(b, Rate[t], Cap(t), at + Ms * RetryAfterMs(b, Rate[t])).tokens >= Unit
      BY <2>3, <2>5, <2>7, HintFacts
  <2>9. QED
      BY <2>2, <2>6, <2>7, <2>8
<1>2. QED
    BY <1>1, Inductive, PTL DEF Spec, HintSuffices
=============================================================================
