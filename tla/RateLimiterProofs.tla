-------------------------- MODULE RateLimiterProofs --------------------------
(***************************************************************************)
(* Proofs about the rate limiter as a whole, for any number of workers,    *)
(* tenants, requests, renewals and handlers.                               *)
(*                                                                         *)
(* A step of the whole is a step of the workers, of the coordinator, or of *)
(* both; so the inductive invariants of LimiterProofs and of               *)
(* CoordinatorProofs hold here, and RInv adds what ties the two together:  *)
(* which handler works for which renewal, and where an answer is.  From it *)
(* follow, in this order: the types; that each part behaves as its own     *)
(* module says; that the whole handles tokens as Budget says, with the     *)
(* balance of Budget; and the bound on what is admitted in a window.       *)
(***************************************************************************)
EXTENDS RateLimiter, SumProofs

\* Nothing here is about the counters of the workers.
LP == INSTANCE LimiterProofs WITH Tenants <- Names, Grants <- 1..LeaseSize,
                                  MaxChecks <- 0, counts <- <<>>, ledger <- <<>>
CP == INSTANCE CoordinatorProofs

-----------------------------------------------------------------------------
(* The components *)

\* What the component modules assume of their constants holds of the constants
\* they are given here.
LEMMA WorkersGrounded ==
    LP!PoolAssumption /\ LP!LimiterAssumption /\ LP!AccountingAssumption
<1>1. Unit \div Ms \in Nat
    BY RateLimiterAssumption
<1>2. \A n \in 0..(Unit \div Ms) + 1 : Ms * n \in Nat
    BY <1>1, RateLimiterAssumption
<1>3. Hints \subseteq Nat
    BY <1>2 DEF Hints
<1>4. LP!AccountingAssumption
    BY RateLimiterAssumption DEF LP!AccountingAssumption, IsFiniteSet, LP!IsFiniteSet
<1>5. QED
    BY <1>3, <1>4, RateLimiterAssumption DEF LP!PoolAssumption, LP!LimiterAssumption

\* The same for the modules of the coordinator.
LEMMA CoordinatorGrounded == CP!BucketAssumption /\ CP!CoordinatorAssumption
<1>1. \A S : IsFiniteSet(S) = CP!IsFiniteSet(S)
    BY DEF IsFiniteSet, CP!IsFiniteSet
<1>2. CP!IsFiniteSet(Tenants) /\ CP!IsFiniteSet(Handlers)
    BY <1>1, RateLimiterAssumption
<1>3. CP!Load /\ Rate \in [Tenants -> Int]
    BY RateLimiterAssumption DEF CP!Load
<1>4. QED
    BY <1>2, <1>3, RateLimiterAssumption DEF CP!BucketAssumption, CP!CoordinatorAssumption

\* The workers of Limiter and of its proofs are the same.
LEMMA SameWorkers ==
    /\ (UNCHANGED W!vars => UNCHANGED LP!vars) /\ (W!Next => LP!Next)
    /\ W!Reserve = LP!Reserve /\ (W!Init => LP!Init) /\ (LP!TypeOK => W!TypeOK)
<1>1. UNCHANGED W!vars => UNCHANGED LP!vars
    BY DEF W!vars, LP!vars
<1>2. W!Reserve = LP!Reserve
    BY DEF W!Reserve, LP!Reserve, W!Watermark, LP!Watermark
<1>3. W!Init => LP!Init
    BY DEF W!Init, LP!Init, W!NewPool, LP!NewPool, W!IdleReq, LP!IdleReq, W!IdleRenewer,
           LP!IdleRenewer, W!NoAnswer, LP!NoAnswer, W!Keys, LP!Keys
<1>4. LP!TypeOK => W!TypeOK
    BY DEF W!TypeOK, LP!TypeOK, W!PoolType, LP!PoolType, W!ReqType, LP!ReqType,
           W!RenewerType, LP!RenewerType, W!Answers, LP!Answers, W!Keys, LP!Keys
<1>5. W!Next => LP!Next
    BY DEF W!Next, LP!Next, W!Keys, LP!Keys, W!Answers, LP!Answers, W!CheckStart, LP!CheckStart,
      W!CheckStep, LP!CheckStep, W!CheckUnknown, LP!CheckUnknown, W!CheckLocked, LP!CheckLocked,
      W!CheckRenew, LP!CheckRenew, W!WaitDone, LP!WaitDone, W!WaitTimeout, LP!WaitTimeout,
      W!WokenUnknown, LP!WokenUnknown, W!WokenLocked, LP!WokenLocked, W!CheckReturn, LP!CheckReturn,
      W!RenewCall, LP!RenewCall, W!RenewLocked, LP!RenewLocked, W!LeaseReturn, LP!LeaseReturn,
      W!WorkerCrash, LP!WorkerCrash, W!Tick, LP!Tick, W!IdleReq, LP!IdleReq, W!IdleRenewer, LP!IdleRenewer,
      W!NoAnswer, LP!NoAnswer, W!Admitted, LP!Admitted, W!Decided, LP!Decided, W!Spend, LP!Spend,
      W!DropExpired, LP!DropExpired, W!Admits, LP!Admits, W!Debited, LP!Debited,
      W!ShouldRenewLocked, LP!ShouldRenewLocked, W!Watermark, LP!Watermark, W!Proceed, LP!Proceed,
      W!CanWait, LP!CanWait, W!Cold, LP!Cold, W!BeginRenew, LP!BeginRenew, W!AdmitsWoken, LP!AdmitsWoken,
      W!CloseDone, LP!CloseDone, W!RenewUnknown, LP!RenewUnknown, W!RenewError, LP!RenewError,
      W!RenewZero, LP!RenewZero, W!RenewGrant, LP!RenewGrant, W!EndRenew, LP!EndRenew,
      W!NextBackoff, LP!NextBackoff, W!Jittered, LP!Jittered, W!NewPool, LP!NewPool
<1>6. QED
    BY <1>1, <1>2, <1>3, <1>4, <1>5

\* The coordinator of Coordinator and of its proofs is the same.
LEMMA SameCoordinator ==
    /\ (UNCHANGED C!vars => UNCHANGED CP!vars) /\ (C!Next => CP!Next)
    /\ (C!Init => CP!Init) /\ (CP!TypeOK => C!TypeOK) /\ (CP!WindowBound => C!WindowBound)
<1>1. UNCHANGED C!vars => UNCHANGED CP!vars
    BY DEF C!vars, CP!vars, C!counters, CP!counters, C!window, CP!window
<1>2. C!Init => CP!Init
    BY DEF C!Init, CP!Init, C!NewBucket, CP!NewBucket, C!Cap, CP!Cap, C!Zero, CP!Zero,
           C!Idle, CP!Idle
<1>3. CP!TypeOK => C!TypeOK
    BY DEF C!TypeOK, CP!TypeOK, C!BucketType, CP!BucketType, C!Cap, CP!Cap, C!HandlerType,
           CP!HandlerType, C!Bodies, CP!Bodies
<1>4. CP!WindowBound => C!WindowBound
    BY DEF C!WindowBound, CP!WindowBound, C!Allowance, CP!Allowance, C!Cap, CP!Cap
<1>5. C!Next => CP!Next
  <2>1. \A h \in Handlers, t \in Tenants : C!HandleLease(h, t) => CP!HandleLease(h, t)
      BY DEF C!HandleLease, CP!HandleLease, C!window, CP!window
  <2>2. \A h \in Handlers, body \in C!Bodies : C!RefuseLease(h, body) => CP!RefuseLease(h, body)
      BY DEF C!RefuseLease, CP!RefuseLease, C!counters, CP!counters, C!window, CP!window
  <2>3. \A h \in Handlers : C!TakeUpTo(h) => CP!TakeUpTo(h)
    <3>1. \A t : C!Cap(t) = CP!Cap(t)
        BY DEF C!Cap, CP!Cap
    <3>2. \A b, r, c, n : C!RefillLocked(b, r, c, n) = CP!RefillLocked(b, r, c, n)
        BY Zenon DEF C!RefillLocked, CP!RefillLocked
    <3>3. \A b, n : C!TakenUpTo(b, n) = CP!TakenUpTo(b, n)
        BY Zenon DEF C!TakenUpTo, CP!TakenUpTo, C!Whole, CP!Whole
    <3>4. \A b, n : C!Debit(b, n) = CP!Debit(b, n)
        BY Zenon DEF C!Debit, CP!Debit
    <3>5. QED
        BY <3>1, <3>2, <3>3, <3>4, Zenon DEF C!TakeUpTo, CP!TakeUpTo, C!counters, CP!counters
  <2>4. \A h \in Handlers : C!ZeroGrant(h) => CP!ZeroGrant(h)
      BY DEF C!ZeroGrant, CP!ZeroGrant, C!counters, CP!counters, C!window, CP!window,
             C!Cap, CP!Cap, C!RefillLocked, CP!RefillLocked,
             C!RetryAfterMs, CP!RetryAfterMs, C!NextTokenIn, CP!NextTokenIn
  <2>5. \A h \in Handlers : /\ C!CountZero(h) => CP!CountZero(h)
                            /\ C!CountGrant(h) => CP!CountGrant(h)
                            /\ C!Reply(h) => CP!Reply(h)
      BY DEF C!CountZero, CP!CountZero, C!CountGrant, CP!CountGrant, C!Reply, CP!Reply,
             C!counters, CP!counters, C!window, CP!window, C!Idle, CP!Idle
  <2>6. (C!Crash => CP!Crash) /\ (C!Start => CP!Start) /\ (C!Tick => CP!Tick)
      BY DEF C!Crash, CP!Crash, C!Start, CP!Start, C!Tick, CP!Tick, C!NewBucket, CP!NewBucket,
             C!Cap, CP!Cap, C!counters, CP!counters, C!window, CP!window, C!Idle, CP!Idle,
             C!Zero, CP!Zero
  <2>7. C!OpenWindow => CP!OpenWindow
    <3>1. \A t : C!Late(t, clock) = CP!Late(t, clock)
        BY Zenon DEF C!Late, CP!Late
    <3>1a. \A S : C!Cardinality(S) = CP!Cardinality(S)
        BY DEF C!Cardinality, CP!Cardinality
    <3>2. [t \in Tenants |-> C!Cardinality(C!Late(t, clock))]
            = [t \in Tenants |-> CP!Cardinality(CP!Late(t, clock))]
        BY <3>1, <3>1a, Zenon
    <3>3. QED
        BY <3>2 DEF C!OpenWindow, CP!OpenWindow, C!counters, CP!counters
  <2>8. C!Bodies = CP!Bodies
      BY DEF C!Bodies, CP!Bodies
  <2>9. QED
      BY <2>1, <2>2, <2>3, <2>4, <2>5, <2>6, <2>7, <2>8
      DEF C!Next, CP!Next, C!HandlerStep, CP!HandlerStep
<1>6. QED
    BY <1>1, <1>2, <1>3, <1>4, <1>5

-----------------------------------------------------------------------------
(***************************************************************************)
(* The link between the components, which the invariants of neither        *)
(* mention: whom a handler answers, and which answer is where.             *)
(***************************************************************************)

\* A renewal has a call while it waits in Lease; an answer is with the call
\* once it is written and with the renewal once Lease has returned.
CallOK(r) ==
    /\ call[r].pc # "none" <=> renewer[r].pc = "lease"
    /\ call[r].pc # "replied" => call[r].answer = W!NoAnswer
    /\ renewer[r].pc # "lock" => renewer[r].answer = W!NoAnswer

\* A handler whose worker still waits works on the call of that worker.
PeerOK(h) ==
    peer[h] # Nil => /\ handler[h].pc # "idle"
                     /\ call[peer[h]].pc = "open"
                     /\ handler[h].tenant = TenantOf(peer[h])

\* What a handler knows at each statement, and that its response is one that
\* the workers expect.
HandlerOK(h) ==
    /\ handler[h].pc = "idle" => handler[h] = C!Idle
    /\ handler[h].pc \in {"take", "zero", "hint"} =>
         handler[h].granted = 0 /\ handler[h].retryAfter = 0 /\ handler[h].status = 200
    /\ handler[h].pc = "grant" =>
         handler[h].granted >= 1 /\ handler[h].retryAfter = 0 /\ handler[h].status = 200
    /\ handler[h].pc = "reply" => AnswerOf(handler[h]) \in W!Answers

LinkType ==
    /\ call \in [Renewers -> CallType]
    /\ peer \in [Handlers -> Renewers \cup {Nil}]
    /\ late \in [Tenants -> Nat] /\ SumFunctionOnSet(late, Tenants) <= MaxLate
    /\ winAdmitted \in [Tenants -> Nat] /\ winHeld \in [Tenants -> Nat]

\* No two handlers work for the same renewal.
Joined ==
    /\ \A r \in Renewers : CallOK(r)
    /\ \A h \in Handlers : PeerOK(h)
    /\ \A h, i \in Handlers : peer[h] = peer[i] /\ peer[h] # Nil => h = i

LinkInv == LinkType /\ Joined /\ \A h \in Handlers : HandlerOK(h)

\* A request that is not decided is not admitted.
Undecided == \A q \in Requests : req[q].pc # "count" => ~req[q].admitted

RInv == LP!IInv /\ CP!IInv /\ LinkInv /\ Undecided /\ clock >= 1

\* What a handler that read the clock before the window opened may still
\* debit for a worker that waits for it.
Owed(h, t) ==
    IF /\ peer[h] # Nil /\ handler[h].tenant = t
       /\ handler[h].pc = "take" /\ handler[h].now < winStart
    THEN LeaseSize ELSE 0

Slack == Cardinality(Workers) * (LeaseSize + W!Reserve - 1)

\* The bound of SystemWindowBound in tokens, with what can still be admitted.
DebtInv ==
    \A t \in Tenants :
        IF winStart = 0 THEN winAdmitted[t] = 0
        ELSE winAdmitted[t] + Held(t)
               + SumFunctionOnSet([h \in Handlers |-> Owed(h, t)], Handlers)
               <= winFresh[t] + Slack

-----------------------------------------------------------------------------
(* Every step of the whole is a step of each component, or leaves it alone *)

\* What the types of the two components and of the link say, in one place.
LEMMA Types ==
    ASSUME RInv
    PROVE  /\ W!TypeOK /\ C!TypeOK /\ LinkType
           /\ clock \in Nat
           /\ handler \in [Handlers -> C!HandlerType]
           /\ renewer \in [Renewers -> W!RenewerType]
           /\ pool \in [W!Keys -> W!PoolType]
           /\ req \in [Requests -> W!ReqType]
           /\ call \in [Renewers -> CallType]
           /\ peer \in [Handlers -> Renewers \cup {Nil}]
<1>1. W!TypeOK /\ C!TypeOK /\ LinkType
    BY SameWorkers, SameCoordinator DEF RInv, LP!IInv, CP!IInv, LinkInv
<1>2. QED
    BY <1>1 DEF W!TypeOK, C!TypeOK, LinkType

\* A renewal that is not idle asks for one of the names.
LEMMA TenantNamed ==
    ASSUME RInv, NEW r \in Renewers, renewer[r].pc # "idle"
    PROVE  /\ renewer[r].key \in W!Keys /\ renewer[r].key = <<renewer[r].key[1], TenantOf(r)>>
           /\ renewer[r].key[1] \in Workers /\ TenantOf(r) \in Names
<1>1. renewer[r].key \in W!Keys
    BY Types DEF W!TypeOK
<1>2. QED
    BY <1>1 DEF W!Keys, TenantOf

\* For the workers, a step of the whole is one of theirs or nothing: an answer
\* that a handler wrote, or a call given up, is one Limiter allows for.
LEMMA WorkerStep ==
    ASSUME RInv, [Next]_vars
    PROVE  [W!Next]_(W!vars)
<1>1. ASSUME NEW q \in Requests, NEW k \in W!Keys, NEW cost \in Costs, Arrive(q, k, cost)
      PROVE  W!Next
    BY <1>1 DEF Arrive, W!Next
<1>2. ASSUME NEW q \in Requests, Decide(q) PROVE W!Next
    BY <1>2 DEF Decide, W!Next
<1>3. ASSUME NEW r \in Renewers, Send(r) \/ Finish(r) PROVE W!Next
    BY <1>3 DEF Send, Finish, W!Next
<1>4. ASSUME NEW r \in Renewers, Deliver(r) PROVE W!Next
  <2>1. call[r].answer \in W!Answers
      BY Types DEF CallType
  <2>2. W!LeaseReturn(r, call[r].answer)
      BY <1>4 DEF Deliver
  <2>3. QED
      BY <2>1, <2>2 DEF W!Next
<1>5. ASSUME NEW r \in Renewers, GiveUp(r) PROVE W!Next
  <2>1. W!NoAnswer \in W!Answers
      BY DEF W!NoAnswer, W!Answers
  <2>2. W!LeaseReturn(r, W!NoAnswer)
      BY <1>5 DEF GiveUp
  <2>3. QED
      BY <2>1, <2>2 DEF W!Next
<1>6. ASSUME NEW w \in Workers, KillWorker(w) PROVE W!Next
    BY <1>6 DEF KillWorker, W!Next
<1>7. ASSUME NEW h \in Handlers, NEW r \in Renewers, Receive(h, r) PROVE UNCHANGED W!vars
  <2>1. clock' = clock
      BY <1>7 DEF Receive, C!HandleLease, C!RefuseLease
  <2>2. QED
      BY <1>7, <2>1 DEF Receive, W!vars, workVars
<1>8. ASSUME NEW h \in Handlers, NEW t \in Tenants, ReceiveLate(h, t) PROVE UNCHANGED W!vars
    BY <1>8 DEF ReceiveLate, C!HandleLease, W!vars, workVars
<1>9. ASSUME NEW h \in Handlers, Handle(h) PROVE UNCHANGED W!vars
  <2>1. clock' = clock
      BY <1>9 DEF Handle, C!TakeUpTo, C!CountZero, C!ZeroGrant, C!CountGrant
  <2>2. QED
      BY <1>9, <2>1 DEF Handle, W!vars, workVars
<1>10. ASSUME NEW h \in Handlers, Respond(h) PROVE UNCHANGED W!vars
  <2>1. clock' = clock
      BY <1>10 DEF Respond, C!Reply
  <2>2. QED
      BY <1>10, <2>1 DEF Respond, W!vars, workVars
<1>11. CASE KillCoordinator \/ StartCoordinator \/ OpenWindow
  <2>1. clock' = clock
      BY <1>11 DEF KillCoordinator, StartCoordinator, OpenWindow, C!Crash, C!Start, C!OpenWindow
  <2>2. workVars' = workVars
      BY <1>11 DEF KillCoordinator, StartCoordinator, OpenWindow
  <2>3. QED
      BY <2>1, <2>2 DEF W!vars, workVars
<1>12. CASE Tick
    BY <1>12 DEF Tick, C!Tick, W!Tick, workVars, W!Next
<1>13. CASE UNCHANGED vars
    BY <1>13 DEF vars, workVars, W!vars
<1>14. QED
    BY <1>1, <1>2, <1>3, <1>4, <1>5, <1>6, <1>7, <1>8, <1>9, <1>10, <1>11, <1>12, <1>13 DEF Next

\* For the coordinator, a step of the whole is one of its own or nothing.
LEMMA CoordinatorStep ==
    ASSUME RInv, [Next]_vars
    PROVE  [C!Next]_(C!vars)
<1>0. ASSUME UNCHANGED coordVars, UNCHANGED clock PROVE UNCHANGED C!vars
    BY <1>0 DEF coordVars, C!vars, C!counters, C!window
<1>1. ASSUME NEW q \in Requests, NEW k \in W!Keys, NEW cost \in Costs, Arrive(q, k, cost)
      PROVE  UNCHANGED C!vars
    BY <1>0, <1>1 DEF Arrive, W!CheckStart
<1>2. ASSUME NEW q \in Requests, Decide(q) PROVE UNCHANGED C!vars
  <2>1. clock' = clock
      BY <1>2 DEF Decide, W!CheckStep, W!CheckUnknown, W!CheckLocked, W!CheckRenew,
                  W!WaitDone, W!WaitTimeout, W!WokenUnknown, W!WokenLocked, W!CheckReturn
  <2>2. QED
      BY <1>0, <1>2, <2>1 DEF Decide
<1>3. ASSUME NEW r \in Renewers, Send(r) \/ Finish(r) \/ Deliver(r) \/ GiveUp(r)
      PROVE  UNCHANGED C!vars
  <2>1. clock' = clock
      BY <1>3 DEF Send, Finish, Deliver, GiveUp, W!RenewCall, W!RenewLocked, W!LeaseReturn
  <2>2. UNCHANGED coordVars
      BY <1>3 DEF Send, Finish, Deliver, GiveUp
  <2>3. QED
      BY <1>0, <2>1, <2>2
<1>4. ASSUME NEW w \in Workers, KillWorker(w) PROVE UNCHANGED C!vars
    BY <1>0, <1>4 DEF KillWorker, W!WorkerCrash
<1>5. ASSUME NEW h \in Handlers, NEW r \in Renewers, Receive(h, r) PROVE C!Next
  <2>1. call[r].pc = "sent"
      BY <1>5 DEF Receive
  <2>2. renewer[r].pc = "lease"
      BY <2>1 DEF RInv, LinkInv, Joined, CallOK
  <2>3. TenantOf(r) \in Names
      BY <2>2, TenantNamed
  <2>4. CASE TenantOf(r) \in Tenants
      BY <1>5, <2>4 DEF Receive, C!Next
  <2>5. CASE TenantOf(r) \notin Tenants
    <3>1. TenantOf(r) \in C!Bodies \ Tenants
        BY <2>3, <2>5 DEF Names, C!Bodies
    <3>2. C!RefuseLease(h, TenantOf(r))
        BY <1>5, <2>5 DEF Receive
    <3>3. QED
        BY <3>1, <3>2 DEF C!Next
  <2>6. QED
      BY <2>4, <2>5
<1>6. ASSUME NEW h \in Handlers, NEW t \in Tenants, ReceiveLate(h, t) PROVE C!Next
    BY <1>6 DEF ReceiveLate, C!Next
<1>7. ASSUME NEW h \in Handlers, Handle(h) \/ Respond(h) PROVE C!Next
    BY <1>7 DEF Handle, Respond, C!Next, C!HandlerStep
<1>8. CASE KillCoordinator \/ StartCoordinator \/ Tick \/ OpenWindow
    BY <1>8 DEF KillCoordinator, StartCoordinator, Tick, OpenWindow, C!Next
<1>9. CASE UNCHANGED vars
    BY <1>0, <1>9 DEF vars
<1>10. QED
    BY <1>1, <1>2, <1>3, <1>4, <1>5, <1>6, <1>7, <1>8, <1>9 DEF Next

\* So the invariants of the components hold in the whole.
LEMMA ComponentsKept ==
    ASSUME RInv, [Next]_vars
    PROVE  LP!IInv' /\ CP!IInv'
<1>1. LP!IInv /\ [LP!Next]_(LP!vars)
    BY WorkerStep, SameWorkers DEF RInv
<1>2. CP!IInv /\ CP!TypeOK /\ [CP!Next]_(CP!vars)
    BY CoordinatorStep, SameCoordinator DEF RInv, CP!IInv
<1>3. CP!TypeOK'
    BY <1>2, CP!StepTyped, CoordinatorGrounded
    DEF CP!BucketAssumption, CP!CoordinatorAssumption
<1>4. LP!IInv'
    BY <1>1, LP!StepOK, WorkersGrounded
    DEF LP!PoolAssumption, LP!LimiterAssumption, LP!AccountingAssumption
<1>5. CP!IInv'
    BY <1>2, <1>3, CP!StepOK, CoordinatorGrounded
    DEF CP!BucketAssumption, CP!CoordinatorAssumption
<1>6. QED
    BY <1>4, <1>5

-----------------------------------------------------------------------------
(* What handlers know *)

\* A product of naturals is a natural.
LEMMA ProductNat ==
    ASSUME NEW a \in Nat, NEW b \in Nat
    PROVE  a * b \in Nat
    BY Z3

\* A retry hint is at most the time an empty bucket needs for one token.
LEMMA HintBounded ==
    ASSUME NEW cap \in Nat, NEW b \in C!BucketType(cap), NEW rate \in Nat \ {0}
    PROVE  C!RetryAfterMs(b, rate) \in 0..(Unit \div Ms) + 1
<1> DEFINE wait == C!NextTokenIn(b, rate)
<1>1. b.tokens \in Nat /\ Unit \in Nat \ {0} /\ Ms \in Nat \ {0}
    BY RateLimiterAssumption DEF C!BucketType
<1>2. wait \in Nat /\ wait <= Unit
  <2>1. CASE b.tokens >= Unit
      BY <1>1, <2>1 DEF C!NextTokenIn
  <2>2. CASE ~(b.tokens >= Unit)
    <3> DEFINE x == Unit - b.tokens
               q == x \div rate
    <3>1. x \in Nat /\ x <= Unit
        BY <1>1, <2>2
    <3>2. wait = q
        BY <2>2 DEF C!NextTokenIn
    <3> HIDE DEF x
    <3>3. q \in Nat /\ q * rate <= x
        BY <3>1, Z3
    <3> HIDE DEF q
    <3>4. q <= q * rate /\ q * rate \in Nat
        BY <3>3, Z3
    <3> HIDE DEF wait
    <3>5. QED
        BY <1>1, <3>1, <3>2, <3>3, <3>4
  <2>3. QED
      BY <2>1, <2>2
<1> HIDE DEF wait
<1>3. wait \div Ms \in Nat /\ Unit \div Ms \in Nat /\ wait \div Ms <= Unit \div Ms
    BY <1>1, <1>2, Z3
<1>4. QED
    BY <1>3 DEF C!RetryAfterMs, wait

\* A bucket that is refilled keeps its type.
LEMMA RefillTyped ==
    ASSUME NEW t \in Tenants, NEW b \in C!BucketType(C!Cap(t)), NEW now \in Nat
    PROVE  /\ C!RefillLocked(b, Rate[t], C!Cap(t), now) \in C!BucketType(C!Cap(t))
           /\ C!Cap(t) \in Nat /\ Rate[t] \in Nat \ {0}
<1>1. C!Cap(t) \in Nat /\ Rate[t] \in Nat \ {0}
    BY RateLimiterAssumption, ProductNat DEF C!Cap
<1>2. b.tokens \in Nat /\ b.last \in Nat /\ b.tokens <= C!Cap(t)
    BY <1>1 DEF C!BucketType
<1>3. CASE now > b.last
  <2> DEFINE earned == Rate[t] * (now - b.last)
  <2>1. earned \in Nat
      BY <1>1, <1>2, <1>3, ProductNat
  <2> HIDE DEF earned
  <2>2. QED
      BY <1>1, <1>2, <1>3, <2>1 DEF C!RefillLocked, C!BucketType, earned
<1>4. CASE ~(now > b.last)
    BY <1>1, <1>4 DEF C!RefillLocked
<1>5. QED
    BY <1>1, <1>3, <1>4

\* A grant is at most one lease.
LEMMA TakenBounds ==
    ASSUME RInv, NEW h \in Handlers, handler[h].pc = "take"
    PROVE  LET t == handler[h].tenant
               b == C!RefillLocked(bucket[t], Rate[t], C!Cap(t), handler[h].now)
           IN  t \in Tenants /\ C!TakenUpTo(b, LeaseSize) \in 0..LeaseSize
<1> DEFINE t == handler[h].tenant
           b == C!RefillLocked(bucket[t], Rate[t], C!Cap(t), handler[h].now)
<1>1. t \in Tenants /\ handler[h].now \in Nat /\ bucket[t] \in C!BucketType(C!Cap(t))
    BY Types DEF C!TypeOK, C!HandlerType
<1>2. b \in C!BucketType(C!Cap(t)) /\ C!Cap(t) \in Nat
    BY <1>1, RefillTyped
<1> HIDE DEF b
<1>3. b.tokens \in Nat
    BY <1>2 DEF C!BucketType
<1>4. b.tokens \div Unit \in Nat
    BY <1>3, RateLimiterAssumption
<1>5. C!TakenUpTo(b, LeaseSize) \in 0..LeaseSize
    BY <1>4, RateLimiterAssumption DEF C!TakenUpTo, C!Whole
<1>6. QED
    BY <1>1, <1>5 DEF b

\* Whatever the coordinator does, its handlers answer as the workers expect.
LEMMA HandlersKept ==
    ASSUME RInv, [C!Next]_(C!vars)
    PROVE  \A h \in Handlers : HandlerOK(h)'
<1>0. /\ C!TypeOK /\ handler \in [Handlers -> C!HandlerType]
      /\ \A h \in Handlers : HandlerOK(h)
    BY Types DEF RInv, LinkInv
<1>a. ASSUME NEW h \in Handlers, NEW v, handler' = [handler EXCEPT ![h] = v],
             /\ v.pc # "idle"
             /\ v.pc \in {"take", "zero", "hint"} =>
                  v.granted = 0 /\ v.retryAfter = 0 /\ v.status = 200
             /\ v.pc = "grant" => v.granted >= 1 /\ v.retryAfter = 0 /\ v.status = 200
             /\ v.pc = "reply" => AnswerOf(v) \in W!Answers
      PROVE  \A i \in Handlers : HandlerOK(i)'
    \* one handler goes on
  <2>1. handler'[h] = v /\ \A i \in Handlers : i # h => handler'[i] = handler[i]
      BY <1>0, <1>a
  <2>2. HandlerOK(h)'
      BY <1>a, <2>1 DEF HandlerOK
  <2>3. ASSUME NEW i \in Handlers, i # h PROVE HandlerOK(i)'
      BY <1>0, <2>1, <2>3 DEF HandlerOK
  <2>4. QED
      BY <2>2, <2>3
<1>1. ASSUME NEW h \in Handlers, NEW t \in Tenants, C!HandleLease(h, t)
      PROVE  \A i \in Handlers : HandlerOK(i)'
  <2> DEFINE v == [handler[h] EXCEPT !.pc = "take", !.tenant = t, !.now = clock]
  <2>1. handler' = [handler EXCEPT ![h] = v] /\ handler[h] = C!Idle
      BY <1>0, <1>1 DEF C!HandleLease, HandlerOK
  <2>2. v.pc = "take" /\ v.granted = 0 /\ v.retryAfter = 0 /\ v.status = 200
      BY <2>1 DEF C!Idle
  <2> HIDE DEF v
  <2>3. QED
      BY <1>a, <2>1, <2>2
<1>2. ASSUME NEW h \in Handlers, NEW body \in C!Bodies, C!RefuseLease(h, body)
      PROVE  \A i \in Handlers : HandlerOK(i)'
  <2> DEFINE code == IF body = Malformed THEN 400 ELSE 404
             v == [handler[h] EXCEPT !.pc = "reply", !.tenant = body, !.status = code]
  <2>1. handler' = [handler EXCEPT ![h] = v] /\ handler[h] = C!Idle
      BY <1>0, <1>2 DEF C!RefuseLease, HandlerOK
  <2>2. /\ v.pc = "reply" /\ v.granted = 0 /\ v.retryAfter = 0
        /\ v.status \in {400, 404}
      BY <2>1 DEF C!Idle
  <2> HIDE DEF v
  <2>3. AnswerOf(v) \in W!Answers
      BY <2>2, RateLimiterAssumption DEF AnswerOf, W!Answers
  <2>4. QED
      BY <1>a, <2>1, <2>2, <2>3
<1>3. ASSUME NEW h \in Handlers, C!TakeUpTo(h) PROVE \A i \in Handlers : HandlerOK(i)'
  <2> DEFINE t == handler[h].tenant
             g == C!TakenUpTo(C!RefillLocked(bucket[t], Rate[t], C!Cap(t), handler[h].now), LeaseSize)
             v == [handler[h] EXCEPT !.granted = g, !.pc = IF g = 0 THEN "zero" ELSE "grant"]
  <2>1. handler' = [handler EXCEPT ![h] = v] /\ handler[h].pc = "take"
      BY <1>3 DEF C!TakeUpTo
  <2>2. g \in Nat
      BY TakenBounds, <2>1, RateLimiterAssumption
  <2>3. /\ handler[h] \in C!HandlerType
        /\ handler[h].retryAfter = 0 /\ handler[h].status = 200
      BY <1>0, <2>1 DEF HandlerOK
  <2> HIDE DEF g
  <2>4. /\ v.pc = IF g = 0 THEN "zero" ELSE "grant"
        /\ v.granted = g /\ v.retryAfter = 0 /\ v.status = 200
      BY <2>3 DEF C!HandlerType
  <2> HIDE DEF v
  <2>5. CASE g = 0
    <3>1. v.pc = "zero" /\ v.granted = 0
        BY <2>4, <2>5
    <3>2. QED
        BY <1>a, <2>1, <2>4, <3>1
  <2>6. CASE g # 0
    <3>1. v.pc = "grant" /\ v.granted >= 1
        BY <2>2, <2>4, <2>6
    <3>2. QED
        BY <1>a, <2>1, <2>4, <3>1
  <2>7. QED
      BY <2>5, <2>6
<1>4. ASSUME NEW h \in Handlers, C!CountZero(h) PROVE \A i \in Handlers : HandlerOK(i)'
  <2> DEFINE v == [handler[h] EXCEPT !.pc = "hint"]
  <2>1. handler' = [handler EXCEPT ![h] = v] /\ handler[h].pc = "zero"
      BY <1>4 DEF C!CountZero
  <2>2. /\ v.pc = "hint" /\ v.granted = 0 /\ v.retryAfter = 0 /\ v.status = 200
      BY <1>0, <2>1 DEF HandlerOK, C!HandlerType
  <2> HIDE DEF v
  <2>3. QED
      BY <1>a, <2>1, <2>2
<1>5. ASSUME NEW h \in Handlers, C!ZeroGrant(h) PROVE \A i \in Handlers : HandlerOK(i)'
  <2> DEFINE t == handler[h].tenant
             b == C!RefillLocked(bucket[t], Rate[t], C!Cap(t), handler[h].now)
             n == C!RetryAfterMs(b, Rate[t])
             v == [handler[h] EXCEPT !.retryAfter = n, !.pc = "reply"]
  <2>1. handler' = [handler EXCEPT ![h] = v] /\ handler[h].pc = "hint"
      BY <1>5 DEF C!ZeroGrant
  <2>2. n \in 0..(Unit \div Ms) + 1
    <3>1. t \in Tenants /\ handler[h].now \in Nat
        BY <1>0, <2>1 DEF C!TypeOK, C!HandlerType
    <3>2. b \in C!BucketType(C!Cap(t)) /\ C!Cap(t) \in Nat /\ Rate[t] \in Nat \ {0}
        BY <1>0, <3>1, RefillTyped DEF C!TypeOK
    <3>3. QED
        BY <3>2, HintBounded
  <2> HIDE DEF n
  <2>3. /\ v.pc = "reply" /\ v.granted = 0 /\ v.retryAfter = n /\ v.status = 200
      BY <1>0, <2>1 DEF HandlerOK, C!HandlerType
  <2> HIDE DEF v
  <2>4. Ms * v.retryAfter \in Hints
      BY <2>2, <2>3 DEF Hints
  <2>5. AnswerOf(v) \in W!Answers
      BY <2>3, <2>4 DEF AnswerOf, W!Answers
  <2>6. QED
      BY <1>a, <2>1, <2>3, <2>5
<1>6. ASSUME NEW h \in Handlers, C!CountGrant(h) PROVE \A i \in Handlers : HandlerOK(i)'
  <2> DEFINE v == [handler[h] EXCEPT !.pc = "reply"]
  <2>1. handler' = [handler EXCEPT ![h] = v] /\ handler[h].pc = "grant"
      BY <1>6 DEF C!CountGrant
  <2>2. /\ v.pc = "reply" /\ v.granted \in 1..LeaseSize /\ v.retryAfter = 0 /\ v.status = 200
      BY <1>0, <2>1, RateLimiterAssumption DEF HandlerOK, C!HandlerType
  <2> HIDE DEF v
  <2>3. AnswerOf(v) \in W!Answers
      BY <2>2, RateLimiterAssumption DEF AnswerOf, W!Answers
  <2>4. QED
      BY <1>a, <2>1, <2>2, <2>3
<1>7. ASSUME NEW h \in Handlers, C!Reply(h) PROVE \A i \in Handlers : HandlerOK(i)'
  <2>1. handler' = [handler EXCEPT ![h] = C!Idle]
      BY <1>7 DEF C!Reply
  <2>2. handler'[h] = C!Idle /\ \A i \in Handlers : i # h => handler'[i] = handler[i]
      BY <1>0, <2>1
  <2>3. C!Idle.pc = "idle"
      BY DEF C!Idle
  <2>4. QED
      BY <1>0, <2>2, <2>3 DEF HandlerOK
<1>8. CASE C!Crash
  <2>1. \A i \in Handlers : handler'[i] = C!Idle
      BY <1>8 DEF C!Crash
  <2>2. C!Idle.pc = "idle"
      BY DEF C!Idle
  <2>3. QED
      BY <2>1, <2>2 DEF HandlerOK
<1>9. CASE C!Start \/ C!Tick \/ C!OpenWindow \/ UNCHANGED C!vars
  <2>1. handler' = handler
      BY <1>9 DEF C!Start, C!Tick, C!OpenWindow, C!vars
  <2>2. QED
      BY <1>0, <2>1 DEF HandlerOK
<1>10. QED
    BY <1>1, <1>2, <1>3, <1>4, <1>5, <1>6, <1>7, <1>8, <1>9 DEF C!Next, C!HandlerStep

-----------------------------------------------------------------------------
(* Who answers whom *)

\* A renewal goes on, and its call with it, while no handler works for it.
LEMMA CallGoesOn ==
    ASSUME RInv, UNCHANGED <<handler, peer>>,
           NEW r \in Renewers, call[r].pc # "open",
           NEW n \in W!RenewerType, renewer' = [renewer EXCEPT ![r] = n],
           NEW c \in CallType, call' = [call EXCEPT ![r] = c],
           c.pc # "none" <=> n.pc = "lease",
           c.pc # "replied" => c.answer = W!NoAnswer,
           n.pc # "lock" => n.answer = W!NoAnswer
    PROVE  Joined'
<1>1. /\ renewer'[r] = n /\ call'[r] = c
      /\ \A i \in Renewers : i # r => renewer'[i] = renewer[i] /\ call'[i] = call[i]
    BY Types
<1>2. \A i \in Renewers : CallOK(i)'
  <2>1. CallOK(r)'
      BY <1>1 DEF CallOK
  <2>2. ASSUME NEW i \in Renewers, i # r PROVE CallOK(i)'
      BY <1>1, <2>2 DEF CallOK, RInv, LinkInv, Joined
  <2>3. QED
      BY <2>1, <2>2
<1>3. ASSUME NEW h \in Handlers PROVE PeerOK(h)'
  <2>1. SUFFICES ASSUME peer[h] # Nil
                 PROVE  /\ handler[h].pc # "idle" /\ call'[peer[h]].pc = "open"
                        /\ handler[h].tenant = renewer'[peer[h]].key[2]
      BY DEF PeerOK, TenantOf
  <2>2. /\ peer[h] \in Renewers /\ handler[h].pc # "idle" /\ call[peer[h]].pc = "open"
        /\ handler[h].tenant = renewer[peer[h]].key[2]
      BY <2>1, Types DEF RInv, LinkInv, Joined, PeerOK, TenantOf
  <2>3. peer[h] # r
      BY <2>2
  <2>4. QED
      BY <1>1, <2>2, <2>3
<1>4. QED
    BY <1>2, <1>3 DEF Joined, RInv, LinkInv

\* Workers take steps of their own.
LEMMA WorkJoined ==
    ASSUME RInv, UNCHANGED <<handler, peer, call>>,
           \/ \E q \in Requests : W!CheckStep(q)
           \/ \E q \in Requests, k \in W!Keys, cost \in Costs : W!CheckStart(q, k, cost)
    PROVE  Joined'
<1>1. CASE renewer' = renewer
    BY <1>1 DEF RInv, LinkInv, Joined, CallOK, PeerOK, TenantOf
<1>2. ASSUME NEW q \in Requests, NEW r \in Renewers, W!CheckRenew(q, r) PROVE Joined'
  <2> DEFINE n == [W!IdleRenewer EXCEPT !.pc = "call", !.key = req[q].key]
  <2>1. renewer' = [renewer EXCEPT ![r] = n] /\ renewer[r].pc = "idle" /\ req[q].pc = "lock"
      BY <1>2 DEF W!CheckRenew
  <2>2. req[q].key \in W!Keys
      BY <2>1, Types DEF W!TypeOK
  <2>3. n \in W!RenewerType /\ n.pc = "call" /\ n.answer = W!NoAnswer
      BY <2>2 DEF W!IdleRenewer, W!RenewerType, W!NoAnswer, W!Answers
  <2>4. call[r].pc = "none"
      BY <2>1 DEF RInv, LinkInv, Joined, CallOK
  <2>5. call[r] \in CallType /\ call' = [call EXCEPT ![r] = call[r]]
      BY Types
  <2>6. call[r].answer = W!NoAnswer
      BY <2>4 DEF RInv, LinkInv, Joined, CallOK
  <2> HIDE DEF n
  <2>7. QED
      BY <2>1, <2>3, <2>4, <2>5, <2>6, CallGoesOn
<1>3. renewer' = renewer \/ \E q \in Requests, r \in Renewers : W!CheckRenew(q, r)
    BY DEF W!CheckStep, W!CheckStart, W!CheckUnknown, W!CheckLocked, W!WaitDone, W!WaitTimeout,
           W!WokenUnknown, W!WokenLocked, W!CheckReturn
<1>4. QED
    BY <1>1, <1>2, <1>3

\* The request goes on the wire.
LEMMA SendJoined ==
    ASSUME RInv, NEW r \in Renewers, Send(r)
    PROVE  Joined'
<1> DEFINE n == [renewer[r] EXCEPT !.pc = "lease"]
           c == [call[r] EXCEPT !.pc = "sent"]
<1>1. /\ renewer[r].pc = "call" /\ renewer' = [renewer EXCEPT ![r] = n]
      /\ call' = [call EXCEPT ![r] = c] /\ UNCHANGED <<handler, peer>>
    BY DEF Send, W!RenewCall, coordVars
<1>2. call[r].pc = "none" /\ call[r].answer = W!NoAnswer /\ renewer[r].answer = W!NoAnswer
    BY <1>1 DEF RInv, LinkInv, Joined, CallOK
<1>3. renewer[r] \in W!RenewerType /\ call[r] \in CallType
    BY Types
<1>4. n \in W!RenewerType /\ n.pc = "lease" /\ n.answer = W!NoAnswer
    BY <1>2, <1>3 DEF W!RenewerType
<1>5. c \in CallType /\ c.pc = "sent" /\ c.answer = W!NoAnswer
    BY <1>2, <1>3 DEF CallType
<1> HIDE DEF n, c
<1>6. QED
    BY <1>1, <1>2, <1>4, <1>5, CallGoesOn

\* An answer reaches its renewal.
LEMMA DeliverJoined ==
    ASSUME RInv, NEW r \in Renewers, Deliver(r)
    PROVE  Joined'
<1> DEFINE n == [renewer[r] EXCEPT !.pc = "lock", !.answer = call[r].answer, !.now = clock]
<1>1. /\ renewer' = [renewer EXCEPT ![r] = n]
      /\ call' = [call EXCEPT ![r] = NoCall] /\ UNCHANGED <<handler, peer>>
      /\ call[r].pc = "replied"
    BY DEF Deliver, W!LeaseReturn, coordVars
<1>2. renewer[r] \in W!RenewerType /\ call[r] \in CallType /\ clock \in Nat
    BY Types
<1>3. n \in W!RenewerType /\ n.pc = "lock"
    BY <1>2 DEF W!RenewerType, CallType
<1>4. NoCall \in CallType /\ NoCall.pc = "none" /\ NoCall.answer = W!NoAnswer
    BY DEF NoCall, CallType, W!NoAnswer, W!Answers
<1> HIDE DEF n
<1>5. QED
    BY <1>1, <1>3, <1>4, CallGoesOn

\* A renewal is over.
LEMMA FinishJoined ==
    ASSUME RInv, NEW r \in Renewers, Finish(r)
    PROVE  Joined'
<1>1. /\ renewer' = [renewer EXCEPT ![r] = W!IdleRenewer] /\ renewer[r].pc = "lock"
      /\ call' = call /\ UNCHANGED <<handler, peer>>
    BY DEF Finish, W!RenewLocked, coordVars, linkVars
<1>2. call[r].pc = "none"
    BY <1>1 DEF RInv, LinkInv, Joined, CallOK
<1>3. call[r].answer = W!NoAnswer
    BY <1>2 DEF RInv, LinkInv, Joined, CallOK
<1>4. /\ W!IdleRenewer \in W!RenewerType /\ W!IdleRenewer.pc = "idle"
      /\ W!IdleRenewer.answer = W!NoAnswer
    BY DEF W!IdleRenewer, W!RenewerType, W!NoAnswer, W!Answers
<1>5. call[r] \in CallType /\ call' = [call EXCEPT ![r] = call[r]]
    BY <1>1, Types
<1>6. QED
    BY <1>1, <1>2, <1>3, <1>4, <1>5, CallGoesOn

\* Some calls end while their handlers, if any, go on for nobody: the worker
\* gave up on them or is gone.
LEMMA CallsEnd ==
    ASSUME RInv, UNCHANGED handler, NEW S \in SUBSET Renewers,
           \A r \in Renewers :
             IF r \in S
             THEN /\ call'[r] = NoCall /\ renewer'[r].pc # "lease"
                  /\ renewer'[r].pc # "lock" => renewer'[r].answer = W!NoAnswer
             ELSE call'[r] = call[r] /\ renewer'[r] = renewer[r],
           peer' = [h \in Handlers |-> IF peer[h] \in S THEN Nil ELSE peer[h]]
    PROVE  Joined'
<1>1. ASSUME NEW r \in Renewers PROVE CallOK(r)'
  <2>1. CASE r \in S
      BY <2>1 DEF CallOK, NoCall
  <2>2. CASE r \notin S
      BY <2>2 DEF CallOK, RInv, LinkInv, Joined
  <2>3. QED
      BY <2>1, <2>2
<1>2. ASSUME NEW h \in Handlers PROVE PeerOK(h)'
  <2>1. SUFFICES ASSUME peer'[h] # Nil
                 PROVE  /\ handler[h].pc # "idle" /\ call'[peer'[h]].pc = "open"
                        /\ handler[h].tenant = renewer'[peer'[h]].key[2]
      BY DEF PeerOK, TenantOf
  <2>2. peer'[h] = peer[h] /\ peer[h] # Nil /\ peer[h] \notin S
      BY <2>1
  <2>3. /\ peer[h] \in Renewers /\ handler[h].pc # "idle" /\ call[peer[h]].pc = "open"
        /\ handler[h].tenant = renewer[peer[h]].key[2]
      BY <2>2, Types DEF RInv, LinkInv, Joined, PeerOK, TenantOf
  <2>4. QED
      BY <2>2, <2>3
<1>3. ASSUME NEW h \in Handlers, NEW i \in Handlers, peer'[h] = peer'[i], peer'[h] # Nil
      PROVE  h = i
  <2>1. peer'[h] = peer[h] /\ peer'[i] = peer[i]
      BY <1>3
  <2>2. QED
      BY <1>3, <2>1 DEF RInv, LinkInv, Joined
<1>4. QED
    BY <1>1, <1>2, <1>3 DEF Joined

\* Lease returns an error.
LEMMA GiveUpJoined ==
    ASSUME RInv, NEW r \in Renewers, GiveUp(r)
    PROVE  Joined'
<1> DEFINE n == [renewer[r] EXCEPT !.pc = "lock", !.answer = W!NoAnswer, !.now = clock]
<1>1. /\ renewer' = [renewer EXCEPT ![r] = n] /\ call' = [call EXCEPT ![r] = NoCall]
      /\ peer' = [h \in Handlers |-> IF peer[h] = r THEN Nil ELSE peer[h]]
      /\ UNCHANGED handler
    BY DEF GiveUp, W!LeaseReturn, coordVars
<1>2. renewer[r] \in W!RenewerType
    BY Types
<1>3. n.pc = "lock"
    BY <1>2 DEF W!RenewerType
<1> HIDE DEF n
<1>4. /\ renewer'[r] = n /\ call'[r] = NoCall
      /\ \A i \in Renewers : i # r => renewer'[i] = renewer[i] /\ call'[i] = call[i]
    BY <1>1, Types
<1>5. peer' = [h \in Handlers |-> IF peer[h] \in {r} THEN Nil ELSE peer[h]]
    BY <1>1
<1>6. \A i \in Renewers :
        IF i \in {r}
        THEN /\ call'[i] = NoCall /\ renewer'[i].pc # "lease"
             /\ renewer'[i].pc # "lock" => renewer'[i].answer = W!NoAnswer
        ELSE call'[i] = call[i] /\ renewer'[i] = renewer[i]
    BY <1>3, <1>4
<1>7. QED
    BY <1>1, <1>5, <1>6, CallsEnd

\* A worker is gone with all its goroutines.
LEMMA KillWorkerJoined ==
    ASSUME RInv, NEW w \in Workers, KillWorker(w)
    PROVE  Joined'
<1> DEFINE gone == {r \in Renewers : renewer[r].pc # "idle" /\ renewer[r].key[1] = w}
<1>1. /\ renewer' = [r \in Renewers |-> IF renewer[r].pc # "idle" /\ renewer[r].key[1] = w
                                        THEN W!IdleRenewer ELSE renewer[r]]
      /\ call' = [r \in Renewers |-> IF r \in gone THEN NoCall ELSE call[r]]
      /\ peer' = [h \in Handlers |-> IF peer[h] \in gone THEN Nil ELSE peer[h]]
      /\ UNCHANGED handler
    BY DEF KillWorker, W!WorkerCrash, coordVars
<1>2. W!IdleRenewer.pc = "idle" /\ W!IdleRenewer.answer = W!NoAnswer
    BY DEF W!IdleRenewer
<1>3. \A i \in Renewers :
        IF i \in gone
        THEN /\ call'[i] = NoCall /\ renewer'[i].pc # "lease"
             /\ renewer'[i].pc # "lock" => renewer'[i].answer = W!NoAnswer
        ELSE call'[i] = call[i] /\ renewer'[i] = renewer[i]
    BY <1>1, <1>2
<1>4. gone \in SUBSET Renewers
    OBVIOUS
<1> HIDE DEF gone
<1>5. QED
    BY <1>1, <1>3, <1>4, CallsEnd

\* The coordinator starts a handler for the call of a worker.
LEMMA ReceiveJoined ==
    ASSUME RInv, NEW h \in Handlers, NEW r \in Renewers, Receive(h, r)
    PROVE  Joined'
<1>1. /\ call[r].pc = "sent" /\ call' = [call EXCEPT ![r].pc = "open"]
      /\ peer' = [peer EXCEPT ![h] = r] /\ UNCHANGED renewer
      /\ handler[h].pc = "idle"
    BY DEF Receive, C!HandleLease, C!RefuseLease, workVars
<1>2. /\ \A i \in Handlers : i # h => handler'[i] = handler[i]
      /\ handler'[h].pc # "idle" /\ handler'[h].tenant = TenantOf(r)
  <2>1. handler[h] \in C!HandlerType /\ handler \in [Handlers -> C!HandlerType]
      BY Types
  <2>2. CASE TenantOf(r) \in Tenants
    <3>1. handler' = [handler EXCEPT ![h] = [@ EXCEPT !.pc = "take", !.tenant = TenantOf(r),
                                                      !.now = clock]]
        BY <2>2 DEF Receive, C!HandleLease
    <3>2. QED
        BY <2>1, <3>1 DEF C!HandlerType
  <2>3. CASE TenantOf(r) \notin Tenants
    <3>1. \E code : handler' = [handler EXCEPT ![h] =
              [@ EXCEPT !.pc = "reply", !.tenant = TenantOf(r), !.status = code]]
        BY <2>3 DEF Receive, C!RefuseLease
    <3>2. QED
        BY <2>1, <3>1 DEF C!HandlerType
  <2>4. QED
      BY <2>2, <2>3
<1>3. /\ call'[r].pc = "open" /\ call'[r].answer = call[r].answer
      /\ \A i \in Renewers : i # r => call'[i] = call[i]
    BY <1>1, Types DEF CallType
<1>4. peer'[h] = r /\ \A i \in Handlers : i # h => peer'[i] = peer[i]
    BY <1>1, Types
<1>5. \A i \in Handlers : i # h => peer[i] # r
    \* nobody works for a call that is still on the wire
  <2>1. r # Nil
      BY RateLimiterAssumption
  <2>2. QED
      BY <1>1, <2>1 DEF RInv, LinkInv, Joined, PeerOK
<1>6. ASSUME NEW i \in Renewers PROVE CallOK(i)'
    BY <1>1, <1>3 DEF CallOK, RInv, LinkInv, Joined
<1>7. ASSUME NEW i \in Handlers PROVE PeerOK(i)'
  <2>1. CASE i = h
      BY <1>1, <1>2, <1>3, <1>4, <2>1 DEF PeerOK, TenantOf
  <2>2. CASE i # h
    <3>1. SUFFICES ASSUME peer[i] # Nil
                   PROVE  /\ handler[i].pc # "idle" /\ call'[peer[i]].pc = "open"
                          /\ handler[i].tenant = renewer[peer[i]].key[2]
        BY <1>1, <1>2, <1>4, <2>2 DEF PeerOK, TenantOf
    <3>2. /\ peer[i] \in Renewers /\ handler[i].pc # "idle" /\ call[peer[i]].pc = "open"
          /\ handler[i].tenant = renewer[peer[i]].key[2]
        BY <3>1, Types DEF RInv, LinkInv, Joined, PeerOK, TenantOf
    <3>3. QED
        BY <1>3, <1>5, <2>2, <3>2
  <2>3. QED
      BY <2>1, <2>2
<1>8. ASSUME NEW i \in Handlers, NEW j \in Handlers, peer'[i] = peer'[j], peer'[i] # Nil
      PROVE  i = j
    BY <1>4, <1>5, <1>8 DEF RInv, LinkInv, Joined
<1>9. QED
    BY <1>6, <1>7, <1>8 DEF Joined

\* Handlers go on, and nobody's call with them.
LEMMA HandlersJoined ==
    ASSUME RInv, UNCHANGED <<renewer, call, peer>>,
           \A h \in Handlers : peer[h] # Nil =>
             handler'[h].pc # "idle" /\ handler'[h].tenant = handler[h].tenant
    PROVE  Joined'
<1>1. \A h \in Handlers : PeerOK(h)'
    BY DEF PeerOK, RInv, LinkInv, Joined, TenantOf
<1>2. \A r \in Renewers : CallOK(r)'
    BY DEF CallOK, RInv, LinkInv, Joined
<1>3. QED
    BY <1>1, <1>2 DEF RInv, LinkInv, Joined

\* The handler writes its response.
LEMMA RespondJoined ==
    ASSUME RInv, NEW h \in Handlers, Respond(h)
    PROVE  Joined'
<1>1. /\ handler' = [handler EXCEPT ![h] = C!Idle] /\ UNCHANGED renewer
      /\ handler[h].pc = "reply"
    BY DEF Respond, C!Reply, workVars
<1>2. \A i \in Handlers : i # h => handler'[i] = handler[i]
    BY <1>1, Types
<1>3. CASE peer[h] = Nil
  <2>1. UNCHANGED <<renewer, call, peer>>
      BY <1>1, <1>3 DEF Respond
  <2>2. QED
      BY <1>2, <1>3, <2>1, HandlersJoined DEF RInv, LinkInv, Joined, PeerOK
<1>4. CASE peer[h] # Nil
  <2> DEFINE r == peer[h]
  <2>1. /\ r \in Renewers /\ call[r].pc = "open"
      BY <1>4, Types DEF RInv, LinkInv, Joined, PeerOK
  <2>2. /\ call' = [call EXCEPT ![r] = [pc |-> "replied", answer |-> AnswerOf(handler[h])]]
        /\ peer' = [peer EXCEPT ![h] = Nil]
      BY <1>4 DEF Respond
  <2>3. /\ call'[r].pc = "replied"
        /\ \A i \in Renewers : i # r => call'[i] = call[i]
      BY <2>1, <2>2, Types
  <2>4. peer'[h] = Nil /\ \A i \in Handlers : i # h => peer'[i] = peer[i]
      BY <2>2, Types
  <2>5. \A i \in Handlers : i # h => peer[i] # r
      BY <1>4 DEF RInv, LinkInv, Joined
  <2> HIDE DEF r
  <2>6. ASSUME NEW i \in Renewers PROVE CallOK(i)'
      BY <1>1, <2>1, <2>3 DEF CallOK, RInv, LinkInv, Joined
  <2>7. ASSUME NEW i \in Handlers PROVE PeerOK(i)'
    <3>1. CASE i = h
        BY <2>4, <3>1 DEF PeerOK
    <3>2. CASE i # h
      <4>1. SUFFICES ASSUME peer[i] # Nil
                     PROVE  /\ handler[i].pc # "idle" /\ call'[peer[i]].pc = "open"
                            /\ handler[i].tenant = renewer[peer[i]].key[2]
          BY <1>1, <1>2, <2>4, <3>2 DEF PeerOK, TenantOf
      <4>2. /\ peer[i] \in Renewers /\ handler[i].pc # "idle" /\ call[peer[i]].pc = "open"
            /\ handler[i].tenant = renewer[peer[i]].key[2]
          BY <4>1, Types DEF RInv, LinkInv, Joined, PeerOK, TenantOf
      <4>3. QED
          BY <2>3, <2>5, <3>2, <4>2
    <3>3. QED
        BY <3>1, <3>2
  <2>8. ASSUME NEW i \in Handlers, NEW j \in Handlers, peer'[i] = peer'[j], peer'[i] # Nil
        PROVE  i = j
      BY <2>4, <2>8 DEF RInv, LinkInv, Joined
  <2>9. QED
      BY <2>6, <2>7, <2>8 DEF Joined
<1>5. QED
    BY <1>3, <1>4

\* A handler goes from statement to statement.
LEMMA HandleJoined ==
    ASSUME RInv, NEW h \in Handlers, Handle(h)
    PROVE  Joined'
<1>1. handler \in [Handlers -> C!HandlerType] /\ UNCHANGED <<renewer, call, peer>>
    BY Types DEF Handle, workVars, linkVars
<1>2. /\ handler'[h].pc # "idle" /\ handler'[h].tenant = handler[h].tenant
      /\ \A i \in Handlers : i # h => handler'[i] = handler[i]
  <2>1. CASE C!TakeUpTo(h)
    <3>1. \E g : handler' = [handler EXCEPT ![h] =
              [@ EXCEPT !.granted = g, !.pc = IF g = 0 THEN "zero" ELSE "grant"]]
        BY <2>1 DEF C!TakeUpTo
    <3>2. QED
        BY <1>1, <3>1 DEF C!HandlerType
  <2>2. CASE C!ZeroGrant(h)
    <3>1. \E n : handler' = [handler EXCEPT ![h] = [@ EXCEPT !.retryAfter = n, !.pc = "reply"]]
        BY <2>2 DEF C!ZeroGrant
    <3>2. QED
        BY <1>1, <3>1 DEF C!HandlerType
  <2>3. CASE C!CountZero(h) \/ C!CountGrant(h)
      BY <1>1, <2>3 DEF C!CountZero, C!CountGrant, C!HandlerType
  <2>4. QED
      BY <2>1, <2>2, <2>3 DEF Handle
<1>3. \A i \in Handlers : peer[i] # Nil => handler[i].pc # "idle"
    BY DEF RInv, LinkInv, Joined, PeerOK
<1>4. QED
    BY <1>1, <1>2, <1>3, HandlersJoined

\* A request that nobody waits for arrives.
LEMMA ReceiveLateJoined ==
    ASSUME RInv, NEW h \in Handlers, NEW t \in Tenants, ReceiveLate(h, t)
    PROVE  Joined'
<1>1. UNCHANGED <<renewer, call, peer>> /\ handler[h].pc = "idle"
    BY DEF ReceiveLate, workVars, C!HandleLease
<1>2. \A i \in Handlers : i # h => handler'[i] = handler[i]
    BY Types DEF ReceiveLate, C!HandleLease
<1>3. \A i \in Handlers : peer[i] # Nil => handler[i].pc # "idle"
    BY DEF RInv, LinkInv, Joined, PeerOK
<1>4. QED
    BY <1>1, <1>2, <1>3, HandlersJoined

\* The coordinator is gone with all its handlers.
LEMMA KillCoordinatorJoined ==
    ASSUME RInv, KillCoordinator
    PROVE  Joined'
<1>1. UNCHANGED <<renewer, call>> /\ \A h \in Handlers : peer'[h] = Nil
    BY DEF KillCoordinator, workVars
<1>2. \A r \in Renewers : CallOK(r)'
    BY <1>1 DEF CallOK, RInv, LinkInv, Joined
<1>3. QED
    BY <1>1, <1>2 DEF Joined, PeerOK

-----------------------------------------------------------------------------
(* The tokens that workers hold or are about to receive *)

\* The three parts of Held(t).
InPools(t)    == [w \in Workers |-> pool[<<w, t>>].tokens]
InHandlers(t) == [h \in Handlers |-> Answering(h, t)]
InCalls(t)    == [r \in Renewers |-> Carrying(r, t)]

\* Each part counts tokens, and so does the whole.
LEMMA HeldCounts ==
    ASSUME RInv
    PROVE  \A t \in Tenants :
             /\ \A w \in Workers : InPools(t)[w] \in Nat
             /\ \A h \in Handlers : InHandlers(t)[h] \in Nat
             /\ \A r \in Renewers : InCalls(t)[r] \in Nat
             /\ Held(t) = SumFunctionOnSet(InPools(t), Workers)
                            + SumFunctionOnSet(InHandlers(t), Handlers)
                            + SumFunctionOnSet(InCalls(t), Renewers)
             /\ SumFunctionOnSet(InPools(t), Workers) \in Nat
             /\ SumFunctionOnSet(InHandlers(t), Handlers) \in Nat
             /\ SumFunctionOnSet(InCalls(t), Renewers) \in Nat
             /\ Held(t) \in Nat
<1> SUFFICES ASSUME NEW t \in Tenants
             PROVE  /\ \A w \in Workers : InPools(t)[w] \in Nat
                    /\ \A h \in Handlers : InHandlers(t)[h] \in Nat
                    /\ \A r \in Renewers : InCalls(t)[r] \in Nat
                    /\ Held(t) = SumFunctionOnSet(InPools(t), Workers)
                                   + SumFunctionOnSet(InHandlers(t), Handlers)
                                   + SumFunctionOnSet(InCalls(t), Renewers)
                    /\ SumFunctionOnSet(InPools(t), Workers) \in Nat
                    /\ SumFunctionOnSet(InHandlers(t), Handlers) \in Nat
                    /\ SumFunctionOnSet(InCalls(t), Renewers) \in Nat
                    /\ Held(t) \in Nat
    OBVIOUS
<1>1. \A w \in Workers : InPools(t)[w] \in Nat
  <2>1. \A w \in Workers : <<w, t>> \in W!Keys
      BY DEF W!Keys, Names
  <2>2. QED
      BY <2>1, Types DEF InPools, W!PoolType
<1>2. \A h \in Handlers : InHandlers(t)[h] \in Nat
    BY Types, RateLimiterAssumption DEF InHandlers, Answering, C!HandlerType
<1>3. \A r \in Renewers : InCalls(t)[r] \in Nat
  <2>1. \A a \in W!Answers : a.tokens \in Nat
      BY RateLimiterAssumption DEF W!Answers
  <2>2. \A r \in Renewers : call[r].answer.tokens \in Nat /\ renewer[r].answer.tokens \in Nat
      BY <2>1, Types DEF CallType, W!RenewerType
  <2>3. QED
      BY <2>2 DEF InCalls, Carrying
<1>4. Held(t) = SumFunctionOnSet(InPools(t), Workers) + SumFunctionOnSet(InHandlers(t), Handlers)
                  + SumFunctionOnSet(InCalls(t), Renewers)
    BY DEF Held, InPools, InHandlers, InCalls
<1>5. /\ SumFunctionOnSet(InPools(t), Workers) \in Nat
      /\ SumFunctionOnSet(InHandlers(t), Handlers) \in Nat
      /\ SumFunctionOnSet(InCalls(t), Renewers) \in Nat
    BY <1>1, <1>2, <1>3, SumNat, RateLimiterAssumption
<1>6. QED
    BY <1>1, <1>2, <1>3, <1>4, <1>5

-----------------------------------------------------------------------------
(* The link is well typed *)

\* Every answer a handler writes is one of the workers' answers.
LEMMA ReplyTyped ==
    ASSUME RInv, NEW h \in Handlers, handler[h].pc = "reply"
    PROVE  [pc |-> "replied", answer |-> AnswerOf(handler[h])] \in CallType
    BY DEF RInv, LinkInv, HandlerOK, CallType

\* Calls and peers keep their types.
LEMMA CallsTyped ==
    ASSUME RInv, [Next]_vars
    PROVE  call' \in [Renewers -> CallType] /\ peer' \in [Handlers -> Renewers \cup {Nil}]
<1>1. /\ call \in [Renewers -> CallType] /\ peer \in [Handlers -> Renewers \cup {Nil}]
      /\ NoCall \in CallType
    BY Types DEF NoCall, CallType, W!NoAnswer, W!Answers
<1>2. CASE UNCHANGED <<call, peer>>
    BY <1>1, <1>2
<1>3. ASSUME NEW r \in Renewers, Send(r) PROVE call' \in [Renewers -> CallType]
    BY <1>1, <1>3 DEF Send, CallType
<1>4. ASSUME NEW r \in Renewers, Deliver(r) \/ GiveUp(r) PROVE call' \in [Renewers -> CallType]
    BY <1>1, <1>4 DEF Deliver, GiveUp
<1>5. ASSUME NEW h \in Handlers, NEW r \in Renewers, Receive(h, r)
      PROVE  call' \in [Renewers -> CallType] /\ peer' \in [Handlers -> Renewers \cup {Nil}]
    BY <1>1, <1>5 DEF Receive, CallType
<1>6. ASSUME NEW h \in Handlers, Respond(h)
      PROVE  call' \in [Renewers -> CallType] /\ peer' \in [Handlers -> Renewers \cup {Nil}]
  <2>1. CASE peer[h] = Nil
      BY <1>1, <1>6, <2>1 DEF Respond
  <2>2. CASE peer[h] # Nil
    <3>1. handler[h].pc = "reply"
        BY <1>6 DEF Respond, C!Reply
    <3>2. /\ call' = [call EXCEPT ![peer[h]] = [pc |-> "replied", answer |-> AnswerOf(handler[h])]]
          /\ peer' = [peer EXCEPT ![h] = Nil]
        BY <1>6, <2>2 DEF Respond
    <3>3. QED
        BY <1>1, <3>1, <3>2, ReplyTyped
  <2>3. QED
      BY <2>1, <2>2
<1>7. ASSUME NEW w \in Workers, KillWorker(w)
      PROVE  call' \in [Renewers -> CallType] /\ peer' \in [Handlers -> Renewers \cup {Nil}]
    BY <1>1, <1>7 DEF KillWorker
<1>8. CASE KillCoordinator
    BY <1>1, <1>8 DEF KillCoordinator
<1>9. ASSUME NEW r \in Renewers, Send(r) \/ Deliver(r) \/ GiveUp(r)
      PROVE  peer' \in [Handlers -> Renewers \cup {Nil}]
    BY <1>1, <1>9 DEF Send, Deliver, GiveUp
<1>10. \/ UNCHANGED <<call, peer>>
       \/ \E r \in Renewers : Send(r) \/ Deliver(r) \/ GiveUp(r)
       \/ \E h \in Handlers, r \in Renewers : Receive(h, r)
       \/ \E h \in Handlers : Respond(h)
       \/ \E w \in Workers : KillWorker(w)
       \/ KillCoordinator
    BY DEF Next, vars, linkVars, Arrive, Decide, Finish, ReceiveLate, Handle,
           StartCoordinator, Tick, OpenWindow
<1>11. QED
    BY <1>2, <1>3, <1>4, <1>5, <1>6, <1>7, <1>8, <1>9, <1>10

\* No more than MaxLate requests are on the wire for nobody.
LEMMA LateBounded ==
    ASSUME RInv, [Next]_vars
    PROVE  late' \in [Tenants -> Nat] /\ SumFunctionOnSet(late', Tenants) <= MaxLate
<1>1. /\ late \in [Tenants -> Nat] /\ SumFunctionOnSet(late, Tenants) <= MaxLate
      /\ SumFunctionOnSet(late, Tenants) \in Nat /\ MaxLate \in Nat /\ IsFiniteSet(Tenants)
  <2>1. late \in [Tenants -> Nat] /\ SumFunctionOnSet(late, Tenants) <= MaxLate
      BY Types DEF LinkType
  <2>2. SumFunctionOnSet(late, Tenants) \in Nat
      BY <2>1, SumNat, RateLimiterAssumption
  <2>3. QED
      BY <2>1, <2>2, RateLimiterAssumption
<1>2. CASE UNCHANGED late
    BY <1>1, <1>2
<1>3. ASSUME NEW t \in Tenants, NEW n \in Nat, late' = [late EXCEPT ![t] = n],
             SumFunctionOnSet(late, Tenants) - late[t] + n <= MaxLate
      PROVE  late' \in [Tenants -> Nat] /\ SumFunctionOnSet(late', Tenants) <= MaxLate
  <2>1. late' \in [Tenants -> Nat] /\ late'[t] = n
      BY <1>1, <1>3
  <2>2. /\ \A s \in Tenants : late[s] \in Int /\ late'[s] \in Int
        /\ \A s \in Tenants : s # t => late[s] = late'[s]
    <3>1. \A s \in Tenants : late[s] \in Nat /\ late'[s] \in Nat
        BY <1>1, <2>1
    <3>2. \A s \in Tenants : s # t => late[s] = late'[s]
        BY <1>1, <1>3
    <3>3. QED
        BY <3>1, <3>2
  <2>3. SumFunctionOnSet(late', Tenants) = SumFunctionOnSet(late, Tenants) - late[t] + late'[t]
    <3>1. IsFiniteSet(Tenants)
        BY RateLimiterAssumption
    <3>2. QED
        BY <2>2, <3>1, SumChange
  <2>4. QED
      BY <1>3, <2>1, <2>3
<1>4. ASSUME NEW r \in Renewers, GiveUp(r), ~UNCHANGED late
      PROVE  late' \in [Tenants -> Nat] /\ SumFunctionOnSet(late', Tenants) <= MaxLate
  <2>1. /\ TenantOf(r) \in Tenants /\ SumFunctionOnSet(late, Tenants) < MaxLate
        /\ late' = [late EXCEPT ![TenantOf(r)] = @ + 1]
      BY <1>4 DEF GiveUp
  <2>2. late[TenantOf(r)] + 1 \in Nat /\ late[TenantOf(r)] \in Nat
      BY <1>1, <2>1
  <2>3. SumFunctionOnSet(late, Tenants) - late[TenantOf(r)] + (late[TenantOf(r)] + 1) <= MaxLate
      BY <1>1, <2>1, <2>2
  <2>4. QED
      BY <1>3, <2>1, <2>2, <2>3
<1>5. ASSUME NEW h \in Handlers, NEW t \in Tenants, ReceiveLate(h, t)
      PROVE  late' \in [Tenants -> Nat] /\ SumFunctionOnSet(late', Tenants) <= MaxLate
  <2>1. late[t] > 0 /\ late' = [late EXCEPT ![t] = @ - 1]
      BY <1>5 DEF ReceiveLate
  <2>2. late[t] - 1 \in Nat /\ late[t] \in Nat
      BY <1>1, <2>1
  <2>3. SumFunctionOnSet(late, Tenants) - late[t] + (late[t] - 1) <= MaxLate
      BY <1>1, <2>2
  <2>4. QED
      BY <1>3, <2>1, <2>2, <2>3
<1>6. \/ UNCHANGED late
      \/ \E r \in Renewers : GiveUp(r)
      \/ \E h \in Handlers, t \in Tenants : ReceiveLate(h, t)
    BY DEF Next, vars, linkVars, Arrive, Decide, Finish, Send, Deliver, Receive, Handle,
           Respond,
           KillWorker, KillCoordinator, StartCoordinator, Tick, OpenWindow
<1>7. QED
    BY <1>2, <1>4, <1>5, <1>6

\* What is admitted is counted in tokens.
LEMMA HistoryTyped ==
    ASSUME RInv, [Next]_vars
    PROVE  winAdmitted' \in [Tenants -> Nat] /\ winHeld' \in [Tenants -> Nat]
<1>1. winAdmitted \in [Tenants -> Nat] /\ winHeld \in [Tenants -> Nat]
    BY Types DEF LinkType
<1>2. ASSUME NEW q \in Requests, Decide(q) PROVE winAdmitted' \in [Tenants -> Nat]
  <2>1. req[q].cost \in Nat
      BY Types, RateLimiterAssumption DEF W!ReqType
  <2>2. QED
      BY <1>1, <1>2, <2>1 DEF Decide
<1>3. CASE OpenWindow
    BY <1>1, <1>3, HeldCounts DEF OpenWindow
<1>4. /\ UNCHANGED winAdmitted \/ \E q \in Requests : Decide(q)
      /\ UNCHANGED winHeld \/ OpenWindow
    BY DEF Next, vars, histVars, Arrive, Decide, Send, Deliver, GiveUp, Finish, Receive,
           ReceiveLate,
           Handle, Respond, KillWorker, KillCoordinator, StartCoordinator, Tick, OpenWindow
<1>5. QED
    BY <1>1, <1>2, <1>3, <1>4

-----------------------------------------------------------------------------
(* The invariant *)

\* Every step keeps handlers and renewals joined.
LEMMA JoinedKept ==
    ASSUME RInv, [Next]_vars
    PROVE  Joined'
<1>1. ASSUME NEW q \in Requests, NEW k \in W!Keys, NEW cost \in Costs, Arrive(q, k, cost)
      PROVE  Joined'
    BY <1>1, WorkJoined DEF Arrive, coordVars, linkVars
<1>2. ASSUME NEW q \in Requests, Decide(q) PROVE Joined'
    BY <1>2, WorkJoined DEF Decide, coordVars, linkVars
<1>3. CASE StartCoordinator \/ Tick \/ OpenWindow \/ UNCHANGED vars
  <2>1. UNCHANGED <<renewer, call, peer, handler>>
      BY <1>3 DEF StartCoordinator, Tick, OpenWindow, vars, workVars, linkVars, coordVars,
                  C!Start, C!Tick, C!OpenWindow
  <2>2. QED
      BY <2>1, HandlersJoined DEF RInv, LinkInv, Joined, PeerOK
<1>4. QED
    BY <1>1, <1>2, <1>3, SendJoined, DeliverJoined, GiveUpJoined, FinishJoined, ReceiveJoined,
       ReceiveLateJoined, HandleJoined, RespondJoined, KillWorkerJoined, KillCoordinatorJoined
    DEF Next

\* A request is admitted by the step that decides it.
LEMMA UndecidedKept ==
    ASSUME RInv, [W!Next]_(W!vars)
    PROVE  Undecided'
<1> DEFINE Settled(x) == req'[x] = req[x] \/ req'[x].pc = "count" \/ ~req'[x].admitted
<1>1. SUFFICES ASSUME NEW x \in Requests PROVE Settled(x)
  <2>1. ASSUME NEW x \in Requests, Settled(x)
        PROVE  req'[x].pc # "count" => ~req'[x].admitted
      BY <2>1 DEF RInv, Undecided
  <2> HIDE DEF Settled
  <2>2. QED
      BY <2>1 DEF Undecided
<1>2. req \in [Requests -> W!ReqType]
    BY Types
<1>3. req[x].pc # "count" => ~req[x].admitted
    BY DEF RInv, Undecided
<1>4. ~W!IdleReq.admitted
    BY DEF W!IdleReq
<1>5. ASSUME NEW q \in Requests, NEW k \in W!Keys, NEW cost \in Costs, W!CheckStart(q, k, cost)
      PROVE  Settled(x)
    BY <1>2, <1>3, <1>5 DEF W!CheckStart, W!ReqType
<1>6. ASSUME NEW q \in Requests, W!CheckUnknown(q) \/ W!WokenUnknown(q) \/ W!CheckReturn(q)
      PROVE  Settled(x)
    BY <1>2, <1>4, <1>6 DEF W!CheckUnknown, W!WokenUnknown, W!CheckReturn
<1>7. ASSUME NEW q \in Requests, NEW p, NEW ok, W!Proceed(q, p, ok), req[q].pc = "lock"
      PROVE  Settled(x)
    BY <1>2, <1>3, <1>7 DEF W!Proceed, W!ReqType
<1>8. ASSUME NEW q \in Requests, W!CheckLocked(q) \/ \E r \in Renewers : W!CheckRenew(q, r)
      PROVE  Settled(x)
    BY <1>7, <1>8 DEF W!CheckLocked, W!CheckRenew
<1>9. ASSUME NEW q \in Requests, W!WaitDone(q) \/ W!WaitTimeout(q)
      PROVE  Settled(x)
  <2>1. CASE W!WaitDone(q)
    <3> DEFINE v == [req[q] EXCEPT !.pc = "relock", !.now = clock, !.done = Nil]
    <3>1. req' = [req EXCEPT ![q] = v] /\ req[q].pc = "wait"
        BY <2>1 DEF W!WaitDone
    <3>2. v.admitted = req[q].admitted
        BY <1>2 DEF W!ReqType
    <3> HIDE DEF v
    <3>3. QED
        BY <1>2, <1>3, <3>1, <3>2
  <2>2. CASE W!WaitTimeout(q)
    <3> DEFINE v == [req[q] EXCEPT !.pc = "count", !.done = Nil]
    <3>1. req' = [req EXCEPT ![q] = v]
        BY <2>2 DEF W!WaitTimeout
    <3>2. v.pc = "count"
        BY <1>2 DEF W!ReqType
    <3> HIDE DEF v
    <3>3. QED
        BY <1>2, <3>1, <3>2
  <2>3. QED
      BY <1>9, <2>1, <2>2
<1>10. ASSUME NEW q \in Requests, W!WokenLocked(q) PROVE Settled(x)
    BY <1>2, <1>10 DEF W!WokenLocked, W!ReqType
<1>11. ASSUME NEW r \in Renewers, W!RenewLocked(r) PROVE Settled(x)
  <2>1. \E p : W!CloseDone(p)
      BY <1>11 DEF W!RenewLocked
  <2>2. QED
      BY <1>2, <1>3, <2>1 DEF W!CloseDone, W!ReqType
<1>12. ASSUME NEW w \in Workers, W!WorkerCrash(w) PROVE Settled(x)
    BY <1>2, <1>4, <1>12 DEF W!WorkerCrash
<1>13. ASSUME UNCHANGED req PROVE Settled(x)
    BY <1>13
<1>14. ASSUME NEW r \in Renewers, W!RenewCall(r) \/ \E a \in W!Answers : W!LeaseReturn(r, a)
       PROVE  Settled(x)
    BY <1>13, <1>14 DEF W!RenewCall, W!LeaseReturn
<1>15. CASE W!Tick \/ UNCHANGED W!vars
    BY <1>13, <1>15 DEF W!Tick, W!vars
<1> HIDE DEF Settled
<1>16. QED
    BY <1>5, <1>6, <1>8, <1>9, <1>10, <1>11, <1>12, <1>14, <1>15 DEF W!Next, W!CheckStep

\* RInv holds initially.
LEMMA InvariantInitially ==
    ASSUME Init
    PROVE  RInv
<1>1. LP!IInv
    BY SameWorkers, LP!InitOK, WorkersGrounded
    DEF Init, LP!PoolAssumption, LP!LimiterAssumption, LP!AccountingAssumption
<1>2. CP!IInv
  <2>1. CP!Init
      BY SameCoordinator DEF Init
  <2>2. CP!TypeOK
      BY <2>1, CP!InitTyped, CoordinatorGrounded
      DEF CP!BucketAssumption, CP!CoordinatorAssumption
  <2>3. QED
      BY <2>1, <2>2, CP!InitOK, CoordinatorGrounded
      DEF CP!BucketAssumption, CP!CoordinatorAssumption
<1>3. LinkType
  <2>1. /\ NoCall \in CallType /\ Nil \notin Renewers
      BY RateLimiterAssumption DEF NoCall, CallType, W!NoAnswer, W!Answers
  <2>2. SumFunctionOnSet(late, Tenants) <= MaxLate
    <3>1. \A s \in Tenants : late[s] = 0
        BY DEF Init
    <3>2. SumFunctionOnSet(late, Tenants) = SumFunctionOnSet(late, {})
        BY <3>1, SumZeros, RateLimiterAssumption
    <3>3. QED
        BY <3>2, SumEmpty, RateLimiterAssumption
  <2>3. QED
      BY <2>1, <2>2 DEF Init, LinkType
<1>4. Joined
  <2>1. \A r \in Renewers : renewer[r] = W!IdleRenewer /\ call[r] = NoCall
      BY DEF Init, W!Init
  <2>2. \A h \in Handlers : peer[h] = Nil
      BY DEF Init
  <2>3. QED
      BY <2>1, <2>2 DEF Joined, CallOK, PeerOK, W!IdleRenewer, NoCall
<1>5. \A h \in Handlers : HandlerOK(h)
  <2>1. \A h \in Handlers : handler[h] = C!Idle
      BY DEF Init, C!Init
  <2>2. C!Idle.pc = "idle"
      BY DEF C!Idle
  <2>3. QED
      BY <2>1, <2>2 DEF HandlerOK
<1>6. Undecided /\ clock >= 1
    BY DEF Init, W!Init, W!IdleReq, Undecided
<1>7. QED
    BY <1>1, <1>2, <1>3, <1>4, <1>5, <1>6 DEF RInv, LinkInv

\* Every step keeps RInv.
LEMMA InvariantKept ==
    ASSUME RInv, [Next]_vars
    PROVE  RInv'
<1>1. LP!IInv' /\ CP!IInv'
    BY ComponentsKept
<1>2. LinkType'
    BY CallsTyped, LateBounded, HistoryTyped DEF LinkType
<1>3. Joined'
    BY JoinedKept
<1>4. \A h \in Handlers : HandlerOK(h)'
    BY CoordinatorStep, HandlersKept
<1>5. Undecided'
    BY WorkerStep, UndecidedKept
<1>6. (clock >= 1)'
  <2>1. clock' = clock \/ clock' = clock + 1
      BY CoordinatorStep
      DEF C!Next, C!vars, C!HandleLease, C!RefuseLease, C!HandlerStep, C!TakeUpTo, C!CountZero,
          C!ZeroGrant, C!CountGrant, C!Reply, C!Crash, C!Start, C!Tick, C!OpenWindow
  <2>2. QED
      BY <2>1, Types DEF RInv
<1>7. QED
    BY <1>1, <1>2, <1>3, <1>4, <1>5, <1>6 DEF RInv, LinkInv

\* The invariants of the workers, of the coordinator and of the link between
\* them hold together, in every reachable state of the whole.
THEOREM RateLimiterInductive == Spec => []RInv
    BY InvariantInitially, InvariantKept, PTL DEF Spec

\* Every variable of the whole keeps its type.
THEOREM RateLimiterTypes == Spec => []TypeOK
<1>1. RInv => TypeOK
  <2> SUFFICES ASSUME RInv PROVE TypeOK
      OBVIOUS
  <2>1. late \in [Tenants -> 0..MaxLate]
    <3>1. /\ late \in [Tenants -> Nat] /\ SumFunctionOnSet(late, Tenants) <= MaxLate
          /\ IsFiniteSet(Tenants) /\ MaxLate \in Nat
        BY Types, RateLimiterAssumption DEF LinkType
    <3>2. ASSUME NEW t \in Tenants PROVE late[t] <= MaxLate
      <4>1. SumFunctionOnSet(late, Tenants) = late[t] + SumFunctionOnSet(late, Tenants \ {t})
          BY <3>1, SumRemove
      <4>2. IsFiniteSet(Tenants \ {t})
          BY <3>1, FS_RemoveElement
      <4>3. SumFunctionOnSet(late, Tenants \ {t}) \in Nat
          BY <3>1, <4>2, SumNat
      <4>4. QED
          BY <3>1, <4>1, <4>3
    <3>3. QED
        BY <3>1, <3>2
  <2>2. QED
      BY <2>1, Types DEF TypeOK
<1>2. QED
    BY <1>1, RateLimiterInductive, PTL

\* The workers meet only answers that Limiter allows for: the whole behaves,
\* for them, as Limiter does.
THEOREM WorkersAreLimiters == Spec => WorkersImplement
<1>1. Init => W!Init
    BY DEF Init
<1>2. QED
    BY <1>1, WorkerStep, RateLimiterInductive, PTL DEF Spec, WorkersImplement, W!Spec

\* Nothing that workers do, and no call that is lost or late, makes the
\* coordinator behave otherwise than Coordinator says.
THEOREM CoordinatorImplements == Spec => C!Spec
<1>1. Init => C!Init
    BY DEF Init
<1>2. QED
    BY <1>1, CoordinatorStep, RateLimiterInductive, PTL DEF Spec, C!Spec

-----------------------------------------------------------------------------
(* What a step does to the tokens that workers hold or are about to receive *)

\* What HeldCounts says of the next state.
LEMMA HeldCountsNext ==
    ASSUME RInv, [Next]_vars
    PROVE  (\A t \in Tenants :
             /\ \A w \in Workers : InPools(t)[w] \in Nat
             /\ \A h \in Handlers : InHandlers(t)[h] \in Nat
             /\ \A r \in Renewers : InCalls(t)[r] \in Nat
             /\ Held(t) = SumFunctionOnSet(InPools(t), Workers)
                            + SumFunctionOnSet(InHandlers(t), Handlers)
                            + SumFunctionOnSet(InCalls(t), Renewers)
             /\ SumFunctionOnSet(InPools(t), Workers) \in Nat
             /\ SumFunctionOnSet(InHandlers(t), Handlers) \in Nat
             /\ SumFunctionOnSet(InCalls(t), Renewers) \in Nat
             /\ Held(t) \in Nat)'
<1>1. RInv'
    BY InvariantKept
<1>2. QED
    BY <1>1, HeldCounts, PTL

\* Nobody comes to hold more.
LEMMA HeldFalls ==
    ASSUME RInv, [Next]_vars, NEW t \in Tenants,
           \A w \in Workers : pool'[<<w, t>>].tokens <= pool[<<w, t>>].tokens,
           \A h \in Handlers : Answering(h, t)' <= Answering(h, t),
           \A r \in Renewers : Carrying(r, t)' <= Carrying(r, t)
    PROVE  Held(t)' <= Held(t)
<1>1. \A w \in Workers : InPools(t)[w] \in Int /\ InPools(t)'[w] \in Int
                           /\ InPools(t)'[w] <= InPools(t)[w]
  <2>1. \A w \in Workers : InPools(t)[w] \in Nat /\ InPools(t)'[w] \in Nat
      BY HeldCounts, HeldCountsNext
  <2>2. \A w \in Workers : InPools(t)'[w] <= InPools(t)[w]
      BY DEF InPools
  <2>3. QED
      BY <2>1, <2>2
<1>2. \A h \in Handlers : InHandlers(t)[h] \in Int /\ InHandlers(t)'[h] \in Int
                           /\ InHandlers(t)'[h] <= InHandlers(t)[h]
  <2>1. \A h \in Handlers : InHandlers(t)[h] \in Nat /\ InHandlers(t)'[h] \in Nat
      BY HeldCounts, HeldCountsNext
  <2>2. \A h \in Handlers : InHandlers(t)'[h] <= InHandlers(t)[h]
      BY DEF InHandlers
  <2>3. QED
      BY <2>1, <2>2
<1>3. \A r \in Renewers : InCalls(t)[r] \in Int /\ InCalls(t)'[r] \in Int
                           /\ InCalls(t)'[r] <= InCalls(t)[r]
  <2>1. \A r \in Renewers : InCalls(t)[r] \in Nat /\ InCalls(t)'[r] \in Nat
      BY HeldCounts, HeldCountsNext
  <2>2. \A r \in Renewers : InCalls(t)'[r] <= InCalls(t)[r]
      BY DEF InCalls
  <2>3. QED
      BY <2>1, <2>2
<1>4. IsFiniteSet(Workers) /\ IsFiniteSet(Handlers) /\ IsFiniteSet(Renewers)
    BY RateLimiterAssumption
<1>5. SumFunctionOnSet(InPools(t)', Workers) <= SumFunctionOnSet(InPools(t), Workers)
    BY <1>1, <1>4, SumMonotone
<1>6. SumFunctionOnSet(InHandlers(t)', Handlers) <= SumFunctionOnSet(InHandlers(t), Handlers)
    BY <1>2, <1>4, SumMonotone
<1>7. SumFunctionOnSet(InCalls(t)', Renewers) <= SumFunctionOnSet(InCalls(t), Renewers)
    BY <1>3, <1>4, SumMonotone
<1>8. QED
    BY <1>5, <1>6, <1>7, HeldCounts, HeldCountsNext

\* Tokens are counted one by one.
LEMMA PoolCounts ==
    ASSUME RInv, NEW t \in Tenants
    PROVE  \A w \in Workers : <<w, t>> \in W!Keys /\ pool[<<w, t>>].tokens \in Nat
<1>1. \A w \in Workers : <<w, t>> \in W!Keys
    BY DEF W!Keys, Names
<1>2. QED
    BY <1>1, Types DEF W!PoolType

\* One handler goes on with what it had granted, or had granted for nobody.
LEMMA HandlerHolds ==
    ASSUME RInv, [Next]_vars, UNCHANGED <<pool, renewer>>, NEW h \in Handlers,
           \A r \in Renewers : call'[r].answer = call[r].answer,
           \A i \in Handlers : i # h => handler'[i] = handler[i] /\ peer'[i] = peer[i],
           \A t \in Tenants : Answering(h, t)' <= Answering(h, t)
    PROVE  \A t \in Tenants : Held(t)' <= Held(t)
<1> SUFFICES ASSUME NEW t \in Tenants PROVE Held(t)' <= Held(t)
    OBVIOUS
<1>1. \A w \in Workers : pool'[<<w, t>>].tokens <= pool[<<w, t>>].tokens
  <2>1. \A w \in Workers : pool[<<w, t>>].tokens \in Nat
      BY PoolCounts
  <2>2. QED
      BY <2>1
<1>2. \A i \in Handlers : Answering(i, t)' <= Answering(i, t)
  <2>1. \A i \in Handlers : i # h => Answering(i, t)' = Answering(i, t)
      BY DEF Answering
  <2>2. \A i \in Handlers : Answering(i, t) \in Nat
      BY HeldCounts DEF InHandlers
  <2>3. QED
      BY <2>1, <2>2
<1>3. \A r \in Renewers : Carrying(r, t)' <= Carrying(r, t)
  <2>1. \A r \in Renewers : Carrying(r, t)' = Carrying(r, t)
      BY DEF Carrying, TenantOf
  <2>2. \A r \in Renewers : Carrying(r, t) \in Nat
      BY HeldCounts DEF InCalls
  <2>3. QED
      BY <2>1, <2>2
<1>4. QED
    BY <1>1, <1>2, <1>3, HeldFalls

\* A call that starts carries nothing yet.
LEMMA ReceiveHolds ==
    ASSUME RInv, [Next]_vars, NEW h \in Handlers, NEW r \in Renewers, Receive(h, r)
    PROVE  \A t \in Tenants : Held(t)' <= Held(t)
<1>1. /\ call' = [call EXCEPT ![r].pc = "open"] /\ UNCHANGED <<pool, renewer>>
      /\ peer' = [peer EXCEPT ![h] = r] /\ handler[h].pc = "idle"
    BY DEF Receive, C!HandleLease, C!RefuseLease, workVars
<1>2. /\ \A i \in Handlers : i # h => handler'[i] = handler[i]
      /\ handler'[h].granted = handler[h].granted
  <2>1. handler[h] \in C!HandlerType /\ handler \in [Handlers -> C!HandlerType]
      BY Types
  <2>2. CASE TenantOf(r) \in Tenants
    <3>1. handler' = [handler EXCEPT ![h] = [@ EXCEPT !.pc = "take", !.tenant = TenantOf(r),
                                                      !.now = clock]]
        BY <2>2 DEF Receive, C!HandleLease
    <3>2. QED
        BY <2>1, <3>1 DEF C!HandlerType
  <2>3. CASE TenantOf(r) \notin Tenants
    <3>1. \E code : handler' = [handler EXCEPT ![h] =
              [@ EXCEPT !.pc = "reply", !.tenant = TenantOf(r), !.status = code]]
        BY <2>3 DEF Receive, C!RefuseLease
    <3>2. QED
        BY <2>1, <3>1 DEF C!HandlerType
  <2>4. QED
      BY <2>2, <2>3
<1>3. handler[h].granted = 0
  <2>1. handler[h] = C!Idle
      BY <1>1 DEF RInv, LinkInv, HandlerOK
  <2>2. QED
      BY <2>1 DEF C!Idle
<1>4. \A i \in Renewers : call'[i].answer = call[i].answer
    BY <1>1, Types DEF CallType
<1>5. \A i \in Handlers : i # h => peer'[i] = peer[i]
    BY <1>1, Types
<1>6. \A t \in Tenants : Answering(h, t)' <= Answering(h, t)
    BY <1>2, <1>3 DEF Answering
<1>7. QED
    BY <1>1, <1>2, <1>4, <1>5, <1>6, HandlerHolds

\* Nor does a request that nobody waits for.
LEMMA ReceiveLateHolds ==
    ASSUME RInv, [Next]_vars, NEW h \in Handlers, NEW u \in Tenants, ReceiveLate(h, u)
    PROVE  \A t \in Tenants : Held(t)' <= Held(t)
<1>1. UNCHANGED <<pool, renewer, call, peer>> /\ handler[h].pc = "idle"
    BY DEF ReceiveLate, workVars, C!HandleLease
<1>2. \A i \in Handlers : i # h => handler'[i] = handler[i]
    BY Types DEF ReceiveLate, C!HandleLease
<1>3. peer[h] = Nil
    BY <1>1 DEF RInv, LinkInv, Joined, PeerOK
<1>4. \A t \in Tenants : Answering(h, t)' <= Answering(h, t)
    BY <1>1, <1>3 DEF Answering
<1>5. QED
    BY <1>1, <1>2, <1>4, HandlerHolds

\* A handler that does not debit the bucket keeps what it has granted.
LEMMA HandleHolds ==
    ASSUME RInv, [Next]_vars, NEW h \in Handlers, Handle(h), ~C!TakeUpTo(h)
    PROVE  \A t \in Tenants : Held(t)' <= Held(t)
<1>1. UNCHANGED <<pool, renewer, call, peer>>
    BY DEF Handle, workVars, linkVars
<1>2. /\ \A i \in Handlers : i # h => handler'[i] = handler[i]
      /\ handler'[h].granted = handler[h].granted /\ handler'[h].tenant = handler[h].tenant
  <2>1. handler[h] \in C!HandlerType /\ handler \in [Handlers -> C!HandlerType]
      BY Types
  <2>2. CASE C!ZeroGrant(h)
    <3>1. \E n : handler' = [handler EXCEPT ![h] = [@ EXCEPT !.retryAfter = n, !.pc = "reply"]]
        BY <2>2 DEF C!ZeroGrant
    <3>2. QED
        BY <2>1, <3>1 DEF C!HandlerType
  <2>3. CASE C!CountZero(h) \/ C!CountGrant(h)
      BY <2>1, <2>3 DEF C!CountZero, C!CountGrant, C!HandlerType
  <2>4. QED
      BY <2>2, <2>3 DEF Handle
<1>3. ASSUME NEW t \in Tenants PROVE Answering(h, t)' <= Answering(h, t)
  <2>1. Answering(h, t)' = Answering(h, t)
      BY <1>1, <1>2 DEF Answering
  <2>2. Answering(h, t) \in Nat
      BY HeldCounts DEF InHandlers
  <2>3. QED
      BY <2>1, <2>2
<1>4. QED
    BY <1>1, <1>2, <1>3, HandlerHolds

\* A renewal that gets its answer, or goes on without one, carries no more
\* than its call did.
LEMMA CallHolds ==
    ASSUME RInv, [Next]_vars, NEW r \in Renewers, Send(r) \/ Deliver(r) \/ GiveUp(r)
    PROVE  \A t \in Tenants : Held(t)' <= Held(t)
<1> SUFFICES ASSUME NEW t \in Tenants PROVE Held(t)' <= Held(t)
    OBVIOUS
<1>1. UNCHANGED <<pool, handler>>
    BY DEF Send, Deliver, GiveUp, W!RenewCall, W!LeaseReturn, coordVars
<1>2. \A w \in Workers : pool'[<<w, t>>].tokens <= pool[<<w, t>>].tokens
  <2>1. \A w \in Workers : pool[<<w, t>>].tokens \in Nat
      BY PoolCounts
  <2>2. QED
      BY <1>1, <2>1
<1>3. \A i \in Handlers : Answering(i, t)' <= Answering(i, t)
  <2>1. \A i \in Handlers : Answering(i, t) \in Nat
      BY HeldCounts DEF InHandlers
  <2>2. \A i \in Handlers : peer'[i] = peer[i] \/ peer'[i] = Nil
      BY Types DEF Send, Deliver, GiveUp
  <2>3. \A i \in Handlers : Answering(i, t)' = Answering(i, t) \/ Answering(i, t)' = 0
      BY <1>1, <2>2 DEF Answering
  <2>4. QED
      BY <2>1, <2>3
<1>4. \A i \in Renewers : Carrying(i, t)' <= Carrying(i, t)
  <2>1. \A i \in Renewers : Carrying(i, t) \in Nat /\ call[i] \in CallType /\ renewer[i] \in W!RenewerType
      BY HeldCounts, Types DEF InCalls
  <2>2. \A i \in Renewers : i # r => renewer'[i] = renewer[i] /\ call'[i] = call[i]
      BY Types DEF Send, Deliver, GiveUp, W!RenewCall, W!LeaseReturn
  <2>3. \A i \in Renewers : i # r => Carrying(i, t)' = Carrying(i, t)
      BY <2>2 DEF Carrying, TenantOf
  <2>4. Carrying(r, t)' <= Carrying(r, t)
    <3>1. NoCall.answer.tokens = 0 /\ W!NoAnswer.tokens = 0
        BY DEF NoCall, W!NoAnswer
    <3>2. call[r].answer.tokens \in Nat /\ renewer[r].answer.tokens \in Nat
      <4>1. \A a \in W!Answers : a.tokens \in Nat
          BY RateLimiterAssumption DEF W!Answers
      <4>2. QED
          BY <2>1, <4>1 DEF CallType, W!RenewerType
    <3>3. CASE Send(r)
      <4>1. /\ renewer[r].pc = "call" /\ renewer'[r].key = renewer[r].key
            /\ renewer'[r].answer = renewer[r].answer /\ renewer'[r].pc = "lease"
            /\ call'[r].answer = call[r].answer
          BY <2>1, <3>3, Types DEF Send, W!RenewCall, CallType, W!RenewerType
      <4>2. QED
          BY <2>1, <4>1 DEF Carrying, TenantOf
    <3>4. CASE Deliver(r)
      <4>1. /\ renewer[r].pc = "lease" /\ renewer'[r].key = renewer[r].key
            /\ renewer'[r].answer = call[r].answer /\ renewer'[r].pc = "lock"
            /\ call'[r] = NoCall
          BY <2>1, <3>4, Types DEF Deliver, W!LeaseReturn, W!RenewerType
      <4>2. renewer[r].answer.tokens = 0
          BY <3>1, <4>1 DEF RInv, LinkInv, Joined, CallOK
      <4>3. QED
          BY <3>1, <3>2, <4>1, <4>2 DEF Carrying, TenantOf
    <3>5. CASE GiveUp(r)
      <4>1. /\ renewer[r].pc = "lease" /\ renewer'[r].key = renewer[r].key
            /\ renewer'[r].answer = W!NoAnswer /\ renewer'[r].pc = "lock"
            /\ call'[r] = NoCall
          BY <2>1, <3>5, Types DEF GiveUp, W!LeaseReturn, W!RenewerType
      <4>2. QED
          BY <3>1, <3>2, <4>1 DEF Carrying, TenantOf
    <3>6. QED
        BY <3>3, <3>4, <3>5
  <2>5. QED
      BY <2>1, <2>3, <2>4
<1>5. QED
    BY <1>2, <1>3, <1>4, HeldFalls

\* One worker's pool changes.
LEMMA PoolsChange ==
    ASSUME RInv, [Next]_vars, NEW t \in Tenants, NEW v \in Workers,
           \A w \in Workers : w # v => pool'[<<w, t>>].tokens = pool[<<w, t>>].tokens
    PROVE  SumFunctionOnSet(InPools(t)', Workers)
             = SumFunctionOnSet(InPools(t), Workers) - pool[<<v, t>>].tokens + pool'[<<v, t>>].tokens
<1>1. \A w \in Workers : InPools(t)[w] \in Int /\ InPools(t)'[w] \in Int
  <2>1. \A w \in Workers : InPools(t)[w] \in Nat /\ InPools(t)'[w] \in Nat
      BY HeldCounts, HeldCountsNext
  <2>2. QED
      BY <2>1
<1>2. \A w \in Workers : w # v => InPools(t)[w] = InPools(t)'[w]
    BY DEF InPools
<1>3. IsFiniteSet(Workers)
    BY RateLimiterAssumption
<1>4. SumFunctionOnSet(InPools(t)', Workers)
        = SumFunctionOnSet(InPools(t), Workers) - InPools(t)[v] + InPools(t)'[v]
    BY <1>1, <1>2, <1>3, SumChange
<1>5. InPools(t)[v] = pool[<<v, t>>].tokens /\ InPools(t)'[v] = pool'[<<v, t>>].tokens
    BY DEF InPools
<1>6. QED
    BY <1>4, <1>5

\* One handler's grant changes.
LEMMA HandlersChange ==
    ASSUME RInv, [Next]_vars, NEW t \in Tenants, NEW h \in Handlers,
           \A i \in Handlers : i # h => Answering(i, t)' = Answering(i, t)
    PROVE  SumFunctionOnSet(InHandlers(t)', Handlers)
             = SumFunctionOnSet(InHandlers(t), Handlers) - Answering(h, t) + Answering(h, t)'
<1>1. \A i \in Handlers : InHandlers(t)[i] \in Int /\ InHandlers(t)'[i] \in Int
  <2>1. \A i \in Handlers : InHandlers(t)[i] \in Nat /\ InHandlers(t)'[i] \in Nat
      BY HeldCounts, HeldCountsNext
  <2>2. QED
      BY <2>1
<1>2. \A i \in Handlers : i # h => InHandlers(t)[i] = InHandlers(t)'[i]
    BY DEF InHandlers
<1>3. IsFiniteSet(Handlers)
    BY RateLimiterAssumption
<1>4. SumFunctionOnSet(InHandlers(t)', Handlers)
        = SumFunctionOnSet(InHandlers(t), Handlers) - InHandlers(t)[h] + InHandlers(t)'[h]
    BY <1>1, <1>2, <1>3, SumChange
<1>5. InHandlers(t)[h] = Answering(h, t) /\ InHandlers(t)'[h] = Answering(h, t)'
    BY DEF InHandlers
<1>6. QED
    BY <1>4, <1>5

\* What one call carries changes.
LEMMA CallsChange ==
    ASSUME RInv, [Next]_vars, NEW t \in Tenants, NEW r \in Renewers,
           \A i \in Renewers : i # r => Carrying(i, t)' = Carrying(i, t)
    PROVE  SumFunctionOnSet(InCalls(t)', Renewers)
             = SumFunctionOnSet(InCalls(t), Renewers) - Carrying(r, t) + Carrying(r, t)'
<1>1. \A i \in Renewers : InCalls(t)[i] \in Int /\ InCalls(t)'[i] \in Int
  <2>1. \A i \in Renewers : InCalls(t)[i] \in Nat /\ InCalls(t)'[i] \in Nat
      BY HeldCounts, HeldCountsNext
  <2>2. QED
      BY <2>1
<1>2. \A i \in Renewers : i # r => InCalls(t)[i] = InCalls(t)'[i]
    BY DEF InCalls
<1>3. IsFiniteSet(Renewers)
    BY RateLimiterAssumption
<1>4. SumFunctionOnSet(InCalls(t)', Renewers)
        = SumFunctionOnSet(InCalls(t), Renewers) - InCalls(t)[r] + InCalls(t)'[r]
    BY <1>1, <1>2, <1>3, SumChange
<1>5. InCalls(t)[r] = Carrying(r, t) /\ InCalls(t)'[r] = Carrying(r, t)'
    BY DEF InCalls
<1>6. QED
    BY <1>4, <1>5

\* A part that nothing changes.
LEMMA PartsSame ==
    ASSUME NEW t \in Tenants
    PROVE  /\ (\A w \in Workers : pool'[<<w, t>>].tokens = pool[<<w, t>>].tokens)
                => InPools(t)' = InPools(t)
           /\ (\A h \in Handlers : Answering(h, t)' = Answering(h, t))
                => InHandlers(t)' = InHandlers(t)
           /\ (\A r \in Renewers : Carrying(r, t)' = Carrying(r, t))
                => InCalls(t)' = InCalls(t)
    BY DEF InPools, InHandlers, InCalls

\* A response takes a grant from its handler to the call it answers.
LEMMA RespondHolds ==
    ASSUME RInv, [Next]_vars, NEW h \in Handlers, Respond(h)
    PROVE  \A t \in Tenants : Held(t)' <= Held(t)
<1>1. /\ handler' = [handler EXCEPT ![h] = C!Idle] /\ UNCHANGED <<pool, renewer>>
      /\ handler[h].pc = "reply"
    BY DEF Respond, C!Reply, workVars
<1>2. \A i \in Handlers : i # h => handler'[i] = handler[i]
    BY <1>1, Types
<1>3. handler'[h] = C!Idle /\ C!Idle.granted = 0
    BY <1>1, Types DEF C!Idle
<1>4. ASSUME NEW t \in Tenants PROVE Answering(h, t)' = 0
    BY <1>3 DEF Answering
<1>5. CASE peer[h] = Nil
  <2>1. UNCHANGED <<call, peer>>
      BY <1>5 DEF Respond
  <2>2. \A t \in Tenants : Answering(h, t)' <= Answering(h, t)
      BY <1>4, <1>5 DEF Answering
  <2>3. QED
      BY <1>1, <1>2, <2>1, <2>2, HandlerHolds
<1>6. CASE peer[h] # Nil
  <2> SUFFICES ASSUME NEW t \in Tenants PROVE Held(t)' <= Held(t)
      OBVIOUS
  <2>0. PICK r \in Renewers : r = peer[h]
      BY <1>6, Types
  <2>1. call[r].pc = "open" /\ handler[h].tenant = TenantOf(r)
      BY <1>6, <2>0 DEF RInv, LinkInv, Joined, PeerOK
  <2>2. /\ call' = [call EXCEPT ![r] = [pc |-> "replied", answer |-> AnswerOf(handler[h])]]
        /\ peer' = [peer EXCEPT ![h] = Nil]
      BY <1>6, <2>0 DEF Respond
  <2>3. /\ call'[r].answer.tokens = handler[h].granted
        /\ \A i \in Renewers : i # r => call'[i] = call[i]
      BY <2>1, <2>2, Types DEF AnswerOf
  <2>4. \A i \in Handlers : i # h => peer'[i] = peer[i]
      BY <2>2, Types
  <2>5. renewer[r].pc = "lease" /\ call[r].answer = W!NoAnswer /\ renewer[r].answer = W!NoAnswer
    <3>1. CallOK(r)
        BY <2>1 DEF RInv, LinkInv, Joined
    <3>2. QED
        BY <2>1, <3>1 DEF CallOK
  <2>6. Answering(h, t) = IF TenantOf(r) = t THEN handler[h].granted ELSE 0
      BY <1>6, <2>1 DEF Answering
  <2>7. W!NoAnswer.tokens = 0 /\ handler[h].granted \in Nat
      BY Types, RateLimiterAssumption DEF W!NoAnswer, C!HandlerType
  <2>8. /\ Carrying(r, t) = 0
        /\ Carrying(r, t)' = IF TenantOf(r) = t THEN handler[h].granted ELSE 0
      BY <1>1, <2>3, <2>5, <2>7 DEF Carrying, TenantOf
  <2>9. \A i \in Handlers : i # h => Answering(i, t)' = Answering(i, t)
      BY <1>2, <2>4 DEF Answering
  <2>10. \A i \in Renewers : i # r => Carrying(i, t)' = Carrying(i, t)
      BY <1>1, <2>3 DEF Carrying, TenantOf
  <2>11. InPools(t)' = InPools(t)
      BY <1>1, PartsSame
  <2>12. SumFunctionOnSet(InHandlers(t)', Handlers)
           = SumFunctionOnSet(InHandlers(t), Handlers) - Answering(h, t) + Answering(h, t)'
      BY <2>9, HandlersChange
  <2>13. SumFunctionOnSet(InCalls(t)', Renewers)
           = SumFunctionOnSet(InCalls(t), Renewers) - Carrying(r, t) + Carrying(r, t)'
      BY <2>1, <2>10, CallsChange
  <2> DEFINE x == IF TenantOf(r) = t THEN handler[h].granted ELSE 0
  <2>14. x \in Nat /\ Answering(h, t) = x /\ Carrying(r, t)' = x
      BY <2>6, <2>7, <2>8
  <2> HIDE DEF x
  <2>15. SumFunctionOnSet(InPools(t)', Workers) = SumFunctionOnSet(InPools(t), Workers)
      BY <2>11
  <2>16. /\ SumFunctionOnSet(InPools(t), Workers) \in Nat
         /\ SumFunctionOnSet(InHandlers(t), Handlers) \in Nat
         /\ SumFunctionOnSet(InCalls(t), Renewers) \in Nat
         /\ Held(t) = SumFunctionOnSet(InPools(t), Workers) + SumFunctionOnSet(InHandlers(t), Handlers)
                        + SumFunctionOnSet(InCalls(t), Renewers)
      BY HeldCounts
  <2>17. Held(t)' = SumFunctionOnSet(InPools(t)', Workers) + SumFunctionOnSet(InHandlers(t)', Handlers)
                        + SumFunctionOnSet(InCalls(t)', Renewers)
      BY HeldCountsNext
  <2>18. QED
      BY <1>4, <2>8, <2>12, <2>13, <2>14, <2>15, <2>16, <2>17
<1>7. QED
    BY <1>5, <1>6

\* The critical section of renew adds no more than the grant.
LEMMA RenewTokens ==
    ASSUME RInv, NEW r \in Renewers, W!RenewLocked(r)
    PROVE  /\ renewer[r].key \in W!Keys /\ renewer[r].answer.tokens \in Nat
           /\ \A k \in W!Keys : k # renewer[r].key => pool'[k].tokens = pool[k].tokens
           /\ pool'[renewer[r].key].tokens \in Nat
           /\ pool'[renewer[r].key].tokens
                <= pool[renewer[r].key].tokens + renewer[r].answer.tokens
<1> DEFINE k == renewer[r].key
           a == renewer[r].answer
           p == pool[k]
<1>1. k \in W!Keys
    BY Types DEF W!RenewLocked, W!TypeOK
<1>2. /\ p \in W!PoolType /\ p.tokens \in Nat /\ pool \in [W!Keys -> W!PoolType]
      /\ a \in W!Answers /\ a.tokens \in Nat
  <2>1. \A b \in W!Answers : b.tokens \in Nat
      BY RateLimiterAssumption DEF W!Answers
  <2>2. p \in W!PoolType /\ a \in W!Answers /\ pool \in [W!Keys -> W!PoolType]
      BY <1>1, Types DEF W!RenewerType
  <2>3. p.tokens \in Nat
      BY <2>2 DEF W!PoolType
  <2> HIDE DEF a, p, k
  <2>4. QED
      BY <2>1, <2>2, <2>3
<1>3. PICK d : /\ pool' = [pool EXCEPT ![k] = d]
               /\ \/ a.kind = "unknown" /\ d = W!RenewUnknown(p, renewer[r].now)
                  \/ a.kind = "error" /\ \E delay : d = W!RenewError(p, renewer[r].now, delay)
                  \/ a.kind = "zero" /\ d = W!RenewZero(p, renewer[r].now, a.retryAfter)
                  \/ a.kind = "grant" /\ d = W!RenewGrant(p, renewer[r].now, a.tokens)
  <2>1. \/ a.kind = "unknown" /\ pool' = [pool EXCEPT ![k] = W!RenewUnknown(p, renewer[r].now)]
        \/ a.kind = "error" /\ \E delay : pool' = [pool EXCEPT ![k] = W!RenewError(p, renewer[r].now, delay)]
        \/ a.kind = "zero" /\ pool' = [pool EXCEPT ![k] = W!RenewZero(p, renewer[r].now, a.retryAfter)]
        \/ a.kind = "grant" /\ pool' = [pool EXCEPT ![k] = W!RenewGrant(p, renewer[r].now, a.tokens)]
      BY DEF W!RenewLocked
  <2> HIDE DEF k, a, p
  <2>2. QED
      BY <2>1
<1> HIDE DEF k, a, p
<1>4. d.tokens \in Nat /\ d.tokens <= p.tokens + a.tokens
  <2>1. ASSUME d = W!RenewUnknown(p, renewer[r].now) PROVE d.tokens = 0
      BY <1>2, <2>1 DEF W!RenewUnknown, W!EndRenew, W!PoolType
  <2>2. ASSUME NEW delay, d = W!RenewError(p, renewer[r].now, delay) PROVE d.tokens = p.tokens
      BY <1>2, <2>2 DEF W!RenewError, W!EndRenew, W!PoolType
  <2>3. ASSUME d = W!RenewZero(p, renewer[r].now, a.retryAfter) PROVE d.tokens = p.tokens
      BY <1>2, <2>3 DEF W!RenewZero, W!EndRenew, W!PoolType
  <2>4. ASSUME d = W!RenewGrant(p, renewer[r].now, a.tokens) PROVE d.tokens = p.tokens + a.tokens
      BY <1>2, <2>4 DEF W!RenewGrant, W!EndRenew, W!PoolType
  <2>5. d.tokens \in {0, p.tokens, p.tokens + a.tokens}
      BY <1>3, <2>1, <2>2, <2>3, <2>4
  <2>6. QED
      BY <1>2, <2>5
<1>5. pool'[k] = d /\ \A j \in W!Keys : j # k => pool'[j] = pool[j]
    BY <1>1, <1>2, <1>3
<1>6. QED
    BY <1>1, <1>2, <1>4, <1>5 DEF k, a, p

\* The end of a renewal takes its grant into the pool, or drops it.
LEMMA FinishHolds ==
    ASSUME RInv, [Next]_vars, NEW r \in Renewers, Finish(r)
    PROVE  \A t \in Tenants : Held(t)' <= Held(t)
<1> SUFFICES ASSUME NEW t \in Tenants PROVE Held(t)' <= Held(t)
    OBVIOUS
<1>1. /\ renewer' = [renewer EXCEPT ![r] = W!IdleRenewer] /\ renewer[r].pc = "lock"
      /\ UNCHANGED <<handler, call, peer>> /\ W!RenewLocked(r)
    BY DEF Finish, W!RenewLocked, coordVars, linkVars
<1>2. call[r].answer.tokens = 0
  <2>1. CallOK(r)
      BY DEF RInv, LinkInv, Joined
  <2>2. call[r].pc = "none"
      BY <1>1, <2>1 DEF CallOK
  <2>3. call[r].answer = W!NoAnswer
      BY <2>1, <2>2 DEF CallOK
  <2>4. QED
      BY <2>3 DEF W!NoAnswer
<1>3. PICK w \in Workers : renewer[r].key = <<w, TenantOf(r)>>
    BY <1>1, TenantNamed
<1> DEFINE a == renewer[r].answer
<1>4. /\ a.tokens \in Nat
      /\ \A k \in W!Keys : k # <<w, TenantOf(r)>> => pool'[k].tokens = pool[k].tokens
      /\ pool'[<<w, TenantOf(r)>>].tokens \in Nat
      /\ pool'[<<w, TenantOf(r)>>].tokens <= pool[<<w, TenantOf(r)>>].tokens + a.tokens
    BY <1>1, <1>3, RenewTokens
<1>5. renewer'[r].pc = "idle" /\ \A i \in Renewers : i # r => renewer'[i] = renewer[i]
    BY <1>1, Types DEF W!IdleRenewer
<1>6. \A i \in Renewers : i # r => Carrying(i, t)' = Carrying(i, t)
    BY <1>1, <1>5 DEF Carrying, TenantOf
<1>7. /\ Carrying(r, t)' = 0
      /\ Carrying(r, t) = IF TenantOf(r) = t THEN a.tokens ELSE 0
    BY <1>1, <1>2, <1>4, <1>5 DEF Carrying
<1>8. \A v \in Workers : <<v, t>> \in W!Keys
    BY PoolCounts
<1>9. \A v \in Workers : v # w => pool'[<<v, t>>].tokens = pool[<<v, t>>].tokens
    BY <1>4, <1>8
<1>10. pool'[<<w, t>>].tokens <= pool[<<w, t>>].tokens + Carrying(r, t)
  <2>1. pool[<<w, t>>].tokens \in Nat
      BY PoolCounts
  <2>2. CASE TenantOf(r) = t
      BY <1>4, <1>7, <2>2
  <2>3. CASE TenantOf(r) # t
    <3>1. pool'[<<w, t>>].tokens = pool[<<w, t>>].tokens
        BY <1>4, <1>8, <2>3
    <3>2. QED
        BY <1>7, <2>1, <2>3, <3>1
  <2>4. QED
      BY <2>2, <2>3
<1>11. InHandlers(t)' = InHandlers(t)
    BY <1>1, PartsSame DEF Answering
<1>12. SumFunctionOnSet(InPools(t)', Workers)
         = SumFunctionOnSet(InPools(t), Workers) - pool[<<w, t>>].tokens + pool'[<<w, t>>].tokens
    BY <1>9, PoolsChange
<1>13. SumFunctionOnSet(InCalls(t)', Renewers)
         = SumFunctionOnSet(InCalls(t), Renewers) - Carrying(r, t) + Carrying(r, t)'
    BY <1>6, CallsChange
<1>14. SumFunctionOnSet(InHandlers(t)', Handlers) = SumFunctionOnSet(InHandlers(t), Handlers)
    BY <1>11
<1>15. /\ SumFunctionOnSet(InPools(t), Workers) \in Nat
       /\ SumFunctionOnSet(InHandlers(t), Handlers) \in Nat
       /\ SumFunctionOnSet(InCalls(t), Renewers) \in Nat
       /\ Held(t) = SumFunctionOnSet(InPools(t), Workers) + SumFunctionOnSet(InHandlers(t), Handlers)
                      + SumFunctionOnSet(InCalls(t), Renewers)
    BY HeldCounts
<1>16. Held(t)' = SumFunctionOnSet(InPools(t)', Workers) + SumFunctionOnSet(InHandlers(t)', Handlers)
                      + SumFunctionOnSet(InCalls(t)', Renewers)
    BY HeldCountsNext
<1>17. /\ pool[<<w, t>>].tokens \in Nat /\ pool'[<<w, t>>].tokens \in Nat
       /\ Carrying(r, t) \in Nat
  <2>1. pool[<<w, t>>].tokens \in Nat
      BY PoolCounts
  <2>2. InPools(t)'[w] \in Nat
      BY HeldCountsNext
  <2>3. InPools(t)'[w] = pool'[<<w, t>>].tokens
      BY DEF InPools
  <2>4. QED
      BY <1>4, <1>7, <2>1, <2>2, <2>3
<1>18. QED
    BY <1>7, <1>10, <1>12, <1>13, <1>14, <1>15, <1>16, <1>17

\* What a killed worker held, or was about to receive, is lost.
LEMMA KillWorkerHolds ==
    ASSUME RInv, [Next]_vars, NEW w \in Workers, KillWorker(w)
    PROVE  \A t \in Tenants : Held(t)' <= Held(t)
<1> SUFFICES ASSUME NEW t \in Tenants PROVE Held(t)' <= Held(t)
    OBVIOUS
<1> DEFINE gone == {r \in Renewers : renewer[r].pc # "idle" /\ renewer[r].key[1] = w}
<1>1. /\ pool' = [k \in W!Keys |-> IF k[1] = w THEN W!NewPool ELSE pool[k]]
      /\ renewer' = [r \in Renewers |-> IF renewer[r].pc # "idle" /\ renewer[r].key[1] = w
                                        THEN W!IdleRenewer ELSE renewer[r]]
      /\ call' = [r \in Renewers |-> IF r \in gone THEN NoCall ELSE call[r]]
      /\ peer' = [h \in Handlers |-> IF peer[h] \in gone THEN Nil ELSE peer[h]]
      /\ UNCHANGED handler
    BY DEF KillWorker, W!WorkerCrash, coordVars
<1>2. W!IdleRenewer.pc = "idle" /\ W!NewPool.tokens = 0
    BY DEF W!IdleRenewer, W!NewPool
<1>3. \A v \in Workers : pool'[<<v, t>>].tokens <= pool[<<v, t>>].tokens
  <2>1. \A v \in Workers : <<v, t>> \in W!Keys /\ pool[<<v, t>>].tokens \in Nat
      BY PoolCounts
  <2>2. \A v \in Workers : pool'[<<v, t>>] = IF v = w THEN W!NewPool ELSE pool[<<v, t>>]
      BY <1>1, <2>1
  <2>3. QED
      BY <1>2, <2>1, <2>2
<1>4. \A h \in Handlers : Answering(h, t)' <= Answering(h, t)
  <2>1. \A h \in Handlers : Answering(h, t) \in Nat
      BY HeldCounts DEF InHandlers
  <2>2. \A h \in Handlers : Answering(h, t)' = Answering(h, t) \/ Answering(h, t)' = 0
      BY <1>1 DEF Answering
  <2>3. QED
      BY <2>1, <2>2
<1>5. \A r \in Renewers : Carrying(r, t)' <= Carrying(r, t)
  <2>1. \A r \in Renewers : Carrying(r, t) \in Nat
      BY HeldCounts DEF InCalls
  <2>2. \A r \in Renewers : IF r \in gone THEN renewer'[r].pc = "idle"
                                          ELSE renewer'[r] = renewer[r] /\ call'[r] = call[r]
      BY <1>1, <1>2
  <2> HIDE DEF gone
  <2>3. \A r \in Renewers : Carrying(r, t)' = Carrying(r, t) \/ Carrying(r, t)' = 0
      BY <2>2 DEF Carrying, TenantOf
  <2>4. QED
      BY <2>1, <2>3
<1>6. QED
    BY <1>3, <1>4, <1>5, HeldFalls

\* What the handlers of a killed coordinator had granted is lost.
LEMMA KillCoordinatorHolds ==
    ASSUME RInv, [Next]_vars, KillCoordinator
    PROVE  \A t \in Tenants : Held(t)' <= Held(t)
<1> SUFFICES ASSUME NEW t \in Tenants PROVE Held(t)' <= Held(t)
    OBVIOUS
<1>1. UNCHANGED <<pool, renewer, call>> /\ \A h \in Handlers : peer'[h] = Nil
    BY DEF KillCoordinator, workVars
<1>2. \A w \in Workers : pool'[<<w, t>>].tokens <= pool[<<w, t>>].tokens
  <2>1. \A w \in Workers : pool[<<w, t>>].tokens \in Nat
      BY PoolCounts
  <2>2. QED
      BY <1>1, <2>1
<1>3. \A h \in Handlers : Answering(h, t)' <= Answering(h, t)
  <2>1. \A h \in Handlers : Answering(h, t) \in Nat
      BY HeldCounts DEF InHandlers
  <2>2. \A h \in Handlers : Answering(h, t)' = 0
      BY <1>1 DEF Answering
  <2>3. QED
      BY <2>1, <2>2
<1>4. \A r \in Renewers : Carrying(r, t)' <= Carrying(r, t)
  <2>1. \A r \in Renewers : Carrying(r, t) \in Nat
      BY HeldCounts DEF InCalls
  <2>2. \A r \in Renewers : Carrying(r, t)' = Carrying(r, t)
      BY <1>1 DEF Carrying, TenantOf
  <2>3. QED
      BY <2>1, <2>2
<1>5. QED
    BY <1>2, <1>3, <1>4, HeldFalls

\* What neither the pools nor the link see changes nothing.
LEMMA NothingHeldChanges ==
    ASSUME UNCHANGED <<pool, renewer, handler, call, peer>>
    PROVE  \A t \in Tenants : Held(t)' = Held(t)
    BY DEF Held, Answering, Carrying, TenantOf

\* The step of q admits its request.
Admission(q) == req[q].pc # "count" /\ req'[q].pc = "count" /\ req'[q].admitted

\* The critical section of Check spends what it admits, and adds nothing.
LEMMA SpendTokens ==
    ASSUME NEW p \in W!PoolType, NEW now \in Nat, NEW cost \in Nat, cost >= 1
    PROVE  LET d == W!Decided(p, now, cost)
           IN  /\ d \in W!PoolType /\ d.tokens <= p.tokens
               /\ W!Admitted(p, now, cost) => d.tokens = p.tokens - cost
               /\ \A r \in Renewers : W!BeginRenew(d, r).tokens = d.tokens
<1> DEFINE e == W!DropExpired(p, now)
           d == W!Decided(p, now, cost)
<1>1. e \in W!PoolType /\ e.tokens <= p.tokens /\ (e.tokens > 0 => e.tokens = p.tokens)
  <2>1. CASE p.tokens > 0 /\ now >= p.expiry
    <3>1. e = [p EXCEPT !.tokens = 0]
        BY <2>1 DEF W!DropExpired
    <3>2. QED
        BY <3>1 DEF W!PoolType
  <2>2. CASE ~(p.tokens > 0 /\ now >= p.expiry)
    <3>1. e = p
        BY <2>2 DEF W!DropExpired
    <3>2. p.tokens \in Nat
        BY DEF W!PoolType
    <3>3. QED
        BY <3>1, <3>2
  <2>3. QED
      BY <2>1, <2>2
<1> HIDE DEF e
<1>2. e.tokens \in Nat /\ p.tokens \in Nat
    BY <1>1 DEF W!PoolType
<1>3. CASE W!Admitted(p, now, cost)
  <2>1. e.tokens >= cost
      BY <1>3 DEF W!Admitted, W!Admits, e
  <2>2. d = [e EXCEPT !.tokens = e.tokens - cost]
      BY <2>1 DEF W!Decided, W!Spend, W!Admits, W!Debited, e
  <2> HIDE DEF d
  <2>3. e.tokens = p.tokens /\ e.tokens - cost \in Nat
      BY <1>1, <1>2, <2>1
  <2>4. d \in W!PoolType /\ d.tokens = e.tokens - cost
      BY <1>1, <2>2, <2>3 DEF W!PoolType
  <2>5. \A r \in Renewers : W!BeginRenew(d, r).tokens = d.tokens
      BY <2>4 DEF W!BeginRenew, W!PoolType
  <2>6. d.tokens <= p.tokens /\ d.tokens = p.tokens - cost
      BY <1>2, <2>3, <2>4
  <2>7. QED
      BY <2>4, <2>5, <2>6 DEF d
<1>4. CASE ~W!Admitted(p, now, cost)
  <2>1. d = e
      BY <1>4 DEF W!Decided, W!Spend, W!Admitted, e
  <2> HIDE DEF d
  <2>2. \A r \in Renewers : W!BeginRenew(d, r).tokens = d.tokens
      BY <1>1, <2>1 DEF W!BeginRenew, W!PoolType
  <2>3. QED
      BY <1>1, <1>4, <2>1, <2>2 DEF d
<1>5. QED
    BY <1>3, <1>4

\* A step of Check spends exactly what it admits.
LEMMA DecideTokens ==
    ASSUME RInv, NEW q \in Requests, Decide(q)
    PROVE  \/ /\ Admission(q) /\ req[q].key \in W!Keys
              /\ req[q].cost \in Nat \ {0} /\ pool'[req[q].key].tokens \in Nat
              /\ pool'[req[q].key].tokens = pool[req[q].key].tokens - req[q].cost
              /\ \A k \in W!Keys : k # req[q].key => pool'[k].tokens = pool[k].tokens
           \/ /\ ~Admission(q)
              /\ \A k \in W!Keys : pool'[k].tokens <= pool[k].tokens
<1> DEFINE k == req[q].key
           now == req[q].now
           cost == req[q].cost
           Spent == /\ Admission(q) /\ k \in W!Keys /\ cost \in Nat \ {0}
                    /\ pool'[k].tokens \in Nat /\ pool'[k].tokens = pool[k].tokens - cost
                    /\ \A j \in W!Keys : j # k => pool'[j].tokens = pool[j].tokens
           Kept == ~Admission(q) /\ \A j \in W!Keys : pool'[j].tokens <= pool[j].tokens
<1>1. /\ req \in [Requests -> W!ReqType] /\ req[q] \in W!ReqType
      /\ req[q].pc # "idle" => k \in W!Keys
      /\ now \in Nat /\ cost \in Nat
      /\ req[q].pc # "count" => ~req[q].admitted
      /\ pool \in [W!Keys -> W!PoolType]
  <2>1. req[q] \in W!ReqType /\ req \in [Requests -> W!ReqType] /\ pool \in [W!Keys -> W!PoolType]
      BY Types
  <2>2. req[q].pc # "idle" => k \in W!Keys
      BY Types DEF W!TypeOK
  <2>3. now \in Nat /\ cost \in Nat
      BY <2>1, RateLimiterAssumption DEF W!ReqType
  <2>4. QED
      BY <2>1, <2>2, <2>3 DEF RInv, Undecided
<1>2. req[q].pc # "idle" => cost >= 1
    BY DEF RInv, LP!IInv, LP!RequestOK
<1>3. \A j \in W!Keys : pool[j].tokens \in Nat
    BY <1>1 DEF W!PoolType
<1>4. ASSUME UNCHANGED pool, ~Admission(q) PROVE Kept
    BY <1>3, <1>4
<1>5. ASSUME W!CheckUnknown(q) \/ W!WokenUnknown(q) \/ W!CheckReturn(q) PROVE Kept
  <2>1. req'[q] = W!IdleReq /\ UNCHANGED pool
      BY <1>1, <1>5 DEF W!CheckUnknown, W!WokenUnknown, W!CheckReturn
  <2>2. ~Admission(q)
      BY <2>1 DEF Admission, W!IdleReq
  <2>3. QED
      BY <1>4, <2>1, <2>2
<1>6. ASSUME W!WaitDone(q) PROVE Kept
  <2>1. req'[q].pc = "relock" /\ UNCHANGED pool
      BY <1>1, <1>6 DEF W!WaitDone, W!ReqType
  <2>2. QED
      BY <1>4, <2>1 DEF Admission
<1>7. ASSUME W!WaitTimeout(q) PROVE Kept
  <2>1. UNCHANGED pool /\ req[q].pc = "wait" /\ req' = [req EXCEPT ![q] = [req[q] EXCEPT !.pc = "count", !.done = Nil]]
      BY <1>7 DEF W!WaitTimeout
  <2>2. req'[q].admitted = req[q].admitted
      BY <1>1, <2>1 DEF W!ReqType
  <2>3. QED
      BY <1>1, <1>4, <2>1, <2>2 DEF Admission
<1>8. ASSUME NEW p, W!Proceed(q, p, W!Admitted(pool[k], now, cost)), req[q].pc = "lock"
      PROVE  Admission(q) <=> W!Admitted(pool[k], now, cost)
  <2> DEFINE ok == W!Admitted(pool[k], now, cost)
  <2>1. ok \in BOOLEAN
      BY DEF W!Admitted, W!Admits
  <2>2. CASE W!CanWait(p, now, ok) /\ p.renewDone # Nil
    <3>1. ~ok
        BY <2>2 DEF W!CanWait
    <3>2. req'[q].pc = "wait"
      <4>1. req' = [req EXCEPT ![q] = [req[q] EXCEPT !.pc = "wait", !.done = p.renewDone,
                                                     !.until = clock + WaitForLease]]
          BY <1>8, <2>2 DEF W!Proceed
      <4>2. QED
          BY <1>1, <4>1 DEF W!ReqType
    <3>3. QED
        BY <3>1, <3>2 DEF Admission
  <2>3. CASE ~(W!CanWait(p, now, ok) /\ p.renewDone # Nil)
    <3>1. req' = [req EXCEPT ![q] = [req[q] EXCEPT !.pc = "count", !.admitted = ok]]
        BY <1>8, <2>3 DEF W!Proceed
    <3> HIDE DEF ok
    <3>2. req'[q].pc = "count" /\ req'[q].admitted = ok
        BY <1>1, <3>1 DEF W!ReqType
    <3>3. Admission(q) <=> ok
        BY <1>8, <3>2 DEF Admission
    <3>4. QED
        BY <3>3 DEF ok
  <2>4. QED
      BY <2>2, <2>3
<1>9. ASSUME NEW d, pool' = [pool EXCEPT ![k] = d], req[q].pc = "lock",
             d.tokens = W!Decided(pool[k], now, cost).tokens,
             Admission(q) <=> W!Admitted(pool[k], now, cost)
      PROVE  Spent \/ Kept
  <2>1. k \in W!Keys /\ pool[k] \in W!PoolType /\ cost >= 1 /\ pool[k].tokens \in Nat
      BY <1>1, <1>2, <1>3, <1>9
  <2> HIDE DEF k, now, cost
  <2>2. /\ W!Decided(pool[k], now, cost) \in W!PoolType
        /\ W!Decided(pool[k], now, cost).tokens <= pool[k].tokens
        /\ W!Admitted(pool[k], now, cost)
             => W!Decided(pool[k], now, cost).tokens = pool[k].tokens - cost
      BY <1>1, <2>1, SpendTokens
  <2>3. d.tokens \in Nat /\ d.tokens <= pool[k].tokens
      BY <1>9, <2>2 DEF W!PoolType
  <2>4. pool'[k] = d /\ \A j \in W!Keys : j # k => pool'[j] = pool[j]
      BY <1>1, <1>9, <2>1
  <2>5. CASE Admission(q)
    <3>1. d.tokens = pool[k].tokens - cost
        BY <1>9, <2>2, <2>5
    <3>2. QED
        BY <1>1, <2>1, <2>3, <2>4, <2>5, <3>1
  <2>6. CASE ~Admission(q)
    <3>1. \A j \in W!Keys : pool'[j].tokens <= pool[j].tokens
        BY <1>3, <2>3, <2>4
    <3>2. QED
        BY <2>6, <3>1
  <2>7. QED
      BY <2>5, <2>6
<1>10. ASSUME W!CheckLocked(q) PROVE Spent \/ Kept
  <2>1. /\ req[q].pc = "lock" /\ pool' = [pool EXCEPT ![k] = W!Decided(pool[k], now, cost)]
        /\ W!Proceed(q, W!Decided(pool[k], now, cost), W!Admitted(pool[k], now, cost))
      BY <1>10 DEF W!CheckLocked
  <2>2. Admission(q) <=> W!Admitted(pool[k], now, cost)
      BY <1>8, <2>1
  <2> HIDE DEF k, now, cost, Spent, Kept
  <2>3. QED
      BY <1>9, <2>1, <2>2
<1>11. ASSUME NEW r \in Renewers, W!CheckRenew(q, r) PROVE Spent \/ Kept
  <2> DEFINE d == W!BeginRenew(W!Decided(pool[k], now, cost), r)
  <2>1. /\ req[q].pc = "lock" /\ pool' = [pool EXCEPT ![k] = d]
        /\ W!Proceed(q, d, W!Admitted(pool[k], now, cost))
      BY <1>11 DEF W!CheckRenew
  <2>2. Admission(q) <=> W!Admitted(pool[k], now, cost)
    <3> HIDE DEF d
    <3>1. QED
        BY <1>8, <2>1
  <2>3. d.tokens = W!Decided(pool[k], now, cost).tokens
    <3>1. pool[k] \in W!PoolType /\ cost >= 1
        BY <1>1, <1>2, <2>1
    <3> HIDE DEF k, now, cost
    <3>2. QED
        BY <1>1, <3>1, SpendTokens
  <2> HIDE DEF k, now, cost, Spent, Kept, d
  <2>4. QED
      BY <1>9, <2>1, <2>2, <2>3
<1>12. ASSUME W!WokenLocked(q) PROVE Spent \/ Kept
  <2> DEFINE ok == W!AdmitsWoken(pool[k], now, cost)
  <2>1. /\ req[q].pc = "relock"
        /\ pool' = IF ok THEN [pool EXCEPT ![k] = W!Debited(pool[k], cost)] ELSE pool
        /\ req' = [req EXCEPT ![q] = [req[q] EXCEPT !.pc = "count", !.admitted = ok]]
      BY <1>12 DEF W!WokenLocked
  <2>2. ok => pool[k].tokens >= cost
      BY DEF W!AdmitsWoken
  <2>3. ok \in BOOLEAN
      BY DEF W!AdmitsWoken
  <2> HIDE DEF ok
  <2>4. Admission(q) <=> ok
    <3>1. req'[q].pc = "count" /\ req'[q].admitted = ok
        BY <1>1, <2>1 DEF W!ReqType
    <3>2. QED
        BY <2>1, <2>3, <3>1 DEF Admission
  <2>5. CASE ok
    <3>1. k \in W!Keys /\ pool[k].tokens \in Nat /\ cost >= 1 /\ pool[k] \in W!PoolType
        BY <1>1, <1>2, <1>3, <2>1
    <3>2. pool' = [pool EXCEPT ![k] = W!Debited(pool[k], cost)]
        BY <2>1, <2>5
    <3>3. W!Debited(pool[k], cost).tokens = pool[k].tokens - cost
        BY <3>1 DEF W!Debited, W!PoolType
    <3>4. /\ pool'[k].tokens = pool[k].tokens - cost
          /\ \A j \in W!Keys : j # k => pool'[j] = pool[j]
        BY <1>1, <3>1, <3>2, <3>3
    <3>5. pool'[k].tokens \in Nat
        BY <1>1, <2>2, <2>5, <3>1, <3>4
    <3>6. QED
        BY <1>1, <2>4, <2>5, <3>1, <3>4, <3>5
  <2>6. CASE ~ok
      BY <1>4, <2>1, <2>4, <2>6
  <2>7. QED
      BY <2>5, <2>6
<1> HIDE DEF Spent, Kept
<1>13. Spent \/ Kept
    BY <1>5, <1>6, <1>7, <1>10, <1>11, <1>12 DEF Decide, W!CheckStep
<1>14. QED
    BY <1>13 DEF Spent, Kept, k, cost

\* A step of Check leaves alone what is on its way.
LEMMA DecideCarries ==
    ASSUME RInv, NEW q \in Requests, Decide(q)
    PROVE  /\ UNCHANGED <<handler, call, peer>>
           /\ \A t \in Tenants, r \in Renewers : Carrying(r, t)' = Carrying(r, t)
<1>1. UNCHANGED <<handler, call, peer>>
    BY DEF Decide, coordVars, linkVars
<1>2. CASE renewer' = renewer
    BY <1>1, <1>2 DEF Carrying, TenantOf
<1>3. ASSUME NEW r \in Renewers, W!CheckRenew(q, r)
      PROVE  \A t \in Tenants, i \in Renewers : Carrying(i, t)' = Carrying(i, t)
  <2> DEFINE n == [W!IdleRenewer EXCEPT !.pc = "call", !.key = req[q].key]
  <2>1. renewer' = [renewer EXCEPT ![r] = n] /\ renewer[r].pc = "idle"
      BY <1>3 DEF W!CheckRenew
  <2>2. n.answer = W!NoAnswer /\ W!NoAnswer.tokens = 0
      BY DEF W!IdleRenewer, W!NoAnswer
  <2> HIDE DEF n
  <2>3. renewer'[r] = n /\ \A i \in Renewers : i # r => renewer'[i] = renewer[i]
      BY <2>1, Types
  <2>4. call[r].answer = W!NoAnswer
    <3>1. CallOK(r)
        BY DEF RInv, LinkInv, Joined
    <3>2. call[r].pc = "none"
        BY <2>1, <3>1 DEF CallOK
    <3>3. QED
        BY <3>1, <3>2 DEF CallOK
  <2>5. \A t \in Tenants : Carrying(r, t)' = 0 /\ Carrying(r, t) = 0
      BY <1>1, <2>1, <2>2, <2>3, <2>4 DEF Carrying
  <2>6. \A t \in Tenants, i \in Renewers : i # r => Carrying(i, t)' = Carrying(i, t)
      BY <1>1, <2>3 DEF Carrying, TenantOf
  <2>7. QED
      BY <2>5, <2>6
<1>4. renewer' = renewer \/ \E r \in Renewers : W!CheckRenew(q, r)
    BY DEF Decide, W!CheckStep, W!CheckUnknown, W!CheckLocked, W!WaitDone, W!WaitTimeout,
           W!WokenUnknown, W!WokenLocked, W!CheckReturn
<1>5. QED
    BY <1>1, <1>2, <1>3, <1>4

\* A request that is not admitted takes nothing but what has expired.
LEMMA RefusalHolds ==
    ASSUME RInv, [Next]_vars, NEW q \in Requests, Decide(q), ~Admission(q)
    PROVE  \A t \in Tenants : Held(t)' <= Held(t)
<1> SUFFICES ASSUME NEW t \in Tenants PROVE Held(t)' <= Held(t)
    OBVIOUS
<1>1. \A k \in W!Keys : pool'[k].tokens <= pool[k].tokens
    BY DecideTokens
<1>2. \A w \in Workers : pool'[<<w, t>>].tokens <= pool[<<w, t>>].tokens
    BY <1>1, PoolCounts
<1>3. \A h \in Handlers : Answering(h, t)' <= Answering(h, t)
  <2>1. \A h \in Handlers : Answering(h, t) \in Nat
      BY HeldCounts DEF InHandlers
  <2>2. \A h \in Handlers : Answering(h, t)' = Answering(h, t)
      BY DecideCarries DEF Answering
  <2>3. QED
      BY <2>1, <2>2
<1>4. \A r \in Renewers : Carrying(r, t)' <= Carrying(r, t)
  <2>1. \A r \in Renewers : Carrying(r, t) \in Nat
      BY HeldCounts DEF InCalls
  <2>2. \A r \in Renewers : Carrying(r, t)' = Carrying(r, t)
      BY DecideCarries
  <2>3. QED
      BY <2>1, <2>2
<1>5. QED
    BY <1>2, <1>3, <1>4, HeldFalls

\* An admission takes its cost from what is held for its tenant, and nothing
\* from any other.
LEMMA AdmissionHolds ==
    ASSUME RInv, [Next]_vars, NEW q \in Requests, Decide(q), Admission(q)
    PROVE  /\ req[q].cost \in Nat \ {0} /\ req[q].key \in W!Keys
           /\ \A t \in Tenants :
                IF t = req[q].key[2] THEN Held(t)' = Held(t) - req[q].cost
                                     ELSE Held(t)' = Held(t)
<1>1. PICK w \in Workers, u \in Names : req[q].key = <<w, u>>
  <2>1. req[q].key \in W!Keys
      BY DecideTokens
  <2>2. QED
      BY <2>1 DEF W!Keys
<1>2. /\ req[q].cost \in Nat \ {0} /\ pool'[<<w, u>>].tokens \in Nat
      /\ pool'[<<w, u>>].tokens = pool[<<w, u>>].tokens - req[q].cost
      /\ \A k \in W!Keys : k # <<w, u>> => pool'[k].tokens = pool[k].tokens
    BY <1>1, DecideTokens
<1>3. ASSUME NEW t \in Tenants
      PROVE  IF t = u THEN Held(t)' = Held(t) - req[q].cost ELSE Held(t)' = Held(t)
  <2>1. InHandlers(t)' = InHandlers(t)
      BY DecideCarries, PartsSame DEF Answering
  <2>2. InCalls(t)' = InCalls(t)
      BY DecideCarries, PartsSame
  <2>3. CASE t # u
    <3>1. \A v \in Workers : pool'[<<v, t>>].tokens = pool[<<v, t>>].tokens
        BY <1>2, <2>3, PoolCounts
    <3>2. InPools(t)' = InPools(t)
        BY <3>1, PartsSame
    <3>3. /\ SumFunctionOnSet(InPools(t)', Workers) = SumFunctionOnSet(InPools(t), Workers)
          /\ SumFunctionOnSet(InHandlers(t)', Handlers) = SumFunctionOnSet(InHandlers(t), Handlers)
          /\ SumFunctionOnSet(InCalls(t)', Renewers) = SumFunctionOnSet(InCalls(t), Renewers)
        BY <2>1, <2>2, <3>2
    <3>4. Held(t) = SumFunctionOnSet(InPools(t), Workers) + SumFunctionOnSet(InHandlers(t), Handlers)
                      + SumFunctionOnSet(InCalls(t), Renewers)
        BY HeldCounts
    <3>5. Held(t)' = SumFunctionOnSet(InPools(t)', Workers) + SumFunctionOnSet(InHandlers(t)', Handlers)
                      + SumFunctionOnSet(InCalls(t)', Renewers)
        BY HeldCountsNext
    <3>6. QED
        BY <2>3, <3>3, <3>4, <3>5
  <2>4. CASE t = u
    <3>1. \A v \in Workers : v # w => pool'[<<v, t>>].tokens = pool[<<v, t>>].tokens
        BY <1>2, PoolCounts
    <3>2. SumFunctionOnSet(InPools(t)', Workers)
            = SumFunctionOnSet(InPools(t), Workers) - pool[<<w, t>>].tokens + pool'[<<w, t>>].tokens
        BY <3>1, PoolsChange
    <3>3. /\ SumFunctionOnSet(InHandlers(t)', Handlers) = SumFunctionOnSet(InHandlers(t), Handlers)
          /\ SumFunctionOnSet(InCalls(t)', Renewers) = SumFunctionOnSet(InCalls(t), Renewers)
        BY <2>1, <2>2
    <3>4. /\ SumFunctionOnSet(InPools(t), Workers) \in Nat
          /\ SumFunctionOnSet(InHandlers(t), Handlers) \in Nat
          /\ SumFunctionOnSet(InCalls(t), Renewers) \in Nat
          /\ Held(t) = SumFunctionOnSet(InPools(t), Workers) + SumFunctionOnSet(InHandlers(t), Handlers)
                         + SumFunctionOnSet(InCalls(t), Renewers)
        BY HeldCounts
    <3>5. Held(t)' = SumFunctionOnSet(InPools(t)', Workers) + SumFunctionOnSet(InHandlers(t)', Handlers)
                      + SumFunctionOnSet(InCalls(t)', Renewers)
        BY HeldCountsNext
    <3>6. pool[<<w, t>>].tokens \in Nat
        BY PoolCounts
    <3>7. pool'[<<w, t>>].tokens = pool[<<w, t>>].tokens - req[q].cost
        BY <1>2, <2>4
    <3>8. QED
        BY <1>2, <2>4, <3>2, <3>3, <3>4, <3>5, <3>6, <3>7
  <2>5. QED
      BY <2>3, <2>4
<1>4. req[q].key[2] = u /\ req[q].key \in W!Keys
    BY <1>1 DEF W!Keys
<1>5. QED
    BY <1>2, <1>3, <1>4

\* What a handler debits is held for the tenant if its worker still waits.
LEMMA TakeUpToHolds ==
    ASSUME RInv, [Next]_vars, NEW h \in Handlers, Handle(h), C!TakeUpTo(h)
    PROVE  \E t \in Tenants, g \in 0..LeaseSize :
             /\ t = handler[h].tenant
             /\ \A u \in Tenants : IF u = t /\ peer[h] # Nil THEN Held(u)' = Held(u) + g
                                                             ELSE Held(u)' = Held(u)
             /\ UNCHANGED <<winStart, winAdmitted, winHeld>>
             /\ winFresh' = IF winStart > 0 /\ handler[h].now >= winStart
                            THEN [winFresh EXCEPT ![t] = @ + g] ELSE winFresh
             /\ winStale' = IF winStart > 0 /\ handler[h].now < winStart
                            THEN [winStale EXCEPT ![t] = @ + g] ELSE winStale
<1> DEFINE g == C!TakenUpTo(C!RefillLocked(bucket[handler[h].tenant], Rate[handler[h].tenant],
                              C!Cap(handler[h].tenant), handler[h].now), LeaseSize)
<1>1. /\ handler[h].pc = "take" /\ handler[h].tenant \in Tenants /\ g \in 0..LeaseSize
      /\ handler' = [handler EXCEPT ![h] =
                       [@ EXCEPT !.granted = g, !.pc = IF g = 0 THEN "zero" ELSE "grant"]]
      /\ winFresh' = IF winStart > 0 /\ handler[h].now >= winStart
                     THEN [winFresh EXCEPT ![handler[h].tenant] = @ + g] ELSE winFresh
      /\ winStale' = IF winStart > 0 /\ handler[h].now < winStart
                     THEN [winStale EXCEPT ![handler[h].tenant] = @ + g] ELSE winStale
      /\ UNCHANGED <<winStart, winAdmitted, winHeld, pool, renewer, call, peer>>
  <2>1. handler[h].pc = "take"
      BY DEF C!TakeUpTo
  <2>2. handler[h].tenant \in Tenants /\ g \in 0..LeaseSize
      BY <2>1, TakenBounds
  <2>3. UNCHANGED <<winStart, winAdmitted, winHeld, pool, renewer, call, peer>>
      BY DEF Handle, C!TakeUpTo, workVars, linkVars, histVars
  <2>4. QED
      BY <2>1, <2>2, <2>3 DEF C!TakeUpTo
<1>2. PICK t \in Tenants, n \in 0..LeaseSize : t = handler[h].tenant /\ n = g
    BY <1>1
<1> HIDE DEF g
<1>3. /\ handler'[h].granted = n /\ handler'[h].tenant = t
      /\ \A i \in Handlers : i # h => handler'[i] = handler[i]
  <2>1. handler[h] \in C!HandlerType /\ handler \in [Handlers -> C!HandlerType]
      BY Types
  <2>2. QED
      BY <1>1, <1>2, <2>1 DEF C!HandlerType
<1>4. handler[h].granted = 0 /\ n \in Nat
    BY <1>1, RateLimiterAssumption DEF RInv, LinkInv, HandlerOK
<1>5. ASSUME NEW u \in Tenants
      PROVE  IF u = t /\ peer[h] # Nil THEN Held(u)' = Held(u) + n ELSE Held(u)' = Held(u)
  <2>1. Answering(h, u) = 0 /\ Answering(h, u)' = IF u = t /\ peer[h] # Nil THEN n ELSE 0
      BY <1>1, <1>2, <1>3, <1>4 DEF Answering
  <2>2. \A i \in Handlers : i # h => Answering(i, u)' = Answering(i, u)
      BY <1>1, <1>3 DEF Answering
  <2>3. SumFunctionOnSet(InHandlers(u)', Handlers)
          = SumFunctionOnSet(InHandlers(u), Handlers) - Answering(h, u) + Answering(h, u)'
      BY <2>2, HandlersChange
  <2>4. /\ SumFunctionOnSet(InPools(u)', Workers) = SumFunctionOnSet(InPools(u), Workers)
        /\ SumFunctionOnSet(InCalls(u)', Renewers) = SumFunctionOnSet(InCalls(u), Renewers)
    <3>1. InPools(u)' = InPools(u) /\ InCalls(u)' = InCalls(u)
        BY <1>1, PartsSame DEF Carrying, TenantOf
    <3>2. QED
        BY <3>1
  <2>5. /\ SumFunctionOnSet(InPools(u), Workers) \in Nat
        /\ SumFunctionOnSet(InHandlers(u), Handlers) \in Nat
        /\ SumFunctionOnSet(InCalls(u), Renewers) \in Nat
        /\ Held(u) = SumFunctionOnSet(InPools(u), Workers) + SumFunctionOnSet(InHandlers(u), Handlers)
                       + SumFunctionOnSet(InCalls(u), Renewers)
      BY HeldCounts
  <2>6. Held(u)' = SumFunctionOnSet(InPools(u)', Workers) + SumFunctionOnSet(InHandlers(u)', Handlers)
                      + SumFunctionOnSet(InCalls(u)', Renewers)
      BY HeldCountsNext
  <2>7. QED
      BY <1>4, <2>1, <2>3, <2>4, <2>5, <2>6
<1>6. QED
    BY <1>1, <1>2, <1>5

-----------------------------------------------------------------------------
(* The whole implements Budget *)

\* What an observer has noted.
Noted == <<winStart, winHeld, winFresh, winStale, winAdmitted>>

\* A step that lets nobody hold more and notes nothing loses tokens, if it
\* does anything to them.
LEMMA LosesTokens ==
    ASSUME RInv, [Next]_vars, UNCHANGED Noted, \A t \in Tenants : Held(t)' <= Held(t)
    PROVE  B!Lose
<1>1. [t \in Tenants |-> Held(t)]' \in [Tenants -> Nat]
    BY HeldCountsNext
<1>2. \A t \in Tenants : [u \in Tenants |-> Held(u)]'[t] <= [u \in Tenants |-> Held(u)][t]
    OBVIOUS
<1>3. /\ UNCHANGED (winStart > 0) /\ UNCHANGED winHeld /\ UNCHANGED winAdmitted
      /\ UNCHANGED [t \in Tenants |-> winFresh[t] + winStale[t]]
    BY DEF Noted
<1>4. QED
    BY <1>1, <1>2, <1>3 DEF B!Lose

\* The steps that neither debit a bucket nor admit a request nor open the
\* window: whatever happens to a call, a goroutine or a process in them.
LEMMA OtherSteps ==
    ASSUME RInv, [Next]_vars,
           ~\E h \in Handlers : Handle(h) /\ C!TakeUpTo(h),
           ~\E q \in Requests : Decide(q) /\ Admission(q),
           ~OpenWindow
    PROVE  UNCHANGED Noted /\ \A t \in Tenants : Held(t)' <= Held(t)
<1> DEFINE Falls == UNCHANGED Noted /\ \A t \in Tenants : Held(t)' <= Held(t)
<1>0. ASSUME UNCHANGED <<pool, renewer, handler, call, peer>>
      PROVE  \A t \in Tenants : Held(t)' <= Held(t)
  <2>1. \A t \in Tenants : Held(t)' = Held(t)
      BY <1>0, NothingHeldChanges
  <2>2. \A t \in Tenants : Held(t) \in Nat
      BY HeldCounts
  <2>3. QED
      BY <2>1, <2>2
<1>1. ASSUME NEW q \in Requests, NEW k \in W!Keys, NEW cost \in Costs, Arrive(q, k, cost)
      PROVE  Falls
  <2>1. UNCHANGED <<pool, renewer, handler, call, peer>> /\ UNCHANGED Noted
      BY <1>1 DEF Arrive, W!CheckStart, coordVars, linkVars, histVars, Noted
  <2>2. QED
      BY <1>0, <2>1
<1>2. ASSUME NEW q \in Requests, Decide(q) PROVE Falls
  <2>1. ~Admission(q)
      BY <1>2
  <2>2. UNCHANGED Noted
      BY <1>2, <2>1 DEF Decide, Admission, coordVars, Noted
  <2>3. QED
      BY <1>2, <2>1, <2>2, RefusalHolds
<1>3. ASSUME NEW r \in Renewers, Send(r) \/ Deliver(r) \/ GiveUp(r) PROVE Falls
  <2>1. UNCHANGED Noted
      BY <1>3 DEF Send, Deliver, GiveUp, coordVars, histVars, Noted
  <2>2. QED
      BY <1>3, <2>1, CallHolds
<1>4. ASSUME NEW r \in Renewers, Finish(r) PROVE Falls
  <2>1. UNCHANGED Noted
      BY <1>4 DEF Finish, coordVars, histVars, Noted
  <2>2. QED
      BY <1>4, <2>1, FinishHolds
<1>5. ASSUME NEW h \in Handlers, NEW r \in Renewers, Receive(h, r) PROVE Falls
  <2>1. UNCHANGED Noted
      BY <1>5 DEF Receive, C!HandleLease, C!RefuseLease, C!window, histVars, Noted
  <2>2. QED
      BY <1>5, <2>1, ReceiveHolds
<1>6. ASSUME NEW h \in Handlers, NEW t \in Tenants, ReceiveLate(h, t) PROVE Falls
  <2>1. UNCHANGED Noted
      BY <1>6 DEF ReceiveLate, C!HandleLease, C!window, histVars, Noted
  <2>2. QED
      BY <1>6, <2>1, ReceiveLateHolds
<1>7. ASSUME NEW h \in Handlers, Handle(h) PROVE Falls
  <2>1. ~C!TakeUpTo(h)
      BY <1>7
  <2>2. UNCHANGED Noted
      BY <1>7, <2>1 DEF Handle, C!CountZero, C!ZeroGrant, C!CountGrant, C!window, histVars,
                        Noted
  <2>3. QED
      BY <1>7, <2>1, <2>2, HandleHolds
<1>8. ASSUME NEW h \in Handlers, Respond(h) PROVE Falls
  <2>1. UNCHANGED Noted
      BY <1>8 DEF Respond, C!Reply, C!window, histVars, Noted
  <2>2. QED
      BY <1>8, <2>1, RespondHolds
<1>9. ASSUME NEW w \in Workers, KillWorker(w) PROVE Falls
  <2>1. UNCHANGED Noted
      BY <1>9 DEF KillWorker, coordVars, Noted
  <2>2. QED
      BY <1>9, <2>1, KillWorkerHolds
<1>10. ASSUME KillCoordinator PROVE Falls
  <2>1. UNCHANGED Noted
      BY <1>10 DEF KillCoordinator, C!Crash, C!window, histVars, Noted
  <2>2. QED
      BY <1>10, <2>1, KillCoordinatorHolds
<1>11. ASSUME StartCoordinator \/ Tick \/ UNCHANGED vars PROVE Falls
  <2>1. UNCHANGED <<pool, renewer, handler, call, peer>> /\ UNCHANGED Noted
      BY <1>11 DEF StartCoordinator, Tick, C!Start, C!Tick, C!window, vars, coordVars, workVars,
                   linkVars, histVars, Noted
  <2>2. QED
      BY <1>0, <2>1
<1> HIDE DEF Falls
<1>12. Falls
    BY <1>1, <1>2, <1>3, <1>4, <1>5, <1>6, <1>7, <1>8, <1>9, <1>10, <1>11 DEF Next
<1>13. QED
    BY <1>12 DEF Falls

\* A debit is a draw.
LEMMA DebitDraws ==
    ASSUME RInv, [Next]_vars, NEW h \in Handlers, Handle(h), C!TakeUpTo(h)
    PROVE  [B!Next]_(B!budgetVars)
<1> DEFINE held == [t \in Tenants |-> Held(t)]
           drawn == [t \in Tenants |-> winFresh[t] + winStale[t]]
<1>1. PICK t \in Tenants, g \in 0..LeaseSize :
        /\ \A u \in Tenants : IF u = t /\ peer[h] # Nil THEN Held(u)' = Held(u) + g
                                                        ELSE Held(u)' = Held(u)
        /\ UNCHANGED <<winStart, winAdmitted, winHeld>>
        /\ winFresh' = IF winStart > 0 /\ handler[h].now >= winStart
                       THEN [winFresh EXCEPT ![t] = @ + g] ELSE winFresh
        /\ winStale' = IF winStart > 0 /\ handler[h].now < winStart
                       THEN [winStale EXCEPT ![t] = @ + g] ELSE winStale
    BY TakeUpToHolds
<1>2. /\ winFresh \in [Tenants -> Nat] /\ winStale \in [Tenants -> Nat] /\ winStart \in Nat
      /\ handler[h].now \in Nat /\ g \in Nat
      /\ \A u \in Tenants : Held(u) \in Nat
    BY Types, HeldCounts, RateLimiterAssumption DEF C!TypeOK, C!HandlerType
<1>3. \A u \in Tenants : drawn'[u] = IF winStart > 0 /\ u = t THEN drawn[u] + g ELSE drawn[u]
  <2>1. CASE winStart > 0 /\ handler[h].now >= winStart
    <3>1. winFresh' = [winFresh EXCEPT ![t] = @ + g] /\ winStale' = winStale
        BY <1>1, <1>2, <2>1
    <3>2. QED
        BY <1>2, <2>1, <3>1
  <2>2. CASE winStart > 0 /\ handler[h].now < winStart
    <3>1. winStale' = [winStale EXCEPT ![t] = @ + g] /\ winFresh' = winFresh
        BY <1>1, <1>2, <2>2
    <3>2. QED
        BY <1>2, <2>2, <3>1
  <2>3. CASE ~(winStart > 0)
    <3>1. winStale' = winStale /\ winFresh' = winFresh
        BY <1>1, <2>3
    <3>2. QED
        BY <1>2, <2>3, <3>1
  <2>4. QED
      BY <1>2, <2>1, <2>2, <2>3
<1>4. /\ UNCHANGED (winStart > 0) /\ UNCHANGED winHeld /\ UNCHANGED winAdmitted
    BY <1>1
<1>5. CASE g = 0
  <2>1. \A u \in Tenants : held'[u] = held[u] /\ drawn'[u] = drawn[u]
    <3>1. \A u \in Tenants : Held(u)' = Held(u)
        BY <1>1, <1>2, <1>5
    <3>2. \A u \in Tenants : drawn[u] \in Nat
        BY <1>2
    <3> HIDE DEF drawn
    <3>3. QED
        BY <1>3, <1>5, <3>1, <3>2
  <2>2. held' = held /\ drawn' = drawn
      BY <2>1
  <2>3. QED
      BY <1>4, <2>2 DEF B!budgetVars
<1>6. CASE g # 0
  <2>1. drawn' = IF winStart > 0 THEN [drawn EXCEPT ![t] = @ + g] ELSE drawn
      BY <1>3
  <2>2. held' = [held EXCEPT ![t] = @ + g] \/ held' = held
      BY <1>1
  <2>3. B!Draw(t, g)
      BY <1>4, <2>1, <2>2 DEF B!Draw, B!Noted
  <2>4. g \in 1..LeaseSize
      BY <1>2, <1>6
  <2>5. QED
      BY <2>3, <2>4 DEF B!Next
<1>7. QED
    BY <1>5, <1>6

\* An admission spends tokens that are held; one of a stranger cannot be.
LEMMA AdmissionSpends ==
    ASSUME RInv, [Next]_vars, NEW q \in Requests, Decide(q), Admission(q)
    PROVE  [B!Next]_(B!budgetVars)
<1> DEFINE held == [t \in Tenants |-> Held(t)]
<1>0. PICK n \in Nat \ {0}, u \in Names :
        /\ n = req[q].cost /\ u = req[q].key[2]
        /\ \A t \in Tenants : IF t = u THEN Held(t)' = Held(t) - n ELSE Held(t)' = Held(t)
    BY AdmissionHolds DEF W!Keys
<1>1. \A t \in Tenants : IF t = u THEN Held(t)' = Held(t) - n ELSE Held(t)' = Held(t)
    BY <1>0
<1>2. UNCHANGED <<winStart, winFresh, winStale, winHeld>>
    BY DEF Decide, coordVars
<1>3. winAdmitted' = IF winStart > 0 /\ u \in Tenants
                     THEN [winAdmitted EXCEPT ![u] = @ + n] ELSE winAdmitted
    BY <1>0 DEF Decide, Admission
<1>4. /\ UNCHANGED (winStart > 0) /\ UNCHANGED winHeld
      /\ UNCHANGED [t \in Tenants |-> winFresh[t] + winStale[t]]
    BY <1>2
<1>5. CASE u \in Tenants
  <2>1. held' = [held EXCEPT ![u] = @ - n]
      BY <1>1, <1>5
  <2>2. Held(u) \in Nat /\ Held(u)' \in Nat /\ held[u] = Held(u)
      BY <1>5, HeldCounts, HeldCountsNext
  <2>3. n <= held[u] /\ n \in 1..held[u]
      BY <1>1, <1>5, <2>2
  <2>4. winAdmitted' = IF winStart > 0 THEN [winAdmitted EXCEPT ![u] = @ + n] ELSE winAdmitted
      BY <1>3, <1>5
  <2>5. B!Spend(u, n)
      BY <1>4, <2>1, <2>3, <2>4 DEF B!Spend, B!Noted
  <2>6. QED
      BY <1>5, <2>3, <2>5 DEF B!Next
<1>6. CASE u \notin Tenants
  <2>1. held' = held
      BY <1>1, <1>6
  <2>2. QED
      BY <1>3, <1>4, <1>6, <2>1 DEF B!budgetVars
<1>7. QED
    BY <1>5, <1>6

\* The observer looks at what is held.
LEMMA WindowObserves ==
    ASSUME RInv, OpenWindow
    PROVE  B!Observe
<1>1. /\ winStart = 0 /\ winStart' = clock
      /\ UNCHANGED <<winFresh, winStale, winAdmitted>>
      /\ UNCHANGED <<pool, renewer, handler, call, peer>>
      /\ winHeld' = [t \in Tenants |-> Held(t)]
    BY DEF OpenWindow, C!OpenWindow, workVars, linkVars
<1>2. ~(winStart > 0) /\ (winStart > 0)' = TRUE
    BY <1>1, Types DEF RInv
<1>3. UNCHANGED [t \in Tenants |-> Held(t)]
  <2>1. \A t \in Tenants : Held(t)' = Held(t)
      BY <1>1, NothingHeldChanges
  <2>2. QED
      BY <2>1
<1>4. UNCHANGED [t \in Tenants |-> winFresh[t] + winStale[t]] /\ UNCHANGED winAdmitted
    BY <1>1
<1>5. QED
    BY <1>1, <1>2, <1>3, <1>4, Zenon DEF B!Observe

\* Every step of the whole is one of Budget, or changes nothing Budget sees.
LEMMA BudgetStep ==
    ASSUME RInv, [Next]_vars
    PROVE  [B!Next]_(B!budgetVars)
<1>1. CASE OpenWindow
    BY <1>1, WindowObserves DEF B!Next
<1>2. ASSUME NEW h \in Handlers, Handle(h), C!TakeUpTo(h) PROVE [B!Next]_(B!budgetVars)
    BY <1>2, DebitDraws
<1>3. ASSUME NEW q \in Requests, Decide(q), Admission(q) PROVE [B!Next]_(B!budgetVars)
    BY <1>3, AdmissionSpends
<1>4. ASSUME ~\E h \in Handlers : Handle(h) /\ C!TakeUpTo(h),
             ~\E q \in Requests : Decide(q) /\ Admission(q), ~OpenWindow
      PROVE  [B!Next]_(B!budgetVars)
  <2>1. B!Lose
      BY <1>4, OtherSteps, LosesTokens
  <2>2. QED
      BY <2>1 DEF B!Next
<1>5. QED
    BY <1>1, <1>2, <1>3, <1>4

\* Nobody holds anything at first.
LEMMA BudgetInitially ==
    ASSUME Init
    PROVE  B!Init
<1>1. \A t \in Tenants : Held(t) = 0
  <2> SUFFICES ASSUME NEW t \in Tenants PROVE Held(t) = 0
      OBVIOUS
  <2>1. \A w \in Workers : InPools(t)[w] = 0
    <3>1. \A w \in Workers : <<w, t>> \in W!Keys
        BY DEF W!Keys, Names
    <3>2. QED
        BY <3>1 DEF Init, W!Init, W!NewPool, InPools
  <2>2. \A h \in Handlers : InHandlers(t)[h] = 0
      BY DEF Init, InHandlers, Answering
  <2>3. \A r \in Renewers : InCalls(t)[r] = 0
      BY DEF Init, W!Init, W!IdleRenewer, InCalls, Carrying
  <2>4. /\ IsFiniteSet(Workers) /\ IsFiniteSet(Handlers) /\ IsFiniteSet(Renewers)
      BY RateLimiterAssumption
  <2>5. /\ SumFunctionOnSet(InPools(t), Workers) = SumFunctionOnSet(InPools(t), {})
        /\ SumFunctionOnSet(InHandlers(t), Handlers) = SumFunctionOnSet(InHandlers(t), {})
        /\ SumFunctionOnSet(InCalls(t), Renewers) = SumFunctionOnSet(InCalls(t), {})
      BY <2>1, <2>2, <2>3, <2>4, SumZeros
  <2>6. Held(t) = SumFunctionOnSet(InPools(t), Workers) + SumFunctionOnSet(InHandlers(t), Handlers)
                    + SumFunctionOnSet(InCalls(t), Renewers)
      BY DEF Held, InPools, InHandlers, InCalls
  <2>7. QED
      BY <2>5, <2>6, SumEmpty
<1>2. [t \in Tenants |-> Held(t)] = [t \in Tenants |-> 0]
    BY <1>1
<1>3. /\ winHeld = [t \in Tenants |-> 0] /\ winAdmitted = [t \in Tenants |-> 0]
      /\ [t \in Tenants |-> winFresh[t] + winStale[t]] = [t \in Tenants |-> 0]
    BY DEF Init, C!Init, C!Zero
<1>4. (winStart > 0) = FALSE
    BY DEF Init, C!Init
<1>5. QED
    BY <1>2, <1>3, <1>4, Zenon DEF B!Init

\* However many workers, tenants, requests and calls there are, whatever is
\* lost or late and whoever is killed, the whole handles tokens as Budget says.
THEOREM WholeImplementsBudget == Spec => ImplementsBudget
    BY BudgetInitially, BudgetStep, RateLimiterInductive, PTL DEF Spec, ImplementsBudget, B!Spec

-----------------------------------------------------------------------------
(***************************************************************************)
(* What Budget guarantees.  The balance is not inductive without the       *)
(* types, and nothing is counted before somebody looks.                    *)
(***************************************************************************)

held  == [t \in Tenants |-> Held(t)]
drawn == [t \in Tenants |-> winFresh[t] + winStale[t]]

BInv ==
    /\ B!TypeOK /\ B!Backed
    /\ ~(winStart > 0) => \A t \in Tenants : drawn[t] = 0 /\ winAdmitted[t] = 0

\* The balance as it is used below.
LEMMA Balanced ==
    BInv <=> /\ held \in [Tenants -> Nat] /\ winHeld \in [Tenants -> Nat]
             /\ drawn \in [Tenants -> Nat] /\ winAdmitted \in [Tenants -> Nat]
             /\ IF winStart > 0
                THEN \A t \in Tenants : winAdmitted[t] + held[t] <= winHeld[t] + drawn[t]
                ELSE \A t \in Tenants : drawn[t] = 0 /\ winAdmitted[t] = 0
<1>1. (winStart > 0) \in BOOLEAN
    OBVIOUS
<1>2. QED
    BY <1>1 DEF BInv, B!TypeOK, B!Backed, held, drawn

\* The balance holds initially.
LEMMA InitBalanced ==
    ASSUME B!Init
    PROVE  BInv
<1>1. /\ held = [t \in Tenants |-> 0] /\ winHeld = held /\ drawn = held /\ winAdmitted = held
      /\ (winStart > 0) = FALSE
    BY DEF B!Init, held, drawn
<1>2. \A t \in Tenants : held[t] = 0
    BY <1>1
<1>3. held \in [Tenants -> Nat]
    BY <1>1
<1>4. QED
    BY <1>1, <1>2, <1>3, Balanced

\* The same in the next state.
LEMMA BalancedNext ==
    BInv' <=> /\ held' \in [Tenants -> Nat] /\ winHeld' \in [Tenants -> Nat]
              /\ drawn' \in [Tenants -> Nat] /\ winAdmitted' \in [Tenants -> Nat]
              /\ IF (winStart > 0)'
                 THEN \A t \in Tenants : winAdmitted'[t] + held'[t] <= winHeld'[t] + drawn'[t]
                 ELSE \A t \in Tenants : drawn'[t] = 0 /\ winAdmitted'[t] = 0
<1>1. (winStart > 0)' \in BOOLEAN
    OBVIOUS
<1>2. QED
    BY <1>1 DEF BInv, B!TypeOK, B!Backed, held, drawn

\* Drawing a lease, received or not, keeps the balance.
LEMMA DrawBalanced ==
    ASSUME BInv, NEW t \in Tenants, NEW n \in Nat, B!Draw(t, n)
    PROVE  BInv'
<1>1. /\ drawn' = IF winStart > 0 THEN [drawn EXCEPT ![t] = @ + n] ELSE drawn
      /\ UNCHANGED (winStart > 0) /\ UNCHANGED winHeld /\ UNCHANGED winAdmitted
      /\ held' = [held EXCEPT ![t] = @ + n] \/ UNCHANGED held
    BY DEF B!Draw, B!Noted, held, drawn
<1>2. /\ held \in [Tenants -> Nat] /\ winHeld \in [Tenants -> Nat]
      /\ drawn \in [Tenants -> Nat] /\ winAdmitted \in [Tenants -> Nat]
      /\ winStart > 0 => \A u \in Tenants : winAdmitted[u] + held[u] <= winHeld[u] + drawn[u]
      /\ ~(winStart > 0) => \A u \in Tenants : drawn[u] = 0 /\ winAdmitted[u] = 0
    BY Balanced
<1>3. held' \in [Tenants -> Nat] /\ drawn' \in [Tenants -> Nat]
    BY <1>1, <1>2
<1>4. CASE winStart > 0
  <2>1. \A u \in Tenants : winAdmitted[u] + held'[u] <= winHeld[u] + drawn'[u]
    <3>1. drawn' = [drawn EXCEPT ![t] = @ + n]
        BY <1>1, <1>4
    <3>2. CASE held' = [held EXCEPT ![t] = @ + n]
        BY <1>2, <1>4, <3>1, <3>2
    <3>3. CASE UNCHANGED held
        BY <1>2, <1>4, <3>1, <3>3
    <3>4. QED
        BY <1>1, <3>2, <3>3
  <2>2. QED
      BY <1>1, <1>2, <1>3, <1>4, <2>1, BalancedNext
<1>5. CASE ~(winStart > 0)
  <2>1. drawn' = drawn
      BY <1>1, <1>5
  <2>2. QED
      BY <1>1, <1>2, <1>3, <1>5, <2>1, BalancedNext
<1>6. QED
    BY <1>4, <1>5

\* An admission takes from what is held as much as it counts.
LEMMA SpendBalanced ==
    ASSUME BInv, NEW t \in Tenants, NEW n \in Nat, B!Spend(t, n)
    PROVE  BInv'
<1>1. /\ winAdmitted' = IF winStart > 0 THEN [winAdmitted EXCEPT ![t] = @ + n] ELSE winAdmitted
      /\ UNCHANGED (winStart > 0) /\ UNCHANGED winHeld /\ UNCHANGED drawn
      /\ n <= held[t] /\ held' = [held EXCEPT ![t] = @ - n]
    BY DEF B!Spend, B!Noted, held, drawn
<1>2. /\ held \in [Tenants -> Nat] /\ winHeld \in [Tenants -> Nat]
      /\ drawn \in [Tenants -> Nat] /\ winAdmitted \in [Tenants -> Nat]
      /\ winStart > 0 => \A u \in Tenants : winAdmitted[u] + held[u] <= winHeld[u] + drawn[u]
      /\ ~(winStart > 0) => \A u \in Tenants : drawn[u] = 0 /\ winAdmitted[u] = 0
    BY Balanced
<1>3. held' \in [Tenants -> Nat] /\ winAdmitted' \in [Tenants -> Nat]
  <2>1. held[t] - n \in Nat
      BY <1>1, <1>2
  <2>2. QED
      BY <1>1, <1>2, <2>1
<1>4. CASE winStart > 0
  <2>1. winAdmitted' = [winAdmitted EXCEPT ![t] = @ + n]
      BY <1>1, <1>4
  <2>2. \A u \in Tenants : winAdmitted'[u] + held'[u] <= winHeld[u] + drawn[u]
      BY <1>1, <1>2, <1>4, <2>1
  <2>3. QED
      BY <1>1, <1>2, <1>3, <1>4, <2>2, BalancedNext
<1>5. CASE ~(winStart > 0)
  <2>1. winAdmitted' = winAdmitted
      BY <1>1, <1>5
  <2>2. QED
      BY <1>1, <1>2, <1>3, <1>5, <2>1, BalancedNext
<1>6. QED
    BY <1>4, <1>5

\* Every step of Budget keeps the balance.
LEMMA StepBalanced ==
    ASSUME BInv, [B!Next]_(B!budgetVars)
    PROVE  BInv'
<1>0. /\ held \in [Tenants -> Nat] /\ winHeld \in [Tenants -> Nat]
      /\ drawn \in [Tenants -> Nat] /\ winAdmitted \in [Tenants -> Nat]
      /\ winStart > 0 => \A u \in Tenants : winAdmitted[u] + held[u] <= winHeld[u] + drawn[u]
      /\ ~(winStart > 0) => \A u \in Tenants : drawn[u] = 0 /\ winAdmitted[u] = 0
    BY Balanced
<1>1. CASE B!Lose
  <2>1. /\ UNCHANGED (winStart > 0) /\ UNCHANGED winHeld /\ UNCHANGED drawn /\ UNCHANGED winAdmitted
        /\ held' \in [Tenants -> Nat] /\ \A t \in Tenants : held'[t] <= held[t]
      BY <1>1 DEF B!Lose, held, drawn
  <2>2. winStart > 0 => \A u \in Tenants : winAdmitted[u] + held'[u] <= winHeld[u] + drawn[u]
      BY <1>0, <2>1
  <2>3. QED
      BY <1>0, <2>1, <2>2, BalancedNext
<1>2. CASE B!Observe
  <2>1. /\ ~(winStart > 0) /\ (winStart > 0)' = TRUE
        /\ UNCHANGED drawn /\ UNCHANGED winAdmitted /\ UNCHANGED held
        /\ winHeld' = held
      BY <1>2 DEF B!Observe, held, drawn
  <2>2. \A u \in Tenants : winAdmitted[u] + held[u] <= held[u] + drawn[u]
      BY <1>0, <2>1
  <2>3. QED
      BY <1>0, <2>1, <2>2, BalancedNext
<1>3. ASSUME NEW t \in Tenants, NEW n \in 1..LeaseSize, B!Draw(t, n)
      PROVE  BInv'
    BY <1>3, DrawBalanced, RateLimiterAssumption
<1>4. ASSUME NEW t \in Tenants, NEW n \in 1..held[t], B!Spend(t, n)
      PROVE  BInv'
    BY <1>0, <1>4, SpendBalanced
<1>5. CASE UNCHANGED B!budgetVars
  <2>1. /\ UNCHANGED (winStart > 0) /\ UNCHANGED winHeld /\ UNCHANGED drawn
        /\ UNCHANGED winAdmitted /\ UNCHANGED held
      BY <1>5 DEF B!budgetVars, held, drawn
  <2>2. QED
      BY <1>0, <2>1, BalancedNext
<1>6. QED
    BY <1>1, <1>2, <1>3, <1>4, <1>5 DEF B!Next, held

\* Whatever a behaviour of Budget admits under observation was in its workers'
\* hands at first or was drawn from the coordinator's bucket since, and the
\* same tokens are not held any more.
THEOREM AlwaysBacked == B!Spec => []B!Backed
<1>1. BInv => B!Backed
    BY DEF BInv
<1>2. QED
    BY <1>1, InitBalanced, StepBalanced, PTL DEF B!Spec

\* No token is made between a bucket and an admission and none is admitted
\* twice: the whole keeps the balance because it implements Budget.
THEOREM NoTokenIsForged == Spec => []NoTokenForged
<1>1. RInv /\ B!Backed => NoTokenForged
  <2> SUFFICES ASSUME RInv, B!Backed, winStart > 0, NEW t \in Tenants
               PROVE  winAdmitted[t] + Held(t) <= winHeld[t] + winFresh[t] + winStale[t]
      BY DEF NoTokenForged
  <2>1. winAdmitted[t] + Held(t) <= winHeld[t] + (winFresh[t] + winStale[t])
      BY DEF B!Backed
  <2>2. winHeld[t] \in Nat /\ winFresh[t] \in Nat /\ winStale[t] \in Nat
      BY Types DEF LinkType, C!TypeOK
  <2>3. QED
      BY <2>1, <2>2
<1>2. QED
    BY <1>1, WholeImplementsBudget, AlwaysBacked, RateLimiterInductive, PTL DEF ImplementsBudget

-----------------------------------------------------------------------------
(***************************************************************************)
(* The bound of SystemWindowBound.  When the window opens, a renewal in    *)
(* flight stands for at most one lease, and only while its pool is below   *)
(* the reserve: so each worker can hold, or be about to receive, at most   *)
(* LeaseSize + Reserve - 1 tokens.  From then on only debits that the      *)
(* coordinator counts as fresh add to that.  A handler that had read the   *)
(* clock before the window opened debits outside winFresh; the worker that *)
(* waits for it is owed that lease from the beginning.                     *)
(***************************************************************************)

\* A handler that a worker waits for, and that has not debited yet.
Due(h, t) == peer[h] # Nil /\ handler[h].tenant = t /\ handler[h].pc = "take"

\* What the renewal r stands for at most, and what its worker's pool adds.
Claim(r, t) == IF renewer[r].pc # "idle" /\ TenantOf(r) = t THEN LeaseSize ELSE 0
Awaited(w, t) == IF pool[<<w, t>>].renewing THEN LeaseSize ELSE 0

\* A handler holds a grant for its worker, or is to debit one, not both; and
\* the renewal that waits for it carries nothing else.
LEMMA HandlerStandsFor ==
    ASSUME RInv, NEW t \in Tenants, NEW h \in Handlers, peer[h] # Nil, handler[h].tenant = t
    PROVE  /\ Answering(h, t) \in Nat /\ Answering(h, t) <= LeaseSize
           /\ handler[h].pc = "take" => Answering(h, t) = 0
           /\ peer[h] \in Renewers /\ renewer[peer[h]].pc # "idle" /\ TenantOf(peer[h]) = t
           /\ Carrying(peer[h], t) = 0
<1>1. /\ handler[h] \in C!HandlerType /\ peer[h] \in Renewers
    BY Types
<1>2. handler[h].granted \in 0..LeaseSize
    BY <1>1 DEF C!HandlerType
<1>3. /\ call[peer[h]].pc = "open" /\ handler[h].tenant = TenantOf(peer[h])
      /\ handler[h].pc = "take" => handler[h].granted = 0
    BY DEF RInv, LinkInv, Joined, PeerOK, HandlerOK
<1>4. /\ renewer[peer[h]].pc = "lease"
      /\ call[peer[h]].answer = W!NoAnswer /\ renewer[peer[h]].answer = W!NoAnswer
    BY <1>1, <1>3 DEF RInv, LinkInv, Joined, CallOK
<1>5. QED
    BY <1>1, <1>2, <1>3, <1>4, RateLimiterAssumption DEF Answering, Carrying, W!NoAnswer

\* What is with the handlers and the calls is at most one lease for each
\* renewal.
LEMMA CallsStandFor ==
    ASSUME RInv, NEW t \in Tenants, NEW owed,
           \A h \in Handlers : owed[h] = 0 \/ (Due(h, t) /\ owed[h] = LeaseSize)
    PROVE  /\ SumFunctionOnSet(owed, Handlers) \in Nat
           /\ SumFunctionOnSet(InHandlers(t), Handlers) + SumFunctionOnSet(owed, Handlers)
                + SumFunctionOnSet(InCalls(t), Renewers)
              <= SumFunctionOnSet([r \in Renewers |-> Claim(r, t)], Renewers)
<1> DEFINE f == InHandlers(t)
           c == InCalls(t)
           e == [r \in Renewers |-> Claim(r, t)]
           d == [r \in Renewers |-> e[r] - c[r]]
           a == [h \in Handlers |-> f[h] + owed[h]]
<1>0. IsFiniteSet(Handlers) /\ IsFiniteSet(Renewers) /\ LeaseSize \in Nat \ {0}
    BY RateLimiterAssumption
<1>1. /\ \A h \in Handlers : f[h] \in Nat /\ f[h] = Answering(h, t)
      /\ \A r \in Renewers : c[r] \in Nat /\ c[r] = Carrying(r, t)
      /\ \A r \in Renewers : e[r] = Claim(r, t) /\ e[r] \in Nat
      /\ \A h \in Handlers : owed[h] \in Nat
  <2>1. \A h \in Handlers : f[h] \in Nat /\ f[h] = Answering(h, t)
      BY HeldCounts DEF InHandlers
  <2>2. \A r \in Renewers : c[r] \in Nat /\ c[r] = Carrying(r, t)
      BY HeldCounts DEF InCalls
  <2>3. QED
      BY <1>0, <2>1, <2>2 DEF Claim
<1>2. \A r \in Renewers : c[r] <= e[r]
  <2> SUFFICES ASSUME NEW r \in Renewers PROVE c[r] <= e[r]
      OBVIOUS
  <2>1. CASE renewer[r].pc # "idle" /\ TenantOf(r) = t
    <3>1. \A x \in W!Answers : x.tokens \in 0..LeaseSize
        BY <1>0 DEF W!Answers
    <3>2. call[r].answer.tokens \in 0..LeaseSize /\ renewer[r].answer.tokens \in 0..LeaseSize
        BY <3>1, Types DEF CallType, W!RenewerType
    <3>3. /\ call[r].pc # "none" <=> renewer[r].pc = "lease"
          /\ call[r].pc # "replied" => call[r].answer = W!NoAnswer
          /\ renewer[r].pc # "lock" => renewer[r].answer = W!NoAnswer
        BY DEF RInv, LinkInv, Joined, CallOK
    <3>4. call[r].answer.tokens = 0 \/ renewer[r].answer.tokens = 0
        BY <3>3 DEF W!NoAnswer
    <3> HIDE DEF c, e
    <3>5. c[r] = call[r].answer.tokens + renewer[r].answer.tokens /\ e[r] = LeaseSize
        BY <1>1, <2>1 DEF Carrying, Claim
    <3>6. QED
        BY <1>0, <3>2, <3>4, <3>5
  <2>2. CASE ~(renewer[r].pc # "idle" /\ TenantOf(r) = t)
    <3> HIDE DEF c, e
    <3>1. c[r] = 0 /\ e[r] \in Nat
        BY <1>1, <2>2 DEF Carrying
    <3>2. QED
        BY <3>1
  <2>3. QED
      BY <2>1, <2>2
<1>3. \A h \in Handlers : a[h] # 0 =>
        /\ peer[h] # Nil /\ peer[h] \in Renewers
        /\ a[h] <= d[peer[h]]
  <2> SUFFICES ASSUME NEW h \in Handlers, a[h] # 0
               PROVE  /\ peer[h] # Nil /\ peer[h] \in Renewers
                      /\ a[h] <= d[peer[h]]
      OBVIOUS
  <2>1. peer[h] # Nil /\ handler[h].tenant = t
      BY <1>1 DEF Due, Answering
  <2>2. /\ Answering(h, t) \in Nat /\ Answering(h, t) <= LeaseSize
        /\ handler[h].pc = "take" => Answering(h, t) = 0
        /\ peer[h] \in Renewers /\ renewer[peer[h]].pc # "idle" /\ TenantOf(peer[h]) = t
        /\ Carrying(peer[h], t) = 0
      BY <2>1, HandlerStandsFor
  <2>3. a[h] <= LeaseSize
    <3>1. a[h] = Answering(h, t) + owed[h]
        BY <1>1
    <3> HIDE DEF a
    <3>2. QED
        BY <1>0, <2>2, <3>1 DEF Due
  <2>4. d[peer[h]] = LeaseSize
    <3>1. d[peer[h]] = Claim(peer[h], t) - Carrying(peer[h], t)
        BY <1>1, <2>2
    <3> HIDE DEF d
    <3>2. QED
        BY <1>0, <2>2, <3>1 DEF Claim
  <2>5. QED
      BY <2>1, <2>2, <2>3, <2>4
<1>4. \A h, i \in Handlers : a[h] # 0 /\ a[i] # 0 /\ peer[h] = peer[i] => h = i
  <2> HIDE DEF a, d
  <2>1. QED
      BY <1>3 DEF RInv, LinkInv, Joined
<1>5. /\ \A h \in Handlers : f[h] \in Int /\ owed[h] \in Int /\ a[h] = f[h] + owed[h]
      /\ \A r \in Renewers : d[r] \in Nat
      /\ \A r \in Renewers : c[r] \in Int /\ d[r] \in Int /\ e[r] = c[r] + d[r]
      /\ \A h \in Handlers : a[h] \in Int
  <2> DEFINE ff == f
             cc == c
             ee == e
  <2>1. /\ \A h \in Handlers : ff[h] \in Nat /\ owed[h] \in Nat /\ a[h] = ff[h] + owed[h]
        /\ \A r \in Renewers : cc[r] \in Nat /\ ee[r] \in Nat /\ cc[r] <= ee[r]
        /\ \A r \in Renewers : d[r] = ee[r] - cc[r]
      BY <1>1, <1>2
  <2> HIDE DEF a, c, d, e, f, ff, cc, ee
  <2>2. /\ \A h \in Handlers : ff[h] \in Int /\ owed[h] \in Int /\ a[h] = ff[h] + owed[h]
        /\ \A r \in Renewers : d[r] \in Nat
        /\ \A r \in Renewers : cc[r] \in Int /\ d[r] \in Int /\ ee[r] = cc[r] + d[r]
        /\ \A h \in Handlers : a[h] \in Int
      BY <2>1
  <2>3. QED
      BY <2>2 DEF ff, cc, ee
<1> HIDE DEF a, c, d, e, f
<1>6. SumFunctionOnSet(a, Handlers) <= SumFunctionOnSet(d, Renewers)
    BY <1>0, <1>3, <1>4, <1>5, SumInjects
<1>7. /\ SumFunctionOnSet(a, Handlers)
           = SumFunctionOnSet(f, Handlers) + SumFunctionOnSet(owed, Handlers)
      /\ SumFunctionOnSet(e, Renewers)
           = SumFunctionOnSet(c, Renewers) + SumFunctionOnSet(d, Renewers)
  <2>1. SumFunctionOnSet(a, Handlers)
           = SumFunctionOnSet(f, Handlers) + SumFunctionOnSet(owed, Handlers)
      BY <1>0, <1>5, SumPlus
  <2>2. SumFunctionOnSet(e, Renewers)
           = SumFunctionOnSet(c, Renewers) + SumFunctionOnSet(d, Renewers)
      BY <1>0, <1>5, SumPlus
  <2>3. QED
      BY <2>1, <2>2
<1>8. /\ SumFunctionOnSet(owed, Handlers) \in Nat /\ SumFunctionOnSet(f, Handlers) \in Nat
      /\ SumFunctionOnSet(c, Renewers) \in Nat /\ SumFunctionOnSet(d, Renewers) \in Nat
    BY <1>0, <1>1, <1>5, SumNat
<1>9. SumFunctionOnSet(f, Handlers) + SumFunctionOnSet(owed, Handlers)
        + SumFunctionOnSet(c, Renewers) <= SumFunctionOnSet(e, Renewers)
    BY <1>6, <1>7, <1>8
<1>10. QED
    BY <1>8, <1>9 DEF c, e, f

\* A renewal of t is the only one of its pool: the leases that renewals stand
\* for are at most one for each worker that waits for one.
LEMMA ClaimsAwaited ==
    ASSUME RInv, NEW t \in Tenants
    PROVE  SumFunctionOnSet([r \in Renewers |-> Claim(r, t)], Renewers)
             <= SumFunctionOnSet([w \in Workers |-> Awaited(w, t)], Workers)
<1> DEFINE f == [r \in Renewers |-> Claim(r, t)]
           g == [w \in Workers |-> Awaited(w, t)]
           m == [r \in Renewers |-> renewer[r].key[1]]
<1>0. IsFiniteSet(Workers) /\ IsFiniteSet(Renewers) /\ LeaseSize \in Nat \ {0}
    BY RateLimiterAssumption
<1>1. /\ \A r \in Renewers : f[r] \in Int
      /\ \A w \in Workers : g[w] \in Nat
    BY <1>0 DEF Claim, Awaited
<1>2. ASSUME NEW r \in Renewers, f[r] # 0
      PROVE  /\ renewer[r].pc # "idle" /\ m[r] \in Workers
             /\ renewer[r].key = <<m[r], t>> /\ f[r] <= g[m[r]]
  <2>1. renewer[r].pc # "idle" /\ TenantOf(r) = t /\ f[r] = LeaseSize
      BY <1>2 DEF Claim
  <2>2. m[r] \in Workers /\ renewer[r].key = <<m[r], t>>
      BY <2>1, TenantNamed
  <2>3. pool[renewer[r].key].renewing
      BY <2>1 DEF RInv, LP!IInv, LP!RenewerOK
  <2>4. g[m[r]] = LeaseSize
      BY <2>2, <2>3 DEF Awaited
  <2>5. QED
      BY <1>0, <2>1, <2>2, <2>4
<1>3. \A r, s \in Renewers : f[r] # 0 /\ f[s] # 0 /\ m[r] = m[s] => r = s
  <2> SUFFICES ASSUME NEW r \in Renewers, NEW s \in Renewers, f[r] # 0, f[s] # 0, m[r] = m[s]
               PROVE  r = s
      OBVIOUS
  <2>1. /\ renewer[r].pc # "idle" /\ renewer[s].pc # "idle" /\ renewer[r].key = renewer[s].key
    <3> HIDE DEF f, g, m
    <3>1. QED
        BY <1>2
  <2>2. pool[renewer[r].key].renewDone = r /\ pool[renewer[s].key].renewDone = s
      BY <2>1 DEF RInv, LP!IInv, LP!RenewerOK
  <2>3. QED
      BY <2>1, <2>2
<1>4. \A r \in Renewers : f[r] # 0 => m[r] \in Workers /\ f[r] <= g[m[r]]
  <2> HIDE DEF f, g, m
  <2>1. QED
      BY <1>2
<1> HIDE DEF f, g, m
<1>5. SumFunctionOnSet(f, Renewers) <= SumFunctionOnSet(g, Workers)
    BY <1>0, <1>1, <1>3, <1>4, SumInjects
<1>6. QED
    BY <1>5 DEF f, g

\* A worker that waits for a lease of t is below its reserve, so what it holds
\* and awaits is at most LeaseSize + Reserve - 1.
LEMMA PoolsWithin ==
    ASSUME RInv, NEW t \in Tenants
    PROVE  /\ Slack \in Nat
           /\ SumFunctionOnSet(InPools(t), Workers)
                + SumFunctionOnSet([w \in Workers |-> Awaited(w, t)], Workers) <= Slack
<1> DEFINE f == InPools(t)
           g == [w \in Workers |-> Awaited(w, t)]
           h == [w \in Workers |-> f[w] + g[w]]
           bound == LeaseSize + W!Reserve - 1
<1>0. IsFiniteSet(Workers) /\ LeaseSize \in Nat \ {0}
    BY RateLimiterAssumption
<1>1. W!Reserve \in Nat \ {0}
  <2>1. LeaseSize \div 5 \in Nat /\ MaxCost \in Nat \ {0}
      BY RateLimiterAssumption
  <2>2. QED
      BY <2>1 DEF W!Reserve, W!Watermark
<1>2. \A w \in Workers : /\ f[w] \in Nat /\ g[w] \in Nat /\ f[w] + g[w] <= bound
  <2> SUFFICES ASSUME NEW w \in Workers
               PROVE  f[w] \in Nat /\ g[w] \in Nat /\ f[w] + g[w] <= bound
      OBVIOUS
  <2>1. <<w, t>> \in W!Keys /\ pool[<<w, t>>].tokens \in Nat
      BY PoolCounts
  <2>2. <<w, t>> \in LP!Keys
      BY <2>1 DEF LP!Keys, W!Keys
  <2>3. LP!GoodPool(pool[<<w, t>>], clock)
      BY <2>2 DEF RInv, LP!IInv
  <2>4. /\ pool[<<w, t>>].tokens <= bound
        /\ pool[<<w, t>>].renewing => pool[<<w, t>>].tokens <= W!Reserve - 1
      BY <2>3, SameWorkers DEF LP!GoodPool
  <2>5. f[w] = pool[<<w, t>>].tokens /\ g[w] = Awaited(w, t)
      BY DEF InPools
  <2> HIDE DEF f, g
  <2>6. QED
      BY <1>0, <1>1, <2>1, <2>4, <2>5 DEF Awaited
<1>3. bound \in Nat
    BY <1>0, <1>1
<1>4. \A w \in Workers : /\ f[w] \in Int /\ g[w] \in Int
                         /\ h[w] = f[w] + g[w] /\ h[w] \in Int /\ h[w] <= bound
  <2> HIDE DEF f, g, bound
  <2>1. QED
      BY <1>2
<1> HIDE DEF f, g, h
<1>5. SumFunctionOnSet(h, Workers) = SumFunctionOnSet(f, Workers) + SumFunctionOnSet(g, Workers)
    BY <1>0, <1>4, SumPlus
<1>6. SumFunctionOnSet(h, Workers) <= Cardinality(Workers) * bound
  <2> HIDE DEF bound
  <2>1. QED
      BY <1>0, <1>3, <1>4, SumAtMost
<1>7. Slack \in Nat
    BY <1>0, <1>3, FS_CardinalityType, ProductNat DEF Slack
<1>8. QED
    BY <1>5, <1>6, <1>7 DEF Slack, f, g

\* When a window opens at the present clock, what workers hold, or are owed by
\* handlers that have read the clock, is within the slack.
LEMMA OpensWithin ==
    ASSUME RInv, NEW t \in Tenants, NEW owed,
           \A h \in Handlers : owed[h] = 0 \/ (Due(h, t) /\ owed[h] = LeaseSize)
    PROVE  Held(t) + SumFunctionOnSet(owed, Handlers) <= Slack
<1> DEFINE f == SumFunctionOnSet(InPools(t), Workers)
           g == SumFunctionOnSet(InHandlers(t), Handlers)
           c == SumFunctionOnSet(InCalls(t), Renewers)
           o == SumFunctionOnSet(owed, Handlers)
           e == SumFunctionOnSet([r \in Renewers |-> Claim(r, t)], Renewers)
           a == SumFunctionOnSet([w \in Workers |-> Awaited(w, t)], Workers)
<1>1. f \in Nat /\ g \in Nat /\ c \in Nat /\ Held(t) = f + g + c
    BY HeldCounts
<1>2. o \in Nat /\ g + o + c <= e
    BY CallsStandFor
<1>3. e <= a
    BY ClaimsAwaited
<1>4. Slack \in Nat /\ f + a <= Slack
    BY PoolsWithin
<1>5. e \in Nat /\ a \in Nat
  <2>1. /\ \A r \in Renewers : [s \in Renewers |-> Claim(s, t)][r] \in Nat
        /\ \A w \in Workers : [v \in Workers |-> Awaited(v, t)][w] \in Nat
      BY RateLimiterAssumption DEF Claim, Awaited
  <2>2. QED
      BY <2>1, SumNat, RateLimiterAssumption
<1> HIDE DEF f, g, c, o, e, a
<1>6. Held(t) + o <= Slack
    BY <1>1, <1>2, <1>3, <1>4, <1>5
<1>7. QED
    BY <1>6 DEF o

-----------------------------------------------------------------------------
(* The window, step by step *)

\* A handler that starts in the window has read the clock in it, and one that
\* debits, answers or loses its worker is owed for no more: only the opening
\* of the window makes a worker one to be owed.
LEMMA OwedFalls ==
    ASSUME RInv, [Next]_vars, winStart' = winStart
    PROVE  \A h \in Handlers, t \in Tenants :
             Owed(h, t)' \in {0, LeaseSize} /\ (Owed(h, t)' # 0 => Owed(h, t)' = Owed(h, t))
<1> SUFFICES ASSUME NEW h \in Handlers, NEW t \in Tenants
             PROVE  /\ Owed(h, t)' \in {0, LeaseSize}
                    /\ Owed(h, t)' # 0 => Owed(h, t)' = Owed(h, t)
    OBVIOUS
<1> DEFINE Falls == Owed(h, t)' # 0 => Owed(h, t)' = Owed(h, t)
<1>0. /\ winStart <= clock /\ winStart \in Nat /\ clock \in Nat
      /\ handler \in [Handlers -> C!HandlerType] /\ handler[h] \in C!HandlerType
      /\ peer \in [Handlers -> Renewers \cup {Nil}]
    BY Types DEF RInv, CP!IInv, C!TypeOK
<1>1. ASSUME handler'[h] = handler[h], peer'[h] \in {Nil, peer[h]} PROVE Falls
    BY <1>1 DEF Owed
<1>2. ASSUME handler'[h].pc # "take" \/ ~(handler'[h].now < winStart) PROVE Falls
    BY <1>2 DEF Owed
<1>3. ASSUME NEW i \in Handlers, NEW u, C!HandleLease(i, u), peer'[h] = peer[h] \/ h = i
      PROVE  Falls
  <2>1. CASE h = i
    <3>1. handler'[h].now = clock
        BY <1>0, <1>3, <2>1 DEF C!HandleLease, C!HandlerType
    <3>2. QED
        BY <1>0, <1>2, <3>1
  <2>2. CASE h # i
    <3>1. handler'[h] = handler[h]
        BY <1>0, <1>3, <2>2 DEF C!HandleLease
    <3>2. QED
        BY <1>1, <1>3, <2>2, <3>1
  <2>3. QED
      BY <2>1, <2>2
<1>4. ASSUME NEW i \in Handlers, peer'[h] = peer[h] \/ h = i,
             handler'[i].pc # "take", h # i => handler'[h] = handler[h]
      PROVE  Falls
  <2>1. CASE h = i
      BY <1>2, <1>4, <2>1
  <2>2. CASE h # i
      BY <1>1, <1>4, <2>2
  <2>3. QED
      BY <2>1, <2>2
<1>5. ASSUME NEW i \in Handlers, Handle(i) PROVE Falls
  <2>1. UNCHANGED peer
      BY <1>5 DEF Handle, linkVars
  <2>2. handler[i] \in C!HandlerType
      BY <1>0
  <2>3. handler'[i].pc # "take" /\ (h # i => handler'[h] = handler[h])
    <3>1. CASE C!TakeUpTo(i)
      <4>1. PICK g : handler' = [handler EXCEPT ![i] = [handler[i] EXCEPT
                       !.granted = g, !.pc = IF g = 0 THEN "zero" ELSE "grant"]]
          BY <3>1 DEF C!TakeUpTo
      <4>2. QED
          BY <1>0, <2>2, <4>1 DEF C!HandlerType
    <3>2. CASE C!ZeroGrant(i)
      <4>1. PICK a : handler' = [handler EXCEPT ![i] = [handler[i] EXCEPT
                       !.retryAfter = a, !.pc = "reply"]]
          BY <3>2 DEF C!ZeroGrant
      <4>2. QED
          BY <1>0, <2>2, <4>1 DEF C!HandlerType
    <3>3. CASE C!CountZero(i) \/ C!CountGrant(i)
        BY <1>0, <2>2, <3>3 DEF C!CountZero, C!CountGrant, C!HandlerType
    <3>4. QED
        BY <1>5, <3>1, <3>2, <3>3 DEF Handle
  <2>4. QED
      BY <1>4, <2>1, <2>3
<1>6. ASSUME NEW i \in Handlers, Respond(i) PROVE Falls
  <2>1. handler'[i].pc # "take" /\ (h # i => handler'[h] = handler[h])
      BY <1>0, <1>6 DEF Respond, C!Reply, C!Idle
  <2>2. peer'[h] = peer[h] \/ h = i
      BY <1>0, <1>6 DEF Respond
  <2>3. QED
      BY <1>4, <2>1, <2>2
<1>7. ASSUME NEW i \in Handlers, NEW r \in Renewers, Receive(i, r) PROVE Falls
  <2>1. peer'[h] = peer[h] \/ h = i
      BY <1>0, <1>7 DEF Receive
  <2>2. ASSUME C!RefuseLease(i, TenantOf(r)) PROVE Falls
    <3>1. handler[i] \in C!HandlerType
        BY <1>0
    <3>2. handler'[i].pc # "take" /\ (h # i => handler'[h] = handler[h])
        BY <1>0, <2>2, <3>1 DEF C!RefuseLease, C!HandlerType
    <3>3. QED
        BY <1>4, <2>1, <3>2
  <2>3. QED
      BY <1>3, <1>7, <2>1, <2>2 DEF Receive
<1>8. ASSUME NEW i \in Handlers, NEW u \in Tenants, ReceiveLate(i, u) PROVE Falls
  <2>1. C!HandleLease(i, u) /\ peer' = peer
      BY <1>8 DEF ReceiveLate
  <2>2. QED
      BY <1>3, <2>1
<1>9. ASSUME KillCoordinator PROVE Falls
    BY <1>9 DEF KillCoordinator, Owed
<1>10. ASSUME NEW r \in Renewers, GiveUp(r) PROVE Falls
  <2>1. UNCHANGED handler /\ peer'[h] \in {Nil, peer[h]}
      BY <1>0, <1>10 DEF GiveUp, coordVars
  <2>2. QED
      BY <1>1, <2>1
<1>11. ASSUME NEW w \in Workers, KillWorker(w) PROVE Falls
  <2>1. UNCHANGED handler /\ peer'[h] \in {Nil, peer[h]}
      BY <1>0, <1>11 DEF KillWorker, coordVars
  <2>2. QED
      BY <1>1, <2>1
<1>12. ASSUME UNCHANGED <<handler, peer>> PROVE Falls
    BY <1>1, <1>12
<1>13. \/ UNCHANGED <<handler, peer>> \/ KillCoordinator
       \/ \E i \in Handlers : Handle(i) \/ Respond(i)
       \/ \E i \in Handlers, r \in Renewers : Receive(i, r)
       \/ \E i \in Handlers, u \in Tenants : ReceiveLate(i, u)
       \/ \E r \in Renewers : GiveUp(r)
       \/ \E w \in Workers : KillWorker(w)
    BY DEF Next, vars, coordVars, linkVars, Arrive, Decide, Send, Deliver, Finish,
           StartCoordinator, Tick, OpenWindow, C!Start, C!Tick, C!OpenWindow
<1> HIDE DEF Falls
<1>14. Falls
    BY <1>5, <1>6, <1>7, <1>8, <1>9, <1>10, <1>11, <1>12, <1>13
<1>15. QED
    BY <1>14 DEF Falls, Owed

\* What handlers owe, as sums.
OwedBy(t) == [h \in Handlers |-> Owed(h, t)]

\* In a window they only fall, and by all of a handler that owes no more.
LEMMA OwedSums ==
    ASSUME RInv, [Next]_vars, winStart' = winStart, NEW t \in Tenants
    PROVE  /\ SumFunctionOnSet(OwedBy(t), Handlers) \in Nat
           /\ SumFunctionOnSet(OwedBy(t)', Handlers) \in Nat
           /\ SumFunctionOnSet(OwedBy(t)', Handlers) <= SumFunctionOnSet(OwedBy(t), Handlers)
           /\ \A h \in Handlers : Owed(h, t)' = 0 =>
                SumFunctionOnSet(OwedBy(t)', Handlers) + Owed(h, t)
                  <= SumFunctionOnSet(OwedBy(t), Handlers)
<1>1. PICK f, g : f = OwedBy(t) /\ g = OwedBy(t)'
    OBVIOUS
<1>2. IsFiniteSet(Handlers) /\ LeaseSize \in Nat \ {0}
    BY RateLimiterAssumption
<1>3. \A h \in Handlers : /\ f[h] = Owed(h, t) /\ g[h] = Owed(h, t)'
                          /\ f[h] \in {0, LeaseSize} /\ g[h] \in {0, LeaseSize}
                          /\ g[h] # 0 => g[h] = f[h]
  <2>1. \A h \in Handlers : f[h] = Owed(h, t) /\ g[h] = Owed(h, t)'
      BY <1>1 DEF OwedBy
  <2>2. QED
      BY <2>1, OwedFalls DEF Owed
<1>4. /\ \A h \in Handlers : f[h] \in Nat
      /\ \A h \in Handlers : g[h] \in Nat
      /\ \A h \in Handlers : g[h] \in Int /\ f[h] \in Int /\ g[h] <= f[h]
    BY <1>2, <1>3
<1>5. SumFunctionOnSet(f, Handlers) \in Nat /\ SumFunctionOnSet(g, Handlers) \in Nat
    BY <1>2, <1>4, SumNat
<1>6. SumFunctionOnSet(g, Handlers) <= SumFunctionOnSet(f, Handlers)
    BY <1>2, <1>4, SumMonotone
<1>7. ASSUME NEW h \in Handlers, g[h] = 0
      PROVE  SumFunctionOnSet(g, Handlers) + f[h] <= SumFunctionOnSet(f, Handlers)
  <2> DEFINE R == Handlers \ {h}
  <2>1. IsFiniteSet(R) /\ \A i \in R : g[i] \in Int /\ f[i] \in Int /\ g[i] <= f[i]
      BY <1>2, <1>4, FS_RemoveElement
  <2>2. /\ SumFunctionOnSet(f, Handlers) = f[h] + SumFunctionOnSet(f, R)
        /\ SumFunctionOnSet(g, Handlers) = g[h] + SumFunctionOnSet(g, R)
      BY <1>2, <1>4, SumRemove
  <2> HIDE DEF R
  <2>3. SumFunctionOnSet(g, R) <= SumFunctionOnSet(f, R)
      BY <2>1, SumMonotone
  <2>4. SumFunctionOnSet(g, R) \in Int /\ SumFunctionOnSet(f, R) \in Int
      BY <2>1, SumInt
  <2>5. QED
      BY <1>4, <1>7, <2>2, <2>3, <2>4
<1>8. QED
    BY <1>1, <1>3, <1>5, <1>6, <1>7

\* The sums and counters of DebtInv are natural numbers.
LEMMA DebtTypes ==
    ASSUME RInv, [Next]_vars, NEW t \in Tenants
    PROVE  /\ Held(t) \in Nat /\ Held(t)' \in Nat /\ Slack \in Nat
           /\ winAdmitted[t] \in Nat /\ winFresh[t] \in Nat /\ winStart \in Nat
           /\ winAdmitted \in [Tenants -> Nat] /\ winFresh \in [Tenants -> Nat]
<1>1. Held(t) \in Nat /\ Held(t)' \in Nat
    BY HeldCounts, HeldCountsNext
<1>2. Slack \in Nat
    BY PoolsWithin
<1>3. /\ winAdmitted \in [Tenants -> Nat] /\ winFresh \in [Tenants -> Nat] /\ winStart \in Nat
    BY Types DEF LinkType, C!TypeOK
<1>4. QED
    BY <1>1, <1>2, <1>3

\* Inside a window, a step of the window's bound for one tenant.
Debt(t) == winAdmitted[t] + Held(t) + SumFunctionOnSet(OwedBy(t), Handlers)
             <= winFresh[t] + Slack

\* A debit: of a fresh grant on both sides, of a stale one against what its
\* handler owed.
LEMMA DebitKeepsDebt ==
    ASSUME RInv, [Next]_vars, winStart > 0,
           NEW h \in Handlers, Handle(h), C!TakeUpTo(h), NEW u \in Tenants, Debt(u)
    PROVE  Debt(u)'
<1>1. PICK t \in Tenants, g \in 0..LeaseSize :
        /\ t = handler[h].tenant
        /\ IF u = t /\ peer[h] # Nil THEN Held(u)' = Held(u) + g ELSE Held(u)' = Held(u)
        /\ UNCHANGED <<winStart, winAdmitted>>
        /\ winFresh' = IF winStart > 0 /\ handler[h].now >= winStart
                       THEN [winFresh EXCEPT ![t] = @ + g] ELSE winFresh
    BY TakeUpToHolds
<1>2. /\ Held(u) \in Nat /\ Held(u)' \in Nat /\ Slack \in Nat /\ winAdmitted[u] \in Nat
      /\ winFresh \in [Tenants -> Nat] /\ winFresh[u] \in Nat /\ winStart \in Nat
    BY DebtTypes
<1>3. /\ SumFunctionOnSet(OwedBy(u), Handlers) \in Nat
      /\ SumFunctionOnSet(OwedBy(u)', Handlers) \in Nat
      /\ SumFunctionOnSet(OwedBy(u)', Handlers) <= SumFunctionOnSet(OwedBy(u), Handlers)
      /\ Owed(h, u)' = 0 =>
           SumFunctionOnSet(OwedBy(u)', Handlers) + Owed(h, u)
             <= SumFunctionOnSet(OwedBy(u), Handlers)
    BY <1>1, OwedSums
<1>4. /\ g \in Nat /\ g <= LeaseSize /\ LeaseSize \in Nat
      /\ handler[h].pc = "take" /\ handler[h].now \in Nat
    BY <1>1, Types, RateLimiterAssumption DEF C!TakeUpTo, C!HandlerType
<1>5. /\ winAdmitted'[u] = winAdmitted[u] /\ winFresh'[u] \in Nat /\ winFresh'[u] >= winFresh[u]
      /\ u = t /\ handler[h].now >= winStart => winFresh'[u] = winFresh[u] + g
    BY <1>1, <1>2, <1>4
<1>6. CASE ~(u = t /\ peer[h] # Nil)
    BY <1>1, <1>2, <1>3, <1>5, <1>6 DEF Debt
<1>7. CASE u = t /\ peer[h] # Nil /\ handler[h].now >= winStart
    BY <1>1, <1>2, <1>3, <1>4, <1>5, <1>7 DEF Debt
<1>8. CASE u = t /\ peer[h] # Nil /\ ~(handler[h].now >= winStart)
  <2>1. Owed(h, u) = LeaseSize
      BY <1>1, <1>2, <1>4, <1>8 DEF Owed
  <2>2. handler'[h].pc # "take"
    <3>1. PICK n : handler' = [handler EXCEPT ![h] = [handler[h] EXCEPT
                     !.granted = n, !.pc = IF n = 0 THEN "zero" ELSE "grant"]]
        BY DEF C!TakeUpTo
    <3>2. handler \in [Handlers -> C!HandlerType] /\ handler[h] \in C!HandlerType
        BY Types
    <3>3. QED
        BY <3>1, <3>2 DEF C!HandlerType
  <2>3. Owed(h, u)' = 0
      BY <2>2 DEF Owed
  <2>4. SumFunctionOnSet(OwedBy(u)', Handlers) + LeaseSize <= SumFunctionOnSet(OwedBy(u), Handlers)
      BY <1>3, <2>1, <2>3
  <2>5. Held(u)' = Held(u) + g
      BY <1>1, <1>8
  <2>6. QED
      BY <1>2, <1>3, <1>4, <1>5, <2>4, <2>5 DEF Debt
<1>9. QED
    BY <1>6, <1>7, <1>8

\* An admission moves what was held to what was admitted.
LEMMA AdmissionKeepsDebt ==
    ASSUME RInv, [Next]_vars, winStart > 0,
           NEW q \in Requests, Decide(q), Admission(q), NEW u \in Tenants, Debt(u)
    PROVE  Debt(u)'
<1>1. /\ req[q].cost \in Nat \ {0} /\ req[q].key \in W!Keys
      /\ IF u = req[q].key[2] THEN Held(u)' = Held(u) - req[q].cost ELSE Held(u)' = Held(u)
    BY AdmissionHolds
<1>2. /\ Held(u) \in Nat /\ Held(u)' \in Nat /\ Slack \in Nat
      /\ winAdmitted \in [Tenants -> Nat] /\ winAdmitted[u] \in Nat /\ winFresh[u] \in Nat
    BY DebtTypes
<1>3. winStart' = winStart /\ winFresh' = winFresh
    BY DEF Decide, coordVars
<1>4. /\ SumFunctionOnSet(OwedBy(u), Handlers) \in Nat
      /\ SumFunctionOnSet(OwedBy(u)', Handlers) \in Nat
      /\ SumFunctionOnSet(OwedBy(u)', Handlers) <= SumFunctionOnSet(OwedBy(u), Handlers)
    BY <1>3, OwedSums
<1>5. winAdmitted' = IF req[q].key[2] \in Tenants
                     THEN [winAdmitted EXCEPT ![req[q].key[2]] = @ + req[q].cost]
                     ELSE winAdmitted
    BY DEF Decide, Admission
<1>6. winAdmitted'[u] + Held(u)' = winAdmitted[u] + Held(u)
  <2>1. CASE u = req[q].key[2]
    <3>1. winAdmitted'[u] = winAdmitted[u] + req[q].cost
        BY <1>2, <1>5, <2>1
    <3>2. QED
        BY <1>1, <1>2, <2>1, <3>1
  <2>2. CASE u # req[q].key[2]
    <3>1. winAdmitted'[u] = winAdmitted[u]
        BY <1>2, <1>5, <2>2
    <3>2. QED
        BY <1>1, <2>2, <3>1
  <2>3. QED
      BY <2>1, <2>2
<1>7. winAdmitted'[u] \in Nat
  <2>1. CASE u = req[q].key[2]
      BY <1>1, <1>2, <1>5, <2>1
  <2>2. CASE u # req[q].key[2]
      BY <1>1, <1>2, <1>5, <2>2
  <2>3. QED
      BY <2>1, <2>2
<1>8. QED
    BY <1>2, <1>3, <1>4, <1>6, <1>7 DEF Debt

\* Every other step leaves the counters alone and lets nobody hold more.
LEMMA OthersKeepDebt ==
    ASSUME RInv, [Next]_vars, winStart > 0,
           ~\E h \in Handlers : Handle(h) /\ C!TakeUpTo(h),
           ~\E q \in Requests : Decide(q) /\ Admission(q),
           NEW u \in Tenants, Debt(u)
    PROVE  Debt(u)'
<1>1. ~OpenWindow
    BY DEF OpenWindow, C!OpenWindow
<1>2. UNCHANGED Noted /\ Held(u)' <= Held(u)
    BY <1>1, OtherSteps
<1>3. winStart' = winStart /\ winFresh' = winFresh /\ winAdmitted' = winAdmitted
    BY <1>2 DEF Noted
<1>4. /\ SumFunctionOnSet(OwedBy(u), Handlers) \in Nat
      /\ SumFunctionOnSet(OwedBy(u)', Handlers) \in Nat
      /\ SumFunctionOnSet(OwedBy(u)', Handlers) <= SumFunctionOnSet(OwedBy(u), Handlers)
    BY <1>3, OwedSums
<1>5. /\ Held(u) \in Nat /\ Held(u)' \in Nat /\ Slack \in Nat
      /\ winAdmitted[u] \in Nat /\ winFresh[u] \in Nat
    BY DebtTypes
<1>6. QED
    BY <1>2, <1>3, <1>4, <1>5 DEF Debt

\* The window opens within the slack.
LEMMA OpeningKeepsDebt ==
    ASSUME RInv, [Next]_vars, OpenWindow, NEW u \in Tenants, winAdmitted[u] = 0
    PROVE  Debt(u)'
<1>1. PICK owed : owed = OwedBy(u)'
    OBVIOUS
<1>2. /\ UNCHANGED <<pool, renewer, handler, call, peer>>
      /\ winAdmitted' = winAdmitted /\ winFresh' = winFresh
    BY DEF OpenWindow, C!OpenWindow, workVars, linkVars
<1>3. ASSUME NEW h \in Handlers
      PROVE  owed[h] = 0 \/ (Due(h, u) /\ owed[h] = LeaseSize)
  <2>1. owed[h] = Owed(h, u)'
      BY <1>1 DEF OwedBy
  <2>2. QED
      BY <1>2, <2>1 DEF Owed, Due
<1>4. Held(u) + SumFunctionOnSet(owed, Handlers) <= Slack /\ SumFunctionOnSet(owed, Handlers) \in Nat
    BY <1>3, OpensWithin, CallsStandFor
<1>5. Held(u)' = Held(u)
    BY <1>2, NothingHeldChanges
<1>6. Held(u) \in Nat /\ Slack \in Nat /\ winFresh[u] \in Nat
    BY DebtTypes
<1>7. QED
    BY <1>1, <1>2, <1>4, <1>5, <1>6 DEF Debt

\* Every step keeps the bound.
LEMMA DebtKept ==
    ASSUME RInv, DebtInv, [Next]_vars
    PROVE  DebtInv'
<1>1. \A t \in Tenants : IF winStart = 0 THEN winAdmitted[t] = 0 ELSE Debt(t)
    BY DEF DebtInv, Debt, OwedBy
<1>2. winStart \in Nat
    BY Types DEF C!TypeOK
<1>3. ASSUME NEW t \in Tenants
      PROVE  IF winStart' = 0 THEN winAdmitted'[t] = 0 ELSE Debt(t)'
  <2>1. CASE winStart > 0
    <3>1. Debt(t)
        BY <1>1, <2>1
    <3>2. Debt(t)'
        BY <2>1, <3>1, DebitKeepsDebt, AdmissionKeepsDebt, OthersKeepDebt
    <3>3. winStart' = winStart
      <4>1. ~OpenWindow
          BY <2>1 DEF OpenWindow, C!OpenWindow
      <4>2. ASSUME NEW h \in Handlers, Handle(h), C!TakeUpTo(h) PROVE winStart' = winStart
          BY <4>2 DEF C!TakeUpTo
      <4>3. ASSUME NEW q \in Requests, Decide(q) PROVE winStart' = winStart
          BY <4>3 DEF Decide, coordVars
      <4>4. QED
          BY <4>1, <4>2, <4>3, OtherSteps DEF Noted
    <3>4. QED
        BY <2>1, <3>2, <3>3
  <2>2. CASE winStart = 0 /\ OpenWindow
    <3>1. winAdmitted[t] = 0
        BY <1>1, <2>2
    <3>2. winStart' # 0
        BY <2>2 DEF OpenWindow, C!OpenWindow, RInv
    <3>3. QED
        BY <2>2, <3>1, <3>2, OpeningKeepsDebt
  <2>3. CASE winStart = 0 /\ ~OpenWindow
    <3>1. winStart' = winStart /\ winAdmitted' = winAdmitted
      <4>1. ASSUME NEW h \in Handlers, Handle(h), C!TakeUpTo(h)
            PROVE  winStart' = winStart /\ winAdmitted' = winAdmitted
          BY <4>1 DEF Handle, C!TakeUpTo, histVars
      <4>2. ASSUME NEW q \in Requests, Decide(q)
            PROVE  winStart' = winStart /\ winAdmitted' = winAdmitted
          BY <2>3, <4>2 DEF Decide, coordVars
      <4>3. QED
          BY <2>3, <4>1, <4>2, OtherSteps DEF Noted
    <3>2. QED
        BY <1>1, <2>3, <3>1
  <2>4. QED
      BY <1>2, <2>1, <2>2, <2>3
<1>4. QED
    BY <1>3 DEF DebtInv, Debt, OwedBy

\* Nothing is admitted before the window opens, and nothing is held.
LEMMA DebtInitially ==
    ASSUME Init
    PROVE  DebtInv
    BY DEF Init, C!Init, DebtInv

\* In every reachable state, what was admitted in the window, what workers can
\* still admit and what handlers of before it owe them is within the grants of
\* the window and the slack.
THEOREM WindowDebtInductive == Spec => []DebtInv
    BY DebtInitially, DebtKept, RateLimiterInductive, PTL DEF Spec

\* A bound of tokens is a bound of their fractions.
LEMMA Fractions ==
    ASSUME NEW a \in Nat, NEW b \in Nat, NEW c \in Nat, a <= b + c, NEW unit \in Nat
    PROVE  a * unit <= b * unit + c * unit
<1>1. \A m, n \in Nat : m * unit <= (m + n) * unit /\ (m + n) * unit = m * unit + n * unit
  <2> SUFFICES ASSUME NEW m \in Nat, NEW n \in Nat
               PROVE  m * unit <= (m + n) * unit /\ (m + n) * unit = m * unit + n * unit
      OBVIOUS
  <2>1. (m + n) * unit = m * unit + n * unit
      OBVIOUS
  <2>2. m * unit \in Nat /\ n * unit \in Nat
      BY ProductNat
  <2>3. QED
      BY <2>1, <2>2
<1>2. PICK d \in Nat : b + c = a + d
  <2>1. (b + c) - a \in Nat /\ b + c = a + ((b + c) - a)
      OBVIOUS
  <2>2. QED
      BY <2>1
<1>3. a * unit <= (a + d) * unit /\ (b + c) * unit = b * unit + c * unit
    BY <1>1
<1>4. QED
    BY <1>2, <1>3

\* The coordinator's own bound, of Coordinator, holds in the whole.
LEMMA FreshBounded == Spec => []C!WindowBound
<1>1. Init => CP!Init
    BY SameCoordinator DEF Init
<1>2. RInv /\ [Next]_vars => [CP!Next]_(CP!vars)
    BY CoordinatorStep, SameCoordinator
<1>3. Spec => CP!Spec
    BY <1>1, <1>2, RateLimiterInductive, PTL DEF Spec, CP!Spec
<1>4. CP!Spec => []CP!WindowBound
    BY CP!WindowGuaranteed, CoordinatorGrounded
<1>5. CP!WindowBound => C!WindowBound
    BY SameCoordinator
<1>6. QED
    BY <1>3, <1>4, <1>5, PTL

\* The guarantee of the whole system: over any window, whatever is lost, late,
\* stale or killed, what any number of workers admit for a tenant is at most its
\* rate * window, one burst per start of the coordinator, and what each worker
\* could hold or await when the window opened.
THEOREM SystemWindowGuaranteed == Spec => []SystemWindowBound
<1>1. RInv /\ DebtInv /\ C!WindowBound => SystemWindowBound
  <2> SUFFICES ASSUME RInv, DebtInv, C!WindowBound, winStart > 0, NEW t \in Tenants
               PROVE  winAdmitted[t] * Unit
                        <= C!Allowance(t, winStart, clock, winStarts)
                             + Cardinality(Workers) * (LeaseSize + W!Reserve - 1) * Unit
      BY DEF SystemWindowBound
  <2> DEFINE allowance == C!Allowance(t, winStart, clock, winStarts)
             owed == SumFunctionOnSet(OwedBy(t), Handlers)
  <2>1. /\ winAdmitted[t] \in Nat /\ winFresh[t] \in Nat /\ Slack \in Nat /\ Held(t) \in Nat
        /\ winStart \in Nat /\ clock \in Nat /\ winStarts \in Nat
      BY PoolsWithin, HeldCounts, Types DEF LinkType, C!TypeOK
  <2>2. owed \in Nat
    <3>1. \A h \in Handlers : OwedBy(t)[h] \in Nat
        BY RateLimiterAssumption DEF OwedBy, Owed
    <3>2. QED
        BY <3>1, SumNat, RateLimiterAssumption
  <2>3. winAdmitted[t] + Held(t) + owed <= winFresh[t] + Slack
      BY <2>1 DEF DebtInv, OwedBy
  <2>4. winFresh[t] * Unit <= allowance
      BY DEF C!WindowBound
  <2>5. allowance \in Int
    <3>1. Rate[t] \in Int /\ Second \in Int
        BY RateLimiterAssumption
    <3>2. clock - winStart \in Int /\ 1 + winStarts \in Int /\ Rate[t] * Second \in Int
        BY <2>1, <3>1
    <3>3. \A a, b \in Int : a * b \in Int
        OBVIOUS
    <3>4. QED
        BY <3>1, <3>2, <3>3 DEF C!Allowance, C!Cap
  <2> HIDE DEF allowance, owed
  <2>6. winAdmitted[t] <= winFresh[t] + Slack
      BY <2>1, <2>2, <2>3
  <2>7. Unit \in Nat
      BY RateLimiterAssumption
  <2>8. winAdmitted[t] * Unit <= winFresh[t] * Unit + Slack * Unit
      BY <2>1, <2>6, <2>7, Fractions
  <2>9. /\ winAdmitted[t] * Unit \in Nat /\ winFresh[t] * Unit \in Nat /\ Slack * Unit \in Nat
      BY <2>1, <2>7, ProductNat
  <2>10. winAdmitted[t] * Unit <= allowance + Slack * Unit
      BY <2>4, <2>5, <2>8, <2>9
  <2>11. QED
      BY <2>10 DEF allowance, Slack
<1>2. QED
    BY <1>1, RateLimiterInductive, WindowDebtInductive, FreshBounded, PTL
=============================================================================
