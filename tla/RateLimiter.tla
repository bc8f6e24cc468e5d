---------------------------- MODULE RateLimiter -----------------------------
(***************************************************************************)
(* The whole rate limiter: the workers of Limiter and the coordinator of   *)
(* Coordinator on one clock, joined by the HTTP call of httpLeaser.Lease.  *)
(* A request may be slow or never arrive, a reply may be slow, and a       *)
(* worker may give up on a call at any moment (its own timeout, a refused  *)
(* or a broken connection).  A request given up on may still arrive: the   *)
(* coordinator then debits a grant that nobody will receive.  Both kinds   *)
(* of process are killed and started again.                                *)
(*                                                                         *)
(* The observation window of Coordinator is extended with what workers     *)
(* admit inside it (winAdmitted) and with what they held or were about to  *)
(* receive when it opened (winHeld).                                       *)
(***************************************************************************)
EXTENDS Integers, FiniteSets, Functions

CONSTANTS
    Unit, Ms, Rate, Second, LeaseTTL, MinTTL, LeaseSize,    \* configuration
    Tenants, Strangers, Malformed,                          \* names in requests
    Workers, Requests, Renewers, Handlers,                  \* processes, goroutines
    Nil, Closed, Costs, MaxCost, WaitForLease, MinRetryAfter,
    BackoffMin, BackoffMax, UnknownTTL,
    MaxClock, MaxCalls, MaxStarts,                          \* bounds
    MaxKills,   \* bound: workers killed in a behaviour
    MaxLate     \* bound: requests on the wire that their worker gave up on

\* What Coordinator and Limiter assume, with Names for the tenants of the
\* workers, and that there are finitely many processes and goroutines.
ASSUME RateLimiterAssumption ==
    /\ Unit \in Nat \ {0} /\ Ms \in Nat \ {0} /\ Second \in Nat \ {0}
    /\ Rate \in [Tenants -> Nat \ {0}] /\ Tenants # {}
    /\ LeaseSize \in Nat \ {0} /\ LeaseTTL \in Nat \ {0} /\ MinTTL \in Nat /\ LeaseTTL >= MinTTL
    /\ Strangers \cap Tenants = {} /\ Malformed \notin Tenants \cup Strangers
    /\ IsFiniteSet(Tenants) /\ IsFiniteSet(Workers) /\ IsFiniteSet(Requests)
    /\ IsFiniteSet(Renewers) /\ IsFiniteSet(Handlers)
    /\ {Nil, Closed} \cap Renewers = {} /\ Nil # Closed
    /\ MaxCost \in Nat \ {0} /\ Costs \subseteq 0..MaxCost
    /\ WaitForLease \in Nat /\ MinRetryAfter \in Nat \ {0} /\ UnknownTTL \in Nat \ {0}
    /\ BackoffMin \in Nat \ {0} /\ BackoffMax \in Nat /\ BackoffMin <= BackoffMax
    /\ MaxClock \in Nat \ {0} /\ MaxCalls \in Nat /\ MaxStarts \in Nat
    /\ MaxKills \in Nat /\ MaxLate \in Nat

VARIABLES
    clock,
    up, started, bucket, leaseRequests, zeroGrants, tokensGranted, handler,
    winStart, winFresh, winStale, winLate, winStarts,
    pool, req, renewer,
    call,       \* call[r]: where the lease call of the renewal r is
    peer,       \* peer[h]: the renewal that waits for the handler h, or Nil
    late,       \* late[t]: requests on the wire that nobody waits for
    kills,      \* workers killed so far
    winAdmitted, winHeld

Names == Tenants \cup Strangers

\* Grants and hints that the coordinator can give: the hint of an empty
\* bucket is the longest.
C == INSTANCE Coordinator
Hints == {Ms * n : n \in 0..(Unit \div Ms) + 1}
W == INSTANCE Limiter WITH Tenants <- Names, Grants <- 1..LeaseSize

coordVars == <<up, started, bucket, leaseRequests, zeroGrants, tokensGranted, handler,
               winStart, winFresh, winStale, winLate, winStarts>>
workVars  == <<pool, req, renewer>>
linkVars  == <<call, peer, late>>
histVars  == <<kills, winAdmitted, winHeld>>
vars      == <<clock, coordVars, workVars, linkVars, histVars>>

NoCall == [pc |-> "none", answer |-> W!NoAnswer]

Init ==
    /\ C!Init /\ W!Init
    /\ call = [r \in Renewers |-> NoCall]
    /\ peer = [h \in Handlers |-> Nil]
    /\ late = [t \in Tenants |-> 0]
    /\ kills = 0
    /\ winAdmitted = [t \in Tenants |-> 0] /\ winHeld = [t \in Tenants |-> 0]

TenantOf(r) == renewer[r].key[2]

-----------------------------------------------------------------------------
(* The lease call *)

\* renew calls Lease: the request goes on the wire.
Send(r) ==
    /\ W!RenewCall(r)
    /\ call' = [call EXCEPT ![r].pc = "sent"]
    /\ UNCHANGED <<coordVars, peer, late, histVars>>

\* The coordinator starts a handler for it: a lease, or a refusal.
Receive(h, r) ==
    /\ call[r].pc = "sent"
    /\ IF TenantOf(r) \in Tenants THEN C!HandleLease(h, TenantOf(r))
                                  ELSE C!RefuseLease(h, TenantOf(r))
    /\ call' = [call EXCEPT ![r].pc = "open"]
    /\ peer' = [peer EXCEPT ![h] = r]
    /\ UNCHANGED <<workVars, late, histVars>>

\* A request arrives after its worker gave up on it.
ReceiveLate(h, t) ==
    /\ late[t] > 0
    /\ C!HandleLease(h, t)
    /\ late' = [late EXCEPT ![t] = @ - 1]
    /\ UNCHANGED <<workVars, call, peer, histVars>>

Handle(h) ==
    /\ C!TakeUpTo(h) \/ C!CountZero(h) \/ C!ZeroGrant(h) \/ C!CountGrant(h)
    /\ UNCHANGED <<workVars, linkVars, histVars>>

\* Mistake: a response of no tokens passes for a grant.
AnswerUnchecked(resp) ==
    [kind |-> CASE resp.status = 404 -> "unknown"
                [] resp.status = 400 -> "error"
                [] resp.status = 200 -> "grant",
     tokens |-> resp.granted, retryAfter |-> Ms * resp.retryAfter]

\* What Lease makes of a response: the status, then the decoded body.
AnswerOf(resp) ==
    [kind |-> CASE resp.status = 404 -> "unknown"
                [] resp.status = 400 -> "error"
                [] resp.status = 200 -> IF resp.granted = 0 THEN "zero" ELSE "grant",
     tokens |-> resp.granted, retryAfter |-> Ms * resp.retryAfter]

\* The handler writes its response, to a worker that may be gone.
Respond(h) ==
    /\ C!Reply(h)
    /\ IF peer[h] = Nil THEN UNCHANGED <<call, peer>>
       ELSE /\ call' = [call EXCEPT ![peer[h]] =
                          [pc |-> "replied", answer |-> AnswerOf(handler[h])]]
            /\ peer' = [peer EXCEPT ![h] = Nil]
    /\ UNCHANGED <<workVars, late, histVars>>

\* The response reaches the worker: Lease returns.
Deliver(r) ==
    /\ call[r].pc = "replied"
    /\ W!LeaseReturn(r, call[r].answer)
    /\ call' = [call EXCEPT ![r] = NoCall]
    /\ UNCHANGED <<coordVars, peer, late, histVars>>

\* Lease returns an error: its context expired, or the connection failed.
\* Whatever the coordinator does for this call from now on is lost.
GiveUp(r) ==
    /\ W!LeaseReturn(r, W!NoAnswer)
    /\ call' = [call EXCEPT ![r] = NoCall]
    /\ peer' = [h \in Handlers |-> IF peer[h] = r THEN Nil ELSE peer[h]]
    /\ \/ UNCHANGED late
       \/ /\ call[r].pc = "sent" /\ TenantOf(r) \in Tenants
          /\ SumFunctionOnSet(late, Tenants) < MaxLate
          /\ late' = [late EXCEPT ![TenantOf(r)] = @ + 1]
    /\ UNCHANGED <<coordVars, histVars>>

-----------------------------------------------------------------------------
(* The workers *)

Arrive(q, k, cost) ==
    /\ W!CheckStart(q, k, cost)
    /\ UNCHANGED <<coordVars, linkVars, histVars>>

\* A step of Check; the history notes an admission inside the window.
Decide(q) ==
    /\ W!CheckStep(q)
    /\ IF /\ winStart > 0 /\ req[q].pc # "count"
          /\ req'[q].pc = "count" /\ req'[q].admitted /\ req[q].key[2] \in Tenants
       THEN winAdmitted' = [winAdmitted EXCEPT ![req[q].key[2]] = @ + req[q].cost]
       ELSE UNCHANGED winAdmitted
    /\ UNCHANGED <<coordVars, linkVars, kills, winHeld>>

Finish(r) ==
    /\ W!RenewLocked(r)
    /\ UNCHANGED <<coordVars, linkVars, histVars>>

-----------------------------------------------------------------------------
(* Processes and time *)

KillWorker(w) ==
    LET gone == {r \in Renewers : renewer[r].pc # "idle" /\ renewer[r].key[1] = w}
    IN  /\ kills < MaxKills /\ kills' = kills + 1
        /\ W!WorkerCrash(w)
        /\ call' = [r \in Renewers |-> IF r \in gone THEN NoCall ELSE call[r]]
        /\ peer' = [h \in Handlers |-> IF peer[h] \in gone THEN Nil ELSE peer[h]]
        /\ UNCHANGED <<coordVars, late, winAdmitted, winHeld>>

\* The handlers die with the process; a response already written does not.
KillCoordinator ==
    /\ C!Crash
    /\ peer' = [h \in Handlers |-> Nil]
    /\ UNCHANGED <<workVars, call, late, histVars>>

StartCoordinator == C!Start /\ UNCHANGED <<workVars, linkVars, histVars>>

Tick == C!Tick /\ UNCHANGED <<workVars, linkVars, histVars>>

\* Granted tokens of t on their way to the worker that asked for them: in the
\* handler of its call, or in the answer its renewal is about to apply.
Answering(h, t) == IF peer[h] # Nil /\ handler[h].tenant = t THEN handler[h].granted ELSE 0
Carrying(r, t)  == IF renewer[r].pc # "idle" /\ TenantOf(r) = t
                   THEN call[r].answer.tokens + renewer[r].answer.tokens ELSE 0

\* Tokens of t debited from the bucket that some worker can still admit.
Held(t) ==
    SumFunctionOnSet([w \in Workers |-> pool[<<w, t>>].tokens], Workers)
      + SumFunctionOnSet([h \in Handlers |-> Answering(h, t)], Handlers)
      + SumFunctionOnSet([r \in Renewers |-> Carrying(r, t)], Renewers)

OpenWindow ==
    /\ C!OpenWindow
    /\ winHeld' = [t \in Tenants |-> Held(t)]
    /\ UNCHANGED <<workVars, linkVars, kills, winAdmitted>>

Next ==
    \/ \E q \in Requests, k \in W!Keys, cost \in Costs : Arrive(q, k, cost)
    \/ \E q \in Requests : Decide(q)
    \/ \E r \in Renewers : Send(r) \/ Deliver(r) \/ GiveUp(r) \/ Finish(r)
    \/ \E h \in Handlers, r \in Renewers : Receive(h, r)
    \/ \E h \in Handlers, t \in Tenants : ReceiveLate(h, t)
    \/ \E h \in Handlers : Handle(h) \/ Respond(h)
    \/ \E w \in Workers : KillWorker(w)
    \/ KillCoordinator \/ StartCoordinator \/ Tick \/ OpenWindow

Spec == Init /\ [][Next]_vars

-----------------------------------------------------------------------------
(* Properties *)

CallType == [pc : {"none", "sent", "open", "replied"}, answer : W!Answers]

TypeOK ==
    /\ C!TypeOK /\ W!TypeOK
    /\ call \in [Renewers -> CallType]
    /\ peer \in [Handlers -> Renewers \cup {Nil}]
    /\ late \in [Tenants -> 0..MaxLate]

\* The guarantee of the whole system, with the slack it really needs: over
\* any window and any number of workers, what is admitted is at most rate *
\* window, one burst per start of the coordinator, and what each worker can
\* hold or be about to receive when the window opens.  Grants that arrive
\* late, replies to workers that gave up, and kills on either side never
\* add to it.
SystemWindowBound ==
    winStart > 0 => \A t \in Tenants :
        winAdmitted[t] * Unit
          <= C!Allowance(t, winStart, clock, winStarts)
               + Cardinality(Workers) * (LeaseSize + W!Reserve - 1) * Unit

\* No token is made between a bucket and an admission, and none is admitted
\* twice: what was admitted in the window and what workers can still admit
\* was held when the window opened or debited from the bucket since.
NoTokenForged ==
    winStart > 0 => \A t \in Tenants :
        winAdmitted[t] + Held(t) <= winHeld[t] + winFresh[t] + winStale[t]

\* Step by step, the whole system handles tokens as Budget says: they leave a
\* bucket once, are admitted at most once, and nothing else makes any, however
\* calls are lost, late or cut short and whoever is killed in between.
B == INSTANCE Budget WITH
       Lease <- LeaseSize, held <- [t \in Tenants |-> Held(t)], observed <- winStart > 0,
       base <- winHeld, drawn <- [t \in Tenants |-> winFresh[t] + winStale[t]],
       spent <- winAdmitted
ImplementsBudget == B!Spec

\* The workers meet only answers that Limiter allows for, so what is proved
\* of Limiter for every such answer holds beside the real coordinator.
WorkersImplement == W!Spec
=============================================================================
