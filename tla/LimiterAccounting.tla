-------------------------- MODULE LimiterAccounting -------------------------
(***************************************************************************)
(* Limiter with the counters a worker publishes at /v1/stats, which Check  *)
(* and renew update outside the pool's mutex, and with the history of each *)
(* pool: what was leased into it, what left it without being spent, and    *)
(* the Checks that began and that ended with Unknown, which nothing counts.*)
(* All of it lives and dies with the worker's process.                     *)
(***************************************************************************)
EXTENDS Limiter, Functions

CONSTANT MaxChecks      \* bound: Checks per pool in one life of a worker

ASSUME AccountingAssumption == MaxChecks \in Nat /\ IsFiniteSet(Requests)

VARIABLES counts, ledger

NoCounts == [admitted |-> 0, admittedTokens |-> 0, rejected |-> 0,
             leaseCalls |-> 0, leaseErrs |-> 0]
NoLedger == [leased |-> 0, dropped |-> 0, checks |-> 0, unknown |-> 0]

accVars == <<counts, ledger, vars>>

AccInit ==
    /\ Init
    /\ counts = [k \in Keys |-> NoCounts]
    /\ ledger = [k \in Keys |-> NoLedger]

\* c := lm.counters(tenant): add n to one counter of pool k.
Count(k, field, n) == counts' = [counts EXCEPT ![k][field] = @ + n]
Note(k, field, n)  == ledger' = [ledger EXCEPT ![k][field] = @ + n]

AccCheckStart(q, k, cost) ==
    /\ CheckStart(q, k, cost)
    /\ ledger[k].checks < MaxChecks /\ Note(k, "checks", 1)
    /\ UNCHANGED counts

AccCheckUnknown(q) ==
    /\ CheckUnknown(q) \/ WokenUnknown(q)
    /\ Note(req[q].key, "unknown", 1)
    /\ UNCHANGED counts

\* Either form of Check's critical section may drop an expired grant.
AccCheckLocked(q) ==
    LET p == pool[req[q].key]
    IN  /\ CheckLocked(q) \/ \E r \in Renewers : CheckRenew(q, r)
        /\ Note(req[q].key, "dropped", p.tokens - DropExpired(p, req[q].now).tokens)
        /\ UNCHANGED counts

AccWait(q) ==
    /\ WaitDone(q) \/ WaitTimeout(q) \/ WokenLocked(q)
    /\ UNCHANGED <<counts, ledger>>

\* c.Admitted.Add(1), c.AdmittedTokens.Add(cost), or c.Rejected.Add(1).
AccCheckReturn(q) ==
    LET k == req[q].key
    IN  /\ CheckReturn(q)
        /\ counts' = IF req[q].admitted
                     THEN [counts EXCEPT ![k].admitted = @ + 1,
                                         ![k].admittedTokens = @ + req[q].cost]
                     ELSE [counts EXCEPT ![k].rejected = @ + 1]
        /\ UNCHANGED ledger

\* c.LeaseCalls.Add(1)
AccRenewCall(r) ==
    /\ RenewCall(r)
    /\ Count(renewer[r].key, "leaseCalls", 1)
    /\ UNCHANGED ledger

AccLeaseReturn(r, answer) ==
    /\ LeaseReturn(r, answer)
    /\ UNCHANGED <<counts, ledger>>

\* c.LeaseErrs.Add(1), under the mutex, on an error that is not a 404.
AccRenewLocked(r) ==
    LET k == renewer[r].key
        a == renewer[r].answer
    IN  /\ RenewLocked(r)
        /\ Count(k, "leaseErrs", IF a.kind = "error" THEN 1 ELSE 0)
        /\ ledger' = [ledger EXCEPT ![k].leased = @ + a.tokens,
                        ![k].dropped = @ + IF a.kind = "unknown" THEN pool[k].tokens ELSE 0]

AccWorkerCrash(w) ==
    /\ WorkerCrash(w)
    /\ counts' = [k \in Keys |-> IF k[1] = w THEN NoCounts ELSE counts[k]]
    /\ ledger' = [k \in Keys |-> IF k[1] = w THEN NoLedger ELSE ledger[k]]

AccTick == Tick /\ UNCHANGED <<counts, ledger>>

AccNext ==
    \/ \E q \in Requests, k \in Keys, c \in Costs : AccCheckStart(q, k, c)
    \/ \E q \in Requests : \/ AccCheckUnknown(q) \/ AccCheckLocked(q)
                           \/ AccWait(q) \/ AccCheckReturn(q)
    \/ \E r \in Renewers : AccRenewCall(r) \/ AccRenewLocked(r)
    \/ \E r \in Renewers, a \in Answers : AccLeaseReturn(r, a)
    \/ \E w \in Workers : AccWorkerCrash(w)
    \/ AccTick

AccSpec == AccInit /\ [][AccNext]_accVars

-----------------------------------------------------------------------------
(* Properties *)

InFlight(k) == {q \in Requests : req[q].pc # "idle" /\ req[q].key = k}

\* Check admitted these requests and has not counted them yet.
Uncounted(k) == {q \in InFlight(k) : req[q].pc = "count" /\ req[q].admitted}

\* What they are about to add to their counter.
Pending(k) == SumFunctionOnSet([q \in Requests |-> req[q].cost], Uncounted(k))

\* Admission is all or nothing and no token is spent twice, also by requests
\* that share one renewal: what was leased into a pool is what its counter
\* says was admitted, what admitted requests still have to count, what the
\* pool holds and what expired or was forgotten.
TokensConserved ==
    \A k \in Keys : ledger[k].leased =
        counts[k].admittedTokens + Pending(k) + pool[k].tokens + ledger[k].dropped

\* Every Check is counted once, on every path: the immediate decision, the
\* timeout, and the decision after the wait; only an Unknown is not counted.
ChecksAccounted ==
    \A k \in Keys : ledger[k].checks =
        counts[k].admitted + counts[k].rejected + ledger[k].unknown
          + Cardinality(InFlight(k))
=============================================================================
