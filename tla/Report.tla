------------------------------- MODULE Report -------------------------------
(***************************************************************************)
(* How a run is judged: the arithmetic of report.go and driver.go on the   *)
(* finished Results, and the checks of the two scenarios that kill, which  *)
(* judge windows of the series.  A state holds one run's history, from     *)
(* which its Results follow, and then the verdict on it.                   *)
(*                                                                         *)
(* The offered load is even: RPS[t] requests of cost 1 in every second.    *)
(* Rates are integers, Grain to one request a second, and are exact when   *)
(* Grain is a multiple of the lengths of the windows.                      *)
(***************************************************************************)
EXTENDS Integers, Sequences, FiniteSets, FiniteSetsExt, Functions, TLC

CONSTANTS
    Tenants,
    Limit,          \* Limit[t]: tokens per second, env.Cfg.Tenants
    LeaseSize,      \* env.Cfg.Lease.Size
    Grain,
    Delays,         \* bound: seconds after which a kill may take effect
    Drains,         \* bound: seconds for which leased budget may last
    Backs,          \* bound: the seconds in which the coordinator may be back
    Lags,           \* bound: seconds until a tenant is admitted again
    Blips,          \* bound: seconds of errors after the kill of a worker
    Losses,         \* bound: percentages of requests that fail meanwhile
    Levels,         \* bound: percentages a tenant may be admitted at
    Faulty,         \* bound: the seconds in which all requests may fail
    Missing,        \* bound: seconds before the end in which the client may leave
    Latencies,      \* bound: latencies
    MaxSample       \* bound: responses of a tenant

ASSUME ReportAssumption ==
    /\ Limit \in [Tenants -> Nat \ {0}] /\ \A t \in Tenants : (8 * Limit[t]) % 10 = 0
    /\ LeaseSize \in Nat /\ Grain \in Nat \ {0} /\ MaxSample \in Nat
    /\ Latencies \subseteq Nat

\* What never happens, happens after every run.
Never == 1000

VARIABLES
    story,      \* what happened in the run
    rs,         \* the Buckets of its Results
    verdict     \* what is reported of it

vars == <<story, rs, verdict>>

\* killAt, restoreAt and duration, as they are without overrides.
KillAt    == [wkill |-> 15, ckill |-> 10]
RestoreAt == 25
Dur       == [wkill |-> 45, ckill |-> 60]

\* steadyLoads: 80 percent of the limits.
RPS == [t \in Tenants |-> (8 * Limit[t]) \div 10]

Init ==
    /\ verdict = <<>> /\ rs = <<>>
    /\ \/ story \in [kind : {"ckill"}, delay : Delays \cup {Never},
                     drain : [Tenants -> Drains], back : Backs \cup {Never},
                     lag : [Tenants -> Lags], faulty : Faulty \cup {Never},
                     missing : Missing]
       \/ story \in [kind : {"wkill"}, delay : Delays \cup {Never}, blip : Blips,
                     loss : Losses, level : [Tenants -> Levels],
                     faulty : Faulty \cup {Never}, missing : Missing]
       \/ \E n \in 0..MaxSample :
            story \in [kind : {"sample"}, latencies : [1..n -> Latencies]]

-----------------------------------------------------------------------------
(* What the requests of tenant t in second s came to *)

Bucket(admitted, errors, t) ==
    [admitted |-> admitted, errors |-> errors, rejected |-> RPS[t] - admitted - errors]

Killed == KillAt[story.kind] + story.delay

\* The coordinator is gone: t is admitted while its leases last, and again
\* some time after the coordinator is back.
Outage(t, s) ==
    IF s >= Killed + story.drain[t] /\ s < story.back + story.lag[t]
    THEN Bucket(0, 0, t) ELSE Bucket(RPS[t], 0, t)

\* A worker is gone: some requests fail until the Service has noticed, then
\* the survivor admits what it can.
Loss(t, s) ==
    LET errors == (story.loss * RPS[t]) \div 100
    IN  CASE s < Killed                              -> Bucket(RPS[t], 0, t)
          [] Killed <= s /\ s < Killed + story.blip  -> Bucket(RPS[t] - errors, errors, t)
          [] OTHER                                   -> Bucket((story.level[t] * RPS[t]) \div 100, 0, t)

\* Buckets, of which the bucket of second s has the number s + 1.
Buckets(t) ==
    [i \in 1..(Dur[story.kind] - story.missing) |->
        CASE story.faulty = i - 1   -> Bucket(0, RPS[t], t)
          [] story.kind = "ckill"   -> Outage(t, i - 1)
          [] story.kind = "wkill"   -> Loss(t, i - 1)]

-----------------------------------------------------------------------------
(* driver.go and report.go *)

\* The sum of a metric over the seconds [from, to), as far as there are any.
Total(buckets, metric, from, to) ==
    LET end == IF to > Len(buckets) THEN Len(buckets) ELSE to
        sum[s \in Nat] == IF s >= end THEN 0 ELSE buckets[s + 1][metric] + sum[s + 1]
    IN  sum[from]

\* The window ends with the series.
WindowRate(buckets, from, to, metric) ==
    LET end == IF to > Len(buckets) THEN Len(buckets) ELSE to
    IN  IF from >= end THEN 0
        ELSE (Grain * Total(buckets, metric, from, end)) \div (end - from)

\* sort.Float64s: the positions of the latencies, in their order.
Sorted(latencies) ==
    CHOOSE f \in Bijection(DOMAIN latencies, DOMAIN latencies) :
        \A i, j \in DOMAIN latencies : i <= j => latencies[f[i]] <= latencies[f[j]]

\* Mistake: the rank among n, not among n - 1.
RankOfAll(p, n) == (p * n) \div 100

\* idx, and the percentile.
Rank(p, n) == (p * (n - 1)) \div 100
Percentile(latencies, p) ==
    IF latencies = <<>> THEN 0
    ELSE latencies[Sorted(latencies)[Rank(p, Len(latencies)) + 1]]

SumOver(f(_)) == MapThenSumSet(f, Tenants)

\* pct(part, whole) <= permille / 10
AtMost(part, whole, permille) == whole = 0 \/ 1000 * part <= permille * whole

\* Mistake: only too much is noticed.
WithinAbove(v, target, tol) == 100 * v <= target * (100 + tol)

\* tol in percent.
Within(v, target, tol) == 100 * v >= target * (100 - tol) /\ 100 * v <= target * (100 + tol)

\* invariantCheck: for the whole run, with a slack of 1.2 leases per worker.
InvariantCheck(dur, workers, restarts) ==
    \A t \in Tenants :
        10 * Total(rs[t], "admitted", 0, dur) <=
            10 * Limit[t] * (dur + 1 + restarts) + 12 * workers * LeaseSize

RenderChecks(checks) == IF \A i \in DOMAIN checks : checks[i] THEN "PASS" ELSE "FAIL"

-----------------------------------------------------------------------------
(* The checks of the scenarios *)

\* Mistake: the outage is judged from its first second.
ClosedFromKill == <<KillAt.ckill + 1, RestoreAt - 2>>

\* The windows [from, to) of runWorkerKill and of runCoordinatorKill.
Pre    == <<5, KillAt.wkill - 1>>
Post   == <<KillAt.wkill + 10, Dur.wkill - 1>>
Base   == <<3, KillAt.ckill - 1>>
Closed == <<KillAt.ckill + 5, RestoreAt - 2>>
Recov  == <<Dur.ckill - 11, Dur.ckill - 1>>

Rate(w, metric) == SumOver(LAMBDA t : WindowRate(rs[t], w[1], w[2], metric))

WorkerKillChecks ==
    LET errors(from, to) == SumOver(LAMBDA t : Total(rs[t], "errors", from, to))
        total   == errors(0, Dur.wkill)
        outside == total - errors(KillAt.wkill - 1, KillAt.wkill + 7)
        sent    == SumOver(LAMBDA t : RPS[t] * Len(rs[t]))
    IN  << Within(Rate(Post, "admitted"), Rate(Pre, "admitted"), 10),
           AtMost(outside, sent, 2),
           AtMost(total, sent, 20),
           InvariantCheck(Dur.wkill, 2, 0) >>

CoordinatorKillChecks ==
    LET adm(s)   == SumOver(LAMBDA t : Total(rs[t], "admitted", s, s + 1))
        base     == Rate(Base, "admitted")
        offered  == SumOver(LAMBDA t : RPS[t])
        errs     == SumOver(LAMBDA t : Total(rs[t], "errors", Closed[1], Closed[2]))
        recovered == \E s \in RestoreAt..(Dur.ckill - 1) : 10 * Grain * adm(s) >= 9 * base
    IN  << adm(KillAt.ckill) > 0 \/ adm(KillAt.ckill + 1) > 0,
           20 * Rate(Closed, "admitted") <= base,
           10 * Rate(Closed, "rejected") >= 8 * Grain * offered /\ errs = 0,
           recovered /\ Within(Rate(Recov, "admitted"), base, 10),
           InvariantCheck(Dur.ckill, 2, 1) >>

\* Driver.Run returns.
Measure ==
    /\ story.kind # "sample" /\ rs = <<>>
    /\ rs' = [t \in Tenants |-> Buckets(t)]
    /\ UNCHANGED <<story, verdict>>

JudgeWorkerKill ==
    /\ story.kind = "wkill" /\ rs # <<>> /\ verdict = <<>>
    /\ verdict' = <<RenderChecks(WorkerKillChecks)>>
    /\ UNCHANGED <<story, rs>>

JudgeCoordinatorKill ==
    /\ story.kind = "ckill" /\ rs # <<>> /\ verdict = <<>>
    /\ verdict' = <<RenderChecks(CoordinatorKillChecks)>>
    /\ UNCHANGED <<story, rs>>

\* The two latencies of a line of the table.
RenderTable ==
    /\ story.kind = "sample" /\ verdict = <<>>
    /\ verdict' = [p \in {50, 99} |-> Percentile(story.latencies, p)]
    /\ UNCHANGED <<story, rs>>

Next == Measure \/ JudgeWorkerKill \/ JudgeCoordinatorKill \/ RenderTable

Spec == Init /\ [][Next]_vars

-----------------------------------------------------------------------------
(* Properties *)

\* A run that went as the design promises is not failed: for a coordinator
\* that is killed within two seconds of the time, leases that last up to three
\* more, and a recovery of every tenant before the final window; for a worker
\* whose loss costs at most two percent of the requests within six seconds.
\* A client that leaves in the last seconds makes no difference.
HealthyPasses ==
    /\ verdict # <<>> /\ story.kind # "sample"
    /\ story.faulty = Never /\ story.delay # Never
    /\ IF story.kind = "wkill"
       THEN /\ \A t \in Tenants : story.level[t] = 100
            /\ story.blip <= 6 /\ story.blip * story.loss <= 2 * (Dur.wkill - story.missing)
       ELSE \A t \in Tenants : /\ story.drain[t] \in 1..3
                               /\ story.back + story.lag[t] <= Dur.ckill - 11
    => verdict = <<"PASS">>

\* PASS speaks for every tenant, although the checks look at sums over the
\* tenants: of the coordinator's kill, that no tenant was admitted at the end
\* of the outage and all were at the end of the run; of the worker's, that at
\* the end of the run none is starved.
PassHidesNoTenant ==
    verdict = <<"PASS">> =>
        \A t \in Tenants :
            /\ rs[t][Len(rs[t])].admitted > 0
            /\ story.kind = "ckill" => rs[t][Closed[2]].admitted = 0

\* The percentiles of the report are ranks of the sample: for p, at most p
\* percent of the other responses were faster, and at most 100 - p percent and
\* one more were slower.
PercentileRanks ==
    verdict # <<>> /\ story.kind = "sample" /\ story.latencies # <<>> =>
        \A p \in {50, 99} :
            LET others   == Len(story.latencies) - 1
                count(S) == 100 * Cardinality(S)
            IN  /\ count({i \in DOMAIN story.latencies : story.latencies[i] < verdict[p]})
                     <= p * others
                /\ count({i \in DOMAIN story.latencies : story.latencies[i] > verdict[p]})
                     < (100 - p) * others + 100
=============================================================================
