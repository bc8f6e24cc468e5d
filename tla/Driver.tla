------------------------------- MODULE Driver -------------------------------
(***************************************************************************)
(* The load driver of internal/loadgen/driver.go, one call of Driver.Run:  *)
(* a pacing goroutine per load, a goroutine per request in flight, and the *)
(* progress goroutine that sums the live results once a second (report.go, *)
(* sumSeries).  Loads of one tenant share one TenantResult, whose mutex is *)
(* held for one record at a time.  The context may be cancelled at any     *)
(* moment.  start is the instant 0 and the ticker of a load has a period   *)
(* of one clock tick; a tick that finds the previous one unread is lost.   *)
(***************************************************************************)
EXTENDS Integers, Sequences, FiniteSets, Functions

CONSTANTS
    Loads,          \* the elements of `loads'
    Tenants,        \* the keys of Results
    Tenant,         \* Tenant[l]: l.Tenant
    Concurrency,    \* Concurrency[l]: l.Concurrency
    Cost,           \* Cost[l]: l.Cost
    RPS,            \* RPS[l]: fractions of a request per tick
    Unit,           \* fractions in one request
    Answers,        \* bound: the outcomes of requests considered
    Duration,       \* duration, in ticks
    Second,         \* ticks in one second
    Every,          \* seconds between two progress lines, 5 in the code
    MaxClock,       \* bound: the clock stops there, and its ticks go on
    NoTick          \* an empty ticker channel

ASSUME DriverAssumption ==
    /\ IsFiniteSet(Tenants) /\ IsFiniteSet(Loads)
    /\ Tenant \in [Loads -> Tenants] /\ Concurrency \in [Loads -> Nat \ {0}]
    /\ Cost \in [Loads -> Nat] /\ RPS \in [Loads -> Nat]
    /\ Unit \in Nat \ {0} /\ Second \in Nat \ {0} /\ Every \in Nat \ {0}
    /\ Duration \in Nat /\ MaxClock \in Nat /\ Duration <= MaxClock
    /\ Answers \subseteq {"admitted", "rejected", "errors"} /\ NoTick \notin Nat

\* A request goroutine is known by its load and its slot of the semaphore.
Senders == UNION {{l} \X (1..Concurrency[l]) : l \in Loads}

VARIABLES
    clock,
    cancelled,  \* ctx.Err() != nil
    load,       \* the locals of runTenant
    ticker,     \* ticker[l]: the channel tick.C of a load
    sender,     \* the locals of one
    result,     \* Results: a TenantResult per tenant
    progress,   \* the goroutine that calls onSecond
    fired       \* history: fired[l], requests released, dropped ones too

vars == <<clock, cancelled, load, ticker, sender, result, progress, fired>>

\* The metrics of a progress line, summed one after the other.
Metrics == <<"admitted", "rejected", "errors">>

SecBucket == [admitted |-> 0, rejected |-> 0, errors |-> 0]
NewResult == [sent |-> 0, admitted |-> 0, admittedTokens |-> 0, rejected |-> 0,
              drops |-> 0, errors |-> 0, buckets |-> <<>>]
IdleSender == [pc |-> "idle", t0 |-> 0]

Init ==
    /\ clock = 0 /\ cancelled = FALSE
    /\ load = [l \in Loads |-> [pc |-> "new", quota |-> 0, last |-> 0, begun |-> 0, n |-> 0]]
    /\ ticker = [l \in Loads |-> NoTick]
    /\ sender = [s \in Senders |-> IdleSender]
    /\ result = [t \in Tenants |-> NewResult]
    /\ progress = [pc |-> "wait", tick |-> FALSE, sec |-> 0, metric |-> 1, todo |-> {},
                   out |-> <<>>, maxLen |-> 0]
    /\ fired = [l \in Loads |-> 0]

\* The goroutines of a load that hold a slot.
Alive(l) == {s \in Senders : s[1] = l /\ sender[s].pc # "idle"}

-----------------------------------------------------------------------------
(* runTenant *)

\* The goroutine starts: its ticker and `last' are made now.
Begin(l) ==
    /\ load[l].pc = "new"
    /\ load' = [load EXCEPT ![l] = [@ EXCEPT !.pc = "loop", !.last = clock, !.begun = clock]]
    /\ UNCHANGED <<clock, cancelled, ticker, sender, result, progress, fired>>

\* Mistake: the fraction of a request is lost at every tick.
PaceWhole(l) ==
    LET now   == ticker[l]
        quota == (now - load[l].last) * RPS[l]
    IN  /\ load[l].pc = "loop" /\ now # NoTick
        /\ ticker' = [ticker EXCEPT ![l] = NoTick]
        /\ load' = [load EXCEPT ![l] =
             IF now >= Duration THEN [@ EXCEPT !.pc = "drain"]
             ELSE [@ EXCEPT !.quota = 0, !.last = now, !.n = quota \div Unit,
                            !.pc = IF quota < Unit THEN "loop" ELSE "fire"]]
        /\ UNCHANGED <<clock, cancelled, sender, result, progress, fired>>

\* Mistake: what is released is not taken off the quota.
PaceKeeps(l) ==
    LET now   == ticker[l]
        quota == load[l].quota + (now - load[l].last) * RPS[l]
    IN  /\ load[l].pc = "loop" /\ now # NoTick
        /\ ticker' = [ticker EXCEPT ![l] = NoTick]
        /\ load' = [load EXCEPT ![l] =
             IF now >= Duration THEN [@ EXCEPT !.pc = "drain"]
             ELSE [@ EXCEPT !.quota = quota, !.last = now, !.n = quota \div Unit,
                            !.pc = IF quota < Unit THEN "loop" ELSE "fire"]]
        /\ UNCHANGED <<clock, cancelled, sender, result, progress, fired>>

\* case now := <-tick.C: the end, or a quota of whole requests; what is left
\* of the quota is carried over.
Pace(l) ==
    LET now   == ticker[l]
        quota == load[l].quota + (now - load[l].last) * RPS[l]
    IN  /\ load[l].pc = "loop" /\ now # NoTick
        /\ ticker' = [ticker EXCEPT ![l] = NoTick]
        /\ load' = [load EXCEPT ![l] =
             IF now >= Duration THEN [@ EXCEPT !.pc = "drain"]
             ELSE [@ EXCEPT !.quota = quota % Unit, !.last = now, !.n = quota \div Unit,
                            !.pc = IF quota < Unit THEN "loop" ELSE "fire"]]
        /\ UNCHANGED <<clock, cancelled, sender, result, progress, fired>>

\* The request released next, and the end of the inner loop.
Released(l) ==
    /\ load[l].pc = "fire"
    /\ fired' = [fired EXCEPT ![l] = @ + 1]
    /\ load' = [load EXCEPT ![l].n = @ - 1, ![l].pc = IF load[l].n = 1 THEN "loop" ELSE @]

\* case sem <- struct{}{}: a slot is free; a goroutine sends the request.
Dispatch(l, s) ==
    /\ Released(l)
    /\ s[1] = l /\ s \notin Alive(l)
    /\ sender' = [sender EXCEPT ![s].pc = "new"]
    /\ UNCHANGED <<clock, cancelled, ticker, result, progress>>

\* Mistake: the request is dropped and nobody counts it.
DropUncounted(l) ==
    /\ Released(l)
    /\ Cardinality(Alive(l)) >= Concurrency[l]
    /\ UNCHANGED <<clock, cancelled, ticker, sender, result, progress>>

\* default: all slots are busy, the request is dropped and counted.
Drop(l) ==
    /\ Released(l)
    /\ Cardinality(Alive(l)) >= Concurrency[l]
    /\ result' = [result EXCEPT ![Tenant[l]].drops = @ + 1]
    /\ UNCHANGED <<clock, cancelled, ticker, sender, progress>>

\* case <-ctx.Done()
Stop(l) ==
    /\ load[l].pc = "loop" /\ cancelled
    /\ load' = [load EXCEPT ![l].pc = "drain"]
    /\ UNCHANGED <<clock, cancelled, ticker, sender, result, progress, fired>>

\* Mistake: the load returns without waiting for its requests.
DrainAtOnce(l) ==
    /\ load[l].pc = "drain"
    /\ load' = [load EXCEPT ![l].pc = "done"]
    /\ UNCHANGED <<clock, cancelled, ticker, sender, result, progress, fired>>

\* wg.Wait(), then return.
Drain(l) ==
    /\ load[l].pc = "drain" /\ Alive(l) = {}
    /\ load' = [load EXCEPT ![l].pc = "done"]
    /\ UNCHANGED <<clock, cancelled, ticker, sender, result, progress, fired>>

-----------------------------------------------------------------------------
(* one and record *)

\* res.Sent++, then the request goes out; its second is that of t0.
SendOne(s) ==
    /\ sender[s].pc = "new"
    /\ result' = [result EXCEPT ![Tenant[s[1]]].sent = @ + 1]
    /\ sender' = [sender EXCEPT ![s] = [@ EXCEPT !.pc = "flight", !.t0 = clock]]
    /\ UNCHANGED <<clock, cancelled, load, ticker, progress, fired>>

\* record, under the result's mutex: grow Buckets up to the second of t0,
\* then count the outcome in the totals and in that bucket.
Grown(buckets, sec) ==
    [i \in 1..(IF sec + 1 > Len(buckets) THEN sec + 1 ELSE Len(buckets)) |->
       IF i <= Len(buckets) THEN buckets[i] ELSE SecBucket]

\* Mistake: an outcome of a second that has no bucket yet is left out of the
\* series.
RecordExisting(r, sec, outcome, cost) ==
    LET b == IF sec < Len(r.buckets) \/ r.buckets = <<>>
             THEN [Grown(r.buckets, sec) EXCEPT ![sec + 1][outcome] = @ + 1]
             ELSE r.buckets
    IN  [r EXCEPT !.buckets = b, ![outcome] = @ + 1,
                  !.admittedTokens = IF outcome = "admitted" THEN @ + cost ELSE @]

Record(r, sec, outcome, cost) ==
    LET b == [Grown(r.buckets, sec) EXCEPT ![sec + 1][outcome] = @ + 1]
    IN  [r EXCEPT !.buckets = b, ![outcome] = @ + 1,
                  !.admittedTokens = IF outcome = "admitted" THEN @ + cost ELSE @]

\* Mistake: the early return on a cancelled context skips the deferred calls.
ReturnLeaks(s, outcome, response) ==
    LET l    == s[1]
        cost == IF Cost[l] < 1 THEN 1 ELSE Cost[l]
    IN  /\ sender[s].pc = "flight"
        /\ response \/ outcome = "errors"
        /\ result' = IF ~response /\ cancelled THEN result
                     ELSE [result EXCEPT ![Tenant[l]] =
                             Record(@, sender[s].t0 \div Second, outcome, cost)]
        /\ sender' = [sender EXCEPT ![s].pc = IF ~response /\ cancelled THEN "gone" ELSE "return"]
        /\ UNCHANGED <<clock, cancelled, load, ticker, progress, fired>>

\* d.client.Do returned a response (200, 429 or another status) or an error;
\* an error after the cancellation is not recorded.
Return(s, outcome, response) ==
    LET l    == s[1]
        cost == IF Cost[l] < 1 THEN 1 ELSE Cost[l]
    IN  /\ sender[s].pc = "flight"
        /\ response \/ outcome = "errors"
        /\ result' = IF ~response /\ cancelled THEN result
                     ELSE [result EXCEPT ![Tenant[l]] =
                             Record(@, sender[s].t0 \div Second, outcome, cost)]
        /\ sender' = [sender EXCEPT ![s] = [IdleSender EXCEPT !.pc = "return"]]
        /\ UNCHANGED <<clock, cancelled, load, ticker, progress, fired>>

\* The deferred calls: the slot is free, and the wait group one shorter.
Release(s) ==
    /\ sender[s].pc = "return"
    /\ sender' = [sender EXCEPT ![s] = IdleSender]
    /\ UNCHANGED <<clock, cancelled, load, ticker, result, progress, fired>>

-----------------------------------------------------------------------------
(* The progress goroutine: sumSeries over live results *)

\* case <-t.C: the end, or onSecond, which prints in every fifth second.
OnSecond ==
    /\ progress.pc = "wait" /\ progress.tick
    /\ progress' = IF clock >= Duration THEN [progress EXCEPT !.pc = "done"]
                   ELSE [progress EXCEPT !.tick = FALSE, !.sec = @ + 1, !.metric = 1,
                           !.todo = Tenants,
                           !.pc = IF (progress.sec + 1) % Every = 0 THEN "measure" ELSE "wait"]
    /\ UNCHANGED <<clock, cancelled, load, ticker, sender, result, fired>>

\* The first pass: the longest series, one tenant's mutex at a time; after
\* the last tenant, out := make([]int, maxLen).
Measure(t) ==
    LET len  == Len(result[t].buckets)
        most == IF len > progress.maxLen THEN len ELSE progress.maxLen
        last == progress.todo = {t}
    IN  /\ progress.pc = "measure" /\ t \in progress.todo
        /\ progress' = [progress EXCEPT !.maxLen = most,
                          !.todo = IF last THEN Tenants ELSE @ \ {t},
                          !.out = IF last THEN [i \in 1..most |-> 0] ELSE @,
                          !.pc = IF last THEN "sum" ELSE @]
        /\ UNCHANGED <<clock, cancelled, load, ticker, sender, result, fired>>

\* Mistake: every bucket is added, the newer ones too.
AddSeriesUnguarded(out, buckets, metric) ==
    [i \in DOMAIN out \cup DOMAIN buckets |->
       (IF i \in DOMAIN out THEN out[i] ELSE 0) +
       (IF i \in DOMAIN buckets THEN buckets[i][metric] ELSE 0)]

\* One tenant's series added to out; buckets that are newer than the first
\* pass are left out.
AddSeries(out, buckets, metric) ==
    [i \in DOMAIN out |-> out[i] + IF i <= Len(buckets) THEN buckets[i][metric] ELSE 0]

Sum(t) ==
    /\ progress.pc = "sum" /\ t \in progress.todo
    /\ progress' = [progress EXCEPT !.todo = @ \ {t},
                      !.out = AddSeries(@, result[t].buckets, Metrics[progress.metric])]
    /\ UNCHANGED <<clock, cancelled, load, ticker, sender, result, fired>>

\* sumSeries returns: the next metric, or the line is printed.
Report ==
    LET more == progress.metric < Len(Metrics)
    IN  /\ progress.pc = "sum" /\ progress.todo = {}
        /\ progress' = [progress EXCEPT !.pc = IF more THEN "measure" ELSE "wait",
                          !.metric = IF more THEN @ + 1 ELSE 1,
                          !.todo = IF more THEN Tenants ELSE {},
                          !.out = <<>>, !.maxLen = 0]
        /\ UNCHANGED <<clock, cancelled, load, ticker, sender, result, fired>>

StopProgress ==
    /\ progress.pc = "wait" /\ cancelled
    /\ progress' = [progress EXCEPT !.pc = "done"]
    /\ UNCHANGED <<clock, cancelled, load, ticker, sender, result, fired>>

-----------------------------------------------------------------------------
(* Run, its context and time *)

\* wg.Wait() in Run: every goroutine it started has returned.
Returned == progress.pc = "done" /\ \A l \in Loads : load[l].pc = "done"

\* The client of /run disconnects, or the scenario's timeout expires.
Cancel ==
    /\ ~cancelled /\ ~Returned
    /\ cancelled' = TRUE
    /\ UNCHANGED <<clock, load, ticker, sender, result, progress, fired>>

\* Tickers send without blocking.  At the bound only the ticks go on.
Tick ==
    LET now == IF clock < MaxClock THEN clock + 1 ELSE clock
    IN  /\ clock' = now
        /\ ticker' = [l \in Loads |-> IF load[l].pc # "new" /\ ticker[l] = NoTick
                                      THEN now ELSE ticker[l]]
        /\ progress' = IF now % Second = 0 \/ now = MaxClock
                       THEN [progress EXCEPT !.tick = TRUE] ELSE progress
        /\ UNCHANGED <<cancelled, load, sender, result, fired>>

LoadStep(l) == \/ Begin(l) \/ Pace(l) \/ Drop(l) \/ Stop(l) \/ Drain(l)
               \/ \E s \in Senders : Dispatch(l, s)

SenderStep(s) == \/ SendOne(s) \/ Release(s)
                 \/ \E outcome \in Answers, ok \in BOOLEAN :
                      Return(s, outcome, ok)

ProgressStep == \/ OnSecond \/ Report \/ StopProgress
                \/ \E t \in Tenants : Measure(t) \/ Sum(t)

Goroutines == \/ \E l \in Loads : LoadStep(l)
              \/ \E s \in Senders : SenderStep(s)
              \/ ProgressStep

Next == Goroutines \/ Cancel \/ Tick

Spec == Init /\ [][Next]_vars

\* Go does not idle while a goroutine can run, the clock runs, and the HTTP
\* client has a timeout, so a request in flight returns.  No fairness between
\* goroutines is needed: each of them ends.
FairSpec == Spec /\ WF_vars(Tick) /\ WF_vars(Goroutines)

-----------------------------------------------------------------------------
(* Properties *)

Outcomes == {"admitted", "rejected", "errors"}

TypeOK ==
    /\ clock \in 0..MaxClock /\ cancelled \in BOOLEAN
    /\ \A l \in Loads :
         /\ load[l].pc \in {"new", "loop", "fire", "drain", "done"}
         /\ load[l].quota \in 0..(Unit - 1) /\ load[l].n \in Nat
         /\ load[l].last \in 0..clock /\ ticker[l] \in 0..clock \cup {NoTick}
    /\ \A s \in Senders : sender[s].pc \in {"idle", "new", "flight", "return"}
    /\ \A t \in Tenants : /\ result[t].sent \in Nat /\ result[t].drops \in Nat
                          /\ result[t].admittedTokens \in Nat
                          /\ \A o \in Outcomes : result[t][o] \in Nat
    /\ progress.pc \in {"wait", "measure", "sum", "done"} /\ fired \in [Loads -> Nat]

\* Requests of t whose outcome is still to be recorded.
Unanswered(t) == {s \in Senders : sender[s].pc = "flight" /\ Tenant[s[1]] = t}

\* The report adds up, at every moment and for loads that share a tenant:
\* each request sent is admitted, rejected, an error or in flight, unless
\* the run was cancelled, and the seconds of the chart sum to the totals.
ResultsAgree ==
    \A t \in Tenants :
        LET r == result[t]
        IN  /\ ~cancelled => r.sent = r.admitted + r.rejected + r.errors
                                       + Cardinality(Unanswered(t))
            /\ \A o \in Outcomes :
                 r[o] = SumFunction([i \in DOMAIN r.buckets |-> r.buckets[i][o]])

\* Requests of t that hold a slot and have not been counted as sent yet.
Dispatched(t) == {s \in Senders : sender[s].pc = "new" /\ Tenant[s[1]] = t}
LoadsOf(t)    == {l \in Loads : Tenant[l] = t}

\* The report accounts for the whole load offered: every request that the
\* pacing loops of a tenant release, loads with busy slots and a cancelled
\* run included, is sent, about to be sent or counted as dropped.
LoadAccounted ==
    \A t \in Tenants :
        SumFunctionOnSet(fired, LoadsOf(t))
          = result[t].sent + result[t].drops + Cardinality(Dispatched(t))

\* The pacing loop neither loses nor invents load, however late and uneven
\* its ticks are: what was released, what is still to be released and the
\* fraction carried over are the rate times the time accounted for.
PacingExact ==
    \A l \in Loads : load[l].pc # "new" =>
        Unit * (fired[l] + load[l].n) + load[l].quota
          = RPS[l] * (load[l].last - load[l].begun)

\* Once Run has returned nothing it started is alive, so that the scenarios
\* read results without the mutex: no result changes any more.
NoLateRecord == [][Returned => UNCHANGED <<result, sender>>]_vars

\* The snapshot of live results is sound: nothing is written beyond the
\* slice allocated after the first pass, whatever second-buckets appear in
\* between, and no second shows more than has been recorded.
SnapshotSound ==
    progress.pc = "sum" =>
        /\ Len(progress.out) = progress.maxLen
        /\ \A i \in DOMAIN progress.out :
             progress.out[i] <= SumFunction(
                [t \in Tenants |-> IF i <= Len(result[t].buckets)
                                   THEN result[t].buckets[i][Metrics[progress.metric]] ELSE 0])

\* Run returns, cancelled or not.
RunReturns == <>Returned
=============================================================================
