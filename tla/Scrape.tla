------------------------------- MODULE Scrape -------------------------------
(***************************************************************************)
(* Coordinator observed by the baseline scenario, which scrapes /v1/stats  *)
(* before and after its measurement (CoordStats of report.go, handleStats  *)
(* of coordinator.go) and reports the difference of the lease calls.       *)
(* handleStats loads the counters of one tenant after the other while      *)
(* handlers go on counting, and the process may be killed and started      *)
(* between the scrapes or during one.                                      *)
(*                                                                         *)
(* Of a tenant's three counters the harness sums leaseRequests only; the   *)
(* other two are loaded right after it and are left out, as is startedMs,  *)
(* which nothing reads.                                                    *)
(***************************************************************************)
EXTENDS Coordinator

VARIABLES
    scraper,    \* the locals of runBaseline and of the handleStats it calls
    served      \* history: lease calls while the scenario scrapes

scrapeVars == <<scraper, served, vars>>

\* s0 is a total; todo, the tenants whose counters are still to load.
NoScraper == [pc |-> "idle", todo |-> {}, total |-> 0, s0 |-> 0]
Over      == [NoScraper EXCEPT !.pc = "over"]
NoServed  == [all |-> 0, between |-> 0, restarted |-> FALSE]

ScrapeInit == Init /\ scraper = NoScraper /\ served = NoServed

\* CoordStats sends its request, the first time or the second.  Bound: a
\* behaviour has one observer, this one or the window.
CoordStats(from, to) ==
    /\ scraper.pc = from /\ up /\ winStart = 0
    /\ scraper' = [scraper EXCEPT !.pc = to, !.todo = Tenants, !.total = 0]
    /\ UNCHANGED <<served, vars>>

\* Mistake: totalLeaseRequests adds up the zero grants too.
AddZeroGrants(total, t) == total + leaseRequests[t] + zeroGrants[t]

\* totalLeaseRequests, as the counters are loaded.
AddLeaseRequests(total, t) == total + leaseRequests[t]

\* The loop of handleStats, in any order of the map.
HandleStats(t) ==
    /\ scraper.pc \in {"first", "second"} /\ t \in scraper.todo
    /\ scraper' = [scraper EXCEPT !.todo = @ \ {t}, !.total = AddLeaseRequests(@, t)]
    /\ UNCHANGED <<served, vars>>

\* The first response is decoded: s0.
FirstReturn ==
    /\ scraper.pc = "first" /\ scraper.todo = {}
    /\ scraper' = [scraper EXCEPT !.pc = "measure", !.s0 = scraper.total, !.total = 0]
    /\ UNCHANGED <<served, vars>>

\* renews := totalLeaseRequests(s1) - totalLeaseRequests(s0)
Renews == scraper.total - scraper.s0

\* The second response is decoded: the scenario has its two totals.
SecondReturn ==
    /\ scraper.pc = "second" /\ scraper.todo = {}
    /\ scraper' = Over /\ served' = NoServed
    /\ UNCHANGED vars

\* A scrape fails by itself: the scenario ends with an error.
StatsError ==
    /\ scraper.pc \in {"first", "second"}
    /\ scraper' = Over /\ served' = NoServed
    /\ UNCHANGED vars

\* The coordinator's own steps, and what the history notes of them.
Scraping == scraper.pc \in {"first", "measure", "second"}

Lease(h, t) ==
    /\ HandleLease(h, t)
    /\ served' = IF Scraping THEN [served EXCEPT !.all = @ + 1,
                                     !.between = IF scraper.pc = "measure" THEN @ + 1 ELSE @]
                 ELSE served
    /\ UNCHANGED scraper

\* A scrape fails when the process dies under it.
ScrapeCrash ==
    /\ Crash
    /\ IF scraper.pc \in {"first", "second"}
       THEN scraper' = Over /\ served' = NoServed
       ELSE served' = [served EXCEPT !.restarted = Scraping] /\ UNCHANGED scraper

Others ==
    /\ \/ \E h \in Handlers, body \in Bodies \ Tenants : RefuseLease(h, body)
       \/ \E h \in Handlers : HandlerStep(h)
       \/ Start \/ Tick
       \/ scraper.pc = "idle" /\ OpenWindow
    /\ UNCHANGED <<scraper, served>>

ScrapeNext ==
    \/ CoordStats("idle", "first") \/ CoordStats("measure", "second")
    \/ \E t \in Tenants : HandleStats(t)
    \/ FirstReturn \/ SecondReturn \/ StatsError
    \/ \E h \in Handlers, t \in Tenants : Lease(h, t)
    \/ ScrapeCrash \/ Others

ScrapeSpec == ScrapeInit /\ [][ScrapeNext]_scrapeVars

-----------------------------------------------------------------------------
(* Properties *)

\* What the baseline reports as lease calls during the run is never more
\* than the coordinator served while it looked, not even when a restart put
\* the counters back to zero, so the check that workers do not call once per
\* request fails no healthy run; and without a restart no call between the
\* scrapes is missing from it.
DeltaHonest ==
    [][SecondReturn => /\ Renews <= served.all
                       /\ ~served.restarted => Renews >= served.between]_scrapeVars
=============================================================================
