----------------------------- MODULE LimiterLive ----------------------------
(***************************************************************************)
(* Limiter for ever: the clock never stops, and the coordinator may become *)
(* healthy for good.  Only differences between instants matter to the      *)
(* code, so when the clock reaches MaxClock the instants move down instead *)
(* of the clock moving up.  An instant that would leave the model is kept  *)
(* at 1: it is past, and stays past.  A goroutine that has read the clock  *)
(* is assumed to take the mutex before its reading leaves the model.       *)
(***************************************************************************)
EXTENDS Limiter

VARIABLE healthy    \* the coordinator answers every call with a grant

liveVars == <<vars, healthy>>

LiveInit == Init /\ healthy = FALSE

\* No goroutine has a step to take.
Quiet == /\ \A q \in Requests : \/ req[q].pc = "idle"
                                \/ req[q].pc = "wait" /\ req[q].done # Closed
                                                     /\ clock < req[q].until
         /\ \A r \in Renewers : renewer[r].pc = "idle"

Earlier(i) == IF i <= 1 THEN i ELSE i - 1

\* Readings of goroutines between their clock and their mutex.
Readings == {req[q].now : q \in {x \in Requests : req[x].pc \in {"lock", "relock"}}}
              \cup {renewer[r].now : r \in {x \in Renewers : renewer[x].pc = "lock"}}

Shift ==
    /\ clock = MaxClock /\ \A i \in Readings : i > 1
    /\ pool' = [k \in Keys |-> [pool[k] EXCEPT !.expiry = Earlier(@),
                  !.nextTry = Earlier(@), !.unknownUntil = Earlier(@)]]
    /\ req' = [q \in Requests |-> [req[q] EXCEPT
                  !.now = Earlier(@), !.until = Earlier(@)]]
    /\ renewer' = [r \in Renewers |-> [renewer[r] EXCEPT !.now = Earlier(@)]]
    /\ UNCHANGED clock

\* Time passes; next to a healthy coordinator it waits for the goroutines,
\* that is, a round trip and the steps after it take less than a tick.
Time == (healthy => Quiet) /\ (Tick \/ Shift) /\ UNCHANGED healthy

Heal == ~healthy /\ healthy' = TRUE /\ UNCHANGED vars

\* Next to a healthy coordinator requests come one after the other, so that
\* the goroutines of one instant are finitely many.
Arrive == /\ healthy => Quiet
          /\ \E q \in Requests, k \in Keys, c \in Costs : CheckStart(q, k, c)
          /\ UNCHANGED healthy

Decide(q) == CheckStep(q) /\ UNCHANGED healthy

Renew(r) == (RenewCall(r) \/ RenewLocked(r)) /\ UNCHANGED healthy

Answer(r) == /\ \E a \in Answers : (healthy => a.kind = "grant") /\ LeaseReturn(r, a)
             /\ UNCHANGED healthy

Kill == /\ ~healthy /\ \E w \in Workers : WorkerCrash(w)
        /\ UNCHANGED healthy

LiveNext == \/ Time \/ Arrive \/ Kill \/ Heal
            \/ \E q \in Requests : Decide(q)
            \/ \E r \in Renewers : Renew(r) \/ Answer(r)

\* Go runs every runnable goroutine, and time passes, however many requests
\* arrive at one instant.  A healthy coordinator answers; of one that is not
\* nothing is assumed, and a lease call to it may never return.
Scheduler == /\ SF_liveVars(Time)
             /\ \A q \in Requests : WF_liveVars(Decide(q))
             /\ \A r \in Renewers : /\ WF_liveVars(Renew(r))
                                    /\ WF_liveVars(healthy /\ Answer(r))

LiveSpec == LiveInit /\ [][LiveNext]_liveVars /\ Scheduler

-----------------------------------------------------------------------------
(* Properties *)

\* The request path never waits on the coordinator: every Check returns even
\* if no lease call ever does.
CheckReturns == \A q \in Requests : req[q].pc # "idle" ~> req[q].pc = "idle"

\* Recovery: whatever errors, zero grants, kills and negative answers came
\* before, once the coordinator answers for good some request is admitted
\* again if clients keep asking, so no path leaves a pool renewing, in
\* backoff or unknown for ever.
Recovers ==
    WF_liveVars(Arrive) => (healthy ~> \E q \in Requests : req[q].pc = "count" /\ req[q].admitted)
=============================================================================
