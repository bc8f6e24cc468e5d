------------------------------ MODULE Harness -------------------------------
(***************************************************************************)
(* The evaluation harness: GET /run of internal/loadgen/server.go, the     *)
(* control of the scenarios of scenarios.go, and the cluster operations of *)
(* kube.go they use, next to the Kubernetes controllers, which act on      *)
(* their own.  A scenario injects its faults from goroutines of its own    *)
(* that nothing waits for; its context is cancelled when the client leaves *)
(* or the deadline passes, and in any case as handleRun returns.           *)
(*                                                                         *)
(* A pod is known by its deployment and template only.  Status.Observed-   *)
(* Generation = Generation is the flag `observed'.  A call of the API      *)
(* takes effect or fails, at once; with a cancelled context it fails.  One *)
(* kind of call may fail for its caller and take effect later: a Scale, if *)
(* the context was cancelled with the patch on its way.  An Update that    *)
(* comes late conflicts with whatever was written in the meantime, the     *)
(* status included; the case in which nothing was, and a pod Delete that   *)
(* comes late, are left out.                                               *)
(***************************************************************************)
EXTENDS Integers, Sequences, FiniteSets

CONSTANTS
    MaxRuns,        \* bound: requests of /run that get the slot
    Scenarios,      \* names of scenarios among AllScenarios
    Default,        \* worker replicas of every scenario but scaling, 2
    Phases,         \* worker replicas of the phases of scaling, <<1, 2, 4>>
    RetrySteps,     \* retry.DefaultBackoff.Steps
    MaxFailures,    \* bound: API calls and scrapes that fail by themselves, and
                    \*   patches that take effect after their caller gave up
    Mixed           \* a status whose counts differ

AllScenarios == {"baseline", "hot-tenant", "scaling", "worker-kill", "coordinator-kill"}

ASSUME HarnessAssumption ==
    /\ Scenarios \subseteq AllScenarios /\ MaxRuns \in Nat /\ Mixed \notin Nat
    /\ Default \in Nat \ {0, 1} /\ Phases \in Seq(Nat \ {0}) /\ Phases # <<>>
    /\ RetrySteps \in Nat \ {0} /\ MaxFailures \in Nat

\* Runs are numbered as they get the slot.
Runs  == 1..MaxRuns
NoRun == 0

VARIABLES
    slot,       \* who holds runMu
    run,        \* run[r]: the locals of handleRun, its scenario and ensure
    fault,      \* fault[r][f]: the goroutine that kills or restores
    dep,        \* the Deployment objects
    pods,       \* the pods of a deployment
    failures,
    late,       \* the patch that is still on its way, and how many there were
    clean,      \* history: the run before owes the cluster its steady state
    stray       \* history: deployments a late patch changed unnoticed

vars == <<slot, run, fault, dep, pods, failures, late, clean, stray>>
history == <<clean, stray>>

Deployments == {"coordinator", "worker"}

\* Before a run and after it.
NoLocals == [pc |-> "idle", sc |-> "none", phase |-> 1, live |-> FALSE, left |-> FALSE,
             copy |-> "none", tries |-> 0, measured |-> FALSE]
NoFault == [pc |-> "idle", n |-> 0]
NewDep == [exists |-> FALSE, replicas |-> 0, cpu |-> "default", observed |-> FALSE,
           status |-> 0]
NoPatch == [d |-> "none", n |-> 0]
NoPods == [cpu |-> "default", n |-> 0, ready |-> 0, marked |-> FALSE]

Init ==
    /\ slot = NoRun /\ clean = FALSE /\ stray = {} /\ failures = 0
    /\ late = [patch |-> NoPatch, count |-> 0]
    /\ run = [r \in Runs |-> NoLocals]
    /\ fault = [r \in Runs |-> [worker |-> NoFault, coordinator |-> NoFault,
                                restore |-> NoFault]]
    /\ dep = [d \in Deployments |-> NewDep]
    /\ pods = [d \in Deployments |-> NoPods]

cluster == <<dep, pods>>

\* Where handleRun is while it applies a deployment.
Applying == [coordinator |-> "apply coordinator", worker |-> "apply workers"]

\* What the scenario of r asks of ensure.
Want(r) == IF run[r].sc = "scaling" THEN Phases[run[r].phase] ELSE Default
CPU(r)  == IF run[r].sc = "scaling" THEN "scaling" ELSE "default"

\* coordinatorDeployment and workerDeployment: what ensure writes.
Wanted(r, d) == IF d = "coordinator" THEN [replicas |-> 1, cpu |-> "default"]
                                     ELSE [replicas |-> Want(r), cpu |-> CPU(r)]

Goto(r, pc) == run' = [run EXCEPT ![r].pc = pc]

\* A call with the run's context, and how it fails.
Live(r) == run[r].live
Troubles == failures + late.count
Fails(r) == IF Live(r) THEN Troubles < MaxFailures /\ failures' = failures + 1
                       ELSE UNCHANGED failures

\* The deferred calls use a context that the run's does not cancel.
FailsAlone == Troubles < MaxFailures /\ failures' = failures + 1

\* A write to d makes a copy read before it stale: an Update conflicts.
Overtaken(d, q) ==
    IF run[q].pc = Applying[d] /\ run[q].copy = "read"
    THEN [run[q] EXCEPT !.copy = "stale"] ELSE run[q]

-----------------------------------------------------------------------------
(* The controllers, modelled from how the scenarios use them *)

\* The ReplicaSets create the missing pods, or delete pods, the one marked
\* with the lowest deletion cost first; for a new template every pod of the
\* old one is deleted first (strategy Recreate).
Reconcile(d) ==
    LET p    == pods[d]
        want == dep[d].replicas
    IN  /\ dep[d].exists
        /\ \/ /\ p.cpu # dep[d].cpu
              /\ pods' = [pods EXCEPT ![d] = [NoPods EXCEPT !.cpu = dep[d].cpu]]
           \/ /\ p.cpu = dep[d].cpu /\ p.n < want
              /\ pods' = [pods EXCEPT ![d].n = want]
           \/ /\ p.cpu = dep[d].cpu /\ p.n > want
              /\ \E ready \in 0..want :
                   /\ ready <= p.ready /\ p.ready - ready <= p.n - want
                   /\ pods' = [pods EXCEPT ![d] =
                        [@ EXCEPT !.n = want, !.ready = ready, !.marked = FALSE]]
        /\ UNCHANGED <<slot, run, fault, dep, failures, late, history>>

\* A readiness probe succeeds.
PodReady(d) ==
    /\ pods[d].ready < pods[d].n
    /\ pods' = [pods EXCEPT ![d].ready = @ + 1]
    /\ UNCHANGED <<slot, run, fault, dep, failures, late, history>>

\* The deployment controller writes the status: replicas, updated and ready
\* ones are counted, and only one number for all three is told apart.
Observe(d) ==
    LET settled == pods[d].cpu = dep[d].cpu /\ pods[d].ready = pods[d].n
        seen == [dep[d] EXCEPT !.observed = TRUE,
                               !.status = IF settled THEN pods[d].n ELSE Mixed]
    IN  /\ dep[d].exists /\ seen # dep[d]
        /\ dep' = [dep EXCEPT ![d] = seen]
        /\ run' = [q \in Runs |-> Overtaken(d, q)]
        /\ UNCHANGED <<slot, fault, pods, failures, late, history>>

-----------------------------------------------------------------------------
(* kube.go *)

\* A write to the specification; the generation moves if it changes.
Respec(d, replicas, cpu) ==
    LET same == dep[d].replicas = replicas /\ dep[d].cpu = cpu
    IN  [dep EXCEPT ![d] = [@ EXCEPT !.exists = TRUE, !.replicas = replicas, !.cpu = cpu,
                                     !.observed = dep[d].observed /\ same]]

\* Scale: a merge patch, which never conflicts.
Scaled(d, replicas) == Respec(d, replicas, dep[d].cpu)

\* A patch that is on its way when its caller is cancelled.
Departs(r, d, replicas) ==
    /\ ~Live(r) /\ Troubles < MaxFailures /\ late.patch = NoPatch
    /\ late' = [patch |-> [d |-> d, n |-> replicas], count |-> late.count + 1]

\* The run with the slot has yet to write d.
Unwritten(d) ==
    slot # NoRun /\ run[slot].pc \in {"config", "apply coordinator", Applying[d]}

\* It arrives, at any moment.
LateScale ==
    LET d == late.patch.d
    IN  /\ late.patch # NoPatch
        /\ dep' = Scaled(d, late.patch.n)
        /\ run' = [q \in Runs |-> Overtaken(d, q)]
        /\ late' = [late EXCEPT !.patch = NoPatch]
        /\ stray' = IF Unwritten(d) THEN stray ELSE stray \cup {d}
        /\ UNCHANGED <<slot, fault, pods, failures, clean>>

\* Mistake: any status will do, also that of an earlier specification.
ReadyAny(d, replicas) ==
    dep[d].status = replicas

\* The test of WaitDeploymentReady.
Ready(d, replicas) ==
    dep[d].status = replicas /\ dep[d].observed

\* Mistake: the wait has no deadline, only the context ends it.
SettlesLate(r, from, done, to) ==
    /\ run[r].pc = from
    /\ \/ done /\ Goto(r, to)
       \/ ~Live(r) /\ Goto(r, "error")
    /\ UNCHANGED <<slot, fault, cluster, failures, late, history>>

\* WaitDeploymentReady and the other waits poll: they end well, or with an
\* error at the deadline or the end of the context.
Settles(r, from, done, to) ==
    /\ run[r].pc = from
    /\ \/ done /\ Goto(r, to)
       \/ Goto(r, "error")
    /\ UNCHANGED <<slot, fault, cluster, failures, late, history>>

\* applyDeployment reads the deployment ...
ApplyGet(r, d) ==
    /\ run[r].pc = Applying[d] /\ run[r].copy = "none"
    /\ \/ /\ Live(r)
          /\ run' = [run EXCEPT ![r].copy = IF dep[d].exists THEN "read" ELSE "absent"]
          /\ UNCHANGED failures
       \/ Fails(r) /\ Goto(r, "error")
    /\ UNCHANGED <<slot, fault, cluster, late, history>>

\* Mistake: one attempt too many.
RetriesOnceMore(r) == run[r].tries < RetrySteps

\* retry.OnError tries RetrySteps times.
Retries(r) == run[r].tries + 1 < RetrySteps

\* A status that is taken for that of the specification, and counts pods
\* that are gone.
Misleading(status, p) ==
    status.observed /\ status.status = status.replicas
        /\ ~(p.n = status.replicas /\ p.ready = p.n)

\* ... and creates or updates it; a conflict is retried.  A write that
\* changes nothing does not make the status anew: what a late patch and a
\* kill did together stays unnoticed.
ApplyPut(r, d) ==
    LET next == IF d = "coordinator" THEN Applying["worker"] ELSE "wait coordinator"
        conflict == run[r].copy = "stale" \/ (run[r].copy = "absent" /\ dep[d].exists)
    IN  /\ run[r].pc = Applying[d] /\ run[r].copy # "none"
        /\ \/ /\ Live(r) /\ ~conflict
              /\ dep' = Respec(d, Wanted(r, d).replicas, Wanted(r, d).cpu)
              /\ run' = [run EXCEPT ![r].pc = next, ![r].copy = "none", ![r].tries = 0]
              /\ stray' = IF Misleading(dep'[d], pods[d]) THEN stray ELSE stray \ {d}
              /\ UNCHANGED failures
           \/ /\ Live(r) /\ conflict
              /\ run' = [run EXCEPT ![r].copy = "none",
                           ![r].tries = IF Retries(r) THEN @ + 1 ELSE 0,
                           ![r].pc = IF Retries(r) THEN @ ELSE "error"]
              /\ UNCHANGED <<dep, failures, stray>>
           \/ /\ Fails(r) /\ Goto(r, "error") /\ UNCHANGED <<dep, stray>>
        /\ UNCHANGED <<slot, fault, pods, late, clean>>

\* What WaitAllWorkersReachable waits for: every worker pod has served a probe
\* through the Service, which only a pod that is ready can.
Reachable == pods["worker"].ready = pods["worker"].n

\* EnsureRateLimiter: both deployments applied, then both waited for, then
\* the worker Service answers.  Creating a Service has no effect here, and
\* its failure is one of the step that follows.
Ensure(r) ==
    \/ \E d \in Deployments : ApplyGet(r, d) \/ ApplyPut(r, d)
    \/ Settles(r, "wait coordinator", Live(r) /\ Ready("coordinator", 1), "wait workers")
    \/ Settles(r, "wait workers", Live(r) /\ Ready("worker", Want(r)), "wait http")
    \/ Settles(r, "wait http", pods["worker"].ready > 0,
               IF run[r].sc = "scaling" THEN "reach" ELSE "warmup")
    \/ Settles(r, "reach", Live(r) /\ Reachable, "warmup")

-----------------------------------------------------------------------------
(* The goroutines that inject faults *)

\* The kill of a worker, the kill of the coordinator, and its restoration.
Faults == {"worker", "coordinator", "restore"}

FaultGoto(r, f, pc) == fault' = [fault EXCEPT ![r][f] = [pc |-> pc, n |-> @.n]]

\* The API refuses a call of the fault f: an error is all it will print.
FaultFails(r, f) == Fails(r) /\ FaultGoto(r, f, "print") /\ UNCHANGED <<cluster, run>>

FaultScale(r, f, d, replicas, to) ==
    /\ fault[r][f].pc = "scale"
    /\ \/ /\ Live(r)
          /\ dep' = Scaled(d, replicas)
          /\ run' = [q \in Runs |-> Overtaken(d, q)]
          /\ FaultGoto(r, f, to) /\ UNCHANGED <<pods, failures, late>>
       \/ FaultFails(r, f) /\ UNCHANGED late
       \/ /\ Departs(r, d, replicas)
          /\ FaultGoto(r, f, "print") /\ UNCHANGED <<cluster, run, failures>>
    /\ UNCHANGED <<slot, history>>

\* pods: those that run, ready or not.
FaultList(r, d, least, to) ==
    /\ fault[r][d].pc = "list"
    /\ \/ /\ Live(r)
          /\ \E n \in pods[d].ready..pods[d].n :
               fault' = [fault EXCEPT ![r][d] =
                           [pc |-> IF n < least THEN "print" ELSE to, n |-> n]]
          /\ UNCHANGED <<cluster, run, failures>>
       \/ FaultFails(r, d)
    /\ UNCHANGED <<slot, late, history>>

\* The victim gets the lowest deletion cost.
FaultMark(r) ==
    /\ fault[r].worker.pc = "mark"
    /\ \/ /\ Live(r)
          /\ pods' = [pods EXCEPT !["worker"].marked = pods["worker"].n > 0]
          /\ FaultGoto(r, "worker", IF pods["worker"].n > 0 THEN "scale" ELSE "print")
          /\ UNCHANGED <<dep, run, failures>>
       \/ FaultFails(r, "worker")
    /\ UNCHANGED <<slot, late, history>>

\* A pod of d is deleted with no grace period, unless the controller was
\* faster.
Deleted(d, there) ==
    IF ~there THEN pods
    ELSE [pods EXCEPT ![d].n = @ - 1, ![d].marked = FALSE,
                      ![d].ready = IF @ = 0 THEN 0 ELSE @ - 1]

FaultDelete(r, d, there, to) ==
    /\ fault[r][d].pc = "delete"
    /\ \/ /\ Live(r)
          /\ pods' = Deleted(d, there)
          /\ FaultGoto(r, d, to) /\ UNCHANGED <<dep, run, failures>>
       \/ FaultFails(r, d)
    /\ UNCHANGED <<slot, late, history>>

\* Mistake: the victim is deleted before the deployment is scaled down.
KillDeletesFirst(r) ==
    \/ FaultList(r, "worker", 2, "delete")
    \/ FaultDelete(r, "worker", TRUE, "scale")
    \/ FaultScale(r, "worker", "worker", fault[r].worker.n - 1, "print")

\* KillOneWorkerNoReplacement: list, mark, scale, delete.
KillOneWorkerNoReplacement(r) ==
    \/ FaultList(r, "worker", 2, "mark")
    \/ FaultMark(r)
    \/ FaultScale(r, "worker", "worker", fault[r].worker.n - 1, "delete")
    \/ FaultDelete(r, "worker", pods["worker"].marked, "print")

\* KillCoordinator: scale to zero, list, delete what is listed.
KillCoordinator(r) ==
    \/ FaultScale(r, "coordinator", "coordinator", 0, "list")
    \/ FaultList(r, "coordinator", 1, "delete")
    \/ FaultDelete(r, "coordinator", pods["coordinator"].n > 0, "print")

\* RestoreCoordinator, from the goroutine: scale, then wait.
RestoreCoordinator(r) ==
    \/ FaultScale(r, "restore", "coordinator", 1, "wait")
    \/ /\ fault[r].restore.pc = "wait"
       /\ FaultGoto(r, "restore", "print")
       /\ UNCHANGED <<slot, run, cluster, failures, late, history>>

\* The goroutine reports on the response and ends.
FaultPrint(r, f) ==
    /\ fault[r][f].pc = "print"
    /\ fault' = [fault EXCEPT ![r][f] = [pc |-> "done", n |-> 0]]
    /\ UNCHANGED <<slot, run, cluster, failures, late, history>>

\* onSecond starts the kill at killAt and the restore at restoreAt, which is
\* so much later that the kill has made its calls.
StartFault(r, f) ==
    /\ run[r].pc = "measure" /\ fault[r][f].pc = "idle"
    /\ \/ f = "worker" /\ run[r].sc = "worker-kill" /\ FaultGoto(r, f, "list")
       \/ f = "coordinator" /\ run[r].sc = "coordinator-kill" /\ FaultGoto(r, f, "scale")
       \/ f = "restore" /\ fault[r].coordinator.pc = "done" /\ FaultGoto(r, f, "scale")
    /\ UNCHANGED <<slot, run, cluster, failures, late, history>>

FaultStep(r) == \/ KillOneWorkerNoReplacement(r) \/ KillCoordinator(r)
                \/ RestoreCoordinator(r)
                \/ \E f \in Faults : FaultPrint(r, f)

\* The goroutines that still have calls to make, waiting aside.
Calling(r) == {f \in Faults : fault[r][f].pc \notin {"idle", "wait", "done"}}

-----------------------------------------------------------------------------
(* handleRun and the scenarios *)

\* TryLock succeeds: the context is made and the response begins.  (A wrong
\* token, an unknown scenario or a slot that is taken is answered 401, 400 or
\* 409, and nothing changes.)
Request(r, sc) ==
    /\ slot = NoRun /\ slot' = r
    /\ run[r].pc = "idle" /\ \A q \in 1..(r - 1) : run[q].pc = "over"
    /\ run' = [run EXCEPT ![r] = [NoLocals EXCEPT !.pc = "config", !.sc = sc, !.live = TRUE]]
    /\ UNCHANGED <<fault, cluster, failures, late, history>>

LoadConfig(r) ==
    /\ run[r].pc = "config"
    /\ \/ Live(r) /\ Goto(r, Applying["coordinator"]) /\ UNCHANGED failures
       \/ Fails(r) /\ Goto(r, "error")
    /\ UNCHANGED <<slot, fault, cluster, late, history>>

\* The baseline scrapes the coordinator before and after its measurement.
Warmup(r) ==
    /\ run[r].pc = "warmup"
    /\ Goto(r, IF run[r].sc = "baseline" THEN "stats" ELSE "measure")
    /\ UNCHANGED <<slot, fault, cluster, failures, late, history>>

CoordStats(r) ==
    /\ run[r].pc = "stats"
    /\ \/ /\ Goto(r, IF run[r].measured THEN "verdict" ELSE "measure")
          /\ UNCHANGED failures
       \/ FailsAlone /\ Goto(r, "error")
    /\ UNCHANGED <<slot, fault, cluster, late, history>>

\* Driver.Run returns: early when the context ends, else at the end of the
\* duration, which leaves the faults the time to make their calls, and not
\* always the time to wait for the coordinator.
Measured(r) ==
    LET more == run[r].sc = "scaling" /\ run[r].phase < Len(Phases)
    IN  /\ run[r].pc = "measure"
        /\ Live(r) => Calling(r) = {}
        /\ run' = [run EXCEPT ![r] = [@ EXCEPT
             !.phase = IF more THEN run[r].phase + 1 ELSE run[r].phase,
             !.measured = ~more,
             !.pc = CASE more                                -> Applying["coordinator"]
                      [] run[r].sc = "scaling" /\ ~more      -> "rescale"
                      [] run[r].sc = "baseline"              -> "stats"
                      [] run[r].sc = "hot-tenant"            -> "verdict"
                      [] run[r].sc = "worker-kill"           -> "restore workers"
                      [] run[r].sc = "coordinator-kill"      -> "restore coordinator"]]
        /\ UNCHANGED <<slot, fault, cluster, failures, late, history>>

\* The end of scaling, with the run's own context.
Rescale(r) ==
    /\ run[r].pc = "rescale"
    /\ \/ /\ Live(r) /\ dep' = Scaled("worker", Default)
          /\ Goto(r, "verdict") /\ UNCHANGED <<failures, late>>
       \/ Fails(r) /\ Goto(r, "error") /\ UNCHANGED <<dep, late>>
       \/ /\ Departs(r, "worker", Default)
          /\ Goto(r, "error") /\ UNCHANGED <<dep, failures>>
    /\ UNCHANGED <<slot, fault, pods, history>>

\* Mistake: the deferred calls use the run's context.
DeferredScaleCancelled(r, from, d, replicas, to) ==
    /\ run[r].pc = from
    /\ \/ Live(r) /\ dep' = Scaled(d, replicas) /\ Goto(r, to) /\ UNCHANGED failures
       \/ Fails(r) /\ Goto(r, "verdict") /\ UNCHANGED dep
    /\ UNCHANGED <<slot, fault, pods, late, history>>

\* The deferred calls of the kill scenarios; their errors are ignored.
DeferredScale(r, from, d, replicas, to) ==
    /\ run[r].pc = from
    /\ \/ dep' = Scaled(d, replicas) /\ Goto(r, to) /\ UNCHANGED failures
       \/ FailsAlone /\ Goto(r, "verdict") /\ UNCHANGED dep
    /\ UNCHANGED <<slot, fault, pods, late, history>>

DeferredRestore(r) ==
    \/ DeferredScale(r, "restore workers", "worker", Default, "verdict")
    \/ DeferredScale(r, "restore coordinator", "coordinator", 1, "wait restored")
    \/ /\ run[r].pc = "wait restored"
       /\ Goto(r, "verdict")
       /\ UNCHANGED <<slot, fault, cluster, failures, late, history>>

\* renderChecks, or the report of an error: PASS or FAIL.
Verdict(r) ==
    /\ run[r].pc \in {"verdict", "error"}
    /\ Goto(r, "cancel")
    /\ UNCHANGED <<slot, fault, cluster, failures, late, history>>

\* Mistake: nothing cancels the context of a run that ends by itself.
CancelForgotten(r) ==
    /\ run[r].pc = "cancel"
    /\ Goto(r, "unlock")
    /\ UNCHANGED <<slot, fault, cluster, failures, late, history>>

\* defer cancel(), which runs before defer s.runMu.Unlock().
DeferredCancel(r) ==
    /\ run[r].pc = "cancel"
    /\ run' = [run EXCEPT ![r].pc = "unlock", ![r].live = FALSE]
    /\ UNCHANGED <<slot, fault, cluster, failures, late, history>>

\* The run owes a steady state if it went through its measurements, scaling
\* only if the client stayed.
DeferredUnlock(r) ==
    /\ run[r].pc = "unlock"
    /\ slot' = NoRun
    /\ clean' = (run[r].measured /\ (run[r].sc = "scaling" => ~run[r].left))
    /\ run' = [run EXCEPT ![r] = [NoLocals EXCEPT !.pc = "over", !.live = run[r].live]]
    /\ UNCHANGED <<fault, cluster, failures, late, stray>>

\* The client leaves, or the 12 minutes are over.
Disconnect(r) ==
    /\ slot = r /\ Live(r)
    /\ run' = [run EXCEPT ![r].live = FALSE, ![r].left = TRUE]
    /\ UNCHANGED <<slot, fault, cluster, failures, late, history>>

RunStep(r) == \/ LoadConfig(r) \/ Ensure(r) \/ Warmup(r) \/ CoordStats(r) \/ Measured(r)
              \/ Rescale(r) \/ DeferredRestore(r)
              \/ Verdict(r) \/ DeferredCancel(r) \/ DeferredUnlock(r)

Next == \/ \E r \in Runs, sc \in Scenarios : Request(r, sc)
        \/ \E r \in Runs : RunStep(r) \/ FaultStep(r) \/ Disconnect(r)
        \/ \E r \in Runs, f \in Faults : StartFault(r, f)
        \/ \E d \in Deployments : Reconcile(d) \/ PodReady(d) \/ Observe(d)
        \/ LateScale

\* Go runs runnable goroutines, and every wait has a deadline.  Nothing is
\* assumed of the controllers: pods may never become ready.
Spec == /\ Init /\ [][Next]_vars
        /\ \A r \in Runs : WF_vars(RunStep(r)) /\ WF_vars(FaultStep(r))

-----------------------------------------------------------------------------
(* Properties *)

PCs == {"idle", "config", "apply coordinator", "apply workers", "wait coordinator",
        "wait workers", "wait http", "reach", "warmup", "stats", "measure", "rescale",
        "restore workers", "restore coordinator", "wait restored", "error", "verdict",
        "cancel", "unlock", "over"}
FaultPCs == {"idle", "list", "mark", "scale", "delete", "wait", "print", "done"}

TypeOK ==
    /\ slot \in Runs \cup {NoRun} /\ clean \in BOOLEAN /\ failures \in 0..MaxFailures
    /\ \A r \in Runs : /\ run[r].pc \in PCs /\ run[r].phase \in DOMAIN Phases
                       /\ run[r].live \in BOOLEAN /\ run[r].tries \in 0..(RetrySteps - 1)
                       /\ \A f \in Faults : fault[r][f].pc \in FaultPCs
    /\ \A d \in Deployments :
         /\ dep[d].replicas \in Nat /\ dep[d].status \in Nat \cup {Mixed}
         /\ pods[d].n \in Nat /\ pods[d].ready \in 0..pods[d].n
    /\ late.count \in 0..MaxFailures /\ late.patch.n \in Nat
    /\ late.patch # NoPatch => late.patch.d \in Deployments
    /\ stray \subseteq Deployments

\* What is measured is what was asked for: from the end of ensure until the
\* first fault, the coordinator and exactly the wanted workers of the wanted
\* template run and are ready, whatever the run before left behind and
\* whatever its goroutines still do.  A patch of it that arrives late is
\* repaired too, unless it arrives after the setup wrote the deployment, or
\* met a kill and left a misleading status (the wait for readiness notices
\* neither).
Settled ==
    \A r \in Runs :
        /\ run[r].pc \in {"warmup", "stats", "measure"}
        /\ \A f \in Faults : fault[r][f].pc = "idle"
        => /\ "coordinator" \notin stray =>
                pods["coordinator"].n = 1 /\ pods["coordinator"].ready = 1
           /\ "worker" \notin stray =>
                pods["worker"].n = Want(r) /\ pods["worker"].ready = Want(r)
           /\ pods["worker"].cpu = CPU(r)

\* A goroutine that outlives its run starts no call any more: once another
\* run can have the slot, its context is cancelled.
Disarmed ==
    \A r \in Runs, f \in Faults :
        fault[r][f].pc \notin {"idle", "done"} /\ slot # r => ~Live(r)

\* A killed pod is not replaced: while a scenario measures, and until it
\* restores the coordinator, the controllers create no pod, but where a late
\* patch of an earlier run asks for it.
NoReplacement ==
    [][\A r \in Runs : run[r].pc = "measure" /\ fault[r].restore.pc = "idle" =>
         \A d \in Deployments \ stray : pods'[d].n <= pods[d].n]_vars

\* Steady state is restored although the client may leave at any moment: a
\* scenario that has ended its measurements leaves the default replicas,
\* unless the API failed; scaling only if the client stayed to the end.
\* Only a patch that was cancelled on its way can undo that.
SteadyRestored ==
    slot = NoRun /\ clean /\ failures = 0 =>
        /\ "coordinator" \notin stray => dep["coordinator"].replicas = 1
        /\ "worker" \notin stray => dep["worker"].replicas = Default

\* The slot is released whatever the cluster does: a run ends although pods
\* never become ready and calls fail.
RunEnds == \A r \in Runs : slot = r ~> slot # r

\* DESIGN.md section 4 on /run: the last line of the response is PASS or
\* FAIL.  While the response to a client that stayed is open, a goroutine
\* reports only before the verdict.
VerdictLast ==
    [][\A r \in Runs, f \in Faults :
         /\ fault[r][f].pc = "print" /\ fault'[r][f].pc = "done"
         /\ run[r].pc \in {"cancel", "unlock"}
         => run[r].left]_vars
=============================================================================
