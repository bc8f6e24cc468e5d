---------------------------- MODULE HarnessProofs ----------------------------
(***************************************************************************)
(* Safety of the evaluation harness, for every number of runs, failures,   *)
(* phases and replicas: a goroutine that outlives its run is disarmed, the *)
(* measured cluster is the one that was asked for, a killed pod is not     *)
(* replaced, and the steady state is restored.                             *)
(*                                                                         *)
(* HInv relates the slot, the runs and their goroutines; CInv relates them *)
(* to the deployments and the pods.                                        *)
(***************************************************************************)
EXTENDS Harness, TLAPS

RunType == [pc : PCs, sc : AllScenarios \cup {"none"}, phase : DOMAIN Phases,
            live : BOOLEAN, left : BOOLEAN, copy : {"none", "read", "absent", "stale"},
            tries : 0..(RetrySteps - 1), measured : BOOLEAN]
FaultType == [pc : FaultPCs, n : Nat]
Templates == {"default", "scaling"}
DepType == [exists : BOOLEAN, replicas : Nat, cpu : Templates, observed : BOOLEAN,
            status : Nat \cup {Mixed}]
PodsType == [cpu : Templates, n : Nat, ready : Nat, marked : BOOLEAN]
PatchType == [d : Deployments, n : Nat] \cup {NoPatch}

HType ==
    /\ slot \in Runs \cup {NoRun} /\ clean \in BOOLEAN /\ stray \in SUBSET Deployments
    /\ failures \in Nat /\ late \in [patch : PatchType, count : Nat]
    /\ failures + late.count <= MaxFailures
    /\ run \in [Runs -> RunType] /\ fault \in [Runs -> [Faults -> FaultType]]
    /\ dep \in [Deployments -> DepType] /\ pods \in [Deployments -> PodsType]

\* No pod is ready that does not exist, nor marked.
Counted(d) == pods[d].ready <= pods[d].n /\ (pods[d].marked = TRUE => pods[d].n > 0)

\* Where no run, or where a run has not measured yet.
Resting == {"idle", "over"}
Setup == {"config", "apply coordinator", "apply workers", "wait coordinator",
          "wait workers", "wait http", "reach", "warmup"}

\* The states of a goroutine that has calls to make that change the cluster.
Armed == {"list", "mark", "scale", "delete"}

\* A run and its goroutines: the slot has one holder; who gave it back, or
\* is about to, has a cancelled context; goroutines belong to the scenario
\* that starts them, start in the measurement and, as long as the context
\* lasts, call in the measurement only.
Ruled(r) ==
    /\ run[r].pc \notin Resting <=> slot = r
    /\ run[r].pc \in Resting \cup {"unlock"} => run[r].live = FALSE
    /\ run[r].pc \notin Resting \cup {"unlock"} => run[r].live = TRUE \/ run[r].left = TRUE
    /\ run[r].pc \notin Resting => run[r].sc \in AllScenarios
    /\ run[r].pc \in Setup \cup {"measure"} => run[r].measured = FALSE
    /\ run[r].pc = "stats" => run[r].sc = "baseline"
    /\ run[r].pc = "rescale" => run[r].sc = "scaling"
    /\ run[r].pc \in {"idle"} \cup Setup => \A f \in Faults : fault[r][f].pc = "idle"
    /\ run[r].pc # "over" /\ fault[r]["worker"].pc # "idle" => run[r].sc = "worker-kill"
    /\ run[r].pc # "over" /\ fault[r]["coordinator"].pc # "idle" => run[r].sc = "coordinator-kill"
    /\ \A f \in Faults : fault[r][f].pc \in Armed /\ run[r].live = TRUE => run[r].pc = "measure"
    /\ fault[r]["restore"].pc # "idle" => fault[r]["coordinator"].pc = "done"
    /\ fault[r]["worker"].pc \in {"mark", "scale", "delete"} => fault[r]["worker"].n >= 2

HInv == HType /\ (\A d \in Deployments : Counted(d)) /\ \A r \in Runs : Ruled(r)

-----------------------------------------------------------------------------
(* The cluster *)

\* The status says that what is specified runs.
Claims(d) == dep[d].observed = TRUE /\ dep[d].status = dep[d].replicas

\* A status that counts pods is one of the present template, and a claim is
\* true of the pods, but where a late patch made it misleading.
Honest(d) ==
    /\ dep[d].observed = TRUE /\ dep[d].status \in Nat => pods[d].cpu = dep[d].cpu
    /\ Claims(d) /\ d \notin stray => pods[d].n = dep[d].replicas /\ pods[d].ready = pods[d].n

\* Where setup has written d, and where it has seen d become ready.
Seen(d) == {"wait http", "reach", "warmup", "stats", "measure"}
             \cup (IF d = "coordinator" THEN {"wait workers"} ELSE {})
Written(d) == Seen(d) \cup {"wait coordinator", "wait workers"}
                \cup (IF d = "coordinator" THEN {"apply workers"} ELSE {})

\* No fault of r has changed d.
Undisturbed(r, d) ==
    IF d = "worker" THEN fault[r]["worker"].pc \in {"idle", "list", "mark", "scale"}
                    ELSE fault[r]["coordinator"].pc \in {"idle", "scale"}

\* From the write of setup on, d is as it was asked for, until a fault.
Asked(r, d) ==
    run[r].pc \in Written(d) =>
        /\ dep[d].cpu = Wanted(r, d).cpu
        /\ d \notin stray /\ Undisturbed(r, d) => dep[d].replicas = Wanted(r, d).replicas

\* From the wait of setup on, it is also what runs.
Running(r, d) ==
    run[r].pc \in Seen(d) =>
        /\ pods[d].cpu = dep[d].cpu
        /\ d \notin stray /\ Undisturbed(r, d) => Claims(d)

\* A kill: the listed pods are all there are, the deployment is scaled down
\* before a pod goes, and there are never too few pods.
Killing(r) ==
    run[r].pc = "measure" =>
        /\ "worker" \notin stray =>
             /\ fault[r]["worker"].pc \in {"mark", "scale"} =>
                  fault[r]["worker"].n = dep["worker"].replicas
             /\ fault[r]["worker"].pc = "delete" /\ pods["worker"].marked = TRUE =>
                  pods["worker"].n > dep["worker"].replicas
        /\ "coordinator" \notin stray /\ fault[r]["coordinator"].pc \in {"list", "delete"} =>
             dep["coordinator"].replicas = 0
        /\ fault[r]["restore"].pc = "idle" =>
             \A d \in Deployments \ stray : pods[d].n >= dep[d].replicas

\* The steady state, and where a run that owes it has it for d.
Base(d) == IF d = "coordinator" THEN 1 ELSE Default
Kept(d) == {"stats", "verdict", "error", "cancel", "unlock", "wait restored"}
             \cup (IF d = "coordinator" THEN {"rescale", "restore workers"}
                                        ELSE {"restore coordinator"})
Owes(r) == run[r].measured = TRUE /\ (run[r].sc = "scaling" => run[r].left = FALSE)
Steady(r, d) ==
    run[r].pc \in Kept(d) /\ Owes(r) /\ failures = 0 /\ d \notin stray =>
        dep[d].replicas = Base(d)
Restored(d) == slot = NoRun /\ clean = TRUE /\ failures = 0 /\ d \notin stray =>
                 dep[d].replicas = Base(d)

CInv ==
    /\ \A d \in Deployments : Honest(d) /\ Restored(d)
    /\ \A r \in Runs, d \in Deployments : Asked(r, d) /\ Running(r, d) /\ Steady(r, d)
    /\ \A r \in Runs : Killing(r)

-----------------------------------------------------------------------------
(* The operators *)

LEMMA RunFields ==
    ASSUME HInv, NEW r \in Runs
    PROVE  /\ run[r] \in RunType /\ fault[r] \in [Faults -> FaultType] /\ Ruled(r)
           /\ run[r].pc \in PCs /\ run[r].phase \in DOMAIN Phases
           /\ run[r].live \in BOOLEAN /\ run[r].left \in BOOLEAN
           /\ run[r].measured \in BOOLEAN
           /\ Live(r) <=> run[r].live = TRUE
           /\ \A f \in Faults : fault[r][f] \in FaultType
    BY DEF HInv, HType, RunType, Live

LEMMA DepFields ==
    ASSUME HInv, NEW d \in Deployments
    PROVE  /\ dep[d] \in DepType /\ pods[d] \in PodsType /\ Counted(d)
           /\ dep[d].replicas \in Nat /\ dep[d].cpu \in Templates
           /\ dep[d].observed \in BOOLEAN /\ dep[d].status \in Nat \cup {Mixed}
           /\ pods[d].n \in Nat /\ pods[d].ready \in Nat /\ pods[d].cpu \in Templates
           /\ pods[d].marked \in BOOLEAN
    BY DEF HInv, HType, DepType, PodsType

\* What a write does: the generation stays only if the specification does.
Writes(d, n, c) ==
    /\ dep' = [dep EXCEPT ![d] = dep'[d]] /\ dep'[d] \in DepType
    /\ dep'[d].replicas = n /\ dep'[d].cpu = c /\ dep'[d].status = dep[d].status
    /\ dep'[d].observed = TRUE => dep[d].observed = TRUE /\ dep[d].replicas = n /\ dep[d].cpu = c

LEMMA RespecFacts ==
    ASSUME HInv, NEW d \in Deployments, NEW n \in Nat, NEW c \in Templates,
           dep' = Respec(d, n, c)
    PROVE  Writes(d, n, c)
<1>1. PICK y \in DepType : y = dep[d] /\ y.observed \in BOOLEAN
    BY DepFields
<1>2. PICK b \in BOOLEAN : b = (dep[d].observed /\ dep[d].replicas = n /\ dep[d].cpu = c)
    OBVIOUS
<1>3. b = TRUE => dep[d].observed = TRUE /\ dep[d].replicas = n /\ dep[d].cpu = c
    BY <1>1, <1>2
<1> DEFINE v == [y EXCEPT !.exists = TRUE, !.replicas = n, !.cpu = c, !.observed = b]
<1>4. Respec(d, n, c) = [dep EXCEPT ![d] = v]
    BY <1>1, <1>2 DEF Respec
<1>5. v \in DepType
    BY DEF DepType
<1>6. v.replicas = n /\ v.cpu = c /\ v.status = y.status /\ v.observed = b
    BY DEF DepType
<1> HIDE DEF v
<1>7. dep' = [dep EXCEPT ![d] = v] /\ dep'[d] = v
    BY <1>4 DEF HInv, HType
<1>8. QED
    BY <1>1, <1>3, <1>5, <1>6, <1>7 DEF Writes

\* The same for Scale, which leaves the template alone.
LEMMA ScaledFacts ==
    ASSUME HInv, NEW d \in Deployments, NEW n \in Nat, dep' = Scaled(d, n)
    PROVE  Writes(d, n, dep[d].cpu)
<1>1. PICK y \in DepType : y = dep[d] /\ y.observed \in BOOLEAN /\ y.cpu \in Templates
    BY DepFields
<1>2. PICK b \in BOOLEAN : b = (dep[d].observed /\ dep[d].replicas = n /\ dep[d].cpu = y.cpu)
    OBVIOUS
<1>3. b = TRUE => dep[d].observed = TRUE /\ dep[d].replicas = n
    BY <1>1, <1>2
<1> DEFINE v == [y EXCEPT !.exists = TRUE, !.replicas = n, !.cpu = y.cpu, !.observed = b]
<1>4. Scaled(d, n) = [dep EXCEPT ![d] = v]
    BY <1>1, <1>2 DEF Scaled, Respec
<1>5. v \in DepType
    BY <1>1 DEF DepType
<1>6. v.replicas = n /\ v.cpu = y.cpu /\ v.status = y.status /\ v.observed = b
    BY DEF DepType
<1> HIDE DEF v
<1>7. dep' = [dep EXCEPT ![d] = v] /\ dep'[d] = v
    BY <1>4 DEF HInv, HType
<1>8. QED
    BY <1>1, <1>3, <1>5, <1>6, <1>7 DEF Writes

\* What a step leaves alone of a run, whatever becomes of its copy.
SameRun(q) ==
    /\ run'[q].pc = run[q].pc /\ run'[q].sc = run[q].sc /\ run'[q].phase = run[q].phase
    /\ run'[q].live = run[q].live /\ run'[q].left = run[q].left
    /\ run'[q].measured = run[q].measured

LEMMA OvertakenSame ==
    ASSUME HInv, NEW d \in Deployments, run' = [q \in Runs |-> Overtaken(d, q)]
    PROVE  run' \in [Runs -> RunType] /\ \A q \in Runs : SameRun(q)
<1> SUFFICES ASSUME NEW q \in Runs PROVE run'[q] \in RunType /\ SameRun(q)
    OBVIOUS
<1>1. PICK x \in RunType : x = run[q]
    BY RunFields
<1> DEFINE v == [x EXCEPT !.copy = "stale"]
<1>2. run'[q] = x \/ run'[q] = v
    BY <1>1 DEF Overtaken
<1>3. v \in RunType
    BY DEF RunType
<1>4. /\ v.pc = x.pc /\ v.sc = x.sc /\ v.phase = x.phase /\ v.live = x.live
      /\ v.left = x.left /\ v.measured = x.measured
    BY DEF RunType
<1> HIDE DEF v
<1>5. QED
    BY <1>1, <1>2, <1>3, <1>4 DEF SameRun

\* A failure is counted, or costs nothing.
LEMMA FailsFacts ==
    ASSUME HInv, NEW r \in Runs, Fails(r) \/ FailsAlone \/ UNCHANGED failures,
           late' = late
    PROVE  /\ failures' \in Nat /\ failures' + late'.count <= MaxFailures
           /\ failures' = 0 => failures = 0
<1>1. failures \in Nat /\ late.count \in Nat /\ failures + late.count <= MaxFailures
    BY DEF HInv, HType
<1>2. failures' = failures \/ (failures' = failures + 1 /\ failures + late.count < MaxFailures)
    BY DEF Fails, FailsAlone, Troubles
<1>3. QED
    BY <1>1, <1>2, HarnessAssumption

-----------------------------------------------------------------------------
(* The runs and their goroutines *)

LEMMA RuledSame ==
    ASSUME NEW q \in Runs, Ruled(q), SameRun(q), slot' = slot, fault'[q] = fault[q]
    PROVE  Ruled(q)'
    BY DEF Ruled, SameRun

LEMMA RuledOther ==
    ASSUME NEW q \in Runs, Ruled(q), run'[q] = run[q], slot' = q <=> slot = q,
           fault'[q] = fault[q]
    PROVE  Ruled(q)'
    BY DEF Ruled

\* The holder of the slot goes on, from where it may to where it may.
LEMMA RunMoves ==
    ASSUME HInv, NEW r \in Runs, NEW v \in RunType, run' = [run EXCEPT ![r] = v],
           UNCHANGED <<slot, fault>>,
           run[r].pc \notin Resting \cup {"unlock"}, v.pc \notin Resting \cup {"unlock"},
           v.sc = run[r].sc, v.live = run[r].live, v.left = run[r].left,
           v.pc \in Setup => run[r].pc \in Setup \/ run[r].sc = "scaling",
           v.pc = "stats" => run[r].sc = "baseline",
           v.pc = "rescale" => run[r].sc = "scaling",
           v.pc \in Setup \cup {"measure"} => v.measured = FALSE,
           run[r].pc = "measure" /\ v.pc # "measure" /\ run[r].live = TRUE =>
             \A f \in Faults : fault[r][f].pc \notin Armed
    PROVE  run' \in [Runs -> RunType] /\ \A q \in Runs : Ruled(q)'
<1>1. run' \in [Runs -> RunType] /\ run'[r] = v
    BY DEF HInv, HType
<1>2. ASSUME NEW q \in Runs, q # r PROVE Ruled(q)'
  <2>1. run'[q] = run[q] /\ Ruled(q)
      BY <1>2 DEF HInv, HType
  <2>2. QED
      BY <2>1, RuledOther
<1>3. Ruled(r)
    BY RunFields
<1>4. v.pc \in Setup => \A f \in Faults : fault[r][f].pc = "idle"
  <2>1. CASE run[r].pc \in Setup
      BY <1>3, <2>1 DEF Ruled
  <2>2. CASE run[r].sc = "scaling"
    <3>1. run[r].pc # "over"
        BY DEF Resting
    <3>2. fault[r]["worker"].pc = "idle" /\ fault[r]["coordinator"].pc = "idle"
        BY <1>3, <2>2, <3>1 DEF Ruled
    <3>3. fault[r]["restore"].pc = "idle"
        BY <1>3, <3>2 DEF Ruled
    <3>4. QED
        BY <3>2, <3>3 DEF Faults
  <2>3. QED
      BY <2>1, <2>2
<1>5. ASSUME NEW f \in Faults, fault[r][f].pc \in Armed, v.live = TRUE PROVE v.pc = "measure"
    BY <1>3, <1>5 DEF Ruled
<1>6. Ruled(r)'
    BY <1>1, <1>3, <1>4, <1>5 DEF Ruled, Resting, Setup
<1>7. QED
    BY <1>1, <1>2, <1>6

\* A goroutine of r goes on.
LEMMA FaultMoves ==
    ASSUME HInv, NEW r \in Runs, NEW f \in Faults, NEW x \in FaultType,
           fault' = [fault EXCEPT ![r][f] = x], slot' = slot,
           run' \in [Runs -> RunType], \A q \in Runs : SameRun(q),
           fault[r][f].pc # "done", x.pc # "idle",
           \/ fault[r][f].pc # "idle"
           \/ /\ run[r].pc = "measure"
              /\ f = "worker" => run[r].sc = "worker-kill"
              /\ f = "coordinator" => run[r].sc = "coordinator-kill"
              /\ f = "restore" => fault[r]["coordinator"].pc = "done",
           x.pc \in Armed => fault[r][f].pc \in Armed \/ run[r].pc = "measure",
           f = "worker" /\ x.pc \in {"mark", "scale", "delete"} => x.n >= 2
    PROVE  fault' \in [Runs -> [Faults -> FaultType]] /\ \A q \in Runs : Ruled(q)'
<1>1. PICK F \in [Faults -> FaultType] : F = fault[r]
    BY RunFields
<1>2. PICK G \in [Faults -> FaultType] : G = [F EXCEPT ![f] = x]
    OBVIOUS
<1>3. fault' = [fault EXCEPT ![r] = G]
    BY <1>1, <1>2
<1>4. fault' \in [Runs -> [Faults -> FaultType]] /\ fault'[r] = G
    BY <1>3 DEF HInv, HType
<1>5. ASSUME NEW q \in Runs, q # r PROVE Ruled(q)'
  <2>1. fault'[q] = fault[q] /\ Ruled(q)
      BY <1>3, <1>5 DEF HInv, HType
  <2>2. QED
      BY <2>1, RuledSame
<1>6. Ruled(r) /\ SameRun(r)
    BY RunFields
<1>7. G[f] = x /\ \A g \in Faults : g # f => G[g] = F[g]
    BY <1>2
<1>8. run[r].pc \notin {"idle"} \cup Setup
  <2>1. CASE fault[r][f].pc # "idle"
      BY <1>6, <2>1 DEF Ruled
  <2>2. CASE run[r].pc = "measure"
      BY <2>2 DEF Setup
  <2>3. QED
      BY <2>1, <2>2
<1>9. /\ run[r].pc # "over" /\ G["worker"].pc # "idle" => run[r].sc = "worker-kill"
      /\ run[r].pc # "over" /\ G["coordinator"].pc # "idle" => run[r].sc = "coordinator-kill"
    BY <1>1, <1>6, <1>7 DEF Ruled, Faults
<1>10. ASSUME NEW g \in Faults, G[g].pc \in Armed, run[r].live = TRUE
       PROVE  run[r].pc = "measure"
    BY <1>1, <1>6, <1>7, <1>10 DEF Ruled
<1>11. G["restore"].pc # "idle" => G["coordinator"].pc = "done"
  <2>1. CASE f = "worker"
      BY <1>1, <1>6, <1>7, <2>1 DEF Ruled, Faults
  <2>2. CASE f = "coordinator"
      BY <1>1, <1>6, <1>7, <2>2 DEF Ruled, Faults
  <2>3. CASE f = "restore"
      BY <1>1, <1>6, <1>7, <2>3 DEF Ruled, Faults
  <2>4. QED
      BY <2>1, <2>2, <2>3 DEF Faults
<1>12. G["worker"].pc \in {"mark", "scale", "delete"} => G["worker"].n >= 2
    BY <1>1, <1>6, <1>7 DEF Ruled, Faults
<1>13. Ruled(r)'
    BY <1>4, <1>6, <1>8, <1>9, <1>10, <1>11, <1>12 DEF Ruled, SameRun
<1>14. QED
    BY <1>4, <1>5, <1>13

\* A step keeps the counts of what went wrong, and the types of the cluster.
Books == /\ failures' \in Nat /\ late' \in [patch : PatchType, count : Nat]
         /\ failures' + late'.count <= MaxFailures
         /\ failures' = 0 => failures = 0
ClusterKept == /\ dep' \in [Deployments -> DepType] /\ pods' \in [Deployments -> PodsType]
               /\ \A d \in Deployments : Counted(d)'

LEMMA BooksSame ==
    ASSUME HInv, NEW r \in Runs, Fails(r) \/ FailsAlone \/ UNCHANGED failures, late' = late
    PROVE  Books
    BY FailsFacts DEF Books, HInv, HType

LEMMA BooksDepart ==
    ASSUME HInv, NEW r \in Runs, NEW d \in Deployments, NEW n \in Nat, Departs(r, d, n),
           failures' = failures
    PROVE  Books
<1>1. failures \in Nat /\ late.count \in Nat /\ failures + late.count <= MaxFailures
    BY DEF HInv, HType
<1>2. failures + late.count < MaxFailures
    BY DEF Departs, Troubles
<1>3. PICK p \in PatchType : p = [d |-> d, n |-> n]
    BY DEF PatchType
<1>4. late' = [patch |-> p, count |-> late.count + 1]
    BY <1>3 DEF Departs
<1>5. QED
    BY <1>1, <1>2, <1>4, HarnessAssumption DEF Books

LEMMA ClusterSame ==
    ASSUME HInv, UNCHANGED cluster
    PROVE  ClusterKept
    BY DEF ClusterKept, cluster, HInv, HType, Counted

LEMMA ClusterWritten ==
    ASSUME HInv, NEW d \in Deployments, NEW n, NEW c, Writes(d, n, c), pods' = pods
    PROVE  ClusterKept
<1>1. dep' = [dep EXCEPT ![d] = dep'[d]] /\ dep'[d] \in DepType
    BY DEF Writes
<1>2. dep' \in [Deployments -> DepType]
    BY <1>1 DEF HInv, HType
<1>3. QED
    BY <1>2 DEF ClusterKept, HInv, HType, Counted

LEMMA HInvKept ==
    ASSUME HInv, Books, ClusterKept, run' \in [Runs -> RunType],
           fault' \in [Runs -> [Faults -> FaultType]], \A q \in Runs : Ruled(q)',
           slot' \in Runs \cup {NoRun}, clean' \in BOOLEAN, stray' \in SUBSET Deployments
    PROVE  HInv'
    BY DEF HInv, HType, Books, ClusterKept

\* What a run does by itself: its locals change.
LEMMA GotoFacts ==
    ASSUME HInv, NEW r \in Runs, NEW to \in PCs, Goto(r, to), NEW v, v = run'[r]
    PROVE  /\ v \in RunType /\ run' = [run EXCEPT ![r] = v] /\ v.pc = to
           /\ v.sc = run[r].sc /\ v.phase = run[r].phase /\ v.live = run[r].live
           /\ v.left = run[r].left /\ v.measured = run[r].measured
<1>1. PICK x \in RunType : x = run[r]
    BY RunFields
<1> DEFINE w == [x EXCEPT !.pc = to]
<1>2. run' = [run EXCEPT ![r] = w]
    BY <1>1 DEF Goto
<1>3. w \in RunType
    BY DEF RunType
<1>4. /\ w.pc = to /\ w.sc = x.sc /\ w.phase = x.phase /\ w.live = x.live
      /\ w.left = x.left /\ w.measured = x.measured
    BY DEF RunType
<1> HIDE DEF w
<1>5. v = w
    BY <1>2 DEF HInv, HType
<1>6. QED
    BY <1>1, <1>2, <1>3, <1>4, <1>5

LEMMA GotoRuled ==
    ASSUME HInv, NEW r \in Runs, NEW to \in PCs, Goto(r, to), UNCHANGED <<slot, fault>>,
           run[r].pc \notin Resting \cup {"unlock", "measure"},
           to \notin Resting \cup {"unlock", "rescale"},
           to \in Setup => run[r].pc \in Setup,
           to = "stats" => run[r].sc = "baseline",
           to = "measure" => run[r].measured = FALSE
    PROVE  /\ run' \in [Runs -> RunType] /\ \A q \in Runs : Ruled(q)'
           /\ fault' \in [Runs -> [Faults -> FaultType]]
<1>1. PICK v : v = run'[r]
    OBVIOUS
<1>2. /\ v \in RunType /\ run' = [run EXCEPT ![r] = v] /\ v.pc = to
      /\ v.sc = run[r].sc /\ v.live = run[r].live
      /\ v.left = run[r].left /\ v.measured = run[r].measured
    BY <1>1, GotoFacts
<1>3. to \in Setup => run[r].measured = FALSE
    BY RunFields DEF Ruled
<1>4. run' \in [Runs -> RunType] /\ \A q \in Runs : Ruled(q)'
    BY <1>2, <1>3, RunMoves
<1>5. QED
    BY <1>4 DEF HInv, HType

\* A move that leaves the cluster alone, and one that writes a deployment.
LEMMA GotoHInv ==
    ASSUME HInv, NEW r \in Runs, NEW to \in PCs, Goto(r, to),
           UNCHANGED <<slot, fault, history>>, Books, ClusterKept,
           run[r].pc \notin Resting \cup {"unlock", "measure"},
           to \notin Resting \cup {"unlock", "rescale"},
           to \in Setup => run[r].pc \in Setup,
           to = "stats" => run[r].sc = "baseline",
           to = "measure" => run[r].measured = FALSE
    PROVE  HInv'
<1>1. /\ run' \in [Runs -> RunType] /\ \A q \in Runs : Ruled(q)'
      /\ fault' \in [Runs -> [Faults -> FaultType]]
    BY GotoRuled
<1>2. /\ slot' \in Runs \cup {NoRun} /\ clean' \in BOOLEAN
      /\ stray' \in SUBSET Deployments
    BY DEF HInv, HType, history
<1>3. QED
    BY <1>1, <1>2, HInvKept

LEMMA NoLocalsType ==
    NoLocals \in RunType
<1>1. 1 \in DOMAIN Phases /\ 0 \in 0..(RetrySteps - 1)
    BY HarnessAssumption
<1>2. QED
    BY <1>1 DEF NoLocals, RunType, PCs

LEMMA InitHInv ==
    ASSUME Init
    PROVE  HInv
<1>1. NoLocals \in RunType
    BY NoLocalsType
<1>2. \A r \in Runs : fault[r] \in [Faults -> FaultType] /\ \A f \in Faults : fault[r][f] = NoFault
  <2>1. NoFault \in FaultType
      BY DEF NoFault, FaultType, FaultPCs
  <2>2. QED
      BY <2>1 DEF Init, Faults
<1>3. fault \in [Runs -> [Faults -> FaultType]]
    BY <1>2 DEF Init
<1>4. NewDep \in DepType /\ NoPods \in PodsType
    BY DEF NewDep, NoPods, DepType, PodsType, Templates
<1>5. late \in [patch : PatchType, count : Nat] /\ late.count = 0
    BY DEF Init, PatchType
<1>6. HType
  <2>1. dep \in [Deployments -> DepType] /\ pods \in [Deployments -> PodsType]
      BY <1>4 DEF Init
  <2>2. run \in [Runs -> RunType]
      BY <1>1 DEF Init
  <2>3. /\ slot \in Runs \cup {NoRun} /\ clean \in BOOLEAN /\ stray \in SUBSET Deployments
        /\ failures = 0
      BY DEF Init
  <2>4. QED
      BY <1>3, <1>5, <2>1, <2>2, <2>3, HarnessAssumption DEF HType
<1>7. \A d \in Deployments : Counted(d)
    BY DEF Init, Counted, NoPods
<1>8. ASSUME NEW r \in Runs PROVE Ruled(r)
  <2>1. run[r].pc = "idle" /\ run[r].live = FALSE /\ slot # r
      BY DEF Init, NoLocals, Runs, NoRun
  <2>2. \A f \in Faults : fault[r][f].pc = "idle"
      BY <1>2 DEF NoFault
  <2>3. QED
      BY <2>1, <2>2 DEF Ruled, Resting, Setup, Faults, Armed
<1>9. QED
    BY <1>6, <1>7, <1>8 DEF HInv

LEMMA RequestHInv ==
    ASSUME HInv, NEW r \in Runs, NEW sc \in Scenarios, Request(r, sc)
    PROVE  HInv'
<1>1. sc \in AllScenarios
    BY HarnessAssumption
<1>2. PICK x \in RunType : x = NoLocals /\ x.measured = FALSE
    BY NoLocalsType DEF NoLocals
<1> DEFINE v == [x EXCEPT !.pc = "config", !.sc = sc, !.live = TRUE]
<1>3. v \in RunType
    BY <1>1 DEF RunType, PCs
<1>4. v.pc = "config" /\ v.sc = sc /\ v.live = TRUE /\ v.measured = FALSE
    BY <1>1, <1>2 DEF RunType
<1>5. run' = [run EXCEPT ![r] = v]
    BY <1>2 DEF Request
<1> HIDE DEF v
<1>6. run' \in [Runs -> RunType] /\ run'[r] = v
    BY <1>3, <1>5 DEF HInv, HType
<1>7. slot = NoRun /\ slot' = r /\ fault' = fault /\ run[r].pc = "idle"
    BY DEF Request
<1>8. ASSUME NEW q \in Runs PROVE Ruled(q)'
  <2>1. Ruled(q) /\ Ruled(r)
      BY RunFields
  <2>2. CASE q = r
    <3>1. \A f \in Faults : fault[r][f].pc = "idle"
        BY <1>7, <2>1 DEF Ruled
    <3>2. QED
        BY <1>1, <1>4, <1>6, <1>7, <2>2, <3>1 DEF Ruled, Resting, Setup, Armed, Faults
  <2>3. CASE q # r
    <3>1. run'[q] = run[q] /\ slot # q
        BY <1>5, <1>7, <2>3 DEF HInv, HType, Runs, NoRun
    <3>2. QED
        BY <1>7, <2>1, <2>3, <3>1, RuledOther
  <2>4. QED
      BY <2>2, <2>3
<1>9. Books /\ ClusterKept
    BY BooksSame, ClusterSame DEF Request, cluster
<1>10. /\ slot' \in Runs \cup {NoRun} /\ clean' \in BOOLEAN /\ stray' \in SUBSET Deployments
       /\ fault' \in [Runs -> [Faults -> FaultType]]
    BY DEF HInv, HType, history, Request
<1>11. QED
    BY <1>6, <1>8, <1>9, <1>10, HInvKept

LEMMA LoadConfigHInv ==
    ASSUME HInv, NEW r \in Runs, LoadConfig(r)
    PROVE  HInv'
<1>1. Books /\ ClusterKept
    BY BooksSame, ClusterSame DEF LoadConfig
<1>2. PICK to \in {"apply coordinator", "error"} : Goto(r, to)
    BY DEF LoadConfig, Applying
<1>3. run[r].pc = "config" /\ UNCHANGED <<slot, fault, history>>
    BY DEF LoadConfig
<1>4. QED
    BY <1>1, <1>2, <1>3, GotoHInv DEF PCs, Resting, Setup

LEMMA SettlesHInv ==
    ASSUME HInv, NEW r \in Runs, NEW from \in Setup, NEW to \in Setup, NEW done,
           Settles(r, from, done, to)
    PROVE  HInv'
<1>1. Books /\ ClusterKept
    BY BooksSame, ClusterSame DEF Settles
<1>2. PICK t \in {to, "error"} : Goto(r, t)
    BY DEF Settles
<1>3. run[r].pc = from /\ UNCHANGED <<slot, fault, history>>
    BY DEF Settles
<1>4. QED
    BY <1>1, <1>2, <1>3, GotoHInv DEF PCs, Resting, Setup

LEMMA WarmupHInv ==
    ASSUME HInv, NEW r \in Runs, Warmup(r)
    PROVE  HInv'
<1>1. Books /\ ClusterKept
    BY BooksSame, ClusterSame DEF Warmup
<1>2. PICK to \in {"stats", "measure"} :
        Goto(r, to) /\ (to = "stats" => run[r].sc = "baseline")
    BY DEF Warmup
<1>3. run[r].pc = "warmup" /\ UNCHANGED <<slot, fault, history>>
    BY DEF Warmup
<1>4. run[r].measured = FALSE
    BY <1>3, RunFields DEF Ruled, Setup
<1>5. QED
    BY <1>1, <1>2, <1>3, <1>4, GotoHInv DEF PCs, Resting, Setup

LEMMA CoordStatsHInv ==
    ASSUME HInv, NEW r \in Runs, CoordStats(r)
    PROVE  HInv'
<1>1. Books /\ ClusterKept
    BY BooksSame, ClusterSame DEF CoordStats
<1>2. run[r].measured \in BOOLEAN
    BY RunFields
<1>3. PICK to \in {"verdict", "measure", "error"} :
        Goto(r, to) /\ (to = "measure" => run[r].measured = FALSE)
    BY <1>2 DEF CoordStats
<1>4. run[r].pc = "stats" /\ UNCHANGED <<slot, fault, history>>
    BY DEF CoordStats
<1>5. QED
    BY <1>1, <1>3, <1>4, GotoHInv DEF PCs, Resting, Setup

LEMMA VerdictHInv ==
    ASSUME HInv, NEW r \in Runs, Verdict(r)
    PROVE  HInv'
<1>1. Books /\ ClusterKept
    BY BooksSame, ClusterSame DEF Verdict
<1>2. run[r].pc \in {"verdict", "error"} /\ Goto(r, "cancel") /\ UNCHANGED <<slot, fault, history>>
    BY DEF Verdict
<1>3. QED
    BY <1>1, <1>2, GotoHInv DEF PCs, Resting, Setup

\* What r asks for is a number of replicas and a template.
LEMMA WantedFacts ==
    ASSUME HInv, NEW r \in Runs, NEW d \in Deployments
    PROVE  /\ Wanted(r, d).replicas \in Nat \ {0} /\ Wanted(r, d).cpu \in Templates
           /\ Wanted(r, "coordinator").replicas = 1
           /\ Wanted(r, "coordinator").cpu = "default"
           /\ Wanted(r, "worker").replicas = Want(r) /\ Wanted(r, "worker").cpu = CPU(r)
<1>1. run[r].phase \in DOMAIN Phases
    BY RunFields
<1>2. Want(r) \in Nat \ {0}
    BY <1>1, HarnessAssumption DEF Want
<1>3. CPU(r) \in Templates /\ "default" \in Templates
    BY DEF CPU, Templates
<1>4. QED
    BY <1>2, <1>3 DEF Wanted, Deployments

LEMMA ApplyingFacts ==
    /\ Applying["coordinator"] = "apply coordinator" /\ Applying["worker"] = "apply workers"
    /\ \A d \in Deployments : Applying[d] \in {"apply coordinator", "apply workers"}
    BY DEF Applying, Deployments

LEMMA ApplyGetHInv ==
    ASSUME HInv, NEW r \in Runs, NEW d \in Deployments, ApplyGet(r, d)
    PROVE  HInv'
<1>1. Books /\ ClusterKept
    BY BooksSame, ClusterSame DEF ApplyGet
<1>2. run[r].pc \in {"apply coordinator", "apply workers"} /\ UNCHANGED <<slot, fault, history>>
    BY ApplyingFacts DEF ApplyGet
<1>3. CASE Goto(r, "error")
    BY <1>1, <1>2, <1>3, GotoHInv DEF PCs, Resting, Setup
<1>4. ASSUME NEW c \in {"read", "absent"}, run' = [run EXCEPT ![r].copy = c]
      PROVE  HInv'
  <2>1. PICK x \in RunType : x = run[r] /\ x.measured = FALSE
      BY <1>2, RunFields DEF Ruled, Setup
  <2> DEFINE v == [x EXCEPT !.copy = c]
  <2>2. v \in RunType /\ run' = [run EXCEPT ![r] = v]
      BY <1>4, <2>1 DEF RunType
  <2>3. /\ v.pc = x.pc /\ v.sc = x.sc /\ v.live = x.live /\ v.left = x.left
        /\ v.measured = FALSE
      BY <2>1 DEF RunType
  <2> HIDE DEF v
  <2>4. run' \in [Runs -> RunType] /\ \A q \in Runs : Ruled(q)'
      BY <1>2, <2>1, <2>2, <2>3, RunMoves DEF Resting, Setup
  <2>5. /\ slot' \in Runs \cup {NoRun} /\ clean' \in BOOLEAN /\ stray' \in SUBSET Deployments
        /\ fault' \in [Runs -> [Faults -> FaultType]]
      BY <1>2 DEF HInv, HType, history
  <2>6. QED
      BY <1>1, <2>4, <2>5, HInvKept
<1>5. QED
    BY <1>3, <1>4 DEF ApplyGet

\* The write of setup: where it takes the run.
PutTo(d) == IF d = "coordinator" THEN "apply workers" ELSE "wait coordinator"
PutRun(r, d) == run' = [run EXCEPT ![r].pc = PutTo(d), ![r].copy = "none", ![r].tries = 0]
ConflictRun(r) == run' = [run EXCEPT ![r].copy = "none",
                            ![r].tries = IF Retries(r) THEN @ + 1 ELSE 0,
                            ![r].pc = IF Retries(r) THEN @ ELSE "error"]

LEMMA PutFacts ==
    ASSUME HInv, NEW r \in Runs, NEW d \in Deployments, PutRun(r, d), NEW v, v = run'[r]
    PROVE  /\ v \in RunType /\ run' = [run EXCEPT ![r] = v] /\ v.pc = PutTo(d)
           /\ v.sc = run[r].sc /\ v.phase = run[r].phase /\ v.live = run[r].live
           /\ v.left = run[r].left /\ v.measured = run[r].measured
<1>1. PICK x \in RunType : x = run[r]
    BY RunFields
<1>2. PICK to \in PCs : to = PutTo(d)
    BY DEF PutTo, PCs
<1> DEFINE w == [x EXCEPT !.pc = to, !.copy = "none", !.tries = 0]
<1>3. run' = [run EXCEPT ![r] = w]
    BY <1>1, <1>2 DEF HInv, HType, PutRun
<1>4. w \in RunType
  <2>1. 0 \in 0..(RetrySteps - 1)
      BY HarnessAssumption
  <2>2. QED
      BY <2>1 DEF RunType
<1>5. /\ w.pc = to /\ w.sc = x.sc /\ w.phase = x.phase /\ w.live = x.live
      /\ w.left = x.left /\ w.measured = x.measured
    BY DEF RunType
<1> HIDE DEF w
<1>6. v = w
    BY <1>3 DEF HInv, HType
<1>7. QED
    BY <1>1, <1>2, <1>3, <1>4, <1>5, <1>6

\* A conflict: the next attempt, or the error of the last one.
LEMMA ConflictFacts ==
    ASSUME HInv, NEW r \in Runs, ConflictRun(r), NEW v, v = run'[r]
    PROVE  /\ v \in RunType /\ run' = [run EXCEPT ![r] = v] /\ v.pc \in {run[r].pc, "error"}
           /\ v.sc = run[r].sc /\ v.phase = run[r].phase /\ v.live = run[r].live
           /\ v.left = run[r].left /\ v.measured = run[r].measured
<1>1. PICK x \in RunType : x = run[r]
    BY RunFields
<1>2. PICK to \in PCs : to = IF Retries(r) THEN x.pc ELSE "error"
    BY DEF PCs, RunType
<1>3. PICK t \in 0..(RetrySteps - 1) : t = IF Retries(r) THEN x.tries + 1 ELSE 0
  <2>1. x.tries \in 0..(RetrySteps - 1) /\ x.tries = run[r].tries
      BY <1>1 DEF RunType
  <2>2. QED
      BY <2>1, HarnessAssumption DEF Retries
<1> DEFINE w == [x EXCEPT !.copy = "none", !.tries = t, !.pc = to]
<1>4. run' = [run EXCEPT ![r] = w]
    BY <1>1, <1>2, <1>3 DEF HInv, HType, ConflictRun
<1>5. w \in RunType
    BY DEF RunType
<1>6. /\ w.pc = to /\ w.sc = x.sc /\ w.phase = x.phase /\ w.live = x.live
      /\ w.left = x.left /\ w.measured = x.measured
    BY DEF RunType
<1> HIDE DEF w
<1>7. v = w
    BY <1>4 DEF HInv, HType
<1>8. QED
    BY <1>1, <1>2, <1>4, <1>5, <1>6, <1>7

LEMMA ApplyPutHInv ==
    ASSUME HInv, NEW r \in Runs, NEW d \in Deployments, ApplyPut(r, d)
    PROVE  HInv'
<1>1. Books
    BY BooksSame DEF ApplyPut
<1>2. /\ run[r].pc \in {"apply coordinator", "apply workers"} /\ UNCHANGED <<slot, fault>>
      /\ pods' = pods /\ clean' = clean
    BY ApplyingFacts DEF ApplyPut
<1>3. stray' \in SUBSET Deployments
    BY DEF ApplyPut, HInv, HType
<1>4. ClusterKept
  <2>1. CASE UNCHANGED dep
      BY <1>2, <2>1, ClusterSame DEF cluster
  <2>2. CASE dep' = Respec(d, Wanted(r, d).replicas, Wanted(r, d).cpu)
    <3>1. PICK n \in Nat, c \in Templates : n = Wanted(r, d).replicas /\ c = Wanted(r, d).cpu
        BY WantedFacts
    <3>2. dep' = Respec(d, n, c)
        BY <2>2, <3>1
    <3>3. Writes(d, n, c)
        BY <3>2, RespecFacts
    <3>4. QED
        BY <1>2, <3>3, ClusterWritten
  <2>3. QED
      BY <2>1, <2>2 DEF ApplyPut
<1>5. PICK v : v = run'[r]
    OBVIOUS
<1>6. /\ v \in RunType /\ run' = [run EXCEPT ![r] = v]
      /\ v.pc \in {run[r].pc, "apply workers", "wait coordinator", "error"}
      /\ v.sc = run[r].sc /\ v.live = run[r].live
      /\ v.left = run[r].left /\ v.measured = run[r].measured
  <2>1. CASE Goto(r, "error")
    <3>1. "error" \in PCs
        BY DEF PCs
    <3>2. QED
        BY <1>5, <2>1, <3>1, GotoFacts
  <2>2. CASE PutRun(r, d)
    <3>1. PutTo(d) \in {"apply workers", "wait coordinator"}
        BY DEF PutTo
    <3>2. QED
        BY <1>5, <2>2, <3>1, PutFacts
  <2>3. CASE ConflictRun(r)
      BY <1>5, <2>3, ConflictFacts
  <2>4. QED
      BY <2>1, <2>2, <2>3, ApplyingFacts DEF ApplyPut, PutTo, PutRun, ConflictRun
<1>7. run[r].measured = FALSE
    BY <1>2, RunFields DEF Ruled, Setup
<1>8. run' \in [Runs -> RunType] /\ \A q \in Runs : Ruled(q)'
    BY <1>2, <1>6, <1>7, RunMoves DEF Resting, Setup
<1>9. /\ slot' \in Runs \cup {NoRun} /\ clean' \in BOOLEAN
      /\ fault' \in [Runs -> [Faults -> FaultType]]
    BY <1>2 DEF HInv, HType
<1>10. QED
    BY <1>1, <1>3, <1>4, <1>8, <1>9, HInvKept

\* The end of a measurement: the next phase, or what the scenario ends with.
MeasuredTo(r, v) ==
    /\ v \in RunType /\ run' = [run EXCEPT ![r] = v]
    /\ v.sc = run[r].sc /\ v.live = run[r].live /\ v.left = run[r].left
    /\ \/ v.pc = "apply coordinator" /\ v.sc = "scaling" /\ v.measured = FALSE
       \/ /\ v.measured = TRUE /\ v.phase = run[r].phase
          /\ \/ v.pc = "rescale" /\ v.sc = "scaling"
             \/ v.pc = "stats" /\ v.sc = "baseline"
             \/ v.pc = "verdict" /\ v.sc = "hot-tenant"
             \/ v.pc = "restore workers" /\ v.sc = "worker-kill"
             \/ v.pc = "restore coordinator" /\ v.sc = "coordinator-kill"

LEMMA MeasuredFacts ==
    ASSUME HInv, NEW r \in Runs, Measured(r), NEW v, v = run'[r]
    PROVE  MeasuredTo(r, v)
<1>1. PICK x \in RunType : x = run[r]
    BY RunFields
<1>2. x.sc \in AllScenarios
  <2>1. run[r].pc = "measure"
      BY DEF Measured
  <2>2. QED
      BY <1>1, <2>1, RunFields DEF Ruled, Resting
<1>3. PICK more \in BOOLEAN : more = (x.sc = "scaling" /\ x.phase < Len(Phases))
    OBVIOUS
<1>4. PICK ph \in DOMAIN Phases : ph = IF more THEN x.phase + 1 ELSE x.phase
  <2>1. x.phase \in 1..Len(Phases) /\ DOMAIN Phases = 1..Len(Phases) /\ Len(Phases) \in Nat
      BY HarnessAssumption DEF RunType
  <2>2. CASE x.sc = "scaling" /\ x.phase < Len(Phases)
    <3>1. more
        BY <1>3, <2>2
    <3>2. x.phase + 1 \in DOMAIN Phases
        BY <2>1, <2>2
    <3>3. QED
        BY <3>1, <3>2
  <2>3. CASE ~(x.sc = "scaling" /\ x.phase < Len(Phases))
    <3>1. ~more
        BY <1>3, <2>3
    <3>2. x.phase \in DOMAIN Phases
        BY <2>1
    <3>3. QED
        BY <3>1, <3>2
  <2>4. QED
      BY <2>2, <2>3
<1>5. PICK m \in BOOLEAN : m = ~more
    OBVIOUS
<1> DEFINE to == CASE more                          -> "apply coordinator"
                   [] x.sc = "scaling" /\ ~more     -> "rescale"
                   [] x.sc = "baseline"             -> "stats"
                   [] x.sc = "hot-tenant"           -> "verdict"
                   [] x.sc = "worker-kill"          -> "restore workers"
                   [] x.sc = "coordinator-kill"     -> "restore coordinator"
<1> DEFINE w == [x EXCEPT !.phase = ph, !.measured = m, !.pc = to]
<1>6. /\ more = TRUE => to = "apply coordinator" /\ x.sc = "scaling"
      /\ more = FALSE => \/ to = "rescale" /\ x.sc = "scaling"
                         \/ to = "stats" /\ x.sc = "baseline"
                         \/ to = "verdict" /\ x.sc = "hot-tenant"
                         \/ to = "restore workers" /\ x.sc = "worker-kill"
                         \/ to = "restore coordinator" /\ x.sc = "coordinator-kill"
    BY <1>2, <1>3 DEF AllScenarios
<1>7. to \in PCs
    BY <1>6 DEF PCs
<1>8. run' = [run EXCEPT ![r] = w]
    BY <1>1, <1>3, <1>4, <1>5, ApplyingFacts DEF Measured
<1> HIDE DEF to
<1>9. w \in RunType
    BY <1>7 DEF RunType
<1>10. /\ w.pc = to /\ w.sc = x.sc /\ w.phase = ph /\ w.live = x.live
       /\ w.left = x.left /\ w.measured = m
    BY DEF RunType
<1> HIDE DEF w
<1>11. v = w
    BY <1>8 DEF HInv, HType
<1>12. QED
    BY <1>1, <1>4, <1>5, <1>6, <1>8, <1>9, <1>10, <1>11 DEF MeasuredTo

LEMMA MeasuredHInv ==
    ASSUME HInv, NEW r \in Runs, Measured(r)
    PROVE  HInv'
<1>1. Books /\ ClusterKept
    BY BooksSame, ClusterSame DEF Measured
<1>2. PICK v : v = run'[r]
    OBVIOUS
<1>3. MeasuredTo(r, v)
    BY <1>2, MeasuredFacts
<1>4. run[r].pc = "measure" /\ UNCHANGED <<slot, fault, history>>
    BY DEF Measured
<1>5. run[r].live = TRUE => \A f \in Faults : fault[r][f].pc \notin Armed
    BY RunFields DEF Measured, Calling, Armed
<1>6. /\ v \in RunType /\ run' = [run EXCEPT ![r] = v]
      /\ v.sc = run[r].sc /\ v.live = run[r].live /\ v.left = run[r].left
    BY <1>3 DEF MeasuredTo
<1>7. /\ v.pc \in Setup => run[r].sc = "scaling"
      /\ v.pc = "stats" => run[r].sc = "baseline"
      /\ v.pc = "rescale" => run[r].sc = "scaling"
      /\ v.pc \in Setup \cup {"measure"} => v.measured = FALSE
      /\ v.pc \notin Resting \cup {"unlock"}
    BY <1>3 DEF MeasuredTo, Setup, Resting
<1>8. run' \in [Runs -> RunType] /\ \A q \in Runs : Ruled(q)'
    BY <1>4, <1>5, <1>6, <1>7, RunMoves DEF Resting
<1>9. /\ slot' \in Runs \cup {NoRun} /\ clean' \in BOOLEAN /\ stray' \in SUBSET Deployments
      /\ fault' \in [Runs -> [Faults -> FaultType]]
    BY <1>4 DEF HInv, HType, history
<1>10. QED
    BY <1>1, <1>8, <1>9, HInvKept

LEMMA RescaleHInv ==
    ASSUME HInv, NEW r \in Runs, Rescale(r)
    PROVE  HInv'
<1>1. Default \in Nat /\ "worker" \in Deployments
    BY HarnessAssumption DEF Deployments
<1>2. Books
  <2>1. CASE late' = late
      BY <2>1, BooksSame DEF Rescale
  <2>2. CASE Departs(r, "worker", Default) /\ UNCHANGED failures
      BY <1>1, <2>2, BooksDepart
  <2>3. QED
      BY <2>1, <2>2 DEF Rescale
<1>3. ClusterKept
  <2>1. CASE UNCHANGED dep
      BY <2>1, ClusterSame DEF Rescale, cluster
  <2>2. CASE dep' = Scaled("worker", Default)
    <3>1. Writes("worker", Default, dep["worker"].cpu)
        BY <1>1, <2>2, ScaledFacts
    <3>2. QED
        BY <1>1, <3>1, ClusterWritten DEF Rescale
  <2>3. QED
      BY <2>1, <2>2 DEF Rescale
<1>4. run[r].pc = "rescale" /\ UNCHANGED <<slot, fault, history>>
    BY DEF Rescale
<1>5. PICK to \in {"verdict", "error"} : Goto(r, to)
    BY DEF Rescale
<1>6. QED
    BY <1>2, <1>3, <1>4, <1>5, GotoHInv DEF PCs, Resting, Setup

LEMMA DeferredScaleHInv ==
    ASSUME HInv, NEW r \in Runs, NEW from \in {"restore workers", "restore coordinator"},
           NEW d \in Deployments, NEW n \in Nat, NEW to \in {"verdict", "wait restored"},
           DeferredScale(r, from, d, n, to)
    PROVE  HInv'
<1>1. Books
    BY BooksSame DEF DeferredScale
<1>2. ClusterKept
  <2>1. CASE UNCHANGED dep
      BY <2>1, ClusterSame DEF DeferredScale, cluster
  <2>2. CASE dep' = Scaled(d, n)
    <3>1. Writes(d, n, dep[d].cpu)
        BY <2>2, ScaledFacts
    <3>2. QED
        BY <3>1, ClusterWritten DEF DeferredScale
  <2>3. QED
      BY <2>1, <2>2 DEF DeferredScale
<1>3. run[r].pc = from /\ UNCHANGED <<slot, fault, history>>
    BY DEF DeferredScale
<1>4. PICK t \in {to, "verdict"} : Goto(r, t)
    BY DEF DeferredScale
<1>5. QED
    BY <1>1, <1>2, <1>3, <1>4, GotoHInv DEF PCs, Resting, Setup

LEMMA DeferredRestoreHInv ==
    ASSUME HInv, NEW r \in Runs, DeferredRestore(r)
    PROVE  HInv'
<1>1. Default \in Nat /\ "worker" \in Deployments /\ "coordinator" \in Deployments
    BY HarnessAssumption DEF Deployments
<1>2. CASE DeferredScale(r, "restore workers", "worker", Default, "verdict")
    BY <1>1, <1>2, DeferredScaleHInv
<1>3. CASE DeferredScale(r, "restore coordinator", "coordinator", 1, "wait restored")
    BY <1>1, <1>3, DeferredScaleHInv
<1>4. CASE /\ run[r].pc = "wait restored" /\ Goto(r, "verdict")
           /\ UNCHANGED <<slot, fault, cluster, failures, late, history>>
  <2>1. Books /\ ClusterKept
      BY <1>4, BooksSame, ClusterSame
  <2>2. QED
      BY <1>4, <2>1, GotoHInv DEF PCs, Resting, Setup
<1>5. QED
    BY <1>2, <1>3, <1>4 DEF DeferredRestore

\* The context of r ends: by the deferred cancel, or as the client leaves.
LEMMA CancelFacts ==
    ASSUME HInv, NEW r \in Runs, DeferredCancel(r), NEW v, v = run'[r]
    PROVE  /\ v \in RunType /\ run' = [run EXCEPT ![r] = v] /\ v.pc = "unlock"
           /\ v.sc = run[r].sc /\ v.phase = run[r].phase /\ v.live = FALSE
           /\ v.left = run[r].left /\ v.measured = run[r].measured
<1>1. PICK x \in RunType : x = run[r]
    BY RunFields
<1> DEFINE w == [x EXCEPT !.pc = "unlock", !.live = FALSE]
<1>2. run' = [run EXCEPT ![r] = w]
    BY <1>1 DEF DeferredCancel, HInv, HType
<1>3. w \in RunType
    BY DEF RunType, PCs
<1>4. /\ w.pc = "unlock" /\ w.sc = x.sc /\ w.phase = x.phase /\ w.live = FALSE
      /\ w.left = x.left /\ w.measured = x.measured
    BY DEF RunType
<1> HIDE DEF w
<1>5. v = w
    BY <1>2 DEF HInv, HType
<1>6. QED
    BY <1>1, <1>2, <1>3, <1>4, <1>5

LEMMA DisconnectFacts ==
    ASSUME HInv, NEW r \in Runs, Disconnect(r), NEW v, v = run'[r]
    PROVE  /\ v \in RunType /\ run' = [run EXCEPT ![r] = v] /\ v.pc = run[r].pc
           /\ v.sc = run[r].sc /\ v.phase = run[r].phase /\ v.live = FALSE
           /\ v.left = TRUE /\ v.measured = run[r].measured
<1>1. PICK x \in RunType : x = run[r]
    BY RunFields
<1> DEFINE w == [x EXCEPT !.live = FALSE, !.left = TRUE]
<1>2. run' = [run EXCEPT ![r] = w]
    BY <1>1 DEF Disconnect, HInv, HType
<1>3. w \in RunType
    BY DEF RunType, PCs
<1>4. /\ w.pc = x.pc /\ w.sc = x.sc /\ w.phase = x.phase /\ w.live = FALSE
      /\ w.left = TRUE /\ w.measured = x.measured
    BY DEF RunType
<1> HIDE DEF w
<1>5. v = w
    BY <1>2 DEF HInv, HType
<1>6. QED
    BY <1>1, <1>2, <1>3, <1>4, <1>5

LEMMA EndsHInv ==
    ASSUME HInv, NEW r \in Runs, DeferredCancel(r) \/ Disconnect(r)
    PROVE  HInv'
<1>1. Books /\ ClusterKept
    BY BooksSame, ClusterSame DEF DeferredCancel, Disconnect
<1>2. UNCHANGED <<slot, fault, history>>
    BY DEF DeferredCancel, Disconnect
<1>3. PICK v : v = run'[r]
    OBVIOUS
<1>4. /\ v \in RunType /\ run' = [run EXCEPT ![r] = v] /\ v.live = FALSE
      /\ v.sc = run[r].sc /\ v.measured = run[r].measured
    BY <1>3, CancelFacts, DisconnectFacts
<1>5. run[r].pc \notin Resting
  <2>1. CASE DeferredCancel(r)
      BY <2>1 DEF DeferredCancel, Resting
  <2>2. CASE Disconnect(r)
      BY <2>2, RunFields DEF Disconnect, Ruled
  <2>3. QED
      BY <2>1, <2>2
<1>6. \/ v.pc = "unlock" /\ run[r].pc = "cancel"
      \/ v.pc = run[r].pc /\ v.left = TRUE
    BY <1>3, CancelFacts, DisconnectFacts DEF DeferredCancel
<1>7. run' \in [Runs -> RunType] /\ run'[r] = v
    BY <1>4 DEF HInv, HType
<1>8. ASSUME NEW q \in Runs PROVE Ruled(q)'
  <2>1. Ruled(q) /\ Ruled(r)
      BY RunFields
  <2>2. CASE q = r
      BY <1>2, <1>4, <1>5, <1>6, <1>7, <2>1, <2>2 DEF Ruled, Resting, Setup
  <2>3. CASE q # r
    <3>1. run'[q] = run[q]
        BY <1>4, <2>3 DEF HInv, HType
    <3>2. QED
        BY <1>2, <2>1, <3>1, RuledOther
  <2>4. QED
      BY <2>2, <2>3
<1>9. /\ slot' \in Runs \cup {NoRun} /\ clean' \in BOOLEAN /\ stray' \in SUBSET Deployments
      /\ fault' \in [Runs -> [Faults -> FaultType]]
    BY <1>2 DEF HInv, HType, history
<1>10. QED
    BY <1>1, <1>7, <1>8, <1>9, HInvKept

LEMMA UnlockFacts ==
    ASSUME HInv, NEW r \in Runs, DeferredUnlock(r), NEW v, v = run'[r]
    PROVE  /\ v \in RunType /\ run' = [run EXCEPT ![r] = v] /\ v.pc = "over"
           /\ v.live = FALSE /\ v.measured = FALSE /\ slot = r
<1>1. PICK x \in RunType : x = NoLocals /\ x.measured = FALSE
    BY NoLocalsType DEF NoLocals
<1>2. run[r].pc = "unlock"
    BY DEF DeferredUnlock
<1>3. run[r].live = FALSE /\ slot = r
    BY <1>2, RunFields DEF Ruled, Resting
<1> DEFINE w == [x EXCEPT !.pc = "over", !.live = FALSE]
<1>4. run' = [run EXCEPT ![r] = w]
    BY <1>1, <1>3 DEF DeferredUnlock
<1>5. w \in RunType
    BY DEF RunType, PCs
<1>6. w.pc = "over" /\ w.live = FALSE /\ w.measured = FALSE
    BY <1>1 DEF RunType
<1> HIDE DEF w
<1>7. v = w
    BY <1>4 DEF HInv, HType
<1>8. QED
    BY <1>3, <1>4, <1>5, <1>6, <1>7

LEMMA DeferredUnlockHInv ==
    ASSUME HInv, NEW r \in Runs, DeferredUnlock(r)
    PROVE  HInv'
<1>1. Books /\ ClusterKept
    BY BooksSame, ClusterSame DEF DeferredUnlock
<1>2. PICK v : v = run'[r]
    OBVIOUS
<1>3. /\ v \in RunType /\ run' = [run EXCEPT ![r] = v] /\ v.pc = "over"
      /\ v.live = FALSE /\ v.measured = FALSE /\ slot = r
    BY <1>2, UnlockFacts
<1>4. slot' = NoRun /\ fault' = fault /\ stray' = stray
    BY DEF DeferredUnlock
<1>5. clean' \in BOOLEAN
  <2>1. run[r].measured \in BOOLEAN /\ run[r].left \in BOOLEAN
      BY RunFields
  <2>2. QED
      BY <2>1 DEF DeferredUnlock
<1>6. run' \in [Runs -> RunType] /\ run'[r] = v
    BY <1>3 DEF HInv, HType
<1>7. ASSUME NEW q \in Runs PROVE Ruled(q)'
  <2>1. Ruled(q) /\ Ruled(r)
      BY RunFields
  <2>5. q # NoRun
      BY DEF Runs, NoRun
  <2>2. CASE q = r
      BY <1>3, <1>4, <1>6, <2>1, <2>2, <2>5 DEF Ruled, Resting, Setup
  <2>3. CASE q # r
    <3>1. run'[q] = run[q]
        BY <1>3, <2>3 DEF HInv, HType
    <3>2. QED
        BY <1>3, <1>4, <2>1, <2>3, <2>5, <3>1, RuledOther
  <2>4. QED
      BY <2>2, <2>3
<1>8. /\ slot' \in Runs \cup {NoRun} /\ stray' \in SUBSET Deployments
      /\ fault' \in [Runs -> [Faults -> FaultType]]
    BY <1>4 DEF HInv, HType
<1>9. QED
    BY <1>1, <1>5, <1>6, <1>7, <1>8, HInvKept

-----------------------------------------------------------------------------
(* The controllers and the late patch *)

LEMMA SameRuns ==
    ASSUME HInv, run' = run
    PROVE  run' \in [Runs -> RunType] /\ \A q \in Runs : SameRun(q)
    BY DEF HInv, HType, SameRun

\* A step of none of the runs.
LEMMA OutsideHInv ==
    ASSUME HInv, run' \in [Runs -> RunType], \A q \in Runs : SameRun(q), Books, ClusterKept,
           UNCHANGED <<slot, fault, clean>>, stray' \in SUBSET Deployments
    PROVE  HInv'
<1>1. ASSUME NEW q \in Runs PROVE Ruled(q)'
    BY RunFields, RuledSame
<1>2. /\ slot' \in Runs \cup {NoRun} /\ clean' \in BOOLEAN
      /\ fault' \in [Runs -> [Faults -> FaultType]]
    BY DEF HInv, HType
<1>3. QED
    BY <1>1, <1>2, HInvKept

\* What becomes of the pods of d, if anything.
PodsTo(d, p) == p \in PodsType /\ p.ready <= p.n /\ (p.marked = TRUE => p.n > 0)
                  /\ pods' = [pods EXCEPT ![d] = p]

LEMMA PodsKept ==
    ASSUME HInv, NEW d \in Deployments, NEW p, PodsTo(d, p), dep' = dep
    PROVE  ClusterKept /\ pods'[d] = p /\ \A e \in Deployments : e # d => pods'[e] = pods[e]
<1>1. pods' \in [Deployments -> PodsType] /\ pods'[d] = p
    BY DEF PodsTo, HInv, HType
<1>2. ASSUME NEW e \in Deployments PROVE Counted(e)' /\ (e # d => pods'[e] = pods[e])
    BY <1>1 DEF PodsTo, HInv, HType, Counted
<1>3. QED
    BY <1>1, <1>2 DEF ClusterKept, HInv, HType

\* Reconcile acts only if the pods are not what is specified.
Reconciled(d, p) ==
    /\ PodsTo(d, p) /\ p.cpu = dep[d].cpu
    /\ \/ pods[d].cpu # dep[d].cpu
       \/ /\ pods[d].cpu = dep[d].cpu /\ p.n = dep[d].replicas
          /\ p.n # pods[d].n /\ (p.marked = TRUE => p.n > pods[d].n)

LEMMA ReconcileFacts ==
    ASSUME HInv, NEW d \in Deployments, Reconcile(d), NEW p, p = pods'[d]
    PROVE  Reconciled(d, p)
<1>1. PICK x \in PodsType : x = pods[d] /\ x.ready <= x.n /\ (x.marked = TRUE => x.n > 0)
    BY DepFields DEF Counted
<1>2. x.n \in Nat /\ x.ready \in Nat /\ x.cpu \in Templates
    BY DEF PodsType
<1>3. PICK want \in Nat : want = dep[d].replicas
    BY DepFields
<1>4. PICK c \in Templates : c = dep[d].cpu
    BY DepFields
<1>5. CASE x.cpu # c /\ pods' = [pods EXCEPT ![d] = [NoPods EXCEPT !.cpu = c]]
  <2> DEFINE w == [NoPods EXCEPT !.cpu = c]
  <2>1. w \in PodsType /\ w.n = 0 /\ w.ready = 0 /\ w.marked = FALSE /\ w.cpu = c
      BY DEF NoPods, PodsType
  <2>2. pods' = [pods EXCEPT ![d] = w]
      BY <1>5
  <2> HIDE DEF w
  <2>3. p = w
      BY <2>2 DEF HInv, HType
  <2>6. w.ready <= w.n
      BY <2>1
  <2>7. w.marked # TRUE
      BY <2>1
  <2>4. PodsTo(d, p)
      BY <2>1, <2>2, <2>3, <2>6, <2>7 DEF PodsTo
  <2>5. QED
      BY <1>1, <1>4, <1>5, <2>1, <2>3, <2>4 DEF Reconciled
<1>6. CASE x.cpu = c /\ x.n < want /\ pods' = [pods EXCEPT ![d].n = want]
  <2> DEFINE w == [x EXCEPT !.n = want]
  <2>1. w \in PodsType /\ w.n = want /\ w.ready = x.ready /\ w.marked = x.marked /\ w.cpu = c
      BY <1>6 DEF PodsType
  <2>2. pods' = [pods EXCEPT ![d] = w]
      BY <1>1, <1>6
  <2> HIDE DEF w
  <2>3. p = w
      BY <2>2 DEF HInv, HType
  <2>4. w.ready <= w.n /\ w.n > 0 /\ w.n # x.n /\ w.n > x.n
      BY <1>1, <1>2, <1>3, <1>6, <2>1
  <2>5. QED
      BY <1>1, <1>3, <1>4, <1>6, <2>1, <2>2, <2>3, <2>4 DEF Reconciled, PodsTo
<1>7. ASSUME x.cpu = c, x.n > want, NEW rd \in 0..want,
             pods' = [pods EXCEPT ![d] = [@ EXCEPT !.n = want, !.ready = rd, !.marked = FALSE]]
      PROVE  Reconciled(d, p)
  <2> DEFINE w == [x EXCEPT !.n = want, !.ready = rd, !.marked = FALSE]
  <2>7. rd \in Nat
      OBVIOUS
  <2>1. w \in PodsType
      BY <2>7 DEF PodsType
  <2>6. w.n = want /\ w.ready = rd /\ w.marked = FALSE /\ w.cpu = c
      BY <1>7 DEF PodsType
  <2>2. pods' = [pods EXCEPT ![d] = w]
      BY <1>1, <1>7
  <2> HIDE DEF w
  <2>3. p = w
      BY <2>2 DEF HInv, HType
  <2>4. w.ready <= w.n /\ w.n # x.n
      BY <1>2, <1>3, <1>7, <2>6
  <2>5. QED
      BY <1>1, <1>3, <1>4, <1>7, <2>1, <2>2, <2>3, <2>4, <2>6 DEF Reconciled, PodsTo
<1>8. QED
    BY <1>1, <1>3, <1>4, <1>5, <1>6, <1>7 DEF Reconcile

LEMMA ReconcileHInv ==
    ASSUME HInv, NEW d \in Deployments, Reconcile(d)
    PROVE  HInv'
<1>1. UNCHANGED <<slot, run, fault, dep, failures, late, history>>
    BY DEF Reconcile
<1>2. Books
    BY <1>1 DEF Books, HInv, HType
<1>3. PICK p : p = pods'[d]
    OBVIOUS
<1>4. PodsTo(d, p)
    BY <1>3, ReconcileFacts DEF Reconciled
<1>5. ClusterKept
    BY <1>1, <1>4, PodsKept
<1>6. QED
    BY <1>1, <1>2, <1>5, SameRuns, OutsideHInv DEF history, HInv, HType

LEMMA PodReadyFacts ==
    ASSUME HInv, NEW d \in Deployments, PodReady(d), NEW p, p = pods'[d]
    PROVE  /\ PodsTo(d, p) /\ p.n = pods[d].n /\ p.cpu = pods[d].cpu
           /\ p.marked = pods[d].marked /\ pods[d].ready < pods[d].n
<1>1. PICK x \in PodsType : x = pods[d] /\ x.ready < x.n /\ (x.marked = TRUE => x.n > 0)
    BY DepFields DEF Counted, PodReady
<1>2. x.n \in Nat /\ x.ready \in Nat
    BY DEF PodsType
<1>3. PICK rd \in Nat : rd = x.ready + 1
    BY <1>2
<1> DEFINE w == [x EXCEPT !.ready = rd]
<1>4. pods' = [pods EXCEPT ![d] = w]
    BY <1>1, <1>3 DEF PodReady, HInv, HType
<1>5. w \in PodsType /\ w.n = x.n /\ w.ready = rd /\ w.marked = x.marked /\ w.cpu = x.cpu
    BY DEF PodsType
<1> HIDE DEF w
<1>6. p = w
    BY <1>4 DEF HInv, HType
<1>7. w.ready <= w.n
    BY <1>1, <1>2, <1>3, <1>5
<1>8. QED
    BY <1>1, <1>4, <1>5, <1>6, <1>7 DEF PodsTo

LEMMA PodReadyHInv ==
    ASSUME HInv, NEW d \in Deployments, PodReady(d)
    PROVE  HInv'
<1>1. UNCHANGED <<slot, run, fault, dep, failures, late, history>>
    BY DEF PodReady
<1>2. Books
    BY <1>1 DEF Books, HInv, HType
<1>3. PICK p : p = pods'[d]
    OBVIOUS
<1>4. PodsTo(d, p)
    BY <1>3, PodReadyFacts
<1>5. ClusterKept
    BY <1>1, <1>4, PodsKept
<1>6. QED
    BY <1>1, <1>2, <1>5, SameRuns, OutsideHInv DEF history, HInv, HType

\* The status counts the pods if they are all of the template and ready.
Observed(d) ==
    /\ dep' = [dep EXCEPT ![d] = dep'[d]] /\ dep'[d] \in DepType
    /\ dep'[d].replicas = dep[d].replicas /\ dep'[d].cpu = dep[d].cpu
    /\ dep'[d].observed = TRUE
    /\ IF pods[d].cpu = dep[d].cpu /\ pods[d].ready = pods[d].n
       THEN dep'[d].status = pods[d].n ELSE dep'[d].status = Mixed

LEMMA ObserveFacts ==
    ASSUME HInv, NEW d \in Deployments, Observe(d)
    PROVE  Observed(d)
<1>1. PICK x \in DepType : x = dep[d]
    BY DepFields
<1>2. pods[d].n \in Nat
    BY DepFields
<1>3. PICK s \in Nat \cup {Mixed} :
        s = IF pods[d].cpu = dep[d].cpu /\ pods[d].ready = pods[d].n THEN pods[d].n ELSE Mixed
    BY <1>2
<1> DEFINE w == [x EXCEPT !.observed = TRUE, !.status = s]
<1>4. dep' = [dep EXCEPT ![d] = w]
    BY <1>1, <1>3 DEF Observe
<1>5. w \in DepType /\ w.replicas = x.replicas /\ w.cpu = x.cpu /\ w.observed = TRUE /\ w.status = s
    BY DEF DepType
<1> HIDE DEF w
<1>6. dep'[d] = w
    BY <1>4 DEF HInv, HType
<1>7. QED
    BY <1>1, <1>3, <1>4, <1>5, <1>6 DEF Observed

LEMMA ObserveHInv ==
    ASSUME HInv, NEW d \in Deployments, Observe(d)
    PROVE  HInv'
<1>1. UNCHANGED <<slot, fault, pods, failures, late, history>>
    BY DEF Observe
<1>2. Books
    BY <1>1 DEF Books, HInv, HType
<1>3. Observed(d)
    BY ObserveFacts
<1>4. dep' \in [Deployments -> DepType]
    BY <1>3 DEF Observed, HInv, HType
<1>5. ClusterKept
    BY <1>1, <1>4 DEF ClusterKept, HInv, HType, Counted
<1>6. run' \in [Runs -> RunType] /\ \A q \in Runs : SameRun(q)
    BY OvertakenSame DEF Observe
<1>7. QED
    BY <1>1, <1>2, <1>5, <1>6, OutsideHInv DEF history, HInv, HType

LEMMA LateFacts ==
    ASSUME HInv, LateScale, NEW d, d = late.patch.d, NEW n, n = late.patch.n
    PROVE  /\ d \in Deployments /\ n \in Nat /\ dep' = Scaled(d, n)
           /\ run' = [q \in Runs |-> Overtaken(d, q)] /\ Books
           /\ stray' = (IF Unwritten(d) THEN stray ELSE stray \cup {d})
           /\ UNCHANGED <<slot, fault, pods, failures, clean>>
<1>1. late.patch \in PatchType /\ late.patch # NoPatch
    BY DEF HInv, HType, LateScale
<1>2. d \in Deployments /\ n \in Nat
    BY <1>1 DEF PatchType
<1>3. late' = [late EXCEPT !.patch = NoPatch] /\ failures' = failures
    BY DEF LateScale
<1>4. late' \in [patch : PatchType, count : Nat] /\ late'.count = late.count
    BY <1>3 DEF HInv, HType, PatchType
<1>5. Books
    BY <1>3, <1>4 DEF Books, HInv, HType
<1>6. QED
    BY <1>2, <1>5 DEF LateScale

LEMMA LateScaleHInv ==
    ASSUME HInv, LateScale
    PROVE  HInv'
<1>1. PICK d : d = late.patch.d
    OBVIOUS
<1>2. PICK n : n = late.patch.n
    OBVIOUS
<1>3. /\ d \in Deployments /\ n \in Nat /\ dep' = Scaled(d, n)
      /\ run' = [q \in Runs |-> Overtaken(d, q)] /\ Books
      /\ stray' = (IF Unwritten(d) THEN stray ELSE stray \cup {d})
      /\ UNCHANGED <<slot, fault, pods, failures, clean>>
    BY <1>1, <1>2, LateFacts
<1>4. Writes(d, n, dep[d].cpu)
    BY <1>3, ScaledFacts
<1>5. ClusterKept
    BY <1>3, <1>4, ClusterWritten
<1>6. run' \in [Runs -> RunType] /\ \A q \in Runs : SameRun(q)
    BY <1>3, OvertakenSame
<1>7. stray' \in SUBSET Deployments
    BY <1>3 DEF HInv, HType
<1>8. QED
    BY <1>3, <1>5, <1>6, <1>7, OutsideHInv

-----------------------------------------------------------------------------
(* The goroutines *)

FaultTo(r, f, x) == x \in FaultType /\ fault' = [fault EXCEPT ![r][f] = x]

LEMMA FaultGotoFacts ==
    ASSUME HInv, NEW r \in Runs, NEW f \in Faults, NEW pc \in FaultPCs, FaultGoto(r, f, pc),
           NEW x, x = fault'[r][f]
    PROVE  FaultTo(r, f, x) /\ x.pc = pc /\ x.n = fault[r][f].n
<1>1. PICK n \in Nat : n = fault[r][f].n
    BY RunFields DEF FaultType
<1> DEFINE w == [pc |-> pc, n |-> n]
<1>2. fault' = [fault EXCEPT ![r][f] = w]
    BY <1>1 DEF FaultGoto
<1>3. w \in FaultType /\ w.pc = pc /\ w.n = n
    BY DEF FaultType
<1> HIDE DEF w
<1>4. fault'[r][f] = w
  <2>1. fault[r] \in [Faults -> FaultType]
      BY RunFields
  <2>2. QED
      BY <1>2, <2>1 DEF HInv, HType
<1>5. QED
    BY <1>1, <1>2, <1>3, <1>4 DEF FaultTo

\* Where the goroutine f is afterwards, and that it is the only one that moved.
LEMMA FaultToFacts ==
    ASSUME HInv, NEW r \in Runs, NEW f \in Faults, NEW x, FaultTo(r, f, x)
    PROVE  /\ fault'[r][f] = x
           /\ \A g \in Faults : g # f => fault'[r][g] = fault[r][g]
           /\ \A q \in Runs : q # r => fault'[q] = fault[q]
<1>1. fault[r] \in [Faults -> FaultType] /\ fault \in [Runs -> [Faults -> FaultType]]
    BY RunFields DEF HInv, HType
<1>2. fault' = [fault EXCEPT ![r][f] = x]
    BY DEF FaultTo
<1>3. QED
    BY <1>1, <1>2

LEMMA FaultHInv ==
    ASSUME HInv, NEW r \in Runs, NEW f \in Faults, NEW x, FaultTo(r, f, x),
           run' \in [Runs -> RunType], \A q \in Runs : SameRun(q), Books, ClusterKept,
           UNCHANGED <<slot, history>>,
           fault[r][f].pc # "done", x.pc # "idle",
           \/ fault[r][f].pc # "idle"
           \/ /\ run[r].pc = "measure"
              /\ f = "worker" => run[r].sc = "worker-kill"
              /\ f = "coordinator" => run[r].sc = "coordinator-kill"
              /\ f = "restore" => fault[r]["coordinator"].pc = "done",
           x.pc \in Armed => fault[r][f].pc \in Armed \/ run[r].pc = "measure",
           f = "worker" /\ x.pc \in {"mark", "scale", "delete"} => x.n >= 2
    PROVE  HInv'
<1>1. x \in FaultType /\ fault' = [fault EXCEPT ![r][f] = x] /\ slot' = slot
    BY DEF FaultTo
<1>2. fault' \in [Runs -> [Faults -> FaultType]] /\ \A q \in Runs : Ruled(q)'
    BY <1>1, FaultMoves
<1>3. /\ slot' \in Runs \cup {NoRun} /\ clean' \in BOOLEAN /\ stray' \in SUBSET Deployments
    BY DEF HInv, HType, history
<1>4. QED
    BY <1>2, <1>3, HInvKept

\* A goroutine between two calls that change the cluster, whatever it meets.
LEMMA FaultCallHInv ==
    ASSUME HInv, NEW r \in Runs, NEW f \in Faults, NEW pc \in FaultPCs, FaultGoto(r, f, pc),
           run' \in [Runs -> RunType], \A q \in Runs : SameRun(q), Books, ClusterKept,
           UNCHANGED <<slot, history>>,
           fault[r][f].pc \in Armed \cup {"wait"}, pc # "idle",
           pc \in Armed => fault[r][f].pc \in {"mark", "scale", "delete"}
    PROVE  HInv'
<1>1. PICK x : x = fault'[r][f]
    OBVIOUS
<1>2. FaultTo(r, f, x) /\ x.pc = pc /\ x.n = fault[r][f].n
    BY <1>1, FaultGotoFacts
<1>3. ASSUME f = "worker", x.pc \in {"mark", "scale", "delete"} PROVE x.n >= 2
  <2>1. fault[r]["worker"].pc \in {"mark", "scale", "delete"}
      BY <1>2, <1>3 DEF Armed
  <2>2. fault[r]["worker"].n >= 2
      BY <2>1, RunFields DEF Ruled
  <2>3. QED
      BY <1>2, <1>3, <2>2
<1>4. x.pc \in Armed => fault[r][f].pc \in Armed
    BY <1>2 DEF Armed
<1>5. fault[r][f].pc # "done" /\ fault[r][f].pc # "idle" /\ x.pc # "idle"
    BY <1>2 DEF Armed
<1>6. QED
    BY <1>2, <1>3, <1>4, <1>5, FaultHInv

\* The list of a kill of the coordinator leads on as well.
LEMMA FaultListHInv ==
    ASSUME HInv, NEW r \in Runs, NEW d \in Deployments, NEW least \in {1, 2},
           NEW to \in {"mark", "delete"}, FaultList(r, d, least, to),
           d = "worker" => least = 2
    PROVE  HInv'
<1>1. d \in Faults
    BY DEF Deployments, Faults
<1>2. Books /\ ClusterKept
    BY BooksSame, ClusterSame DEF FaultList, FaultFails
<1>3. run' = run /\ UNCHANGED <<slot, history>> /\ fault[r][d].pc = "list"
    BY DEF FaultList, FaultFails
<1>4. run' \in [Runs -> RunType] /\ \A q \in Runs : SameRun(q)
    BY <1>3, SameRuns
<1>5. CASE FaultGoto(r, d, "print")
    BY <1>1, <1>2, <1>3, <1>4, <1>5, FaultCallHInv DEF Armed, FaultPCs
<1>6. ASSUME NEW n \in pods[d].ready..pods[d].n,
             fault' = [fault EXCEPT ![r][d] = [pc |-> IF n < least THEN "print" ELSE to, n |-> n]]
      PROVE  HInv'
  <2>1. n \in Nat
      BY DepFields
  <2>2. PICK pc \in FaultPCs : pc = IF n < least THEN "print" ELSE to
      BY DEF FaultPCs
  <2>3. pc # "print" => n >= least
      BY <2>1, <2>2
  <2>4. PICK x : x = [pc |-> pc, n |-> n]
      OBVIOUS
  <2>5. x \in FaultType /\ x.pc = pc /\ x.n = n
      BY <2>1, <2>4 DEF FaultType
  <2>6. FaultTo(r, d, x)
      BY <1>6, <2>2, <2>4, <2>5 DEF FaultTo
  <2>7. d = "worker" /\ x.pc \in {"mark", "scale", "delete"} => x.n >= 2
      BY <2>3, <2>5
  <2>8. x.pc # "idle" /\ fault[r][d].pc \in Armed /\ fault[r][d].pc # "done"
          /\ fault[r][d].pc # "idle"
      BY <1>3, <2>2, <2>5 DEF Armed
  <2>9. QED
      BY <1>1, <1>2, <1>3, <1>4, <2>6, <2>7, <2>8, FaultHInv
<1>7. QED
    BY <1>5, <1>6 DEF FaultList, FaultFails

LEMMA FaultScaleHInv ==
    ASSUME HInv, NEW r \in Runs, NEW f \in Faults, NEW d \in Deployments, NEW n \in Nat,
           NEW to \in {"delete", "list", "wait"}, FaultScale(r, f, d, n, to)
    PROVE  HInv'
<1>1. Books
  <2>1. CASE late' = late
      BY <2>1, BooksSame DEF FaultScale, FaultFails
  <2>2. CASE Departs(r, d, n) /\ UNCHANGED failures
      BY <2>2, BooksDepart
  <2>3. QED
      BY <2>1, <2>2 DEF FaultScale
<1>2. ClusterKept
  <2>1. CASE UNCHANGED cluster
      BY <2>1, ClusterSame
  <2>2. CASE dep' = Scaled(d, n) /\ pods' = pods
    <3>1. Writes(d, n, dep[d].cpu)
        BY <2>2, ScaledFacts
    <3>2. QED
        BY <2>2, <3>1, ClusterWritten
  <2>3. QED
      BY <2>1, <2>2 DEF FaultScale, FaultFails
<1>3. run' \in [Runs -> RunType] /\ \A q \in Runs : SameRun(q)
    BY SameRuns, OvertakenSame DEF FaultScale, FaultFails
<1>4. fault[r][f].pc = "scale" /\ UNCHANGED <<slot, history>>
    BY DEF FaultScale
<1>5. PICK pc \in {"delete", "list", "wait", "print"} : FaultGoto(r, f, pc)
    BY DEF FaultScale, FaultFails
<1>6. pc \in FaultPCs /\ pc # "idle" /\ fault[r][f].pc \in Armed
    BY <1>4, <1>5 DEF FaultPCs, Armed
<1>7. QED
    BY <1>1, <1>2, <1>3, <1>4, <1>5, <1>6, FaultCallHInv

LEMMA FaultMarkFacts ==
    ASSUME HInv, NEW r \in Runs, pods' = [pods EXCEPT !["worker"].marked = pods["worker"].n > 0],
           NEW p, p = pods'["worker"]
    PROVE  /\ PodsTo("worker", p) /\ p.n = pods["worker"].n /\ p.ready = pods["worker"].ready
           /\ p.cpu = pods["worker"].cpu
<1>1. "worker" \in Deployments
    BY DEF Deployments
<1>2. PICK x \in PodsType : x = pods["worker"] /\ x.ready <= x.n
    BY <1>1, DepFields DEF Counted
<1>3. PICK m \in BOOLEAN : m = (x.n > 0)
  <2>1. ASSUME NEW b PROVE (b = TRUE \/ b = FALSE) => \E m \in BOOLEAN : m = b
      OBVIOUS
  <2>2. (x.n > 0) = TRUE \/ (x.n > 0) = FALSE
      OBVIOUS
  <2>3. QED
      BY <2>1, <2>2, Zenon
<1> DEFINE w == [x EXCEPT !.marked = m]
<1>4. pods' = [pods EXCEPT !["worker"] = w]
    BY <1>2, <1>3 DEF HInv, HType
<1>5. w \in PodsType /\ w.n = x.n /\ w.ready = x.ready /\ w.cpu = x.cpu /\ w.marked = m
    BY DEF PodsType
<1> HIDE DEF w
<1>6. p = w
    BY <1>1, <1>4 DEF HInv, HType
<1>7. w.marked = TRUE => w.n > 0
    BY <1>3, <1>5
<1>8. QED
    BY <1>2, <1>4, <1>5, <1>6, <1>7 DEF PodsTo

LEMMA FaultMarkHInv ==
    ASSUME HInv, NEW r \in Runs, FaultMark(r)
    PROVE  HInv'
<1>1. "worker" \in Deployments /\ "worker" \in Faults
    BY DEF Deployments, Faults
<1>2. Books
    BY BooksSame DEF FaultMark, FaultFails
<1>3. run' = run /\ dep' = dep /\ UNCHANGED <<slot, history>> /\ fault[r]["worker"].pc = "mark"
    BY DEF FaultMark, FaultFails, cluster
<1>4. ClusterKept
  <2>1. CASE UNCHANGED cluster
      BY <2>1, ClusterSame
  <2>2. CASE pods' = [pods EXCEPT !["worker"].marked = pods["worker"].n > 0]
    <3>1. PICK p : p = pods'["worker"]
        OBVIOUS
    <3>2. PodsTo("worker", p)
        BY <2>2, <3>1, FaultMarkFacts
    <3>3. QED
        BY <1>1, <1>3, <3>2, PodsKept
  <2>3. QED
      BY <2>1, <2>2 DEF FaultMark, FaultFails
<1>5. run' \in [Runs -> RunType] /\ \A q \in Runs : SameRun(q)
    BY <1>3, SameRuns
<1>6. PICK pc \in {"scale", "print"} : FaultGoto(r, "worker", pc)
    BY DEF FaultMark, FaultFails
<1>7. pc \in FaultPCs /\ pc # "idle" /\ fault[r]["worker"].pc \in Armed
    BY <1>3, <1>6 DEF FaultPCs, Armed
<1>8. QED
    BY <1>1, <1>2, <1>3, <1>4, <1>5, <1>6, <1>7, FaultCallHInv

LEMMA DeletedFacts ==
    ASSUME HInv, NEW d \in Deployments, NEW there, there => pods[d].n > 0,
           pods' = Deleted(d, there), there, NEW p, p = pods'[d]
    PROVE  PodsTo(d, p) /\ p.n = pods[d].n - 1 /\ p.cpu = pods[d].cpu /\ p.marked = FALSE
<1>1. PICK x \in PodsType : x = pods[d] /\ x.ready <= x.n /\ x.n > 0
    BY DepFields DEF Counted
<1>2. x.n \in Nat /\ x.ready \in Nat
    BY DEF PodsType
<1>3. PICK n \in Nat : n = x.n - 1
    BY <1>1, <1>2
<1>4. PICK rd \in Nat : rd = IF x.ready = 0 THEN 0 ELSE x.ready - 1
    BY <1>2
<1> DEFINE w == [x EXCEPT !.n = n, !.marked = FALSE, !.ready = rd]
<1>5. pods' = [pods EXCEPT ![d] = w]
    BY <1>1, <1>3, <1>4 DEF Deleted, HInv, HType
<1>6. w \in PodsType /\ w.n = n /\ w.ready = rd /\ w.cpu = x.cpu /\ w.marked = FALSE
    BY DEF PodsType
<1> HIDE DEF w
<1>7. p = w
    BY <1>5 DEF HInv, HType
<1>8. rd <= n
  <2>1. CASE x.ready = 0
      BY <1>4, <2>1
  <2>2. CASE x.ready # 0
      BY <1>1, <1>2, <1>3, <1>4, <2>2
  <2>3. QED
      BY <2>1, <2>2
<1>9. w.marked # TRUE
    BY <1>6
<1>10. QED
    BY <1>1, <1>3, <1>5, <1>6, <1>7, <1>8, <1>9 DEF PodsTo

LEMMA FaultDeleteHInv ==
    ASSUME HInv, NEW r \in Runs, NEW d \in Deployments, NEW there, there => pods[d].n > 0,
           FaultDelete(r, d, there, "print")
    PROVE  HInv'
<1>1. d \in Faults
    BY DEF Deployments, Faults
<1>2. Books
    BY BooksSame DEF FaultDelete, FaultFails
<1>3. run' = run /\ dep' = dep /\ UNCHANGED <<slot, history>> /\ fault[r][d].pc = "delete"
    BY DEF FaultDelete, FaultFails, cluster
<1>4. ClusterKept
  <2>1. CASE pods' = pods
      BY <1>3, <2>1, ClusterSame DEF cluster
  <2>2. CASE pods' = Deleted(d, there) /\ there
    <3>1. PICK p : p = pods'[d]
        OBVIOUS
    <3>2. PodsTo(d, p)
        BY <2>2, <3>1, DeletedFacts
    <3>3. QED
        BY <1>3, <3>2, PodsKept
  <2>3. QED
      BY <2>1, <2>2 DEF FaultDelete, FaultFails, cluster, Deleted
<1>5. run' \in [Runs -> RunType] /\ \A q \in Runs : SameRun(q)
    BY <1>3, SameRuns
<1>6. FaultGoto(r, d, "print")
    BY DEF FaultDelete, FaultFails
<1>7. "print" \in FaultPCs /\ "print" # "idle" /\ fault[r][d].pc \in Armed /\ "print" \notin Armed
    BY <1>3 DEF FaultPCs, Armed
<1>8. QED
    BY <1>1, <1>2, <1>3, <1>4, <1>5, <1>6, <1>7, FaultCallHInv

\* A goroutine waits no more, reports, or starts: only its own state changes.
LEMMA FaultPrintHInv ==
    ASSUME HInv, NEW r \in Runs, NEW f \in Faults, FaultPrint(r, f)
    PROVE  HInv'
<1>1. Books /\ ClusterKept
    BY BooksSame, ClusterSame DEF FaultPrint
<1>2. PICK x : x = [pc |-> "done", n |-> 0]
    OBVIOUS
<1>3. x \in FaultType /\ x.pc = "done"
    BY <1>2 DEF FaultType, FaultPCs
<1>4. FaultTo(r, f, x)
    BY <1>2, <1>3 DEF FaultTo, FaultPrint
<1>5. fault[r][f].pc = "print" /\ run' = run /\ UNCHANGED <<slot, history>>
    BY DEF FaultPrint
<1>6. run' \in [Runs -> RunType] /\ \A q \in Runs : SameRun(q)
    BY <1>5, SameRuns
<1>7. QED
    BY <1>1, <1>3, <1>4, <1>5, <1>6, FaultHInv DEF Armed

LEMMA StartFaultHInv ==
    ASSUME HInv, NEW r \in Runs, NEW f \in Faults, StartFault(r, f)
    PROVE  HInv'
<1>1. Books /\ ClusterKept
    BY BooksSame, ClusterSame DEF StartFault
<1>2. /\ fault[r][f].pc = "idle" /\ run[r].pc = "measure"
      /\ run' = run /\ UNCHANGED <<slot, history>>
    BY DEF StartFault
<1>3. PICK pc \in {"list", "scale"} :
        /\ FaultGoto(r, f, pc) /\ (f = "worker" => pc = "list")
        /\ f = "worker" => run[r].sc = "worker-kill"
        /\ f = "coordinator" => run[r].sc = "coordinator-kill"
        /\ f = "restore" => fault[r]["coordinator"].pc = "done"
    BY DEF StartFault
<1>4. pc \in FaultPCs
    BY DEF FaultPCs
<1>5. PICK x : x = fault'[r][f]
    OBVIOUS
<1>6. FaultTo(r, f, x) /\ x.pc = pc
    BY <1>3, <1>4, <1>5, FaultGotoFacts
<1>7. run' \in [Runs -> RunType] /\ \A q \in Runs : SameRun(q)
    BY <1>2, SameRuns
<1>8. fault[r][f].pc # "done" /\ x.pc # "idle"
    BY <1>2, <1>6
<1>9. f = "worker" /\ x.pc \in {"mark", "scale", "delete"} => x.n >= 2
    BY <1>3, <1>6
<1>10. QED
    BY <1>1, <1>2, <1>3, <1>6, <1>7, <1>8, <1>9, FaultHInv

\* What the kill of a worker scales to and deletes.
LEMMA KillFacts ==
    ASSUME HInv, NEW r \in Runs
    PROVE  /\ fault[r]["worker"].pc = "scale" => fault[r]["worker"].n - 1 \in Nat
           /\ pods["worker"].marked => pods["worker"].n > 0
           /\ fault[r].worker = fault[r]["worker"] /\ fault[r].restore = fault[r]["restore"]
           /\ fault[r].coordinator = fault[r]["coordinator"]
<1>1. fault[r]["worker"].pc = "scale" => fault[r]["worker"].n - 1 \in Nat
  <2>1. fault[r]["worker"].n \in Nat
      BY RunFields DEF FaultType, Faults
  <2>2. fault[r]["worker"].pc = "scale" => fault[r]["worker"].n >= 2
      BY RunFields DEF Ruled
  <2>3. QED
      BY <2>1, <2>2
<1>2. pods["worker"].marked => pods["worker"].n > 0
  <2>1. "worker" \in Deployments
      BY DEF Deployments
  <2>2. QED
      BY <2>1, DepFields DEF Counted
<1>3. QED
    BY <1>1, <1>2

LEMMA FaultStepHInv ==
    ASSUME HInv, NEW r \in Runs, FaultStep(r)
    PROVE  HInv'
<1>1. /\ "worker" \in Deployments /\ "coordinator" \in Deployments /\ 0 \in Nat /\ 1 \in Nat
      /\ "worker" \in Faults /\ "coordinator" \in Faults /\ "restore" \in Faults
    BY DEF Deployments, Faults
<1>2. CASE KillOneWorkerNoReplacement(r)
  <2>1. CASE FaultList(r, "worker", 2, "mark")
      BY <1>1, <2>1, FaultListHInv
  <2>2. CASE FaultMark(r)
      BY <2>2, FaultMarkHInv
  <2>3. CASE FaultScale(r, "worker", "worker", fault[r].worker.n - 1, "delete")
    <3>1. fault[r]["worker"].pc = "scale"
        BY <2>3 DEF FaultScale
    <3>2. PICK n \in Nat : n = fault[r].worker.n - 1
        BY <3>1, KillFacts
    <3>3. QED
        BY <1>1, <2>3, <3>2, FaultScaleHInv
  <2>4. CASE FaultDelete(r, "worker", pods["worker"].marked, "print")
    <3>1. PICK there : there = pods["worker"].marked
        OBVIOUS
    <3>2. there => pods["worker"].n > 0
        BY <3>1, KillFacts
    <3>3. FaultDelete(r, "worker", there, "print")
        BY <2>4, <3>1
    <3>4. QED
        BY <1>1, <3>2, <3>3, FaultDeleteHInv
  <2>5. QED
      BY <1>2, <2>1, <2>2, <2>3, <2>4 DEF KillOneWorkerNoReplacement
<1>3. CASE KillCoordinator(r)
  <2>1. CASE FaultScale(r, "coordinator", "coordinator", 0, "list")
      BY <1>1, <2>1, FaultScaleHInv
  <2>2. CASE FaultList(r, "coordinator", 1, "delete")
      BY <1>1, <2>2, FaultListHInv
  <2>3. CASE FaultDelete(r, "coordinator", pods["coordinator"].n > 0, "print")
    <3>1. PICK there : there = (pods["coordinator"].n > 0)
        OBVIOUS
    <3>2. there => pods["coordinator"].n > 0
        BY <3>1
    <3>3. FaultDelete(r, "coordinator", there, "print")
        BY <2>3, <3>1
    <3>4. QED
        BY <1>1, <3>2, <3>3, FaultDeleteHInv
  <2>4. QED
      BY <1>3, <2>1, <2>2, <2>3 DEF KillCoordinator
<1>4. CASE RestoreCoordinator(r)
  <2>1. CASE FaultScale(r, "restore", "coordinator", 1, "wait")
      BY <1>1, <2>1, FaultScaleHInv
  <2>2. CASE /\ fault[r].restore.pc = "wait" /\ FaultGoto(r, "restore", "print")
             /\ UNCHANGED <<slot, run, cluster, failures, late, history>>
    <3>1. Books /\ ClusterKept
        BY <2>2, BooksSame, ClusterSame
    <3>2. run' \in [Runs -> RunType] /\ \A q \in Runs : SameRun(q)
        BY <2>2, SameRuns
    <3>3. "print" \in FaultPCs /\ "print" \notin Armed /\ fault[r]["restore"].pc = "wait"
        BY <2>2 DEF FaultPCs, Armed
    <3>4. QED
        BY <1>1, <2>2, <3>1, <3>2, <3>3, FaultCallHInv
  <2>3. QED
      BY <1>4, <2>1, <2>2 DEF RestoreCoordinator
<1>5. ASSUME NEW f \in Faults, FaultPrint(r, f) PROVE HInv'
    BY <1>5, FaultPrintHInv
<1>6. QED
    BY <1>2, <1>3, <1>4, <1>5 DEF FaultStep

LEMMA RunStepHInv ==
    ASSUME HInv, NEW r \in Runs, RunStep(r)
    PROVE  HInv'
<1>1. ASSUME Ensure(r) PROVE HInv'
  <2>1. ASSUME NEW d \in Deployments, ApplyGet(r, d) \/ ApplyPut(r, d) PROVE HInv'
      BY <2>1, ApplyGetHInv, ApplyPutHInv
  <2>2. CASE Settles(r, "wait coordinator", Live(r) /\ Ready("coordinator", 1), "wait workers")
      BY <2>2, SettlesHInv DEF Setup
  <2>3. CASE Settles(r, "wait workers", Live(r) /\ Ready("worker", Want(r)), "wait http")
      BY <2>3, SettlesHInv DEF Setup
  <2>4. CASE Settles(r, "wait http", pods["worker"].ready > 0,
                     IF run[r].sc = "scaling" THEN "reach" ELSE "warmup")
    <3>1. PICK to \in Setup : to = IF run[r].sc = "scaling" THEN "reach" ELSE "warmup"
        BY DEF Setup
    <3>2. Settles(r, "wait http", pods["worker"].ready > 0, to)
        BY <2>4, <3>1
    <3>3. PICK done : done = (pods["worker"].ready > 0)
        OBVIOUS
    <3>4. Settles(r, "wait http", done, to) /\ "wait http" \in Setup
        BY <3>2, <3>3 DEF Setup
    <3>5. QED
        BY <3>4, SettlesHInv
  <2>5. CASE Settles(r, "reach", Live(r) /\ Reachable, "warmup")
      BY <2>5, SettlesHInv DEF Setup
  <2>6. QED
      BY <1>1, <2>1, <2>2, <2>3, <2>4, <2>5 DEF Ensure
<1>2. QED
    BY <1>1, LoadConfigHInv, WarmupHInv, CoordStatsHInv, MeasuredHInv, RescaleHInv,
       DeferredRestoreHInv, VerdictHInv, EndsHInv, DeferredUnlockHInv DEF RunStep

LEMMA NextHInv ==
    ASSUME HInv, [Next]_vars
    PROVE  HInv'
<1>1. ASSUME NEW r \in Runs, NEW sc \in Scenarios, Request(r, sc) PROVE HInv'
    BY <1>1, RequestHInv
<1>2. ASSUME NEW r \in Runs, RunStep(r) \/ FaultStep(r) \/ Disconnect(r) PROVE HInv'
    BY <1>2, RunStepHInv, FaultStepHInv, EndsHInv
<1>3. ASSUME NEW r \in Runs, NEW f \in Faults, StartFault(r, f) PROVE HInv'
    BY <1>3, StartFaultHInv
<1>4. ASSUME NEW d \in Deployments, Reconcile(d) \/ PodReady(d) \/ Observe(d) PROVE HInv'
    BY <1>4, ReconcileHInv, PodReadyHInv, ObserveHInv
<1>5. CASE LateScale
    BY <1>5, LateScaleHInv
<1>6. CASE UNCHANGED vars
  <2>1. UNCHANGED <<slot, run, fault, dep, pods, failures, late, clean, stray>>
      BY <1>6 DEF vars
  <2>2. Books /\ ClusterKept
      BY <2>1, ClusterSame DEF Books, HInv, HType, cluster
  <2>3. run' \in [Runs -> RunType] /\ \A q \in Runs : SameRun(q)
      BY <2>1, SameRuns
  <2>4. QED
      BY <2>1, <2>2, <2>3, OutsideHInv DEF HInv, HType
<1>7. QED
    BY <1>1, <1>2, <1>3, <1>4, <1>5, <1>6 DEF Next

-----------------------------------------------------------------------------
(* The runs: types and the discipline of the goroutines *)

\* handleRun, the scenarios and their goroutines keep to the discipline of
\* the slot, whatever the controllers do and the API refuses.
THEOREM HarnessInductive == Spec => []HInv
<1>1. Init => HInv
    BY InitHInv
<1>2. HInv /\ [Next]_vars => HInv'
    BY NextHInv
<1>3. QED
    BY <1>1, <1>2, PTL DEF Spec

\* Every state of the harness is of its type: failures and late patches stay
\* within the bound, and no more pods are ready than there are.
THEOREM HarnessTypes == Spec => []TypeOK
<1>1. ASSUME HInv PROVE TypeOK
  <2>1. /\ slot \in Runs \cup {NoRun} /\ clean \in BOOLEAN /\ stray \subseteq Deployments
        /\ failures \in Nat /\ late \in [patch : PatchType, count : Nat]
        /\ failures + late.count <= MaxFailures
      BY <1>1 DEF HInv, HType
  <2>2. late.count \in Nat /\ late.patch \in PatchType
      BY <2>1
  <2>3. failures \in 0..MaxFailures /\ late.count \in 0..MaxFailures
      BY <2>1, <2>2, HarnessAssumption
  <2>4. late.patch.n \in Nat /\ (late.patch # NoPatch => late.patch.d \in Deployments)
      BY <2>2 DEF PatchType, NoPatch
  <2>5. ASSUME NEW r \in Runs
        PROVE  /\ run[r].pc \in PCs /\ run[r].phase \in DOMAIN Phases
               /\ run[r].live \in BOOLEAN /\ run[r].tries \in 0..(RetrySteps - 1)
               /\ \A f \in Faults : fault[r][f].pc \in FaultPCs
      BY <1>1, RunFields DEF RunType, FaultType
  <2>6. ASSUME NEW d \in Deployments
        PROVE  /\ dep[d].replicas \in Nat /\ dep[d].status \in Nat \cup {Mixed}
               /\ pods[d].n \in Nat /\ pods[d].ready \in 0..pods[d].n
    <3>1. PICK n \in Nat, rd \in Nat : n = pods[d].n /\ rd = pods[d].ready
        BY <1>1, DepFields
    <3>2. rd <= n
        BY <1>1, <3>1, DepFields DEF Counted
    <3>3. rd \in 0..n
        BY <3>2
    <3>4. QED
        BY <1>1, <3>1, <3>3, DepFields
  <2>7. QED
      BY <2>1, <2>3, <2>4, <2>5, <2>6 DEF TypeOK
<1>2. QED
    BY <1>1, HarnessInductive, PTL

\* A goroutine that outlives its run makes no call any more: handleRun
\* cancels its context before it gives the slot back.
THEOREM GoroutinesAreDisarmed == Spec => []Disarmed
<1>1. ASSUME HInv PROVE Disarmed
  <2> SUFFICES ASSUME NEW r \in Runs, NEW f \in Faults, slot # r PROVE ~Live(r)
      BY DEF Disarmed
  <2>1. run[r].pc \in Resting
      BY <1>1, RunFields DEF Ruled
  <2>2. run[r].live = FALSE
      BY <1>1, <2>1, RunFields DEF Ruled
  <2>3. QED
      BY <2>2 DEF Live
<1>2. QED
    BY <1>1, HarnessInductive, PTL

-----------------------------------------------------------------------------
(* The cluster: what every step keeps *)

\* What the cluster is to the run that has the slot: to the others it is
\* nothing.
Holds(r) == Killing(r) /\ \A d \in Deployments : Asked(r, d) /\ Running(r, d) /\ Steady(r, d)
Sound == \A d \in Deployments : Honest(d) /\ Restored(d)

LEMMA RestingHolds ==
    ASSUME NEW r \in Runs, run[r].pc \in Resting
    PROVE  Holds(r)
    BY DEF Holds, Killing, Asked, Running, Steady, Resting, Written, Seen, Kept

LEMMA CInvParts ==
    ASSUME CInv
    PROVE  Sound /\ \A r \in Runs : Holds(r)
    BY DEF CInv, Sound, Holds

LEMMA CInvKept ==
    ASSUME HInv', Sound', \A r \in Runs : slot' = r => Holds(r)'
    PROVE  CInv'
<1>1. ASSUME NEW r \in Runs, slot' # r PROVE Holds(r)'
  <2>1. Ruled(r)'
      BY DEF HInv
  <2>2. run'[r].pc \in Resting
      BY <1>1, <2>1 DEF Ruled
  <2>3. QED
      BY <2>2 DEF Holds, Killing, Asked, Running, Steady, Resting, Written, Seen, Kept
<1>2. \A r \in Runs : Holds(r)'
    BY <1>1
<1>3. QED
    BY <1>2 DEF CInv, Sound, Holds

\* No step of r: for r nothing changes.
LEMMA HoldsSame ==
    ASSUME NEW r \in Runs, Holds(r), SameRun(r), fault'[r] = fault[r],
           UNCHANGED <<dep, pods, stray>>, failures' = 0 => failures = 0
    PROVE  Holds(r)'
<1>1. \A d \in Deployments : Wanted(r, d)' = Wanted(r, d)
    BY DEF SameRun, Wanted, Want, CPU
<1>2. Killing(r)'
    BY DEF Holds, SameRun, Killing
<1>3. ASSUME NEW d \in Deployments PROVE Asked(r, d)' /\ Running(r, d)' /\ Steady(r, d)'
  <2>1. Asked(r, d) /\ Running(r, d) /\ Steady(r, d)
      BY DEF Holds
  <2>2. Asked(r, d)'
      BY <1>1, <2>1 DEF SameRun, Asked, Undisturbed, Written, Seen
  <2>3. Running(r, d)'
      BY <2>1 DEF SameRun, Running, Undisturbed, Seen, Claims
  <2>4. Steady(r, d)'
      BY <2>1 DEF SameRun, Steady, Owes, Kept, Base
  <2>5. QED
      BY <2>2, <2>3, <2>4
<1>4. QED
    BY <1>2, <1>3 DEF Holds

LEMMA SoundSame ==
    ASSUME Sound, UNCHANGED <<dep, pods, stray>>, failures' = 0 => failures = 0,
           slot' = NoRun => slot = NoRun /\ clean' = clean
    PROVE  Sound'
    BY DEF Sound, Honest, Restored, Claims, Base

\* A step of nobody that leaves the cluster alone.
LEMMA StillCInv ==
    ASSUME HInv', CInv, \A q \in Runs : SameRun(q), UNCHANGED <<slot, fault, clean>>,
           UNCHANGED <<dep, pods, stray>>, failures' = 0 => failures = 0
    PROVE  CInv'
<1>1. Sound'
    BY CInvParts, SoundSame
<1>2. \A r \in Runs : Holds(r)'
    BY CInvParts, HoldsSame
<1>3. QED
    BY <1>1, <1>2, CInvKept

\* Where a run goes by itself it must have what is held of it there.
Entitled(r, v) ==
    /\ v.sc = run[r].sc
    /\ \A d \in Deployments :
         /\ v.pc \in Written(d) => run[r].pc \in Written(d) /\ v.phase = run[r].phase
         /\ v.pc \in Seen(d) => \/ run[r].pc \in Seen(d)
                                \/ pods[d].cpu = dep[d].cpu /\ (d \notin stray => Claims(d))
         /\ v.pc \in Kept(d) /\ v.measured = TRUE /\ (v.sc = "scaling" => v.left = FALSE)
              /\ failures' = 0 /\ d \notin stray => dep[d].replicas = Base(d)
    /\ v.pc = "measure" => \/ run[r].pc = "measure"
                           \/ /\ \A f \in Faults : fault[r][f].pc = "idle"
                              /\ \A d \in Deployments \ stray : pods[d].n >= dep[d].replicas

LEMMA MoveCInv ==
    ASSUME HInv, HInv', CInv, NEW r \in Runs, NEW v, run' = [run EXCEPT ![r] = v],
           Entitled(r, v), UNCHANGED <<slot, fault, dep, pods, clean, stray>>,
           failures' = 0 => failures = 0
    PROVE  CInv'
<1>1. Sound'
    BY CInvParts, SoundSame
<1>2. run'[r] = v /\ \A q \in Runs : q # r => run'[q] = run[q]
    BY DEF HInv, HType
<1>3. ASSUME NEW q \in Runs, q # r PROVE Holds(q)'
    BY <1>2, <1>3, CInvParts, HoldsSame DEF SameRun
<1>4. Holds(r)
    BY CInvParts
<1>5. Killing(r)'
  <2>1. Killing(r)
      BY <1>4 DEF Holds
  <2>2. ASSUME v.pc = "measure", run[r].pc # "measure" PROVE Killing(r)'
    <3>1. /\ \A f \in Faults : fault[r][f].pc = "idle"
          /\ \A d \in Deployments \ stray : pods[d].n >= dep[d].replicas
        BY <2>2 DEF Entitled
    <3>2. QED
        BY <3>1 DEF Killing, Faults
  <2>3. QED
      BY <1>2, <2>1, <2>2 DEF Killing
<1>6. ASSUME NEW d \in Deployments PROVE Asked(r, d)' /\ Running(r, d)' /\ Steady(r, d)'
  <2>1. Asked(r, d) /\ Running(r, d) /\ Steady(r, d)
      BY <1>4 DEF Holds
  <2>2. /\ v.sc = run[r].sc
        /\ v.pc \in Written(d) => run[r].pc \in Written(d) /\ v.phase = run[r].phase
        /\ v.pc \in Seen(d) => \/ run[r].pc \in Seen(d)
                               \/ pods[d].cpu = dep[d].cpu /\ (d \notin stray => Claims(d))
        /\ v.pc \in Kept(d) /\ v.measured = TRUE /\ (v.sc = "scaling" => v.left = FALSE)
             /\ failures' = 0 /\ d \notin stray => dep[d].replicas = Base(d)
      BY DEF Entitled
  <2>3. Asked(r, d)'
    <3>1. v.pc \in Written(d) => Wanted(r, d)' = Wanted(r, d)
        BY <1>2, <2>2 DEF Wanted, Want, CPU
    <3>2. QED
        BY <1>2, <2>1, <2>2, <3>1 DEF Asked, Undisturbed, Written, Seen
  <2>4. Running(r, d)'
      BY <1>2, <2>1, <2>2 DEF Running, Undisturbed, Seen, Claims
  <2>5. Steady(r, d)'
      BY <1>2, <2>2 DEF Steady, Owes, Kept, Base
  <2>6. QED
      BY <2>3, <2>4, <2>5
<1>7. Holds(r)'
    BY <1>5, <1>6 DEF Holds
<1>8. QED
    BY <1>1, <1>3, <1>7, CInvKept

\* A goroutine of r moves, and the cluster does not.
LEMMA FaultMoveCInv ==
    ASSUME HInv, HInv', CInv, NEW r \in Runs, NEW f \in Faults, NEW x, FaultTo(r, f, x),
           run' = run, UNCHANGED <<slot, dep, pods, clean, stray>>,
           failures' = 0 => failures = 0,
           f = "worker" /\ x.pc \in {"idle", "list", "mark", "scale"} =>
             fault[r]["worker"].pc \in {"idle", "list", "mark", "scale"},
           f = "coordinator" /\ x.pc \in {"idle", "scale"} =>
             fault[r]["coordinator"].pc \in {"idle", "scale"},
           run[r].pc = "measure" /\ "worker" \notin stray /\ f = "worker" =>
             /\ x.pc \in {"mark", "scale"} => x.n = dep["worker"].replicas
             /\ x.pc # "delete",
           run[r].pc = "measure" /\ f = "coordinator" /\ x.pc \in {"list", "delete"} =>
             fault[r]["coordinator"].pc = "list",
           f = "restore" => x.pc # "idle"
    PROVE  CInv'
<1>1. Sound'
    BY CInvParts, SoundSame
<1>2. /\ fault'[r][f] = x /\ \A g \in Faults : g # f => fault'[r][g] = fault[r][g]
      /\ \A q \in Runs : q # r => fault'[q] = fault[q]
    BY FaultToFacts
<1>3. ASSUME NEW q \in Runs, q # r PROVE Holds(q)'
    BY <1>2, <1>3, CInvParts, HoldsSame DEF SameRun
<1>4. Holds(r)
    BY CInvParts
<1>5. \A d \in Deployments : Undisturbed(r, d)' => Undisturbed(r, d)
    BY <1>2 DEF Undisturbed, Faults
<1>6. Killing(r)'
  <2>1. Killing(r)
      BY <1>4 DEF Holds
  <2>2. CASE f = "worker"
      BY <1>2, <2>1, <2>2 DEF Killing, Faults
  <2>3. CASE f = "coordinator"
      BY <1>2, <2>1, <2>3 DEF Killing, Faults
  <2>4. CASE f = "restore"
      BY <1>2, <2>1, <2>4 DEF Killing, Faults
  <2>5. QED
      BY <2>2, <2>3, <2>4 DEF Faults
<1>7. ASSUME NEW d \in Deployments PROVE Asked(r, d)' /\ Running(r, d)' /\ Steady(r, d)'
  <2>1. Asked(r, d) /\ Running(r, d) /\ Steady(r, d)
      BY <1>4 DEF Holds
  <2>2. Asked(r, d)'
      BY <1>5, <2>1 DEF Asked, Wanted, Want, CPU, Written, Seen
  <2>3. Running(r, d)'
      BY <1>5, <2>1 DEF Running, Seen, Claims
  <2>4. Steady(r, d)'
      BY <2>1 DEF Steady, Owes, Kept, Base
  <2>5. QED
      BY <2>2, <2>3, <2>4
<1>8. Holds(r)'
    BY <1>6, <1>7 DEF Holds
<1>9. QED
    BY <1>1, <1>3, <1>8, CInvKept

-----------------------------------------------------------------------------
(* The cluster: steps that leave it alone *)

LEMMA GotoCInv ==
    ASSUME HInv, HInv', CInv, NEW r \in Runs, NEW to \in PCs, Goto(r, to),
           UNCHANGED <<slot, fault, cluster, history>>, failures' = 0 => failures = 0,
           \A d \in Deployments :
             /\ to \in Written(d) => run[r].pc \in Written(d)
             /\ to \in Seen(d) => \/ run[r].pc \in Seen(d)
                                  \/ pods[d].cpu = dep[d].cpu /\ (d \notin stray => Claims(d))
             /\ to \in Kept(d) /\ Owes(r) /\ failures' = 0 /\ d \notin stray =>
                  dep[d].replicas = Base(d),
           to = "measure" =>
             /\ \A f \in Faults : fault[r][f].pc = "idle"
             /\ \A d \in Deployments \ stray : pods[d].n >= dep[d].replicas
    PROVE  CInv'
<1>1. PICK v : v = run'[r]
    OBVIOUS
<1>2. /\ run' = [run EXCEPT ![r] = v] /\ v.pc = to
      /\ v.sc = run[r].sc /\ v.phase = run[r].phase
      /\ v.left = run[r].left /\ v.measured = run[r].measured
    BY <1>1, GotoFacts
<1>3. Entitled(r, v)
    BY <1>2 DEF Entitled, Owes
<1>4. QED
    BY <1>2, <1>3, MoveCInv DEF cluster, history

\* What holds of the holder of the slot, part by part.
LEMMA HeldFacts ==
    ASSUME HInv, CInv, NEW r \in Runs, NEW d \in Deployments
    PROVE  /\ Asked(r, d) /\ Running(r, d) /\ Steady(r, d) /\ Killing(r)
           /\ Honest(d) /\ Restored(d)
    BY CInvParts DEF Holds, Sound

\* Before the first fault nothing is disturbed.
LEMMA IdleFacts ==
    ASSUME HInv, NEW r \in Runs, run[r].pc \in Setup \cup {"stats"}
    PROVE  /\ \A f \in Faults : fault[r][f].pc = "idle"
           /\ \A d \in Deployments : Undisturbed(r, d)
<1>1. Ruled(r)
    BY RunFields
<1>2. \A f \in Faults : fault[r][f].pc = "idle"
    BY <1>1 DEF Ruled, Setup, Faults
<1>3. QED
    BY <1>2 DEF Undisturbed, Faults, Deployments

LEMMA SetupOwesNot ==
    ASSUME HInv, NEW r \in Runs, run[r].pc \in Setup
    PROVE  ~Owes(r) /\ run[r].measured = FALSE
    BY RunFields DEF Ruled, Owes

\* An error of setup, and the waits.
LEMMA SetupErrorCInv ==
    ASSUME HInv, HInv', CInv, NEW r \in Runs, Goto(r, "error"), run[r].pc \in Setup,
           UNCHANGED <<slot, fault, cluster, history>>, failures' = 0 => failures = 0
    PROVE  CInv'
<1>1. "error" \in PCs
    BY DEF PCs
<1>2. \A d \in Deployments : "error" \notin Written(d) /\ "error" \notin Seen(d)
    BY DEF Written, Seen
<1>3. QED
    BY <1>1, <1>2, SetupOwesNot, GotoCInv

\* The end of a wait for readiness: what is claimed is what was asked for.
LEMMA ReadyFacts ==
    ASSUME HInv, CInv, NEW r \in Runs, NEW d \in Deployments,
           run[r].pc \in Setup \cap Written(d),
           dep[d].status = Wanted(r, d).replicas, dep[d].observed
    PROVE  pods[d].cpu = dep[d].cpu /\ (d \notin stray => Claims(d))
<1>1. Wanted(r, d).replicas \in Nat
    BY WantedFacts
<1>2. dep[d].observed = TRUE
    BY DepFields
<1>3. pods[d].cpu = dep[d].cpu
    BY <1>1, <1>2, HeldFacts DEF Honest
<1>4. d \notin stray => dep[d].replicas = Wanted(r, d).replicas
    BY HeldFacts, IdleFacts DEF Asked
<1>5. QED
    BY <1>2, <1>3, <1>4 DEF Claims

Shown(d, from, done, to) ==
    /\ to \in Written(d) => from \in Written(d)
    /\ done /\ to \in Seen(d) /\ from \notin Seen(d) =>
         pods[d].cpu = dep[d].cpu /\ (d \notin stray => Claims(d))

LEMMA SettlesCInv ==
    ASSUME HInv, HInv', CInv, NEW r \in Runs, NEW from \in Setup, NEW to \in Setup, NEW done,
           Settles(r, from, done, to), \A d \in Deployments : Shown(d, from, done, to)
    PROVE  CInv'
<1>1. run[r].pc = from /\ UNCHANGED <<slot, fault, cluster, failures, history>>
    BY DEF Settles
<1>2. CASE Goto(r, "error")
    BY <1>1, <1>2, SetupErrorCInv
<1>3. CASE done /\ Goto(r, to)
  <2>1. to \in PCs /\ to # "measure" /\ \A d \in Deployments : to \notin Kept(d)
      BY DEF PCs, Kept, Setup
  <2>2. QED
      BY <1>1, <1>3, <2>1, GotoCInv DEF Shown
<1>4. QED
    BY <1>2, <1>3 DEF Settles

LEMMA LoadConfigCInv ==
    ASSUME HInv, HInv', CInv, NEW r \in Runs, LoadConfig(r)
    PROVE  CInv'
<1>1. /\ run[r].pc = "config" /\ UNCHANGED <<slot, fault, cluster, history>>
      /\ failures' = 0 => failures = 0
    BY FailsFacts DEF LoadConfig
<1>2. CASE Goto(r, "error")
    BY <1>1, <1>2, SetupErrorCInv DEF Setup
<1>3. CASE Goto(r, "apply coordinator")
  <2>1. "apply coordinator" \in PCs
      BY DEF PCs
  <2>2. \A d \in Deployments : "apply coordinator" \notin Written(d) \cup Seen(d) \cup Kept(d)
      BY DEF Written, Seen, Kept
  <2>3. QED
      BY <1>1, <1>3, <2>1, <2>2, GotoCInv
<1>4. QED
    BY <1>2, <1>3, ApplyingFacts DEF LoadConfig

LEMMA ApplyGetCInv ==
    ASSUME HInv, HInv', CInv, NEW r \in Runs, NEW d \in Deployments, ApplyGet(r, d)
    PROVE  CInv'
<1>1. run[r].pc \in Setup
    BY ApplyingFacts DEF ApplyGet, Setup
<1>2. UNCHANGED <<slot, fault, cluster, history>> /\ (failures' = 0 => failures = 0)
    BY FailsFacts DEF ApplyGet
<1>3. CASE Goto(r, "error")
    BY <1>1, <1>2, <1>3, SetupErrorCInv
<1>4. ASSUME NEW c \in {"read", "absent"}, run' = [run EXCEPT ![r].copy = c]
      PROVE  CInv'
  <2>1. PICK x \in RunType : x = run[r]
      BY RunFields
  <2> DEFINE v == [x EXCEPT !.copy = c]
  <2>2. run' = [run EXCEPT ![r] = v]
      BY <1>4, <2>1
  <2>3. /\ v.pc = x.pc /\ v.sc = x.sc /\ v.phase = x.phase /\ v.left = x.left
        /\ v.measured = x.measured
      BY <2>1 DEF RunType
  <2> HIDE DEF v
  <2>4. v.measured = FALSE /\ v.pc # "measure"
      BY <1>1, <2>1, <2>3, SetupOwesNot DEF Setup
  <2>5. Entitled(r, v)
      BY <2>1, <2>3, <2>4 DEF Entitled
  <2>6. QED
      BY <1>2, <2>2, <2>5, MoveCInv DEF cluster, history
<1>5. QED
    BY <1>3, <1>4 DEF ApplyGet

LEMMA WarmupCInv ==
    ASSUME HInv, HInv', CInv, NEW r \in Runs, Warmup(r)
    PROVE  CInv'
<1>1. run[r].pc = "warmup" /\ UNCHANGED <<slot, fault, cluster, failures, history>>
    BY DEF Warmup
<1>2. run[r].pc \in Setup /\ \A d \in Deployments : run[r].pc \in Seen(d) \cap Written(d)
    BY <1>1 DEF Setup, Seen, Written
<1>3. PICK to \in {"stats", "measure"} : Goto(r, to)
    BY DEF Warmup
<1>4. \A f \in Faults : fault[r][f].pc = "idle"
    BY <1>2, IdleFacts
<1>5. ASSUME NEW d \in Deployments \ stray PROVE pods[d].n >= dep[d].replicas
  <2>1. Claims(d)
      BY <1>2, <1>5, HeldFacts, IdleFacts DEF Running
  <2>2. pods[d].n = dep[d].replicas
      BY <1>5, <2>1, HeldFacts DEF Honest
  <2>3. QED
      BY <2>2, DepFields
<1>6. to \in PCs /\ ~Owes(r)
    BY <1>2, SetupOwesNot DEF PCs
<1>7. QED
    BY <1>1, <1>2, <1>3, <1>4, <1>5, <1>6, GotoCInv

LEMMA CoordStatsCInv ==
    ASSUME HInv, HInv', CInv, NEW r \in Runs, CoordStats(r)
    PROVE  CInv'
<1>1. /\ run[r].pc = "stats" /\ UNCHANGED <<slot, fault, cluster, history>>
      /\ failures' = 0 => failures = 0
    BY FailsFacts DEF CoordStats
<1>2. \A d \in Deployments : run[r].pc \in Seen(d) \cap Written(d) \cap Kept(d)
    BY <1>1 DEF Seen, Written, Kept
<1>3. \A f \in Faults : fault[r][f].pc = "idle"
    BY <1>1, IdleFacts
<1>4. ASSUME NEW d \in Deployments \ stray PROVE pods[d].n >= dep[d].replicas
  <2>1. Claims(d)
      BY <1>1, <1>2, <1>4, HeldFacts, IdleFacts DEF Running
  <2>2. pods[d].n = dep[d].replicas
      BY <1>4, <2>1, HeldFacts DEF Honest
  <2>3. QED
      BY <2>2, DepFields
<1>5. \A d \in Deployments : Owes(r) /\ failures = 0 /\ d \notin stray =>
                               dep[d].replicas = Base(d)
    BY <1>2, HeldFacts DEF Steady
<1>6. PICK to \in {"verdict", "measure", "error"} : Goto(r, to)
    BY DEF CoordStats
<1>7. to \in PCs /\ \A d \in Deployments : to \in Written(d) \cup Seen(d) => to = "measure"
    BY DEF PCs, Written, Seen
<1>8. QED
    BY <1>1, <1>2, <1>3, <1>4, <1>5, <1>6, <1>7, GotoCInv

\* The end of a run: from a state it keeps to the next.
LEMMA KeptCInv ==
    ASSUME HInv, HInv', CInv, NEW r \in Runs, NEW to \in {"verdict", "cancel"}, Goto(r, to),
           UNCHANGED <<slot, fault, cluster, history>>, failures' = 0 => failures = 0,
           \A d \in Deployments : run[r].pc \in Kept(d)
    PROVE  CInv'
<1>1. to \in PCs /\ to # "measure" /\ \A d \in Deployments : to \notin Written(d) \cup Seen(d)
    BY DEF PCs, Written, Seen
<1>2. \A d \in Deployments : Owes(r) /\ failures = 0 /\ d \notin stray =>
                               dep[d].replicas = Base(d)
    BY HeldFacts DEF Steady
<1>3. QED
    BY <1>1, <1>2, GotoCInv

LEMMA VerdictCInv ==
    ASSUME HInv, HInv', CInv, NEW r \in Runs, Verdict(r)
    PROVE  CInv'
<1>1. /\ run[r].pc \in {"verdict", "error"} /\ Goto(r, "cancel")
      /\ UNCHANGED <<slot, fault, cluster, failures, history>>
    BY DEF Verdict
<1>2. \A d \in Deployments : run[r].pc \in Kept(d)
    BY <1>1 DEF Kept
<1>3. QED
    BY <1>1, <1>2, KeptCInv

\* The context ends: nothing more is owed than before.
LEMMA EndsCInv ==
    ASSUME HInv, HInv', CInv, NEW r \in Runs, DeferredCancel(r) \/ Disconnect(r)
    PROVE  CInv'
<1>1. UNCHANGED <<slot, fault, dep, pods, clean, stray>> /\ failures' = failures
    BY DEF DeferredCancel, Disconnect, cluster, history
<1>2. PICK v : v = run'[r]
    OBVIOUS
<1>3. /\ run' = [run EXCEPT ![r] = v] /\ v.sc = run[r].sc /\ v.phase = run[r].phase
      /\ v.measured = run[r].measured
      /\ \/ v.pc = run[r].pc /\ v.left = TRUE
         \/ v.pc = "unlock" /\ run[r].pc = "cancel" /\ v.left = run[r].left
  <2>1. CASE DeferredCancel(r)
    <3>1. run[r].pc = "cancel"
        BY <2>1 DEF DeferredCancel
    <3>2. QED
        BY <1>2, <2>1, <3>1, CancelFacts
  <2>2. CASE Disconnect(r)
      BY <1>2, <2>2, DisconnectFacts
  <2>3. QED
      BY <2>1, <2>2
<1>4. \A d \in Deployments : v.pc \in Kept(d) => run[r].pc \in Kept(d)
    BY <1>3 DEF Kept
<1>5. \A d \in Deployments : /\ v.pc \in Written(d) => run[r].pc \in Written(d)
                             /\ v.pc \in Seen(d) => run[r].pc \in Seen(d)
    BY <1>3 DEF Written, Seen
<1>6. v.pc = "measure" => run[r].pc = "measure"
    BY <1>3
<1>7. v.measured = TRUE /\ (v.sc = "scaling" => v.left = FALSE) => Owes(r)
    BY <1>3 DEF Owes
<1>8. ASSUME NEW d \in Deployments, v.pc \in Kept(d), v.measured = TRUE,
             v.sc = "scaling" => v.left = FALSE, failures' = 0, d \notin stray
      PROVE  dep[d].replicas = Base(d)
    BY <1>1, <1>4, <1>7, <1>8, HeldFacts DEF Steady
<1>9. Entitled(r, v)
    BY <1>3, <1>5, <1>6, <1>8 DEF Entitled
<1>10. QED
    BY <1>1, <1>3, <1>9, MoveCInv

LEMMA DeferredUnlockCInv ==
    ASSUME HInv, HInv', CInv, NEW r \in Runs, DeferredUnlock(r)
    PROVE  CInv'
<1>1. /\ run[r].pc = "unlock" /\ slot' = NoRun
      /\ UNCHANGED <<dep, pods, stray, failures>>
      /\ clean' = (run[r].measured /\ (run[r].sc = "scaling" => ~run[r].left))
    BY DEF DeferredUnlock, cluster
<1>2. clean' = TRUE => Owes(r)
    BY <1>1, RunFields DEF Owes
<1>3. ASSUME NEW d \in Deployments PROVE Honest(d)' /\ Restored(d)'
  <2>1. Honest(d)'
      BY <1>1, HeldFacts DEF Honest, Claims
  <2>2. run[r].pc \in Kept(d)
      BY <1>1 DEF Kept
  <2>3. Owes(r) /\ failures = 0 /\ d \notin stray => dep[d].replicas = Base(d)
      BY <2>2, HeldFacts DEF Steady
  <2>4. Restored(d)'
      BY <1>1, <1>2, <2>3 DEF Restored, Base
  <2>5. QED
      BY <2>1, <2>4
<1>4. Sound'
    BY <1>3 DEF Sound
<1>5. \A q \in Runs : slot' # q
    BY <1>1 DEF Runs, NoRun
<1>6. QED
    BY <1>4, <1>5, CInvKept

LEMMA RequestCInv ==
    ASSUME HInv, HInv', CInv, NEW r \in Runs, NEW sc \in Scenarios, Request(r, sc)
    PROVE  CInv'
<1>1. slot' = r /\ UNCHANGED <<dep, pods, stray>>
    BY DEF Request, cluster, history
<1>2. slot' # NoRun
    BY <1>1 DEF Runs, NoRun
<1>3. ASSUME NEW d \in Deployments PROVE Honest(d)' /\ Restored(d)'
    BY <1>1, <1>2, HeldFacts DEF Honest, Claims, Restored
<1>4. Sound'
    BY <1>3 DEF Sound
<1>5. run'[r].pc = "config"
  <2>1. PICK x \in RunType : x = NoLocals
      BY NoLocalsType
  <2>2. run' = [run EXCEPT ![r] = [x EXCEPT !.pc = "config", !.sc = sc, !.live = TRUE]]
      BY <2>1 DEF Request
  <2>3. run'[r] = [x EXCEPT !.pc = "config", !.sc = sc, !.live = TRUE]
      BY <2>2 DEF HInv, HType
  <2>4. QED
      BY <2>3 DEF RunType
<1>6. Holds(r)'
    BY <1>5 DEF Holds, Killing, Asked, Running, Steady, Written, Seen, Kept
<1>7. QED
    BY <1>1, <1>4, <1>6, CInvKept

\* The end of a measurement: what was asked for and not disturbed is the
\* steady state of the deployment the scenario does not restore itself.
LEMMA MeasuredCInv ==
    ASSUME HInv, HInv', CInv, NEW r \in Runs, Measured(r)
    PROVE  CInv'
<1>1. run[r].pc = "measure" /\ UNCHANGED <<slot, fault, dep, pods, clean, stray, failures>>
    BY DEF Measured, cluster, history
<1>2. PICK v : v = run'[r]
    OBVIOUS
<1>3. MeasuredTo(r, v)
    BY <1>2, MeasuredFacts
<1>4. /\ run' = [run EXCEPT ![r] = v] /\ v.sc = run[r].sc
      /\ \/ v.pc = "apply coordinator" /\ v.measured = FALSE
         \/ /\ v.phase = run[r].phase
            /\ \/ v.pc = "rescale" /\ v.sc = "scaling"
               \/ v.pc = "stats" /\ v.sc = "baseline"
               \/ v.pc = "verdict" /\ v.sc = "hot-tenant"
               \/ v.pc = "restore workers" /\ v.sc = "worker-kill"
               \/ v.pc = "restore coordinator" /\ v.sc = "coordinator-kill"
    BY <1>3 DEF MeasuredTo
<1>5. \A d \in Deployments : run[r].pc \in Written(d) \cap Seen(d)
    BY <1>1 DEF Written, Seen
<1>6. ASSUME NEW d \in Deployments
      PROVE  v.pc \in Written(d) => v.phase = run[r].phase
    BY <1>4 DEF Written, Seen
<1>7. ASSUME NEW d \in Deployments, v.pc \in Kept(d), d \notin stray
      PROVE  dep[d].replicas = Base(d)
  <2>1. /\ fault[r]["worker"].pc # "idle" => run[r].sc = "worker-kill"
        /\ fault[r]["coordinator"].pc # "idle" => run[r].sc = "coordinator-kill"
      BY <1>1, RunFields DEF Ruled
  <2>2. Undisturbed(r, d) => dep[d].replicas = Wanted(r, d).replicas
      BY <1>5, <1>7, HeldFacts DEF Asked
  <2>3. CASE d = "coordinator"
    <3>1. run[r].sc # "coordinator-kill"
        BY <1>4, <1>7, <2>3 DEF Kept
    <3>2. Undisturbed(r, d)
        BY <2>1, <2>3, <3>1 DEF Undisturbed
    <3>3. QED
        BY <2>2, <2>3, <3>2, WantedFacts DEF Base
  <2>4. CASE d = "worker"
    <3>1. run[r].sc # "worker-kill" /\ run[r].sc # "scaling"
        BY <1>4, <1>7, <2>4 DEF Kept
    <3>2. Undisturbed(r, d)
        BY <2>1, <2>4, <3>1 DEF Undisturbed
    <3>3. Wanted(r, d).replicas = Default
        BY <2>4, <3>1, WantedFacts DEF Want
    <3>4. QED
        BY <2>2, <2>4, <3>2, <3>3 DEF Base
  <2>5. QED
      BY <2>3, <2>4 DEF Deployments
<1>8. Entitled(r, v)
    BY <1>1, <1>4, <1>5, <1>6, <1>7 DEF Entitled
<1>9. QED
    BY <1>1, <1>4, <1>8, MoveCInv

-----------------------------------------------------------------------------
(* The cluster: writes to a deployment *)

\* A write keeps the status honest: where the generation stays, so does the
\* specification.
LEMMA WrittenHonest ==
    ASSUME HInv, CInv, NEW d \in Deployments, NEW n \in Nat, NEW c \in Templates,
           Writes(d, n, c), pods' = pods, NEW e \in Deployments,
           e \in stray /\ e \notin stray' => e = d /\ ~Misleading(dep'[d], pods[d])
    PROVE  Honest(e)'
<1>1. Honest(e)
    BY CInvParts DEF Sound
<1>2. CASE e # d
  <2>1. dep'[e] = dep[e]
      BY <1>2 DEF Writes, HInv, HType
  <2>2. QED
      BY <1>1, <1>2, <2>1 DEF Honest, Claims
<1>3. CASE e = d
  <2>1. /\ dep'[d].replicas = n /\ dep'[d].cpu = c /\ dep'[d].status = dep[d].status
        /\ dep'[d].observed = TRUE =>
             dep[d].observed = TRUE /\ dep[d].replicas = n /\ dep[d].cpu = c
      BY DEF Writes
  <2>2. ASSUME dep'[d].observed = TRUE, dep'[d].status \in Nat
        PROVE  pods'[d].cpu = dep'[d].cpu
      BY <1>1, <1>3, <2>1, <2>2 DEF Honest
  <2>3. ASSUME Claims(d)', d \notin stray'
        PROVE  pods'[d].n = dep'[d].replicas /\ pods'[d].ready = pods'[d].n
    <3>1. dep'[d].observed = TRUE /\ dep'[d].status = dep'[d].replicas
        BY <2>3 DEF Claims
    <3>2. CASE d \in stray
      <4>1. ~Misleading(dep'[d], pods[d])
          BY <1>3, <2>3, <3>2
      <4>2. dep'[d].observed
          BY <3>1
      <4>3. pods[d].n = dep'[d].replicas /\ pods[d].ready = pods[d].n
          BY <3>1, <4>1, <4>2 DEF Misleading
      <4>4. QED
          BY <4>3
    <3>3. CASE d \notin stray
      <4>1. Claims(d)
          BY <2>1, <3>1 DEF Claims
      <4>2. pods[d].n = dep[d].replicas /\ pods[d].ready = pods[d].n
          BY <1>1, <1>3, <3>3, <4>1 DEF Honest
      <4>3. dep[d].replicas = dep'[d].replicas
          BY <2>1, <3>1
      <4>4. QED
          BY <4>2, <4>3
    <3>4. QED
        BY <3>2, <3>3
  <2>4. QED
      BY <1>3, <2>2, <2>3 DEF Honest
<1>4. QED
    BY <1>2, <1>3

\* The write of setup.
LEMMA PutCInv ==
    ASSUME HInv, HInv', CInv, NEW r \in Runs, NEW d \in Deployments, run[r].pc = Applying[d],
           dep' = Respec(d, Wanted(r, d).replicas, Wanted(r, d).cpu), PutRun(r, d),
           stray' = IF Misleading(dep'[d], pods[d]) THEN stray ELSE stray \ {d},
           UNCHANGED <<slot, fault, pods>>
    PROVE  CInv'
<1>1. PICK n \in Nat, c \in Templates : n = Wanted(r, d).replicas /\ c = Wanted(r, d).cpu
    BY WantedFacts
<1>2. dep' = Respec(d, n, c)
    BY <1>1
<1>3. Writes(d, n, c)
    BY <1>2, RespecFacts
<1>4. run[r].pc \in {"apply coordinator", "apply workers"} /\ run[r].pc \in Setup
    BY ApplyingFacts DEF Setup
<1>5. slot = r /\ slot # NoRun
  <2>1. run[r].pc \notin Resting
      BY <1>4 DEF Resting
  <2>2. slot = r
      BY <2>1, RunFields DEF Ruled
  <2>3. r # NoRun
      BY DEF Runs, NoRun
  <2>4. QED
      BY <2>2, <2>3
<1>6. \A e \in Deployments : e \in stray /\ e \notin stray' =>
                               e = d /\ ~Misleading(dep'[d], pods[d])
    OBVIOUS
<1>7. ASSUME NEW e \in Deployments PROVE Honest(e)' /\ Restored(e)'
    BY <1>3, <1>5, <1>6, WrittenHonest DEF Restored
<1>8. Sound'
    BY <1>7 DEF Sound
<1>9. PICK v : v = run'[r]
    OBVIOUS
<1>10. v.pc = PutTo(d) /\ v.sc = run[r].sc /\ v.phase = run[r].phase
    BY <1>9, PutFacts
<1>11. v.pc # "measure" /\ \A e \in Deployments : v.pc \notin Seen(e) \cup Kept(e)
    BY <1>10 DEF PutTo, Seen, Kept
<1>12. \A e \in Deployments : Wanted(r, e)' = Wanted(r, e)
    BY <1>9, <1>10 DEF Wanted, Want, CPU
<1>13. ASSUME NEW e \in Deployments PROVE Asked(r, e)'
  <2>1. CASE e = d
    <3>1. dep'[e].replicas = n /\ dep'[e].cpu = c
        BY <1>3, <2>1 DEF Writes
    <3>2. QED
        BY <1>1, <1>12, <2>1, <3>1 DEF Asked
  <2>2. CASE e # d
    <3>1. dep'[e] = dep[e]
        BY <1>3, <2>2 DEF Writes, HInv, HType
    <3>2. e \in stray' <=> e \in stray
        BY <2>2
    <3>3. v.pc \in Written(e) => run[r].pc \in Written(e)
        BY <1>10, <2>2, ApplyingFacts DEF PutTo, Written, Seen, Deployments
    <3>4. Asked(r, e)
        BY HeldFacts
    <3>5. QED
        BY <1>9, <1>12, <3>1, <3>2, <3>3, <3>4 DEF Asked, Undisturbed, Written, Seen
  <2>3. QED
      BY <2>1, <2>2
<1>14. Holds(r)'
    BY <1>9, <1>11, <1>13 DEF Holds, Killing, Running, Steady, Seen, Kept
<1>15. QED
    BY <1>5, <1>8, <1>14, CInvKept

LEMMA ApplyPutCInv ==
    ASSUME HInv, HInv', CInv, NEW r \in Runs, NEW d \in Deployments, ApplyPut(r, d)
    PROVE  CInv'
<1>1. run[r].pc = Applying[d] /\ UNCHANGED <<slot, fault, pods, late, clean>>
    BY DEF ApplyPut
<1>2. run[r].pc \in Setup
    BY <1>1, ApplyingFacts DEF Setup
<1>3. failures' = 0 => failures = 0
    BY FailsFacts DEF ApplyPut
<1>4. CASE Goto(r, "error") /\ UNCHANGED <<dep, stray>>
    BY <1>1, <1>2, <1>3, <1>4, SetupErrorCInv DEF cluster, history
<1>5. CASE ConflictRun(r) /\ UNCHANGED <<dep, stray>>
  <2>1. PICK v : v = run'[r]
      OBVIOUS
  <2>2. /\ run' = [run EXCEPT ![r] = v] /\ v.pc \in {run[r].pc, "error"}
        /\ v.sc = run[r].sc /\ v.phase = run[r].phase /\ v.measured = run[r].measured
      BY <1>5, <2>1, ConflictFacts
  <2>3. v.measured = FALSE /\ v.pc # "measure"
      BY <1>2, <2>2, SetupOwesNot DEF Setup
  <2>4. \A e \in Deployments : "error" \notin Written(e) \cup Seen(e)
      BY DEF Written, Seen
  <2>5. Entitled(r, v)
      BY <2>2, <2>3, <2>4 DEF Entitled
  <2>6. QED
      BY <1>1, <1>3, <1>5, <2>2, <2>5, MoveCInv
<1>6. CASE /\ dep' = Respec(d, Wanted(r, d).replicas, Wanted(r, d).cpu) /\ PutRun(r, d)
           /\ stray' = IF Misleading(dep'[d], pods[d]) THEN stray ELSE stray \ {d}
    BY <1>1, <1>6, PutCInv
<1>7. QED
    BY <1>4, <1>5, <1>6, ApplyingFacts DEF ApplyPut, PutTo, PutRun, ConflictRun

LEMMA EnsureCInv ==
    ASSUME HInv, HInv', CInv, NEW r \in Runs, Ensure(r)
    PROVE  CInv'
<1>1. ASSUME NEW d \in Deployments, ApplyGet(r, d) \/ ApplyPut(r, d) PROVE CInv'
    BY <1>1, ApplyGetCInv, ApplyPutCInv
<1>2. CASE Settles(r, "wait coordinator", Live(r) /\ Ready("coordinator", 1), "wait workers")
  <2>1. PICK done : done = (Live(r) /\ Ready("coordinator", 1))
      OBVIOUS
  <2>2. ASSUME done
        PROVE  /\ pods["coordinator"].cpu = dep["coordinator"].cpu
               /\ "coordinator" \notin stray => Claims("coordinator")
    <3>1. "coordinator" \in Deployments
        BY DEF Deployments
    <3>2. run[r].pc \in Setup \cap Written("coordinator")
        BY <1>2 DEF Settles, Setup, Written
    <3>3. dep["coordinator"].status = Wanted(r, "coordinator").replicas /\ dep["coordinator"].observed
        BY <2>1, <2>2, <3>1, WantedFacts DEF Ready
    <3>4. QED
        BY <3>1, <3>2, <3>3, ReadyFacts
  <2>3. ASSUME NEW d \in Deployments
        PROVE  /\ "wait coordinator" \in Written(d)
               /\ "wait workers" \in Seen(d) => d = "coordinator"
      BY DEF Written, Seen
  <2>4. "wait coordinator" \in Setup /\ "wait workers" \in Setup
      BY DEF Setup
  <2>5. Settles(r, "wait coordinator", done, "wait workers")
      BY <1>2, <2>1
  <2>6. \A d \in Deployments : Shown(d, "wait coordinator", done, "wait workers")
      BY <2>2, <2>3 DEF Shown
  <2>7. QED
      BY <2>4, <2>5, <2>6, SettlesCInv
<1>3. CASE Settles(r, "wait workers", Live(r) /\ Ready("worker", Want(r)), "wait http")
  <2>1. PICK done : done = (Live(r) /\ Ready("worker", Want(r)))
      OBVIOUS
  <2>2. ASSUME done
        PROVE  /\ pods["worker"].cpu = dep["worker"].cpu
               /\ "worker" \notin stray => Claims("worker")
    <3>1. "worker" \in Deployments
        BY DEF Deployments
    <3>2. run[r].pc \in Setup \cap Written("worker")
        BY <1>3 DEF Settles, Setup, Written
    <3>3. dep["worker"].status = Wanted(r, "worker").replicas /\ dep["worker"].observed
        BY <2>1, <2>2, <3>1, WantedFacts DEF Ready
    <3>4. QED
        BY <3>1, <3>2, <3>3, ReadyFacts
  <2>3. ASSUME NEW d \in Deployments
        PROVE  /\ "wait workers" \in Written(d)
               /\ "wait workers" \notin Seen(d) => d = "worker"
      BY DEF Written, Seen, Deployments
  <2>4. "wait workers" \in Setup /\ "wait http" \in Setup
      BY DEF Setup
  <2>5. Settles(r, "wait workers", done, "wait http")
      BY <1>3, <2>1
  <2>6. \A d \in Deployments : Shown(d, "wait workers", done, "wait http")
      BY <2>2, <2>3 DEF Shown
  <2>7. QED
      BY <2>4, <2>5, <2>6, SettlesCInv
<1>4. CASE Settles(r, "wait http", pods["worker"].ready > 0,
                   IF run[r].sc = "scaling" THEN "reach" ELSE "warmup")
  <2>1. PICK to \in Setup : to = IF run[r].sc = "scaling" THEN "reach" ELSE "warmup"
      BY DEF Setup
  <2>2. PICK done : done = (pods["worker"].ready > 0)
      OBVIOUS
  <2>3. Settles(r, "wait http", done, to) /\ "wait http" \in Setup
      BY <1>4, <2>1, <2>2 DEF Setup
  <2>4. \A d \in Deployments : "wait http" \in Seen(d) \cap Written(d)
      BY DEF Seen, Written
  <2>5. \A d \in Deployments : Shown(d, "wait http", done, to)
      BY <2>4 DEF Shown
  <2>6. QED
      BY <2>3, <2>5, SettlesCInv
<1>5. CASE Settles(r, "reach", Live(r) /\ Reachable, "warmup")
  <2>1. PICK done : done = (Live(r) /\ Reachable)
      OBVIOUS
  <2>2. Settles(r, "reach", done, "warmup") /\ "reach" \in Setup /\ "warmup" \in Setup
      BY <1>5, <2>1 DEF Setup
  <2>3. \A d \in Deployments : "reach" \in Seen(d) \cap Written(d)
      BY DEF Seen, Written
  <2>4. \A d \in Deployments : Shown(d, "reach", done, "warmup")
      BY <2>3 DEF Shown
  <2>5. QED
      BY <2>2, <2>4, SettlesCInv
<1>6. QED
    BY <1>1, <1>2, <1>3, <1>4, <1>5 DEF Ensure

\* Where Scale leads at the end of a run.
Ends == {"verdict", "wait restored"}

\* Scale by the holder of the slot, at the end: the deployment is back at
\* its base, the other one is as it was.
LEMMA EndScaleCInv ==
    ASSUME HInv, HInv', CInv, NEW r \in Runs, NEW d \in Deployments, NEW to \in Ends,
           dep' = Scaled(d, Base(d)), Goto(r, to), run[r].pc \notin Resting,
           failures' = 0 => failures = 0,
           \A e \in Deployments : e # d => run[r].pc \in Kept(e),
           UNCHANGED <<slot, fault, pods, history>>
    PROVE  CInv'
<1>1. Base(d) \in Nat
    BY HarnessAssumption DEF Base
<1>2. PICK n \in Nat : n = Base(d)
    BY <1>1
<1>3. PICK c \in Templates : c = dep[d].cpu
    BY DepFields
<1>4. dep' = Scaled(d, n)
    BY <1>2
<1>5. Writes(d, n, c)
    BY <1>3, <1>4, ScaledFacts
<1>6. stray' = stray
    BY DEF history
<1>7. slot = r /\ slot # NoRun
  <2>1. slot = r
      BY RunFields DEF Ruled
  <2>2. r # NoRun
      BY DEF Runs, NoRun
  <2>3. QED
      BY <2>1, <2>2
<1>8. ASSUME NEW e \in Deployments PROVE Honest(e)' /\ Restored(e)'
    BY <1>5, <1>6, <1>7, WrittenHonest DEF Restored
<1>9. Sound'
    BY <1>8 DEF Sound
<1>10. to \in PCs
    BY DEF PCs, Ends
<1>11. PICK v : v = run'[r]
    OBVIOUS
<1>12. /\ v.pc = to /\ v.sc = run[r].sc /\ v.left = run[r].left
       /\ v.measured = run[r].measured
    BY <1>10, <1>11, GotoFacts
<1>13. v.pc # "measure" /\ \A e \in Deployments : v.pc \notin Written(e) \cup Seen(e)
    BY <1>12 DEF Written, Seen, Ends
<1>14. ASSUME NEW e \in Deployments PROVE Steady(r, e)'
  <2>1. CASE e = d
      BY <1>2, <1>5, <2>1 DEF Steady, Writes, Base
  <2>2. CASE e # d
    <3>1. dep'[e] = dep[e] /\ run[r].pc \in Kept(e)
        BY <1>5, <2>2 DEF Writes, HInv, HType
    <3>2. Owes(r)' => Owes(r)
        BY <1>11, <1>12 DEF Owes
    <3>3. Steady(r, e)
        BY HeldFacts
    <3>4. QED
        BY <1>6, <3>1, <3>2, <3>3 DEF Steady, Base
  <2>3. QED
      BY <2>1, <2>2
<1>15. Holds(r)'
    BY <1>11, <1>13, <1>14 DEF Holds, Killing, Asked, Running, Written, Seen
<1>16. QED
    BY <1>7, <1>9, <1>15, CInvKept

\* A deferred call that fails: the failure is counted, nothing is owed.
LEMMA EndFailsCInv ==
    ASSUME HInv, HInv', CInv, NEW r \in Runs, NEW to \in {"verdict", "error"}, Goto(r, to),
           failures' = 0 => failures = 0, failures' # 0 \/ ~Owes(r),
           UNCHANGED <<slot, fault, cluster, history>>
    PROVE  CInv'
<1>1. to \in PCs /\ to # "measure" /\ \A d \in Deployments : to \notin Written(d) \cup Seen(d)
    BY DEF PCs, Written, Seen
<1>2. QED
    BY <1>1, GotoCInv

LEMMA RescaleCInv ==
    ASSUME HInv, HInv', CInv, NEW r \in Runs, Rescale(r)
    PROVE  CInv'
<1>1. run[r].pc = "rescale" /\ UNCHANGED <<slot, fault, pods, history>>
    BY DEF Rescale
<1>2. "worker" \in Deployments /\ Base("worker") = Default
    BY DEF Deployments, Base
<1>3. ~Live(r) => ~Owes(r)
  <2>1. run[r].sc = "scaling" /\ (run[r].live = TRUE \/ run[r].left = TRUE)
      BY <1>1, RunFields DEF Ruled, Resting
  <2>2. QED
      BY <2>1 DEF Live, Owes
<1>4. failures \in Nat
    BY DEF HInv, HType
<1>5. CASE dep' = Scaled("worker", Default) /\ Goto(r, "verdict") /\ UNCHANGED failures
  <2>1. \A e \in Deployments : e # "worker" => run[r].pc \in Kept(e)
      BY <1>1 DEF Kept, Deployments
  <2>2. run[r].pc \notin Resting /\ dep' = Scaled("worker", Base("worker"))
      BY <1>1, <1>2, <1>5 DEF Resting
  <2>3. "verdict" \in Ends
      BY DEF Ends
  <2>4. QED
      BY <1>1, <1>2, <1>5, <2>1, <2>2, <2>3, EndScaleCInv
<1>6. CASE Fails(r) /\ Goto(r, "error") /\ UNCHANGED <<dep, late>>
  <2>1. (failures' = 0 => failures = 0) /\ (failures' # 0 \/ ~Owes(r))
      BY <1>3, <1>4, <1>6 DEF Fails
  <2>2. QED
      BY <1>1, <1>6, <2>1, EndFailsCInv DEF cluster
<1>7. CASE Departs(r, "worker", Default) /\ Goto(r, "error") /\ UNCHANGED <<dep, failures>>
  <2>1. ~Owes(r)
      BY <1>3, <1>7 DEF Departs
  <2>2. QED
      BY <1>1, <1>7, <2>1, EndFailsCInv DEF cluster
<1>8. QED
    BY <1>5, <1>6, <1>7 DEF Rescale

LEMMA DeferredRestoreCInv ==
    ASSUME HInv, HInv', CInv, NEW r \in Runs, DeferredRestore(r)
    PROVE  CInv'
<1>1. failures \in Nat
    BY DEF HInv, HType
<1>2. ASSUME NEW from, NEW d \in Deployments, NEW n, NEW to \in Ends, n = Base(d),
             DeferredScale(r, from, d, n, to), from \notin Resting,
             \A e \in Deployments : e # d => from \in Kept(e)
      PROVE  CInv'
  <2>1. run[r].pc = from /\ UNCHANGED <<slot, fault, pods, late, history>>
      BY <1>2 DEF DeferredScale
  <2>2. CASE dep' = Scaled(d, n) /\ Goto(r, to) /\ UNCHANGED failures
    <3>1. \A e \in Deployments : e # d => run[r].pc \in Kept(e)
        BY <1>2, <2>1
    <3>2. run[r].pc \notin Resting /\ dep' = Scaled(d, Base(d))
        BY <1>2, <2>1, <2>2
    <3>3. QED
        BY <2>1, <2>2, <3>1, <3>2, EndScaleCInv
  <2>3. CASE FailsAlone /\ Goto(r, "verdict") /\ UNCHANGED dep
    <3>1. failures' = failures + 1
        BY <2>3 DEF FailsAlone
    <3>2. failures' # 0
        BY <1>1, <3>1
    <3>3. QED
        BY <2>1, <2>3, <3>2, EndFailsCInv DEF cluster
  <2>4. QED
      BY <1>2, <2>2, <2>3 DEF DeferredScale
<1>3. "worker" \in Deployments /\ "coordinator" \in Deployments
        /\ Base("worker") = Default /\ Base("coordinator") = 1
    BY DEF Deployments, Base
<1>8. /\ "verdict" \in Ends /\ "wait restored" \in Ends
      /\ "restore workers" \notin Resting /\ "restore coordinator" \notin Resting
      /\ \A e \in Deployments : /\ e # "worker" => "restore workers" \in Kept(e)
                                /\ e # "coordinator" => "restore coordinator" \in Kept(e)
    BY DEF Ends, Resting, Kept, Deployments
<1>4. CASE DeferredScale(r, "restore workers", "worker", Default, "verdict")
    BY <1>2, <1>3, <1>4, <1>8
<1>5. CASE DeferredScale(r, "restore coordinator", "coordinator", 1, "wait restored")
    BY <1>2, <1>3, <1>5, <1>8
<1>6. CASE /\ run[r].pc = "wait restored" /\ Goto(r, "verdict")
           /\ UNCHANGED <<slot, fault, cluster, failures, late, history>>
  <2>1. \A d \in Deployments : run[r].pc \in Kept(d)
      BY <1>6 DEF Kept
  <2>2. QED
      BY <1>6, <2>1, KeptCInv
<1>7. QED
    BY <1>4, <1>5, <1>6 DEF DeferredRestore

LEMMA RunStepCInv ==
    ASSUME HInv, HInv', CInv, NEW r \in Runs, RunStep(r)
    PROVE  CInv'
    BY LoadConfigCInv, EnsureCInv, WarmupCInv, CoordStatsCInv, MeasuredCInv, RescaleCInv,
       DeferredRestoreCInv, VerdictCInv, EndsCInv, DeferredUnlockCInv DEF RunStep

-----------------------------------------------------------------------------
(* The cluster: the goroutines *)

\* A goroutine whose call succeeds belongs to the run that measures.
LEMMA CallFacts ==
    ASSUME HInv, NEW r \in Runs, NEW f \in Faults, fault[r][f].pc \in Armed, Live(r)
    PROVE  /\ run[r].pc = "measure" /\ slot = r /\ slot # NoRun
           /\ f = "worker" => /\ fault[r]["coordinator"].pc = "idle"
                              /\ fault[r]["restore"].pc = "idle"
           /\ f # "worker" => fault[r]["worker"].pc = "idle"
<1>1. Ruled(r) /\ run[r].live = TRUE
    BY RunFields
<1>2. run[r].pc = "measure"
    BY <1>1 DEF Ruled
<1>3. slot = r
    BY <1>1, <1>2 DEF Ruled, Resting
<1>4. r # NoRun
    BY DEF Runs, NoRun
<1>5. /\ fault[r]["worker"].pc # "idle" => run[r].sc = "worker-kill"
      /\ fault[r]["coordinator"].pc # "idle" => run[r].sc = "coordinator-kill"
      /\ fault[r]["restore"].pc # "idle" => fault[r]["coordinator"].pc = "done"
    BY <1>1, <1>2 DEF Ruled
<1>6. fault[r][f].pc # "idle"
    BY DEF Armed
<1>7. f = "worker" => /\ fault[r]["coordinator"].pc = "idle"
                      /\ fault[r]["restore"].pc = "idle"
    BY <1>5, <1>6
<1>8. f # "worker" => fault[r]["worker"].pc = "idle"
    BY <1>5, <1>6 DEF Faults
<1>9. QED
    BY <1>2, <1>3, <1>4, <1>7, <1>8

\* A call that fails, or that is cancelled on its way: the goroutine reports.
LEMMA FaultFailsCInv ==
    ASSUME HInv, HInv', CInv, NEW r \in Runs, NEW f \in Faults, FaultGoto(r, f, "print"),
           run' = run, UNCHANGED <<slot, cluster, history>>, failures' = 0 => failures = 0
    PROVE  CInv'
<1>1. PICK x : x = fault'[r][f]
    OBVIOUS
<1>2. "print" \in FaultPCs
    BY DEF FaultPCs
<1>3. FaultTo(r, f, x) /\ x.pc = "print"
    BY <1>1, <1>2, FaultGotoFacts
<1>4. QED
    BY <1>3, FaultMoveCInv DEF cluster, history

LEMMA FaultPrintCInv ==
    ASSUME HInv, HInv', CInv, NEW r \in Runs, NEW f \in Faults, FaultPrint(r, f)
    PROVE  CInv'
<1>1. PICK x : x = [pc |-> "done", n |-> 0]
    OBVIOUS
<1>2. x \in FaultType /\ x.pc = "done"
    BY <1>1 DEF FaultType, FaultPCs
<1>3. FaultTo(r, f, x)
    BY <1>1, <1>2 DEF FaultTo, FaultPrint
<1>4. run' = run /\ UNCHANGED <<slot, dep, pods, clean, stray>> /\ failures' = failures
    BY DEF FaultPrint, cluster, history
<1>5. QED
    BY <1>2, <1>3, <1>4, FaultMoveCInv

LEMMA StartFaultCInv ==
    ASSUME HInv, HInv', CInv, NEW r \in Runs, NEW f \in Faults, StartFault(r, f)
    PROVE  CInv'
<1>1. /\ fault[r][f].pc = "idle" /\ run' = run /\ failures' = failures
      /\ UNCHANGED <<slot, dep, pods, clean, stray>>
    BY DEF StartFault, cluster, history
<1>2. PICK pc \in {"list", "scale"} :
        /\ FaultGoto(r, f, pc) /\ (f = "worker" => pc = "list")
        /\ f = "coordinator" => pc = "scale"
    BY DEF StartFault
<1>3. pc \in FaultPCs
    BY DEF FaultPCs
<1>4. PICK x : x = fault'[r][f]
    OBVIOUS
<1>5. FaultTo(r, f, x) /\ x.pc = pc
    BY <1>2, <1>3, <1>4, FaultGotoFacts
<1>6. /\ f = "worker" => fault[r]["worker"].pc = "idle"
      /\ f = "coordinator" => fault[r]["coordinator"].pc = "idle"
    BY <1>1
<1>7. QED
    BY <1>1, <1>2, <1>5, <1>6, FaultMoveCInv

\* What a kill lists is all there is: nothing has disturbed it yet.
LEMMA FaultListCInv ==
    ASSUME HInv, HInv', CInv, NEW r \in Runs, NEW d \in Deployments, NEW least \in {1, 2},
           NEW to \in {"mark", "delete"}, FaultList(r, d, least, to),
           d = "worker" => to = "mark", d = "coordinator" => to = "delete"
    PROVE  CInv'
<1>1. d \in Faults
    BY DEF Deployments, Faults
<1>2. /\ fault[r][d].pc = "list" /\ run' = run /\ UNCHANGED <<slot, history, cluster>>
      /\ failures' = 0 => failures = 0
    BY FailsFacts DEF FaultList, FaultFails
<1>3. CASE FaultGoto(r, d, "print")
    BY <1>1, <1>2, <1>3, FaultFailsCInv
<1>4. ASSUME NEW n \in pods[d].ready..pods[d].n, Live(r),
             fault' = [fault EXCEPT ![r][d] = [pc |-> IF n < least THEN "print" ELSE to, n |-> n]]
      PROVE  CInv'
  <2>1. n \in Nat
      BY DepFields
  <2>2. PICK pc \in FaultPCs : pc = IF n < least THEN "print" ELSE to
      BY DEF FaultPCs
  <2>3. PICK x : x = [pc |-> pc, n |-> n]
      OBVIOUS
  <2>4. x \in FaultType /\ x.pc = pc /\ x.n = n
      BY <2>1, <2>3 DEF FaultType
  <2>5. FaultTo(r, d, x)
      BY <1>4, <2>2, <2>3, <2>4 DEF FaultTo
  <2>6. run[r].pc = "measure"
      BY <1>1, <1>2, <1>4, CallFacts DEF Armed
  <2>7. ASSUME d = "worker", "worker" \notin stray PROVE n = dep["worker"].replicas
    <3>1. Undisturbed(r, "worker")
        BY <1>2, <2>7 DEF Undisturbed
    <3>2. run[r].pc \in Seen("worker") /\ "worker" \in Deployments
        BY <2>6 DEF Seen, Deployments
    <3>3. Claims("worker")
        BY <2>7, <3>1, <3>2, HeldFacts DEF Running
    <3>4. pods["worker"].n = dep["worker"].replicas /\ pods["worker"].ready = pods["worker"].n
        BY <2>7, <3>2, <3>3, HeldFacts DEF Honest
    <3>5. pods["worker"].n \in Nat
        BY <3>2, DepFields
    <3>6. QED
        BY <2>7, <3>4, <3>5
  <2>8. /\ d = "worker" => x.pc \in {"mark", "print"}
        /\ d = "coordinator" => x.pc \in {"delete", "print"}
      BY <2>2, <2>4
  <2>9. /\ d = "worker" => fault[r]["worker"].pc = "list"
        /\ d = "coordinator" => fault[r]["coordinator"].pc = "list"
      BY <1>2
  <2>10. d # "restore"
      BY DEF Deployments
  <2>11. UNCHANGED <<slot, dep, pods, clean, stray>>
      BY <1>2 DEF cluster, history
  <2>12. d = "worker" /\ "worker" \notin stray => x.n = dep["worker"].replicas
      BY <2>4, <2>7
  <2>13. QED
      BY <1>1, <1>2, <2>5, <2>8, <2>9, <2>10, <2>11, <2>12, FaultMoveCInv
<1>5. QED
    BY <1>3, <1>4 DEF FaultList, FaultFails

\* The pods change, and the deployments do not.
LEMMA PodsCInv ==
    ASSUME HInv, HInv', CInv, NEW d \in Deployments, NEW p, PodsTo(d, p),
           run' = run, UNCHANGED <<slot, dep, clean, failures, stray>>,
           p.cpu = dep[d].cpu \/ p.cpu = pods[d].cpu,
           Claims(d) /\ d \notin stray => p.n = dep[d].replicas /\ p.ready = p.n,
           slot # NoRun => Killing(slot)' /\ \A e \in Deployments : Undisturbed(slot, e)' => Undisturbed(slot, e)
    PROVE  CInv'
<1>1. pods'[d] = p /\ \A e \in Deployments : e # d => pods'[e] = pods[e]
    BY PodsKept
<1>2. ASSUME NEW e \in Deployments PROVE Honest(e)' /\ Restored(e)'
  <2>1. Honest(e) /\ Restored(e)
      BY CInvParts DEF Sound
  <2>2. Restored(e)'
      BY <2>1 DEF Restored, Base
  <2>3. Honest(e)'
    <3>1. CASE e = d
        BY <1>1, <2>1, <3>1 DEF Honest, Claims
    <3>2. CASE e # d
        BY <1>1, <2>1, <3>2 DEF Honest, Claims
    <3>3. QED
        BY <3>1, <3>2
  <2>4. QED
      BY <2>2, <2>3
<1>3. Sound'
    BY <1>2 DEF Sound
<1>4. ASSUME NEW r \in Runs, slot' = r PROVE Holds(r)'
  <2>1. slot = r /\ slot # NoRun
      BY <1>4 DEF Runs, NoRun
  <2>2. Killing(r)'
      BY <1>4, <2>1
  <2>3. ASSUME NEW e \in Deployments PROVE Asked(r, e)' /\ Running(r, e)' /\ Steady(r, e)'
    <3>1. Asked(r, e) /\ Running(r, e) /\ Steady(r, e)
        BY HeldFacts
    <3>2. Undisturbed(r, e)' => Undisturbed(r, e)
        BY <2>1
    <3>3. Asked(r, e)'
        BY <3>1, <3>2 DEF Asked, Wanted, Want, CPU, Written, Seen
    <3>4. Steady(r, e)'
        BY <3>1 DEF Steady, Owes, Kept, Base
    <3>5. Running(r, e)'
      <4>1. CASE e = d
          BY <1>1, <3>1, <3>2, <4>1 DEF Running, Seen, Claims
      <4>2. CASE e # d
          BY <1>1, <3>1, <3>2, <4>2 DEF Running, Seen, Claims
      <4>3. QED
          BY <4>1, <4>2
    <3>6. QED
        BY <3>3, <3>4, <3>5
  <2>4. QED
      BY <2>2, <2>3 DEF Holds
<1>5. QED
    BY <1>3, <1>4, CInvKept

LEMMA FaultMarkCInv ==
    ASSUME HInv, HInv', CInv, NEW r \in Runs, FaultMark(r)
    PROVE  CInv'
<1>1. "worker" \in Deployments /\ "worker" \in Faults
    BY DEF Deployments, Faults
<1>2. fault[r]["worker"].pc = "mark" /\ UNCHANGED <<slot, late, history>>
    BY DEF FaultMark
<1>3. CASE FaultFails(r, "worker")
  <2>1. (failures' = 0 => failures = 0) /\ run' = run /\ UNCHANGED cluster
          /\ FaultGoto(r, "worker", "print")
      BY <1>2, <1>3, FailsFacts DEF FaultFails
  <2>2. QED
      BY <1>1, <1>2, <2>1, FaultFailsCInv
<1>4. ASSUME Live(r), pods' = [pods EXCEPT !["worker"].marked = pods["worker"].n > 0],
             NEW pc \in {"scale", "print"}, FaultGoto(r, "worker", pc),
             UNCHANGED <<dep, run, failures>>
      PROVE  CInv'
  <2>1. PICK x : x = fault'[r]["worker"]
      OBVIOUS
  <2>2. pc \in FaultPCs
      BY DEF FaultPCs
  <2>3. FaultTo(r, "worker", x) /\ x.pc = pc /\ x.n = fault[r]["worker"].n
      BY <1>1, <1>4, <2>1, <2>2, FaultGotoFacts
  <2>4. /\ fault'[r]["worker"] = x
        /\ \A g \in Faults : g # "worker" => fault'[r][g] = fault[r][g]
      BY <1>1, <2>3, FaultToFacts
  <2>5. run[r].pc = "measure" /\ slot = r
      BY <1>1, <1>2, <1>4, CallFacts DEF Armed
  <2>6. PICK p : p = pods'["worker"]
      OBVIOUS
  <2>7. PodsTo("worker", p) /\ p.n = pods["worker"].n /\ p.ready = pods["worker"].ready
          /\ p.cpu = pods["worker"].cpu
      BY <1>4, <2>6, FaultMarkFacts
  <2>8. pods'["worker"] = p /\ \A e \in Deployments : e # "worker" => pods'[e] = pods[e]
      BY <1>1, <1>4, <2>7, PodsKept
  <2>9. Killing(r) /\ Honest("worker")
      BY <1>1, HeldFacts
  <2>10. Killing(r)'
    <3>1. \A d \in Deployments : pods'[d].n = pods[d].n
        BY <2>7, <2>8
    <3>2. stray' = stray
        BY <1>2 DEF history
    <3>3. QED
        BY <1>2, <1>4, <2>3, <2>4, <2>5, <2>9, <3>1, <3>2 DEF Killing, Faults
  <2>11. \A e \in Deployments : Undisturbed(r, e)' => Undisturbed(r, e)
      BY <1>2, <2>4 DEF Undisturbed, Faults
  <2>12. Claims("worker") /\ "worker" \notin stray =>
           p.n = dep["worker"].replicas /\ p.ready = p.n
      BY <2>7, <2>9 DEF Honest
  <2>13. UNCHANGED <<slot, dep, clean, failures, stray>> /\ run' = run
      BY <1>2, <1>4 DEF history
  <2>14. slot # NoRun => Killing(slot)' /\ \A e \in Deployments : Undisturbed(slot, e)' => Undisturbed(slot, e)
      BY <2>5, <2>10, <2>11, <2>13
  <2>15. QED
      BY <1>1, <2>7, <2>12, <2>13, <2>14, PodsCInv
<1>5. QED
    BY <1>3, <1>4 DEF FaultMark

\* The pod that is deleted is one too many.
LEMMA FaultDeleteCInv ==
    ASSUME HInv, HInv', CInv, NEW r \in Runs, NEW d \in Deployments, NEW there,
           there => pods[d].n > 0, FaultDelete(r, d, there, "print"),
           d = "worker" /\ there => pods["worker"].marked = TRUE
    PROVE  CInv'
<1>1. d \in Faults
    BY DEF Deployments, Faults
<1>2. fault[r][d].pc = "delete" /\ UNCHANGED <<slot, late, history>>
    BY DEF FaultDelete
<1>3. CASE FaultFails(r, d)
  <2>1. (failures' = 0 => failures = 0) /\ run' = run /\ UNCHANGED cluster
          /\ FaultGoto(r, d, "print")
      BY <1>2, <1>3, FailsFacts DEF FaultFails
  <2>2. QED
      BY <1>1, <1>2, <2>1, FaultFailsCInv
<1>4. CASE Live(r) /\ ~there /\ pods' = pods /\ FaultGoto(r, d, "print")
             /\ UNCHANGED <<dep, run, failures>>
    BY <1>1, <1>2, <1>4, FaultFailsCInv DEF cluster
<1>5. ASSUME Live(r), there, pods' = Deleted(d, there), FaultGoto(r, d, "print"),
             UNCHANGED <<dep, run, failures>>
      PROVE  CInv'
  <2>1. PICK x : x = fault'[r][d]
      OBVIOUS
  <2>2. "print" \in FaultPCs
      BY DEF FaultPCs
  <2>3. FaultTo(r, d, x) /\ x.pc = "print"
      BY <1>1, <1>5, <2>1, <2>2, FaultGotoFacts
  <2>4. /\ fault'[r][d] = x
        /\ \A g \in Faults : g # d => fault'[r][g] = fault[r][g]
      BY <1>1, <2>3, FaultToFacts
  <2>5. /\ run[r].pc = "measure" /\ slot = r
        /\ d = "worker" => /\ fault[r]["coordinator"].pc = "idle"
                           /\ fault[r]["restore"].pc = "idle"
        /\ d # "worker" => fault[r]["worker"].pc = "idle"
      BY <1>1, <1>2, <1>5, CallFacts DEF Armed
  <2>6. PICK p : p = pods'[d]
      OBVIOUS
  <2>7. PodsTo(d, p) /\ p.n = pods[d].n - 1 /\ p.cpu = pods[d].cpu
      BY <1>5, <2>6, DeletedFacts
  <2>8. pods'[d] = p /\ \A e \in Deployments : e # d => pods'[e] = pods[e]
      BY <1>5, <2>7, PodsKept
  <2>9. Killing(r) /\ Honest(d)
      BY HeldFacts
  <2>10. stray' = stray
      BY <1>2 DEF history
  <2>11. d \notin stray => pods[d].n > dep[d].replicas
    <3>1. CASE d = "worker"
        BY <1>2, <1>5, <2>5, <2>9, <3>1 DEF Killing
    <3>2. CASE d = "coordinator"
      <4>1. d \notin stray => dep[d].replicas = 0
          BY <1>2, <2>5, <2>9, <3>2 DEF Killing
      <4>2. pods[d].n > 0
          BY <1>5
      <4>3. QED
          BY <4>1, <4>2
    <3>3. QED
        BY <3>1, <3>2 DEF Deployments
  <2>12. d \notin stray => p.n >= dep[d].replicas
    <3>1. pods[d].n \in Nat /\ dep[d].replicas \in Nat
        BY DepFields
    <3>2. QED
        BY <2>7, <2>11, <3>1
  <2>13. Killing(r)'
    <3>1. ASSUME fault'[r]["restore"].pc = "idle", NEW e \in Deployments \ stray
          PROVE  pods'[e].n >= dep[e].replicas
      <4>1. CASE e = d
          BY <2>8, <2>12, <3>1, <4>1
      <4>2. CASE e # d
        <5>1. fault[r]["restore"].pc = "idle"
            BY <2>4, <3>1 DEF Deployments, Faults
        <5>2. pods[e].n >= dep[e].replicas
            BY <2>5, <2>9, <3>1, <5>1 DEF Killing
        <5>3. QED
            BY <2>8, <4>2, <5>2
      <4>3. QED
          BY <4>1, <4>2
    <3>2. fault'[r]["worker"].pc \notin {"mark", "scale", "delete"}
        BY <2>3, <2>4, <2>5 DEF Faults
    <3>3. fault'[r]["coordinator"].pc \in {"list", "delete"} =>
            fault[r]["coordinator"].pc \in {"list", "delete"}
        BY <2>3, <2>4 DEF Faults
    <3>4. QED
        BY <1>5, <2>5, <2>9, <2>10, <3>1, <3>2, <3>3 DEF Killing
  <2>14. \A e \in Deployments : Undisturbed(r, e)' => Undisturbed(r, e)
      BY <2>3, <2>4 DEF Undisturbed, Faults, Deployments
  <2>15. Claims(d) /\ d \notin stray => p.n = dep[d].replicas /\ p.ready = p.n
    <3>1. pods[d].n \in Nat /\ dep[d].replicas \in Nat
        BY DepFields
    <3>2. ~(Claims(d) /\ d \notin stray)
        BY <2>9, <2>11, <3>1 DEF Honest
    <3>3. QED
        BY <3>2
  <2>16. UNCHANGED <<slot, dep, clean, failures, stray>> /\ run' = run
      BY <1>2, <1>5 DEF history
  <2>17. slot # NoRun => Killing(slot)' /\ \A e \in Deployments : Undisturbed(slot, e)' => Undisturbed(slot, e)
      BY <2>5, <2>13, <2>14, <2>16
  <2>18. QED
      BY <2>7, <2>15, <2>16, <2>17, PodsCInv
<1>6. QED
    BY <1>3, <1>4, <1>5 DEF FaultDelete, Deleted

\* Where a goroutine scales its deployment, and what to.
Scales(r, f, d, n, to) ==
    \/ f = "worker" /\ d = "worker" /\ n = fault[r]["worker"].n - 1 /\ to = "delete"
    \/ f = "coordinator" /\ d = "coordinator" /\ n = 0 /\ to = "list"
    \/ f = "restore" /\ d = "coordinator" /\ to = "wait"

LEMMA FaultScaleCInv ==
    ASSUME HInv, HInv', CInv, NEW r \in Runs, NEW f \in Faults, NEW d \in Deployments,
           NEW n \in Nat, NEW to \in FaultPCs, Scales(r, f, d, n, to), FaultScale(r, f, d, n, to)
    PROVE  CInv'
<1>1. fault[r][f].pc = "scale" /\ UNCHANGED <<slot, history>>
    BY DEF FaultScale
<1>2. CASE FaultFails(r, f) /\ UNCHANGED late
  <2>1. (failures' = 0 => failures = 0) /\ run' = run /\ UNCHANGED cluster
          /\ FaultGoto(r, f, "print")
      BY <1>2, FailsFacts DEF FaultFails
  <2>2. QED
      BY <1>1, <2>1, FaultFailsCInv
<1>3. CASE Departs(r, d, n) /\ FaultGoto(r, f, "print") /\ UNCHANGED <<cluster, run, failures>>
    BY <1>1, <1>3, FaultFailsCInv
<1>4. ASSUME Live(r), dep' = Scaled(d, n), run' = [q \in Runs |-> Overtaken(d, q)],
             FaultGoto(r, f, to), UNCHANGED <<pods, failures, late>>
      PROVE  CInv'
  <2>1. PICK c \in Templates : c = dep[d].cpu
      BY DepFields
  <2>2. Writes(d, n, c)
      BY <1>4, <2>1, ScaledFacts
  <2>3. /\ dep'[d].replicas = n /\ dep'[d].cpu = dep[d].cpu
        /\ \A e \in Deployments : e # d => dep'[e] = dep[e]
      BY <2>1, <2>2 DEF Writes, HInv, HType
  <2>4. stray' = stray
      BY <1>1 DEF history
  <2>5. PICK x : x = fault'[r][f]
      OBVIOUS
  <2>6. FaultTo(r, f, x) /\ x.pc = to
      BY <1>4, <2>5, FaultGotoFacts
  <2>7. /\ fault'[r][f] = x
        /\ \A g \in Faults : g # f => fault'[r][g] = fault[r][g]
      BY <2>6, FaultToFacts
  <2>8. /\ run[r].pc = "measure" /\ slot = r /\ slot # NoRun
        /\ f = "worker" => /\ fault[r]["coordinator"].pc = "idle"
                           /\ fault[r]["restore"].pc = "idle"
        /\ f # "worker" => fault[r]["worker"].pc = "idle"
      BY <1>1, <1>4, CallFacts DEF Armed
  <2>9. SameRun(r)
      BY <1>4, OvertakenSame
  <2>10. ASSUME NEW e \in Deployments PROVE Honest(e)' /\ Restored(e)'
      BY <1>1, <1>4, <2>2, <2>4, <2>8, WrittenHonest DEF Restored
  <2>11. Sound'
      BY <2>10 DEF Sound
  <2>12. f = "restore" => fault[r]["coordinator"].pc = "done"
      BY <1>1, RunFields DEF Ruled
  <2>13. ~Undisturbed(r, d)'
    <3>1. CASE f = "worker"
        BY <2>6, <2>7, <3>1 DEF Scales, Undisturbed
    <3>2. CASE f = "coordinator"
        BY <2>6, <2>7, <3>2 DEF Scales, Undisturbed
    <3>3. CASE f = "restore"
        BY <2>7, <2>12, <3>3 DEF Scales, Undisturbed, Faults
    <3>4. QED
        BY <3>1, <3>2, <3>3 DEF Faults
  <2>14. ASSUME NEW e \in Deployments, e # d PROVE Undisturbed(r, e)' => Undisturbed(r, e)
      BY <2>7, <2>14 DEF Undisturbed, Faults, Deployments, Scales
  <2>15. Killing(r)
      BY HeldFacts
  <2>16. Killing(r)'
    <3>1. CASE f = "worker"
      <4>1. d = "worker" /\ n = fault[r]["worker"].n - 1 /\ x.pc = "delete"
          BY <2>6, <3>1 DEF Scales
      <4>2. ASSUME d \notin stray PROVE pods[d].n > n
        <5>1. fault[r]["worker"].n = dep[d].replicas /\ pods[d].n >= dep[d].replicas
            BY <1>1, <2>8, <2>15, <3>1, <4>1, <4>2 DEF Killing
        <5>2. pods[d].n \in Nat /\ dep[d].replicas \in Nat
            BY DepFields
        <5>3. QED
            BY <4>1, <5>1, <5>2
      <4>3. ASSUME NEW e \in Deployments \ stray PROVE pods[e].n >= dep'[e].replicas
        <5>1. CASE e = d
          <6>1. pods[d].n \in Nat
              BY DepFields
          <6>2. QED
              BY <2>3, <4>2, <4>3, <5>1, <6>1
        <5>2. CASE e # d
          <6>1. pods[e].n >= dep[e].replicas
              BY <2>8, <2>15, <3>1, <4>3 DEF Killing
          <6>2. QED
              BY <2>3, <5>2, <6>1
        <5>3. QED
            BY <5>1, <5>2
      <4>4. fault'[r]["coordinator"].pc = "idle"
          BY <2>7, <2>8, <3>1 DEF Faults
      <4>5. fault'[r]["worker"].pc = "delete"
          BY <2>7, <3>1, <4>1
      <4>6. QED
          BY <1>4, <2>3, <2>4, <4>1, <4>2, <4>3, <4>4, <4>5 DEF Killing
    <3>2. CASE f = "coordinator"
      <4>1. d = "coordinator" /\ n = 0
          BY <3>2 DEF Scales
      <4>2. fault'[r]["worker"].pc = "idle"
          BY <2>7, <2>8, <3>2 DEF Faults
      <4>3. fault'[r]["restore"].pc = fault[r]["restore"].pc
          BY <2>7, <3>2 DEF Faults
      <4>4. ASSUME NEW e \in Deployments \ stray, fault[r]["restore"].pc = "idle"
            PROVE  pods[e].n >= dep'[e].replicas
        <5>1. CASE e = d
          <6>1. pods[d].n \in Nat
              BY DepFields
          <6>2. QED
              BY <2>3, <4>1, <5>1, <6>1
        <5>2. CASE e # d
          <6>1. pods[e].n >= dep[e].replicas
              BY <2>8, <2>15, <4>4 DEF Killing
          <6>2. QED
              BY <2>3, <5>2, <6>1
        <5>3. QED
            BY <5>1, <5>2
      <4>5. QED
          BY <1>4, <2>3, <2>4, <4>1, <4>2, <4>3, <4>4 DEF Killing
    <3>3. CASE f = "restore"
      <4>1. fault'[r]["worker"].pc = "idle" /\ fault'[r]["coordinator"].pc = "done"
          BY <2>7, <2>8, <2>12, <3>3 DEF Faults
      <4>2. fault'[r]["restore"].pc = "wait"
          BY <2>6, <2>7, <3>3 DEF Scales
      <4>3. QED
          BY <4>1, <4>2 DEF Killing
    <3>4. QED
        BY <3>1, <3>2, <3>3 DEF Faults
  <2>17. ASSUME NEW e \in Deployments PROVE Asked(r, e)' /\ Running(r, e)' /\ Steady(r, e)'
    <3>1. Asked(r, e) /\ Running(r, e)
        BY HeldFacts
    <3>2. run'[r].pc = "measure" /\ run'[r].sc = run[r].sc /\ run'[r].phase = run[r].phase
        BY <2>8, <2>9 DEF SameRun
    <3>3. Wanted(r, e)' = Wanted(r, e)
        BY <3>2 DEF Wanted, Want, CPU
    <3>4. run[r].pc \in Written(e) \cap Seen(e) /\ run'[r].pc \notin Kept(e)
        BY <2>8, <3>2 DEF Written, Seen, Kept
    <3>5. dep'[e].cpu = dep[e].cpu
        BY <2>3
    <3>6. Steady(r, e)'
        BY <3>4 DEF Steady, Kept
    <3>7. CASE e = d
        BY <1>4, <2>13, <3>1, <3>3, <3>4, <3>5, <3>6, <3>7 DEF Asked, Running
    <3>8. CASE e # d
      <4>1. dep'[e] = dep[e] /\ (Undisturbed(r, e)' => Undisturbed(r, e))
          BY <2>3, <2>14, <3>8
      <4>2. Asked(r, e)'
          BY <2>4, <3>1, <3>3, <3>4, <4>1 DEF Asked
      <4>3. Running(r, e)'
          BY <1>4, <2>4, <3>1, <3>4, <4>1 DEF Running, Claims
      <4>4. QED
          BY <3>6, <4>2, <4>3
    <3>9. QED
        BY <3>7, <3>8
  <2>18. Holds(r)'
      BY <2>16, <2>17 DEF Holds
  <2>19. QED
      BY <1>1, <2>8, <2>11, <2>18, CInvKept
<1>5. QED
    BY <1>2, <1>3, <1>4 DEF FaultScale

LEMMA FaultStepCInv ==
    ASSUME HInv, HInv', CInv, NEW r \in Runs, FaultStep(r)
    PROVE  CInv'
<1>1. /\ "worker" \in Deployments /\ "coordinator" \in Deployments /\ 0 \in Nat /\ 1 \in Nat
      /\ "worker" \in Faults /\ "coordinator" \in Faults /\ "restore" \in Faults
      /\ "delete" \in FaultPCs /\ "list" \in FaultPCs /\ "wait" \in FaultPCs
    BY DEF Deployments, Faults, FaultPCs
<1>2. CASE KillOneWorkerNoReplacement(r)
  <2>1. CASE FaultList(r, "worker", 2, "mark")
      BY <1>1, <2>1, FaultListCInv
  <2>2. CASE FaultMark(r)
      BY <2>2, FaultMarkCInv
  <2>3. CASE FaultScale(r, "worker", "worker", fault[r].worker.n - 1, "delete")
    <3>1. fault[r]["worker"].pc = "scale"
        BY <2>3 DEF FaultScale
    <3>2. PICK n \in Nat : n = fault[r]["worker"].n - 1
        BY <3>1, KillFacts
    <3>3. FaultScale(r, "worker", "worker", n, "delete")
        BY <2>3, <3>2, KillFacts
    <3>4. Scales(r, "worker", "worker", n, "delete")
        BY <3>2 DEF Scales
    <3>5. QED
        BY <1>1, <3>3, <3>4, FaultScaleCInv
  <2>4. CASE FaultDelete(r, "worker", pods["worker"].marked, "print")
    <3>1. PICK there : there = pods["worker"].marked
        OBVIOUS
    <3>2. there => pods["worker"].n > 0
        BY <3>1, KillFacts
    <3>3. FaultDelete(r, "worker", there, "print")
        BY <2>4, <3>1
    <3>4. there => pods["worker"].marked = TRUE
        BY <1>1, <3>1, DepFields
    <3>5. QED
        BY <1>1, <3>2, <3>3, <3>4, FaultDeleteCInv
  <2>5. QED
      BY <1>2, <2>1, <2>2, <2>3, <2>4 DEF KillOneWorkerNoReplacement
<1>3. CASE KillCoordinator(r)
  <2>1. CASE FaultScale(r, "coordinator", "coordinator", 0, "list")
    <3>1. Scales(r, "coordinator", "coordinator", 0, "list")
        BY DEF Scales
    <3>2. QED
        BY <1>1, <2>1, <3>1, FaultScaleCInv
  <2>2. CASE FaultList(r, "coordinator", 1, "delete")
      BY <1>1, <2>2, FaultListCInv
  <2>3. CASE FaultDelete(r, "coordinator", pods["coordinator"].n > 0, "print")
    <3>1. PICK there : there = (pods["coordinator"].n > 0)
        OBVIOUS
    <3>2. there => pods["coordinator"].n > 0
        BY <3>1
    <3>3. FaultDelete(r, "coordinator", there, "print")
        BY <2>3, <3>1
    <3>4. QED
        BY <1>1, <3>2, <3>3, FaultDeleteCInv
  <2>4. QED
      BY <1>3, <2>1, <2>2, <2>3 DEF KillCoordinator
<1>4. CASE RestoreCoordinator(r)
  <2>1. CASE FaultScale(r, "restore", "coordinator", 1, "wait")
    <3>1. Scales(r, "restore", "coordinator", 1, "wait")
        BY DEF Scales
    <3>2. QED
        BY <1>1, <2>1, <3>1, FaultScaleCInv
  <2>2. CASE /\ fault[r].restore.pc = "wait" /\ FaultGoto(r, "restore", "print")
             /\ UNCHANGED <<slot, run, cluster, failures, late, history>>
      BY <1>1, <2>2, FaultFailsCInv
  <2>3. QED
      BY <1>4, <2>1, <2>2 DEF RestoreCoordinator
<1>5. ASSUME NEW f \in Faults, FaultPrint(r, f) PROVE CInv'
    BY <1>5, FaultPrintCInv
<1>6. QED
    BY <1>2, <1>3, <1>4, <1>5 DEF FaultStep

-----------------------------------------------------------------------------
(* The cluster: the controllers and the late patch *)

\* A controller acts on what a run measures only where the pods are not yet,
\* or not any more, what is specified: then nothing was claimed, or a pod is
\* one too many.
LEMMA ReconcileCInv ==
    ASSUME HInv, HInv', CInv, NEW d \in Deployments, Reconcile(d)
    PROVE  CInv'
<1>1. /\ run' = run /\ fault' = fault
      /\ UNCHANGED <<slot, dep, clean, failures, stray>>
    BY DEF Reconcile, history
<1>2. PICK p : p = pods'[d]
    OBVIOUS
<1>3. Reconciled(d, p)
    BY <1>2, ReconcileFacts
<1>4. PodsTo(d, p) /\ p.cpu = dep[d].cpu
    BY <1>3 DEF Reconciled
<1>5. pods'[d] = p /\ \A e \in Deployments : e # d => pods'[e] = pods[e]
    BY <1>1, <1>4, PodsKept
<1>6. Honest(d)
    BY CInvParts DEF Sound
<1>7. ~(Claims(d) /\ d \notin stray)
  <2> SUFFICES ASSUME Claims(d), d \notin stray PROVE FALSE
      OBVIOUS
  <2>1. dep[d].observed = TRUE /\ dep[d].status \in Nat
      BY DepFields DEF Claims
  <2>2. pods[d].cpu = dep[d].cpu
      BY <1>6, <2>1 DEF Honest
  <2>3. pods[d].n = dep[d].replicas
      BY <1>6 DEF Honest
  <2>4. QED
      BY <1>3, <2>2, <2>3 DEF Reconciled
<1>8. ASSUME NEW r \in Runs, slot = r PROVE Killing(r)'
  <2> SUFFICES ASSUME run[r].pc = "measure" PROVE Killing(r)'
      BY <1>1 DEF Killing
  <2>1. Killing(r) /\ Running(r, d) /\ run[r].pc \in Seen(d)
      BY HeldFacts DEF Seen
  <2>2. pods[d].cpu = dep[d].cpu
      BY <2>1 DEF Running
  <2>3. p.n = dep[d].replicas /\ p.n # pods[d].n /\ (p.marked = TRUE => p.n > pods[d].n)
      BY <1>3, <2>2 DEF Reconciled
  <2>4. p.n \in Nat /\ pods[d].n \in Nat
      BY <2>3, DepFields
  <2>5. ASSUME d = "worker", "worker" \notin stray, fault[r]["worker"].pc = "delete"
        PROVE  p.marked # TRUE
    <3>1. fault[r]["restore"].pc = "idle"
        BY <2>5, RunFields DEF Ruled
    <3>2. pods[d].n >= dep[d].replicas
        BY <2>1, <2>5, <3>1 DEF Killing
    <3>3. ~(p.n > pods[d].n)
        BY <2>3, <2>4, <3>2
    <3>4. p.marked = TRUE => p.n > pods[d].n
        BY <2>3
    <3>5. QED
        BY <3>3, <3>4
  <2>6. ASSUME NEW e \in Deployments \ stray, fault[r]["restore"].pc = "idle"
        PROVE  pods'[e].n >= dep[e].replicas
    <3>1. CASE e = d
        BY <1>5, <2>3, <2>4, <3>1
    <3>2. CASE e # d
        BY <1>5, <2>1, <2>6, <3>2 DEF Killing
    <3>3. QED
        BY <3>1, <3>2
  <2>7. ASSUME "worker" \notin stray, fault[r]["worker"].pc = "delete",
               pods'["worker"].marked = TRUE
        PROVE  pods'["worker"].n > dep["worker"].replicas
    <3>1. d # "worker"
        BY <1>5, <2>5, <2>7
    <3>2. pods'["worker"] = pods["worker"]
        BY <1>5, <3>1 DEF Deployments
    <3>3. QED
        BY <2>1, <2>7, <3>2 DEF Killing
  <2>8. QED
      BY <1>1, <2>1, <2>6, <2>7 DEF Killing
<1>9. \A e \in Deployments : Undisturbed(slot, e)' => Undisturbed(slot, e)
    BY <1>1 DEF Undisturbed
<1>10. slot # NoRun => slot \in Runs
    BY DEF HInv, HType
<1>11. slot' = slot
    BY <1>1
<1>12. slot # NoRun => Killing(slot)'
  <2>1. ASSUME NEW r \in Runs, slot = r PROVE Killing(slot)'
      BY <1>8, <1>11, <2>1
  <2>2. QED
      BY <1>10, <2>1
<1>13. QED
    BY <1>1, <1>4, <1>7, <1>9, <1>12, PodsCInv

LEMMA PodReadyCInv ==
    ASSUME HInv, HInv', CInv, NEW d \in Deployments, PodReady(d)
    PROVE  CInv'
<1>1. /\ run' = run /\ fault' = fault
      /\ UNCHANGED <<slot, dep, clean, failures, stray>>
    BY DEF PodReady, history
<1>2. PICK p : p = pods'[d]
    OBVIOUS
<1>3. /\ PodsTo(d, p) /\ p.n = pods[d].n /\ p.cpu = pods[d].cpu
      /\ p.marked = pods[d].marked /\ pods[d].ready < pods[d].n
    BY <1>2, PodReadyFacts
<1>4. pods'[d] = p /\ \A e \in Deployments : e # d => pods'[e] = pods[e]
    BY <1>1, <1>3, PodsKept
<1>5. Honest(d)
    BY CInvParts DEF Sound
<1>6. ~(Claims(d) /\ d \notin stray)
  <2>1. pods[d].ready \in Nat /\ pods[d].n \in Nat
      BY DepFields
  <2>2. QED
      BY <1>3, <1>5, <2>1 DEF Honest
<1>7. \A e \in Deployments : pods'[e].n = pods[e].n /\ pods'[e].marked = pods[e].marked
    BY <1>3, <1>4
<1>8. ASSUME NEW r \in Runs, slot = r PROVE Killing(r)'
  <2>1. Killing(r) /\ "worker" \in Deployments
      BY HeldFacts DEF Deployments
  <2>2. QED
      BY <1>1, <1>7, <2>1 DEF Killing
<1>9. \A e \in Deployments : Undisturbed(slot, e)' => Undisturbed(slot, e)
    BY <1>1 DEF Undisturbed
<1>10. slot # NoRun => slot \in Runs
    BY DEF HInv, HType
<1>11. slot # NoRun => Killing(slot)'
  <2>1. ASSUME NEW r \in Runs, slot = r PROVE Killing(slot)'
      BY <1>1, <1>8, <2>1
  <2>2. QED
      BY <1>10, <2>1
<1>12. QED
    BY <1>1, <1>3, <1>6, <1>9, <1>11, PodsCInv

\* A new status: what it claims is so.
LEMMA ObserveCInv ==
    ASSUME HInv, HInv', CInv, NEW d \in Deployments, Observe(d)
    PROVE  CInv'
<1>1. UNCHANGED <<slot, fault, pods, failures, clean, stray>>
    BY DEF Observe, history
<1>2. /\ dep'[d].replicas = dep[d].replicas /\ dep'[d].cpu = dep[d].cpu
      /\ dep'[d].observed = TRUE
      /\ IF pods[d].cpu = dep[d].cpu /\ pods[d].ready = pods[d].n
         THEN dep'[d].status = pods[d].n ELSE dep'[d].status = Mixed
      /\ \A e \in Deployments : e # d => dep'[e] = dep[e]
  <2>1. Observed(d)
      BY ObserveFacts
  <2>2. QED
      BY <2>1 DEF Observed, HInv, HType
<1>3. \A q \in Runs : SameRun(q)
    BY OvertakenSame DEF Observe
<1>4. Mixed \notin Nat /\ dep[d].replicas \in Nat /\ pods[d].n \in Nat
    BY HarnessAssumption, DepFields
<1>5. Honest(d) /\ Restored(d)
    BY CInvParts DEF Sound
<1>6. dep'[d].status \in Nat =>
        pods[d].cpu = dep[d].cpu /\ pods[d].ready = pods[d].n /\ dep'[d].status = pods[d].n
    BY <1>2, <1>4
<1>7. ASSUME NEW e \in Deployments PROVE Honest(e)' /\ Restored(e)'
  <2>1. CASE e = d
    <3>1. Honest(d)'
        BY <1>1, <1>2, <1>4, <1>6 DEF Honest, Claims
    <3>2. Restored(d)'
        BY <1>1, <1>2, <1>5 DEF Restored, Base
    <3>3. QED
        BY <2>1, <3>1, <3>2
  <2>2. CASE e # d
    <3>1. dep'[e] = dep[e] /\ Honest(e) /\ Restored(e)
        BY <1>2, <2>2, CInvParts DEF Sound
    <3>2. QED
        BY <1>1, <3>1 DEF Honest, Claims, Restored, Base
  <2>3. QED
      BY <2>1, <2>2
<1>8. Sound'
    BY <1>7 DEF Sound
<1>9. \A e \in Deployments : dep'[e].replicas = dep[e].replicas /\ dep'[e].cpu = dep[e].cpu
    BY <1>2
<1>10. ASSUME NEW e \in Deployments, e \notin stray, Claims(e) PROVE Claims(e)'
  <2>1. CASE e = d
    <3>1. dep[d].observed = TRUE /\ dep[d].status \in Nat
        BY <1>4, <1>10, <2>1 DEF Claims
    <3>2. pods[d].cpu = dep[d].cpu /\ pods[d].n = dep[d].replicas /\ pods[d].ready = pods[d].n
        BY <1>5, <1>10, <2>1, <3>1 DEF Honest
    <3>3. QED
        BY <1>2, <2>1, <3>2 DEF Claims
  <2>2. CASE e # d
      BY <1>2, <1>10, <2>2 DEF Claims
  <2>3. QED
      BY <2>1, <2>2
<1>11. ASSUME NEW r \in Runs PROVE Holds(r)'
  <2>1. Killing(r)'
    <3>1. Killing(r) /\ "worker" \in Deployments /\ "coordinator" \in Deployments
        BY CInvParts DEF Holds, Deployments
    <3>2. run'[r].pc = run[r].pc
        BY <1>3 DEF SameRun
    <3>3. QED
        BY <1>1, <1>9, <3>1, <3>2 DEF Killing
  <2>2. ASSUME NEW e \in Deployments PROVE Asked(r, e)' /\ Running(r, e)' /\ Steady(r, e)'
    <3>1. Asked(r, e) /\ Running(r, e) /\ Steady(r, e)
        BY HeldFacts
    <3>2. SameRun(r) /\ Undisturbed(r, e)' = Undisturbed(r, e)
        BY <1>1, <1>3 DEF Undisturbed
    <3>3. Wanted(r, e)' = Wanted(r, e)
        BY <3>2 DEF SameRun, Wanted, Want, CPU
    <3>4. Asked(r, e)'
        BY <1>1, <1>9, <3>1, <3>2, <3>3 DEF SameRun, Asked, Written, Seen
    <3>5. Running(r, e)'
        BY <1>1, <1>9, <1>10, <3>1, <3>2 DEF SameRun, Running, Seen
    <3>6. Steady(r, e)'
        BY <1>1, <1>9, <3>1, <3>2 DEF SameRun, Steady, Owes, Kept, Base
    <3>7. QED
        BY <3>4, <3>5, <3>6
  <2>3. QED
      BY <2>1, <2>2 DEF Holds
<1>12. QED
    BY <1>8, <1>11, CInvKept

\* A late patch marks its deployment, unless the run with the slot has yet to
\* write it.
LEMMA LateScaleCInv ==
    ASSUME HInv, HInv', CInv, LateScale
    PROVE  CInv'
<1>1. PICK d : d = late.patch.d
    OBVIOUS
<1>2. PICK n : n = late.patch.n
    OBVIOUS
<1>3. /\ d \in Deployments /\ n \in Nat /\ dep' = Scaled(d, n)
      /\ run' = [q \in Runs |-> Overtaken(d, q)]
      /\ stray' = (IF Unwritten(d) THEN stray ELSE stray \cup {d})
      /\ UNCHANGED <<slot, fault, pods, failures, clean>>
    BY <1>1, <1>2, LateFacts
<1>4. PICK c \in Templates : c = dep[d].cpu
    BY <1>3, DepFields
<1>5. Writes(d, n, c)
    BY <1>3, <1>4, ScaledFacts
<1>6. /\ dep'[d].replicas = n /\ dep'[d].cpu = dep[d].cpu
      /\ \A e \in Deployments : e # d => dep'[e] = dep[e]
    BY <1>4, <1>5 DEF Writes, HInv, HType
<1>7. \A q \in Runs : SameRun(q)
    BY <1>3, OvertakenSame
<1>8. \A e \in Deployments : /\ e \in stray => e \in stray'
                             /\ e # d => (e \in stray' <=> e \in stray)
    BY <1>3
<1>9. slot = NoRun => d \in stray'
    BY <1>3 DEF Unwritten
<1>10. ASSUME NEW e \in Deployments PROVE Honest(e)' /\ Restored(e)'
  <2>1. Honest(e)'
      BY <1>3, <1>5, <1>8, <1>10, WrittenHonest
  <2>2. Restored(e)
      BY CInvParts DEF Sound
  <2>3. Restored(e)'
    <3>1. CASE e = d
        BY <1>3, <1>9, <3>1 DEF Restored
    <3>2. CASE e # d
      <4>1. dep'[e] = dep[e] /\ (e \in stray' <=> e \in stray)
          BY <1>6, <1>8, <3>2
      <4>2. QED
          BY <1>3, <2>2, <4>1 DEF Restored, Base
    <3>3. QED
        BY <3>1, <3>2
  <2>4. QED
      BY <2>1, <2>3
<1>11. Sound'
    BY <1>10 DEF Sound
<1>12. ASSUME NEW r \in Runs, slot' = r PROVE Holds(r)'
  <2>1. slot = r /\ SameRun(r)
      BY <1>3, <1>7, <1>12
  <2>2. run'[r].pc = run[r].pc
      BY <2>1 DEF SameRun
  <2>3. d \in stray' \/ run[r].pc \in {"config", "apply coordinator", Applying[d]}
      BY <1>3, <2>1 DEF Unwritten
  <2>4. d \in stray' \/ run[r].pc \notin Written(d) \cup Seen(d) \cup Kept(d) \cup {"measure"}
    <3>1. CASE d = "worker"
        BY <2>3, <3>1, ApplyingFacts DEF Written, Seen, Kept
    <3>2. CASE d = "coordinator"
        BY <2>3, <3>2, ApplyingFacts DEF Written, Seen, Kept
    <3>3. QED
        BY <1>3, <3>1, <3>2 DEF Deployments
  <2>5. Killing(r)'
    <3>1. Killing(r) /\ "worker" \in Deployments /\ "coordinator" \in Deployments
        BY CInvParts DEF Holds, Deployments
    <3>2. CASE run[r].pc # "measure"
        BY <2>2, <3>2 DEF Killing
    <3>3. CASE run[r].pc = "measure"
      <4>1. d \in stray'
          BY <2>4, <3>3
      <4>2. \A e \in Deployments \ stray' : e \notin stray /\ dep'[e] = dep[e]
          BY <1>6, <1>8, <4>1
      <4>3. QED
          BY <1>3, <2>2, <3>1, <3>3, <4>2 DEF Killing
    <3>4. QED
        BY <3>2, <3>3
  <2>6. ASSUME NEW e \in Deployments PROVE Asked(r, e)' /\ Running(r, e)' /\ Steady(r, e)'
    <3>1. Asked(r, e) /\ Running(r, e) /\ Steady(r, e)
        BY HeldFacts
    <3>2. Undisturbed(r, e)' = Undisturbed(r, e)
        BY <1>3 DEF Undisturbed
    <3>3. Wanted(r, e)' = Wanted(r, e)
        BY <2>1 DEF SameRun, Wanted, Want, CPU
    <3>4. dep'[e].cpu = dep[e].cpu
        BY <1>6
    <3>5. CASE e = d
      <4>1. CASE d \in stray'
        <5>1. Asked(r, d)'
            BY <2>2, <3>1, <3>3, <3>4, <3>5, <4>1 DEF Asked, Written, Seen
        <5>2. Running(r, d)'
            BY <1>3, <2>2, <3>1, <3>4, <3>5, <4>1 DEF Running, Seen
        <5>3. Steady(r, d)'
            BY <4>1 DEF Steady
        <5>4. QED
            BY <3>5, <5>1, <5>2, <5>3
      <4>2. CASE run[r].pc \notin Written(d) \cup Seen(d) \cup Kept(d) \cup {"measure"}
          BY <2>2, <3>5, <4>2 DEF Asked, Running, Steady, Written, Seen, Kept
      <4>3. QED
          BY <2>4, <4>1, <4>2
    <3>6. CASE e # d
      <4>1. dep'[e] = dep[e] /\ (e \in stray' <=> e \in stray)
          BY <1>6, <1>8, <3>6
      <4>2. Asked(r, e)'
          BY <2>2, <3>1, <3>2, <3>3, <4>1 DEF Asked, Written, Seen
      <4>3. Running(r, e)'
          BY <1>3, <2>2, <3>1, <3>2, <4>1 DEF Running, Claims, Seen
      <4>4. Steady(r, e)'
          BY <1>3, <2>1, <3>1, <4>1 DEF SameRun, Steady, Owes, Kept, Base
      <4>5. QED
          BY <4>2, <4>3, <4>4
    <3>7. QED
        BY <3>5, <3>6
  <2>7. QED
      BY <2>5, <2>6 DEF Holds
<1>13. QED
    BY <1>11, <1>12, CInvKept


LEMMA InitCInv ==
    ASSUME Init
    PROVE  CInv
<1>1. /\ run = [r \in Runs |-> NoLocals] /\ dep = [d \in Deployments |-> NewDep]
      /\ clean = FALSE
    BY DEF Init
<1>2. ASSUME NEW r \in Runs PROVE Holds(r)
  <2>1. run[r].pc \in Resting
      BY <1>1 DEF NoLocals, Resting
  <2>2. QED
      BY <2>1, RestingHolds
<1>3. ASSUME NEW d \in Deployments PROVE Honest(d) /\ Restored(d)
  <2>1. dep[d].observed = FALSE
      BY <1>1 DEF NewDep
  <2>2. QED
      BY <1>1, <2>1 DEF Honest, Claims, Restored
<1>4. QED
    BY <1>2, <1>3 DEF CInv, Holds

LEMMA NextCInv ==
    ASSUME HInv, HInv', CInv, [Next]_vars
    PROVE  CInv'
<1>1. ASSUME NEW r \in Runs, NEW sc \in Scenarios, Request(r, sc) PROVE CInv'
    BY <1>1, RequestCInv
<1>2. ASSUME NEW r \in Runs, RunStep(r) \/ FaultStep(r) \/ Disconnect(r) PROVE CInv'
    BY <1>2, RunStepCInv, FaultStepCInv, EndsCInv
<1>3. ASSUME NEW r \in Runs, NEW f \in Faults, StartFault(r, f) PROVE CInv'
    BY <1>3, StartFaultCInv
<1>4. ASSUME NEW d \in Deployments, Reconcile(d) \/ PodReady(d) \/ Observe(d) PROVE CInv'
    BY <1>4, ReconcileCInv, PodReadyCInv, ObserveCInv
<1>5. CASE LateScale
    BY <1>5, LateScaleCInv
<1>6. CASE UNCHANGED vars
  <2>1. UNCHANGED <<slot, run, fault, dep, pods, failures, late, clean, stray>>
      BY <1>6 DEF vars
  <2>2. \A q \in Runs : SameRun(q)
      BY <2>1 DEF SameRun
  <2>3. QED
      BY <2>1, <2>2, StillCInv
<1>7. QED
    BY <1>1, <1>2, <1>3, <1>4, <1>5, <1>6 DEF Next

-----------------------------------------------------------------------------
(* The cluster: theorems *)

\* The cluster is what the run with the slot may believe of it, through
\* every interleaving with the controllers, the goroutines of every earlier
\* run and the patches that arrive late.
THEOREM ClusterInductive == Spec => [](HInv /\ CInv)
<1>1. Init => HInv /\ CInv
    BY InitHInv, InitCInv
<1>2. HInv /\ CInv /\ [Next]_vars => (HInv /\ CInv)'
    BY NextHInv, NextCInv
<1>3. QED
    BY <1>1, <1>2, PTL DEF Spec

\* From the end of EnsureRateLimiter until the first fault, the coordinator
\* and exactly the wanted workers, of the wanted template, run and are ready:
\* a claim of the status is honest, and setup has seen one for what it wrote.
THEOREM WhatIsMeasuredWasAskedFor == Spec => []Settled
<1>1. ASSUME HInv, CInv PROVE Settled
  <2> SUFFICES ASSUME NEW r \in Runs, run[r].pc \in {"warmup", "stats", "measure"},
                      \A f \in Faults : fault[r][f].pc = "idle"
               PROVE  /\ "coordinator" \notin stray =>
                           pods["coordinator"].n = 1 /\ pods["coordinator"].ready = 1
                      /\ "worker" \notin stray =>
                           pods["worker"].n = Want(r) /\ pods["worker"].ready = Want(r)
                      /\ pods["worker"].cpu = CPU(r)
      BY DEF Settled
  <2>1. ASSUME NEW d \in Deployments
        PROVE  /\ pods[d].cpu = Wanted(r, d).cpu
               /\ d \notin stray =>
                    /\ pods[d].n = Wanted(r, d).replicas
                    /\ pods[d].ready = Wanted(r, d).replicas
    <3>1. run[r].pc \in Seen(d) /\ run[r].pc \in Written(d)
        BY DEF Seen, Written
    <3>2. Undisturbed(r, d)
        BY DEF Undisturbed, Faults
    <3>3. /\ Asked(r, d) /\ Running(r, d) /\ Honest(d)
        BY <1>1 DEF CInv
    <3>4. dep[d].cpu = Wanted(r, d).cpu /\ pods[d].cpu = dep[d].cpu
        BY <3>1, <3>3 DEF Asked, Running
    <3>5. ASSUME d \notin stray
          PROVE  pods[d].n = Wanted(r, d).replicas /\ pods[d].ready = Wanted(r, d).replicas
      <4>1. dep[d].replicas = Wanted(r, d).replicas
          BY <3>1, <3>2, <3>3, <3>5 DEF Asked
      <4>2. Claims(d)
          BY <3>1, <3>2, <3>3, <3>5 DEF Running
      <4>3. QED
          BY <3>3, <3>5, <4>1, <4>2 DEF Honest
    <3>6. QED
        BY <3>4, <3>5
  <2>2. /\ Wanted(r, "coordinator").replicas = 1
        /\ Wanted(r, "worker").replicas = Want(r) /\ Wanted(r, "worker").cpu = CPU(r)
      BY DEF Wanted
  <2>3. "coordinator" \in Deployments /\ "worker" \in Deployments
      BY DEF Deployments
  <2>4. QED
      BY <2>1, <2>2, <2>3
<1>2. QED
    BY <1>1, ClusterInductive, PTL

\* A run that ended its measurements leaves the default replicas, although
\* its client may have left at any moment, if no call failed.
THEOREM SteadyStateIsRestored == Spec => []SteadyRestored
<1>1. ASSUME HInv, CInv PROVE SteadyRestored
  <2> SUFFICES ASSUME slot = NoRun, clean, failures = 0
               PROVE  /\ "coordinator" \notin stray => dep["coordinator"].replicas = 1
                      /\ "worker" \notin stray => dep["worker"].replicas = Default
      BY DEF SteadyRestored
  <2>1. clean = TRUE
      BY <1>1 DEF HInv, HType
  <2>2. ASSUME NEW d \in Deployments, d \notin stray PROVE dep[d].replicas = Base(d)
      BY <1>1, <2>1, <2>2 DEF CInv, Restored
  <2>3. "coordinator" \in Deployments /\ "worker" \in Deployments
      BY DEF Deployments
  <2>4. Base("coordinator") = 1 /\ Base("worker") = Default
      BY DEF Base
  <2>5. QED
      BY <2>2, <2>3, <2>4
<1>2. QED
    BY <1>1, ClusterInductive, PTL


\* No step but one of the ReplicaSets adds a pod.
NoMorePods == \A e \in Deployments : pods'[e].n <= pods[e].n

LEMMA SamePods ==
    ASSUME HInv, pods' = pods
    PROVE  NoMorePods
<1> SUFFICES ASSUME NEW e \in Deployments PROVE pods'[e].n <= pods[e].n
    BY DEF NoMorePods
<1>1. pods[e].n \in Nat
    BY DepFields
<1>2. QED
    BY <1>1

LEMMA FewerPods ==
    ASSUME HInv, NEW d \in Deployments, NEW p, PodsTo(d, p), dep' = dep, p.n <= pods[d].n
    PROVE  NoMorePods
<1> SUFFICES ASSUME NEW e \in Deployments PROVE pods'[e].n <= pods[e].n
    BY DEF NoMorePods
<1>1. pods'[d] = p /\ (e # d => pods'[e] = pods[e])
    BY PodsKept
<1>2. pods[e].n \in Nat
    BY DepFields
<1>3. QED
    BY <1>1, <1>2

LEMMA FaultDeletePods ==
    ASSUME HInv, NEW r \in Runs, NEW d \in Deployments, NEW there, there => pods[d].n > 0,
           FaultDelete(r, d, there, "print")
    PROVE  NoMorePods
<1>1. CASE pods' = pods
    BY <1>1, SamePods
<1>2. CASE pods' = Deleted(d, there) /\ there
  <2>1. PICK p : p = pods'[d]
      OBVIOUS
  <2>2. PodsTo(d, p) /\ p.n = pods[d].n - 1
      BY <1>2, <2>1, DeletedFacts
  <2>3. pods[d].n \in Nat
      BY DepFields
  <2>4. p.n <= pods[d].n
      BY <2>2, <2>3
  <2>5. dep' = dep
      BY DEF FaultDelete, FaultFails, cluster
  <2>6. QED
      BY <2>2, <2>4, <2>5, FewerPods
<1>3. QED
    BY <1>1, <1>2 DEF FaultDelete, FaultFails, cluster, Deleted

LEMMA FaultStepPods ==
    ASSUME HInv, NEW r \in Runs, FaultStep(r)
    PROVE  NoMorePods
<1>1. "worker" \in Deployments /\ "coordinator" \in Deployments
    BY DEF Deployments
<1>2. CASE FaultMark(r)
  <2>1. CASE pods' = pods
      BY <2>1, SamePods
  <2>2. CASE pods' = [pods EXCEPT !["worker"].marked = pods["worker"].n > 0]
    <3>1. PICK p : p = pods'["worker"]
        OBVIOUS
    <3>2. PodsTo("worker", p) /\ p.n = pods["worker"].n
        BY <2>2, <3>1, FaultMarkFacts
    <3>3. dep' = dep
        BY <1>2 DEF FaultMark, FaultFails, cluster
    <3>4. p.n <= pods["worker"].n
        BY <1>1, <3>2, DepFields
    <3>5. QED
        BY <1>1, <3>2, <3>3, <3>4, FewerPods
  <2>3. QED
      BY <1>2, <2>1, <2>2 DEF FaultMark, FaultFails, cluster
<1>3. CASE FaultDelete(r, "worker", pods["worker"].marked, "print")
  <2>1. PICK there : there = pods["worker"].marked
      OBVIOUS
  <2>2. there => pods["worker"].n > 0
      BY <2>1, KillFacts
  <2>3. FaultDelete(r, "worker", there, "print")
      BY <1>3, <2>1
  <2>4. QED
      BY <1>1, <2>2, <2>3, FaultDeletePods
<1>4. CASE FaultDelete(r, "coordinator", pods["coordinator"].n > 0, "print")
  <2>1. PICK there : there = (pods["coordinator"].n > 0)
      OBVIOUS
  <2>2. there => pods["coordinator"].n > 0
      BY <2>1
  <2>3. FaultDelete(r, "coordinator", there, "print")
      BY <1>4, <2>1
  <2>4. QED
      BY <1>1, <2>2, <2>3, FaultDeletePods
<1>5. CASE pods' = pods
    BY <1>5, SamePods
<1>6. CASE KillOneWorkerNoReplacement(r)
    BY <1>2, <1>3, <1>5, <1>6
       DEF KillOneWorkerNoReplacement, FaultList, FaultScale, FaultFails, cluster
<1>7. CASE KillCoordinator(r)
    BY <1>4, <1>5, <1>7 DEF KillCoordinator, FaultList, FaultScale, FaultFails, cluster
<1>8. CASE RestoreCoordinator(r)
    BY <1>5, <1>8 DEF RestoreCoordinator, FaultScale, FaultFails, cluster
<1>9. ASSUME NEW f \in Faults, FaultPrint(r, f) PROVE NoMorePods
    BY <1>5, <1>9 DEF FaultPrint, cluster
<1>10. QED
    BY <1>6, <1>7, <1>8, <1>9 DEF FaultStep

LEMMA RunStepPods ==
    ASSUME NEW r \in Runs, RunStep(r)
    PROVE  pods' = pods
<1>1. CASE Ensure(r)
    BY <1>1 DEF Ensure, ApplyGet, ApplyPut, Settles, cluster
<1>2. CASE LoadConfig(r) \/ Warmup(r) \/ CoordStats(r) \/ Measured(r) \/ Rescale(r)
    BY <1>2 DEF LoadConfig, Warmup, CoordStats, Measured, Rescale, cluster
<1>3. CASE DeferredRestore(r)
    BY <1>3 DEF DeferredRestore, DeferredScale, cluster
<1>4. CASE Verdict(r) \/ DeferredCancel(r) \/ DeferredUnlock(r)
    BY <1>4 DEF Verdict, DeferredCancel, DeferredUnlock, cluster
<1>5. QED
    BY <1>1, <1>2, <1>3, <1>4 DEF RunStep

LEMMA OnlyReconcileAddsPods ==
    ASSUME HInv, [Next]_vars
    PROVE  NoMorePods \/ \E d \in Deployments : Reconcile(d)
<1>1. ASSUME NEW r \in Runs, NEW sc \in Scenarios, Request(r, sc) PROVE NoMorePods
    BY <1>1, SamePods DEF Request, cluster
<1>2. ASSUME NEW r \in Runs, RunStep(r) \/ FaultStep(r) \/ Disconnect(r) PROVE NoMorePods
    BY <1>2, SamePods, RunStepPods, FaultStepPods DEF Disconnect, cluster
<1>3. ASSUME NEW r \in Runs, NEW f \in Faults, StartFault(r, f) PROVE NoMorePods
    BY <1>3, SamePods DEF StartFault, cluster
<1>4. ASSUME NEW d \in Deployments, PodReady(d) \/ Observe(d) PROVE NoMorePods
  <2>1. CASE Observe(d)
      BY <2>1, SamePods DEF Observe
  <2>2. CASE PodReady(d)
    <3>1. PICK p : p = pods'[d]
        OBVIOUS
    <3>2. PodsTo(d, p) /\ p.n = pods[d].n
        BY <2>2, <3>1, PodReadyFacts
    <3>3. dep' = dep
        BY <2>2 DEF PodReady
    <3>4. p.n <= pods[d].n
        BY <3>2, DepFields
    <3>5. QED
        BY <3>2, <3>3, <3>4, FewerPods
  <2>3. QED
      BY <1>4, <2>1, <2>2
<1>5. CASE LateScale
    BY <1>5, SamePods DEF LateScale
<1>6. CASE UNCHANGED vars
    BY <1>6, SamePods DEF vars
<1>7. QED
    BY <1>1, <1>2, <1>3, <1>4, <1>5, <1>6 DEF Next

\* A killed pod is not replaced: while a run measures there are never fewer
\* pods than its deployment asks for, because the kills scale down before
\* they delete, so the ReplicaSets have none to add.
THEOREM NoPodIsReplaced == Spec => NoReplacement
<1>1. ASSUME HInv, CInv, [Next]_vars
      PROVE  [\A r \in Runs : run[r].pc = "measure" /\ fault[r].restore.pc = "idle" =>
                \A d \in Deployments \ stray : pods'[d].n <= pods[d].n]_vars
  <2> SUFFICES ASSUME NEW r \in Runs, run[r].pc = "measure", fault[r]["restore"].pc = "idle",
                      NEW d \in Deployments, d \notin stray
               PROVE  pods'[d].n <= pods[d].n
      OBVIOUS
  <2>1. CASE NoMorePods
      BY <2>1 DEF NoMorePods
  <2>2. ASSUME NEW e \in Deployments, Reconcile(e) PROVE pods'[d].n <= pods[d].n
    <3>1. PICK p : p = pods'[e]
        OBVIOUS
    <3>2. Reconciled(e, p)
        BY <1>1, <2>2, <3>1, ReconcileFacts
    <3>3. dep' = dep /\ PodsTo(e, p)
        BY <2>2, <3>2 DEF Reconcile, Reconciled
    <3>4. pods[d].n \in Nat
        BY <1>1, DepFields
    <3>5. CASE e # d
      <4>1. pods'[d] = pods[d]
          BY <1>1, <3>3, <3>5, PodsKept
      <4>2. QED
          BY <3>4, <4>1
    <3>6. CASE e = d
      <4>1. Killing(r) /\ Running(r, d) /\ run[r].pc \in Seen(d)
          BY <1>1, HeldFacts DEF Seen
      <4>2. pods[d].cpu = dep[d].cpu
          BY <4>1 DEF Running
      <4>3. p.n = dep[d].replicas
          BY <3>2, <3>6, <4>2 DEF Reconciled
      <4>4. pods[d].n >= dep[d].replicas
          BY <4>1 DEF Killing
      <4>5. dep[d].replicas \in Nat
          BY <1>1, DepFields
      <4>6. QED
          BY <3>1, <3>4, <3>6, <4>3, <4>4, <4>5
    <3>7. QED
        BY <3>5, <3>6
  <2>3. QED
      BY <1>1, <2>1, <2>2, OnlyReconcileAddsPods
<1>2. QED
    BY <1>1, ClusterInductive, PTL DEF Spec, NoReplacement
=============================================================================
