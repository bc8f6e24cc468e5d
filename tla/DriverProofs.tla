---------------------------- MODULE DriverProofs -----------------------------
(***************************************************************************)
(* Safety of the load driver, for every number of loads, tenants, slots    *)
(* and seconds: the pacing is exact, the results add up, the snapshot of   *)
(* live results is sound, and nothing is recorded after Run returned.      *)
(*                                                                         *)
(* Each theorem has an inductive invariant of its own on top of DInv, the  *)
(* types and the state of the pacing loops.                                *)
(***************************************************************************)
EXTENDS Driver, SumProofs

LoadType == [pc : {"new", "loop", "fire", "drain", "done"}, quota : 0..(Unit - 1),
             last : Nat, begun : Nat, n : Nat]
SenderType == [pc : {"idle", "new", "flight", "return"}, t0 : Nat]
BucketType == [admitted : Nat, rejected : Nat, errors : Nat]
ResultType == [sent : Nat, admitted : Nat, admittedTokens : Nat, rejected : Nat,
               drops : Nat, errors : Nat, buckets : Seq(BucketType)]
ProgressType == [pc : {"wait", "measure", "sum", "done"}, tick : BOOLEAN, sec : Nat,
                 metric : 1..3, todo : SUBSET Tenants, out : Seq(Nat), maxLen : Nat]

\* The requests that a pass through the loop released are its quota, whole
\* requests only, and a tick is never older than the one before it.
Paced(l) ==
    /\ load[l].last <= clock
    /\ ticker[l] # NoTick => ticker[l] >= load[l].last /\ ticker[l] <= clock
    /\ load[l].pc = "new" => ticker[l] = NoTick /\ fired[l] = 0 /\ load[l].quota = 0
    /\ load[l].pc = "fire" <=> load[l].n > 0
    /\ load[l].pc # "new" =>
         Unit * (fired[l] + load[l].n) + load[l].quota = RPS[l] * (load[l].last - load[l].begun)

DType ==
    /\ clock \in Nat /\ clock <= MaxClock /\ cancelled \in BOOLEAN
    /\ load \in [Loads -> LoadType] /\ ticker \in [Loads -> Nat \cup {NoTick}]
    /\ sender \in [Senders -> SenderType] /\ result \in [Tenants -> ResultType]
    /\ progress \in ProgressType /\ fired \in [Loads -> Nat]

DInv == DType /\ \A l \in Loads : Paced(l)

-----------------------------------------------------------------------------
(* The operators *)

\* A sender belongs to a load, and a load to a tenant.
LEMMA SenderLoad ==
    ASSUME NEW s \in Senders
    PROVE  s[1] \in Loads /\ Tenant[s[1]] \in Tenants
<1>1. s[1] \in Loads
    BY DEF Senders
<1>2. QED
    BY <1>1, DriverAssumption

\* What a bucket of a series counts, which may be shorter than i.
Recorded(buckets, i, o) == IF i <= Len(buckets) THEN buckets[i][o] ELSE 0

\* Growing a series adds empty buckets up to the second asked for.
LEMMA GrownFacts ==
    ASSUME NEW b \in Seq(BucketType), NEW sec \in Nat
    PROVE  /\ Grown(b, sec) \in Seq(BucketType)
           /\ Len(Grown(b, sec)) >= Len(b) /\ Len(Grown(b, sec)) >= sec + 1
           /\ \A i \in 1..Len(Grown(b, sec)) :
                Grown(b, sec)[i] = IF i <= Len(b) THEN b[i] ELSE SecBucket
<1> DEFINE n == IF sec + 1 > Len(b) THEN sec + 1 ELSE Len(b)
           g == [i \in 1..n |-> IF i <= Len(b) THEN b[i] ELSE SecBucket]
<1>1. n \in Nat /\ n >= Len(b) /\ n >= sec + 1 /\ Len(b) \in Nat
    OBVIOUS
<1>2. SecBucket \in BucketType
    BY DEF SecBucket, BucketType
<1>3. Grown(b, sec) = g
    BY DEF Grown
<1> HIDE DEF n
<1>4. \A i \in 1..n : (IF i <= Len(b) THEN b[i] ELSE SecBucket) \in BucketType
    BY <1>1, <1>2
<1>5. g \in [1..n -> BucketType]
    BY <1>4
<1>6. g \in Seq(BucketType) /\ Len(g) = n
    BY <1>1, <1>5
<1>7. QED
    BY <1>1, <1>3, <1>6

\* A record counts one outcome, once in the totals and once in its second.
LEMMA RecordFacts ==
    ASSUME NEW r \in ResultType, NEW sec \in Nat, NEW o \in Outcomes, NEW cost \in Nat
    PROVE  LET q == Record(r, sec, o, cost)
           IN  /\ q \in ResultType
               /\ q.sent = r.sent /\ q.drops = r.drops
               /\ \A x \in Outcomes : q[x] = r[x] + (IF x = o THEN 1 ELSE 0)
               /\ Len(q.buckets) >= Len(r.buckets) /\ Len(q.buckets) >= sec + 1
               /\ \A i \in 1..Len(q.buckets), x \in Outcomes :
                    q.buckets[i][x] = Recorded(r.buckets, i, x)
                                        + (IF i = sec + 1 /\ x = o THEN 1 ELSE 0)
<1> DEFINE q == Record(r, sec, o, cost)
           b == [Grown(r.buckets, sec) EXCEPT ![sec + 1][o] = @ + 1]
<1>1. PICK g \in Seq(BucketType) :
        /\ g = Grown(r.buckets, sec)
        /\ Len(g) >= Len(r.buckets) /\ Len(g) >= sec + 1
        /\ \A i \in 1..Len(g) : g[i] = IF i <= Len(r.buckets) THEN r.buckets[i] ELSE SecBucket
    BY GrownFacts DEF ResultType
<1>2. PICK e \in BucketType : e = g[sec + 1]
    BY <1>1
<1>3. /\ [e EXCEPT ![o] = @ + 1] \in BucketType
      /\ \A x \in Outcomes : [e EXCEPT ![o] = @ + 1][x] = e[x] + (IF x = o THEN 1 ELSE 0)
  <2>1. CASE o = "admitted"
      BY <2>1 DEF BucketType, Outcomes
  <2>2. CASE o = "rejected"
      BY <2>2 DEF BucketType, Outcomes
  <2>3. CASE o = "errors"
      BY <2>3 DEF BucketType, Outcomes
  <2>4. QED
      BY <2>1, <2>2, <2>3 DEF Outcomes
<1>4. PICK f \in BucketType : /\ f = [e EXCEPT ![o] = @ + 1]
                              /\ \A x \in Outcomes : f[x] = e[x] + (IF x = o THEN 1 ELSE 0)
    BY <1>3
<1>5. b = [g EXCEPT ![sec + 1] = f]
    BY <1>1, <1>2, <1>4
<1>6. /\ b \in Seq(BucketType) /\ Len(b) = Len(g)
      /\ \A i \in 1..Len(g) : b[i] = IF i = sec + 1 THEN f ELSE g[i]
    BY <1>1, <1>5
<1>7. \A i \in 1..Len(b), x \in Outcomes :
        b[i][x] = Recorded(r.buckets, i, x) + (IF i = sec + 1 /\ x = o THEN 1 ELSE 0)
  <2> SUFFICES ASSUME NEW i \in 1..Len(b), NEW x \in Outcomes
               PROVE  b[i][x] = Recorded(r.buckets, i, x)
                                  + (IF i = sec + 1 /\ x = o THEN 1 ELSE 0)
      OBVIOUS
  <2>1. SecBucket[x] = 0
      BY DEF SecBucket, Outcomes
  <2>2. i \in 1..Len(g) /\ g[i][x] \in Nat
    <3>1. PICK a \in BucketType : a = g[i]
        BY <1>6
    <3>2. a[x] \in Nat
        BY DEF BucketType, Outcomes
    <3>3. QED
        BY <1>6, <3>1, <3>2
  <2>3. g[i][x] = Recorded(r.buckets, i, x)
      BY <1>1, <2>1, <2>2 DEF Recorded
  <2>4. CASE i = sec + 1
      BY <1>2, <1>4, <1>6, <2>2, <2>3, <2>4
  <2>5. CASE i # sec + 1
      BY <1>6, <2>2, <2>3, <2>5
  <2>6. QED
      BY <2>4, <2>5
<1>8. PICK c \in Seq(BucketType) : c = b
    BY <1>6
<1> HIDE DEF b
<1>9. PICK k \in Nat : q = [r EXCEPT !.buckets = c, ![o] = @ + 1, !.admittedTokens = k]
  <2> DEFINE k == IF o = "admitted" THEN r.admittedTokens + cost ELSE r.admittedTokens
  <2>1. k \in Nat
      BY DEF ResultType
  <2>2. q = [r EXCEPT !.buckets = c, ![o] = @ + 1, !.admittedTokens = k]
    <3>1. CASE o = "admitted"
        BY <1>8, <3>1 DEF Record, b
    <3>2. CASE o # "admitted"
        BY <1>8, <3>2 DEF Record, b
    <3>3. QED
        BY <3>1, <3>2
  <2>3. QED
      BY <2>1, <2>2
<1> HIDE DEF q
<1>10. q \in ResultType /\ q.sent = r.sent /\ q.drops = r.drops /\ q.buckets = c
       /\ \A x \in Outcomes : q[x] = r[x] + (IF x = o THEN 1 ELSE 0)
  <2>1. CASE o = "admitted"
    <3>1. q = [r EXCEPT !.buckets = c, !.admitted = r.admitted + 1, !.admittedTokens = k]
        BY <1>9, <2>1
    <3>2. q \in ResultType
      <4>1. q = [sent |-> r.sent, admitted |-> r.admitted + 1, admittedTokens |-> k,
                 rejected |-> r.rejected, drops |-> r.drops, errors |-> r.errors, buckets |-> c]
          BY <3>1 DEF ResultType
      <4>2. /\ r.sent \in Nat /\ r.admitted \in Nat /\ r.rejected \in Nat
            /\ r.drops \in Nat /\ r.errors \in Nat
          BY DEF ResultType
      <4>3. QED
          BY <4>1, <4>2 DEF ResultType
    <3>3. /\ q.sent = r.sent /\ q.drops = r.drops /\ q.buckets = c
          /\ \A x \in Outcomes : q[x] = IF x = o THEN r[x] + 1 ELSE r[x]
        BY <3>1, <2>1 DEF ResultType, Outcomes
    <3>4. \A x \in Outcomes : r[x] \in Nat
        BY DEF ResultType, Outcomes
    <3>5. QED
        BY <3>2, <3>3, <3>4
  <2>2. CASE o = "rejected"
    <3>1. q = [r EXCEPT !.buckets = c, !.rejected = r.rejected + 1, !.admittedTokens = k]
        BY <1>9, <2>2
    <3>2. q \in ResultType
      <4>1. q = [sent |-> r.sent, admitted |-> r.admitted, admittedTokens |-> k,
                 rejected |-> r.rejected + 1, drops |-> r.drops, errors |-> r.errors, buckets |-> c]
          BY <3>1 DEF ResultType
      <4>2. /\ r.sent \in Nat /\ r.admitted \in Nat /\ r.rejected \in Nat
            /\ r.drops \in Nat /\ r.errors \in Nat
          BY DEF ResultType
      <4>3. QED
          BY <4>1, <4>2 DEF ResultType
    <3>3. /\ q.sent = r.sent /\ q.drops = r.drops /\ q.buckets = c
          /\ \A x \in Outcomes : q[x] = IF x = o THEN r[x] + 1 ELSE r[x]
        BY <3>1, <2>2 DEF ResultType, Outcomes
    <3>4. \A x \in Outcomes : r[x] \in Nat
        BY DEF ResultType, Outcomes
    <3>5. QED
        BY <3>2, <3>3, <3>4
  <2>3. CASE o = "errors"
    <3>1. q = [r EXCEPT !.buckets = c, !.errors = r.errors + 1, !.admittedTokens = k]
        BY <1>9, <2>3
    <3>2. q \in ResultType
      <4>1. q = [sent |-> r.sent, admitted |-> r.admitted, admittedTokens |-> k,
                 rejected |-> r.rejected, drops |-> r.drops, errors |-> r.errors + 1, buckets |-> c]
          BY <3>1 DEF ResultType
      <4>2. /\ r.sent \in Nat /\ r.admitted \in Nat /\ r.rejected \in Nat
            /\ r.drops \in Nat /\ r.errors \in Nat
          BY DEF ResultType
      <4>3. QED
          BY <4>1, <4>2 DEF ResultType
    <3>3. /\ q.sent = r.sent /\ q.drops = r.drops /\ q.buckets = c
          /\ \A x \in Outcomes : q[x] = IF x = o THEN r[x] + 1 ELSE r[x]
        BY <3>1, <2>3 DEF ResultType, Outcomes
    <3>4. \A x \in Outcomes : r[x] \in Nat
        BY DEF ResultType, Outcomes
    <3>5. QED
        BY <3>2, <3>3, <3>4
  <2>4. QED
      BY <2>1, <2>2, <2>3 DEF Outcomes
<1>11. QED
    BY <1>1, <1>6, <1>7, <1>8, <1>10 DEF q

\* Adding a series leaves the length of the snapshot alone.
LEMMA AddSeriesFacts ==
    ASSUME NEW out \in Seq(Nat), NEW b \in Seq(BucketType), NEW o \in Outcomes
    PROVE  /\ AddSeries(out, b, o) \in Seq(Nat) /\ Len(AddSeries(out, b, o)) = Len(out)
           /\ \A i \in 1..Len(out) : AddSeries(out, b, o)[i] = out[i] + Recorded(b, i, o)
<1>1. ASSUME NEW i \in 1..Len(out) PROVE Recorded(b, i, o) \in Nat /\ out[i] \in Nat
  <2>1. CASE i <= Len(b)
    <3>1. PICK e \in BucketType : e = b[i]
        BY <2>1
    <3>2. e[o] \in Nat
        BY DEF BucketType, Outcomes
    <3>3. QED
        BY <2>1, <3>1, <3>2 DEF Recorded
  <2>2. CASE ~(i <= Len(b))
      BY <2>2 DEF Recorded
  <2>3. QED
      BY <2>1, <2>2
<1>2. AddSeries(out, b, o) = [i \in 1..Len(out) |-> out[i] + Recorded(b, i, o)]
    BY DEF AddSeries, Recorded
<1>3. AddSeries(out, b, o) \in [1..Len(out) -> Nat]
    BY <1>1, <1>2
<1>4. AddSeries(out, b, o) \in Seq(Nat) /\ Len(AddSeries(out, b, o)) = Len(out)
    BY <1>3
<1>5. QED
    BY <1>2, <1>4

\* The metric of a sum is one of the outcomes.
LEMMA MetricIsOutcome ==
    ASSUME NEW m \in 1..3
    PROVE  Metrics[m] \in Outcomes
    BY DEF Metrics, Outcomes

-----------------------------------------------------------------------------
(* Types and pacing *)

LEMMA InitDInv ==
    ASSUME Init PROVE DInv
<1>1. load \in [Loads -> LoadType] /\ fired \in [Loads -> Nat]
    BY DriverAssumption DEF Init, LoadType
<1>2. ticker \in [Loads -> Nat \cup {NoTick}] /\ sender \in [Senders -> SenderType]
    BY DEF Init, SenderType, IdleSender
<1>3. result \in [Tenants -> ResultType]
    BY DEF Init, NewResult, ResultType
<1>4. progress \in ProgressType
    BY DEF Init, ProgressType
<1>5. clock \in Nat /\ clock <= MaxClock /\ cancelled \in BOOLEAN
  <2>1. cancelled \in BOOLEAN
      BY Zenon DEF Init
  <2>2. QED
      BY <2>1, DriverAssumption DEF Init
<1>6. \A l \in Loads : Paced(l)
    BY DriverAssumption DEF Init, Paced
<1>7. QED
    BY <1>1, <1>2, <1>3, <1>4, <1>5, <1>6 DEF DInv, DType

\* The pacing of a load that a step leaves alone.
LEMMA PacedAlone ==
    ASSUME NEW m \in Loads, Paced(m), load'[m] = load[m], ticker'[m] = ticker[m],
           fired'[m] = fired[m], clock' = clock
    PROVE  Paced(m)'
    BY DEF Paced

\* A step of a load whose ticker and releases stay the same.
LEMMA LoadMoves ==
    ASSUME DInv, NEW l \in Loads, NEW v \in LoadType,
           load' = [load EXCEPT ![l] = v],
           UNCHANGED <<clock, cancelled, ticker, sender, result, progress, fired>>,
           Paced(l)'
    PROVE  DInv'
<1>1. load' \in [Loads -> LoadType]
    BY DEF DInv, DType
<1>2. ASSUME NEW m \in Loads, m # l PROVE Paced(m)'
    BY <1>2, PacedAlone DEF DInv, DType
<1>3. QED
    BY <1>1, <1>2 DEF DInv, DType

LEMMA BeginPaced ==
    ASSUME DInv, NEW l \in Loads, Begin(l) PROVE DInv'
<1>1. PICK x \in LoadType : x = load[l] /\ x.pc = "new"
    BY DEF DInv, DType, Begin
<1> DEFINE v == [x EXCEPT !.pc = "loop", !.last = clock, !.begun = clock]
<1>2. load' = [load EXCEPT ![l] = v]
    BY <1>1 DEF Begin
<1>3. v \in LoadType
    BY DEF DInv, DType, LoadType
<1>4. /\ v.pc = "loop" /\ v.last = clock /\ v.begun = clock
      /\ v.n = x.n /\ v.quota = x.quota /\ x.n \in Nat /\ x.quota \in Int
    BY DEF LoadType
<1> HIDE DEF v
<1>5. load'[l] = v /\ ticker'[l] = ticker[l] /\ fired'[l] = fired[l] /\ clock' = clock
    BY <1>2 DEF DInv, DType, Begin
<1>6. clock \in Nat /\ RPS[l] \in Nat /\ Unit \in Nat /\ RPS[l] * (clock - clock) = 0
    BY DriverAssumption DEF DInv, DType
<1>7. ticker[l] = NoTick /\ fired[l] = 0 /\ x.quota = 0 /\ x.n = 0
    BY <1>1, <1>4 DEF DInv, Paced
<1>8. Paced(l)'
    BY <1>4, <1>5, <1>6, <1>7 DEF Paced
<1>9. QED
    BY <1>2, <1>3, <1>8, LoadMoves DEF Begin

\* The loop stops, or has stopped.
LEMMA LeavesLoop ==
    ASSUME DInv, NEW l \in Loads, NEW from \in {"loop", "drain"}, NEW to \in {"drain", "done"},
           load[l].pc = from, load' = [load EXCEPT ![l].pc = to],
           UNCHANGED <<clock, cancelled, ticker, sender, result, progress, fired>>
    PROVE  DInv'
<1>1. PICK x \in LoadType : x = load[l] /\ x.pc \in {"loop", "drain"}
    BY DEF DInv, DType
<1> DEFINE v == [x EXCEPT !.pc = to]
<1>2. load' = [load EXCEPT ![l] = v]
    BY <1>1
<1>3. v \in LoadType
    BY DEF LoadType
<1>4. /\ v.pc \in {"drain", "done"} /\ v.last = x.last /\ v.begun = x.begun
      /\ v.n = x.n /\ v.quota = x.quota
    BY DEF LoadType
<1> HIDE DEF v
<1>5. load'[l] = v
    BY <1>2 DEF DInv, DType
<1>6. Paced(l)
    BY DEF DInv
<1>7. Paced(l)'
    BY <1>1, <1>4, <1>5, <1>6 DEF Paced
<1>8. QED
    BY <1>2, <1>3, <1>7, LoadMoves

\* Whole requests and what is left over.
LEMMA Divided ==
    ASSUME NEW q \in Nat
    PROVE  /\ q \div Unit \in Nat /\ q % Unit \in 0..(Unit - 1)
           /\ q = Unit * (q \div Unit) + (q % Unit)
           /\ q < Unit <=> q \div Unit = 0
    BY DriverAssumption, Z3

LEMMA PacePaced ==
    ASSUME DInv, NEW l \in Loads, Pace(l) PROVE DInv'
<1>1. PICK x \in LoadType : x = load[l] /\ x.pc = "loop"
    BY DEF DInv, DType, Pace
<1>2. PICK now \in Nat : now = ticker[l]
    BY DEF DInv, DType, Pace
<1>3. now >= x.last /\ now <= clock /\ clock \in Nat /\ now # NoTick
    BY <1>1, <1>2, DriverAssumption DEF DInv, DType, Paced, Pace
<1> DEFINE q == x.quota + (now - x.last) * RPS[l]
<1>4. q \in Nat /\ x.quota \in Nat /\ x.last \in Nat /\ x.begun \in Nat /\ RPS[l] \in Nat
  <2>1. x.quota \in Nat /\ x.last \in Nat /\ x.begun \in Nat
      BY DriverAssumption DEF LoadType
  <2>2. now - x.last \in Nat /\ RPS[l] \in Nat
      BY <1>3, <2>1, DriverAssumption
  <2>3. (now - x.last) * RPS[l] \in Nat
      BY <2>2, Z3
  <2>4. QED
      BY <2>1, <2>2, <2>3
<1>5. /\ q \div Unit \in Nat /\ q % Unit \in 0..(Unit - 1)
      /\ q = Unit * (q \div Unit) + (q % Unit)
      /\ q < Unit <=> q \div Unit = 0
    BY <1>4, Divided
<1>6. PICK n \in Nat, rest \in 0..(Unit - 1) :
        /\ n = q \div Unit /\ rest = q % Unit
        /\ q = Unit * n + rest /\ (q < Unit <=> n = 0)
    BY <1>5
<1> DEFINE pc == IF q < Unit THEN "loop" ELSE "fire"
<1>7. PICK v \in LoadType :
        /\ load' = [load EXCEPT ![l] = v]
        /\ v.begun = x.begun
        /\ \/ v.pc = "drain" /\ v.quota = x.quota /\ v.last = x.last /\ v.n = x.n
           \/ v.pc = pc /\ v.quota = rest /\ v.last = now /\ v.n = n
  <2>1. CASE now >= Duration
    <3> DEFINE v == [x EXCEPT !.pc = "drain"]
    <3>1. load' = [load EXCEPT ![l] = v]
        BY <1>1, <1>2, <2>1 DEF Pace
    <3>2. v \in LoadType
        BY DEF LoadType
    <3>3. v.pc = "drain" /\ v.quota = x.quota /\ v.last = x.last /\ v.n = x.n
          /\ v.begun = x.begun
        BY DEF LoadType
    <3>4. QED
        BY <3>1, <3>2, <3>3
  <2>2. CASE ~(now >= Duration)
    <3> DEFINE v == [x EXCEPT !.quota = rest, !.last = now, !.n = n, !.pc = pc]
    <3>1. load' = [load EXCEPT ![l] = v]
        BY <1>1, <1>2, <1>6, <2>2 DEF Pace
    <3>2. v \in LoadType
      <4>1. pc \in {"loop", "fire"}
          OBVIOUS
      <4> HIDE DEF pc
      <4>2. QED
          BY <4>1 DEF LoadType
    <3>3. v.pc = pc /\ v.quota = rest /\ v.last = now /\ v.n = n /\ v.begun = x.begun
        BY DEF LoadType
    <3>4. QED
        BY <3>1, <3>2, <3>3
  <2>3. QED
      BY <2>1, <2>2
<1>8. load'[l] = v /\ ticker'[l] = NoTick /\ fired'[l] = fired[l] /\ clock' = clock
    BY <1>7 DEF DInv, DType, Pace
<1>9. x.n = 0 /\ Unit * fired[l] + x.quota = RPS[l] * (x.last - x.begun)
  <2>1. x.n \in Nat
      BY DEF LoadType
  <2>2. x.n = 0 /\ Unit * (fired[l] + x.n) + x.quota = RPS[l] * (x.last - x.begun)
      BY <1>1, <2>1 DEF DInv, Paced
  <2>3. fired[l] \in Nat
      BY DEF DInv, DType
  <2>4. QED
      BY <2>2, <2>3
<1>10. Paced(l)'
  <2>1. CASE v.pc = "drain" /\ v.quota = x.quota /\ v.last = x.last /\ v.n = x.n
    <3>1. Unit * (fired[l] + v.n) + v.quota = RPS[l] * (v.last - v.begun)
        BY <1>7, <1>9, <2>1 DEF DInv, DType
    <3>2. v.n = 0 /\ v.last <= clock
        BY <1>1, <1>9, <2>1 DEF DInv, Paced
    <3>3. QED
        BY <1>8, <2>1, <3>1, <3>2 DEF Paced
  <2>2. CASE v.pc = pc /\ v.quota = rest /\ v.last = now /\ v.n = n
    <3>1. PICK f \in Nat : f = fired[l]
        BY DEF DInv, DType
    <3>2. Unit * (f + n) = Unit * f + Unit * n
        BY DriverAssumption, Z3
    <3>3. RPS[l] * (now - x.begun) = RPS[l] * (x.last - x.begun) + (now - x.last) * RPS[l]
        BY <1>4, Z3
    <3>4. Unit * f \in Nat /\ Unit * n \in Nat /\ (now - x.last) * RPS[l] \in Int
          /\ RPS[l] * (x.last - x.begun) \in Int
        BY <1>4, DriverAssumption, Z3
    <3>5. Unit * (f + n) + rest = RPS[l] * (now - x.begun)
        BY <1>4, <1>6, <1>9, <3>1, <3>2, <3>3, <3>4
    <3>6. v.pc = "fire" <=> v.n > 0
        BY <1>6, <2>2
    <3>7. v.pc # "new"
        BY <2>2
    <3>8. Unit * (fired[l] + v.n) + v.quota = RPS[l] * (v.last - v.begun)
        BY <1>7, <2>2, <3>1, <3>5
    <3>9. QED
        BY <1>3, <1>8, <2>2, <3>6, <3>7, <3>8 DEF Paced
  <2>3. QED
      BY <1>7, <2>1, <2>2
<1>11. ASSUME NEW m \in Loads, m # l PROVE Paced(m)'
  <2>1. load'[m] = load[m] /\ ticker'[m] = ticker[m] /\ fired'[m] = fired[m] /\ clock' = clock
      BY <1>7, <1>11 DEF DInv, DType, Pace
  <2>2. QED
      BY <2>1, PacedAlone DEF DInv
<1>12. load' \in [Loads -> LoadType] /\ ticker' \in [Loads -> Nat \cup {NoTick}]
    BY <1>7 DEF DInv, DType, Pace
<1>13. UNCHANGED <<clock, cancelled, sender, result, progress, fired>>
    BY DEF Pace
<1>14. QED
    BY <1>10, <1>11, <1>12, <1>13 DEF DInv, DType

\* A request is released: sent or dropped.
LEMMA ReleasedPaced ==
    ASSUME DInv, NEW l \in Loads, Released(l), UNCHANGED <<clock, ticker>>
    PROVE  /\ load' \in [Loads -> LoadType] /\ fired' \in [Loads -> Nat]
           /\ \A m \in Loads : Paced(m)'
<1>1. PICK x \in LoadType : x = load[l] /\ x.pc = "fire"
    BY DEF DInv, DType, Released
<1>2. x.n \in Nat /\ x.n > 0 /\ x.quota \in Int /\ x.last \in Nat /\ x.begun \in Nat
  <2>1. x.n > 0
      BY <1>1 DEF DInv, Paced
  <2>2. QED
      BY <2>1 DEF LoadType
<1> DEFINE pc == IF x.n = 1 THEN "loop" ELSE "fire"
           v == [x EXCEPT !.n = x.n - 1, !.pc = pc]
<1>3. load' = [load EXCEPT ![l] = v]
    BY <1>1 DEF Released
<1>4. v \in LoadType /\ v.pc = pc /\ v.n = x.n - 1
      /\ v.quota = x.quota /\ v.last = x.last /\ v.begun = x.begun
  <2>1. pc \in {"loop", "fire"} /\ x.n - 1 \in Nat
      BY <1>2
  <2> HIDE DEF pc
  <2>2. QED
      BY <2>1 DEF LoadType
<1> HIDE DEF v
<1>5. PICK f \in Nat : f = fired[l] /\ fired' = [fired EXCEPT ![l] = f + 1]
    BY DEF DInv, DType, Released
<1>6. load' \in [Loads -> LoadType] /\ fired' \in [Loads -> Nat]
    BY <1>3, <1>4, <1>5 DEF DInv, DType
<1>7. load'[l] = v /\ fired'[l] = f + 1
    BY <1>3, <1>5 DEF DInv, DType
<1>8. Paced(l)'
  <2>1. Paced(l)
      BY DEF DInv
  <2>2. f + 1 + v.n = f + x.n
      BY <1>2, <1>4
  <2>3. /\ x.last <= clock
        /\ ticker[l] # NoTick => ticker[l] >= x.last /\ ticker[l] <= clock
        /\ Unit * (f + x.n) + x.quota = RPS[l] * (x.last - x.begun)
      BY <1>1, <1>5, <2>1 DEF Paced
  <2>4. Unit * (f + 1 + v.n) + v.quota = RPS[l] * (v.last - v.begun)
      BY <1>4, <2>2, <2>3
  <2>5. v.pc # "new" /\ (v.pc = "fire" <=> v.n > 0)
      BY <1>2, <1>4
  <2>6. QED
      BY <1>4, <1>7, <2>3, <2>4, <2>5 DEF Paced
<1>9. ASSUME NEW m \in Loads, m # l PROVE Paced(m)'
  <2>1. load'[m] = load[m] /\ fired'[m] = fired[m] /\ ticker'[m] = ticker[m] /\ clock' = clock
      BY <1>3, <1>5, <1>9 DEF DInv, DType
  <2>2. QED
      BY <2>1, PacedAlone DEF DInv
<1>10. QED
    BY <1>6, <1>8, <1>9

LEMMA DispatchPaced ==
    ASSUME DInv, NEW l \in Loads, NEW s \in Senders, Dispatch(l, s) PROVE DInv'
<1>1. PICK x \in SenderType : x = sender[s]
    BY DEF DInv, DType
<1>2. [x EXCEPT !.pc = "new"] \in SenderType
    BY DEF SenderType
<1>3. sender' \in [Senders -> SenderType]
    BY <1>1, <1>2 DEF DInv, DType, Dispatch
<1>4. /\ load' \in [Loads -> LoadType] /\ fired' \in [Loads -> Nat]
      /\ \A m \in Loads : Paced(m)'
    BY ReleasedPaced DEF Dispatch
<1>5. QED
    BY <1>3, <1>4 DEF DInv, DType, Dispatch

\* A step that changes one result.
LEMMA ResultMoves ==
    ASSUME DInv, NEW t \in Tenants, NEW q \in ResultType,
           result' = [result EXCEPT ![t] = q]
    PROVE  result' \in [Tenants -> ResultType]
    BY DEF DInv, DType

LEMMA DropPaced ==
    ASSUME DInv, NEW l \in Loads, Drop(l) PROVE DInv'
<1>1. PICK t \in Tenants : t = Tenant[l]
    BY DriverAssumption
<1>2. PICK r \in ResultType : r = result[t]
    BY DEF DInv, DType
<1>3. [r EXCEPT !.drops = @ + 1] \in ResultType
    BY DEF ResultType
<1>4. result' = [result EXCEPT ![t] = [r EXCEPT !.drops = @ + 1]]
    BY <1>1, <1>2 DEF Drop
<1>5. result' \in [Tenants -> ResultType]
    BY <1>3, <1>4, ResultMoves
<1>6. /\ load' \in [Loads -> LoadType] /\ fired' \in [Loads -> Nat]
      /\ \A m \in Loads : Paced(m)'
    BY ReleasedPaced DEF Drop
<1>7. QED
    BY <1>5, <1>6 DEF DInv, DType, Drop

\* A step of a sender and of the results leaves the pacing alone.
LEMMA SenderMoves ==
    ASSUME DInv, sender' \in [Senders -> SenderType], result' \in [Tenants -> ResultType],
           UNCHANGED <<clock, cancelled, load, ticker, progress, fired>>
    PROVE  DInv'
<1>1. \A m \in Loads : Paced(m)'
    BY DEF DInv, Paced
<1>2. QED
    BY <1>1 DEF DInv, DType

LEMMA SendPaced ==
    ASSUME DInv, NEW s \in Senders, SendOne(s) PROVE DInv'
<1>1. PICK t \in Tenants : t = Tenant[s[1]]
    BY SenderLoad
<1>2. PICK r \in ResultType : r = result[t]
    BY DEF DInv, DType
<1>3. [r EXCEPT !.sent = @ + 1] \in ResultType
    BY DEF ResultType
<1>4. result' = [result EXCEPT ![t] = [r EXCEPT !.sent = @ + 1]]
    BY <1>1, <1>2 DEF SendOne
<1>5. result' \in [Tenants -> ResultType]
    BY <1>3, <1>4, ResultMoves
<1>6. PICK x \in SenderType : x = sender[s]
    BY DEF DInv, DType
<1>7. [x EXCEPT !.pc = "flight", !.t0 = clock] \in SenderType
    BY DEF SenderType, DInv, DType
<1>8. sender' \in [Senders -> SenderType]
    BY <1>6, <1>7 DEF DInv, DType, SendOne
<1>9. QED
    BY <1>5, <1>8, SenderMoves DEF SendOne

\* What a return does to the results: a record, or nothing.
LEMMA ReturnRecords ==
    ASSUME DInv, NEW s \in Senders, NEW o \in Answers, NEW ok \in BOOLEAN, Return(s, o, ok)
    PROVE  \/ result' = result /\ cancelled
           \/ \E t \in Tenants, sec \in Nat, cost \in Nat :
                /\ t = Tenant[s[1]]
                /\ result' = [result EXCEPT ![t] = Record(result[t], sec, o, cost)]
<1>1. PICK t \in Tenants : t = Tenant[s[1]]
    BY SenderLoad
<1>2. PICK x \in SenderType : x = sender[s]
    BY DEF DInv, DType
<1>3. x.t0 \div Second \in Nat
    BY DriverAssumption DEF SenderType
<1> DEFINE cost == IF Cost[s[1]] < 1 THEN 1 ELSE Cost[s[1]]
<1>4. cost \in Nat
    BY SenderLoad, DriverAssumption
<1> HIDE DEF cost
<1>5. CASE ~ok /\ cancelled
    BY <1>5 DEF Return
<1>6. CASE ~(~ok /\ cancelled)
    BY <1>1, <1>2, <1>3, <1>4, <1>6 DEF Return, cost
<1>7. QED
    BY <1>5, <1>6

LEMMA ReturnPaced ==
    ASSUME DInv, NEW s \in Senders, NEW o \in Answers, NEW ok \in BOOLEAN, Return(s, o, ok)
    PROVE  DInv'
<1>1. [IdleSender EXCEPT !.pc = "return"] \in SenderType
    BY DEF IdleSender, SenderType
<1>2. sender' \in [Senders -> SenderType]
    BY <1>1 DEF DInv, DType, Return
<1>3. result' \in [Tenants -> ResultType]
  <2>1. CASE result' = result
      BY <2>1 DEF DInv, DType
  <2>2. CASE \E t \in Tenants, sec \in Nat, cost \in Nat :
               result' = [result EXCEPT ![t] = Record(result[t], sec, o, cost)]
    <3>1. PICK t \in Tenants, sec \in Nat, cost \in Nat :
            result' = [result EXCEPT ![t] = Record(result[t], sec, o, cost)]
        BY <2>2
    <3>2. result[t] \in ResultType /\ o \in Outcomes
        BY DriverAssumption DEF DInv, DType, Outcomes
    <3>3. Record(result[t], sec, o, cost) \in ResultType
        BY <3>2, RecordFacts
    <3>4. QED
        BY <3>1, <3>3, ResultMoves
  <2>3. QED
      BY <2>1, <2>2, ReturnRecords
<1>4. QED
    BY <1>2, <1>3, SenderMoves DEF Return

LEMMA ReleasePaced ==
    ASSUME DInv, NEW s \in Senders, Release(s) PROVE DInv'
<1>1. IdleSender \in SenderType
    BY DEF IdleSender, SenderType
<1>2. sender' \in [Senders -> SenderType]
    BY <1>1 DEF DInv, DType, Release
<1>3. result' \in [Tenants -> ResultType]
    BY DEF DInv, DType, Release
<1>4. QED
    BY <1>2, <1>3, SenderMoves DEF Release

LEMMA ProgressMoves ==
    ASSUME DInv, progress' \in ProgressType,
           UNCHANGED <<clock, cancelled, load, ticker, sender, result, fired>>
    PROVE  DInv'
<1>1. \A m \in Loads : Paced(m)'
    BY DEF DInv, Paced
<1>2. QED
    BY <1>1 DEF DInv, DType

LEMMA ProgressPaced ==
    ASSUME DInv, ProgressStep PROVE DInv'
<1>1. PICK p \in ProgressType : p = progress
    BY DEF DInv, DType
<1>2. CASE OnSecond
  <2>1. [p EXCEPT !.pc = "done"] \in ProgressType
      BY DEF ProgressType
  <2>2. CASE clock >= Duration
      BY <1>1, <1>2, <2>1, <2>2, ProgressMoves DEF OnSecond
  <2>3. CASE ~(clock >= Duration)
    <3> DEFINE pc == IF (p.sec + 1) % Every = 0 THEN "measure" ELSE "wait"
    <3>1. pc \in {"wait", "measure"}
        OBVIOUS
    <3>2. PICK n \in Nat : progress' = [p EXCEPT !.tick = FALSE, !.sec = n, !.metric = 1,
                                                !.todo = Tenants, !.pc = pc]
      <4>1. p.sec + 1 \in Nat
          BY DEF ProgressType
      <4>2. QED
          BY <1>1, <1>2, <2>3, <4>1 DEF OnSecond
    <3> HIDE DEF pc
    <3>3. 1 \in 1..3 /\ Tenants \in SUBSET Tenants /\ FALSE \in BOOLEAN
        OBVIOUS
    <3>4. progress' \in ProgressType
      <4>1. progress' = [pc |-> pc, tick |-> FALSE, sec |-> n, metric |-> 1,
                         todo |-> Tenants, out |-> p.out, maxLen |-> p.maxLen]
          BY <3>2 DEF ProgressType
      <4>2. p.out \in Seq(Nat) /\ p.maxLen \in Nat
          BY DEF ProgressType
      <4>3. QED
          BY <3>1, <3>3, <4>1, <4>2 DEF ProgressType
    <3>5. QED
        BY <1>2, <3>4, ProgressMoves DEF OnSecond
  <2>4. QED
      BY <2>2, <2>3
<1>3. CASE Report
  <2> DEFINE more == p.metric < Len(Metrics)
             pc == IF more THEN "measure" ELSE "wait"
             metric == IF more THEN p.metric + 1 ELSE 1
             todo == IF more THEN Tenants ELSE {}
  <2>1. progress' = [p EXCEPT !.pc = pc, !.metric = metric, !.todo = todo,
                              !.out = <<>>, !.maxLen = 0]
    <3>1. CASE more
        BY <1>1, <1>3, <3>1 DEF Report
    <3>2. CASE ~more
        BY <1>1, <1>3, <3>2 DEF Report
    <3>3. QED
        BY <3>1, <3>2
  <2>2. pc \in {"measure", "wait"} /\ todo \in SUBSET Tenants /\ metric \in 1..3
    <3>1. Len(Metrics) = 3 /\ p.metric \in 1..3
        BY DEF Metrics, ProgressType
    <3>2. QED
        BY <3>1
  <2>3. <<>> \in Seq(Nat)
      OBVIOUS
  <2> HIDE DEF pc, metric, todo
  <2>4. progress' \in ProgressType
      BY <2>1, <2>2, <2>3 DEF ProgressType
  <2>5. QED
      BY <1>3, <2>4, ProgressMoves DEF Report
<1>4. CASE StopProgress
  <2>1. [p EXCEPT !.pc = "done"] \in ProgressType
      BY DEF ProgressType
  <2>2. QED
      BY <1>1, <1>4, <2>1, ProgressMoves DEF StopProgress
<1>5. ASSUME NEW t \in Tenants, Measure(t) PROVE DInv'
  <2> DEFINE len == Len(result[t].buckets)
             most == IF len > p.maxLen THEN len ELSE p.maxLen
             last == p.todo = {t}
             todo == IF last THEN Tenants ELSE p.todo \ {t}
             out == IF last THEN [i \in 1..most |-> 0] ELSE p.out
             pc == IF last THEN "sum" ELSE p.pc
  <2>1. progress' = [p EXCEPT !.maxLen = most, !.todo = todo, !.out = out, !.pc = pc]
    <3>1. CASE last
        BY <1>1, <1>5, <3>1 DEF Measure
    <3>2. CASE ~last
        BY <1>1, <1>5, <3>2 DEF Measure
    <3>3. QED
        BY <3>1, <3>2
  <2>2. most \in Nat
    <3>1. PICK r \in ResultType : r = result[t]
        BY DEF DInv, DType
    <3>2. Len(r.buckets) \in Nat /\ p.maxLen \in Nat
        BY DEF ResultType, ProgressType
    <3>3. QED
        BY <3>1, <3>2
  <2>3. todo \in SUBSET Tenants /\ pc \in {"wait", "measure", "sum", "done"}
      BY DEF ProgressType
  <2>4. out \in Seq(Nat)
    <3> HIDE DEF most
    <3>1. [i \in 1..most |-> 0] \in [1..most -> Nat]
        OBVIOUS
    <3>2. [i \in 1..most |-> 0] \in Seq(Nat) /\ p.out \in Seq(Nat)
        BY <2>2, <3>1 DEF ProgressType
    <3>3. QED
        BY <3>2
  <2> HIDE DEF most, todo, out, pc
  <2>5. progress' \in ProgressType
      BY <2>1, <2>2, <2>3, <2>4 DEF ProgressType
  <2>6. QED
      BY <1>5, <2>5, ProgressMoves DEF Measure
<1>6. ASSUME NEW t \in Tenants, Sum(t) PROVE DInv'
  <2> DEFINE out == AddSeries(p.out, result[t].buckets, Metrics[p.metric])
  <2>1. progress' = [p EXCEPT !.todo = p.todo \ {t}, !.out = out]
      BY <1>1, <1>6 DEF Sum
  <2>2. out \in Seq(Nat)
    <3>1. PICK r \in ResultType : r = result[t]
        BY DEF DInv, DType
    <3>2. r.buckets \in Seq(BucketType) /\ p.out \in Seq(Nat) /\ p.metric \in 1..3
        BY DEF ResultType, ProgressType
    <3>3. QED
        BY <3>1, <3>2, AddSeriesFacts, MetricIsOutcome
  <2> HIDE DEF out
  <2>3. progress' \in ProgressType
      BY <2>1, <2>2 DEF ProgressType
  <2>4. QED
      BY <1>6, <2>3, ProgressMoves DEF Sum
<1>7. QED
    BY <1>2, <1>3, <1>4, <1>5, <1>6 DEF ProgressStep

LEMMA TickPaced ==
    ASSUME DInv, Tick PROVE DInv'
<1>1. PICK now \in Nat : now = (IF clock < MaxClock THEN clock + 1 ELSE clock)
    BY DEF DInv, DType
<1>2. clock' = now /\ now >= clock /\ now <= MaxClock /\ clock \in Nat /\ clock' \in Nat
    BY <1>1, DriverAssumption DEF DInv, DType, Tick
<1>3. ticker' = [l \in Loads |-> IF load[l].pc # "new" /\ ticker[l] = NoTick
                                 THEN now ELSE ticker[l]]
    BY <1>1 DEF Tick
<1>4. ticker' \in [Loads -> Nat \cup {NoTick}]
    BY <1>3 DEF DInv, DType
<1>5. progress' \in ProgressType
  <2>1. PICK p \in ProgressType : p = progress
      BY DEF DInv, DType
  <2>2. [p EXCEPT !.tick = TRUE] \in ProgressType
      BY DEF ProgressType
  <2>3. QED
      BY <2>1, <2>2 DEF Tick
<1>6. ASSUME NEW l \in Loads PROVE Paced(l)'
  <2>1. Paced(l) /\ load[l].last \in Nat
      BY DEF DInv, DType, LoadType
  <2>2. /\ load'[l] = load[l] /\ fired'[l] = fired[l]
        /\ ticker'[l] = IF load[l].pc # "new" /\ ticker[l] = NoTick THEN now ELSE ticker[l]
      BY <1>3 DEF Tick
  <2>3. ticker[l] \in Nat \cup {NoTick}
      BY DEF DInv, DType
  <2>4. load[l].last <= now
      BY <1>2, <2>1 DEF Paced
  <2>5. ticker'[l] # NoTick => ticker'[l] >= load[l].last /\ ticker'[l] <= now
      BY <1>2, <2>1, <2>2, <2>3, <2>4 DEF Paced
  <2>6. load[l].pc = "new" => ticker'[l] = NoTick
      BY <2>1, <2>2 DEF Paced
  <2>7. QED
      BY <1>2, <2>1, <2>2, <2>4, <2>5, <2>6 DEF Paced
<1>7. UNCHANGED <<cancelled, load, sender, result, fired>>
    BY DEF Tick
<1>8. QED
    BY <1>2, <1>4, <1>5, <1>6, <1>7 DEF DInv, DType

\* The types and the pacing are kept by every step.
THEOREM DriverInductive == Spec => []DInv
<1>1. Init => DInv
    BY InitDInv
<1>2. DInv /\ [Next]_vars => DInv'
  <2> SUFFICES ASSUME DInv, [Next]_vars PROVE DInv'
      OBVIOUS
  <2>1. ASSUME NEW l \in Loads, LoadStep(l) PROVE DInv'
    <3>1. CASE Stop(l)
      <4>1. load[l].pc = "loop" /\ load' = [load EXCEPT ![l].pc = "drain"]
          BY <3>1 DEF Stop
      <4>2. QED
          BY <3>1, <4>1, LeavesLoop DEF Stop
    <3>2. CASE Drain(l)
      <4>1. load[l].pc = "drain" /\ load' = [load EXCEPT ![l].pc = "done"]
          BY <3>2 DEF Drain
      <4>2. QED
          BY <3>2, <4>1, LeavesLoop DEF Drain
    <3>3. QED
        BY <2>1, <3>1, <3>2, BeginPaced, PacePaced, DropPaced, DispatchPaced DEF LoadStep
  <2>2. ASSUME NEW s \in Senders, SenderStep(s) PROVE DInv'
      BY <2>2, SendPaced, ReleasePaced, ReturnPaced DEF SenderStep
  <2>3. CASE Cancel
    <3>1. cancelled' \in BOOLEAN
        BY <2>3, Zenon DEF Cancel
    <3>2. \A m \in Loads : Paced(m)'
        BY <2>3 DEF DInv, Paced, Cancel
    <3>3. QED
        BY <2>3, <3>1, <3>2 DEF DInv, DType, Cancel
  <2>4. CASE UNCHANGED vars
    <3>1. \A m \in Loads : Paced(m)'
        BY <2>4 DEF DInv, Paced, vars
    <3>2. QED
        BY <2>4, <3>1 DEF DInv, DType, vars
  <2>5. QED
      BY <2>1, <2>2, <2>3, <2>4, ProgressPaced, TickPaced DEF Next, Goroutines
<1>3. QED
    BY <1>1, <1>2, PTL DEF Spec

\* The type invariant of the model.
THEOREM DriverTypes == Spec => []TypeOK
<1>1. DInv => TypeOK
  <2> SUFFICES ASSUME DInv PROVE TypeOK
      OBVIOUS
  <2>1. ASSUME NEW l \in Loads
        PROVE  /\ load[l].pc \in {"new", "loop", "fire", "drain", "done"}
               /\ load[l].quota \in 0..(Unit - 1) /\ load[l].n \in Nat
               /\ load[l].last \in 0..clock /\ ticker[l] \in 0..clock \cup {NoTick}
    <3>1. load[l] \in LoadType /\ Paced(l) /\ ticker[l] \in Nat \cup {NoTick} /\ clock \in Nat
        BY DEF DInv, DType
    <3>2. /\ load[l].pc \in {"new", "loop", "fire", "drain", "done"}
          /\ load[l].quota \in 0..(Unit - 1) /\ load[l].n \in Nat /\ load[l].last \in Nat
        BY <3>1 DEF LoadType
    <3>3. QED
        BY <3>1, <3>2 DEF Paced
  <2>2. \A s \in Senders : sender[s].pc \in {"idle", "new", "flight", "return"}
      BY DEF DInv, DType, SenderType
  <2>3. \A t \in Tenants : /\ result[t].sent \in Nat /\ result[t].drops \in Nat
                           /\ result[t].admittedTokens \in Nat
                           /\ \A o \in Outcomes : result[t][o] \in Nat
      BY DEF DInv, DType, ResultType, Outcomes
  <2>4. progress.pc \in {"wait", "measure", "sum", "done"}
      BY DEF DInv, DType, ProgressType
  <2>5. clock \in 0..MaxClock /\ cancelled \in BOOLEAN /\ fired \in [Loads -> Nat]
      BY DriverAssumption DEF DInv, DType
  <2>6. QED
      BY <2>1, <2>2, <2>3, <2>4, <2>5 DEF TypeOK
<1>2. QED
    BY <1>1, DriverInductive, PTL

\* The pacing loop neither loses nor invents load (runTenant): what it
\* released, has yet to release and carries over is the rate times the time.
THEOREM PacingIsExact == Spec => []PacingExact
<1>1. DInv => PacingExact
    BY DEF DInv, Paced, PacingExact
<1>2. QED
    BY <1>1, DriverInductive, PTL

-----------------------------------------------------------------------------
(* Nothing outlives Run *)

\* A load that has returned has no request left: none is new, in flight or
\* about to give its slot back.
Quiet == \A s \in Senders : load[s[1]].pc = "done" => sender[s].pc = "idle"

\* Where a step of Next takes a load and its senders.
LEMMA QuietStep ==
    ASSUME DInv, Quiet, [Next]_vars PROVE Quiet'
<1> SUFFICES ASSUME NEW s \in Senders, load'[s[1]].pc = "done"
             PROVE  sender'[s].pc = "idle"
    BY DEF Quiet
<1>1. PICK k \in Loads : k = s[1]
    BY SenderLoad
<1>2. load[k].pc = "done" => sender[s].pc = "idle"
    BY <1>1 DEF Quiet
<1>3. /\ load[k] \in LoadType /\ load \in [Loads -> LoadType]
      /\ sender[s] \in SenderType /\ sender \in [Senders -> SenderType]
    BY DEF DInv, DType
<1>4. ASSUME NEW l \in Loads, Begin(l) \/ Pace(l) \/ Stop(l) \/ Released(l)
      PROVE  load[k].pc = "done" /\ k # l
  <2>1. load'[l].pc # "done"
    <3>1. PICK x \in LoadType : x = load[l]
        BY <1>3
    <3>2. CASE Begin(l)
        BY <1>3, <3>1, <3>2 DEF Begin, LoadType
    <3>3. CASE Stop(l)
        BY <1>3, <3>1, <3>3 DEF Stop, LoadType
    <3>4. CASE Pace(l)
      <4>1. PICK v : load' = [load EXCEPT ![l] = v] /\ v.pc \in {"drain", "loop", "fire"}
        <5> DEFINE now == ticker[l]
                   q == x.quota + (now - x.last) * RPS[l]
                   pc == IF q < Unit THEN "loop" ELSE "fire"
        <5>1. CASE now >= Duration
          <6>1. load' = [load EXCEPT ![l] = [x EXCEPT !.pc = "drain"]]
              BY <3>1, <3>4, <5>1 DEF Pace
          <6>2. [x EXCEPT !.pc = "drain"].pc = "drain"
              BY DEF LoadType
          <6>3. QED
              BY <6>1, <6>2
        <5>2. CASE ~(now >= Duration)
          <6> DEFINE v == [x EXCEPT !.quota = q % Unit, !.last = now, !.n = q \div Unit,
                                    !.pc = pc]
          <6>1. load' = [load EXCEPT ![l] = v]
              BY <3>1, <3>4, <5>2 DEF Pace
          <6>2. pc \in {"loop", "fire"}
              OBVIOUS
          <6> HIDE DEF pc
          <6>3. v.pc = pc
              BY DEF LoadType
          <6>4. QED
              BY <6>1, <6>2, <6>3
        <5>3. QED
            BY <5>1, <5>2
      <4>2. QED
          BY <1>3, <4>1
    <3>5. CASE Released(l)
      <4>1. PICK v : load' = [load EXCEPT ![l] = v] /\ v.pc \in {"loop", "fire"}
        <5> DEFINE pc == IF x.n = 1 THEN "loop" ELSE "fire"
                   v == [x EXCEPT !.n = x.n - 1, !.pc = pc]
        <5>1. load' = [load EXCEPT ![l] = v]
            BY <3>1, <3>5 DEF Released
        <5>2. v.pc = pc
            BY DEF LoadType
        <5>3. QED
            BY <5>1, <5>2
      <4>2. QED
          BY <1>3, <4>1
    <3>6. QED
        BY <1>4, <3>2, <3>3, <3>4, <3>5
  <2>2. k # l
      BY <1>1, <2>1
  <2>3. load'[k] = load[k]
      BY <1>3, <1>4, <2>2 DEF Begin, Pace, Stop, Released
  <2>4. QED
      BY <1>1, <2>2, <2>3
<1>5. ASSUME NEW l \in Loads, LoadStep(l) PROVE sender'[s].pc = "idle"
  <2>1. CASE Begin(l) \/ Pace(l) \/ Stop(l) \/ Drop(l)
    <3>1. sender' = sender
        BY <2>1 DEF Begin, Pace, Stop, Drop
    <3>2. load[k].pc = "done"
        BY <1>4, <2>1 DEF Drop
    <3>3. QED
        BY <1>2, <3>1, <3>2
  <2>2. ASSUME NEW q \in Senders, Dispatch(l, q) PROVE sender'[s].pc = "idle"
    <3>1. load[k].pc = "done" /\ k # l
        BY <1>4, <2>2 DEF Dispatch
    <3>2. q[1] = l /\ q # s
        BY <1>1, <2>2, <3>1 DEF Dispatch
    <3>3. sender'[s] = sender[s]
        BY <1>3, <2>2, <3>2 DEF Dispatch
    <3>4. QED
        BY <1>2, <3>1, <3>3
  <2>3. CASE Drain(l)
    <3>1. sender' = sender
        BY <2>3 DEF Drain
    <3>2. CASE k = l
      <4>1. s \notin Alive(l)
          BY <2>3 DEF Drain
      <4>2. QED
          BY <1>1, <3>1, <3>2, <4>1 DEF Alive
    <3>3. CASE k # l
      <4>1. load'[k] = load[k]
          BY <1>3, <2>3, <3>3 DEF Drain
      <4>2. QED
          BY <1>1, <1>2, <3>1, <4>1
    <3>4. QED
        BY <3>2, <3>3
  <2>4. QED
      BY <1>5, <2>1, <2>2, <2>3 DEF LoadStep
<1>6. ASSUME NEW q \in Senders, SenderStep(q) PROVE sender'[s].pc = "idle"
  <2>1. load' = load /\ load[k].pc = "done" /\ sender[s].pc = "idle"
      BY <1>1, <1>2, <1>6 DEF SenderStep, SendOne, Release, Return
  <2>2. CASE q = s
    <3>1. sender[s].pc \in {"new", "flight", "return"}
        BY <1>6, <2>2 DEF SenderStep, SendOne, Release, Return
    <3>2. QED
        BY <2>1, <3>1
  <2>3. CASE q # s
    <3>1. sender'[s] = sender[s]
      <4>1. CASE SendOne(q)
          BY <1>3, <2>3, <4>1 DEF SendOne
      <4>2. CASE Release(q)
          BY <1>3, <2>3, <4>2 DEF Release
      <4>3. CASE \E o \in Answers, ok \in BOOLEAN : Return(q, o, ok)
          BY <1>3, <2>3, <4>3 DEF Return
      <4>4. QED
          BY <1>6, <4>1, <4>2, <4>3 DEF SenderStep
    <3>2. QED
        BY <2>1, <3>1
  <2>4. QED
      BY <2>2, <2>3
<1>7. CASE ProgressStep \/ Cancel \/ Tick \/ UNCHANGED vars
  <2>1. load' = load /\ sender' = sender
      BY <1>7 DEF ProgressStep, OnSecond, Report, StopProgress, Measure, Sum, Cancel, Tick, vars
  <2>2. QED
      BY <1>1, <1>2, <2>1
<1>8. QED
    BY <1>5, <1>6, <1>7 DEF Next, Goroutines

\* Once Run has returned nothing that it started changes a result or runs,
\* so that the scenarios may read the results without their mutex.
THEOREM NothingIsRecordedLate == Spec => NoLateRecord
<1>1. Init => Quiet
    BY DEF Init, Quiet, IdleSender
<1>2. DInv /\ Quiet /\ [Next]_vars => Quiet'
    BY QuietStep
<1>3. DInv /\ Quiet /\ [Next]_vars => [Returned => UNCHANGED <<result, sender>>]_vars
  <2> SUFFICES ASSUME DInv, Quiet, Next, Returned
               PROVE  UNCHANGED <<result, sender>>
      BY DEF vars
  <2>1. ASSUME NEW l \in Loads, LoadStep(l) PROVE FALSE
    <3>1. load[l].pc = "done"
        BY DEF Returned
    <3>2. load[l].pc # "done"
        BY <2>1 DEF LoadStep, Begin, Pace, Drop, Stop, Drain, Dispatch, Released
    <3>3. QED
        BY <3>1, <3>2
  <2>2. ASSUME NEW s \in Senders, SenderStep(s) PROVE FALSE
    <3>1. sender[s].pc = "idle"
        BY SenderLoad DEF Returned, Quiet
    <3>2. sender[s].pc # "idle"
        BY <2>2 DEF SenderStep, SendOne, Release, Return
    <3>3. QED
        BY <3>1, <3>2
  <2>3. CASE ProgressStep \/ Cancel \/ Tick
      BY <2>3 DEF ProgressStep, OnSecond, Report, StopProgress, Measure, Sum, Cancel, Tick
  <2>4. QED
      BY <2>1, <2>2, <2>3 DEF Next, Goroutines
<1>4. QED
    BY <1>1, <1>2, <1>3, DriverInductive, PTL DEF Spec, NoLateRecord

-----------------------------------------------------------------------------
(* The results add up *)

\* What the seconds of a series sum to.
Total(b, o) == SumFunction([i \in DOMAIN b |-> b[i][o]])

\* A record adds one to the total of its outcome, whatever its second.
LEMMA RecordTotal ==
    ASSUME NEW r \in ResultType, NEW sec \in Nat, NEW o \in Outcomes, NEW cost \in Nat,
           NEW x \in Outcomes
    PROVE  Total(Record(r, sec, o, cost).buckets, x)
             = Total(r.buckets, x) + (IF x = o THEN 1 ELSE 0)
<1>1. PICK b \in Seq(BucketType), c \in Seq(BucketType) :
        /\ b = r.buckets /\ c = Record(r, sec, o, cost).buckets
        /\ Len(c) >= Len(b) /\ Len(c) >= sec + 1
        /\ \A i \in 1..Len(c), y \in Outcomes :
             c[i][y] = Recorded(b, i, y) + (IF i = sec + 1 /\ y = o THEN 1 ELSE 0)
  <2>1. r.buckets \in Seq(BucketType) /\ Record(r, sec, o, cost).buckets \in Seq(BucketType)
      BY RecordFacts DEF ResultType
  <2>2. QED
      BY <2>1, RecordFacts
<1> DEFINE m == Len(b)
           n == Len(c)
           d == IF x = o THEN 1 ELSE 0
           f == [i \in 1..m |-> b[i][x]]
           h == [i \in 1..n |-> Recorded(b, i, x)]
           g == [i \in 1..n |-> c[i][x]]
<1>2. ASSUME NEW i \in 1..m PROVE b[i][x] \in Nat
  <2>1. PICK e \in BucketType : e = b[i]
      OBVIOUS
  <2>2. QED
      BY <2>1 DEF BucketType, Outcomes
<1>3. /\ m \in Nat /\ n \in Nat /\ n >= m /\ sec + 1 \in 1..n /\ d \in Nat
      /\ IsFiniteSet(1..n) /\ IsFiniteSet(1..m) /\ 1..m \in SUBSET (1..n)
  <2>1. m \in Nat /\ n \in Nat /\ n >= m /\ sec + 1 \in 1..n /\ d \in Nat
      BY <1>1
  <2> HIDE DEF m, n, d
  <2>2. IsFiniteSet(1..n) /\ IsFiniteSet(1..m)
      BY <2>1, FS_Interval
  <2>3. 1..m \in SUBSET (1..n)
      BY <2>1
  <2>4. QED
      BY <2>1, <2>2, <2>3
<1>4. /\ \A i \in 1..n : h[i] \in Int
      /\ \A i \in (1..n) \ (1..m) : h[i] = 0
      /\ \A i \in 1..m : h[i] \in Int
      /\ \A i \in 1..m : h[i] = f[i]
    BY <1>2, <1>3 DEF Recorded
<1>5. /\ \A i \in 1..n : h[i] \in Int /\ g[i] \in Int
      /\ \A i \in 1..n : i # sec + 1 => h[i] = g[i]
      /\ g[sec + 1] = h[sec + 1] + d
  <2>1. \A i \in 1..n : g[i] = h[i] + (IF i = sec + 1 /\ x = o THEN 1 ELSE 0)
      BY <1>1
  <2>2. QED
      BY <1>3, <1>4, <2>1
<1>6. Total(b, x) = SumFunctionOnSet(f, 1..m) /\ Total(c, x) = SumFunctionOnSet(g, 1..n)
  <2>1. DOMAIN b = 1..m /\ DOMAIN c = 1..n /\ DOMAIN f = 1..m /\ DOMAIN g = 1..n
      OBVIOUS
  <2>2. f = [i \in DOMAIN b |-> b[i][x]] /\ g = [i \in DOMAIN c |-> c[i][x]]
      BY <2>1
  <2>3. Total(b, x) = SumFunction(f) /\ Total(c, x) = SumFunction(g)
      BY <2>2 DEF Total
  <2> HIDE DEF f, g
  <2>4. SumFunction(f) = SumFunctionOnSet(f, 1..m) /\ SumFunction(g) = SumFunctionOnSet(g, 1..n)
      BY <2>1 DEF SumFunction
  <2>5. QED
      BY <2>3, <2>4
<1> HIDE DEF f, g, h, m, n, d
<1>7. SumFunctionOnSet(h, 1..n) = SumFunctionOnSet(h, 1..m)
    BY <1>3, <1>4, SumZeros
<1>8. SumFunctionOnSet(h, 1..m) = SumFunctionOnSet(f, 1..m)
    BY <1>3, <1>4, SumSame
<1>9. SumFunctionOnSet(g, 1..n) = SumFunctionOnSet(h, 1..n) - h[sec + 1] + g[sec + 1]
  <2>1. PICK T : T = 1..n
      OBVIOUS
  <2>2. PICK e \in T : e = sec + 1
      BY <1>3, <2>1
  <2>3. \A i \in T : h[i] \in Int /\ g[i] \in Int
      BY <1>5, <2>1
  <2>4. \A i \in T : i # e => h[i] = g[i]
      BY <1>5, <2>1, <2>2
  <2>5. IsFiniteSet(T)
      BY <1>3, <2>1
  <2>6. SumFunctionOnSet(g, T) = SumFunctionOnSet(h, T) - h[e] + g[e]
    <3>1. /\ \A i : i # e => (i \in T <=> i \in T)
          /\ \A i \in T : h[i] \in Int
          /\ \A i \in T : g[i] \in Int
          /\ \A i \in T : i # e => h[i] = g[i]
        BY <2>3, <2>4
    <3>2. QED
        BY <2>5, <3>1, SumSwap
  <2>7. QED
      BY <2>1, <2>2, <2>6
<1>10. SumFunctionOnSet(h, 1..n) \in Int /\ h[sec + 1] \in Int
    BY <1>3, <1>4, SumInt
<1>11. SumFunctionOnSet(g, 1..n) = SumFunctionOnSet(f, 1..m) + d
    BY <1>3, <1>5, <1>7, <1>8, <1>9, <1>10
<1>12. QED
    BY <1>1, <1>6, <1>11 DEF d

\* The books of a tenant.
Booked(t) ==
    /\ IsFiniteSet(Unanswered(t))
    /\ ~cancelled => result[t].sent = result[t].admitted + result[t].rejected
                                        + result[t].errors + Cardinality(Unanswered(t))
    /\ \A o \in Outcomes : result[t][o] = Total(result[t].buckets, o)

\* A step that changes no book.
LEMMA BookedAlone ==
    ASSUME NEW t \in Tenants, Booked(t), Unanswered(t)' = Unanswered(t), cancelled' = cancelled,
           result'[t].sent = result[t].sent, result'[t].buckets = result[t].buckets,
           \A o \in Outcomes : result'[t][o] = result[t][o]
    PROVE  Booked(t)'
<1>1. /\ result'[t].admitted = result[t].admitted /\ result'[t].rejected = result[t].rejected
      /\ result'[t].errors = result[t].errors
    BY DEF Outcomes
<1>2. QED
    BY <1>1 DEF Booked

LEMMA InitBooked ==
    ASSUME Init, NEW t \in Tenants PROVE Booked(t)
<1>1. Unanswered(t) = {}
    BY DEF Init, IdleSender, Unanswered
<1>2. IsFiniteSet({}) /\ Cardinality({}) = 0
    BY FS_EmptySet
<1>3. /\ result[t].sent = 0 /\ result[t].admitted = 0 /\ result[t].rejected = 0
      /\ result[t].errors = 0 /\ result[t].buckets = <<>>
    BY DEF Init, NewResult
<1>4. ASSUME NEW o \in Outcomes PROVE Total(<<>>, o) = 0
  <2> DEFINE f == [i \in DOMAIN <<>> |-> <<>>[i][o]]
  <2>1. DOMAIN f = {}
      OBVIOUS
  <2> HIDE DEF f
  <2>2. SumFunction(f) = 0
      BY <2>1, SumEmpty DEF SumFunction
  <2>3. QED
      BY <2>2 DEF Total, f
<1>5. \A o \in Outcomes : result[t][o] = Total(result[t].buckets, o)
    BY <1>3, <1>4 DEF Outcomes
<1>6. QED
    BY <1>1, <1>2, <1>3, <1>5 DEF Booked

LEMMA SendBooked ==
    ASSUME DInv, NEW s \in Senders, SendOne(s), NEW t \in Tenants, Booked(t)
    PROVE  Booked(t)'
<1>1. PICK u \in Tenants : u = Tenant[s[1]]
    BY SenderLoad
<1>2. PICK r \in ResultType : r = result[u]
    BY DEF DInv, DType
<1> DEFINE q == [r EXCEPT !.sent = @ + 1]
<1>3. result' = [result EXCEPT ![u] = q]
    BY <1>1, <1>2 DEF SendOne
<1>4. q.sent = r.sent + 1 /\ q.buckets = r.buckets /\ \A o \in Outcomes : q[o] = r[o]
    BY DEF ResultType, Outcomes
<1> HIDE DEF q
<1>5. result'[u] = q /\ (t # u => result'[t] = result[t])
    BY <1>3 DEF DInv, DType
<1>6. /\ sender[s].pc = "new" /\ sender'[s].pc = "flight" /\ cancelled' = cancelled
      /\ \A x \in Senders : x # s => sender'[x] = sender[x]
    BY DEF SendOne, DInv, DType, SenderType
<1>7. CASE t # u
  <2>1. Unanswered(t)' = Unanswered(t)
      BY <1>1, <1>6, <1>7 DEF Unanswered
  <2>2. QED
      BY <1>5, <1>6, <1>7, <2>1, BookedAlone
<1>8. CASE t = u
  <2>1. s \notin Unanswered(t) /\ s \in Unanswered(t)'
        /\ \A x : x # s => (x \in Unanswered(t) <=> x \in Unanswered(t)')
      BY <1>1, <1>6, <1>8 DEF Unanswered
  <2>2. IsFiniteSet(Unanswered(t))
      BY DEF Booked
  <2>3. /\ IsFiniteSet(Unanswered(t)') /\ Cardinality(Unanswered(t)) \in Nat
        /\ Cardinality(Unanswered(t)') = Cardinality(Unanswered(t)) + 1
      BY <2>1, <2>2, CardSwap
  <2>4. /\ r.sent \in Nat /\ r.admitted \in Nat /\ r.rejected \in Nat /\ r.errors \in Nat
        /\ q.admitted = r.admitted /\ q.rejected = r.rejected /\ q.errors = r.errors
      BY <1>4 DEF ResultType, Outcomes
  <2>5. ~cancelled => r.sent = r.admitted + r.rejected + r.errors + Cardinality(Unanswered(t))
      BY <1>2, <1>8 DEF Booked
  <2>6. ~cancelled' => q.sent = q.admitted + q.rejected + q.errors
                                  + Cardinality(Unanswered(t)')
      BY <1>4, <1>6, <2>3, <2>4, <2>5
  <2>7. \A o \in Outcomes : q[o] = Total(q.buckets, o)
      BY <1>2, <1>4, <1>8 DEF Booked
  <2>8. QED
      BY <1>5, <1>8, <2>3, <2>6, <2>7 DEF Booked
<1>9. QED
    BY <1>7, <1>8

LEMMA ReturnBooked ==
    ASSUME DInv, NEW s \in Senders, NEW o \in Answers, NEW ok \in BOOLEAN, Return(s, o, ok),
           NEW t \in Tenants, Booked(t)
    PROVE  Booked(t)'
<1>1. PICK u \in Tenants : u = Tenant[s[1]]
    BY SenderLoad
<1>2. PICK r \in ResultType : r = result[u]
    BY DEF DInv, DType
<1>3. /\ sender[s].pc = "flight" /\ sender'[s].pc # "flight" /\ cancelled' = cancelled
      /\ \A x \in Senders : x # s => sender'[x] = sender[x]
    BY DEF Return, DInv, DType, SenderType, IdleSender
<1>4. t # u => result'[t] = result[t]
  <2>1. CASE result' = result
      BY <2>1
  <2>2. CASE \E y \in Tenants, sec \in Nat, cost \in Nat :
               /\ y = Tenant[s[1]]
               /\ result' = [result EXCEPT ![y] = Record(result[y], sec, o, cost)]
      BY <1>1, <2>2 DEF DInv, DType
  <2>3. QED
      BY <2>1, <2>2, ReturnRecords
<1>5. CASE t # u
  <2>1. Unanswered(t)' = Unanswered(t)
      BY <1>1, <1>3, <1>5 DEF Unanswered
  <2>2. QED
      BY <1>3, <1>4, <1>5, <2>1, BookedAlone
<1>6. CASE t = u
  <2>1. s \in Unanswered(t) /\ s \notin Unanswered(t)'
        /\ \A x : x # s => (x \in Unanswered(t) <=> x \in Unanswered(t)')
      BY <1>1, <1>3, <1>6 DEF Unanswered
  <2>2. IsFiniteSet(Unanswered(t))
      BY DEF Booked
  <2>3. /\ IsFiniteSet(Unanswered(t)')
        /\ Cardinality(Unanswered(t)) \in Nat /\ Cardinality(Unanswered(t)') \in Nat
        /\ Cardinality(Unanswered(t)') = Cardinality(Unanswered(t)) - 1
      BY <2>1, <2>2, CardSwap
  <2>4. CASE result' = result /\ cancelled
    <3>1. \A x \in Outcomes : result'[t][x] = Total(result'[t].buckets, x)
        BY <2>4 DEF Booked
    <3>2. QED
        BY <1>3, <2>3, <2>4, <3>1 DEF Booked
  <2>5. CASE \E y \in Tenants, sec \in Nat, cost \in Nat :
               /\ y = Tenant[s[1]]
               /\ result' = [result EXCEPT ![y] = Record(result[y], sec, o, cost)]
    <3>1. PICK sec \in Nat, cost \in Nat :
            result' = [result EXCEPT ![u] = Record(r, sec, o, cost)]
        BY <1>1, <1>2, <2>5
    <3>2. o \in Outcomes
        BY DriverAssumption DEF Outcomes
    <3>3. PICK q \in ResultType :
            /\ q = Record(r, sec, o, cost) /\ q.sent = r.sent
            /\ \A x \in Outcomes : q[x] = r[x] + (IF x = o THEN 1 ELSE 0)
        BY <3>2, RecordFacts
    <3>4. result'[t] = q
        BY <1>6, <3>1, <3>3 DEF DInv, DType
    <3>5. \A x \in Outcomes : Total(q.buckets, x) = Total(r.buckets, x) + (IF x = o THEN 1 ELSE 0)
        BY <3>2, <3>3, RecordTotal
    <3>6. \A x \in Outcomes : r[x] = Total(r.buckets, x)
        BY <1>2, <1>6 DEF Booked
    <3>7. \A x \in Outcomes : q[x] = Total(q.buckets, x)
        BY <3>3, <3>5, <3>6
    <3>8. /\ r.sent \in Nat /\ r.admitted \in Nat /\ r.rejected \in Nat /\ r.errors \in Nat
        BY DEF ResultType
    <3>9. q.admitted + q.rejected + q.errors = r.admitted + r.rejected + r.errors + 1
      <4>1. /\ q.admitted = r.admitted + (IF "admitted" = o THEN 1 ELSE 0)
            /\ q.rejected = r.rejected + (IF "rejected" = o THEN 1 ELSE 0)
            /\ q.errors = r.errors + (IF "errors" = o THEN 1 ELSE 0)
          BY <3>3 DEF Outcomes
      <4>2. QED
          BY <3>2, <3>8, <4>1 DEF Outcomes
    <3>10. ~cancelled => r.sent = r.admitted + r.rejected + r.errors
                                    + Cardinality(Unanswered(t))
        BY <1>2, <1>6 DEF Booked
    <3>11. ~cancelled' => q.sent = q.admitted + q.rejected + q.errors
                                     + Cardinality(Unanswered(t)')
        BY <1>3, <2>3, <3>3, <3>8, <3>9, <3>10
    <3>12. QED
        BY <2>3, <3>4, <3>7, <3>11 DEF Booked
  <2>6. QED
      BY <2>4, <2>5, ReturnRecords
<1>7. QED
    BY <1>5, <1>6

\* The books are kept by every step.
LEMMA BooksStep ==
    ASSUME DInv, [Next]_vars, NEW t \in Tenants, Booked(t) PROVE Booked(t)'
<1>1. ASSUME UNCHANGED <<result, sender, cancelled>> PROVE Booked(t)'
    BY <1>1, BookedAlone DEF Unanswered
<1>2. ASSUME NEW l \in Loads, LoadStep(l) PROVE Booked(t)'
  <2>1. ASSUME NEW s \in Senders, Dispatch(l, s) PROVE Booked(t)'
    <3>1. /\ sender[s].pc = "idle" /\ sender'[s].pc = "new" /\ UNCHANGED <<result, cancelled>>
          /\ \A x \in Senders : x # s => sender'[x] = sender[x]
        BY <2>1 DEF Dispatch, Alive, DInv, DType, SenderType
    <3>2. Unanswered(t)' = Unanswered(t)
        BY <3>1 DEF Unanswered
    <3>3. QED
        BY <3>1, <3>2, BookedAlone
  <2>2. CASE Drop(l)
    <3>1. PICK u \in Tenants : u = Tenant[l]
        BY DriverAssumption
    <3>2. PICK r \in ResultType : r = result[u]
        BY DEF DInv, DType
    <3> DEFINE q == [r EXCEPT !.drops = @ + 1]
    <3>3. result' = [result EXCEPT ![u] = q] /\ UNCHANGED <<sender, cancelled>>
        BY <2>2, <3>1, <3>2 DEF Drop
    <3>4. q.sent = r.sent /\ q.buckets = r.buckets /\ \A o \in Outcomes : q[o] = r[o]
        BY DEF ResultType, Outcomes
    <3> HIDE DEF q
    <3>5. result'[u] = q /\ (t # u => result'[t] = result[t])
        BY <3>3 DEF DInv, DType
    <3>6. /\ result'[t].sent = result[t].sent /\ result'[t].buckets = result[t].buckets
          /\ \A o \in Outcomes : result'[t][o] = result[t][o]
        BY <3>2, <3>4, <3>5
    <3>7. Unanswered(t)' = Unanswered(t)
        BY <3>3 DEF Unanswered
    <3>8. QED
        BY <3>3, <3>6, <3>7, BookedAlone
  <2>3. QED
      BY <1>1, <1>2, <2>1, <2>2 DEF LoadStep, Begin, Pace, Stop, Drain
<1>3. ASSUME NEW s \in Senders, SenderStep(s) PROVE Booked(t)'
  <2>1. CASE Release(s)
    <3>1. /\ sender[s].pc = "return" /\ sender'[s].pc = "idle" /\ UNCHANGED <<result, cancelled>>
          /\ \A x \in Senders : x # s => sender'[x] = sender[x]
        BY <2>1 DEF Release, DInv, DType, IdleSender
    <3>2. Unanswered(t)' = Unanswered(t)
        BY <3>1 DEF Unanswered
    <3>3. QED
        BY <3>1, <3>2, BookedAlone
  <2>2. QED
      BY <1>3, <2>1, SendBooked, ReturnBooked DEF SenderStep
<1>4. CASE Cancel
  <2>1. cancelled' = TRUE /\ result' = result /\ Unanswered(t)' = Unanswered(t)
      BY <1>4 DEF Cancel, Unanswered
  <2>2. QED
      BY <2>1 DEF Booked
<1>5. CASE ProgressStep \/ Tick \/ UNCHANGED vars
  <2>1. UNCHANGED <<result, sender, cancelled>>
      BY <1>5 DEF ProgressStep, OnSecond, Report, StopProgress, Measure, Sum, Tick, vars
  <2>2. QED
      BY <1>1, <2>1
<1>6. QED
    BY <1>2, <1>3, <1>4, <1>5 DEF Next, Goroutines

\* The report adds up at every moment (one, record), also for loads that
\* share a tenant.
THEOREM ResultsAddUp == Spec => []ResultsAgree
<1> DEFINE Books == \A t \in Tenants : Booked(t)
<1>1. Init => Books
    BY InitBooked
<1>2. DInv /\ Books /\ [Next]_vars => Books'
    BY BooksStep
<1>3. Books => ResultsAgree
    BY DEF Booked, Total, ResultsAgree
<1>4. QED
    BY <1>1, <1>2, <1>3, DriverInductive, PTL DEF Spec

-----------------------------------------------------------------------------
(* The load offered *)

\* What the loads of a tenant released is accounted for.
Offered(t) ==
    /\ IsFiniteSet(Dispatched(t))
    /\ SumFunctionOnSet(fired, LoadsOf(t))
         = result[t].sent + result[t].drops + Cardinality(Dispatched(t))

LEMMA LoadsOfFinite ==
    ASSUME NEW t
    PROVE  IsFiniteSet(LoadsOf(t)) /\ LoadsOf(t) \subseteq Loads
    BY DriverAssumption, FS_Subset DEF LoadsOf

LEMMA InitOffered ==
    ASSUME Init, NEW t \in Tenants PROVE Offered(t)
<1>1. Dispatched(t) = {}
    BY DEF Init, IdleSender, Dispatched
<1>2. IsFiniteSet({}) /\ Cardinality({}) = 0
    BY FS_EmptySet
<1>3. result[t].sent = 0 /\ result[t].drops = 0
    BY DEF Init, NewResult
<1>4. /\ IsFiniteSet(LoadsOf(t)) /\ {} \in SUBSET LoadsOf(t)
      /\ \A l \in LoadsOf(t) : fired[l] = 0 /\ fired[l] \in Int
    BY LoadsOfFinite DEF Init
<1>5. SumFunctionOnSet(fired, LoadsOf(t)) = SumFunctionOnSet(fired, {})
    BY <1>4, SumZeros
<1>6. SumFunctionOnSet(fired, {}) = 0
    BY SumEmpty
<1>7. QED
    BY <1>1, <1>2, <1>3, <1>5, <1>6 DEF Offered

\* A step that neither releases, sends nor drops a request of t.
LEMMA OfferedAlone ==
    ASSUME NEW t \in Tenants, Offered(t), fired' = fired, Dispatched(t)' = Dispatched(t),
           result'[t].sent = result[t].sent, result'[t].drops = result[t].drops
    PROVE  Offered(t)'
    BY DEF Offered, LoadsOf

\* A release raises the sum of its own tenant by one.
LEMMA ReleaseSum ==
    ASSUME DInv, NEW l \in Loads, Released(l), NEW t \in Tenants
    PROVE  /\ SumFunctionOnSet(fired, LoadsOf(t)) \in Int
           /\ SumFunctionOnSet(fired', LoadsOf(t))
                = SumFunctionOnSet(fired, LoadsOf(t)) + (IF Tenant[l] = t THEN 1 ELSE 0)
<1>1. /\ fired[l] \in Int /\ fired'[l] = fired[l] + 1
      /\ \A m \in Loads : fired[m] \in Int /\ (m # l => fired'[m] = fired[m])
    BY DEF Released, DInv, DType
<1>2. IsFiniteSet(LoadsOf(t)) /\ LoadsOf(t) \subseteq Loads /\ (l \in LoadsOf(t) <=> Tenant[l] = t)
    BY LoadsOfFinite DEF LoadsOf
<1>3. \A m \in LoadsOf(t) : fired[m] \in Int /\ fired'[m] \in Int
    BY <1>1, <1>2
<1>4. SumFunctionOnSet(fired, LoadsOf(t)) \in Int
    BY <1>2, <1>3, SumInt
<1>5. CASE Tenant[l] = t
  <2>1. SumFunctionOnSet(fired', LoadsOf(t))
          = SumFunctionOnSet(fired, LoadsOf(t)) - fired[l] + fired'[l]
      BY <1>1, <1>2, <1>3, <1>5, SumChange
  <2>2. QED
      BY <1>1, <1>4, <1>5, <2>1
<1>6. CASE Tenant[l] # t
  <2>1. \A m \in LoadsOf(t) : fired[m] = fired'[m]
      BY <1>1, <1>2, <1>6
  <2>2. SumFunctionOnSet(fired, LoadsOf(t)) = SumFunctionOnSet(fired', LoadsOf(t))
      BY <1>2, <1>3, <2>1, SumSame
  <2>3. QED
      BY <1>4, <1>6, <2>2
<1>7. QED
    BY <1>5, <1>6

LEMMA DispatchOffered ==
    ASSUME DInv, NEW l \in Loads, NEW s \in Senders, Dispatch(l, s),
           NEW t \in Tenants, Offered(t)
    PROVE  Offered(t)'
<1>1. /\ s[1] = l /\ sender[s].pc = "idle" /\ sender'[s].pc = "new" /\ result' = result
      /\ \A x \in Senders : x # s => sender'[x] = sender[x]
    BY DEF Dispatch, Alive, DInv, DType, SenderType
<1>2. /\ SumFunctionOnSet(fired, LoadsOf(t)) \in Int
      /\ SumFunctionOnSet(fired', LoadsOf(t))
           = SumFunctionOnSet(fired, LoadsOf(t)) + (IF Tenant[l] = t THEN 1 ELSE 0)
    BY ReleaseSum DEF Dispatch
<1>3. result[t].sent \in Nat /\ result[t].drops \in Nat
  <2>1. PICK r \in ResultType : r = result[t]
      BY DEF DInv, DType
  <2>2. QED
      BY <2>1 DEF ResultType
<1>4. CASE Tenant[l] = t
  <2>1. s \notin Dispatched(t) /\ s \in Dispatched(t)'
        /\ \A x : x # s => (x \in Dispatched(t) <=> x \in Dispatched(t)')
      BY <1>1, <1>4 DEF Dispatched
  <2>2. IsFiniteSet(Dispatched(t))
      BY DEF Offered
  <2>3. /\ IsFiniteSet(Dispatched(t)') /\ Cardinality(Dispatched(t)) \in Nat
        /\ Cardinality(Dispatched(t)') = Cardinality(Dispatched(t)) + 1
      BY <2>1, <2>2, CardSwap
  <2>4. SumFunctionOnSet(fired', LoadsOf(t))
          = result'[t].sent + result'[t].drops + Cardinality(Dispatched(t)')
      BY <1>1, <1>2, <1>3, <1>4, <2>3 DEF Offered
  <2>5. QED
      BY <2>3, <2>4 DEF Offered, LoadsOf
<1>5. CASE Tenant[l] # t
  <2>1. Dispatched(t)' = Dispatched(t)
      BY <1>1, <1>5 DEF Dispatched
  <2>2. SumFunctionOnSet(fired', LoadsOf(t)) = SumFunctionOnSet(fired, LoadsOf(t))
      BY <1>2, <1>5
  <2>3. QED
      BY <1>1, <2>1, <2>2 DEF Offered, LoadsOf
<1>6. QED
    BY <1>4, <1>5

LEMMA DropOffered ==
    ASSUME DInv, NEW l \in Loads, Drop(l), NEW t \in Tenants, Offered(t)
    PROVE  Offered(t)'
<1>1. PICK u \in Tenants : u = Tenant[l]
    BY DriverAssumption
<1>2. PICK r \in ResultType : r = result[u]
    BY DEF DInv, DType
<1> DEFINE q == [r EXCEPT !.drops = @ + 1]
<1>3. result' = [result EXCEPT ![u] = q] /\ sender' = sender
    BY <1>1, <1>2 DEF Drop
<1>4. q.sent = r.sent /\ q.drops = r.drops + 1 /\ r.sent \in Nat /\ r.drops \in Nat
    BY DEF ResultType
<1> HIDE DEF q
<1>5. result'[u] = q /\ (t # u => result'[t] = result[t])
    BY <1>3 DEF DInv, DType
<1>6. Dispatched(t)' = Dispatched(t)
    BY <1>3 DEF Dispatched
<1>7. /\ SumFunctionOnSet(fired, LoadsOf(t)) \in Int
      /\ SumFunctionOnSet(fired', LoadsOf(t))
           = SumFunctionOnSet(fired, LoadsOf(t)) + (IF Tenant[l] = t THEN 1 ELSE 0)
    BY ReleaseSum DEF Drop
<1>8. IsFiniteSet(Dispatched(t)) /\ Cardinality(Dispatched(t)) \in Nat
    BY FS_CardinalityType DEF Offered
<1>9. SumFunctionOnSet(fired', LoadsOf(t))
        = result'[t].sent + result'[t].drops + Cardinality(Dispatched(t))
  <2>1. CASE t = u
      BY <1>1, <1>2, <1>4, <1>5, <1>7, <1>8, <2>1 DEF Offered
  <2>2. CASE t # u
      BY <1>1, <1>5, <1>7, <2>2 DEF Offered
  <2>3. QED
      BY <2>1, <2>2
<1>10. QED
    BY <1>6, <1>8, <1>9 DEF Offered, LoadsOf

LEMMA SendOffered ==
    ASSUME DInv, NEW s \in Senders, SendOne(s), NEW t \in Tenants, Offered(t)
    PROVE  Offered(t)'
<1>1. PICK u \in Tenants : u = Tenant[s[1]]
    BY SenderLoad
<1>2. PICK r \in ResultType : r = result[u]
    BY DEF DInv, DType
<1> DEFINE q == [r EXCEPT !.sent = @ + 1]
<1>3. result' = [result EXCEPT ![u] = q] /\ fired' = fired
    BY <1>1, <1>2 DEF SendOne
<1>4. q.sent = r.sent + 1 /\ q.drops = r.drops /\ r.sent \in Nat /\ r.drops \in Nat
    BY DEF ResultType
<1> HIDE DEF q
<1>5. result'[u] = q /\ (t # u => result'[t] = result[t])
    BY <1>3 DEF DInv, DType
<1>6. /\ sender[s].pc = "new" /\ sender'[s].pc = "flight"
      /\ \A x \in Senders : x # s => sender'[x] = sender[x]
    BY DEF SendOne, DInv, DType, SenderType
<1>7. CASE t # u
  <2>1. Dispatched(t)' = Dispatched(t)
      BY <1>1, <1>6, <1>7 DEF Dispatched
  <2>2. QED
      BY <1>3, <1>5, <1>7, <2>1, OfferedAlone
<1>8. CASE t = u
  <2>1. s \in Dispatched(t) /\ s \notin Dispatched(t)'
        /\ \A x : x # s => (x \in Dispatched(t) <=> x \in Dispatched(t)')
      BY <1>1, <1>6, <1>8 DEF Dispatched
  <2>2. IsFiniteSet(Dispatched(t))
      BY DEF Offered
  <2>3. /\ IsFiniteSet(Dispatched(t)')
        /\ Cardinality(Dispatched(t)) \in Nat /\ Cardinality(Dispatched(t)') \in Nat
        /\ Cardinality(Dispatched(t)') = Cardinality(Dispatched(t)) - 1
      BY <2>1, <2>2, CardSwap
  <2>4. SumFunctionOnSet(fired, LoadsOf(t))
          = result'[t].sent + result'[t].drops + Cardinality(Dispatched(t)')
      BY <1>2, <1>4, <1>5, <1>8, <2>3 DEF Offered
  <2>5. QED
      BY <1>3, <2>3, <2>4 DEF Offered, LoadsOf
<1>9. QED
    BY <1>7, <1>8

\* A return touches neither counter, nor what is about to be sent.
LEMMA ReturnOffered ==
    ASSUME DInv, NEW s \in Senders, NEW o \in Answers, NEW ok \in BOOLEAN, Return(s, o, ok),
           NEW t \in Tenants, Offered(t)
    PROVE  Offered(t)'
<1>1. /\ sender[s].pc = "flight" /\ sender'[s].pc = "return" /\ fired' = fired
      /\ \A x \in Senders : x # s => sender'[x] = sender[x]
    BY DEF Return, DInv, DType, SenderType, IdleSender
<1>2. Dispatched(t)' = Dispatched(t)
    BY <1>1 DEF Dispatched
<1>3. result'[t].sent = result[t].sent /\ result'[t].drops = result[t].drops
  <2>1. CASE result' = result
      BY <2>1
  <2>2. CASE \E y \in Tenants, sec \in Nat, cost \in Nat :
               result' = [result EXCEPT ![y] = Record(result[y], sec, o, cost)]
    <3>1. PICK y \in Tenants, sec \in Nat, cost \in Nat :
            result' = [result EXCEPT ![y] = Record(result[y], sec, o, cost)]
        BY <2>2
    <3>2. result[y] \in ResultType /\ o \in Outcomes
        BY DriverAssumption DEF DInv, DType, Outcomes
    <3>3. PICK q : /\ q = Record(result[y], sec, o, cost)
                   /\ q.sent = result[y].sent /\ q.drops = result[y].drops
        BY <3>2, RecordFacts
    <3>4. result'[t] = IF t = y THEN q ELSE result[t]
        BY <3>1, <3>3 DEF DInv, DType
    <3>5. QED
        BY <3>3, <3>4
  <2>3. QED
      BY <2>1, <2>2, ReturnRecords
<1>4. QED
    BY <1>1, <1>2, <1>3, OfferedAlone

\* The load offered stays accounted for in every step.
LEMMA OfferedStep ==
    ASSUME DInv, [Next]_vars, NEW t \in Tenants, Offered(t) PROVE Offered(t)'
<1>1. ASSUME UNCHANGED <<result, sender, fired>> PROVE Offered(t)'
    BY <1>1, OfferedAlone DEF Dispatched
<1>2. ASSUME NEW l \in Loads, LoadStep(l) PROVE Offered(t)'
    BY <1>1, <1>2, DispatchOffered, DropOffered DEF LoadStep, Begin, Pace, Stop, Drain
<1>3. ASSUME NEW s \in Senders, SenderStep(s) PROVE Offered(t)'
  <2>1. CASE Release(s)
    <3>1. /\ sender[s].pc = "return" /\ sender'[s].pc = "idle" /\ UNCHANGED <<result, fired>>
          /\ \A x \in Senders : x # s => sender'[x] = sender[x]
        BY <2>1 DEF Release, DInv, DType, IdleSender
    <3>2. Dispatched(t)' = Dispatched(t)
        BY <3>1 DEF Dispatched
    <3>3. QED
        BY <3>1, <3>2, OfferedAlone
  <2>2. QED
      BY <1>3, <2>1, SendOffered, ReturnOffered DEF SenderStep
<1>4. CASE Cancel \/ ProgressStep \/ Tick \/ UNCHANGED vars
  <2>1. UNCHANGED <<result, sender, fired>>
      BY <1>4 DEF Cancel, ProgressStep, OnSecond, Report, StopProgress, Measure, Sum, Tick, vars
  <2>2. QED
      BY <1>1, <2>1
<1>5. QED
    BY <1>2, <1>3, <1>4 DEF Next, Goroutines

\* Every request the pacing loops release is in the report of its tenant
\* (runTenant, one): sent, about to be sent, or dropped.
THEOREM LoadIsAccounted == Spec => []LoadAccounted
<1> DEFINE Books == \A t \in Tenants : Offered(t)
<1>1. Init => Books
    BY InitOffered
<1>2. DInv /\ Books /\ [Next]_vars => Books'
    BY OfferedStep
<1>3. Books => LoadAccounted
    BY DEF Offered, LoadAccounted
<1>4. QED
    BY <1>1, <1>2, <1>3, DriverInductive, PTL DEF Spec

-----------------------------------------------------------------------------
(* The snapshot of live results *)

\* What every tenant has recorded in the second i.
Column(i, o) == [t \in Tenants |-> Recorded(result[t].buckets, i, o)]

\* While a metric is summed, a second shows at most what the tenants that
\* were added have recorded by now, and no more seconds than were measured.
Snapshot ==
    progress.pc = "sum" =>
        /\ Len(progress.out) = progress.maxLen
        /\ \A i \in 1..Len(progress.out) :
             progress.out[i] <= SumFunctionOnSet(Column(i, Metrics[progress.metric]),
                                                 Tenants \ progress.todo)

LEMMA RecordedNat ==
    ASSUME NEW b \in Seq(BucketType), NEW i \in Nat \ {0}, NEW o \in Outcomes
    PROVE  Recorded(b, i, o) \in Nat
<1>1. CASE i <= Len(b)
  <2>1. PICK e \in BucketType : e = b[i]
      BY <1>1
  <2>2. e[o] \in Nat
      BY DEF BucketType, Outcomes
  <2>3. QED
      BY <1>1, <2>1, <2>2 DEF Recorded
<1>2. CASE ~(i <= Len(b))
    BY <1>2 DEF Recorded
<1>3. QED
    BY <1>1, <1>2

LEMMA ColumnNat ==
    ASSUME DInv, NEW i \in Nat \ {0}, NEW o \in Outcomes, NEW t \in Tenants
    PROVE  Column(i, o)[t] \in Nat
<1>1. PICK r \in ResultType : r = result[t]
    BY DEF DInv, DType
<1>2. r.buckets \in Seq(BucketType)
    BY DEF ResultType
<1>3. QED
    BY <1>1, <1>2, RecordedNat DEF Column

\* No step takes back what is recorded.
LEMMA RecordsGrow ==
    ASSUME DInv, [Next]_vars, NEW i \in Nat \ {0}, NEW o \in Outcomes, NEW t \in Tenants
    PROVE  Column(i, o)[t] <= Column(i, o)'[t]
<1>1. PICK r \in ResultType : r = result[t]
    BY DEF DInv, DType
<1>2. r.buckets \in Seq(BucketType) /\ Recorded(r.buckets, i, o) \in Nat
    BY RecordedNat DEF ResultType
<1>3. SUFFICES Recorded(r.buckets, i, o) <= Recorded(result'[t].buckets, i, o)
    BY <1>1 DEF Column
<1>4. ASSUME result'[t].buckets = r.buckets
      PROVE  Recorded(r.buckets, i, o) <= Recorded(result'[t].buckets, i, o)
    BY <1>2, <1>4
<1>5. ASSUME NEW u \in Tenants, NEW q, result' = [result EXCEPT ![u] = q],
             q.buckets = result[u].buckets
      PROVE  result'[t].buckets = r.buckets
  <2>1. result'[t] = IF t = u THEN q ELSE result[t]
      BY <1>5 DEF DInv, DType
  <2>2. QED
      BY <1>1, <1>5, <2>1
<1>6. ASSUME NEW l \in Loads, Drop(l) PROVE result'[t].buckets = r.buckets
  <2>1. PICK u \in Tenants : u = Tenant[l]
      BY DriverAssumption
  <2>2. PICK y \in ResultType : y = result[u]
      BY DEF DInv, DType
  <2> DEFINE q == [y EXCEPT !.drops = @ + 1]
  <2>3. result' = [result EXCEPT ![u] = q]
      BY <1>6, <2>1, <2>2 DEF Drop
  <2>4. q.buckets = y.buckets
      BY DEF ResultType
  <2> HIDE DEF q
  <2>5. QED
      BY <1>5, <2>2, <2>3, <2>4
<1>7. ASSUME NEW s \in Senders, SendOne(s) PROVE result'[t].buckets = r.buckets
  <2>1. PICK u \in Tenants : u = Tenant[s[1]]
      BY SenderLoad
  <2>2. PICK y \in ResultType : y = result[u]
      BY DEF DInv, DType
  <2> DEFINE q == [y EXCEPT !.sent = @ + 1]
  <2>3. result' = [result EXCEPT ![u] = q]
      BY <1>7, <2>1, <2>2 DEF SendOne
  <2>4. q.buckets = y.buckets
      BY DEF ResultType
  <2> HIDE DEF q
  <2>5. QED
      BY <1>5, <2>2, <2>3, <2>4
<1>8. ASSUME NEW s \in Senders, NEW a \in Answers, NEW ok \in BOOLEAN, Return(s, a, ok)
      PROVE  Recorded(r.buckets, i, o) <= Recorded(result'[t].buckets, i, o)
  <2>1. CASE result' = result
      BY <1>1, <1>4, <2>1
  <2>2. CASE \E y \in Tenants, sec \in Nat, cost \in Nat :
               result' = [result EXCEPT ![y] = Record(result[y], sec, a, cost)]
    <3>1. PICK y \in Tenants, sec \in Nat, cost \in Nat :
            result' = [result EXCEPT ![y] = Record(result[y], sec, a, cost)]
        BY <2>2
    <3>2. CASE y # t
      <4>1. result'[t] = result[t]
          BY <3>1, <3>2 DEF DInv, DType
      <4>2. QED
          BY <1>1, <1>4, <4>1
    <3>3. CASE y = t
      <4>1. a \in Outcomes
          BY DriverAssumption DEF Outcomes
      <4>2. PICK q \in ResultType :
              /\ q = Record(r, sec, a, cost) /\ Len(q.buckets) >= Len(r.buckets)
              /\ \A j \in 1..Len(q.buckets), x \in Outcomes :
                   q.buckets[j][x] = Recorded(r.buckets, j, x)
                                       + (IF j = sec + 1 /\ x = a THEN 1 ELSE 0)
          BY <4>1, RecordFacts
      <4>3. result'[t] = q
          BY <1>1, <3>1, <3>3, <4>2 DEF DInv, DType
      <4>4. q.buckets \in Seq(BucketType)
          BY DEF ResultType
      <4>5. CASE i <= Len(q.buckets)
        <5>1. i \in 1..Len(q.buckets)
            BY <4>4, <4>5
        <5>2. q.buckets[i][o] = Recorded(r.buckets, i, o) + (IF i = sec + 1 /\ o = a THEN 1 ELSE 0)
            BY <4>2, <5>1
        <5>3. Recorded(q.buckets, i, o) = q.buckets[i][o]
            BY <4>5 DEF Recorded
        <5>4. Recorded(r.buckets, i, o) <= Recorded(q.buckets, i, o)
            BY <1>2, <5>2, <5>3
        <5>5. QED
            BY <4>3, <5>4
      <4>6. CASE ~(i <= Len(q.buckets))
        <5>1. Recorded(r.buckets, i, o) = 0
            BY <1>2, <4>2, <4>4, <4>6 DEF Recorded
        <5>2. Recorded(q.buckets, i, o) \in Nat
            BY <4>4, RecordedNat
        <5>3. QED
            BY <4>3, <5>1, <5>2
      <4>7. QED
          BY <4>5, <4>6
    <3>4. QED
        BY <3>2, <3>3
  <2>3. QED
      BY <1>8, <2>1, <2>2, ReturnRecords
<1>9. ASSUME result' = result
      PROVE  Recorded(r.buckets, i, o) <= Recorded(result'[t].buckets, i, o)
    BY <1>1, <1>4, <1>9
<1>10. QED
    BY <1>4, <1>6, <1>7, <1>8, <1>9
       DEF Next, Goroutines, LoadStep, SenderStep, ProgressStep, Begin, Pace, Stop, Drain,
           Dispatch, Release, OnSecond, Report, StopProgress, Measure, Sum, Cancel, Tick, vars

\* A step that leaves the sum alone: what was shown is still recorded.
LEMMA SnapshotAlone ==
    ASSUME DInv, DInv', [Next]_vars, Snapshot, progress'.pc = progress.pc,
           progress'.out = progress.out, progress'.maxLen = progress.maxLen,
           progress'.metric = progress.metric, progress'.todo = progress.todo
    PROVE  Snapshot'
<1> SUFFICES ASSUME progress.pc = "sum" PROVE
        /\ Len(progress.out) = progress.maxLen
        /\ \A i \in 1..Len(progress.out) :
             progress.out[i] <= SumFunctionOnSet(Column(i, Metrics[progress.metric])',
                                                 Tenants \ progress.todo)
    BY DEF Snapshot
<1>1. Len(progress.out) = progress.maxLen
    BY DEF Snapshot
<1>2. PICK o \in Outcomes : o = Metrics[progress.metric]
    BY MetricIsOutcome DEF DInv, DType, ProgressType
<1>3. ASSUME NEW i \in 1..Len(progress.out)
      PROVE  progress.out[i] <= SumFunctionOnSet(Column(i, o)', Tenants \ progress.todo)
  <2> DEFINE S == Tenants \ progress.todo
  <2>1. progress.out \in Seq(Nat) /\ i \in Nat \ {0}
      BY DEF DInv, DType, ProgressType
  <2>2. progress.out[i] <= SumFunctionOnSet(Column(i, o), S) /\ progress.out[i] \in Nat
    <3>1. progress.out[i] \in Nat
        BY <2>1
    <3>2. progress.out[i] <= SumFunctionOnSet(Column(i, o), S)
        BY <1>2 DEF Snapshot
    <3>3. QED
        BY <3>1, <3>2
  <2>3. IsFiniteSet(S) /\ S \subseteq Tenants
      BY DriverAssumption, FS_Difference
  <2> HIDE DEF S
  <2>4. \A t \in Tenants : Column(i, o)[t] \in Nat
      BY <2>1, ColumnNat
  <2>5. ASSUME NEW t \in Tenants PROVE Column(i, o)'[t] \in Nat
    <3>1. PICK r \in ResultType : r = result'[t]
        BY DEF DInv, DType
    <3>2. r.buckets \in Seq(BucketType)
        BY DEF ResultType
    <3>3. QED
        BY <2>1, <3>1, <3>2, RecordedNat DEF Column
  <2>6. \A t \in Tenants : Column(i, o)[t] <= Column(i, o)'[t]
      BY <2>1, RecordsGrow
  <2>7. PICK f, g : f = Column(i, o) /\ g = Column(i, o)'
      OBVIOUS
  <2>8. \A t \in S : f[t] \in Int /\ g[t] \in Int /\ f[t] <= g[t]
      BY <2>3, <2>4, <2>5, <2>6, <2>7
  <2>9. SumFunctionOnSet(f, S) <= SumFunctionOnSet(g, S)
      BY <2>3, <2>8, SumMonotone
  <2>10. \A t \in S : f[t] \in Int
      BY <2>8
  <2>11. \A t \in S : g[t] \in Int
      BY <2>8
  <2>12. SumFunctionOnSet(f, S) \in Int /\ SumFunctionOnSet(g, S) \in Int
      BY <2>3, <2>10, <2>11, SumInt
  <2>13. QED
      BY <2>2, <2>7, <2>9, <2>12 DEF S
<1>4. QED
    BY <1>1, <1>2, <1>3

\* The end of the first pass: nothing is shown yet.
LEMMA MeasureSnapshot ==
    ASSUME DInv, Snapshot, NEW t \in Tenants, Measure(t) PROVE Snapshot'
<1>1. PICK p \in ProgressType : p = progress /\ p.pc = "measure"
    BY DEF DInv, DType, Measure
<1>2. CASE p.todo # {t}
  <2>1. progress'.pc = "measure"
      BY <1>1, <1>2 DEF Measure, ProgressType
  <2>2. QED
      BY <2>1 DEF Snapshot
<1>3. CASE p.todo = {t}
  <2>1. PICK r \in ResultType : r = result[t]
      BY DEF DInv, DType
  <2> DEFINE len == Len(r.buckets)
             most == IF len > p.maxLen THEN len ELSE p.maxLen
             zeros == [i \in 1..most |-> 0]
             q == [p EXCEPT !.maxLen = most, !.todo = Tenants, !.out = zeros, !.pc = "sum"]
  <2>2. progress' = q /\ most \in Nat
    <3>1. progress' = q
        BY <1>1, <1>3, <2>1 DEF Measure
    <3>2. Len(r.buckets) \in Nat /\ p.maxLen \in Nat
        BY DEF ResultType, ProgressType
    <3>3. QED
        BY <3>1, <3>2
  <2> HIDE DEF most
  <2>3. zeros \in Seq(Nat) /\ Len(zeros) = most /\ \A i \in 1..most : zeros[i] = 0
    <3>1. zeros \in [1..most -> Nat]
        OBVIOUS
    <3>2. QED
        BY <2>2, <3>1
  <2> HIDE DEF zeros
  <2>4. q.maxLen = most /\ q.todo = Tenants /\ q.out = zeros
      BY DEF ProgressType
  <2> HIDE DEF q
  <2>5. \A f : SumFunctionOnSet(f, Tenants \ q.todo) = 0
    <3>1. Tenants \ q.todo = {}
        BY <2>4
    <3>2. QED
        BY <3>1, SumEmpty
  <2>6. ASSUME NEW i \in 1..Len(q.out)
        PROVE  q.out[i] <= SumFunctionOnSet(Column(i, Metrics[q.metric])', Tenants \ q.todo)
    <3>1. q.out[i] = 0
        BY <2>3, <2>4
    <3>2. SumFunctionOnSet(Column(i, Metrics[q.metric])', Tenants \ q.todo) = 0
        BY <2>5
    <3>3. QED
        BY <3>1, <3>2
  <2>7. Len(q.out) = q.maxLen
      BY <2>3, <2>4
  <2>8. QED
      BY <2>2, <2>6, <2>7 DEF Snapshot
<1>4. QED
    BY <1>2, <1>3

\* One tenant more: its records are added to what is shown.
LEMMA SumSnapshot ==
    ASSUME DInv, Snapshot, NEW t \in Tenants, Sum(t) PROVE Snapshot'
<1>1. PICK p \in ProgressType : p = progress /\ p.pc = "sum" /\ t \in p.todo
    BY DEF DInv, DType, Sum
<1>2. PICK r \in ResultType : r = result[t]
    BY DEF DInv, DType
<1>3. /\ r.buckets \in Seq(BucketType) /\ p.out \in Seq(Nat) /\ p.maxLen \in Nat
      /\ p.metric \in 1..3 /\ p.todo \subseteq Tenants
    BY DEF ResultType, ProgressType
<1>4. PICK o \in Outcomes : o = Metrics[p.metric]
    BY <1>3, MetricIsOutcome
<1>5. PICK out \in Seq(Nat) :
        /\ out = AddSeries(p.out, r.buckets, o) /\ Len(out) = Len(p.out)
        /\ \A i \in 1..Len(p.out) : out[i] = p.out[i] + Recorded(r.buckets, i, o)
    BY <1>3, AddSeriesFacts
<1> DEFINE S == Tenants \ p.todo
           q == [p EXCEPT !.todo = p.todo \ {t}, !.out = out]
<1>6. progress' = q /\ result' = result
    BY <1>1, <1>2, <1>4, <1>5 DEF Sum
<1>7. q.out = out /\ q.todo = p.todo \ {t} /\ q.maxLen = p.maxLen /\ q.metric = p.metric
    BY DEF ProgressType
<1> HIDE DEF q
<1>8. t \notin S /\ Tenants \ q.todo = S \cup {t} /\ S \subseteq Tenants /\ IsFiniteSet(S)
    BY <1>1, <1>7, DriverAssumption, FS_Difference
<1>9. Len(p.out) = p.maxLen
    BY <1>1 DEF Snapshot
<1>10. ASSUME NEW i \in 1..Len(p.out)
       PROVE  out[i] <= SumFunctionOnSet(Column(i, o), Tenants \ q.todo)
  <2>1. i \in Nat \ {0} /\ p.out[i] \in Nat
      BY <1>3
  <2>2. p.out[i] <= SumFunctionOnSet(Column(i, o), S)
      BY <1>1, <1>4 DEF Snapshot
  <2>3. PICK f : f = Column(i, o)
      OBVIOUS
  <2>4. \A u \in Tenants : f[u] \in Nat
      BY <2>1, <2>3, ColumnNat
  <2>5. f[t] = Recorded(r.buckets, i, o)
      BY <1>2, <2>3 DEF Column
  <2> HIDE DEF S
  <2>6. (\A u \in S : f[u] \in Int) /\ f[t] \in Int
      BY <1>8, <2>4
  <2>7. SumFunctionOnSet(f, S \cup {t}) = SumFunctionOnSet(f, S) + f[t]
      BY <1>8, <2>6, SumAdd
  <2>8. SumFunctionOnSet(f, S) \in Int
      BY <1>8, <2>6, SumInt
  <2>9. out[i] = p.out[i] + f[t]
      BY <1>5, <2>5
  <2>10. out[i] <= SumFunctionOnSet(f, S \cup {t})
      BY <2>1, <2>2, <2>3, <2>6, <2>7, <2>8, <2>9
  <2>11. QED
      BY <1>8, <2>3, <2>10
<1>11. \A i \in 1..Len(q.out) :
         q.out[i] <= SumFunctionOnSet(Column(i, Metrics[q.metric])', Tenants \ q.todo)
    BY <1>4, <1>5, <1>6, <1>7, <1>10 DEF Column
<1>12. Len(q.out) = q.maxLen
    BY <1>5, <1>7, <1>9
<1>13. QED
    BY <1>6, <1>11, <1>12 DEF Snapshot

LEMMA SnapshotStep ==
    ASSUME DInv, DInv', [Next]_vars, Snapshot PROVE Snapshot'
<1>1. PICK p \in ProgressType : p = progress
    BY DEF DInv, DType
<1>2. ASSUME progress' = progress PROVE Snapshot'
    BY <1>2, SnapshotAlone
<1>3. ASSUME progress'.pc # "sum" PROVE Snapshot'
    BY <1>3 DEF Snapshot
<1>4. CASE ProgressStep
  <2>1. CASE OnSecond
    <3> DEFINE pc == IF (p.sec + 1) % Every = 0 THEN "measure" ELSE "wait"
    <3>1. CASE clock >= Duration
      <4>1. progress' = [p EXCEPT !.pc = "done"]
          BY <1>1, <2>1, <3>1 DEF OnSecond
      <4>2. QED
          BY <1>3, <4>1 DEF ProgressType
    <3>2. CASE ~(clock >= Duration)
      <4>1. progress' = [p EXCEPT !.tick = FALSE, !.sec = @ + 1, !.metric = 1,
                                  !.todo = Tenants, !.pc = pc]
          BY <1>1, <2>1, <3>2 DEF OnSecond
      <4>2. progress'.pc = pc
          BY <4>1 DEF ProgressType
      <4>3. QED
          BY <1>3, <4>2
    <3>3. QED
        BY <3>1, <3>2
  <2>2. CASE Report
    <3>1. progress'.pc # "sum"
      <4>1. CASE p.metric < Len(Metrics)
          BY <1>1, <2>2, <4>1 DEF Report, ProgressType
      <4>2. CASE ~(p.metric < Len(Metrics))
          BY <1>1, <2>2, <4>2 DEF Report, ProgressType
      <4>3. QED
          BY <4>1, <4>2
    <3>2. QED
        BY <1>3, <3>1
  <2>3. CASE StopProgress
    <3>1. progress' = [p EXCEPT !.pc = "done"]
        BY <1>1, <2>3 DEF StopProgress
    <3>2. QED
        BY <1>3, <3>1 DEF ProgressType
  <2>4. QED
      BY <1>4, <2>1, <2>2, <2>3, MeasureSnapshot, SumSnapshot DEF ProgressStep
<1>5. CASE Tick
  <2>1. /\ progress'.pc = progress.pc /\ progress'.out = progress.out
        /\ progress'.maxLen = progress.maxLen /\ progress'.metric = progress.metric
        /\ progress'.todo = progress.todo
    <3>1. progress' = [p EXCEPT !.tick = TRUE] \/ progress' = p
        BY <1>1, <1>5 DEF Tick
    <3>2. QED
        BY <1>1, <3>1 DEF ProgressType
  <2>2. QED
      BY <2>1, SnapshotAlone
<1>6. QED
    BY <1>2, <1>4, <1>5
       DEF Next, Goroutines, LoadStep, SenderStep, Begin, Pace, Stop, Drain, Drop,
           Dispatch, SendOne, Return, Release, Cancel, vars

\* The snapshot of live results never shows more than is recorded and never
\* grows beyond the slice that was measured (sumSeries), whatever is recorded
\* between its passes.
THEOREM SnapshotIsSound == Spec => []SnapshotSound
<1>1. Init => Snapshot
    BY DEF Init, Snapshot
<1>2. DInv /\ DInv' /\ Snapshot /\ [Next]_vars => Snapshot'
    BY SnapshotStep
<1>3. DInv /\ Snapshot => SnapshotSound
  <2> SUFFICES ASSUME DInv, Snapshot, progress.pc = "sum" PROVE SnapshotSound
      BY DEF SnapshotSound
  <2>1. progress.out \in Seq(Nat) /\ progress.metric \in 1..3 /\ progress.todo \subseteq Tenants
      BY DEF DInv, DType, ProgressType
  <2>2. PICK o \in Outcomes : o = Metrics[progress.metric]
      BY <2>1, MetricIsOutcome
  <2>3. ASSUME NEW i \in DOMAIN progress.out
        PROVE  progress.out[i] <= SumFunction(
                 [t \in Tenants |-> IF i <= Len(result[t].buckets)
                                    THEN result[t].buckets[i][o] ELSE 0])
    <3>1. i \in 1..Len(progress.out) /\ i \in Nat \ {0} /\ progress.out[i] \in Nat
        BY <2>1
    <3>2. PICK S \in SUBSET Tenants : S = Tenants \ progress.todo
        OBVIOUS
    <3>3. PICK f : f = Column(i, o)
        OBVIOUS
    <3>4. progress.out[i] <= SumFunctionOnSet(f, S)
        BY <2>2, <3>1, <3>2, <3>3 DEF Snapshot
    <3>5. \A t \in Tenants : f[t] \in Nat
        BY <3>1, <3>3, ColumnNat
    <3>6. IsFiniteSet(Tenants) /\ IsFiniteSet(S)
        BY DriverAssumption, FS_Subset
    <3>7. SumFunctionOnSet(f, S) <= SumFunctionOnSet(f, Tenants)
        BY <3>5, <3>6, SumPart
    <3>8. SumFunctionOnSet(f, S) \in Int /\ SumFunctionOnSet(f, Tenants) \in Int
      <4>1. (\A t \in S : f[t] \in Int) /\ \A t \in Tenants : f[t] \in Int
          BY <3>5
      <4>2. QED
          BY <3>6, <4>1, SumInt
    <3>9. f = [t \in Tenants |-> IF i <= Len(result[t].buckets)
                                 THEN result[t].buckets[i][o] ELSE 0]
        BY <3>3 DEF Column, Recorded
    <3>10. DOMAIN f = Tenants
        BY <3>9
    <3>11. SumFunction(f) = SumFunctionOnSet(f, Tenants)
        BY <3>10 DEF SumFunction
    <3>12. progress.out[i] <= SumFunction(f)
        BY <3>1, <3>4, <3>7, <3>8, <3>11
    <3>13. QED
        BY <3>9, <3>12
  <2>4. Len(progress.out) = progress.maxLen
      BY DEF Snapshot
  <2>5. QED
      BY <2>2, <2>3, <2>4 DEF SnapshotSound
<1>4. QED
    BY <1>1, <1>2, <1>3, DriverInductive, PTL DEF Spec
=============================================================================
