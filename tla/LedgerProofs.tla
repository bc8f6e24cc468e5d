---------------------------- MODULE LedgerProofs -----------------------------
(***************************************************************************)
(* Proofs about the coordinator's books: its three counters, what handlers *)
(* in flight have debited and not counted, and what handlers that read the *)
(* clock early may still debit.  Sums and cardinalities over the handlers  *)
(* change by one handler at a time; the two lemmas SumSwap and CardSwap    *)
(* carry every step.                                                       *)
(***************************************************************************)
EXTENDS Scrape, CoordinatorProofs, SumProofs

-----------------------------------------------------------------------------
(* The inductive invariant *)

\* A handler whose call is counted in leaseRequests and in neither of the two
\* other counters yet.
Open(t) == {h \in Handlers : /\ handler[h].tenant = t
                             /\ handler[h].pc \in {"take", "zero", "grant"}}

\* The counters of t agree, as CountersAgree says: this many calls of t got a
\* grant that is counted.
Grants(t) == leaseRequests[t] - zeroGrants[t] - Cardinality(Open(t))

Agree(t) == /\ Grants(t) <= tokensGranted[t]
            /\ tokensGranted[t] <= LeaseSize * Grants(t)

\* The ledger of t balances, and its bucket is one of this life of the process.
Balanced(t) ==
    /\ started <= bucket[t].last
    /\ (tokensGranted[t] + Pending(t)) * Unit + bucket[t].tokens
         <= Cap(t) + Rate[t] * (bucket[t].last - started)

\* A handler that was late when the window opened and has not debited yet
\* still has its lease of the bound to spend.
StaleInv(t) ==
    IF winStart = 0 THEN winStale[t] = 0
    ELSE winStale[t] + LeaseSize * Cardinality(Late(t, winStart)) <= LeaseSize * winLate[t]

LInv == /\ ~up => \A h \in Handlers : handler[h].pc = "idle"
        /\ \A h \in Handlers : handler[h].pc = "grant" => handler[h].granted >= 1
        /\ up => \A t \in Tenants : Balanced(t) /\ Agree(t)
        /\ \A t \in Tenants : StaleInv(t)

-----------------------------------------------------------------------------
(* One handler's step *)

\* Only the locals of h change.
Alone(h) == \A k \in Handlers : k # h => handler'[k] = handler[k]

\* How the size of Open(t) follows the step of one handler.
LEMMA OpenMoves ==
    ASSUME NEW h \in Handlers, NEW t, Alone(h)
    PROVE  /\ Cardinality(Open(t)) \in Nat /\ Cardinality(Open(t)') \in Nat
           /\ Cardinality(Open(t)') = Cardinality(Open(t))
                - (IF h \in Open(t) THEN 1 ELSE 0) + (IF h \in Open(t)' THEN 1 ELSE 0)
<1>1. \A k : k # h => (k \in Open(t) <=> k \in Open(t)')
    BY DEF Open, Alone
<1>2. IsFiniteSet(Open(t))
    BY CoordinatorAssumption, FS_Subset DEF Open
<1>3. QED
    BY <1>1, <1>2, CardSwap

\* How the number of late handlers follows it.
LEMMA LateMoves ==
    ASSUME NEW h \in Handlers, NEW t, Alone(h), winStart' = winStart
    PROVE  LET L == Late(t, winStart)
           IN  /\ Cardinality(L) \in Nat /\ Cardinality(L') \in Nat
               /\ Cardinality(L') = Cardinality(L)
                    - (IF h \in L THEN 1 ELSE 0) + (IF h \in L' THEN 1 ELSE 0)
<1> DEFINE L == Late(t, winStart)
<1>1. \A k : k # h => (k \in L <=> k \in L')
    BY DEF Late, Alone
<1>2. IsFiniteSet(L)
    BY CoordinatorAssumption, FS_Subset DEF Late
<1> HIDE DEF L
<1>3. QED
    BY <1>1, <1>2, CardSwap DEF L

\* How the tokens debited and not counted follow it.
LEMMA PendingMoves ==
    ASSUME TypeOK, TypeOK', NEW h \in Handlers, NEW t, Alone(h)
    PROVE  /\ Pending(t) \in Nat /\ Pending(t)' \in Nat
           /\ Pending(t)' = Pending(t)
                - (IF h \in Uncounted(t) THEN handler[h].granted ELSE 0)
                + (IF h \in Uncounted(t)' THEN handler'[h].granted ELSE 0)
<1> DEFINE f == [k \in Handlers |-> handler[k].granted]
           g == [k \in Handlers |-> handler'[k].granted]
           S == Uncounted(t)
           T == Uncounted(t)'
<1>1. /\ \A k : k # h => (k \in S <=> k \in T)
      /\ S \subseteq Handlers /\ T \subseteq Handlers
      /\ IsFiniteSet(S) /\ IsFiniteSet(T)
  <2>1. \A k : k # h => (k \in S <=> k \in T)
      BY DEF Uncounted, Alone
  <2>2. S \subseteq Handlers /\ T \subseteq Handlers
      BY DEF Uncounted
  <2>3. QED
      BY <2>1, <2>2, CoordinatorAssumption, FS_Subset
<1>2. \A k \in Handlers : /\ handler[k].granted \in Nat /\ handler'[k].granted \in Nat
                          /\ k # h => handler'[k].granted = handler[k].granted
    BY LoadFacts DEF TypeOK, HandlerType, Alone
<1>3. /\ \A k \in S : f[k] \in Nat /\ f[k] \in Int /\ (k # h => f[k] = g[k])
      /\ \A k \in T : g[k] \in Nat /\ g[k] \in Int
      /\ f[h] = handler[h].granted /\ g[h] = handler'[h].granted
    BY <1>1, <1>2
<1>4. Pending(t) = SumFunctionOnSet(f, S) /\ Pending(t)' = SumFunctionOnSet(g, T)
    BY DEF Pending
<1> HIDE DEF f, g, S, T
<1>5. /\ SumFunctionOnSet(f, S) \in Nat /\ SumFunctionOnSet(g, T) \in Nat
    BY <1>1, <1>3, SumNat
<1>6. SumFunctionOnSet(g, T) = SumFunctionOnSet(f, S) - (IF h \in S THEN f[h] ELSE 0)
                                                     + (IF h \in T THEN g[h] ELSE 0)
  <2>1. /\ \A k \in S : f[k] \in Int
        /\ \A k \in T : g[k] \in Int
        /\ \A k \in S : k # h => f[k] = g[k]
      BY <1>3
  <2>2. IsFiniteSet(S) /\ \A k : k # h => (k \in S <=> k \in T)
      BY <1>1
  <2>3. QED
      BY <2>1, <2>2, SumSwap
<1>7. QED
    BY <1>3, <1>4, <1>5, <1>6 DEF S, T

\* What each step does to the locals of its handler.
LEMMA StepFacts ==
    ASSUME TypeOK, TypeOK', NEW h \in Handlers
    PROVE  /\ \A t \in Tenants : HandleLease(h, t) =>
                /\ Alone(h) /\ handler[h].pc = "idle"
                /\ handler'[h].pc = "take" /\ handler'[h].tenant = t /\ handler'[h].now = clock
           /\ \A body \in Bodies : RefuseLease(h, body) =>
                Alone(h) /\ handler[h].pc = "idle" /\ handler'[h].pc = "reply"
           /\ TakeUpTo(h) =>
                /\ Alone(h) /\ handler[h].pc = "take" /\ handler[h].tenant \in Tenants
                /\ handler'[h].tenant = handler[h].tenant /\ handler'[h].now = handler[h].now
                /\ handler'[h].pc = IF handler'[h].granted = 0 THEN "zero" ELSE "grant"
           /\ CountZero(h) =>
                /\ Alone(h) /\ handler[h].pc = "zero" /\ handler'[h].pc = "hint"
                /\ handler[h].tenant \in Tenants
           /\ ZeroGrant(h) =>
                /\ Alone(h) /\ handler[h].pc = "hint" /\ handler'[h].pc = "reply"
                /\ handler[h].tenant \in Tenants
           /\ CountGrant(h) =>
                /\ Alone(h) /\ handler[h].pc = "grant" /\ handler'[h].pc = "reply"
                /\ handler[h].tenant \in Tenants
           /\ Reply(h) =>
                Alone(h) /\ handler[h].pc = "reply" /\ handler'[h].pc = "idle"
<1>1. handler \in [Handlers -> HandlerType] /\ handler[h] \in HandlerType
    BY DEF TypeOK
<1>2. ASSUME NEW t \in Tenants, HandleLease(h, t)
      PROVE  /\ Alone(h) /\ handler[h].pc = "idle"
             /\ handler'[h].pc = "take" /\ handler'[h].tenant = t /\ handler'[h].now = clock
    BY <1>1, <1>2 DEF HandleLease, HandlerType, Alone
<1>3. ASSUME NEW body \in Bodies, RefuseLease(h, body)
      PROVE  Alone(h) /\ handler[h].pc = "idle" /\ handler'[h].pc = "reply"
  <2>1. PICK code : handler' = [handler EXCEPT ![h] =
             [@ EXCEPT !.pc = "reply", !.tenant = body, !.status = code]]
      BY <1>3 DEF RefuseLease
  <2>2. QED
      BY <1>1, <1>3, <2>1 DEF RefuseLease, HandlerType, Alone
<1>4. ASSUME TakeUpTo(h)
      PROVE  /\ Alone(h) /\ handler[h].pc = "take" /\ handler[h].tenant \in Tenants
             /\ handler'[h].tenant = handler[h].tenant /\ handler'[h].now = handler[h].now
             /\ handler'[h].pc = IF handler'[h].granted = 0 THEN "zero" ELSE "grant"
  <2>1. PICK g, p : /\ p = IF g = 0 THEN "zero" ELSE "grant"
                    /\ handler' = [handler EXCEPT ![h] = [@ EXCEPT !.granted = g, !.pc = p]]
      BY <1>4 DEF TakeUpTo
  <2>2. handler[h].pc = "take" /\ handler[h].tenant \in Tenants
      BY <1>4 DEF TakeUpTo, TypeOK
  <2>3. /\ handler'[h].granted = g /\ handler'[h].pc = p
        /\ handler'[h].tenant = handler[h].tenant /\ handler'[h].now = handler[h].now
        /\ Alone(h)
      BY <1>1, <2>1 DEF HandlerType, Alone
  <2>4. QED
      BY <2>1, <2>2, <2>3
<1>5. ASSUME CountZero(h)
      PROVE  /\ Alone(h) /\ handler[h].pc = "zero" /\ handler'[h].pc = "hint"
             /\ handler[h].tenant \in Tenants
    BY <1>1, <1>5 DEF CountZero, TypeOK, HandlerType, Alone
<1>6. ASSUME ZeroGrant(h)
      PROVE  /\ Alone(h) /\ handler[h].pc = "hint" /\ handler'[h].pc = "reply"
             /\ handler[h].tenant \in Tenants
  <2>1. PICK ms : handler' = [handler EXCEPT ![h] = [@ EXCEPT !.retryAfter = ms, !.pc = "reply"]]
      BY <1>6 DEF ZeroGrant
  <2>2. handler[h].pc = "hint" /\ handler[h].tenant \in Tenants
      BY <1>6 DEF ZeroGrant, TypeOK
  <2>3. QED
      BY <1>1, <2>1, <2>2 DEF HandlerType, Alone
<1>7. ASSUME CountGrant(h)
      PROVE  /\ Alone(h) /\ handler[h].pc = "grant" /\ handler'[h].pc = "reply"
             /\ handler[h].tenant \in Tenants
    BY <1>1, <1>7 DEF CountGrant, TypeOK, HandlerType, Alone
<1>8. ASSUME Reply(h)
      PROVE  Alone(h) /\ handler[h].pc = "reply" /\ handler'[h].pc = "idle"
    BY <1>1, <1>8 DEF Reply, Idle, HandlerType, Alone
<1>9. QED
    BY <1>2, <1>3, <1>4, <1>5, <1>6, <1>7, <1>8

-----------------------------------------------------------------------------
(* Each part of the invariant is kept *)

\* The counters: a call moves from open to one of the two other counters.
LEMMA AgreeKept ==
    ASSUME TypeOK, TypeOK', LInv, [Next]_vars, up', NEW t \in Tenants
    PROVE  Agree(t)'
<1> DEFINE Same == Grants(t)' = Grants(t) /\ tokensGranted'[t] = tokensGranted[t]
<1>1. /\ leaseRequests[t] \in Nat /\ zeroGrants[t] \in Nat /\ tokensGranted[t] \in Nat
      /\ LeaseSize \in Nat
    BY LoadFacts DEF TypeOK
<1>2. Cardinality(Open(t)) \in Nat
    BY CoordinatorAssumption, FS_Subset, FS_CardinalityType DEF Open
<1>3. up => Agree(t)
    BY DEF LInv
<1>4. ASSUME up, Same PROVE Agree(t)'
    BY <1>3, <1>4 DEF Agree
<1>5. ASSUME NEW h \in Handlers, NEW s \in Tenants, HandleLease(h, s) PROVE Agree(t)'
  <2>1. /\ Alone(h) /\ h \notin Open(t) /\ (h \in Open(t)' <=> s = t)
      BY <1>5, StepFacts DEF Open
  <2>2. Cardinality(Open(t)') = Cardinality(Open(t)) + (IF s = t THEN 1 ELSE 0)
      BY <1>2, <2>1, OpenMoves
  <2>3. /\ leaseRequests'[t] = leaseRequests[t] + (IF s = t THEN 1 ELSE 0)
        /\ UNCHANGED <<zeroGrants, tokensGranted>> /\ up
      BY <1>1, <1>5 DEF HandleLease, TypeOK
  <2>4. Same
      BY <1>1, <1>2, <2>2, <2>3 DEF Grants
  <2>5. QED
      BY <1>4, <2>3, <2>4
<1>6. ASSUME NEW h \in Handlers, NEW body \in Bodies, RefuseLease(h, body) PROVE Agree(t)'
  <2>1. Alone(h) /\ h \notin Open(t) /\ h \notin Open(t)'
      BY <1>6, StepFacts DEF Open
  <2>2. Cardinality(Open(t)') = Cardinality(Open(t))
      BY <1>2, <2>1, OpenMoves
  <2>3. UNCHANGED <<leaseRequests, zeroGrants, tokensGranted>> /\ up
      BY <1>6 DEF RefuseLease, counters
  <2>4. QED
      BY <1>4, <2>2, <2>3 DEF Grants
<1>7. ASSUME NEW h \in Handlers, TakeUpTo(h) PROVE Agree(t)'
  <2>1. Alone(h) /\ (h \in Open(t) <=> h \in Open(t)')
      BY <1>7, StepFacts DEF Open
  <2>2. Cardinality(Open(t)') = Cardinality(Open(t))
      BY <1>2, <2>1, OpenMoves
  <2>3. UNCHANGED <<leaseRequests, zeroGrants, tokensGranted, up>>
      BY <1>7 DEF TakeUpTo, counters
  <2>4. QED
      BY <1>4, <2>2, <2>3 DEF Grants
<1>8. ASSUME NEW h \in Handlers, CountZero(h) PROVE Agree(t)'
  <2>1. /\ Alone(h) /\ h \notin Open(t)' /\ (h \in Open(t) <=> handler[h].tenant = t)
      BY <1>8, StepFacts DEF Open
  <2>2. Cardinality(Open(t)') = Cardinality(Open(t)) - (IF handler[h].tenant = t THEN 1 ELSE 0)
      BY <1>2, <2>1, OpenMoves
  <2>3. /\ zeroGrants'[t] = zeroGrants[t] + (IF handler[h].tenant = t THEN 1 ELSE 0)
        /\ UNCHANGED <<leaseRequests, tokensGranted, up>>
    <3>1. PICK s \in Tenants : s = handler[h].tenant
        BY <1>8, StepFacts
    <3>2. zeroGrants' = [zeroGrants EXCEPT ![s] = @ + 1]
        BY <1>8, <3>1 DEF CountZero
    <3>3. zeroGrants'[t] = zeroGrants[t] + (IF s = t THEN 1 ELSE 0)
        BY <1>1, <3>1, <3>2 DEF TypeOK
    <3>4. UNCHANGED <<leaseRequests, tokensGranted, up>>
        BY <1>8 DEF CountZero
    <3>5. QED
        BY <3>1, <3>3, <3>4
  <2>4. Same
      BY <1>1, <1>2, <2>2, <2>3 DEF Grants
  <2>5. QED
      BY <1>4, <2>3, <2>4
<1>9. ASSUME NEW h \in Handlers, ZeroGrant(h) \/ Reply(h) PROVE Agree(t)'
  <2>1. Alone(h) /\ h \notin Open(t) /\ h \notin Open(t)'
      BY <1>9, StepFacts DEF Open
  <2>2. Cardinality(Open(t)') = Cardinality(Open(t))
      BY <1>2, <2>1, OpenMoves
  <2>3. UNCHANGED <<leaseRequests, zeroGrants, tokensGranted, up>>
      BY <1>9 DEF ZeroGrant, Reply, counters
  <2>4. QED
      BY <1>4, <2>2, <2>3 DEF Grants
<1>10. ASSUME NEW h \in Handlers, CountGrant(h) PROVE Agree(t)'
  <2>1. /\ Alone(h) /\ h \notin Open(t)' /\ (h \in Open(t) <=> handler[h].tenant = t)
        /\ handler[h].pc = "grant"
      BY <1>10, StepFacts DEF Open
  <2>2. Cardinality(Open(t)') = Cardinality(Open(t)) - (IF handler[h].tenant = t THEN 1 ELSE 0)
      BY <1>2, <2>1, OpenMoves
  <2>3. handler[h].granted \in 1..LeaseSize
      BY <1>1, <2>1 DEF LInv, TypeOK, HandlerType
  <2>4. /\ tokensGranted'[t] = tokensGranted[t]
             + (IF handler[h].tenant = t THEN handler[h].granted ELSE 0)
        /\ UNCHANGED <<leaseRequests, zeroGrants, up>>
    <3>1. PICK s \in Tenants, g \in Nat : s = handler[h].tenant /\ g = handler[h].granted
        BY <1>10, <2>3, StepFacts
    <3>2. tokensGranted' = [tokensGranted EXCEPT ![s] = @ + g]
        BY <1>10, <3>1 DEF CountGrant
    <3>3. tokensGranted'[t] = tokensGranted[t] + (IF s = t THEN g ELSE 0)
        BY <1>1, <3>1, <3>2 DEF TypeOK
    <3>4. UNCHANGED <<leaseRequests, zeroGrants, up>>
        BY <1>10 DEF CountGrant
    <3>5. QED
        BY <3>1, <3>3, <3>4
  <2>5. CASE handler[h].tenant # t
    <3>1. Same
        BY <1>1, <1>2, <2>2, <2>4, <2>5 DEF Grants
    <3>2. QED
        BY <1>4, <2>4, <3>1
  <2>6. CASE handler[h].tenant = t
    <3>1. Grants(t)' = Grants(t) + 1 /\ Grants(t) \in Int
        BY <1>1, <1>2, <2>2, <2>4, <2>6 DEF Grants
    <3>2. /\ LeaseSize * (Grants(t) + 1) = LeaseSize * Grants(t) + LeaseSize
          /\ LeaseSize * Grants(t) \in Int
      <4>1. PICK n \in Int : n = Grants(t)
          BY <3>1
      <4>2. LeaseSize * 1 = LeaseSize /\ LeaseSize \in Int
          BY <1>1
      <4>3. QED
          BY <4>1, <4>2, Distribute
    <3>3. Agree(t)
        BY <1>3, <2>4
    <3>4. QED
        BY <1>1, <2>3, <2>4, <2>6, <3>1, <3>2, <3>3 DEF Agree
  <2>7. QED
      BY <2>5, <2>6
<1>11. CASE Start
  <2>1. \A h \in Handlers : handler'[h].pc = "idle"
      BY <1>11 DEF Start, LInv
  <2>2. Open(t)' = {}
      BY <2>1 DEF Open
  <2>3. leaseRequests'[t] = 0 /\ zeroGrants'[t] = 0 /\ tokensGranted'[t] = 0
      BY <1>11 DEF Start, Zero
  <2>4. Cardinality(Open(t)') = 0
      BY <2>2, FS_EmptySet
  <2>5. Grants(t)' = 0 /\ LeaseSize * 0 = 0
      BY <1>1, <2>3, <2>4 DEF Grants
  <2>6. QED
      BY <2>3, <2>5 DEF Agree
<1>12. CASE Tick \/ OpenWindow \/ UNCHANGED vars
  <2>1. UNCHANGED <<leaseRequests, zeroGrants, tokensGranted, handler, up>>
      BY <1>12 DEF Tick, OpenWindow, vars, counters
  <2>2. Open(t)' = Open(t)
      BY <2>1 DEF Open
  <2>3. QED
      BY <1>4, <2>1, <2>2 DEF Grants
<1>13. ~Crash
    BY DEF Crash
<1>14. QED
    BY <1>5, <1>6, <1>7, <1>8, <1>9, <1>10, <1>11, <1>12, <1>13 DEF Next, HandlerStep

\* The late handlers: each debits once, and whoever reads the clock from now
\* on is not late.
LEMMA StaleKept ==
    ASSUME TypeOK, TypeOK', IInv, LInv, [Next]_vars, NEW t \in Tenants
    PROVE  StaleInv(t)'
<1> DEFINE n == Cardinality(Late(t, winStart))
           m == Cardinality(Late(t, winStart)')
<1>1. /\ winStale[t] \in Nat /\ winLate[t] \in Nat /\ winStart \in Nat
      /\ LeaseSize \in Nat /\ clock \in Nat /\ winStart <= clock
      /\ StaleInv(t)
    BY LoadFacts DEF TypeOK, IInv, LInv
<1>2. n \in Nat
    BY CoordinatorAssumption, FS_Subset, FS_CardinalityType DEF Late
<1>3. ASSUME winStart' = winStart, winStale'[t] = winStale[t], winLate'[t] = winLate[t],
             m \in Nat, m <= n
      PROVE  StaleInv(t)'
    \* no late handler more than before, and nothing granted to one
  <2> HIDE DEF n, m
  <2>1. LeaseSize * (n - m) \in Nat
      BY <1>1, <1>2, <1>3, ProductNat
  <2>2. LeaseSize * (n - m) = LeaseSize * n - LeaseSize * m
      BY <1>1, <1>2, <1>3, Distribute
  <2>3. LeaseSize * n \in Int /\ LeaseSize * m \in Int /\ LeaseSize * winLate[t] \in Int
      BY <1>1, <1>2, <1>3, Distribute
  <2>4. QED
      BY <1>1, <1>3, <2>1, <2>2, <2>3 DEF StaleInv, n, m
<1>4. ASSUME NEW h \in Handlers, Alone(h), h \notin Late(t, winStart)', UNCHANGED window
      PROVE  StaleInv(t)'
  <2>1. winStart' = winStart /\ winStale' = winStale /\ winLate' = winLate
      BY <1>4 DEF window
  <2>2. /\ m \in Nat
        /\ m = n - (IF h \in Late(t, winStart) THEN 1 ELSE 0)
                 + (IF h \in Late(t, winStart)' THEN 1 ELSE 0)
      BY <1>4, <2>1, LateMoves
  <2> HIDE DEF n, m
  <2>3. m <= n
      BY <1>2, <1>4, <2>2
  <2>4. QED
      BY <1>3, <2>1, <2>2, <2>3
<1>5. ASSUME NEW h \in Handlers, NEW s \in Tenants, HandleLease(h, s) PROVE StaleInv(t)'
  <2>1. Alone(h) /\ handler'[h].now = clock /\ UNCHANGED <<winStart, winStale, winLate, window>>
      BY <1>5, StepFacts DEF HandleLease, window
  <2>2. h \notin Late(t, winStart)'
      BY <1>1, <2>1 DEF Late
  <2>3. QED
      BY <1>4, <2>1, <2>2
<1>6. ASSUME NEW h \in Handlers, NEW body \in Bodies, RefuseLease(h, body) PROVE StaleInv(t)'
  <2>1. Alone(h) /\ h \notin Late(t, winStart)' /\ UNCHANGED window
      BY <1>6, StepFacts DEF RefuseLease, Late
  <2>2. QED
      BY <1>4, <2>1
<1>7. ASSUME NEW h \in Handlers, CountZero(h) \/ ZeroGrant(h) \/ CountGrant(h) \/ Reply(h)
      PROVE  StaleInv(t)'
  <2>1. Alone(h) /\ h \notin Late(t, winStart)'
      BY <1>7, StepFacts DEF Late
  <2>2. UNCHANGED window
      BY <1>7 DEF CountZero, ZeroGrant, CountGrant, Reply
  <2>3. QED
      BY <1>4, <2>1, <2>2
<1>8. ASSUME NEW h \in Handlers, TakeUpTo(h) PROVE StaleInv(t)'
  <2>1. PICK s \in Tenants, now \in Nat, g \in 0..LeaseSize :
          /\ s = handler[h].tenant /\ now = handler[h].now
          /\ winStale' = IF winStart > 0 /\ now < winStart
                         THEN [winStale EXCEPT ![s] = @ + g] ELSE winStale
    <3>1. PICK s \in Tenants, now \in Nat : s = handler[h].tenant /\ now = handler[h].now
        BY <1>8 DEF TakeUpTo, TypeOK, HandlerType
    <3>2. PICK b \in BucketType(Cap(s)) : b = RefillLocked(bucket[s], Rate[s], Cap(s), now)
        BY RefillFacts, LoadFacts DEF TypeOK
    <3>3. PICK g \in 0..LeaseSize : g = TakenUpTo(b, LeaseSize)
        BY LoadFacts, TakeFacts
    <3>4. winStale' = IF winStart > 0 /\ now < winStart
                      THEN [winStale EXCEPT ![s] = @ + g] ELSE winStale
        BY <1>8, <3>1, <3>2, <3>3 DEF TakeUpTo
    <3>5. QED
        BY <3>1, <3>4
  <2>2. /\ winStart' = winStart /\ winLate' = winLate
        /\ Alone(h) /\ handler[h].pc = "take" /\ handler'[h].pc # "take"
    <3>1. winStart' = winStart /\ winLate' = winLate
        BY <1>8 DEF TakeUpTo
    <3>2. /\ Alone(h) /\ handler[h].pc = "take"
          /\ handler'[h].pc = "zero" \/ handler'[h].pc = "grant"
        BY <1>8, StepFacts
    <3>3. QED
        BY <3>1, <3>2
  <2>3. /\ h \notin Late(t, winStart)'
        /\ h \in Late(t, winStart) <=> s = t /\ now < winStart
      BY <2>1, <2>2 DEF Late
  <2>4. m \in Nat /\ m = n - (IF s = t /\ now < winStart THEN 1 ELSE 0)
    <3>1. /\ m \in Nat
          /\ m = n - (IF h \in Late(t, winStart) THEN 1 ELSE 0)
                   + (IF h \in Late(t, winStart)' THEN 1 ELSE 0)
        BY <2>2, LateMoves
    <3> HIDE DEF n, m
    <3>2. QED
        BY <1>2, <2>3, <3>1
  <2> HIDE DEF n, m
  <2>5. CASE ~(winStart > 0 /\ now < winStart /\ s = t)
    <3>1. winStale'[t] = winStale[t]
        BY <2>1, <2>5 DEF TypeOK
    <3>2. m <= n
        BY <1>1, <1>2, <2>4
    <3>3. QED
        BY <1>3, <2>2, <2>4, <3>1, <3>2
  <2>6. CASE winStart > 0 /\ now < winStart /\ s = t
    <3>1. winStale'[t] = winStale[t] + g /\ g \in Nat /\ g <= LeaseSize
        BY <1>1, <2>1, <2>6 DEF TypeOK
    <3>2. m = n - 1 /\ m \in Nat
        BY <2>4, <2>6
    <3>3. LeaseSize * n = LeaseSize * m + LeaseSize
      <4>1. LeaseSize * (m + 1) = LeaseSize * m + LeaseSize * 1 /\ LeaseSize * 1 = LeaseSize
          BY <1>1, <3>2, Distribute
      <4>2. n = m + 1
          BY <1>2, <3>2
      <4>3. QED
          BY <4>1, <4>2
    <3>4. LeaseSize * m \in Int /\ LeaseSize * winLate[t] \in Int
        BY <1>1, <3>2, Distribute
    <3>5. winStale[t] + LeaseSize * n <= LeaseSize * winLate[t]
        BY <1>1, <2>6 DEF StaleInv, n
    <3>6. winStale'[t] + LeaseSize * m <= LeaseSize * winLate[t]
        BY <1>1, <3>1, <3>3, <3>4, <3>5
    <3>7. QED
        BY <1>1, <2>2, <2>6, <3>6 DEF StaleInv, m
  <2>7. QED
      BY <2>5, <2>6
<1>9. CASE Crash
  <2>1. Late(t, winStart)' = {} /\ UNCHANGED window
      BY <1>9 DEF Crash, Late, Idle
  <2>2. m = 0
      BY <2>1, FS_EmptySet
  <2>3. winStart' = winStart /\ winStale'[t] = winStale[t] /\ winLate'[t] = winLate[t]
      BY <2>1 DEF window
  <2> HIDE DEF n, m
  <2>4. QED
      BY <1>2, <1>3, <2>2, <2>3
<1>10. CASE Start \/ Tick \/ UNCHANGED vars
  <2>1. UNCHANGED <<handler, winStart, winStale, winLate>>
      BY <1>10 DEF Start, Tick, vars, window
  <2>2. Late(t, winStart)' = Late(t, winStart)
      BY <2>1 DEF Late
  <2>3. QED
      BY <1>1, <2>1, <2>2 DEF StaleInv
<1>11. CASE OpenWindow
  <2>1. /\ winStart = 0 /\ winStart' = clock /\ handler' = handler /\ winStale' = winStale
        /\ winLate'[t] = Cardinality(Late(t, clock))
      BY <1>11 DEF OpenWindow
  <2>2. Late(t, winStart)' = Late(t, clock)
      BY <2>1 DEF Late
  <2>3. winStale'[t] = 0
      BY <1>1, <2>1 DEF StaleInv
  <2>4. Cardinality(Late(t, clock)) \in Nat
      BY CoordinatorAssumption, FS_Subset, FS_CardinalityType DEF Late
  <2>5. LeaseSize * Cardinality(Late(t, clock)) \in Int
      BY <1>1, <2>4, Distribute
  <2>6. QED
      BY <2>1, <2>2, <2>3, <2>5 DEF StaleInv
<1>12. QED
    BY <1>5, <1>6, <1>7, <1>8, <1>9, <1>10, <1>11 DEF Next, HandlerStep

\* A refill and a debit of g tokens keep the ledger of t balanced: the balance
\* grows by what was earned at most, and g moves from it to the pending sum.
LEMMA DebitKeepsBalance ==
    ASSUME TypeOK, NEW t \in Tenants, NEW now \in Nat, NEW g \in Nat,
           NEW b \in BucketType(Cap(t)),
           b = RefillLocked(bucket[t], Rate[t], Cap(t), now),
           bucket'[t].tokens = b.tokens - g * Unit, bucket'[t].last = b.last,
           Balanced(t), Pending(t) \in Nat, Pending(t)' = Pending(t) + g,
           started' = started, tokensGranted'[t] = tokensGranted[t]
    PROVE  Balanced(t)'
<1> DEFINE old == bucket[t]
           u == g * Unit
           F == (tokensGranted[t] + Pending(t)) * Unit
           earned == Rate[t] * (b.last - old.last)
           E0 == Rate[t] * (old.last - started)
           E1 == Rate[t] * (b.last - started)
<1>1. /\ old \in BucketType(Cap(t)) /\ old.tokens \in Nat /\ old.last \in Nat
      /\ b.tokens \in Nat /\ b.last \in Nat /\ started \in Nat
      /\ tokensGranted[t] \in Nat
      /\ Rate[t] \in Nat /\ Cap(t) \in Nat /\ Unit \in Nat
    BY LoadFacts, BucketAssumption DEF TypeOK, BucketType
<1>2. /\ b.last = IF now > old.last THEN now ELSE old.last
      /\ b.tokens <= old.tokens + earned
    BY <1>1, RefillFacts
<1>3. u \in Nat /\ F \in Nat /\ earned \in Int /\ E0 \in Int /\ E1 = E0 + earned
    BY <1>1, ProductNat, Span
<1>4. (tokensGranted[t] + (Pending(t) + g)) * Unit = F + u
  <2>1. PICK p \in Nat : p = Pending(t)
      OBVIOUS
  <2>2. (tokensGranted[t] + p + g) * Unit = (tokensGranted[t] + p) * Unit + g * Unit
      BY <1>1, Distribute
  <2>3. tokensGranted[t] + (p + g) = tokensGranted[t] + p + g
      BY <1>1
  <2>4. QED
      BY <2>1, <2>2, <2>3
<1>5. started <= old.last /\ F + old.tokens <= Cap(t) + E0
    BY DEF Balanced
<1> HIDE DEF u, F, earned, E0, E1
<1>6. (F + u) + (b.tokens - u) <= Cap(t) + E1
    BY <1>1, <1>2, <1>3, <1>5
<1>7. started <= b.last
    BY <1>1, <1>2, <1>5
<1>8. (tokensGranted[t] + Pending(t))' = tokensGranted[t] + (Pending(t) + g)
    OBVIOUS
<1>9. QED
    BY <1>4, <1>6, <1>7, <1>8 DEF Balanced, E1, u

\* The ledger: a step that touches neither the bucket of t nor the sum of what
\* is counted and what is pending keeps it balanced.
LEMMA QuietKeepsBalance ==
    ASSUME NEW t, Balanced(t), bucket'[t] = bucket[t], started' = started,
           (tokensGranted[t] + Pending(t))' = tokensGranted[t] + Pending(t)
    PROVE  Balanced(t)'
    BY DEF Balanced

\* The ledger of t stays balanced.
LEMMA BalancedKept ==
    ASSUME TypeOK, TypeOK', LInv, [Next]_vars, up', NEW t \in Tenants
    PROVE  Balanced(t)'
<1>1. up => Balanced(t)
    BY DEF LInv
<1>2. /\ tokensGranted[t] \in Nat /\ bucket[t] \in BucketType(Cap(t))
      /\ Cap(t) \in Nat /\ Rate[t] \in Nat /\ LeaseSize \in Nat
    BY LoadFacts DEF TypeOK
<1>3. ASSUME NEW h \in Handlers, up, Alone(h), bucket'[t] = bucket[t], started' = started,
             h \notin Uncounted(t), h \notin Uncounted(t)', tokensGranted'[t] = tokensGranted[t]
      PROVE  Balanced(t)'
  <2>1. Pending(t) \in Nat /\ Pending(t)' = Pending(t)
      BY <1>3, PendingMoves
  <2>2. QED
      BY <1>1, <1>3, <2>1, QuietKeepsBalance
<1>4. ASSUME NEW h \in Handlers,
             \/ \E s \in Tenants : HandleLease(h, s)
             \/ \E body \in Bodies : RefuseLease(h, body)
             \/ CountZero(h) \/ Reply(h)
      PROVE  Balanced(t)'
  <2>1. Alone(h) /\ h \notin Uncounted(t) /\ h \notin Uncounted(t)'
      BY <1>4, StepFacts DEF Uncounted
  <2>2. UNCHANGED <<bucket, started, tokensGranted, up>>
      BY <1>4 DEF HandleLease, RefuseLease, CountZero, Reply, counters
  <2>3. QED
      BY <1>3, <2>1, <2>2
<1>5. ASSUME NEW h \in Handlers, TakeUpTo(h) PROVE Balanced(t)'
  <2>1. PICK s \in Tenants, now \in Nat : s = handler[h].tenant /\ now = handler[h].now
      BY <1>5 DEF TakeUpTo, TypeOK, HandlerType
  <2>2. PICK b \in BucketType(Cap(s)) : b = RefillLocked(bucket[s], Rate[s], Cap(s), now)
      BY RefillFacts, LoadFacts DEF TypeOK
  <2>3. PICK g \in Nat :
          /\ g = TakenUpTo(b, LeaseSize)
          /\ Debit(b, g).tokens = b.tokens - g * Unit /\ Debit(b, g).last = b.last
      BY LoadFacts, TakeFacts
  <2>4. /\ bucket' = [bucket EXCEPT ![s] = Debit(b, g)]
        /\ UNCHANGED <<up, started, tokensGranted>>
      BY <1>5, <2>1, <2>2, <2>3 DEF TakeUpTo, counters
  <2>5. /\ handler'[h].granted = g /\ Alone(h) /\ handler[h].pc = "take"
        /\ handler'[h].tenant = s
        /\ handler'[h].pc = IF g = 0 THEN "zero" ELSE "grant"
    <3>1. PICK p : handler' = [handler EXCEPT ![h] = [@ EXCEPT !.granted = g, !.pc = p]]
        BY <1>5, <2>1, <2>2, <2>3 DEF TakeUpTo
    <3>2. handler'[h].granted = g
        BY <3>1 DEF TypeOK, HandlerType
    <3>3. QED
        BY <1>5, <2>1, <3>2, StepFacts
  <2>6. CASE s # t
    <3>1. bucket'[t] = bucket[t]
        BY <2>4, <2>6 DEF TypeOK
    <3>2. h \notin Uncounted(t) /\ h \notin Uncounted(t)'
        BY <2>1, <2>5, <2>6 DEF Uncounted
    <3>3. QED
        BY <1>3, <2>4, <2>5, <3>1, <3>2
  <2>7. CASE s = t
    <3>1. bucket'[t].tokens = b.tokens - g * Unit /\ bucket'[t].last = b.last
        BY <2>3, <2>4, <2>7 DEF TypeOK
    <3>2. h \notin Uncounted(t) /\ (h \in Uncounted(t)' <=> g # 0)
        BY <2>5, <2>7 DEF Uncounted
    <3>3. Pending(t) \in Nat /\ Pending(t)' = Pending(t) + g
        BY <2>5, <3>2, PendingMoves
    <3>4. QED
        BY <1>1, <2>2, <2>4, <2>7, <3>1, <3>3, DebitKeepsBalance
  <2>8. QED
      BY <2>6, <2>7
<1>6. ASSUME NEW h \in Handlers, ZeroGrant(h) PROVE Balanced(t)'
  <2>1. PICK s \in Tenants, now \in Nat : s = handler[h].tenant /\ now = handler[h].now
      BY <1>6 DEF ZeroGrant, TypeOK, HandlerType
  <2>2. PICK b \in BucketType(Cap(s)) : b = RefillLocked(bucket[s], Rate[s], Cap(s), now)
      BY RefillFacts, LoadFacts DEF TypeOK
  <2>3. /\ bucket' = [bucket EXCEPT ![s] = b]
        /\ UNCHANGED <<up, started, tokensGranted>>
      BY <1>6, <2>1, <2>2 DEF ZeroGrant, counters
  <2>4. Alone(h) /\ h \notin Uncounted(t) /\ h \notin Uncounted(t)'
      BY <1>6, StepFacts DEF Uncounted
  <2>5. CASE s # t
    <3>1. bucket'[t] = bucket[t]
        BY <2>3, <2>5 DEF TypeOK
    <3>2. QED
        BY <1>3, <2>3, <2>4, <3>1
  <2>6. CASE s = t
    <3>1. bucket'[t] = b /\ b.tokens \in Nat /\ b.last \in Nat
        BY <2>3, <2>6 DEF TypeOK, BucketType
    <3>2. Pending(t) \in Nat /\ Pending(t)' = Pending(t) + 0
        BY <2>4, PendingMoves
    <3>3. b.tokens - 0 * Unit = b.tokens
        BY <3>1, BucketAssumption
    <3>4. QED
        BY <1>1, <2>2, <2>3, <2>6, <3>1, <3>2, <3>3, DebitKeepsBalance
  <2>7. QED
      BY <2>5, <2>6
<1>7. ASSUME NEW h \in Handlers, CountGrant(h) PROVE Balanced(t)'
  <2>1. PICK s \in Tenants, g \in Nat : s = handler[h].tenant /\ g = handler[h].granted
      BY <1>2, <1>7 DEF CountGrant, TypeOK, HandlerType
  <2>2. /\ tokensGranted' = [tokensGranted EXCEPT ![s] = @ + g]
        /\ UNCHANGED <<up, started, bucket>>
      BY <1>7, <2>1 DEF CountGrant
  <2>3. Alone(h) /\ h \notin Uncounted(t)' /\ (h \in Uncounted(t) <=> s = t)
      BY <1>7, <2>1, StepFacts DEF Uncounted
  <2>4. /\ Pending(t) \in Nat
        /\ Pending(t)' = Pending(t) - (IF s = t THEN g ELSE 0)
      BY <2>1, <2>3, PendingMoves
  <2>5. tokensGranted'[t] = tokensGranted[t] + (IF s = t THEN g ELSE 0)
      BY <1>2, <2>1, <2>2 DEF TypeOK
  <2>6. (tokensGranted[t] + Pending(t))' = tokensGranted[t] + Pending(t)
      BY <1>2, <2>4, <2>5
  <2>7. QED
      BY <1>1, <2>2, <2>6, QuietKeepsBalance
<1>8. CASE Start
  <2>1. \A h \in Handlers : handler'[h].pc = "idle"
      BY <1>8 DEF Start, LInv
  <2>2. Uncounted(t)' = {}
      BY <2>1 DEF Uncounted
  <2>3. Pending(t)' = 0
      BY <2>2, SumEmpty DEF Pending
  <2>4. /\ tokensGranted'[t] = 0 /\ started' = clock /\ clock \in Nat
        /\ bucket'[t].tokens = Cap(t) /\ bucket'[t].last = clock
      BY <1>8 DEF Start, Zero, NewBucket, TypeOK
  <2>5. Rate[t] * (clock - clock) = 0 /\ (0 + 0) * Unit = 0
      BY <1>2, <2>4, BucketAssumption
  <2>6. QED
      BY <1>2, <2>3, <2>4, <2>5 DEF Balanced
<1>9. CASE Tick \/ OpenWindow \/ UNCHANGED vars
  <2>1. UNCHANGED <<up, started, bucket, tokensGranted, handler>>
      BY <1>9 DEF Tick, OpenWindow, vars, counters
  <2>2. Pending(t)' = Pending(t)
      BY <2>1 DEF Pending, Uncounted
  <2>3. QED
      BY <1>1, <2>1, <2>2, QuietKeepsBalance
<1>10. ~Crash
    BY DEF Crash
<1>11. QED
    BY <1>4, <1>5, <1>6, <1>7, <1>8, <1>9, <1>10 DEF Next, HandlerStep

-----------------------------------------------------------------------------
(* The theorems *)

\* The books are kept in every reachable state of the coordinator.
THEOREM BooksKept == Spec => []LInv
<1>1. Init => LInv
  <2> SUFFICES ASSUME Init PROVE LInv
      OBVIOUS
  <2>1. \A h \in Handlers : handler[h].pc = "idle"
      BY DEF Init, Idle
  <2>2. ASSUME NEW t \in Tenants PROVE Balanced(t) /\ Agree(t)
    <3>1. Open(t) = {} /\ Uncounted(t) = {}
        BY <2>1 DEF Open, Uncounted
    <3>2. Cardinality(Open(t)) = 0 /\ Pending(t) = 0
        BY <3>1, FS_EmptySet, SumEmpty DEF Pending
    <3>3. /\ Cap(t) \in Nat /\ Rate[t] \in Nat /\ Unit \in Nat /\ LeaseSize \in Nat
        BY LoadFacts, BucketAssumption
    <3>4. /\ Rate[t] * (1 - 1) = 0 /\ (0 + 0) * Unit = 0 /\ LeaseSize * 0 = 0
        BY <3>3
    <3>5. /\ leaseRequests[t] = 0 /\ zeroGrants[t] = 0 /\ tokensGranted[t] = 0
          /\ bucket[t].tokens = Cap(t) /\ bucket[t].last = 1 /\ started = 1
        BY DEF Init, Zero, NewBucket
    <3>6. Grants(t) = 0
        BY <3>2, <3>5 DEF Grants
    <3>7. QED
        BY <3>2, <3>3, <3>4, <3>5, <3>6 DEF Balanced, Agree
  <2>3. \A t \in Tenants : StaleInv(t)
      BY DEF Init, Zero, StaleInv
  <2>4. QED
      BY <2>1, <2>2, <2>3 DEF LInv
<1>2. TypeOK /\ TypeOK' /\ IInv /\ LInv /\ [Next]_vars => LInv'
  <2> SUFFICES ASSUME TypeOK, TypeOK', IInv, LInv, [Next]_vars PROVE LInv'
      OBVIOUS
  <2>1. ASSUME ~up' PROVE \A h \in Handlers : handler'[h].pc = "idle"
    <3>1. CASE Crash
        BY <3>1 DEF Crash, Idle
    <3>2. CASE UNCHANGED <<up, handler>>
        BY <2>1, <3>2 DEF LInv
    <3>3. ASSUME NEW h \in Handlers, HandlerStep(h) PROVE FALSE
        BY <2>1, <3>3 DEF HandlerStep, TakeUpTo, CountZero, ZeroGrant, CountGrant, Reply, LInv
    <3>4. ASSUME NEW h \in Handlers, NEW t \in Tenants, HandleLease(h, t) PROVE FALSE
        BY <2>1, <3>4, Zenon DEF HandleLease
    <3>5. ASSUME NEW h \in Handlers, NEW body \in Bodies, RefuseLease(h, body) PROVE FALSE
        BY <2>1, <3>5, Zenon DEF RefuseLease
    <3>6. CASE Start
        BY <2>1, <3>6, Zenon DEF Start
    <3>7. CASE Tick \/ OpenWindow \/ UNCHANGED vars
      <4>1. UNCHANGED <<up, handler>>
          BY <3>7 DEF Tick, OpenWindow, vars
      <4>2. QED
          BY <3>2, <4>1
    <3>8. QED
        BY <3>1, <3>3, <3>4, <3>5, <3>6, <3>7 DEF Next
  <2>2. \A h \in Handlers : handler'[h].pc = "grant" => handler'[h].granted >= 1
    <3>1. ASSUME NEW k \in Handlers, NEW h \in Handlers, Alone(k),
                 handler'[k].pc = "grant" => handler'[k].granted # 0,
                 handler'[h].pc = "grant"
          PROVE  handler'[h].granted >= 1
      <4>1. handler'[h].granted \in Nat
          BY LoadFacts DEF TypeOK, HandlerType
      <4>2. QED
          BY <3>1, <4>1 DEF Alone, LInv
    <3>2. ASSUME NEW k \in Handlers, HandlerStep(k)
          PROVE  Alone(k) /\ (handler'[k].pc = "grant" => handler'[k].granted # 0)
      <4>1. CASE TakeUpTo(k)
          BY <4>1, StepFacts
      <4>2. CASE CountZero(k) \/ ZeroGrant(k) \/ CountGrant(k) \/ Reply(k)
          BY <4>2, StepFacts
      <4>3. QED
          BY <3>2, <4>1, <4>2 DEF HandlerStep
    <3>3. ASSUME NEW k \in Handlers, NEW t \in Tenants, HandleLease(k, t)
          PROVE  Alone(k) /\ handler'[k].pc # "grant"
        BY <3>3, StepFacts
    <3>4. ASSUME NEW k \in Handlers, NEW body \in Bodies, RefuseLease(k, body)
          PROVE  Alone(k) /\ handler'[k].pc # "grant"
        BY <3>4, StepFacts
    <3>5. CASE Crash
        BY <3>5 DEF Crash, Idle
    <3>6. CASE Start \/ Tick \/ OpenWindow \/ UNCHANGED vars
        BY <3>6 DEF Start, Tick, OpenWindow, vars, LInv
    <3>7. QED
        BY <3>1, <3>2, <3>3, <3>4, <3>5, <3>6 DEF Next
  <2>3. ASSUME up', NEW t \in Tenants PROVE Balanced(t)' /\ Agree(t)'
      BY <2>3, BalancedKept, AgreeKept
  <2>4. ASSUME NEW t \in Tenants PROVE StaleInv(t)'
      BY StaleKept
  <2>5. QED
      BY <2>1, <2>2, <2>3, <2>4 DEF LInv
<1>3. QED
    BY <1>1, <1>2, TypeCorrect, Inductive, PTL DEF Spec

\* For every configuration and every interleaving of handlers and kills: what
\* tokensGranted shows, with the grants on their way to it and the balance of
\* the bucket, is at most one burst plus what the rate earned since the start.
THEOREM LedgerBalances == Spec => []LedgerBound
<1>1. LInv => LedgerBound
    BY DEF LInv, LedgerBound, Balanced
<1>2. QED
    BY <1>1, BooksKept, PTL

\* The three counters always agree: a call that is not open is one zero grant
\* or one grant of 1 to LeaseSize tokens.
THEOREM CountersAlwaysAgree == Spec => []CountersAgree
<1>1. LInv => CountersAgree
    BY DEF LInv, CountersAgree, Agree, Grants, Open
<1>2. QED
    BY <1>1, BooksKept, PTL

\* Handlers that read the clock before the window opened debit at most one
\* lease each inside it, whatever the order in which they reach the mutex.
THEOREM StaleBounded == Spec => []StaleBound
<1>1. TypeOK /\ LInv => StaleBound
  <2> SUFFICES ASSUME TypeOK, LInv, winStart > 0, NEW t \in Tenants
               PROVE  winStale[t] <= LeaseSize * winLate[t]
      BY DEF StaleBound
  <2> DEFINE n == Cardinality(Late(t, winStart))
  <2>1. n \in Nat
      BY CoordinatorAssumption, FS_Subset, FS_CardinalityType DEF Late
  <2>2. winStale[t] + LeaseSize * n <= LeaseSize * winLate[t]
      BY DEF LInv, StaleInv, TypeOK
  <2> HIDE DEF n
  <2>3. /\ LeaseSize * n \in Nat /\ LeaseSize * winLate[t] \in Nat /\ winStale[t] \in Nat
      BY <2>1, LoadFacts, ProductNat DEF TypeOK
  <2>4. QED
      BY <2>2, <2>3
<1>2. QED
    BY <1>1, BooksKept, TypeCorrect, PTL

-----------------------------------------------------------------------------
(* The baseline's two scrapes *)

\* The sum of the lease counters of some tenants, as they stand now.
Loaded(S) == SumFunctionOnSet(leaseRequests, S)

ScraperType == [pc : {"idle", "first", "measure", "second", "over"},
                todo : SUBSET Tenants, total : Nat, s0 : Nat]
ServedType  == [all : Nat, between : Nat, restarted : BOOLEAN]

\* A counter loaded in the first scrape is behind the live one by calls that
\* `served' noted, and one that the second scrape has still to load is ahead
\* of the first by such calls; only a restart puts the counters back.
SInv == /\ scraper \in ScraperType /\ served \in ServedType
        /\ scraper.pc \in {"first", "second"} => up
        /\ scraper.pc = "measure" /\ ~up => served.restarted = TRUE
        /\ scraper.pc = "idle" => served.between = 0
        /\ scraper.pc = "first" =>
             /\ served.between = 0
             /\ Loaded(Tenants \ scraper.todo) <= scraper.total + served.all
             /\ scraper.total <= Loaded(Tenants \ scraper.todo)
        /\ scraper.pc = "measure" =>
             /\ Loaded(Tenants) <= scraper.s0 + served.all
             /\ served.restarted = FALSE => scraper.s0 + served.between <= Loaded(Tenants)
        /\ scraper.pc = "second" =>
             /\ scraper.total + Loaded(scraper.todo) <= scraper.s0 + served.all
             /\ served.restarted = FALSE =>
                  scraper.s0 + served.between <= scraper.total + Loaded(scraper.todo)

\* The records of the observer, after it gave up and after an update.
LEMMA OverFacts ==
    Over \in ScraperType /\ Over.pc = "over" /\ NoServed \in ServedType
<1>1. Over = [pc |-> "over", todo |-> {}, total |-> 0, s0 |-> 0]
    BY DEF Over, NoScraper
<1>2. QED
    BY <1>1 DEF ScraperType, ServedType, NoServed

LEMMA ServedUpdate ==
    ASSUME served \in ServedType, NEW a \in Nat, NEW b \in Nat,
           served' = [served EXCEPT !.all = a, !.between = b]
    PROVE  /\ served' \in ServedType /\ served'.all = a /\ served'.between = b
           /\ served'.restarted = served.restarted
    BY DEF ServedType

LEMMA ServedRestart ==
    ASSUME served \in ServedType, NEW r \in BOOLEAN,
           served' = [served EXCEPT !.restarted = r]
    PROVE  /\ served' \in ServedType /\ served'.all = served.all
           /\ served'.between = served.between /\ served'.restarted = r
    BY DEF ServedType

LEMMA ScraperUpdate ==
    ASSUME scraper \in ScraperType, NEW d \in SUBSET Tenants, NEW n \in Nat,
           scraper' = [scraper EXCEPT !.todo = d, !.total = n]
    PROVE  /\ scraper' \in ScraperType /\ scraper'.pc = scraper.pc
           /\ scraper'.todo = d /\ scraper'.total = n /\ scraper'.s0 = scraper.s0
    BY DEF ScraperType

\* Observing the coordinator does not disturb it.
LEMMA ScrapeObserves == ScrapeSpec => Spec
<1>1. ScrapeInit => Init
    BY DEF ScrapeInit
<1>2. [ScrapeNext]_scrapeVars => [Next]_vars
  <2>1. ASSUME ScrapeNext PROVE [Next]_vars
    <3>1. CASE CoordStats("idle", "first") \/ CoordStats("measure", "second")
        BY <3>1 DEF CoordStats
    <3>2. CASE \E t \in Tenants : HandleStats(t)
        BY <3>2 DEF HandleStats
    <3>3. CASE FirstReturn \/ SecondReturn \/ StatsError
        BY <3>3 DEF FirstReturn, SecondReturn, StatsError
    <3>4. CASE \E h \in Handlers, t \in Tenants : Lease(h, t)
        BY <3>4 DEF Lease, Next
    <3>5. CASE ScrapeCrash
        BY <3>5 DEF ScrapeCrash, Next
    <3>6. CASE Others
        BY <3>6 DEF Others, Next
    <3>7. QED
        BY <2>1, <3>1, <3>2, <3>3, <3>4, <3>5, <3>6 DEF ScrapeNext
  <2>2. UNCHANGED scrapeVars => UNCHANGED vars
      BY DEF scrapeVars
  <2>3. QED
      BY <2>1, <2>2
<1>3. QED
    BY <1>1, <1>2, PTL DEF ScrapeSpec, Spec

\* The sums of naturals that the scrapes add up.
LEMMA LoadedNat ==
    ASSUME TypeOK, NEW S \in SUBSET Tenants
    PROVE  Loaded(S) \in Nat /\ IsFiniteSet(S) /\ \A s \in S : leaseRequests[s] \in Nat
<1>1. IsFiniteSet(S) /\ \A s \in S : leaseRequests[s] \in Nat
    BY CoordinatorAssumption, FS_Subset DEF TypeOK
<1>2. QED
    BY <1>1, SumNat DEF Loaded

\* One more call of t.
LEMMA LeaseLoads ==
    ASSUME TypeOK, NEW h, NEW t \in Tenants, HandleLease(h, t), NEW S \in SUBSET Tenants
    PROVE  /\ Loaded(S) \in Nat
           /\ Loaded(S)' = Loaded(S) + (IF t \in S THEN 1 ELSE 0)
<1> DEFINE f == leaseRequests
           g == [leaseRequests EXCEPT ![t] = @ + 1]
<1>1. f \in [Tenants -> Nat] /\ leaseRequests' = g
    BY DEF TypeOK, HandleLease
<1>2. /\ \A s \in S : f[s] \in Int /\ g[s] \in Int /\ (s # t => f[s] = g[s])
      /\ f[t] \in Nat /\ g[t] = f[t] + 1
    BY <1>1
<1>3. Loaded(S) \in Nat /\ IsFiniteSet(S)
    BY LoadedNat
<1> HIDE DEF f, g
<1>4. Loaded(S) = SumFunctionOnSet(f, S) /\ Loaded(S)' = SumFunctionOnSet(g, S)
    BY <1>1 DEF Loaded, f
<1>5. CASE t \in S
  <2>1. SumFunctionOnSet(g, S) = SumFunctionOnSet(f, S) - f[t] + g[t]
    <3>1. /\ \A s \in S : f[s] \in Int /\ g[s] \in Int
          /\ \A s \in S : s # t => f[s] = g[s]
        BY <1>2
    <3>2. QED
        BY <1>3, <1>5, <3>1, SumChange
  <2>2. QED
      BY <1>2, <1>3, <1>4, <1>5, <2>1
<1>6. CASE t \notin S
  <2>1. /\ \A s \in S : f[s] \in Int
        /\ \A s \in S : f[s] = g[s]
      BY <1>2, <1>6
  <2>2. SumFunctionOnSet(f, S) = SumFunctionOnSet(g, S)
      BY <1>3, <2>1, SumSame
  <2>3. QED
      BY <1>3, <1>4, <1>6, <2>2
<1>7. QED
    BY <1>5, <1>6

\* One tenant's counter is loaded.
LEMMA LoadOne ==
    ASSUME TypeOK, NEW S \in SUBSET Tenants, NEW t \in S
    PROVE  /\ leaseRequests[t] \in Nat /\ Loaded(S \ {t}) \in Nat
           /\ Loaded(S) = leaseRequests[t] + Loaded(S \ {t})
<1>1. IsFiniteSet(S) /\ \A s \in S : leaseRequests[s] \in Int
    BY LoadedNat
<1>2. leaseRequests[t] \in Nat /\ Loaded(S \ {t}) \in Nat
    BY LoadedNat
<1>3. QED
    BY <1>1, <1>2, SumRemove DEF Loaded

\* A fresh start shrinks every sum.
LEMMA StartLoads ==
    ASSUME TypeOK, Start
    PROVE  Loaded(Tenants)' <= Loaded(Tenants)
<1> DEFINE f == leaseRequests
           g == Zero
<1>1. \A s \in Tenants : f[s] \in Int /\ g[s] \in Int /\ g[s] <= f[s]
    BY DEF TypeOK, Zero
<1>2. leaseRequests' = g
    BY DEF Start
<1> HIDE DEF f, g
<1>3. SumFunctionOnSet(g, Tenants) <= SumFunctionOnSet(f, Tenants)
    BY <1>1, CoordinatorAssumption, SumMonotone
<1>4. QED
    BY <1>2, <1>3 DEF Loaded, f

\* A step of the coordinator that is neither a lease call nor a start leaves
\* the lease counters alone, and only a kill takes the process down.
LEMMA QuietLoads ==
    ASSUME Others, ~Start
    PROVE  UNCHANGED <<leaseRequests, up, scraper, served>>
<1>1. ASSUME NEW h \in Handlers, NEW body \in Bodies, RefuseLease(h, body)
      PROVE  UNCHANGED <<leaseRequests, up>>
    BY <1>1 DEF RefuseLease, counters
<1>2. ASSUME NEW h \in Handlers, HandlerStep(h) PROVE UNCHANGED <<leaseRequests, up>>
    BY <1>2 DEF HandlerStep, TakeUpTo, CountZero, ZeroGrant, CountGrant, Reply, counters
<1>3. ASSUME Tick \/ OpenWindow PROVE UNCHANGED <<leaseRequests, up>>
    BY <1>3 DEF Tick, OpenWindow, counters
<1>4. QED
    BY <1>1, <1>2, <1>3 DEF Others

\* The scrapes' invariant holds in every reachable state.
THEOREM ScrapeInductive == ScrapeSpec => []SInv
<1>1. ScrapeInit => SInv
  <2> SUFFICES ASSUME ScrapeInit PROVE SInv
      OBVIOUS
  <2>1. scraper \in ScraperType /\ served \in ServedType
      BY OverFacts DEF ScrapeInit, NoScraper, ScraperType
  <2>2. scraper.pc = "idle" /\ served.between = 0
      BY DEF ScrapeInit, NoScraper, NoServed
  <2>3. QED
      BY <2>1, <2>2 DEF SInv
<1>2. TypeOK /\ TypeOK' /\ SInv /\ [ScrapeNext]_scrapeVars => SInv'
  <2> SUFFICES ASSUME TypeOK, TypeOK', SInv, [ScrapeNext]_scrapeVars PROVE SInv'
      OBVIOUS
  <2>0. /\ scraper \in ScraperType /\ served \in ServedType
        /\ scraper.todo \in SUBSET Tenants /\ Tenants \ scraper.todo \in SUBSET Tenants
        /\ Loaded(Tenants) \in Nat /\ Loaded(scraper.todo) \in Nat
        /\ Loaded(Tenants \ scraper.todo) \in Nat
    <3>1. scraper \in ScraperType /\ served \in ServedType
        BY DEF SInv
    <3>2. scraper.todo \in SUBSET Tenants /\ Tenants \ scraper.todo \in SUBSET Tenants
        BY <3>1 DEF ScraperType
    <3>3. QED
        BY <3>1, <3>2, LoadedNat
  <2>0a. /\ scraper.total \in Nat /\ scraper.s0 \in Nat
         /\ served.all \in Nat /\ served.between \in Nat
      BY <2>0 DEF ScraperType, ServedType
  <2>1. CASE CoordStats("idle", "first")
    <3>1. /\ scraper'.pc = "first" /\ scraper'.todo = Tenants /\ scraper'.total = 0
          /\ scraper' \in ScraperType /\ UNCHANGED <<served, leaseRequests, up>>
          /\ scraper.pc = "idle" /\ up
        BY <2>0, <2>0a, <2>1 DEF CoordStats, vars, counters, ScraperType
    <3>2. Tenants \ scraper'.todo = {}
        BY <3>1
    <3>3. Loaded(Tenants \ scraper.todo)' = 0
        BY <3>2, SumEmpty DEF Loaded
    <3>4. QED
        BY <2>0, <2>0a, <3>1, <3>3 DEF SInv
  <2>2. CASE CoordStats("measure", "second")
    <3>1. /\ scraper'.pc = "second" /\ scraper'.todo = Tenants /\ scraper'.total = 0
          /\ scraper'.s0 = scraper.s0
          /\ scraper' \in ScraperType /\ UNCHANGED <<served, leaseRequests, up>>
          /\ scraper.pc = "measure" /\ up
        BY <2>0, <2>0a, <2>2 DEF CoordStats, vars, counters, ScraperType
    <3>2. Loaded(scraper.todo)' = Loaded(Tenants)
        BY <3>1 DEF Loaded
    <3>3. QED
        BY <2>0, <2>0a, <3>1, <3>2 DEF SInv
  <2>3. ASSUME NEW t \in Tenants, HandleStats(t) PROVE SInv'
    <3>1. PICK todo \in SUBSET Tenants : todo = scraper.todo /\ t \in todo
        BY <2>0, <2>0a, <2>3 DEF HandleStats
    <3>2. /\ leaseRequests[t] \in Nat /\ Loaded(todo \ {t}) \in Nat
          /\ Loaded(todo) = leaseRequests[t] + Loaded(todo \ {t})
        BY <3>1, LoadOne
    <3>3. /\ Loaded(Tenants \ (todo \ {t})) = leaseRequests[t] + Loaded(Tenants \ todo)
          /\ Loaded(Tenants \ (todo \ {t})) \in Nat
      <4>1. t \in Tenants \ (todo \ {t})
          OBVIOUS
      <4>2. (Tenants \ (todo \ {t})) \ {t} = Tenants \ todo
          BY <3>1
      <4>3. Loaded(Tenants \ (todo \ {t}))
              = leaseRequests[t] + Loaded((Tenants \ (todo \ {t})) \ {t})
          BY <4>1, LoadOne
      <4>4. QED
          BY <4>2, <4>3, LoadedNat
    <3>4. /\ scraper'.pc = scraper.pc /\ scraper'.todo = todo \ {t} /\ scraper'.s0 = scraper.s0
          /\ scraper'.total = scraper.total + leaseRequests[t]
          /\ scraper' \in ScraperType /\ UNCHANGED <<served, leaseRequests, up>>
          /\ scraper.pc \in {"first", "second"}
      <4>0. PICK d \in SUBSET Tenants : d = todo \ {t}
          OBVIOUS
      <4>1. PICK n \in Nat : n = scraper.total + leaseRequests[t]
          BY <2>0a, <3>2
      <4>2. scraper' = [scraper EXCEPT !.todo = d, !.total = n]
          BY <2>3, <3>1, <4>0, <4>1 DEF HandleStats, AddLeaseRequests
      <4>3. UNCHANGED <<served, leaseRequests, up>> /\ scraper.pc \in {"first", "second"}
          BY <2>3 DEF HandleStats, vars, counters
      <4>4. QED
          BY <2>0, <4>0, <4>1, <4>2, <4>3, ScraperUpdate
    <3>5. /\ Loaded(scraper.todo)' = Loaded(todo \ {t})
          /\ Loaded(Tenants \ scraper.todo)' = Loaded(Tenants \ (todo \ {t}))
        BY <3>4 DEF Loaded
    <3>6. CASE scraper.pc = "first"
        BY <2>0, <2>0a, <3>1, <3>2, <3>3, <3>4, <3>5, <3>6 DEF SInv
    <3>7. CASE scraper.pc = "second"
        BY <2>0, <2>0a, <3>1, <3>2, <3>3, <3>4, <3>5, <3>7 DEF SInv
    <3>8. QED
        BY <3>4, <3>6, <3>7
  <2>4. CASE FirstReturn
    <3>1. /\ scraper'.pc = "measure" /\ scraper'.s0 = scraper.total
          /\ scraper' \in ScraperType /\ UNCHANGED <<served, leaseRequests, up>>
          /\ scraper.pc = "first" /\ scraper.todo = {} /\ up
        BY <2>0, <2>0a, <2>4 DEF FirstReturn, vars, counters, SInv, ScraperType
    <3>2. Tenants \ scraper.todo = Tenants /\ Loaded(Tenants)' = Loaded(Tenants)
        BY <3>1 DEF Loaded
    <3>3. QED
        BY <2>0, <2>0a, <3>1, <3>2 DEF SInv
  <2>5. CASE SecondReturn \/ StatsError
      BY <2>5, OverFacts DEF SecondReturn, StatsError, SInv
  <2>6. ASSUME NEW h \in Handlers, NEW t \in Tenants, Lease(h, t) PROVE SInv'
    <3>1. /\ HandleLease(h, t) /\ up /\ UNCHANGED <<up, scraper>>
        BY <2>6 DEF Lease, HandleLease
    <3>2. /\ Loaded(Tenants)' = Loaded(Tenants) + 1
          /\ Loaded(scraper.todo)' = Loaded(scraper.todo)
               + (IF t \in scraper.todo THEN 1 ELSE 0)
          /\ Loaded(Tenants \ scraper.todo)' = Loaded(Tenants \ scraper.todo)
               + (IF t \in scraper.todo THEN 0 ELSE 1)
      <4>1. PICK todo \in SUBSET Tenants : todo = scraper.todo
          BY <2>0
      <4>2. /\ Loaded(Tenants)' = Loaded(Tenants) + 1
            /\ Loaded(todo)' = Loaded(todo) + (IF t \in todo THEN 1 ELSE 0)
            /\ Loaded(Tenants \ todo)' = Loaded(Tenants \ todo)
                 + (IF t \in Tenants \ todo THEN 1 ELSE 0)
          BY <3>1, LeaseLoads
      <4>3. scraper'.todo = todo
          BY <3>1, <4>1
      <4>4. QED
          BY <4>1, <4>2, <4>3 DEF Loaded
    <3>3. CASE ~Scraping
        BY <2>0, <2>0a, <2>6, <3>1, <3>3 DEF Lease, Scraping, SInv
    <3>4. CASE scraper.pc \in {"first", "second"}
      <4>1. served' = [served EXCEPT !.all = served.all + 1, !.between = served.between]
          BY <2>6, <3>4 DEF Lease, Scraping
      <4>2. /\ served'.all = served.all + 1 /\ served'.between = served.between
            /\ served'.restarted = served.restarted /\ served' \in ServedType
        <5>1. PICK a \in Nat : a = served.all + 1
            BY <2>0a
        <5>2. PICK b \in Nat : b = served.between
            BY <2>0a
        <5>3. QED
            BY <2>0, <4>1, <5>1, <5>2, ServedUpdate
      <4>3. QED
          BY <2>0, <2>0a, <3>1, <3>2, <3>4, <4>2 DEF SInv
    <3>5. CASE scraper.pc = "measure"
      <4>1. served' = [served EXCEPT !.all = served.all + 1, !.between = served.between + 1]
          BY <2>6, <3>5 DEF Lease, Scraping
      <4>2. /\ served'.all = served.all + 1 /\ served'.between = served.between + 1
            /\ served'.restarted = served.restarted /\ served' \in ServedType
        <5>1. PICK a \in Nat : a = served.all + 1
            BY <2>0a
        <5>2. PICK b \in Nat : b = served.between + 1
            BY <2>0a
        <5>3. QED
            BY <2>0, <4>1, <5>1, <5>2, ServedUpdate
      <4>3. QED
          BY <2>0, <2>0a, <3>1, <3>2, <3>5, <4>2 DEF SInv
    <3>6. QED
        BY <3>3, <3>4, <3>5 DEF Scraping
  <2>7. CASE ScrapeCrash
    <3>1. CASE scraper.pc \in {"first", "second"}
        BY <2>7, <3>1, OverFacts DEF ScrapeCrash, SInv
    <3>2. CASE scraper.pc \notin {"first", "second"}
      <4>1. /\ served' = [served EXCEPT !.restarted = Scraping]
            /\ scraper' = scraper /\ leaseRequests' = leaseRequests
          BY <2>7, <3>2 DEF ScrapeCrash, Crash, counters
      <4>2. /\ served'.restarted = Scraping /\ served'.all = served.all
            /\ served'.between = served.between /\ served' \in ServedType
        <5>1. Scraping \in BOOLEAN
            BY DEF Scraping
        <5>2. PICK r \in BOOLEAN : r = Scraping
            BY <5>1, Zenon
        <5>3. QED
            BY <2>0, <4>1, <5>2, ServedRestart
      <4>3. scraper.pc = "measure" => served'.restarted = TRUE
          BY <4>2 DEF Scraping
      <4>4. Loaded(Tenants)' = Loaded(Tenants)
          BY <4>1 DEF Loaded
      <4>5. QED
          BY <2>0, <2>0a, <3>2, <4>1, <4>2, <4>3, <4>4 DEF SInv
    <3>3. QED
        BY <3>1, <3>2
  <2>8. CASE Others
    <3>1. CASE Start
      <4>1. Loaded(Tenants)' <= Loaded(Tenants) /\ Loaded(Tenants)' \in Nat
        <5>1. Loaded(Tenants)' <= Loaded(Tenants)
            BY <3>1, StartLoads
        <5>2. \A s \in Tenants : leaseRequests'[s] \in Nat
            BY DEF TypeOK
        <5>3. QED
            BY <5>1, <5>2, CoordinatorAssumption, SumNat DEF Loaded
      <4>2. ~up /\ UNCHANGED <<scraper, served>>
          BY <2>8, <3>1 DEF Others, Start
      <4>3. scraper.pc \notin {"first", "second"}
          BY <4>2 DEF SInv
      <4>4. scraper.pc = "measure" => served.restarted = TRUE
          BY <4>2 DEF SInv
      <4>5. QED
          BY <2>0, <2>0a, <4>1, <4>2, <4>3, <4>4 DEF SInv
    <3>2. CASE ~Start
      <4>1. UNCHANGED <<leaseRequests, up, scraper, served>>
          BY <2>8, <3>2, QuietLoads
      <4>2. QED
          BY <4>1 DEF SInv, Loaded
    <3>3. QED
        BY <3>1, <3>2
  <2>9. CASE UNCHANGED scrapeVars
      BY <2>9 DEF scrapeVars, vars, counters, SInv, Loaded
  <2>10. QED
      BY <2>1, <2>2, <2>3, <2>4, <2>5, <2>6, <2>7, <2>8, <2>9 DEF ScrapeNext
<1>3. QED
    BY <1>1, <1>2, ScrapeObserves, TypeCorrect, PTL DEF ScrapeSpec

\* For every number of tenants and every order in which handleStats loads
\* their counters: the lease calls the baseline reports were all served while
\* it looked, and without a restart none between the scrapes is missing.
THEOREM DeltaIsHonest == ScrapeSpec => DeltaHonest
<1> DEFINE Honest == SecondReturn => /\ Renews <= served.all
                                     /\ ~served.restarted => Renews >= served.between
<1>1. SInv => Honest
  <2> SUFFICES ASSUME SInv, SecondReturn
               PROVE  /\ Renews <= served.all
                      /\ ~served.restarted => Renews >= served.between
      OBVIOUS
  <2>1. scraper.pc = "second" /\ scraper.todo = {}
      BY DEF SecondReturn
  <2>2. Loaded(scraper.todo) = 0
      BY <2>1, SumEmpty DEF Loaded
  <2>3. scraper.total \in Nat /\ scraper.s0 \in Nat /\ served.all \in Nat /\ served.between \in Nat
      BY DEF SInv, ScraperType, ServedType
  <2>4. ~served.restarted => served.restarted = FALSE
      BY DEF SInv, ServedType
  <2>5. /\ scraper.total <= scraper.s0 + served.all
        /\ served.restarted = FALSE => scraper.s0 + served.between <= scraper.total
      BY <2>1, <2>2, <2>3 DEF SInv
  <2>6. QED
      BY <2>3, <2>4, <2>5 DEF Renews
<1>2. QED
    BY <1>1, ScrapeInductive, PTL DEF DeltaHonest
=============================================================================
