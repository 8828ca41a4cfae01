-------------------------- MODULE AgentRuntimeProofs --------------------------
(***************************************************************************)
(* Proofs about AgentRuntime and its ledger, for any calls, estimates,     *)
(* usage reports and limits.  The queue first: the semaphore's waiters are *)
(* distinct, queued and not cancelled.  From it, that a call holds a       *)
(* reservation exactly while it is suspended, which every settlement       *)
(* relies on; then the budget bound and the rule that writers run once.    *)
(***************************************************************************)
EXTENDS AgentRuntime, FiniteSetTheorems, SequenceTheorems, TLAPS

USE LimitsAssumption, CallsAssumption, NoneAssumption, RuntimeAssumption

Places == {"admit"} \cup Suspended \cup Ended

(* The semaphore's pending futures belong to distinct, queued calls that   *)
(* nobody has cancelled.                                                   *)
PendingInv ==
  /\ \A i \in DOMAIN pending : /\ pc[pending[i]] = "queued"
                               /\ pending[i] \notin cancelled
  /\ \A i, j \in DOMAIN pending : pending[i] = pending[j] => i = j
  /\ \A c \in cancelled : pc[c] \in Suspended

ReservedInv == \A c \in Calls : reservations[c] # None <=> pc[c] \in Suspended

RuntimeInv == TypeOK /\ PendingInv /\ ReservedInv

-------------------------------------------------------------------------------
(* Min of three natural numbers. *)
LEMMA MinOfThree ==
  ASSUME NEW x \in Nat, NEW y \in Nat, NEW z \in Nat
  PROVE  /\ Min({x, y, z}) \in Nat
         /\ Min({x, y, z}) <= x /\ Min({x, y, z}) <= y /\ Min({x, y, z}) <= z
         /\ Min({x, y, z}) \in {x, y, z}
<1> DEFINE S == {x, y, z}
<1>1. \E m \in S : \A n \in S : m =< n
  <2>1. CASE x <= y /\ x <= z
    BY <2>1
  <2>2. CASE y <= x /\ y <= z
    BY <2>2
  <2>3. CASE z <= x /\ z <= y
    BY <2>3
  <2> QED
    BY <2>1, <2>2, <2>3
<1>2. Min(S) \in S /\ \A n \in S : Min(S) =< n
  BY <1>1 DEF Min
<1> QED
  BY <1>2

(* A sequence without its first k elements. *)
LEMMA DropFirst ==
  ASSUME NEW S, NEW s \in Seq(S), NEW k \in Nat, k <= Len(s)
  PROVE  /\ SubSeq(s, k + 1, Len(s)) \in Seq(S)
         /\ DOMAIN SubSeq(s, k + 1, Len(s)) = 1 .. Len(s) - k
         /\ \A i \in 1 .. Len(s) - k : SubSeq(s, k + 1, Len(s))[i] = s[k + i]
<1> DEFINE t == SubSeq(s, k + 1, Len(s))
<1>1. Len(s) \in Nat
  BY LenProperties
<1>2. \A i \in k + 1 .. Len(s) : s[i] \in S
  BY <1>1, ElementOfSeq
<1>3. /\ t \in Seq(S)
      /\ Len(t) = IF k + 1 <= Len(s) THEN Len(s) - (k + 1) + 1 ELSE 0
      /\ \A i \in 1 .. Len(s) - (k + 1) + 1 : t[i] = s[k + 1 + i - 1]
  <2>1. k + 1 \in Int /\ Len(s) \in Int
    BY <1>1
  <2> QED
    BY <1>2, <2>1, SubSeqProperties
<1> HIDE DEF t
<1>4. \A i \in 1 .. Len(s) - k :
        i \in 1 .. Len(s) - (k + 1) + 1 /\ k + 1 + i - 1 = k + i
  BY <1>1
<1>5. \A i \in 1 .. Len(s) - k : t[i] = s[k + i]
  BY <1>3, <1>4
<1>6. Len(t) = Len(s) - k
  BY <1>1, <1>3
<1>7. DOMAIN t = 1 .. Len(s) - k
  BY <1>3, <1>6, LenProperties
<1> QED
  BY <1>3, <1>5, <1>7 DEF t

-------------------------------------------------------------------------------
(* The ledger keeps its types. *)
LEMMA EstimateCostType ==
  ASSUME NEW usage \in Usage, NEW price \in MaybeNat
  PROVE  EstimateCost(usage, price) \in MaybeNat
BY DEF EstimateCost, Usage, MaybeNat

LEMMA ReserveType ==
  ASSUME LedgerTypeOK, NEW c \in Calls, NEW estimate \in Reservation,
         Reserve(c, estimate)
  PROVE  LedgerTypeOK'
BY DEF Reserve, LedgerTypeOK, Reservation, MaybeNat, Known

LEMMA SettleType ==
  ASSUME LedgerTypeOK, NEW c \in Calls, reservations[c] # None,
         NEW agent \in Agents, NEW usage \in Usage, NEW price \in MaybeNat,
         Settle(c, agent, usage, price)
  PROVE  LedgerTypeOK'
<1> DEFINE held   == reservations[c]
           actual == EstimateCost(usage, price)
           tokens == Known(usage.tokens, held.tokens)
           cost   == Known(actual, Known(held.cost, 0))
<1>1. held \in Reservation /\ held.tokens \in Nat /\ held.cost \in MaybeNat
  BY DEF LedgerTypeOK, Reservation
<1>2. usage.tokens \in MaybeNat /\ usage.cost \in MaybeNat
  BY DEF Usage
<1>3. actual \in MaybeNat
  BY EstimateCostType
<1>4. tokens \in Nat /\ Known(held.cost, 0) \in Nat /\ Known(usage.cost, 0) \in Nat
  BY <1>1, <1>2 DEF Known, MaybeNat
<1>5. cost \in Nat
  BY <1>3, <1>4 DEF Known, MaybeNat
<1>6. \A s \in Summary : AddSummary(s, usage, actual, cost) \in Summary
  BY <1>4, <1>5 DEF AddSummary, Summary
<1>7. Above(tokens, held.tokens) \in Nat /\ Above(cost, Known(held.cost, 0)) \in Nat
  BY <1>1, <1>4, <1>5 DEF Above
<1>8. /\ reservations' = [reservations EXCEPT ![c] = None]
      /\ reservedTokens' = reservedTokens - held.tokens
      /\ reservedCost' = reservedCost - Known(held.cost, 0)
      /\ committedTokens' = committedTokens + tokens
      /\ committedCost' = committedCost + cost
      /\ byAgent' = [byAgent EXCEPT ![agent] =
                       AddSummary(byAgent[agent], usage, actual, cost)]
      /\ excessTokens' = excessTokens + Above(tokens, held.tokens)
      /\ excessCost' = excessCost + Above(cost, Known(held.cost, 0))
      /\ UNCHANGED calls
  BY DEF Settle
<1> HIDE DEF held, actual, tokens, cost
<1>9. byAgent' \in [Agents -> Summary]
  BY <1>6, <1>8 DEF LedgerTypeOK
<1>10. reservations' \in [Calls -> Reservation \cup {None}]
  BY <1>8 DEF LedgerTypeOK
<1> QED
  BY <1>1, <1>4, <1>5, <1>7, <1>8, <1>9, <1>10 DEF LedgerTypeOK

-------------------------------------------------------------------------------
(* A step by which call c leaves its place and wakes waiters.  The calls   *)
(* that are woken stay suspended, nobody else moves.                       *)
LEMMA WakeStep ==
  ASSUME TypeOK, PendingInv, NEW c \in Calls, NEW place \in Places,
         NEW free \in Nat, NEW most \in Nat, GoAndWake(c, place, free, most),
         pc[c] # "queued" \/ c \in cancelled,
         cancelled' \subseteq cancelled \ {c}
  PROVE  /\ permits' \in Nat /\ pending' \in Seq(Calls) /\ pc' \in [Calls -> Places]
         /\ PendingInv'
         /\ pc'[c] = place
         /\ \A d \in Calls \ {c} : pc'[d] \in Suspended <=> pc[d] \in Suspended
         /\ \A d \in Calls \ {c} : pc'[d] \in Ended <=> pc[d] \in Ended
<1>1. /\ pending \in Seq(Calls) /\ Len(pending) \in Nat
      /\ DOMAIN pending = 1 .. Len(pending)
      /\ \A i \in 1 .. Len(pending) : pending[i] \in Calls
  BY LenProperties, ElementOfSeq DEF TypeOK
<1>2. PICK k : k = Min({free, most, Len(pending)})
  OBVIOUS
<1>3. /\ permits' = free - k
      /\ pending' = SubSeq(pending, k + 1, Len(pending))
      /\ pc' = [d \in Calls |->
                  IF d = c THEN place
                  ELSE IF \E i \in 1 .. k : pending[i] = d THEN "granted"
                  ELSE pc[d]]
  BY <1>2 DEF GoAndWake
<1>4. k \in Nat /\ k <= free /\ k <= Len(pending)
  BY <1>2, <1>1, MinOfThree
<1>5. /\ pending' \in Seq(Calls)
      /\ DOMAIN pending' = 1 .. Len(pending) - k
      /\ \A i \in 1 .. Len(pending) - k : pending'[i] = pending[k + i]
  BY <1>3, <1>1, <1>4, DropFirst
<1>6. pc \in [Calls -> Places] /\ "granted" \in Places
  BY DEF TypeOK, Places, Suspended
<1>7. \A i \in 1 .. Len(pending) : pending[i] # c /\ pc[pending[i]] = "queued"
  BY <1>1 DEF PendingInv
<1>8. permits' \in Nat /\ pc' \in [Calls -> Places] /\ pc'[c] = place
  BY <1>4, <1>3, <1>1, <1>6
<1>9. ASSUME NEW d \in Calls \ {c}
      PROVE  /\ pc'[d] \in Suspended <=> pc[d] \in Suspended
             /\ pc'[d] \in Ended <=> pc[d] \in Ended
  <2>1. CASE \E i \in 1 .. k : pending[i] = d
    <3>1. pc[d] = "queued"
      BY <1>4, <1>1, <1>7, <2>1
    <3>2. pc'[d] = "granted"
      BY <1>3, <2>1
    <3> QED
      BY <3>1, <3>2 DEF Suspended, Ended
  <2>2. CASE ~ \E i \in 1 .. k : pending[i] = d
    BY <1>3, <2>2
  <2> QED
    BY <2>1, <2>2
<1>10. ASSUME NEW i \in DOMAIN pending'
      PROVE  /\ pc'[pending'[i]] = "queued" /\ pending'[i] \notin cancelled'
             /\ k + i \in DOMAIN pending /\ pending'[i] = pending[k + i]
  <2>1. i \in 1 .. Len(pending) - k
    BY <1>5, <1>10
  <2>2. i \in Nat /\ i >= 1 /\ k + i <= Len(pending)
    BY <2>1, <1>4, <1>1
  <2>3. k + i \in 1 .. Len(pending) /\ pending'[i] = pending[k + i]
    BY <2>1, <1>4, <1>5, <1>1, <2>2
  <2>4. \A j \in 1 .. k : pending[j] # pending[k + i]
    <3>1. ASSUME NEW j \in 1 .. k
          PROVE  j \in 1 .. Len(pending) /\ j # k + i
      BY <1>1, <1>4, <2>2
    <3> QED
      BY <1>1, <2>3, <3>1 DEF PendingInv
  <2>5. pc'[pending'[i]] = pc[pending[k + i]]
    BY <1>3, <1>1, <1>7, <2>3, <2>4
  <2> QED
    BY <1>1, <1>7, <2>3, <2>5 DEF PendingInv
<1>11. ASSUME NEW i \in DOMAIN pending', NEW j \in DOMAIN pending',
             pending'[i] = pending'[j]
      PROVE  i = j
  <2>1. k + i = k + j
    BY <1>10, <1>11 DEF PendingInv
  <2> QED
    BY <1>4, <1>5, <1>1, <2>1
<1>12. \A d \in cancelled' : pc'[d] \in Suspended
  BY <1>9 DEF PendingInv, TypeOK
<1> QED
  BY <1>5, <1>8, <1>9, <1>10, <1>11, <1>12 DEF PendingInv

(* Call c goes for a permit. *)
LEMMA AcquireStep ==
  ASSUME TypeOK, PendingInv, NEW c \in Calls, Acquire(c), pc[c] = "admit",
         UNCHANGED cancelled
  PROVE  /\ permits' \in Nat /\ pending' \in Seq(Calls) /\ pc' \in [Calls -> Places]
         /\ PendingInv'
         /\ pc'[c] \in Suspended
         /\ \A d \in Calls \ {c} : pc'[d] = pc[d]
<1>1. /\ pending \in Seq(Calls) /\ Len(pending) \in Nat /\ permits \in Nat
      /\ DOMAIN pending = 1 .. Len(pending)
      /\ \A i \in 1 .. Len(pending) : pending[i] \in Calls
  BY LenProperties, ElementOfSeq DEF TypeOK
<1>2. pc \in [Calls -> Places]
  BY DEF TypeOK, Places
<1>3. \A i \in 1 .. Len(pending) : pending[i] # c
  BY <1>1 DEF PendingInv
<1>6. /\ c \notin cancelled
      /\ \A d \in cancelled : d \in Calls /\ d # c /\ pc[d] \in Suspended
  BY DEF PendingInv, TypeOK, Suspended
<1>4. CASE ~Locked /\ permits' = permits - 1 /\ UNCHANGED pending
           /\ pc' = [pc EXCEPT ![c] = "running"]
  <2>1. \A i \in DOMAIN pending : pc'[pending[i]] = pc[pending[i]]
    BY <1>1, <1>2, <1>3, <1>4
  <2>2. PendingInv'
    BY <1>2, <1>4, <1>6, <2>1 DEF PendingInv
  <2> QED
    BY <1>1, <1>2, <1>4, <2>2 DEF Locked, Places, Suspended
<1>5. CASE pending' = Append(pending, c) /\ UNCHANGED permits
           /\ pc' = [pc EXCEPT ![c] = "queued"]
  <2>1. /\ pending' \in Seq(Calls)
        /\ DOMAIN pending' = 1 .. Len(pending) + 1
        /\ \A i \in 1 .. Len(pending) : pending'[i] = pending[i]
        /\ pending'[Len(pending) + 1] = c
    BY <1>1, <1>5, AppendProperties, LenProperties
  <2>2. \A i \in DOMAIN pending' :
          pc'[pending'[i]] = "queued" /\ pending'[i] \notin cancelled'
    BY <1>1, <1>2, <1>3, <1>5, <1>6, <2>1 DEF PendingInv
  <2>3. \A i, j \in DOMAIN pending' : pending'[i] = pending'[j] => i = j
    <3>1. \A i, j \in 1 .. Len(pending) : pending[i] = pending[j] => i = j
      BY <1>1 DEF PendingInv
    <3> SUFFICES ASSUME NEW i \in DOMAIN pending', NEW j \in DOMAIN pending',
                        pending'[i] = pending'[j], i # j
                 PROVE  FALSE
      OBVIOUS
    <3>2. CASE i \in 1 .. Len(pending) /\ j \in 1 .. Len(pending)
      BY <2>1, <3>1, <3>2
    <3>3. CASE i = Len(pending) + 1 /\ j \in 1 .. Len(pending)
      BY <1>3, <2>1, <3>3
    <3>4. CASE j = Len(pending) + 1 /\ i \in 1 .. Len(pending)
      BY <1>3, <2>1, <3>4
    <3> QED
      BY <1>1, <2>1, <3>2, <3>3, <3>4
  <2>4. \A d \in cancelled' : pc'[d] \in Suspended
    BY <1>2, <1>5, <1>6
  <2> QED
    BY <1>1, <1>2, <1>5, <2>1, <2>2, <2>3, <2>4 DEF PendingInv, Places, Suspended
<1> QED
  BY <1>4, <1>5 DEF Acquire

-------------------------------------------------------------------------------
(* Removing the only occurrence of a call from the queue keeps the others  *)
(* queued and distinct.                                                    *)
LEMMA RemoveAtDistinct ==
  ASSUME NEW S, NEW s \in Seq(S), NEW k \in DOMAIN s,
         \A i, j \in DOMAIN s : s[i] = s[j] => i = j
  PROVE  LET t == RemoveAt(s, k)
         IN  /\ t \in Seq(S)
             /\ \A i \in DOMAIN t : \E m \in DOMAIN s : m # k /\ t[i] = s[m]
             /\ \A i, j \in DOMAIN t : t[i] = t[j] => i = j
<1> DEFINE a == SubSeq(s, 1, k - 1)
           b == SubSeq(s, k + 1, Len(s))
           t == RemoveAt(s, k)
<1>1. Len(s) \in Nat /\ DOMAIN s = 1 .. Len(s) /\ k \in Nat /\ 1 <= k /\ k <= Len(s)
  BY LenProperties
<1>2. a \in Seq(S) /\ Len(a) = k - 1 /\ \A i \in 1 .. k - 1 : a[i] = s[i]
  <2>1. \A i \in 1 .. k - 1 : s[i] \in S
    BY <1>1, ElementOfSeq
  <2>2. /\ a \in Seq(S)
        /\ Len(a) = IF 1 <= k - 1 THEN (k - 1) - 1 + 1 ELSE 0
        /\ \A i \in 1 .. (k - 1) - 1 + 1 : a[i] = s[1 + i - 1]
    BY <1>1, <2>1, SubSeqProperties
  <2> QED
    BY <1>1, <2>2
<1>3. b \in Seq(S) /\ Len(b) = Len(s) - k /\ \A i \in 1 .. Len(s) - k : b[i] = s[k + i]
  <2>1. /\ b \in Seq(S) /\ DOMAIN b = 1 .. Len(s) - k
        /\ \A i \in 1 .. Len(s) - k : b[i] = s[k + i]
    BY <1>1, DropFirst
  <2> QED
    BY <1>1, <2>1, LenProperties
<1>4. t = a \o b
  BY DEF RemoveAt
<1> HIDE DEF a, b, t
<1>5. /\ t \in Seq(S) /\ Len(t) = Len(s) - 1
      /\ \A i \in 1 .. Len(t) : t[i] = IF i <= k - 1 THEN a[i] ELSE b[i - (k - 1)]
  <2>1. /\ a \o b \in Seq(S) /\ Len(a \o b) = Len(a) + Len(b)
        /\ \A i \in 1 .. Len(a) + Len(b) :
             (a \o b)[i] = IF i <= Len(a) THEN a[i] ELSE b[i - Len(a)]
    <3>1. a \in Seq(S) /\ b \in Seq(S)
      BY <1>2, <1>3
    <3> QED
      BY <3>1, ConcatProperties
  <2>2. Len(a) + Len(b) = Len(s) - 1
    BY <1>1, <1>2, <1>3
  <2> QED
    BY <1>2, <1>4, <2>1, <2>2
<1>6. DOMAIN t = 1 .. Len(s) - 1
  BY <1>5, LenProperties
<1> DEFINE from(i) == IF i <= k - 1 THEN i ELSE i + 1
<1>7. ASSUME NEW i \in DOMAIN t
      PROVE  from(i) \in DOMAIN s /\ from(i) # k /\ t[i] = s[from(i)]
  <2>1. CASE i <= k - 1
    BY <1>1, <1>2, <1>5, <1>6, <2>1
  <2>2. CASE i > k - 1
    <3>1. /\ i - (k - 1) \in 1 .. Len(s) - k /\ k + (i - (k - 1)) = i + 1
          /\ i + 1 \in 1 .. Len(s) /\ i + 1 # k
      BY <1>1, <1>6, <2>2
    <3>2. t[i] = b[i - (k - 1)]
      <4>1. i \in 1 .. Len(t) /\ ~(i <= k - 1)
        BY <1>1, <1>5, <1>6, <2>2
      <4> QED
        BY <1>5, <4>1
    <3> QED
      BY <1>1, <1>3, <1>6, <2>2, <3>1, <3>2
  <2> QED
    BY <1>1, <1>6, <2>1, <2>2
<1>8. ASSUME NEW i \in DOMAIN t, NEW j \in DOMAIN t, t[i] = t[j]
      PROVE  i = j
  <2>1. from(i) = from(j)
    BY <1>7, <1>8
  <2> QED
    BY <1>1, <1>6, <2>1
<1> QED
  BY <1>5, <1>7, <1>8 DEF t

(* A suspended call is settled and leaves for a place where it holds no    *)
(* reservation, waking waiters on its way.                                 *)
LEMMA SettleStep ==
  ASSUME RuntimeInv, NEW c \in Calls, pc[c] \in Suspended,
         pc[c] # "queued" \/ c \in cancelled,
         NEW usage \in Usage, Settle(c, AgentOf[c], usage, Price[c]),
         NEW place \in Places \ Suspended, NEW free \in Nat, NEW most \in Nat,
         GoAndWake(c, place, free, most),
         cancelled' = cancelled \ {c},
         attempt' \in [Calls -> Nat], validation' \in [Calls -> Nat], Recorded(c)
  PROVE  RuntimeInv'
<1>1. /\ TypeOK /\ LedgerTypeOK /\ PendingInv /\ ReservedInv
      /\ reservations \in [Calls -> Reservation \cup {None}]
      /\ invocations \in [Calls -> Nat] /\ cancelled \subseteq Calls
  BY DEF RuntimeInv, TypeOK, LedgerTypeOK
<1>2. /\ permits' \in Nat /\ pending' \in Seq(Calls) /\ pc' \in [Calls -> Places]
      /\ PendingInv'
      /\ pc'[c] = place
      /\ \A d \in Calls \ {c} : pc'[d] \in Suspended <=> pc[d] \in Suspended
  BY <1>1, WakeStep
<1>3. reservations[c] # None /\ AgentOf[c] \in Agents /\ Price[c] \in MaybeNat
  BY <1>1 DEF ReservedInv
<1>4. LedgerTypeOK'
  BY <1>1, <1>3, SettleType
<1>5. reservations' = [reservations EXCEPT ![c] = None]
  BY DEF Settle
<1>6. ReservedInv'
  BY <1>1, <1>2, <1>5 DEF ReservedInv
<1>7. invocations' \in [Calls -> Nat]
  BY <1>1 DEF Recorded
<1> QED
  BY <1>1, <1>2, <1>4, <1>6, <1>7 DEF RuntimeInv, TypeOK, Places

(* The queue and the ledger stay in step with the calls: no action leaves  *)
(* a suspended call without its reservation or the other way round.        *)
LEMMA RuntimeStep ==
  ASSUME RuntimeInv, [Next]_vars
  PROVE  RuntimeInv'
<1>1. /\ TypeOK /\ LedgerTypeOK /\ PendingInv /\ ReservedInv
      /\ pc \in [Calls -> Places] /\ permits \in Nat
      /\ reservations \in [Calls -> Reservation \cup {None}]
      /\ pending \in Seq(Calls) /\ Len(pending) \in Nat
      /\ attempt \in [Calls -> Nat] /\ validation \in [Calls -> Nat]
      /\ invocations \in [Calls -> Nat] /\ cancelled \subseteq Calls
  BY LenProperties DEF RuntimeInv, TypeOK, LedgerTypeOK, Places
<1>2. \A c \in cancelled : pc[c] \in Suspended
  BY <1>1 DEF PendingInv
<1>3. CASE UNCHANGED vars
  BY <1>1, <1>3 DEF vars, ledgerVars, runtimeVars, RuntimeInv, TypeOK,
     LedgerTypeOK, PendingInv, ReservedInv
<1>4. ASSUME NEW c \in Calls, Admit(c) PROVE RuntimeInv'
  <2>1. /\ pc[c] = "admit"
        /\ UNCHANGED <<attempt, validation, cancelled, invocations>>
    BY <1>4 DEF Admit
  <2>2. ASSUME NEW estimate \in Reservation, Reserve(c, estimate), Acquire(c)
        PROVE  RuntimeInv'
    <3>1. LedgerTypeOK'
      BY <1>1, <2>2, ReserveType
    <3>2. /\ permits' \in Nat /\ pending' \in Seq(Calls)
          /\ pc' \in [Calls -> Places] /\ PendingInv'
          /\ pc'[c] \in Suspended
          /\ \A d \in Calls \ {c} : pc'[d] = pc[d]
      BY <1>1, <2>1, <2>2, AcquireStep
    <3>3. reservations' = [reservations EXCEPT ![c] = estimate]
      BY <2>2 DEF Reserve
    <3>4. ReservedInv'
      BY <1>1, <3>2, <3>3 DEF ReservedInv
    <3> QED
      BY <1>1, <2>1, <3>1, <3>2, <3>4 DEF RuntimeInv, TypeOK, Places
  <2>3. ASSUME pc' = [pc EXCEPT ![c] = "budget"],
               UNCHANGED <<ledgerVars, permits, pending>>
        PROVE  RuntimeInv'
    <3>1. /\ pc' \in [Calls -> Places] /\ pc'[c] = "budget"
          /\ \A d \in Calls \ {c} : pc'[d] = pc[d]
      BY <1>1, <2>3 DEF Places, Ended
    <3>2. pc[c] # "queued" /\ c \notin cancelled
      BY <1>2, <2>1 DEF Suspended
    <3>3. \A i \in DOMAIN pending : pending[i] \in Calls /\ pending[i] # c
      BY <1>1, <3>2, LenProperties, ElementOfSeq DEF PendingInv
    <3>4. PendingInv'
      BY <1>1, <2>1, <2>3, <3>1, <3>2, <3>3 DEF PendingInv
    <3>5. ReservedInv'
      BY <1>1, <2>1, <2>3, <3>1 DEF ReservedInv, ledgerVars, Suspended
    <3>6. LedgerTypeOK'
      BY <1>1, <2>3 DEF LedgerTypeOK, ledgerVars
    <3> QED
      BY <1>1, <2>1, <2>3, <3>1, <3>4, <3>5, <3>6 DEF RuntimeInv, TypeOK, Places
  <2>4. ASSUME NEW tokens \in Estimates
        PROVE  LET usage == [tokens |-> tokens, cost |-> None]
               IN  [tokens |-> tokens, cost |-> EstimateCost(usage, Price[c])]
                     \in Reservation
    <3>1. [tokens |-> tokens, cost |-> None] \in Usage
      BY DEF Usage, MaybeNat
    <3>2. EstimateCost([tokens |-> tokens, cost |-> None], Price[c]) \in MaybeNat
      BY <3>1, EstimateCostType
    <3> QED
      BY <3>2 DEF Reservation
  <2> QED
    BY <1>4, <2>2, <2>3, <2>4 DEF Admit
<1>5. ASSUME NEW c \in Calls, Start(c) PROVE RuntimeInv'
  <2>1. /\ permits' \in Nat /\ pending' \in Seq(Calls) /\ pc' \in [Calls -> Places]
        /\ PendingInv'
        /\ pc'[c] = "running"
        /\ \A d \in Calls \ {c} : pc'[d] \in Suspended <=> pc[d] \in Suspended
    <3>1. "running" \in Places
      BY DEF Places, Suspended
    <3>2. pc[c] # "queued" /\ cancelled' \subseteq cancelled \ {c}
      BY <1>5 DEF Start
    <3>3. PICK most \in Nat : GoAndWake(c, "running", permits, most)
      BY <1>1, <1>5 DEF Start
    <3> QED
      BY <1>1, <3>1, <3>2, <3>3, WakeStep
  <2>2. /\ pc[c] = "granted"
        /\ UNCHANGED <<ledgerVars, attempt, validation, cancelled, invocations>>
    BY <1>5 DEF Start
  <2>3. ReservedInv'
    BY <1>1, <2>1, <2>2 DEF ReservedInv, ledgerVars, Suspended
  <2>4. LedgerTypeOK'
    BY <1>1, <2>2 DEF LedgerTypeOK, ledgerVars
  <2> QED
    BY <1>1, <2>1, <2>2, <2>3, <2>4 DEF RuntimeInv, TypeOK, Places
<1>6. \A c \in Calls : pc[c] = "running" => pc[c] \in Suspended /\ pc[c] # "queued"
  BY DEF Suspended
<1>7. /\ "admit" \in Places \ Suspended
      /\ \A place \in Ended : place \in Places \ Suspended
  BY DEF Places, Suspended, Ended
<1>8. permits + 1 \in Nat /\ 1 \in Nat
  BY <1>1
<1>9. Usages \subseteq Usage /\ Unknown \in Usage
  BY DEF Usage, Unknown, MaybeNat
<1>10. ASSUME NEW c \in Calls, pc[c] = "running", c \notin cancelled,
              UNCHANGED cancelled,
              NEW usage \in Usage, Settle(c, AgentOf[c], usage, Price[c]),
              NEW place \in Places \ Suspended, Release(c, place),
              attempt' \in [Calls -> Nat], validation' \in [Calls -> Nat],
              Recorded(c)
       PROVE  RuntimeInv'
  <2>1. cancelled' = cancelled \ {c}
    BY <1>10
  <2>2. GoAndWake(c, place, permits + 1, 1)
    BY <1>10 DEF Release
  <2> QED
    BY <1>6, <1>8, <1>10, <2>1, <2>2, SettleStep
<1>11. ASSUME NEW c \in Calls, Succeed(c) PROVE RuntimeInv'
  <2>1. PICK usage \in Usage : Settle(c, AgentOf[c], usage, Price[c])
    BY <1>9, <1>11 DEF Succeed
  <2>2. PICK place \in {"ok", "admit", "contract"} : Release(c, place)
    BY <1>11 DEF Succeed
  <2>3. place \in Places \ Suspended
    BY <2>2, <1>7 DEF Ended
  <2>4. attempt' \in [Calls -> Nat] /\ validation' \in [Calls -> Nat]
    <3>1. /\ attempt' \in {attempt, [attempt EXCEPT ![c] = 1]}
          /\ validation' \in {validation, [validation EXCEPT ![c] = validation[c] + 1]}
      BY <1>11 DEF Succeed
    <3>2. /\ [attempt EXCEPT ![c] = 1] \in [Calls -> Nat]
          /\ [validation EXCEPT ![c] = validation[c] + 1] \in [Calls -> Nat]
      BY <1>1
    <3> QED
      BY <1>1, <3>1, <3>2
  <2> QED
    BY <1>10, <1>11, <2>1, <2>2, <2>3, <2>4 DEF Succeed
<1>12. ASSUME NEW c \in Calls, Fail(c) PROVE RuntimeInv'
  <2>1. PICK usage \in Usage : Settle(c, AgentOf[c], usage, Price[c])
    BY <1>9, <1>12 DEF Fail
  <2>2. PICK place \in {"budget", "admit", "failed"} : Release(c, place)
    BY <1>12 DEF Fail
  <2>3. place \in Places \ Suspended
    BY <2>2, <1>7 DEF Ended
  <2>4. attempt' \in [Calls -> Nat] /\ validation' \in [Calls -> Nat]
    <3>1. /\ attempt' \in {attempt, [attempt EXCEPT ![c] = attempt[c] + 1]}
          /\ validation' = validation
      BY <1>12 DEF Fail
    <3>2. [attempt EXCEPT ![c] = attempt[c] + 1] \in [Calls -> Nat]
      BY <1>1
    <3> QED
      BY <1>1, <3>1, <3>2
  <2> QED
    BY <1>10, <1>12, <2>1, <2>2, <2>3, <2>4 DEF Fail
<1>13. ASSUME NEW c \in Calls, Cancel(c) PROVE RuntimeInv'
  <2>1. /\ pc[c] \in Suspended /\ c \notin cancelled /\ cancelled' = cancelled \cup {c}
        /\ UNCHANGED <<ledgerVars, pc, attempt, validation, permits, invocations>>
    BY <1>13 DEF Cancel
  <2>2. pending' \in Seq(Calls) /\ PendingInv'
    <3>1. CASE pc[c] # "queued" /\ UNCHANGED pending
      BY <1>1, <2>1, <3>1 DEF PendingInv
    <3>2. ASSUME NEW k \in DOMAIN pending, pending[k] = c,
                 pending' = RemoveAt(pending, k)
          PROVE  pending' \in Seq(Calls) /\ PendingInv'
      <4>1. /\ pending' \in Seq(Calls)
            /\ \A i \in DOMAIN pending' :
                  \E m \in DOMAIN pending : m # k /\ pending'[i] = pending[m]
            /\ \A i, j \in DOMAIN pending' : pending'[i] = pending'[j] => i = j
        BY <1>1, <3>2, RemoveAtDistinct DEF PendingInv
      <4>2. \A m \in DOMAIN pending : m # k => pending[m] # c
        BY <1>1, <3>2 DEF PendingInv
      <4>3. \A i \in DOMAIN pending' :
              pc'[pending'[i]] = "queued" /\ pending'[i] \notin cancelled'
        <5>1. \A m \in DOMAIN pending :
                pc[pending[m]] = "queued" /\ pending[m] \notin cancelled
          BY <1>1 DEF PendingInv
        <5> QED
          BY <2>1, <4>1, <4>2, <5>1
      <4>4. \A d \in cancelled' : pc'[d] \in Suspended
        BY <1>2, <2>1
      <4> QED
        BY <4>1, <4>3, <4>4 DEF PendingInv
    <3> QED
      BY <1>13, <3>1, <3>2 DEF Cancel
  <2>3. ReservedInv' /\ LedgerTypeOK'
    BY <1>1, <2>1 DEF ReservedInv, LedgerTypeOK, ledgerVars
  <2> QED
    BY <1>1, <2>1, <2>2, <2>3 DEF RuntimeInv, TypeOK, Places
<1>14. ASSUME NEW c \in Calls, Abort(c) PROVE RuntimeInv'
  <2>1. /\ pc[c] \in Suspended /\ c \in cancelled
        /\ Settle(c, AgentOf[c], Unknown, Price[c]) /\ Recorded(c)
        /\ cancelled' = cancelled \ {c} /\ UNCHANGED <<attempt, validation>>
    BY <1>14 DEF Abort
  <2>2. PICK free \in Nat, most \in Nat : GoAndWake(c, "cancelled", free, most)
    <3>1. permits + 1 \in Nat /\ {0, 1, Len(pending)} \subseteq Nat
      BY <1>1
    <3> QED
      BY <1>1, <1>14, <3>1 DEF Abort, Withdraw, Release
  <2>3. "cancelled" \in Places \ Suspended
    BY <1>7 DEF Ended
  <2>4. attempt' \in [Calls -> Nat] /\ validation' \in [Calls -> Nat]
    BY <1>1, <2>1
  <2> QED
    BY <1>1, <1>8, <1>9, <2>1, <2>2, <2>3, <2>4, SettleStep
<1> QED
  BY <1>3, <1>4, <1>5, <1>11, <1>12, <1>13, <1>14 DEF Next, Proceed, Terminated

LEMMA RuntimeInit == Init => RuntimeInv
<1> SUFFICES ASSUME Init PROVE RuntimeInv
  OBVIOUS
<1>1. LedgerTypeOK
  BY DEF Init, LedgerInit, LedgerTypeOK, Summary
<1>2. TypeOK
  BY <1>1, EmptySeq DEF Init, TypeOK
<1>3. PendingInv /\ ReservedInv
  BY DEF Init, LedgerInit, PendingInv, ReservedInv, Suspended
<1> QED
  BY <1>2, <1>3 DEF RuntimeInv

(* RuntimeInv is inductive. *)
LEMMA RuntimeInvariant == Spec => []RuntimeInv
BY RuntimeInit, RuntimeStep, PTL DEF Spec

(* The runtime and its ledger keep their types. *)
THEOREM RuntimeTypes == Spec => []TypeOK
<1>1. RuntimeInv => TypeOK
  BY DEF RuntimeInv
<1> QED
  BY <1>1, RuntimeInvariant, PTL

(* The calls that hold a reservation are exactly those that wait for a     *)
(* permit or whose provider runs: no way out of a call leaks one.          *)
THEOREM ReservationsSettled == Spec => []NoReservationLeaked
<1>1. RuntimeInv => NoReservationLeaked
  BY DEF RuntimeInv, ReservedInv, Outstanding, At, NoReservationLeaked
<1> QED
  BY <1>1, RuntimeInvariant, PTL

-------------------------------------------------------------------------------
(* Admission keeps the books within the limits, and settling a call moves  *)
(* them past a limit by no more than the call's excess.                    *)
LEMMA ReserveBound ==
  ASSUME LedgerTypeOK, NEW c \in Calls, NEW estimate \in Reservation,
         Reserve(c, estimate)
  PROVE  AdmissionBound'
<1>1. estimate.tokens \in Nat /\ estimate.cost \in MaybeNat
  BY DEF Reservation
<1>2. MaxCost > 0 => Known(estimate.cost, 0) = estimate.cost /\ estimate.cost \in Nat
  BY <1>1 DEF Reserve, Admissible, Known, MaybeNat
<1>3. Known(estimate.cost, 0) \in Nat
  BY <1>1 DEF Known, MaybeNat
<1> QED
  BY <1>1, <1>2, <1>3 DEF Reserve, Admissible, AdmissionBound, LedgerTypeOK

LEMMA SettleBound ==
  ASSUME LedgerTypeOK, AdmissionBound, NEW c \in Calls, reservations[c] # None,
         NEW agent, NEW usage \in Usage, NEW price \in MaybeNat,
         Settle(c, agent, usage, price)
  PROVE  AdmissionBound'
<1> DEFINE held   == reservations[c]
           actual == EstimateCost(usage, price)
           tokens == Known(usage.tokens, held.tokens)
           cost   == Known(actual, Known(held.cost, 0))
<1>1. held.tokens \in Nat /\ held.cost \in MaybeNat
  BY DEF LedgerTypeOK, Reservation
<1>2. tokens \in Nat /\ Known(held.cost, 0) \in Nat
  BY <1>1 DEF Known, MaybeNat, Usage
<1>3. cost \in Nat
  BY <1>2, EstimateCostType DEF Known, MaybeNat
<1>4. /\ reservedTokens' = reservedTokens - held.tokens
      /\ reservedCost' = reservedCost - Known(held.cost, 0)
      /\ committedTokens' = committedTokens + tokens
      /\ committedCost' = committedCost + cost
      /\ excessTokens' = excessTokens + Above(tokens, held.tokens)
      /\ excessCost' = excessCost + Above(cost, Known(held.cost, 0))
  BY DEF Settle
<1> HIDE DEF held, actual, tokens, cost
<1>5. /\ tokens - held.tokens <= Above(tokens, held.tokens)
      /\ cost - Known(held.cost, 0) <= Above(cost, Known(held.cost, 0))
      /\ Above(tokens, held.tokens) \in Nat
      /\ Above(cost, Known(held.cost, 0)) \in Nat
  BY <1>1, <1>2, <1>3 DEF Above
<1> QED
  BY <1>1, <1>2, <1>3, <1>4, <1>5 DEF AdmissionBound, LedgerTypeOK

(* The budget is never overbooked by admissions: whatever calls overlap,   *)
(* the books pass a limit only by what calls used beyond their estimates.  *)
THEOREM BudgetNeverOverbooked == Spec => []AdmissionBound
<1>1. Init => AdmissionBound
  BY DEF Init, LedgerInit, AdmissionBound
<1>2. ASSUME RuntimeInv, AdmissionBound, [Next]_vars
      PROVE  AdmissionBound'
  <2>1. /\ LedgerTypeOK
        /\ \A c \in Calls : /\ reservations[c] # None <=> pc[c] \in Suspended
                           /\ AgentOf[c] \in Agents /\ Price[c] \in MaybeNat
    BY <1>2 DEF RuntimeInv, TypeOK, ReservedInv
  <2>2. CASE UNCHANGED ledgerVars
    BY <1>2, <2>2 DEF ledgerVars, AdmissionBound
  <2>3. ASSUME NEW c \in Calls, Admit(c) PROVE AdmissionBound'
    <3>1. CASE UNCHANGED ledgerVars
      BY <2>2, <3>1
    <3>2. ASSUME NEW tokens \in Estimates,
                 LET usage == [tokens |-> tokens, cost |-> None]
                 IN  Reserve(c, [tokens |-> tokens,
                                 cost |-> EstimateCost(usage, Price[c])])
          PROVE  AdmissionBound'
      <4>1. [tokens |-> tokens, cost |-> None] \in Usage
        BY DEF Usage, MaybeNat
      <4>2. [tokens |-> tokens,
             cost |-> EstimateCost([tokens |-> tokens, cost |-> None], Price[c])]
               \in Reservation
        BY <2>1, <4>1, EstimateCostType DEF Reservation
      <4> QED
        BY <2>1, <3>2, <4>2, ReserveBound
    <3> QED
      BY <2>3, <3>1, <3>2 DEF Admit
  <2>4. ASSUME NEW c \in Calls, pc[c] \in Suspended, NEW usage \in Usage,
               Settle(c, AgentOf[c], usage, Price[c])
        PROVE  AdmissionBound'
    BY <1>2, <2>1, <2>4, SettleBound
  <2>5. Usages \subseteq Usage /\ Unknown \in Usage
    BY DEF Usage, Unknown, MaybeNat
  <2>6. ASSUME NEW c \in Calls, Succeed(c) \/ Fail(c) \/ Abort(c)
        PROVE  AdmissionBound'
    BY <2>4, <2>5, <2>6 DEF Succeed, Fail, Abort, Suspended
  <2>7. ASSUME NEW c \in Calls, Start(c) \/ Cancel(c)
        PROVE  AdmissionBound'
    BY <2>2, <2>7 DEF Start, Cancel
  <2> QED
    BY <1>2, <2>2, <2>3, <2>6, <2>7 DEF Next, Proceed, Terminated, vars
<1> QED
  BY <1>1, <1>2, RuntimeInvariant, PTL DEF Spec

-------------------------------------------------------------------------------
(* What a call may still spend of its retries at each attempt: the records *)
(* it has left never exceed the turns it has begun.                        *)
Turns(c) == (RetryLimitOf(c) + 1) * validation[c] + attempt[c]

RetryInv ==
  \A c \in Calls :
    /\ attempt[c] \in 1 .. RetryLimitOf(c) + 1
    /\ validation[c] \in 0 .. ValidationRetries[c]
    /\ invocations[c] + (IF pc[c] \in Ended THEN 0 ELSE 1) <= Turns(c)

(* The arithmetic of a settled call: i records before it, in turn a of     *)
(* validation attempt v, with r retries per validation attempt.            *)
LEMMA TurnsLeft ==
  ASSUME NEW i \in Nat, NEW a \in Nat, NEW v \in Nat, NEW r \in Nat,
         i + 1 <= (r + 1) * v + a
  PROVE  /\ (i + 1) + 1 <= (r + 1) * v + (a + 1)
         /\ a <= r + 1 => (i + 1) + 1 <= (r + 1) * (v + 1) + 1
<1>1. PICK p \in Nat : p = (r + 1) * v
  OBVIOUS
<1>2. (r + 1) * (v + 1) = p + r + 1
  BY <1>1
<1> QED
  BY <1>1, <1>2

(* Every settlement uses up one of the turns its call has begun. *)
LEMMA RetryStep ==
  ASSUME RuntimeInv, RetryInv, [Next]_vars
  PROVE  RetryInv'
<1>1. /\ TypeOK /\ PendingInv /\ permits \in Nat /\ pc \in [Calls -> Places]
      /\ pending \in Seq(Calls) /\ Len(pending) \in Nat
      /\ attempt \in [Calls -> Nat] /\ validation \in [Calls -> Nat]
      /\ invocations \in [Calls -> Nat]
  BY LenProperties DEF RuntimeInv, TypeOK, LedgerTypeOK, Places
<1>2. \A c \in Calls : RetryLimitOf(c) \in Nat /\ ValidationRetries[c] \in Nat
  BY DEF RetryLimitOf
<1>3. \A d \in Calls : /\ attempt[d] \in 1 .. RetryLimitOf(d) + 1
                       /\ validation[d] \in 0 .. ValidationRetries[d]
                       /\ invocations[d] + (IF pc[d] \in Ended THEN 0 ELSE 1) <= Turns(d)
  BY DEF RetryInv
<1>4. \A d \in Calls : Turns(d) \in Nat
  <2>1. \A r, v, a \in Nat : (r + 1) * v + a \in Nat
    OBVIOUS
  <2> QED
    BY <1>1, <1>2, <2>1 DEF Turns
(* a step that settles no call: nobody who has ended moves *)
<1>5. ASSUME UNCHANGED <<attempt, validation, invocations>>,
             \A d \in Calls : pc[d] \in Ended => pc'[d] \in Ended
      PROVE  RetryInv'
  <2> SUFFICES ASSUME NEW d \in Calls
               PROVE  /\ attempt'[d] \in 1 .. RetryLimitOf(d) + 1
                      /\ validation'[d] \in 0 .. ValidationRetries[d]
                      /\ invocations'[d] + (IF pc'[d] \in Ended THEN 0 ELSE 1)
                           <= (RetryLimitOf(d) + 1) * validation'[d] + attempt'[d]
    BY DEF RetryInv, Turns, RetryLimitOf
  <2>1. /\ attempt'[d] = attempt[d] /\ validation'[d] = validation[d]
        /\ invocations'[d] = invocations[d]
    BY <1>5
  <2>2. (RetryLimitOf(d) + 1) * validation'[d] + attempt'[d] = Turns(d)
    BY <2>1 DEF Turns
  <2>3. /\ Turns(d) \in Nat /\ invocations[d] \in Nat
        /\ invocations[d] + (IF pc[d] \in Ended THEN 0 ELSE 1) <= Turns(d)
    BY <1>1, <1>3, <1>4
  <2>4. invocations[d] + (IF pc'[d] \in Ended THEN 0 ELSE 1) <= Turns(d)
    BY <1>5, <2>3
  <2> QED
    BY <1>3, <2>1, <2>2, <2>4
<1>6. ASSUME NEW c \in Calls, Admit(c) PROVE RetryInv'
  <2>1. /\ pc[c] = "admit" /\ pc[c] \notin Ended
        /\ UNCHANGED <<attempt, validation, invocations>>
    BY <1>6 DEF Admit, Ended
  <2>2. \E place : pc' = [pc EXCEPT ![c] = place]
    BY <1>6 DEF Admit, Acquire
  <2>3. \A d \in Calls : pc[d] \in Ended => pc'[d] \in Ended
    BY <1>1, <2>1, <2>2
  <2> QED
    BY <1>5, <2>1, <2>3
<1>7. ASSUME NEW c \in Calls, Start(c) PROVE RetryInv'
  <2>1. /\ pc[c] = "granted" /\ pc[c] \notin Ended /\ pc[c] # "queued"
        /\ cancelled' \subseteq cancelled \ {c}
        /\ UNCHANGED <<attempt, validation, invocations>>
    BY <1>7 DEF Start, Ended
  <2>2. "running" \in Places
    BY DEF Places, Suspended
  <2>3. \A d \in Calls \ {c} : pc'[d] \in Ended <=> pc[d] \in Ended
    <3>1. PICK most \in Nat : GoAndWake(c, "running", permits, most)
      BY <1>1, <1>7 DEF Start
    <3> QED
      BY <1>1, <2>1, <2>2, <3>1, WakeStep
  <2> QED
    BY <1>5, <2>1, <2>3
<1>8. /\ \A place \in {"admit"} \cup Ended : place \in Places
      /\ "admit" \notin Ended /\ permits + 1 \in Nat /\ 1 \in Nat
  BY <1>1 DEF Places, Ended
(* a step that settles call c leaves the others where they were *)
<1>9. ASSUME NEW c \in Calls, pc[c] \in Suspended,
             pc[c] # "queued" \/ c \in cancelled,
             cancelled' = cancelled \ {c}, Recorded(c),
             NEW place \in {"admit"} \cup Ended, NEW free \in Nat, NEW most \in Nat,
             GoAndWake(c, place, free, most),
             \/ place \in Ended /\ UNCHANGED <<attempt, validation>>
             \/ /\ place = "admit" /\ UNCHANGED validation
                /\ attempt[c] <= RetryLimitOf(c)
                /\ attempt' = [attempt EXCEPT ![c] = attempt[c] + 1]
             \/ /\ place = "admit" /\ attempt' = [attempt EXCEPT ![c] = 1]
                /\ validation[c] < ValidationRetries[c]
                /\ validation' = [validation EXCEPT ![c] = validation[c] + 1]
      PROVE  RetryInv'
  <2>1. /\ pc'[c] = place
        /\ \A d \in Calls \ {c} : pc'[d] \in Ended <=> pc[d] \in Ended
    BY <1>1, <1>8, <1>9, WakeStep
  <2>2. invocations' = [invocations EXCEPT ![c] = invocations[c] + 1]
    BY <1>9 DEF Recorded
  <2>3. \A d \in Calls \ {c} : /\ attempt'[d] = attempt[d]
                               /\ validation'[d] = validation[d]
                               /\ invocations'[d] = invocations[d]
    BY <1>1, <1>9, <2>2
  <2>4. /\ attempt[c] \in 1 .. RetryLimitOf(c) + 1
        /\ validation[c] \in 0 .. ValidationRetries[c]
        /\ invocations[c] + 1 <= (RetryLimitOf(c) + 1) * validation[c] + attempt[c]
    BY <1>3, <1>9 DEF Turns, Suspended, Ended
  <2>5. /\ invocations'[c] = invocations[c] + 1
        /\ invocations[c] \in Nat /\ attempt[c] \in Nat /\ validation[c] \in Nat
        /\ RetryLimitOf(c) \in Nat /\ ValidationRetries[c] \in Nat
    BY <1>1, <1>2, <2>2
  <2>6. /\ (invocations[c] + 1) + 1
             <= (RetryLimitOf(c) + 1) * validation[c] + (attempt[c] + 1)
        /\ (invocations[c] + 1) + 1
             <= (RetryLimitOf(c) + 1) * (validation[c] + 1) + 1
    BY <2>4, <2>5, TurnsLeft
  <2>7. /\ attempt'[c] \in 1 .. RetryLimitOf(c) + 1
        /\ validation'[c] \in 0 .. ValidationRetries[c]
        /\ invocations'[c] + (IF place \in Ended THEN 0 ELSE 1)
             <= (RetryLimitOf(c) + 1) * validation'[c] + attempt'[c]
    <3>1. CASE place \in Ended /\ UNCHANGED <<attempt, validation>>
      <4>1. /\ attempt'[c] = attempt[c] /\ validation'[c] = validation[c]
            /\ (IF place \in Ended THEN 0 ELSE 1) = 0
        BY <3>1
      <4> QED
        BY <2>4, <2>5, <4>1
    <3>2. CASE /\ place = "admit" /\ UNCHANGED validation
               /\ attempt[c] <= RetryLimitOf(c)
               /\ attempt' = [attempt EXCEPT ![c] = attempt[c] + 1]
      <4>1. /\ attempt'[c] = attempt[c] + 1 /\ validation'[c] = validation[c]
            /\ (IF place \in Ended THEN 0 ELSE 1) = 1
            /\ attempt[c] <= RetryLimitOf(c)
        BY <1>1, <1>8, <3>2
      <4> QED
        BY <2>4, <2>5, <2>6, <4>1
    <3>3. CASE /\ place = "admit" /\ attempt' = [attempt EXCEPT ![c] = 1]
               /\ validation[c] < ValidationRetries[c]
               /\ validation' = [validation EXCEPT ![c] = validation[c] + 1]
      <4>1. /\ attempt'[c] = 1 /\ validation'[c] = validation[c] + 1
            /\ (IF place \in Ended THEN 0 ELSE 1) = 1
            /\ validation[c] < ValidationRetries[c]
        BY <1>1, <1>8, <3>3
      <4> QED
        BY <2>4, <2>5, <2>6, <4>1
    <3> QED
      BY <1>9, <3>1, <3>2, <3>3
  <2>8. ASSUME NEW d \in Calls \ {c}
        PROVE  /\ attempt'[d] \in 1 .. RetryLimitOf(d) + 1
               /\ validation'[d] \in 0 .. ValidationRetries[d]
               /\ invocations'[d] + (IF pc'[d] \in Ended THEN 0 ELSE 1)
                    <= (RetryLimitOf(d) + 1) * validation'[d] + attempt'[d]
    <3>1. (RetryLimitOf(d) + 1) * validation'[d] + attempt'[d] = Turns(d)
      BY <2>3 DEF Turns
    <3>2. (IF pc'[d] \in Ended THEN 0 ELSE 1) = (IF pc[d] \in Ended THEN 0 ELSE 1)
      BY <2>1
    <3> QED
      BY <1>3, <2>3, <3>1, <3>2
  <2> QED
    BY <2>1, <2>7, <2>8 DEF RetryInv, Turns, RetryLimitOf
<1>10. ASSUME NEW c \in Calls, Succeed(c) PROVE RetryInv'
  <2>1. /\ pc[c] = "running" /\ c \notin cancelled /\ cancelled' = cancelled
        /\ Recorded(c)
    BY <1>10 DEF Succeed
  <2>2. /\ pc[c] \in Suspended /\ pc[c] # "queued" /\ cancelled' = cancelled \ {c}
        /\ "ok" \in Ended /\ "contract" \in Ended
    BY <2>1 DEF Suspended, Ended
  <2>3. CASE GoAndWake(c, "ok", permits + 1, 1) /\ UNCHANGED <<attempt, validation>>
    BY <1>8, <1>9, <2>1, <2>2, <2>3
  <2>4. CASE GoAndWake(c, "contract", permits + 1, 1) /\ UNCHANGED <<attempt, validation>>
    BY <1>8, <1>9, <2>1, <2>2, <2>4
  <2>5. CASE /\ validation[c] < ValidationRetries[c]
             /\ validation' = [validation EXCEPT ![c] = validation[c] + 1]
             /\ attempt' = [attempt EXCEPT ![c] = 1]
             /\ GoAndWake(c, "admit", permits + 1, 1)
    BY <1>8, <1>9, <2>1, <2>2, <2>5
  <2> QED
    BY <1>10, <2>3, <2>4, <2>5 DEF Succeed, Release
<1>11. ASSUME NEW c \in Calls, Fail(c) PROVE RetryInv'
  <2>1. /\ pc[c] = "running" /\ c \notin cancelled /\ cancelled' = cancelled
        /\ Recorded(c) /\ UNCHANGED validation
    BY <1>11 DEF Fail
  <2>2. /\ pc[c] \in Suspended /\ pc[c] # "queued" /\ cancelled' = cancelled \ {c}
        /\ "budget" \in Ended /\ "failed" \in Ended
    BY <2>1 DEF Suspended, Ended
  <2>3. CASE GoAndWake(c, "budget", permits + 1, 1) /\ UNCHANGED attempt
    BY <1>8, <1>9, <2>1, <2>2, <2>3
  <2>4. CASE GoAndWake(c, "failed", permits + 1, 1) /\ UNCHANGED attempt
    BY <1>8, <1>9, <2>1, <2>2, <2>4
  <2>5. CASE /\ attempt[c] <= RetryLimitOf(c)
             /\ attempt' = [attempt EXCEPT ![c] = attempt[c] + 1]
             /\ GoAndWake(c, "admit", permits + 1, 1)
    BY <1>8, <1>9, <2>1, <2>2, <2>5
  <2> QED
    BY <1>11, <2>3, <2>4, <2>5 DEF Fail, Release
<1>12. ASSUME NEW c \in Calls, Abort(c) PROVE RetryInv'
  <2>1. /\ pc[c] \in Suspended /\ c \in cancelled /\ cancelled' = cancelled \ {c}
        /\ Recorded(c) /\ UNCHANGED <<attempt, validation>>
        /\ "cancelled" \in Ended
    BY <1>12 DEF Abort, Ended
  <2>2. PICK free \in Nat, most \in Nat : GoAndWake(c, "cancelled", free, most)
    <3>1. permits + 1 \in Nat /\ {0, 1, Len(pending)} \subseteq Nat
      BY <1>1
    <3> QED
      BY <1>1, <1>12, <3>1 DEF Abort, Withdraw, Release
  <2> QED
    BY <1>1, <1>8, <1>9, <2>1, <2>2
<1>13. CASE UNCHANGED <<pc, attempt, validation, invocations>>
  BY <1>5, <1>13
<1> QED
  BY <1>6, <1>7, <1>10, <1>11, <1>12, <1>13
     DEF Next, Proceed, Cancel, Terminated, vars, runtimeVars

(* A call's records are bounded by what its configuration lets it repeat. *)
LEMMA RetryBound ==
  ASSUME RetryInv, TypeOK
  PROVE  RetriesBounded
<1> SUFFICES ASSUME NEW c \in Calls
             PROVE  /\ invocations[c] <= (RetryLimit + 1) * (ValidationRetries[c] + 1)
                    /\ c \in Writers => invocations[c] <= ValidationRetries[c] + 1
  BY DEF RetriesBounded
<1> DEFINE r == RetryLimitOf(c)
           k == ValidationRetries[c]
           v == validation[c]
<1>1. /\ r \in Nat /\ r <= RetryLimit /\ RetryLimit \in Nat /\ k \in Nat
      /\ c \in Writers => r = 0
  BY DEF RetryLimitOf
<1>2. /\ invocations[c] \in Nat /\ attempt[c] \in 1 .. r + 1 /\ v \in 0 .. k
      /\ invocations[c] <= (r + 1) * v + attempt[c]
  <2>1. /\ invocations[c] + (IF pc[c] \in Ended THEN 0 ELSE 1) <= (r + 1) * v + attempt[c]
        /\ attempt[c] \in 1 .. r + 1 /\ v \in 0 .. k /\ invocations[c] \in Nat
    BY DEF RetryInv, Turns, TypeOK
  <2>2. (r + 1) * v \in Nat
    BY <1>1, <2>1
  <2> QED
    BY <1>1, <2>1, <2>2
<1> HIDE DEF r, k, v
<1>3. (r + 1) * v + attempt[c] <= (r + 1) * (v + 1)
  BY <1>1, <1>2
<1>4. (r + 1) * (v + 1) <= (RetryLimit + 1) * (k + 1)
  <2>1. \A x, y, z \in Nat : y <= z => x * y <= x * z
    OBVIOUS
  <2>2. \A x, y, z \in Nat : y <= z => y * x <= z * x
    OBVIOUS
  <2>3. /\ r + 1 \in Nat /\ v + 1 \in Nat /\ k + 1 \in Nat /\ RetryLimit + 1 \in Nat
        /\ v + 1 <= k + 1 /\ r + 1 <= RetryLimit + 1
    BY <1>1, <1>2
  <2>4. (r + 1) * (v + 1) <= (r + 1) * (k + 1)
    BY <2>1, <2>3
  <2>5. (r + 1) * (k + 1) <= (RetryLimit + 1) * (k + 1)
    BY <2>2, <2>3
  <2> QED
    BY <2>3, <2>4, <2>5
<1>5. c \in Writers => invocations[c] <= k + 1
  <2>1. r = 0 => (r + 1) * v + attempt[c] = v + 1
    BY <1>2
  <2> QED
    BY <1>1, <1>2, <2>1
<1>6. invocations[c] <= (RetryLimit + 1) * (k + 1)
  <2>1. /\ (r + 1) * v + attempt[c] \in Int /\ (r + 1) * (v + 1) \in Int
        /\ (RetryLimit + 1) * (k + 1) \in Int
    BY <1>1, <1>2
  <2> QED
    BY <1>2, <1>3, <1>4, <2>1
<1> QED
  BY <1>5, <1>6 DEF k

(* However calls interleave, a provider is invoked for one call no more    *)
(* often than the retry limits allow together, and for a writer once at    *)
(* each validation attempt, whatever its provider fails with.              *)
THEOREM RetriesAreBounded == Spec => []RetriesBounded
<1>1. Init => RetryInv
  BY DEF Init, RetryInv, Turns, RetryLimitOf, Ended
<1>2. RuntimeInv /\ RetryInv => RetriesBounded
  BY RetryBound DEF RuntimeInv
<1> QED
  BY <1>1, <1>2, RetryStep, RuntimeInvariant, PTL DEF Spec

-------------------------------------------------------------------------------
Holding == {"granted", "running"}

(* The k oldest waiters are k calls. *)
LEMMA OldestWaiters ==
  ASSUME TypeOK, PendingInv, NEW k \in 0 .. Len(pending)
  PROVE  LET woken == {pending[i] : i \in 1 .. k}
         IN  /\ IsFiniteSet(woken) /\ Cardinality(woken) = k
             /\ \A d \in woken : /\ d \in Calls /\ pc[d] = "queued"
                                 /\ d \notin cancelled
<1> DEFINE woken == {pending[i] : i \in 1 .. k}
           at    == [i \in 1 .. k |-> pending[i]]
<1>1. /\ Len(pending) \in Nat /\ DOMAIN pending = 1 .. Len(pending)
      /\ \A i \in 1 .. Len(pending) : pending[i] \in Calls
  BY LenProperties, ElementOfSeq DEF TypeOK
<1>2. k \in Nat /\ \A i \in 1 .. k : i \in 1 .. Len(pending)
  BY <1>1
<1>3. at \in Bijection(1 .. k, woken)
  <2>1. at \in [1 .. k -> woken]
    OBVIOUS
  <2>2. \A i, j \in 1 .. k : at[i] = at[j] => i = j
    BY <1>1, <1>2 DEF PendingInv
  <2>3. \A d \in woken : \E i \in 1 .. k : at[i] = d
    OBVIOUS
  <2> HIDE DEF at, woken
  <2> QED
    BY <2>1, <2>2, <2>3
       DEF Bijection, Injection, Surjection, IsInjective
<1> HIDE DEF at
<1>4. ExistsBijection(1 .. k, woken)
  BY <1>3 DEF ExistsBijection
<1>5. IsFiniteSet(1 .. k) /\ Cardinality(1 .. k) = k
  <2>1. 1 \in Int /\ k \in Int
    BY <1>2
  <2> QED
    BY <1>2, <2>1, FS_Interval
<1>6. IsFiniteSet(woken) /\ Cardinality(woken) = k
  <2> HIDE DEF woken
  <2> QED
    BY <1>4, <1>5, FS_Bijection
<1>7. \A d \in woken : d \in Calls /\ pc[d] = "queued" /\ d \notin cancelled
  BY <1>1, <1>2 DEF PendingInv
<1> QED
  BY <1>6, <1>7

(* With so many permits free and call c at a place, all permits are        *)
(* accounted for.                                                          *)
Accounted(c, place, free) ==
  free + Cardinality(At(Holding) \ {c}) + (IF place \in Holding THEN 1 ELSE 0)
    = MaxConcurrency

(* Call c takes or gives back its permit and wakes waiters: permits and    *)
(* the calls that hold one still add up, and a permit is left free while   *)
(* calls wait only if one of them has just been woken, or was before.      *)
LEMMA WakeConserves ==
  ASSUME TypeOK, PendingInv, PermitsConserved, NEW c \in Calls, NEW place,
         NEW free \in Nat, NEW most \in Nat, GoAndWake(c, place, free, most),
         pc[c] # "queued" \/ c \in cancelled,
         Accounted(c, place, free),
         \/ most >= 1
         \/ most = Len(pending)
         \/ free = permits /\ pc[c] # "granted"
  PROVE  PermitsConserved'
<1>1. /\ pending \in Seq(Calls) /\ Len(pending) \in Nat
      /\ DOMAIN pending = 1 .. Len(pending)
  BY LenProperties DEF TypeOK
<1>0. Len(pending) \in Nat
  BY <1>1
<1>2. PICK k : k = Min({free, most, Len(pending)})
  OBVIOUS
<1>3. /\ permits' = free - k
      /\ pending' = SubSeq(pending, k + 1, Len(pending))
      /\ pc' = [d \in Calls |->
                  IF d = c THEN place
                  ELSE IF \E i \in 1 .. k : pending[i] = d THEN "granted"
                  ELSE pc[d]]
  BY <1>2 DEF GoAndWake
<1>4. k \in Nat /\ k <= free /\ k <= Len(pending) /\ k \in {free, most, Len(pending)}
  BY <1>0, <1>2, MinOfThree
<1> DEFINE woken  == {pending[i] : i \in 1 .. k}
           others == At(Holding) \ {c}
           mine   == IF place \in Holding THEN {c} ELSE {}
<1>5. /\ IsFiniteSet(woken) /\ Cardinality(woken) = k
      /\ \A d \in woken : d \in Calls /\ pc[d] = "queued" /\ d \notin cancelled
  <2>1. k \in 0 .. Len(pending)
    BY <1>0, <1>4
  <2> QED
    BY <2>1, OldestWaiters
<1>6. c \notin woken
  BY <1>5
<1>7. pc' = [d \in Calls |-> IF d = c THEN place
                             ELSE IF d \in woken THEN "granted" ELSE pc[d]]
  BY <1>3
<1> HIDE DEF woken
<1>8. At(Holding)' = (others \cup woken) \cup mine
  BY <1>5, <1>6, <1>7 DEF At, Holding
<1>9. others \cap woken = {} /\ (others \cup woken) \cap mine = {}
  BY <1>5, <1>6 DEF At, Holding
<1>10. IsFiniteSet(others)
  BY CallsAssumption, FS_Subset DEF At
<1>11. /\ IsFiniteSet(mine)
       /\ Cardinality(mine) = IF place \in Holding THEN 1 ELSE 0
  BY FS_Singleton, FS_EmptySet
<1> HIDE DEF others, mine
<1>12. /\ IsFiniteSet(others \cup woken)
       /\ Cardinality(others \cup woken) = Cardinality(others) + k
  <2>1. Cardinality({}) = 0 /\ Cardinality(others) \in Nat
    BY <1>10, FS_EmptySet, FS_CardinalityType
  <2>2. Cardinality(others \cup woken)
          = Cardinality(others) + Cardinality(woken) - Cardinality(others \cap woken)
    BY <1>5, <1>10, FS_Union
  <2>3. IsFiniteSet(others \cup woken)
    BY <1>5, <1>10, FS_Union
  <2>4. k \in Nat /\ Cardinality(woken) = k
    BY <1>4, <1>5
  <2>5. Cardinality(others \cap woken) = 0
    BY <1>9, <2>1, Zenon
  <2> QED
    BY <2>1, <2>2, <2>3, <2>4, <2>5
<1>13. Cardinality(At(Holding)') = Cardinality(others) + k + Cardinality(mine)
  <2>1. /\ Cardinality({}) = 0 /\ Cardinality(others) \in Nat
        /\ Cardinality(mine) \in Nat
    BY <1>10, <1>11, FS_EmptySet, FS_CardinalityType
  <2>2. Cardinality((others \cup woken) \cup mine)
          = Cardinality(others \cup woken) + Cardinality(mine)
              - Cardinality((others \cup woken) \cap mine)
    BY <1>11, <1>12, FS_Union
  <2>3. k \in Nat /\ Cardinality(others \cup woken) = Cardinality(others) + k
    BY <1>4, <1>12
  <2>4. Cardinality((others \cup woken) \cap mine) = 0
    BY <1>9, <2>1, Zenon
  <2>5. Cardinality(At(Holding)') = Cardinality((others \cup woken) \cup mine)
    BY <1>8, Zenon
  <2> QED
    BY <2>1, <2>2, <2>3, <2>4, <2>5
<1>14. permits' + Cardinality(At(Holding)') = MaxConcurrency
  <2>1. Cardinality(others) \in Nat /\ Cardinality(mine) \in Nat
    BY <1>10, <1>11, FS_CardinalityType
  <2>2. free + Cardinality(others) + Cardinality(mine) = MaxConcurrency
    BY <1>11 DEF others, Accounted
  <2> QED
    BY <1>3, <1>4, <1>13, <2>1, <2>2
<1>15. ASSUME permits' > 0, pending' # <<>>
       PROVE  At({"granted"})' # {}
  <2>1. k < free /\ k < Len(pending)
    <3>1. k # Len(pending)
      <4>1. ASSUME k = Len(pending) PROVE pending' = <<>>
        <5>1. /\ pending' \in Seq(Calls) /\ DOMAIN pending' = 1 .. Len(pending) - k
          <6>1. /\ pending \in Seq(Calls) /\ k \in Nat /\ k <= Len(pending)
                /\ pending' = SubSeq(pending, k + 1, Len(pending))
            BY <1>1, <1>3, <1>4
          <6> QED
            BY <6>1, DropFirst
        <5>2. Len(pending') \in Nat /\ 1 .. Len(pending') = 1 .. Len(pending) - k
          BY <5>1, LenProperties
        <5>3. Len(pending) - k = 0
          BY <1>0, <4>1
        <5>4. Len(pending') = 0
          BY <5>2, <5>3
        <5> QED
          BY <5>1, <5>4, EmptySeq
      <4> QED
        BY <1>15, <4>1
    <3> QED
      BY <1>0, <1>3, <1>4, <1>15, <3>1
  <2>2. k = most
    BY <1>0, <1>4, <2>1
  <2>3. CASE most >= 1
    <3>1. 1 \in 1 .. k
      BY <1>4, <2>2, <2>3
    <3>2. pending[1] \in woken
      BY <3>1 DEF woken
    <3> QED
      BY <1>5, <1>6, <1>7, <3>2 DEF At
  <2>4. CASE free = permits /\ pc[c] # "granted"
    <3>1. permits > 0 /\ pending # <<>>
      <4>1. Len(pending) # 0 /\ free > 0
        BY <1>0, <1>4, <2>1
      <4> QED
        BY <2>4, <4>1, LenProperties
    <3>2. PICK d \in Calls : pc[d] = "granted"
      BY <3>1 DEF PermitsConserved, At
    <3>3. d # c /\ pc'[d] = "granted"
      BY <1>7, <2>4, <3>2
    <3> QED
      BY <3>2, <3>3 DEF At
  <2> QED
    BY <1>0, <2>1, <2>2, <2>3, <2>4
<1> QED
  BY <1>14, <1>15 DEF PermitsConserved, Holding

(* Every step keeps the account of the permits. *)
LEMMA PermitsStep ==
  ASSUME RuntimeInv, PermitsConserved, [Next]_vars
  PROVE  PermitsConserved'
<1>1. /\ TypeOK /\ PendingInv /\ permits \in Nat /\ pc \in [Calls -> Places]
      /\ pending \in Seq(Calls) /\ Len(pending) \in Nat
      /\ DOMAIN pending = 1 .. Len(pending)
      /\ permits + Cardinality(At(Holding)) = MaxConcurrency
      /\ permits > 0 /\ pending # <<>> => \E d \in Calls : pc[d] = "granted"
  BY LenProperties DEF RuntimeInv, TypeOK, Places, PermitsConserved, At, Holding
<1>0. /\ Len(pending) \in Nat /\ permits \in Nat
      /\ permits + Cardinality(At(Holding)) = MaxConcurrency
  BY <1>1
<1>2. IsFiniteSet(At(Holding)) /\ Cardinality(At(Holding)) \in Nat
  BY CallsAssumption, FS_Subset, FS_CardinalityType DEF At
<1>3. ASSUME NEW c \in Calls
      PROVE  Cardinality(At(Holding) \ {c})
               = IF pc[c] \in Holding THEN Cardinality(At(Holding)) - 1
                                      ELSE Cardinality(At(Holding))
  <2>1. c \in At(Holding) <=> pc[c] \in Holding
    BY DEF At
  <2> QED
    BY <1>2, <2>1, FS_RemoveElement
<1>4. permits + 1 \in Nat /\ 1 \in Nat /\ 0 \in Nat
  BY <1>1
(* a running or granted call gives its permit back *)
<1>5. ASSUME NEW c \in Calls, pc[c] \in Holding, NEW place, place \notin Holding,
             NEW most \in Nat, most >= 1 \/ most = Len(pending),
             GoAndWake(c, place, permits + 1, most)
      PROVE  PermitsConserved'
  <2>0. Cardinality(At(Holding) \ {c}) = Cardinality(At(Holding)) - 1
    BY <1>3, <1>5
  <2>1. pc[c] # "queued"
    BY <1>5 DEF Holding
  <2>2. Accounted(c, place, permits + 1)
    BY <1>0, <1>2, <1>5, <2>0 DEF Accounted
  <2> QED
    BY <1>1, <1>4, <1>5, <2>1, <2>2, WakeConserves
<1>6. ASSUME NEW c \in Calls, Admit(c) PROVE PermitsConserved'
  <2>1. /\ pc[c] = "admit" /\ pc[c] \notin Holding
    BY <1>6 DEF Admit, Holding
  <2>2. CASE ~Locked /\ permits' = permits - 1 /\ UNCHANGED pending
             /\ pc' = [pc EXCEPT ![c] = "running"]
    <3>1. At(Holding)' = At(Holding) \cup {c} /\ c \notin At(Holding)
      BY <1>1, <2>1, <2>2 DEF At, Holding
    <3>2. Cardinality(At(Holding)') = Cardinality(At(Holding)) + 1
      BY <1>2, <3>1, FS_AddElement
    <3>3. pending' = <<>>
      BY <2>2 DEF Locked
    <3>4. permits' + Cardinality(At(Holding)') = MaxConcurrency
      BY <1>1, <1>2, <2>2, <3>2
    <3> QED
      BY <3>3, <3>4 DEF PermitsConserved, Holding
  <2>3. CASE Locked /\ pending' = Append(pending, c) /\ UNCHANGED permits
             /\ pc' = [pc EXCEPT ![c] = "queued"]
    <3>1. At(Holding)' = At(Holding) /\ At({"granted"})' = At({"granted"})
      BY <1>1, <2>1, <2>3 DEF At, Holding
    <3>2. permits > 0 => \E d \in Calls : pc[d] = "granted"
      BY <1>1, <2>3 DEF Locked
    <3> QED
      BY <1>1, <2>3, <3>1, <3>2 DEF PermitsConserved, Holding, At
  <2>4. CASE pc' = [pc EXCEPT ![c] = "budget"] /\ UNCHANGED <<permits, pending>>
    <3>1. At(Holding)' = At(Holding) /\ At({"granted"})' = At({"granted"})
      BY <1>1, <2>1, <2>4 DEF At, Holding
    <3> QED
      BY <1>1, <2>4, <3>1 DEF PermitsConserved, Holding, At
  <2> QED
    BY <1>6, <2>2, <2>3, <2>4 DEF Admit, Acquire
<1>7. ASSUME NEW c \in Calls, Start(c) PROVE PermitsConserved'
  <2>1. /\ pc[c] = "granted" /\ pc[c] # "queued" /\ "running" \in Holding
        /\ pc[c] \in Holding
    BY <1>7 DEF Start, Holding
  <2>2. PICK most \in {1, Len(pending)} : GoAndWake(c, "running", permits, most)
    BY <1>7 DEF Start
  <2>3. most \in Nat /\ (most >= 1 \/ most = Len(pending))
    BY <1>0, <2>2
  <2>4. Accounted(c, "running", permits)
    <3>1. Cardinality(At(Holding) \ {c}) = Cardinality(At(Holding)) - 1
      BY <1>3, <2>1
    <3> QED
      BY <1>0, <1>2, <2>1, <3>1 DEF Accounted
  <2> QED
    BY <1>1, <2>1, <2>2, <2>3, <2>4, WakeConserves
<1>8. ASSUME NEW c \in Calls, Succeed(c) \/ Fail(c) PROVE PermitsConserved'
  <2>1. pc[c] \in Holding
    BY <1>8 DEF Succeed, Fail, Holding
  <2>2. PICK place \in {"admit"} \cup Ended : GoAndWake(c, place, permits + 1, 1)
    BY <1>8 DEF Succeed, Fail, Release, Ended
  <2>3. place \notin Holding /\ 1 >= 1
    BY <2>2 DEF Ended, Holding
  <2> QED
    BY <1>4, <1>5, <2>1, <2>2, <2>3
<1>9. ASSUME NEW c \in Calls, Abort(c) PROVE PermitsConserved'
  <2>1. c \in cancelled /\ "cancelled" \notin Holding /\ 1 >= 1
    BY <1>9 DEF Abort, Holding
  <2>2. CASE /\ pc[c] = "queued"
             /\ \E most \in {0, Len(pending)} : GoAndWake(c, "cancelled", permits, most)
    <3>1. PICK most \in {0, Len(pending)} : GoAndWake(c, "cancelled", permits, most)
      BY <2>2
    <3>2. most \in Nat /\ pc[c] \notin Holding /\ pc[c] # "granted"
      BY <1>0, <2>2, <3>1 DEF Holding
    <3>3. Accounted(c, "cancelled", permits)
      BY <1>0, <1>2, <1>3, <2>1, <3>2 DEF Accounted
    <3> QED
      BY <1>1, <2>1, <3>1, <3>2, <3>3, WakeConserves
  <2>3. CASE /\ pc[c] = "granted"
             /\ \E most \in {1, Len(pending)} : GoAndWake(c, "cancelled", permits + 1, most)
    <3>1. PICK most \in {1, Len(pending)} : GoAndWake(c, "cancelled", permits + 1, most)
      BY <2>3
    <3>2. most \in Nat /\ (most >= 1 \/ most = Len(pending)) /\ pc[c] \in Holding
      BY <1>0, <2>3, <3>1 DEF Holding
    <3> QED
      BY <1>5, <2>1, <3>1, <3>2
  <2>4. CASE pc[c] = "running" /\ Release(c, "cancelled")
    BY <1>4, <1>5, <2>1, <2>4 DEF Release, Holding
  <2> QED
    BY <1>9, <2>2, <2>3, <2>4 DEF Abort, Withdraw
<1>10. ASSUME UNCHANGED <<pc, permits>>, pending' # <<>> => pending # <<>>
       PROVE  PermitsConserved'
  BY <1>10 DEF PermitsConserved, At
<1>11. ASSUME NEW c \in Calls, Cancel(c) PROVE PermitsConserved'
  <2>1. UNCHANGED <<pc, permits>>
    BY <1>11 DEF Cancel
  <2>2. CASE \E i \in DOMAIN pending : pending' = RemoveAt(pending, i)
    <3>1. pending # <<>>
      BY <2>2
    <3> QED
      BY <1>10, <2>1, <3>1
  <2>3. CASE UNCHANGED pending
    BY <1>10, <2>1, <2>3
  <2> QED
    BY <1>11, <2>2, <2>3 DEF Cancel
<1>12. CASE UNCHANGED <<pc, permits, pending>>
  BY <1>10, <1>12
<1> QED
  BY <1>6, <1>7, <1>8, <1>9, <1>11, <1>12
     DEF Next, Proceed, Terminated, vars, runtimeVars

(* However hand-overs and cancellations meet, no permit of the provider    *)
(* semaphore is lost or invented, and none lies idle while calls queue.    *)
THEOREM NoPermitLost == Spec => []PermitsConserved
<1>1. Init => PermitsConserved
  <2> SUFFICES ASSUME Init PROVE PermitsConserved
    OBVIOUS
  <2>1. At(Holding) = {} /\ pending = <<>> /\ permits = MaxConcurrency
    BY DEF Init, At, Holding
  <2>2. Cardinality({}) = 0 /\ MaxConcurrency \in Nat
    BY FS_EmptySet
  <2>3. permits + Cardinality(At(Holding)) = MaxConcurrency
    BY <2>1, <2>2
  <2> QED
    BY <2>1, <2>3 DEF PermitsConserved, Holding
<1> QED
  BY <1>1, PermitsStep, RuntimeInvariant, PTL DEF Spec
===============================================================================
