----------------------------- MODULE LedgerProofs -----------------------------
(***************************************************************************)
(* Proofs about the books of UsageLedger as AgentRuntime keeps them: what  *)
(* is reserved is the sum of the outstanding reservations, so it is never  *)
(* negative, and a budget that has been overrun admits nobody any more.    *)
(***************************************************************************)
EXTENDS AgentRuntimeProofs, InductionTheorems

USE LimitsAssumption, CallsAssumption, NoneAssumption, RuntimeAssumption

(* What a step does to the ledger: nothing, one admission of a call that   *)
(* holds no reservation, or the settlement of one that does.               *)
LEMMA LedgerStep ==
  ASSUME RuntimeInv, [Next]_vars
  PROVE  \/ UNCHANGED ledgerVars
         \/ \E c \in Calls, estimate \in Reservation :
              reservations[c] = None /\ Reserve(c, estimate)
         \/ \E c \in Calls, usage \in Usage :
              reservations[c] # None /\ Settle(c, AgentOf[c], usage, Price[c])
<1> DEFINE Admitted == \E c \in Calls, estimate \in Reservation :
                         reservations[c] = None /\ Reserve(c, estimate)
           Settled == \E c \in Calls, usage \in Usage :
                        reservations[c] # None /\ Settle(c, AgentOf[c], usage, Price[c])
<1> HIDE DEF Admitted, Settled
<1>1. \A c \in Calls : reservations[c] # None <=> pc[c] \in Suspended
  BY DEF RuntimeInv, ReservedInv
<1>2. ASSUME NEW c \in Calls, Admit(c)
      PROVE  UNCHANGED ledgerVars \/ Admitted
  <2>1. CASE UNCHANGED ledgerVars
    BY <2>1
  <2>2. ASSUME NEW tokens \in Estimates,
               LET usage == [tokens |-> tokens, cost |-> None]
               IN  Reserve(c, [tokens |-> tokens,
                               cost |-> EstimateCost(usage, Price[c])])
        PROVE  Admitted
    <3>1. [tokens |-> tokens, cost |-> None] \in Usage
      BY DEF Usage, MaybeNat
    <3>2. [tokens |-> tokens,
           cost |-> EstimateCost([tokens |-> tokens, cost |-> None], Price[c])]
             \in Reservation
      BY <3>1, EstimateCostType DEF Reservation
    <3>3. reservations[c] = None
      BY <1>1, <1>2 DEF Admit, Suspended
    <3> QED
      BY <2>2, <3>2, <3>3 DEF Admitted
  <2> QED
    BY <1>2, <2>1, <2>2 DEF Admit
<1>3. ASSUME NEW c \in Calls, pc[c] \in Suspended, NEW usage \in Usage,
             Settle(c, AgentOf[c], usage, Price[c])
      PROVE  Settled
  BY <1>1, <1>3 DEF Settled
<1>4. Usages \subseteq Usage /\ Unknown \in Usage
  BY DEF Usage, Unknown, MaybeNat
<1>5. ASSUME NEW c \in Calls, Succeed(c) \/ Fail(c) \/ Abort(c)
      PROVE  Settled
  BY <1>3, <1>4, <1>5 DEF Succeed, Fail, Abort, Suspended
<1>6. ASSUME NEW c \in Calls, Start(c) \/ Cancel(c)
      PROVE  UNCHANGED ledgerVars
  BY <1>6 DEF Start, Cancel
<1> QED
  BY <1>2, <1>5, <1>6 DEF Next, Proceed, Terminated, vars, Admitted, Settled

-------------------------------------------------------------------------------
(* The figures the sums are made of. *)
LEMMA FigureTypes ==
  ASSUME LedgerTypeOK
  PROVE  /\ IsFiniteSet(Outstanding)
         /\ \A c \in Outstanding : /\ reservations[c].tokens \in Nat
                                   /\ Known(reservations[c].cost, 0) \in Nat
         /\ \A a \in Agents : /\ byAgent[a]["calls"] \in Nat
                              /\ byAgent[a]["reported"] \in Nat
                              /\ byAgent[a]["estimated"] \in Nat
<1>1. IsFiniteSet(Outstanding)
  BY FS_Subset DEF Outstanding
<1>2. \A c \in Outstanding : reservations[c] \in Reservation
  BY DEF LedgerTypeOK, Outstanding
<1>3. \A a \in Agents : byAgent[a] \in Summary
  BY DEF LedgerTypeOK
<1> QED
  BY <1>1, <1>2, <1>3 DEF Reservation, Known, MaybeNat, Summary

LEMMA SumFunctionIsOnSet ==
  ASSUME NEW f
  PROVE  SumFunction(f) = SumFunctionOnSet(f, DOMAIN f)
BY DEF SumFunction

(* The figures of all agents' summaries add up to a natural number, which  *)
(* grows by what the summary of one agent grows by.                        *)
Figures == {"calls", "reported", "estimated"}

LEMMA TotalType ==
  ASSUME LedgerTypeOK, NEW figure \in Figures
  PROVE  Total(figure) \in Nat
<1> DEFINE f == [a \in Agents |-> byAgent[a][figure]]
<1>1. DOMAIN f = Agents /\ \A a \in Agents : f[a] \in Nat
  BY FigureTypes DEF Figures
<1> HIDE DEF f
<1>2. SumFunction(f) \in Nat
  BY <1>1, SumFunctionIsOnSet, SumNat
<1> QED
  BY <1>2 DEF f, Total

LEMMA TotalGrows ==
  ASSUME LedgerTypeOK, NEW figure \in Figures, NEW agent \in Agents, NEW more \in Nat,
         byAgent'[agent][figure] = byAgent[agent][figure] + more,
         \A a \in Agents \ {agent} : byAgent'[a] = byAgent[a]
  PROVE  Total(figure)' = Total(figure) + more
<1> DEFINE f == [a \in Agents |-> byAgent[a][figure]]
           g == [a \in Agents |-> byAgent'[a][figure]]
<1>1. /\ DOMAIN f = Agents /\ DOMAIN g = Agents
      /\ \A a \in Agents : f[a] \in Int
      /\ g[agent] = f[agent] + more
      /\ \A a \in Agents \ {agent} : g[a] = f[a]
  BY FigureTypes DEF Figures
<1> HIDE DEF f, g
<1>2. SumFunctionOnSet(g, Agents) = SumFunctionOnSet(f, Agents) + g[agent] - f[agent]
  BY <1>1, SumUpdate
<1>3. SumFunctionOnSet(f, Agents) \in Int
  BY <1>1, SumInt
<1>4. SumFunction(g) = SumFunction(f) + more
  BY <1>1, <1>2, <1>3, SumFunctionIsOnSet
<1> QED
  BY <1>4 DEF f, g, Total

(* An admitted call's reservation joins the sums. *)
LEMMA ReserveBalanced ==
  ASSUME LedgerTypeOK, LedgerBalanced, NEW c \in Calls, reservations[c] = None,
         NEW estimate \in Reservation, Reserve(c, estimate)
  PROVE  LedgerBalanced'
<1> DEFINE tokens == [d \in Outstanding |-> reservations[d].tokens]
           cost   == [d \in Outstanding |-> Known(reservations[d].cost, 0)]
<1>1. /\ reservations' = [reservations EXCEPT ![c] = estimate]
      /\ reservedTokens' = reservedTokens + estimate.tokens
      /\ reservedCost' = reservedCost + Known(estimate.cost, 0)
      /\ calls' = calls + 1 /\ byAgent' = byAgent
  BY DEF Reserve
<1>2. /\ estimate # None /\ estimate.tokens \in Nat
      /\ Known(estimate.cost, 0) \in Nat
  BY DEF Reservation, Known, MaybeNat
<1>3. /\ c \notin Outstanding /\ Outstanding' = Outstanding \cup {c}
      /\ reservations'[c] = estimate
      /\ \A d \in Outstanding : reservations'[d] = reservations[d]
  BY <1>1, <1>2 DEF Outstanding, LedgerTypeOK
<1>4. /\ IsFiniteSet(Outstanding)
      /\ \A d \in Outstanding : tokens[d] \in Int /\ cost[d] \in Int
  BY FigureTypes
<1>5. reservedTokens' = SumFunction(tokens')
  <2> DEFINE f == tokens
             g == tokens'
  <2>1. /\ DOMAIN f = Outstanding /\ DOMAIN g = Outstanding \cup {c}
        /\ g[c] = estimate.tokens
        /\ \A d \in Outstanding : f[d] \in Int /\ g[d] = f[d]
    BY <1>3, <1>4
  <2>2. reservedTokens = SumFunction(f)
    BY DEF LedgerBalanced
  <2> HIDE DEF f, g
  <2>3. SumFunctionOnSet(g, Outstanding \cup {c}) = SumFunctionOnSet(f, Outstanding) + g[c]
    BY <1>2, <1>3, <1>4, <2>1, SumAdd
  <2>4. SumFunction(g) = reservedTokens'
    BY <1>1, <2>1, <2>2, <2>3, SumFunctionIsOnSet
  <2> QED
    BY <2>4 DEF g
<1>6. reservedCost' = SumFunction(cost')
  <2> DEFINE f == cost
             g == cost'
  <2>1. /\ DOMAIN f = Outstanding /\ DOMAIN g = Outstanding \cup {c}
        /\ g[c] = Known(estimate.cost, 0)
        /\ \A d \in Outstanding : f[d] \in Int /\ g[d] = f[d]
    BY <1>3, <1>4 DEF Known
  <2>2. reservedCost = SumFunction(f)
    BY DEF LedgerBalanced
  <2> HIDE DEF f, g
  <2>3. SumFunctionOnSet(g, Outstanding \cup {c}) = SumFunctionOnSet(f, Outstanding) + g[c]
    BY <1>2, <1>3, <1>4, <2>1, SumAdd
  <2>4. SumFunction(g) = reservedCost'
    BY <1>1, <2>1, <2>2, <2>3, SumFunctionIsOnSet
  <2> QED
    BY <2>4 DEF g
<1>7. calls' = Cardinality(Outstanding') + Total("calls")'
  <2>1. Cardinality(Outstanding') = Cardinality(Outstanding) + 1
    BY <1>3, <1>4, FS_AddElement
  <2>2. Total("calls") \in Nat
    BY TotalType DEF Figures
  <2>3. Total("calls")' = Total("calls")
    BY <1>1 DEF Total
  <2>4. Cardinality(Outstanding) \in Nat /\ calls = Cardinality(Outstanding) + Total("calls")
    BY <1>4, FS_CardinalityType DEF LedgerBalanced
  <2> QED
    BY <1>1, <2>1, <2>2, <2>3, <2>4
<1> QED
  BY <1>5, <1>6, <1>7 DEF LedgerBalanced

(* What a settlement does, in terms of what was held and what is charged. *)
LEMMA SettleEffect ==
  ASSUME LedgerTypeOK, NEW c \in Calls, reservations[c] # None,
         NEW usage \in Usage, Settle(c, AgentOf[c], usage, Price[c])
  PROVE  \E charged \in Nat :
           LET agent    == AgentOf[c]
               reported == Known(usage.cost, 0)
               rest     == IF usage.cost = None THEN charged ELSE 0
           IN  /\ agent \in Agents /\ reported \in Nat /\ rest \in Nat
               /\ charged = reported + rest
               /\ reservations' = [reservations EXCEPT ![c] = None]
               /\ reservedTokens' = reservedTokens - reservations[c].tokens
               /\ reservedCost' = reservedCost - Known(reservations[c].cost, 0)
               /\ committedCost' = committedCost + charged
               /\ calls' = calls
               /\ byAgent'[agent]["calls"] = byAgent[agent]["calls"] + 1
               /\ byAgent'[agent]["reported"] = byAgent[agent]["reported"] + reported
               /\ byAgent'[agent]["estimated"] = byAgent[agent]["estimated"] + rest
               /\ \A a \in Agents \ {agent} : byAgent'[a] = byAgent[a]
<1> DEFINE agent  == AgentOf[c]
           held   == reservations[c]
           actual == EstimateCost(usage, Price[c])
           cost   == Known(actual, Known(held.cost, 0))
           rest   == IF usage.cost = None THEN cost ELSE 0
           reported == Known(usage.cost, 0)
<1>1. /\ held.cost \in MaybeNat /\ usage.cost \in MaybeNat
      /\ agent \in Agents /\ Price[c] \in MaybeNat
      /\ byAgent \in [Agents -> Summary]
  BY DEF LedgerTypeOK, Reservation, Usage
<1>2. actual \in MaybeNat /\ Known(held.cost, 0) \in Nat
  BY <1>1, EstimateCostType DEF Known, MaybeNat
<1>3. cost \in Nat /\ reported \in Nat /\ rest \in Nat
  BY <1>1, <1>2 DEF Known, MaybeNat
<1>4. usage.cost # None => actual = usage.cost
  BY DEF EstimateCost
<1>5. cost = reported + rest
  BY <1>1, <1>3, <1>4 DEF Known, MaybeNat
<1>6. /\ reservations' = [reservations EXCEPT ![c] = None]
      /\ reservedTokens' = reservedTokens - held.tokens
      /\ reservedCost' = reservedCost - Known(held.cost, 0)
      /\ committedCost' = committedCost + cost
      /\ byAgent' = [byAgent EXCEPT ![agent] =
                       AddSummary(byAgent[agent], usage, actual, cost)]
      /\ calls' = calls
  BY DEF Settle
<1> HIDE DEF actual, cost
<1>7. /\ byAgent'[agent] = AddSummary(byAgent[agent], usage, actual, cost)
      /\ \A a \in Agents \ {agent} : byAgent'[a] = byAgent[a]
  BY <1>1, <1>6
<1>8. /\ byAgent'[agent]["calls"] = byAgent[agent]["calls"] + 1
      /\ byAgent'[agent]["reported"] = byAgent[agent]["reported"] + reported
      /\ byAgent'[agent]["estimated"] = byAgent[agent]["estimated"] + rest
  BY <1>7 DEF AddSummary
<1> QED
  BY <1>1, <1>3, <1>5, <1>6, <1>7, <1>8

(* A settled call's reservation leaves the sums, and the call is counted   *)
(* under its agent.                                                        *)
LEMMA SettleBalanced ==
  ASSUME LedgerTypeOK, LedgerBalanced, NEW c \in Calls, reservations[c] # None,
         NEW usage \in Usage, Settle(c, AgentOf[c], usage, Price[c])
  PROVE  LedgerBalanced'
<1> DEFINE tokens == [d \in Outstanding |-> reservations[d].tokens]
           cost   == [d \in Outstanding |-> Known(reservations[d].cost, 0)]
           agent  == AgentOf[c]
<1>1. /\ reservations' = [reservations EXCEPT ![c] = None]
      /\ reservedTokens' = reservedTokens - reservations[c].tokens
      /\ reservedCost' = reservedCost - Known(reservations[c].cost, 0)
      /\ calls' = calls /\ agent \in Agents
      /\ byAgent'[agent]["calls"] = byAgent[agent]["calls"] + 1
      /\ \A a \in Agents \ {agent} : byAgent'[a] = byAgent[a]
  BY SettleEffect
<1>2. /\ c \in Outstanding /\ Outstanding' = Outstanding \ {c}
      /\ \A d \in Outstanding \ {c} : reservations'[d] = reservations[d]
  BY <1>1 DEF Outstanding, LedgerTypeOK
<1>3. /\ IsFiniteSet(Outstanding)
      /\ \A d \in Outstanding : tokens[d] \in Int /\ cost[d] \in Int
  BY FigureTypes
<1>4. reservedTokens' = SumFunction(tokens')
  <2> DEFINE f == tokens
             g == tokens'
  <2>1. /\ DOMAIN f = Outstanding /\ DOMAIN g = Outstanding \ {c}
        /\ f[c] = reservations[c].tokens
        /\ \A d \in Outstanding : f[d] \in Int
        /\ \A d \in Outstanding \ {c} : g[d] = f[d]
    BY <1>2, <1>3
  <2>2. reservedTokens = SumFunction(f)
    BY DEF LedgerBalanced
  <2> HIDE DEF f, g
  <2>3. SumFunctionOnSet(g, Outstanding \ {c}) = SumFunctionOnSet(f, Outstanding) - f[c]
    BY <1>2, <1>3, <2>1, SumDrop
  <2>4. SumFunction(g) = reservedTokens'
    BY <1>1, <2>1, <2>2, <2>3, SumFunctionIsOnSet
  <2> QED
    BY <2>4 DEF g
<1>5. reservedCost' = SumFunction(cost')
  <2> DEFINE f == cost
             g == cost'
  <2>1. /\ DOMAIN f = Outstanding /\ DOMAIN g = Outstanding \ {c}
        /\ f[c] = Known(reservations[c].cost, 0)
        /\ \A d \in Outstanding : f[d] \in Int
        /\ \A d \in Outstanding \ {c} : g[d] = f[d]
    BY <1>2, <1>3 DEF Known
  <2>2. reservedCost = SumFunction(f)
    BY DEF LedgerBalanced
  <2> HIDE DEF f, g
  <2>3. SumFunctionOnSet(g, Outstanding \ {c}) = SumFunctionOnSet(f, Outstanding) - f[c]
    BY <1>2, <1>3, <2>1, SumDrop
  <2>4. SumFunction(g) = reservedCost'
    BY <1>1, <2>1, <2>2, <2>3, SumFunctionIsOnSet
  <2> QED
    BY <2>4 DEF g
<1>6. calls' = Cardinality(Outstanding') + Total("calls")'
  <2>1. /\ Cardinality(Outstanding') = Cardinality(Outstanding) - 1
        /\ Cardinality(Outstanding) \in Nat
    BY <1>2, <1>3, FS_RemoveElement, FS_CardinalityType
  <2>2. Total("calls")' = Total("calls") + 1 /\ Total("calls") \in Nat
    BY <1>1, TotalGrows, TotalType DEF Figures
  <2>3. calls = Cardinality(Outstanding) + Total("calls")
    BY DEF LedgerBalanced
  <2> QED
    BY <1>1, <2>1, <2>2, <2>3
<1> QED
  BY <1>4, <1>5, <1>6 DEF LedgerBalanced

-------------------------------------------------------------------------------
(* Every reservation is settled once: what is reserved is at any time the  *)
(* sum of what suspended calls hold, and no admitted call is missing from  *)
(* the summaries once it is over.                                          *)
THEOREM BooksBalance == Spec => []LedgerBalanced
<1>1. Init => LedgerBalanced
  <2> SUFFICES ASSUME Init PROVE LedgerBalanced
    OBVIOUS
  <2>1. LedgerTypeOK /\ Outstanding = {}
    BY RuntimeInit DEF RuntimeInv, TypeOK, Init, LedgerInit, Outstanding
  <2>2. \A f : DOMAIN f = {} => SumFunction(f) = 0
    BY FS_EmptySet, SumFunctionIsOnSet, SumUnfold
  <2>3. Total("calls") = 0
    <3> DEFINE f == [a \in Agents |-> byAgent[a]["calls"]]
    <3>1. DOMAIN f = Agents /\ \A a \in Agents : f[a] = 0
      BY DEF Init, LedgerInit
    <3> HIDE DEF f
    <3>2. SumFunction(f) = 0
      BY <3>1, SumZero, SumFunctionIsOnSet
    <3> QED
      BY <3>2 DEF f, Total
  <2>4. Cardinality(Outstanding) = 0
    BY <2>1, FS_EmptySet
  <2>5. calls = 0 /\ reservedTokens = 0 /\ reservedCost = 0
    BY DEF Init, LedgerInit
  <2>6. /\ SumFunction([c \in Outstanding |-> reservations[c].tokens]) = 0
        /\ SumFunction([c \in Outstanding |-> Known(reservations[c].cost, 0)]) = 0
    BY <2>1, <2>2
  <2> QED
    BY <2>3, <2>4, <2>5, <2>6 DEF LedgerBalanced
<1>2. ASSUME RuntimeInv, LedgerBalanced, [Next]_vars
      PROVE  LedgerBalanced'
  <2>1. LedgerTypeOK
    BY <1>2 DEF RuntimeInv, TypeOK
  <2>2. CASE UNCHANGED ledgerVars
    BY <1>2, <2>2 DEF ledgerVars, LedgerBalanced, Outstanding, Total
  <2> QED
    BY <1>2, <2>1, <2>2, LedgerStep, ReserveBalanced, SettleBalanced
<1> QED
  BY <1>1, <1>2, RuntimeInvariant, PTL DEF Spec

(* summary() shows the same cost by budget and by agent.                   *)
THEOREM CostViewsCorrect == Spec => []CostViewsAgree
<1>1. Init => CostViewsAgree
  <2> SUFFICES ASSUME Init PROVE CostViewsAgree
    OBVIOUS
  <2>1. committedCost = 0
    BY DEF Init, LedgerInit
  <2>2. ASSUME NEW figure \in Figures
        PROVE  Total(figure) = 0
    <3> DEFINE f == [a \in Agents |-> byAgent[a][figure]]
    <3>1. DOMAIN f = Agents /\ \A a \in Agents : f[a] = 0
      BY DEF Init, LedgerInit, Figures
    <3> HIDE DEF f
    <3>2. SumFunction(f) = 0
      BY <3>1, SumZero, SumFunctionIsOnSet
    <3> QED
      BY <3>2 DEF f, Total
  <2> QED
    BY <2>1, <2>2 DEF CostViewsAgree, Figures
<1>2. ASSUME RuntimeInv, CostViewsAgree, [Next]_vars
      PROVE  CostViewsAgree'
  <2>1. LedgerTypeOK
    BY <1>2 DEF RuntimeInv, TypeOK
  <2>2. CASE UNCHANGED ledgerVars
    BY <1>2, <2>2 DEF ledgerVars, CostViewsAgree, Total
  <2>3. ASSUME NEW c \in Calls, NEW estimate, Reserve(c, estimate)
        PROVE  CostViewsAgree'
    BY <1>2, <2>3 DEF Reserve, CostViewsAgree, Total
  <2>4. ASSUME NEW c \in Calls, NEW usage \in Usage, reservations[c] # None,
               Settle(c, AgentOf[c], usage, Price[c])
        PROVE  CostViewsAgree'
    <3>1. PICK charged \in Nat, reported \in Nat, rest \in Nat, agent \in Agents :
            /\ charged = reported + rest
            /\ committedCost' = committedCost + charged
            /\ byAgent'[agent]["reported"] = byAgent[agent]["reported"] + reported
            /\ byAgent'[agent]["estimated"] = byAgent[agent]["estimated"] + rest
            /\ \A a \in Agents \ {agent} : byAgent'[a] = byAgent[a]
      <4> DEFINE whose == AgentOf[c]
                 cost == Known(usage.cost, 0)
      <4>1. PICK charged \in Nat :
              LET rest == IF usage.cost = None THEN charged ELSE 0
              IN /\ whose \in Agents /\ cost \in Nat /\ rest \in Nat
                 /\ charged = cost + rest
                 /\ committedCost' = committedCost + charged
                 /\ byAgent'[whose]["reported"] = byAgent[whose]["reported"] + cost
                 /\ byAgent'[whose]["estimated"] = byAgent[whose]["estimated"] + rest
                 /\ \A a \in Agents \ {whose} : byAgent'[a] = byAgent[a]
        BY <2>1, <2>4, SettleEffect
      <4> HIDE DEF whose, cost
      <4> QED
        BY <4>1
    <3>2. /\ Total("reported")' = Total("reported") + reported
          /\ Total("estimated")' = Total("estimated") + rest
          /\ Total("reported") \in Nat /\ Total("estimated") \in Nat
      BY <2>1, <3>1, TotalGrows, TotalType DEF Figures
    <3> QED
      BY <1>2, <3>1, <3>2 DEF CostViewsAgree
  <2> QED
    BY <1>2, <2>2, <2>3, <2>4, LedgerStep
<1> QED
  BY <1>1, <1>2, RuntimeInvariant, PTL DEF Spec

(* Because nothing reserved can be negative, an overage alone is enough    *)
(* for reserve to refuse every further call, whatever is settled meanwhile.*)
THEOREM AdmissionsStop == Spec => NoAdmissionAfterOverage
<1>1. ASSUME RuntimeInv, LedgerBalanced, [Next]_vars, Overage
      PROVE  Outstanding' \subseteq Outstanding
  <2>1. LedgerTypeOK
    BY <1>1 DEF RuntimeInv, TypeOK
  <2>2. reservedTokens \in Nat /\ reservedCost \in Nat
    <3> DEFINE tokens == [c \in Outstanding |-> reservations[c].tokens]
               cost   == [c \in Outstanding |-> Known(reservations[c].cost, 0)]
    <3>1. /\ DOMAIN tokens = Outstanding /\ DOMAIN cost = Outstanding
          /\ IsFiniteSet(Outstanding)
          /\ \A c \in Outstanding : tokens[c] \in Nat /\ cost[c] \in Nat
      BY <2>1, FigureTypes
    <3>2. reservedTokens = SumFunction(tokens) /\ reservedCost = SumFunction(cost)
      BY <1>1 DEF LedgerBalanced
    <3> HIDE DEF tokens, cost
    <3> QED
      BY <3>1, <3>2, SumFunctionIsOnSet, SumNat
  <2>3. \A c \in Calls, estimate \in Reservation : ~Reserve(c, estimate)
    <3> SUFFICES ASSUME NEW estimate \in Reservation, Admissible(estimate)
                 PROVE  FALSE
      BY DEF Reserve
    <3>1. /\ committedTokens \in Nat /\ committedCost \in Nat
          /\ estimate.tokens \in Nat /\ MaxTokens \in Nat /\ MaxCost \in Nat
          /\ estimate.cost \in Nat \cup {None}
      BY <2>1 DEF LedgerTypeOK, Reservation, MaybeNat
    <3>2. CASE committedTokens > MaxTokens
      BY <2>2, <3>1, <3>2 DEF Admissible
    <3>3. CASE MaxCost > 0 /\ committedCost > MaxCost
      BY <2>2, <3>1, <3>3 DEF Admissible
    <3> QED
      BY <1>1, <3>2, <3>3 DEF Overage
  <2>4. CASE UNCHANGED ledgerVars
    BY <2>4 DEF ledgerVars, Outstanding
  <2>5. ASSUME NEW c \in Calls, NEW usage, Settle(c, AgentOf[c], usage, Price[c])
        PROVE  Outstanding' \subseteq Outstanding
    BY <2>1, <2>5 DEF Settle, Outstanding, LedgerTypeOK
  <2> QED
    BY <1>1, <2>3, <2>4, <2>5, LedgerStep
<1>2. RuntimeInv /\ LedgerBalanced /\ [Next]_vars =>
        [Overage => Outstanding' \subseteq Outstanding]_vars
  BY <1>1
<1> QED
  BY <1>2, RuntimeInvariant, BooksBalance, PTL DEF Spec, NoAdmissionAfterOverage
===============================================================================
