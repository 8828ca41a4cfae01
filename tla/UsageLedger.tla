----------------------------- MODULE UsageLedger ------------------------------
(***************************************************************************)
(* core/runtime.py: UsageLedger, the run's budget.  A call reserves its    *)
(* estimate before the provider starts and settles what it used when the   *)
(* provider is over.  Each method runs under the ledger's lock and never   *)
(* suspends, so each is one step of the module that composes it.           *)
(*                                                                         *)
(* Tokens and dollars are natural numbers.  A usage report is a record     *)
(* whose tokens (input plus output) and reported cost may each be missing; *)
(* a price is dollars per token, or missing.                               *)
(*                                                                         *)
(* As in WorkspaceGate, a definition whose name extends another's is that  *)
(* definition with a plausible mistake.                                    *)
(***************************************************************************)
EXTENDS Integers, FiniteSets, FiniteSetsExt

CONSTANTS
  Calls,      \* identities of the calls that reserve; one reservation each
  Agents,     \* agent identities the usage is summarised by
  MaxCalls,   \* budgets.max_provider_calls
  MaxTokens,  \* budgets.max_total_tokens
  MaxCost,    \* budgets.max_estimated_cost_usd, 0 when there is no limit
  None        \* Python's None

ASSUME LimitsAssumption == /\ MaxCalls \in Nat \ {0}
                           /\ MaxTokens \in Nat \ {0}
                           /\ MaxCost \in Nat
ASSUME CallsAssumption == IsFiniteSet(Calls) /\ IsFiniteSet(Agents)

MaybeNat == Nat \cup {None}
Reservation == [tokens : Nat, cost : MaybeNat]

ASSUME NoneAssumption == None \notin Int /\ None \notin Reservation

VARIABLES
  calls,            \* self.calls
  committedTokens,  \* self.committed_tokens
  reservedTokens,   \* self.reserved_tokens
  committedCost,    \* self.committed_cost_usd
  reservedCost,     \* self.reserved_cost_usd
  byAgent,          \* self.by_agent
  reservations,     \* self._reservations, None for a call without one
  excessTokens,     \* history: tokens settled above their reservation
  excessCost        \* history: dollars settled above their reservation

ledgerVars == <<calls, committedTokens, reservedTokens, committedCost,
                reservedCost, byAgent, reservations, excessTokens, excessCost>>

Usage == [tokens : MaybeNat, cost : MaybeNat]
Unknown == [tokens |-> None, cost |-> None]
Summary == [calls : Nat, reported : Nat, estimated : Nat,
            unknownUsage : Nat, unknownCost : Nat]

LedgerTypeOK ==
  /\ calls \in Nat
  /\ committedTokens \in Nat /\ reservedTokens \in Int
  /\ committedCost \in Nat /\ reservedCost \in Int
  /\ byAgent \in [Agents -> Summary]
  /\ reservations \in [Calls -> Reservation \cup {None}]
  /\ excessTokens \in Nat /\ excessCost \in Nat

LedgerInit ==
  /\ calls = 0
  /\ committedTokens = 0 /\ reservedTokens = 0
  /\ committedCost = 0 /\ reservedCost = 0
  /\ byAgent = [a \in Agents |-> [calls |-> 0, reported |-> 0, estimated |-> 0,
                                  unknownUsage |-> 0, unknownCost |-> 0]]
  /\ reservations = [c \in Calls |-> None]
  /\ excessTokens = 0 /\ excessCost = 0

-------------------------------------------------------------------------------
Known(x, default) == IF x # None THEN x ELSE default
Above(x, y) == IF x > y THEN x - y ELSE 0

(* estimate_cost: the provider's own figure, else tokens at the configured *)
(* price, else nothing.                                                    *)
EstimateCost(usage, price) ==
  IF usage.cost # None THEN usage.cost
  ELSE IF price # None /\ usage.tokens # None THEN usage.tokens * price
  ELSE None

(* The admission test of reserve. *)
AdmissibleOnItsOwn(estimate) ==
  /\ calls < MaxCalls
  /\ committedTokens + estimate.tokens <= MaxTokens
  /\ MaxCost > 0 => /\ estimate.cost # None
                    /\ committedCost + estimate.cost <= MaxCost

AdmissibleBesideReserved(estimate) ==
  /\ calls < MaxCalls
  /\ reservedTokens + estimate.tokens <= MaxTokens
  /\ MaxCost > 0 => /\ estimate.cost # None
                    /\ reservedCost + estimate.cost <= MaxCost

Admissible(estimate) ==
  /\ calls < MaxCalls
  /\ committedTokens + reservedTokens + estimate.tokens <= MaxTokens
  /\ MaxCost > 0 => /\ estimate.cost # None
                    /\ committedCost + reservedCost + estimate.cost <= MaxCost

Reserve(c, estimate) ==
  /\ Admissible(estimate)
  /\ calls' = calls + 1
  /\ reservedTokens' = reservedTokens + estimate.tokens
  /\ reservedCost' = reservedCost + Known(estimate.cost, 0)
  /\ reservations' = [reservations EXCEPT ![c] = estimate]
  /\ UNCHANGED <<committedTokens, committedCost, byAgent,
                 excessTokens, excessCost>>

(* The entry _add_summary makes for the agent of a settled call. *)
AddSummaryActualOnly(summary, usage, actual, charged) ==
  [summary EXCEPT !.calls = @ + 1,
                  !.reported = @ + Known(usage.cost, 0),
                  !.estimated = @ + IF usage.cost = None THEN Known(actual, 0) ELSE 0]

AddSummary(summary, usage, actual, charged) ==
  [calls        |-> summary.calls + 1,
   reported     |-> summary.reported + Known(usage.cost, 0),
   estimated    |-> summary.estimated + IF usage.cost = None THEN charged ELSE 0,
   unknownUsage |-> summary.unknownUsage + IF usage.tokens = None THEN 1 ELSE 0,
   unknownCost  |-> summary.unknownCost + IF actual = None THEN 1 ELSE 0]

SettleUnreserved(c, agent, usage, price) ==
  LET held   == reservations[c]
      actual == EstimateCost(usage, price)
      tokens == Known(usage.tokens, held.tokens)
      cost   == Known(actual, Known(held.cost, 0))
  IN  /\ reservations' = [reservations EXCEPT ![c] = None]
      /\ reservedTokens' = reservedTokens - tokens
      /\ reservedCost' = reservedCost - cost
      /\ committedTokens' = committedTokens + tokens
      /\ committedCost' = committedCost + cost
      /\ byAgent' = [byAgent EXCEPT ![agent] =
                       AddSummary(@, usage, actual, cost)]
      /\ excessTokens' = excessTokens + Above(tokens, held.tokens)
      /\ excessCost' = excessCost + Above(cost, Known(held.cost, 0))
      /\ UNCHANGED calls

(* reconcile and reconcile_failure: what was used when it is known, the    *)
(* whole reservation when it is not.                                       *)
Settle(c, agent, usage, price) ==
  LET held   == reservations[c]
      actual == EstimateCost(usage, price)
      tokens == Known(usage.tokens, held.tokens)
      cost   == Known(actual, Known(held.cost, 0))
  IN  /\ reservations' = [reservations EXCEPT ![c] = None]
      /\ reservedTokens' = reservedTokens - held.tokens
      /\ reservedCost' = reservedCost - Known(held.cost, 0)
      /\ committedTokens' = committedTokens + tokens
      /\ committedCost' = committedCost + cost
      /\ byAgent' = [byAgent EXCEPT ![agent] =
                       AddSummary(@, usage, actual, cost)]
      /\ excessTokens' = excessTokens + Above(tokens, held.tokens)
      /\ excessCost' = excessCost + Above(cost, Known(held.cost, 0))
      /\ UNCHANGED calls

(* overage_reason is not None. *)
Overage == \/ committedTokens > MaxTokens
           \/ MaxCost > 0 /\ committedCost > MaxCost

-------------------------------------------------------------------------------
Outstanding == {c \in Calls : reservations[c] # None}
Total(figure) == SumFunction([a \in Agents |-> byAgent[a][figure]])

(* What is reserved is the sum of the outstanding reservations, and every  *)
(* admitted call is either outstanding or summarised under its agent.      *)
LedgerBalanced ==
  /\ reservedTokens = SumFunction([c \in Outstanding |-> reservations[c].tokens])
  /\ reservedCost =
       SumFunction([c \in Outstanding |-> Known(reservations[c].cost, 0)])
  /\ calls = Cardinality(Outstanding) + Total("calls")

(* The budget view and the per-agent view of the cost are the same number: *)
(* summary()'s accounted_cost_usd and budget_accounted_cost_usd.           *)
CostViewsAgree == committedCost = Total("reported") + Total("estimated")

(* What is committed and reserved passes a limit only by what settled      *)
(* calls used above their reservations: concurrent admissions never        *)
(* overbook the budget by themselves.                                      *)
AdmissionBound ==
  /\ committedTokens + reservedTokens <= MaxTokens + excessTokens
  /\ MaxCost > 0 => committedCost + reservedCost <= MaxCost + excessCost
===============================================================================
