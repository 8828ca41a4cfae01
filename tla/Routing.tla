------------------------------- MODULE Routing --------------------------------
(***************************************************************************)
(* core/routing.py and core/specialists.py: which profile a task is given  *)
(* to.  WorkerSelector filters what SpecialistRegistry finds eligible;     *)
(* SpecialistRouter, for callers of the library, asks a policy first.      *)
(*                                                                         *)
(* A task holds the capabilities it requires, the routing keywords its     *)
(* description mentions, its access, its complexity and the quality it     *)
(* asks for, if any.  Agent ids are numbers, in the order of their names.  *)
(***************************************************************************)
EXTENDS Configuration

CONSTANTS
  Rules,   \* config.routing_rules
  NoAgent  \* no worker is eligible

ASSUME AgentAssumption == NoAgent \notin Nat

QualityRank(quality) ==
  CASE quality = "economy" -> 0 [] quality = "standard" -> 1 [] quality = "high" -> 2
ComplexityQuality(complexity) ==
  CASE complexity = "low" -> "economy" [] complexity = "medium" -> "standard"
    [] complexity = "high" -> "high"

(* WorkerSelector.required_capabilities: a worker's include those of every *)
(* rule with a keyword the description mentions, a reviewer's do not.      *)
RequiredCapabilities(task, role) ==
  IF role = "reviewer" THEN task.capabilities
  ELSE task.capabilities
         \cup UNION {rule.capabilities :
                       rule \in {r \in Rules : r.keywords \cap task.mentions # {}}}

RequiredQuality(task) ==
  IF task.quality # "unset" THEN task.quality ELSE ComplexityQuality(task.complexity)

(* SpecialistRegistry.eligible. *)
EligibleFor(workers, required, access, role, excluded) ==
  {w \in DOMAIN workers :
     /\ workers[w].role = role /\ w \notin excluded
     /\ workers[w].access = access
     /\ required \subseteq workers[w].capabilities}

(* The sort key of both selections: cost rank, then agent id. *)
Before(workers, v, w) ==
  \/ workers[v].cost < workers[w].cost
  \/ workers[v].cost = workers[w].cost /\ v < w

Cheapest(workers, eligible) ==
  IF eligible = {} THEN NoAgent
  ELSE CHOOSE w \in eligible : \A v \in eligible \ {w} : Before(workers, w, v)

(* WorkerSelector.select. *)
Select(workers, task, role, excluded) ==
  LET eligible == EligibleFor(workers, RequiredCapabilities(task, role),
                              task.access, role, excluded)
  IN Cheapest(workers, {w \in eligible : QualityRank(workers[w].quality)
                                           >= QualityRank(RequiredQuality(task))})

(* ApprovalPolicy.require and SpecialistRouter.route: a signal is routed   *)
(* only when its action and its access are on the policy's lists.          *)
Permits(policy, signal) ==
  signal.action \in policy.actions /\ signal.access \in policy.accesses

Route(workers, policy, signal, role, excluded) ==
  IF ~Permits(policy, signal) THEN NoAgent
  ELSE Cheapest(workers, EligibleFor(workers, signal.capabilities, signal.access,
                                     role, excluded))

(* The reviewer of a task another worker executed: _review_task. *)
ReviewTask(task) ==
  [task EXCEPT !.capabilities = {"review"}, !.access = "read_only"]
===============================================================================
