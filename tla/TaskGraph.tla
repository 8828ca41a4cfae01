------------------------------ MODULE TaskGraph -------------------------------
(***************************************************************************)
(* core/run.py: TaskPlan.valid_dependency_graph, which plans a run accepts.*)
(* A plan is a sequence of tasks, each with its id and the ids it depends  *)
(* on; nothing keeps an id from occurring twice or from naming no task.    *)
(***************************************************************************)
EXTENDS Naturals, FiniteSets, SequencesExt

PlannedTask == [id : STRING, dependsOn : SUBSET STRING]
Plans == Seq(PlannedTask)

Ids(plan) == {plan[i].id : i \in DOMAIN plan}

(* The loop over what remains: a turn resolves every task whose            *)
(* dependencies are resolved, Turns(plan)[n] holds what n turns resolve.   *)
Turns(plan) ==
  LET resolved[n \in 0 .. Len(plan)] ==
        IF n = 0 THEN {}
        ELSE resolved[n - 1] \cup
             {plan[i].id : i \in {j \in DOMAIN plan :
                                    plan[j].dependsOn \subseteq resolved[n - 1]}}
  IN resolved

(* The validator, in its order: no empty plan, unique ids, known           *)
(* dependencies, no task that depends on itself, and no turn that resolves *)
(* nothing while a task remains.                                           *)
PlanAcceptedUnresolved(plan) ==
  /\ plan # <<>>
  /\ Cardinality(Ids(plan)) = Len(plan)
  /\ \A i \in DOMAIN plan : /\ plan[i].dependsOn \subseteq Ids(plan)
                            /\ plan[i].id \notin plan[i].dependsOn

PlanAccepted(plan) ==
  /\ plan # <<>>
  /\ Cardinality(Ids(plan)) = Len(plan)
  /\ \A i \in DOMAIN plan : /\ plan[i].dependsOn \subseteq Ids(plan)
                            /\ plan[i].id \notin plan[i].dependsOn
  /\ Turns(plan)[Len(plan)] = Ids(plan)

(* What acceptance is for: the tasks, once each, can be put into an order  *)
(* in which every one comes after all that it depends on.                  *)
Executable(plan) ==
  /\ plan # <<>>
  /\ \E order \in [Ids(plan) -> DOMAIN plan] :
       /\ \A i \in DOMAIN plan : \E t \in Ids(plan) : order[t] = i
       /\ \A i \in DOMAIN plan : \A d \in plan[i].dependsOn :
            d \in Ids(plan) /\ order[d] < order[plan[i].id]
===============================================================================
