------------------------------ MODULE MCLocalRun ------------------------------
(***************************************************************************)
(* Instances of LocalRun for TLC.  One plan and one configuration go       *)
(* through the whole command; every plan of up to three tasks, and every   *)
(* configuration of two families, are loaded by a command that then finds  *)
(* its checkout unclean.                                                   *)
(***************************************************************************)
EXTENDS LocalRun

CONSTANTS code, new, cache, one, two

TheFiles == {code, new, cache}
IgnoredFiles == {cache}
BaseFiles == code :> one @@ new :> Absent @@ cache :> Absent
TheVersions == {one, two}

-------------------------------------------------------------------------------
Task(id, dependsOn) == [id |-> id, dependsOn |-> dependsOn]
GoodPlan == <<Task("a", {}), Task("b", {"a"})>>
AnyTask == [id : {"a", "b", "c"}, dependsOn : SUBSET {"a", "b", "c"}]
AnyPlan == BoundedSeq(AnyTask, 3)

-------------------------------------------------------------------------------
Codex(args, access) == [command |-> "codex", args |-> args, access |-> access]
Reader == Codex(<<"plain", "--sandbox", "read-only">>, "read_only")
Writer == Codex(<<"--sandbox=workspace-write">>, "workspace_write")
Open == [command |-> "other", args |-> <<>>, access |-> "unrestricted"]

Agent(provider, role, access) ==
  [provider |-> provider, role |-> role,
   strategy |-> IF role = "worker" THEN "agentic" ELSE "predict",
   access |-> access, quality |-> "standard", cost |-> 1, retries |-> 0,
   capabilities |-> {"implementation"}]
Overseer == Agent("reader", "overseer", "read_only")
Reviewer == [Agent("reader", "reviewer", "read_only")
               EXCEPT !.capabilities = {"review"}]

GoodConfig == [providers |-> "reader" :> Reader @@ "writer" :> Writer @@ "open" :> Open,
               overseer  |-> Overseer,
               workers   |-> 1 :> Agent("writer", "worker", "workspace_write")
                               @@ 2 :> Reviewer]

(* One Codex adapter with any arguments, used by a worker and a reviewer.  *)
AdapterConfigs ==
  {[providers |-> "reader" :> Reader @@ "open" :> Codex(args, declared),
    overseer  |-> Overseer,
    workers   |-> 1 :> [Agent("open", "worker", access) EXCEPT !.capabilities = {}]
                    @@ 2 :> [Agent("open", "reviewer", access)
                               EXCEPT !.capabilities = {"review"}]] :
     args \in BoundedSeq(Arguments, 3),
     declared \in Accesses \cup {"unrestricted"}, access \in Accesses}

(* Any first worker, beside one of two others. *)
AnyProfile ==
  [provider : {"reader", "writer", "open", "missing"}, role : {"worker", "reviewer"},
   strategy : {"agentic", "predict"}, access : Accesses,
   quality : {"economy", "high"}, cost : {0, 2}, retries : {-1, 0, 1},
   capabilities : {{}, {"implementation"}, {"review"}}]
WorkerConfigs ==
  {[GoodConfig EXCEPT !.workers = 1 :> first @@ 2 :> Reviewer @@ 3 :> third] :
     first \in AnyProfile,
     third \in {Agent("writer", "worker", "workspace_write"),
                [Agent("reader", "worker", "read_only") EXCEPT !.capabilities = {}]}}

OverseerConfigs ==
  {[GoodConfig EXCEPT !.overseer = overseer] :
     overseer \in [provider : {"reader", "writer", "open"}, role : {"overseer", "worker"},
                   strategy : {"agentic", "predict"}, access : Accesses,
                   quality : {"high"}, cost : {1}, retries : {1}, capabilities : {{}}]}

AnyTaskShape ==
  [capabilities : SUBSET {"implementation"}, mentions : SUBSET {"fix"},
   access : Accesses, complexity : {"low", "high"}, quality : {"unset", "standard"}]
OneRule == {[keywords |-> {"fix"}, capabilities |-> {"implementation"}]}
AnySignal ==
  [action : {"execute"}, capabilities : SUBSET {"implementation"}, access : Accesses]
AnyPolicy == [actions : SUBSET {"execute"}, accesses : SUBSET Accesses]

-------------------------------------------------------------------------------
MCInit ==
  /\ \/ plan = GoodPlan /\ config = GoodConfig /\ clean \in BOOLEAN
     \/ /\ mode = "local" /\ clean = FALSE
        /\ \/ plan \in AnyPlan /\ config = GoodConfig
           \/ plan = GoodPlan
              /\ config \in AdapterConfigs \cup WorkerConfigs \cup OverseerConfigs
  /\ Init

MCSpec == MCInit /\ [][Next]_vars
===============================================================================
