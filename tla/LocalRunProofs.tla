---------------------------- MODULE LocalRunProofs ----------------------------
(***************************************************************************)
(* Proofs about LocalRun, for any files, ignore rules and contents: the    *)
(* worktree is not given up before the artifacts stand, whatever fails and *)
(* wherever the process is killed.  The invariant goes through the command *)
(* step by step: what exists, how far the list of artifacts is worked off, *)
(* and that nothing edits the worktree once its patch is taken.            *)
(***************************************************************************)
EXTENDS LocalRun, AcceptanceProofs

USE FilesAssumption

(* What is left to write, in a local run: a tail of the list. *)
Remaining == {<<"run", "events", "patch", "manifest">>,
              <<"events", "patch", "manifest">>,
              <<"patch", "manifest">>, <<"manifest">>, <<>>}
PlainOutputs == {<<>>, <<"run">>, <<"events">>, <<"run", "events">>}
Pending(a) == \E i \in DOMAIN todo : todo[i] = a

(* Where the worktree and its directory exist, and who knows of them.      *)
PlaceInv ==
  /\ mode = "plain" => ~root /\ ~tree /\ ~managed /\ ~ran
                       /\ pc \notin Creating \cup Removing \cup {"mkdir", "capture"}
  /\ pc \in {"plan", "config", "check", "mkdtemp"} => ~root /\ ~tree /\ ~managed /\ ~ran
  /\ pc = "add" => root /\ ~tree /\ ~managed /\ ~ran
  /\ mode = "local" /\ pc \in {"running", "remove"} \cup Publishing =>
       root /\ tree /\ managed /\ ran
  /\ pc = "rmdir" => root /\ ~tree /\ managed /\ ran
  /\ ran => managed \/ pc = "done"
  /\ managed => root
  /\ ran /\ ~tree => pc \in {"rmdir"} \cup Ends

(* What is written, in the order of the list. *)
OutputInv ==
  /\ mode = "local" => /\ todo \in Remaining
                       /\ \A a \in Artifacts : disk[a] = IF Pending(a) THEN "none" ELSE "whole"
  /\ mode = "plain" => todo \in PlainOutputs /\ \A a \in Artifacts : disk[a] # "partial"
  /\ mode = "local"
     /\ pc \in {"plan", "config", "running"} \cup Creating \cup {"mkdir", "capture"} =>
       todo = ArtifactOrder
  /\ pc \in {"open", "fill", "replace"} => todo # <<>>
  /\ pc \in Removing => todo = <<>>
  /\ mode = "local" /\ pc = "done" => todo = <<>>
  /\ ran /\ ~tree => todo = <<>>
  /\ pc = "replace" => temp[Head(todo)] = "whole"
  /\ pc \in Steps \cup {"done", "failed"} => \A a \in Artifacts : temp[a] # "none" =>
       pc \in {"fill", "replace"} /\ todo # <<>> /\ a = Head(todo)

(* The patch in memory is the one of the files as they are. *)
PatchInv ==
  mode = "local" /\ (pc \in {"open", "fill", "replace"} \cup Removing \/ (ran /\ ~tree)) =>
    patch = [f \in Files |-> Captured(f)]

RecoveryInv ==
  pc = "failed" => recovery = IF tree THEN "worktree" ELSE IF root THEN "root" ELSE "none"

LocalInv == TypeOK /\ PlaceInv /\ OutputInv /\ PatchInv /\ RecoveryInv

-------------------------------------------------------------------------------
(* The lists of outputs, and the steps through them. *)
LEMMA ListTypes == Remaining \cup PlainOutputs \subseteq Seq(Artifacts)
<1> QED
  BY DEF Remaining, PlainOutputs, Artifacts

LEMMA ListStep ==
  ASSUME NEW list \in Remaining \cup PlainOutputs, list # <<>>
  PROVE  /\ Head(list) \in Artifacts
         /\ list \in Remaining => Tail(list) \in Remaining
         /\ list \in PlainOutputs => Tail(list) \in PlainOutputs
         /\ \A a \in Artifacts :
              (\E i \in DOMAIN list : list[i] = a)
                <=> a = Head(list) \/ \E i \in DOMAIN Tail(list) : Tail(list)[i] = a
         /\ \A i \in DOMAIN Tail(list) : Tail(list)[i] # Head(list)
<1> USE DEF Artifacts, Remaining, PlainOutputs
<1>1. CASE list = <<"run", "events", "patch", "manifest">>
  BY <1>1
<1>2. CASE list = <<"events", "patch", "manifest">>
  BY <1>2
<1>3. CASE list = <<"patch", "manifest">>
  BY <1>3
<1>4. CASE list = <<"manifest">>
  BY <1>4
<1>5. CASE list = <<"run">>
  BY <1>5
<1>6. CASE list = <<"events">>
  BY <1>6
<1>7. CASE list = <<"run", "events">>
  BY <1>7
<1> QED
  BY <1>1, <1>2, <1>3, <1>4, <1>5, <1>6, <1>7

LEMMA PatchTypes ==
  ASSUME TypeOK
  PROVE  [f \in Files |-> Captured(f)]
           \in [Files -> [from : Versions \cup {Absent}, to : Versions \cup {Absent}]]
<1> QED
  BY DEF TypeOK, Content, Captured

-------------------------------------------------------------------------------
LEMMA LocalInit == Init => LocalInv
<1> SUFFICES ASSUME Init PROVE LocalInv
  OBVIOUS
<1> USE DEF Init, Steps, Creating, Publishing, Removing, Ends
<1>1. todo \in Remaining \cup PlainOutputs
  BY DEF Remaining, PlainOutputs, ArtifactOrder
<1>2. TypeOK
  BY <1>1, ListTypes DEF TypeOK, Content, Artifacts
<1>3. mode = "local" => \A a \in Artifacts : Pending(a)
  BY DEF Pending, ArtifactOrder, Artifacts
<1>4. OutputInv
  BY <1>1, <1>3 DEF OutputInv, Remaining, PlainOutputs, ArtifactOrder
<1>5. PlaceInv /\ PatchInv /\ RecoveryInv
  BY DEF PlaceInv, PatchInv, RecoveryInv
<1> QED
  BY <1>2, <1>4, <1>5 DEF LocalInv

(* Up to the run: nothing is written, places are made. *)
LEMMA CreateStep ==
  LocalInv /\ (LoadPlan \/ LoadConfig \/ CheckClean \/ MakeRoot \/ AddWorktree) => LocalInv'
<1> SUFFICES ASSUME LocalInv, LoadPlan \/ LoadConfig \/ CheckClean \/ MakeRoot \/ AddWorktree
             PROVE  LocalInv'
  OBVIOUS
<1> USE DEF LoadPlan, LoadConfig, CheckClean, MakeRoot, AddWorktree, At, Goto, inputs,
            files, places, outputs, Steps, Creating, Publishing, Removing, Ends
<1>1. TypeOK'
  <2>1. UNCHANGED <<mode, clean, files, outputs, recovery>>
    OBVIOUS
  <2>2. pc' \in {"config", "check", "running", "mkdtemp", "add"}
    BY DEF LocalInv, TypeOK
  <2>3. root' \in BOOLEAN /\ tree' \in BOOLEAN /\ managed' \in BOOLEAN /\ ran' \in BOOLEAN
    BY DEF LocalInv, TypeOK
  <2>4. tree' => root'
    BY DEF LocalInv, TypeOK, PlaceInv
  <2> QED
    BY <2>1, <2>2, <2>3, <2>4 DEF LocalInv, TypeOK
<1>2. PlaceInv'
  BY DEF LocalInv, TypeOK, PlaceInv
<1>3. OutputInv'
  BY DEF LocalInv, TypeOK, PlaceInv, OutputInv, Pending
<1>4. PatchInv' /\ RecoveryInv'
  BY DEF LocalInv, TypeOK, PlaceInv, PatchInv, RecoveryInv
<1> QED
  BY <1>1, <1>2, <1>3, <1>4 DEF LocalInv

(* The run changes files only, and only before they are captured. *)
LEMMA WorkStep == LocalInv /\ Work => LocalInv'
<1> SUFFICES ASSUME LocalInv, Work PROVE LocalInv'
  OBVIOUS
<1> USE DEF Work, At, inputs, places, outputs, Steps, Creating, Publishing, Removing, Ends
<1>1. /\ pc = "running" /\ mode = "local"
      /\ UNCHANGED <<inputs, pc, ran, places, outputs, recovery>>
  BY DEF Edit, Stage, Commit
<1>2. head' \in Content /\ work' \in Content /\ tracked' \subseteq Files
  BY DEF Edit, Stage, Commit, LocalInv, TypeOK, Content
<1>3. TypeOK'
  BY <1>1, <1>2 DEF LocalInv, TypeOK
<1>4. PlaceInv' /\ PatchInv' /\ RecoveryInv'
  BY <1>1 DEF LocalInv, PlaceInv, PatchInv, RecoveryInv
<1>5. OutputInv'
  BY <1>1 DEF LocalInv, OutputInv, Pending
<1> QED
  BY <1>3, <1>4, <1>5 DEF LocalInv

(* From the end of the run to the first artifact. *)
LEMMA CaptureStep ==
  LocalInv /\ (Return \/ MakeArtifactDir \/ Capture) => LocalInv'
<1> SUFFICES ASSUME LocalInv, Return \/ MakeArtifactDir \/ Capture PROVE LocalInv'
  OBVIOUS
<1> USE DEF Return, MakeArtifactDir, Capture, At, Goto, inputs, files, places, outputs,
            Steps, Creating, Publishing, Removing, Ends
<1>1. UNCHANGED <<mode, todo, temp, disk, files, ran, root, tree, managed, recovery>>
  OBVIOUS
<1>2. mode = "local" => todo = ArtifactOrder /\ todo # <<>>
  BY DEF LocalInv, OutputInv, ArtifactOrder
<1>3. pc = "capture" => mode = "local"
  BY DEF LocalInv, TypeOK, PlaceInv
<1>4. patch' \in {patch, [f \in Files |-> Captured(f)]}
  OBVIOUS
<1>5. TypeOK'
  BY <1>1, <1>2, <1>3, <1>4, PatchTypes DEF LocalInv, TypeOK
<1>6. PlaceInv'
  BY <1>1, <1>3 DEF LocalInv, TypeOK, PlaceInv
<1>7. OutputInv'
  BY <1>1, <1>2, <1>3 DEF LocalInv, TypeOK, OutputInv, Pending
<1>8. PatchInv'
  BY <1>1, <1>3 DEF LocalInv, TypeOK, PlaceInv, PatchInv, Captured
<1>9. RecoveryInv'
  BY <1>1 DEF RecoveryInv
<1> QED
  BY <1>5, <1>6, <1>7, <1>8, <1>9 DEF LocalInv

(* One output: its temporary file, the content, the replacement. *)
LEMMA WriteStep == LocalInv /\ (OpenTemp \/ FillTemp) => LocalInv'
<1> SUFFICES ASSUME LocalInv, OpenTemp \/ FillTemp PROVE LocalInv'
  OBVIOUS
<1> USE DEF At, Goto, inputs, files, places, Steps, Creating, Publishing, Removing, Ends
<1>1. UNCHANGED <<mode, plan, files, ran, root, tree, managed, patch, todo, disk, recovery>>
  BY DEF OpenTemp, FillTemp
<1>2. pc \in {"open", "fill"} /\ pc' \in {"fill", "replace"} /\ todo # <<>>
  BY DEF OpenTemp, FillTemp, LocalInv, OutputInv
<1>3. Head(todo) \in Artifacts
  BY <1>2, ListStep DEF LocalInv, OutputInv, TypeOK
<1>4. PICK state \in {"partial", "whole"} :
        temp' = [temp EXCEPT ![Head(todo)] = state] /\ (pc' = "replace" => state = "whole")
  BY DEF OpenTemp, FillTemp
<1>5. TypeOK'
  BY <1>1, <1>2, <1>3, <1>4 DEF LocalInv, TypeOK, OpenTemp, FillTemp
<1>6. PlaceInv' /\ PatchInv' /\ RecoveryInv'
  BY <1>1, <1>2 DEF LocalInv, TypeOK, PlaceInv, PatchInv, RecoveryInv, Captured
<1>7. OutputInv'
  BY <1>1, <1>2, <1>3, <1>4 DEF LocalInv, TypeOK, OutputInv, Pending
<1> QED
  BY <1>5, <1>6, <1>7 DEF LocalInv

LEMMA ReplaceStep == LocalInv /\ Replace => LocalInv'
<1> SUFFICES ASSUME LocalInv, Replace PROVE LocalInv'
  OBVIOUS
<1> USE DEF Replace, At, Goto, inputs, files, places, Steps, Creating, Publishing,
            Removing, Ends
<1>1. todo # <<>> /\ todo \in Remaining \cup PlainOutputs /\ temp[Head(todo)] = "whole"
  BY DEF LocalInv, OutputInv, TypeOK
<1>2. Head(todo) \in Artifacts /\ todo' \in Remaining \cup PlainOutputs
  BY <1>1, ListStep
<1>3. \A a \in Artifacts : Pending(a)' <=> Pending(a) /\ a # Head(todo)
  BY <1>1, ListStep DEF Pending
<1>4. disk' = [disk EXCEPT ![Head(todo)] = "whole"]
  BY <1>1
<1>5. pc' \in {"open", "remove", "done"} /\ (pc' = "open" <=> todo' # <<>>)
      /\ (pc' = "done" => mode = "plain")
  BY DEF LocalInv, TypeOK
<1>6. TypeOK'
  BY <1>2, <1>4, <1>5, ListTypes DEF LocalInv, TypeOK
<1>7. PlaceInv'
  BY <1>5 DEF LocalInv, TypeOK, PlaceInv
<1>8. OutputInv'
  <2>1. mode = "local" => todo' \in Remaining
    BY <1>1, ListStep DEF LocalInv, OutputInv
  <2>2. mode = "plain" => todo' \in PlainOutputs
    BY <1>1, ListStep DEF LocalInv, OutputInv
  <2>3. \A a \in Artifacts : temp'[a] = "none"
    BY <1>1, <1>2 DEF LocalInv, TypeOK, OutputInv
  <2>4. mode = "local" =>
          \A a \in Artifacts : disk'[a] = IF Pending(a)' THEN "none" ELSE "whole"
    BY <1>2, <1>3, <1>4 DEF LocalInv, TypeOK, OutputInv
  <2>5. mode = "plain" => \A a \in Artifacts : disk'[a] # "partial"
    BY <1>2, <1>4 DEF LocalInv, TypeOK, OutputInv
  <2> QED
    BY <1>5, <2>1, <2>2, <2>3, <2>4, <2>5 DEF LocalInv, TypeOK, PlaceInv, OutputInv
<1>9. PatchInv' /\ RecoveryInv'
  BY <1>5 DEF LocalInv, TypeOK, PlaceInv, PatchInv, RecoveryInv, Captured
<1> QED
  BY <1>6, <1>7, <1>8, <1>9 DEF LocalInv

(* The end: removal, failure or a kill. *)
LEMMA EndStep ==
  LocalInv /\ (RemoveWorktree \/ RemoveRoot \/ Fail \/ Kill) => LocalInv'
<1> SUFFICES ASSUME LocalInv, RemoveWorktree \/ RemoveRoot \/ Fail \/ Kill PROVE LocalInv'
  OBVIOUS
<1> USE DEF RemoveWorktree, RemoveRoot, Fail, Kill, At, Goto, inputs, files, places,
            outputs, Steps, Creating, Publishing, Removing, Ends
<1>1. UNCHANGED <<mode, files, ran, patch, todo, disk>>
  OBVIOUS
<1>2. todo # <<>> => Head(todo) \in Artifacts
  BY ListStep DEF LocalInv, OutputInv, TypeOK
<1>3. TypeOK'
  <2>1. /\ UNCHANGED <<mode, clean>> /\ pc' \in {"rmdir"} \cup Ends
        /\ root' \in BOOLEAN /\ tree' \in BOOLEAN /\ managed' \in BOOLEAN
    BY DEF LocalInv, TypeOK
  <2>2. tree' => root'
    BY DEF LocalInv, TypeOK, PlaceInv
  <2>3. recovery' \in {"none", "worktree", "root"}
    BY DEF LocalInv, TypeOK, RecoveryPath
  <2>4. temp' \in [Artifacts -> {"none", "partial", "whole"}]
    BY <1>2 DEF LocalInv, TypeOK
  <2> QED
    BY <1>1, <2>1, <2>2, <2>3, <2>4 DEF LocalInv, TypeOK
<1>4. PlaceInv'
  BY <1>1 DEF LocalInv, TypeOK, PlaceInv
<1>5. OutputInv'
  <2>1. pc' \in Steps \cup {"done", "failed"} => \A a \in Artifacts : temp'[a] = "none"
    BY <1>2 DEF LocalInv, TypeOK, OutputInv
  <2> QED
    BY <1>1, <2>1 DEF LocalInv, TypeOK, PlaceInv, OutputInv, Pending
<1>6. PatchInv'
  <2>1. ASSUME mode = "local", pc' \in Removing \/ (ran /\ ~tree')
        PROVE  pc \in Removing \/ (ran /\ ~tree)
    <3>1. CASE RemoveWorktree \/ RemoveRoot
      BY <3>1
    <3>2. CASE Fail \/ Kill
      BY <1>1, <2>1, <3>2
    <3> QED
      BY <3>1, <3>2
  <2> QED
    BY <1>1, <2>1 DEF LocalInv, PatchInv, Captured
<1>7. RecoveryInv'
  BY DEF LocalInv, TypeOK, PlaceInv, RecoveryInv, RecoveryPath
<1> QED
  BY <1>3, <1>4, <1>5, <1>6, <1>7 DEF LocalInv

LEMMA LocalInvariant == Spec => []LocalInv
<1>1. LocalInv /\ UNCHANGED vars => LocalInv'
  BY DEF LocalInv, TypeOK, PlaceInv, OutputInv, PatchInv, RecoveryInv, Pending, Captured,
         vars, inputs, files, places, outputs
<1>2. LocalInv /\ [Next]_vars => LocalInv'
  BY <1>1, CreateStep, WorkStep, CaptureStep, WriteStep, ReplaceStep, EndStep DEF Next
<1> QED
  BY <1>2, LocalInit, PTL DEF Spec

-------------------------------------------------------------------------------
(* Type correctness, with what it needs of the command's progress. *)
THEOREM LocalTypes == Spec => []TypeOK
<1>1. LocalInv => TypeOK
  BY DEF LocalInv
<1> QED
  BY <1>1, LocalInvariant, PTL

(* The worktree of a run is gone only when all four artifacts stand and    *)
(* the patch restores every file that was neither committed nor ignored.   *)
THEOREM WorkIsNotLost == Spec => []WorkPreserved
<1>1. LocalInv => WorkPreserved
  <2> SUFFICES ASSUME LocalInv, ran, ~tree
               PROVE  /\ Published
                      /\ \A f \in Files : Restored(f) \/ Disposable(f) \/ Committed(f)
    BY DEF WorkPreserved
  <2>1. mode = "local" /\ todo = <<>>
    BY DEF LocalInv, TypeOK, PlaceInv, OutputInv
  <2>2. Published
    BY <2>1 DEF LocalInv, OutputInv, Pending, Published
  <2>3. patch = [f \in Files |-> Captured(f)]
    BY <2>1 DEF LocalInv, PatchInv
  <2>4. ASSUME NEW f \in Files, head[f] = Base[f], f \notin Ignored \/ f \in tracked
        PROVE  Restored(f)
    BY <2>3, <2>4 DEF Captured, Restored
  <2> QED
    BY <2>2, <2>4 DEF Disposable, Committed
<1> QED
  BY <1>1, LocalInvariant, PTL

(* A manifest stands only beside the three whole files it binds. *)
THEOREM ManifestIsLast == Spec => []ManifestMarksComplete
<1>1. LocalInv => ManifestMarksComplete
  <2> SUFFICES ASSUME LocalInv PROVE ManifestMarksComplete
    OBVIOUS
  <2>1. \A a \in Artifacts : disk[a] # "partial"
    BY DEF LocalInv, TypeOK, OutputInv
  <2>2. ASSUME mode = "local", disk["manifest"] # "none" PROVE Published
    <3>1. ~Pending("manifest") /\ todo \in Remaining
      BY <2>2 DEF LocalInv, OutputInv, Artifacts
    <3>2. todo = <<>>
      BY <3>1 DEF Pending, Remaining
    <3> QED
      BY <2>2, <3>2 DEF LocalInv, OutputInv, Pending, Published
  <2> QED
    BY <2>1, <2>2 DEF ManifestMarksComplete
<1> QED
  BY <1>1, LocalInvariant, PTL

(* A command that fails says where the work is and leaves no debris. *)
THEOREM FailuresAreTraceable == Spec => []FailureLeavesTrail
<1>1. LocalInv => FailureLeavesTrail
  BY DEF LocalInv, OutputInv, RecoveryInv, FailureLeavesTrail
<1> QED
  BY <1>1, LocalInvariant, PTL

-------------------------------------------------------------------------------
(* What the two input files are accepted for.                              *)
(* A plan is accepted exactly when there is an order to execute it in,     *)
(* whatever its ids and however many tasks it holds.                       *)
THEOREM PlansAreSound == Spec => []PlanSound
<1>1. TypeOK => PlanSound
  BY AcceptedIsExecutable, ExecutableIsAccepted DEF TypeOK, PlanSound
<1> QED
  BY <1>1, LocalTypes, PTL

(* A worker of an accepted configuration, and what it is confined to.      *)
LEMMA WorkerConfined ==
  ASSUME IsConfig(config), ConfigAccepted(config), NEW w \in DOMAIN config.workers
  PROVE  /\ Confined(w, config.workers[w].access)
         /\ config.workers[w].access = "workspace_write" => config.workers[w].retries = 0
         /\ config.workers[w].role = "worker"
            /\ config.workers[w].capabilities \cap {"documentation", "implementation"} # {}
              => config.workers[w].access = "workspace_write"
<1>1. WritersAccepted(config)
  BY DEF ConfigAccepted
<1> QED
  BY <1>1, ProfileConfined DEF Confined, WritersAccepted

(* The worker of a task. *)
LEMMA TaskRoutedSafely ==
  ASSUME IsConfig(config), ConfigAccepted(config), NEW task \in Tasks, NEW w,
         w = Select(config.workers, task, "worker", {})
  PROVE  /\ w = NoAgent => \A u \in DOMAIN config.workers : ~Suits(u, task)
         /\ w # NoAgent =>
              /\ Suits(w, task) /\ Confined(w, task.access)
              /\ task.access = "workspace_write" => config.workers[w].retries = 0
              /\ \A u \in DOMAIN config.workers :
                   Suits(u, task) => config.workers[w].cost <= config.workers[u].cost
              /\ task.access = "read_only" =>
                   {"implementation", "documentation"}
                     \cap RequiredCapabilities(task, "worker") = {}
<1> DEFINE suiting == {u \in DOMAIN config.workers : Suits(u, task)}
<1>1. w = Cheapest(config.workers, suiting)
  <2>1. suiting = {u \in EligibleFor(config.workers, RequiredCapabilities(task, "worker"),
                                     task.access, "worker", {}) :
                     QualityRank(config.workers[u].quality)
                       >= QualityRank(RequiredQuality(task))}
    BY DEF Suits, EligibleFor
  <2> HIDE DEF suiting
  <2> QED
    BY <2>1 DEF Select
<1>2. suiting \in SUBSET DOMAIN config.workers
  OBVIOUS
<1>3. IF suiting = {} THEN w = NoAgent
      ELSE /\ w \in suiting /\ w # NoAgent
           /\ \A v \in suiting : config.workers[w].cost <= config.workers[v].cost
  <2> HIDE DEF suiting
  <2> QED
    BY <1>1, <1>2, SelectionSound
<1>4. CASE suiting = {}
  BY <1>3, <1>4
<1>5. CASE suiting # {}
  <2>1. w \in DOMAIN config.workers /\ Suits(w, task) /\ w # NoAgent
    BY <1>3, <1>5
  <2>2. /\ config.workers[w].role = "worker" /\ config.workers[w].access = task.access
        /\ RequiredCapabilities(task, "worker") \subseteq config.workers[w].capabilities
    BY <2>1 DEF Suits
  <2>3. /\ Confined(w, task.access)
        /\ task.access = "workspace_write" => config.workers[w].retries = 0
        /\ config.workers[w].capabilities \cap {"documentation", "implementation"} # {}
             => task.access = "workspace_write"
    BY <2>1, <2>2, WorkerConfined
  <2>4. \A u \in DOMAIN config.workers :
          Suits(u, task) => config.workers[w].cost <= config.workers[u].cost
    BY <1>3, <1>5
  <2>5. task.access = "read_only" =>
          {"implementation", "documentation"} \cap RequiredCapabilities(task, "worker") = {}
    BY <2>2, <2>3
  <2> QED
    BY <2>1, <2>3, <2>4, <2>5
<1> QED
  BY <1>4, <1>5

(* The reviewer of a write that w executed. *)
LEMMA ReviewerIndependent ==
  ASSUME IsConfig(config), ConfigAccepted(config), NEW task \in Tasks, NEW w, NEW v,
         v = Select(config.workers, ReviewTask(task), "reviewer", {w}), v # NoAgent
  PROVE  v # w /\ Confined(v, "read_only")
<1> DEFINE review == ReviewTask(task)
           eligible == {u \in EligibleFor(config.workers,
                                          RequiredCapabilities(review, "reviewer"),
                                          review.access, "reviewer", {w}) :
                          QualityRank(config.workers[u].quality)
                            >= QualityRank(RequiredQuality(review))}
<1>1. review.access = "read_only"
  BY TasksAssumption DEF ReviewTask, TaskShape
<1>2. v = Cheapest(config.workers, eligible)
  BY DEF Select
<1>3. eligible \in SUBSET DOMAIN config.workers
      /\ \A u \in eligible : u # w /\ config.workers[u].access = review.access
  BY DEF EligibleFor
<1> HIDE DEF eligible, review
<1>4. v \in eligible
  BY <1>2, <1>3, SelectionSound
<1> QED
  BY <1>1, <1>3, <1>4, WorkerConfined

(* What a router gives out. *)
LEMMA SignalRoutedSafely ==
  ASSUME IsConfig(config), ConfigAccepted(config), NEW policy, NEW signal, NEW w,
         w = Route(config.workers, policy, signal, "worker", {}), w # NoAgent
  PROVE  /\ Confined(w, signal.access)
         /\ signal.action \in policy.actions /\ signal.access \in policy.accesses
<1> DEFINE eligible == EligibleFor(config.workers, signal.capabilities, signal.access,
                                   "worker", {})
<1>1. Permits(policy, signal) /\ w = Cheapest(config.workers, eligible)
  BY DEF Route
<1>2. eligible \in SUBSET DOMAIN config.workers
      /\ \A u \in eligible : config.workers[u].access = signal.access
  BY DEF EligibleFor
<1> HIDE DEF eligible
<1>3. w \in eligible
  BY <1>1, <1>2, SelectionSound
<1> QED
  BY <1>1, <1>2, <1>3, WorkerConfined DEF Permits

(* Validation and selection together, for every configuration, every task  *)
(* a plan may hold and every policy: whoever is selected has the access of *)
(* the task, and a Codex command line asks for that sandbox and nothing    *)
(* wider, if it starts; a write has a worker that cannot repeat it and a   *)
(* reviewer that is someone else and cannot write, and a router keeps to   *)
(* its policy.                                                             *)
THEOREM RoutingIsSafe == Spec => []RoutedSafely
<1>1. IsConfig(config) => RoutedSafely
  BY TaskRoutedSafely, ReviewerIndependent, SignalRoutedSafely DEF RoutedSafely
<1>2. TypeOK => IsConfig(config)
  BY DEF TypeOK
<1> QED
  BY <1>1, <1>2, LocalTypes, PTL
===============================================================================
