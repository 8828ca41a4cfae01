------------------------------- MODULE LocalRun -------------------------------
(***************************************************************************)
(* cli.py and core/worktree.py: the command "swarm", which loads a plan    *)
(* and a configuration and runs, either in a managed Git worktree whose    *)
(* state it publishes as artifacts before it removes it ("local"), or in   *)
(* the checkout, writing the outputs it was asked for ("plain").           *)
(*                                                                         *)
(* Every step may fail, by an error or an interrupt that the command       *)
(* handles, and the process may be killed between any two.  The run        *)
(* itself is SwarmRun's; here it changes files and returns, or raises.     *)
(* A definition whose name extends another's is that definition with a     *)
(* plausible mistake.                                                      *)
(***************************************************************************)
EXTENDS TaskGraph, Routing

CONSTANTS
  Files,     \* paths in the worktree
  Ignored,   \* paths a .gitignore excludes
  Base,      \* the content of each path at the base commit
  Versions,  \* contents a path may have
  Absent,    \* a path that does not exist
  Tasks,     \* tasks a plan may hold, by what the selection reads of them
  Signals,   \* signals a caller may route, the same way
  Policies   \* and the policies it may route them under

TaskShape ==
  [capabilities : SUBSET STRING, mentions : SUBSET STRING, access : Accesses,
   complexity : {"low", "medium", "high"},
   quality : {"unset", "economy", "standard", "high"}]

ASSUME TasksAssumption == Tasks \subseteq TaskShape

ASSUME FilesAssumption ==
  /\ Ignored \subseteq Files
  /\ Base \in [Files -> Versions \cup {Absent}] /\ Absent \notin Versions

Content == [Files -> Versions \cup {Absent}]
Artifacts == {"run", "events", "patch", "manifest"}
ArtifactOrderReversed == <<"manifest", "patch", "events", "run">>
ArtifactOrder == <<"run", "events", "patch", "manifest">>

(* Where the command is: each is a step that may fail, until it ends.      *)
Creating == {"check", "mkdtemp", "add"}
Publishing == {"mkdir", "capture", "open", "fill", "replace"}
Removing == {"remove", "rmdir"}
Ends == {"done", "failed", "killed"}
Steps == {"plan", "config", "running"} \cup Creating \cup Publishing \cup Removing

VARIABLES
  mode, plan, config, clean,  \* the command line and what it names
  pc,
  head, work, tracked,  \* the worktree's HEAD, its files, its index
  ran,       \* history: the run was started in the worktree
  root,      \* temporary_root exists
  tree,      \* the worktree exists
  managed,   \* managed_worktree is set
  patch,     \* the patch in memory, from and to for each path
  todo,      \* files still to be written, in order
  temp,      \* the temporary file beside each target
  disk,      \* the targets
  recovery   \* the path the command prints when it fails

inputs == <<mode, plan, config, clean>>
files == <<head, work, tracked>>
places == <<root, tree, managed>>
outputs == <<patch, todo, temp, disk>>
vars == <<inputs, pc, files, ran, places, outputs, recovery>>

TypeOK ==
  /\ mode \in {"local", "plain"} /\ clean \in BOOLEAN
  /\ plan \in Plans /\ IsConfig(config)
  /\ pc \in Steps \cup Ends
  /\ head \in Content /\ work \in Content /\ tracked \subseteq Files
  /\ ran \in BOOLEAN /\ root \in BOOLEAN /\ tree \in BOOLEAN /\ managed \in BOOLEAN
  /\ patch \in [Files -> [from : Versions \cup {Absent}, to : Versions \cup {Absent}]]
  /\ todo \in Seq(Artifacts)
  /\ temp \in [Artifacts -> {"none", "partial", "whole"}]
  /\ disk \in [Artifacts -> {"none", "old", "partial", "whole"}]
  /\ recovery \in {"none", "worktree", "root"}
  /\ tree => root
  /\ pc \in {"open", "fill", "replace"} => todo # <<>>

(* A plain command may be asked for either output, or both, and may        *)
(* replace an earlier one.                                                 *)
Init ==
  /\ mode \in {"local", "plain"} /\ clean \in BOOLEAN
  /\ plan \in Plans /\ IsConfig(config)
  /\ pc = "plan"
  /\ head = Base /\ work = Base /\ tracked = {f \in Files : Base[f] # Absent}
  /\ ran = FALSE /\ root = FALSE /\ tree = FALSE /\ managed = FALSE
  /\ patch = [f \in Files |-> [from |-> Base[f], to |-> Base[f]]]
  /\ \/ mode = "local" /\ todo = ArtifactOrder
     \/ mode = "plain" /\ todo \in {<<>>, <<"run">>, <<"events">>, <<"run", "events">>}
  /\ temp = [a \in Artifacts |-> "none"]
  /\ disk = [a \in Artifacts |-> IF mode = "plain" THEN "old" ELSE "none"]
  /\ recovery = "none"

Goto(step) == pc' = step
At(step) == pc = step

-------------------------------------------------------------------------------
(* _load_plan and load_config, before anything is created. *)
LoadPlan ==
  /\ At("plan") /\ PlanAccepted(plan)
  /\ Goto("config")
  /\ UNCHANGED <<inputs, files, ran, places, outputs, recovery>>

LoadConfig ==
  /\ At("config") /\ ConfigAccepted(config)
  /\ Goto(IF mode = "local" THEN "check" ELSE "running")
  /\ UNCHANGED <<inputs, files, ran, places, outputs, recovery>>

(* create_managed_worktree: only from a clean checkout. *)
CheckClean ==
  /\ At("check") /\ clean
  /\ Goto("mkdtemp")
  /\ UNCHANGED <<inputs, files, ran, places, outputs, recovery>>

MakeRootUnrecorded ==
  /\ At("mkdtemp")
  /\ Goto("add")
  /\ UNCHANGED <<inputs, files, ran, places, outputs, recovery>>

MakeRoot ==
  /\ At("mkdtemp")
  /\ root' = TRUE
  /\ Goto("add")
  /\ UNCHANGED <<inputs, files, ran, tree, managed, outputs, recovery>>

AddWorktree ==
  /\ At("add")
  /\ tree' = TRUE /\ managed' = TRUE /\ ran' = TRUE
  /\ Goto("running")
  /\ UNCHANGED <<inputs, files, root, outputs, recovery>>

-------------------------------------------------------------------------------
(* The run: its workers edit files and use Git on them. *)
Edit(f, content) ==
  /\ At("running") /\ mode = "local"
  /\ work' = [work EXCEPT ![f] = content]
  /\ UNCHANGED <<inputs, pc, head, tracked, ran, places, outputs, recovery>>

Stage(f) ==
  /\ At("running") /\ mode = "local"
  /\ tracked' = IF work[f] = Absent THEN tracked \ {f} ELSE tracked \cup {f}
  /\ UNCHANGED <<inputs, pc, head, work, ran, places, outputs, recovery>>

Commit ==
  /\ At("running") /\ mode = "local"
  /\ head' = [f \in Files |-> IF f \in tracked THEN work[f] ELSE Absent]
  /\ UNCHANGED <<inputs, pc, work, tracked, ran, places, outputs, recovery>>

Return ==
  /\ At("running")
  /\ Goto(IF mode = "local" THEN "mkdir" ELSE IF todo = <<>> THEN "done" ELSE "open")
  /\ UNCHANGED <<inputs, files, ran, places, outputs, recovery>>

-------------------------------------------------------------------------------
(* _write_local_artifacts. *)
MakeArtifactDir ==
  /\ At("mkdir")
  /\ Goto("capture")
  /\ UNCHANGED <<inputs, files, ran, places, outputs, recovery>>

(* capture_workspace_patch: "git diff HEAD" for what HEAD or the index     *)
(* knows, an addition for every other file that is not ignored.            *)
CapturedTracked(f) ==
  [from |-> head[f], to |-> IF f \in tracked THEN work[f] ELSE Absent]

Captured(f) ==
  [from |-> head[f],
   to   |-> IF f \in tracked \/ f \notin Ignored THEN work[f] ELSE Absent]

Capture ==
  /\ At("capture")
  /\ patch' = [f \in Files |-> Captured(f)]
  /\ Goto("open")
  /\ UNCHANGED <<inputs, files, ran, places, todo, temp, disk, recovery>>

(* _write_text_atomic and _write_bytes_atomic: a temporary file beside the *)
(* target, its content, and the replacement of the target.                 *)
OpenTemp ==
  /\ At("open")
  /\ temp' = [temp EXCEPT ![Head(todo)] = "partial"]
  /\ Goto("fill")
  /\ UNCHANGED <<inputs, files, ran, places, patch, todo, disk, recovery>>

FillTemp ==
  /\ At("fill")
  /\ temp' = [temp EXCEPT ![Head(todo)] = "whole"]
  /\ Goto("replace")
  /\ UNCHANGED <<inputs, files, ran, places, patch, todo, disk, recovery>>

Replace ==
  /\ At("replace")
  /\ disk' = [disk EXCEPT ![Head(todo)] = temp[Head(todo)]]
  /\ temp' = [temp EXCEPT ![Head(todo)] = "none"]
  /\ todo' = Tail(todo)
  /\ Goto(IF todo' # <<>> THEN "open" ELSE IF mode = "local" THEN "remove" ELSE "done")
  /\ UNCHANGED <<inputs, files, ran, places, patch, recovery>>

(* remove_managed_worktree: "git worktree remove", then the directory that *)
(* held it, which may be gone already.                                     *)
RemoveWorktree ==
  /\ At("remove")
  /\ tree' = FALSE
  /\ Goto("rmdir")
  /\ UNCHANGED <<inputs, files, ran, root, managed, outputs, recovery>>

RemoveRoot ==
  /\ At("rmdir")
  /\ root' = FALSE /\ managed' = FALSE
  /\ Goto("done")
  /\ UNCHANGED <<inputs, files, ran, tree, outputs, recovery>>

-------------------------------------------------------------------------------
(* A step fails.  create_managed_worktree takes its directory back, a      *)
(* writer its temporary file; the command keeps the worktree and prints    *)
(* where it is.  "git worktree remove" may fail once the files are gone.   *)
RecoveryPath(stands) ==
  IF ~managed THEN "none" ELSE IF stands THEN "worktree" ELSE "root"

FailKeepingTemp ==
  /\ pc \in Steps
  /\ root' = (root /\ pc # "add")
  /\ tree' \in IF pc = "remove" THEN BOOLEAN ELSE {tree}
  /\ recovery' = RecoveryPath(tree')
  /\ Goto("failed")
  /\ UNCHANGED <<inputs, files, ran, managed, outputs>>

Fail ==
  /\ pc \in Steps
  /\ root' = (root /\ pc # "add")
  /\ tree' \in IF pc = "remove" THEN BOOLEAN ELSE {tree}
  /\ temp' = IF todo = <<>> THEN temp ELSE [temp EXCEPT ![Head(todo)] = "none"]
  /\ recovery' = RecoveryPath(tree')
  /\ Goto("failed")
  /\ UNCHANGED <<inputs, files, ran, managed, patch, todo, disk>>

(* The process is killed. *)
Kill ==
  /\ pc \in Steps
  /\ Goto("killed")
  /\ UNCHANGED <<inputs, files, ran, places, outputs, recovery>>

Work ==
  \/ \E f \in Files, content \in Versions \cup {Absent} : Edit(f, content)
  \/ \E f \in Files : Stage(f)
  \/ Commit

Next ==
  \/ LoadPlan \/ LoadConfig \/ CheckClean \/ MakeRoot \/ AddWorktree
  \/ Work \/ Return
  \/ MakeArtifactDir \/ Capture \/ OpenTemp \/ FillTemp \/ Replace
  \/ RemoveWorktree \/ RemoveRoot
  \/ Fail \/ Kill

Spec == Init /\ [][Next]_vars

-------------------------------------------------------------------------------
(* What applying the published patch to the base commit gives. *)
Restored(f) ==
  \/ patch[f] = [from |-> Base[f], to |-> work[f]]
  \/ patch[f].from = patch[f].to /\ work[f] = Base[f]

Disposable(f) == f \in Ignored \ tracked
Committed(f) == head[f] # Base[f]
Published == \A a \in Artifacts : disk[a] = "whole"

(* The worktree a run was started in is gone only when all four artifacts  *)
(* stand and the patch restores every file the run left uncommitted,       *)
(* whatever failed or was killed in between.                               *)
WorkPreserved ==
  ran /\ ~tree => /\ Published
                  /\ \A f \in Files : Restored(f) \/ Disposable(f) \/ Committed(f)

(* The documented promise, for committed files too. *)
AllWorkPreserved ==
  ran /\ ~tree => \A f \in Files : Restored(f) \/ Disposable(f)

(* The manifest marks completeness: it stands only beside the three whole  *)
(* files it binds.  No target is ever partial, and an earlier one is       *)
(* replaced in one step.                                                   *)
ManifestMarksComplete ==
  /\ \A a \in Artifacts : disk[a] # "partial"
  /\ mode = "local" /\ disk["manifest"] # "none" => Published

(* A command that fails says where the work is: it names the worktree when *)
(* that exists and else what is left of its directory, prints nothing for  *)
(* a run that was never started, and leaves no temporary file.             *)
FailureLeavesTrail ==
  pc = "failed" =>
    /\ \A a \in Artifacts : temp[a] = "none"
    /\ recovery = IF tree THEN "worktree" ELSE IF root THEN "root" ELSE "none"

(* A plan is accepted exactly when there is an order to execute it in. *)
PlanSound == At("plan") => (PlanAccepted(plan) <=> Executable(plan))

(* A selected agent's adapter has the access of the task, and a Codex      *)
(* command line asks for that sandbox and nothing wider, if it starts.     *)
Confined(w, access) ==
  LET provider == config.providers[config.workers[w].provider]
  IN /\ provider.access = access
     /\ provider.command = "codex" =>
          RunsWithin(provider.args, ExpectedSandbox(access))

Suits(w, task) ==
  /\ config.workers[w].role = "worker" /\ config.workers[w].access = task.access
  /\ RequiredCapabilities(task, "worker") \subseteq config.workers[w].capabilities
  /\ QualityRank(config.workers[w].quality) >= QualityRank(RequiredQuality(task))

(* Validation and selection together: a task's worker is confined to the   *)
(* task's access, cannot repeat a write, is no dearer than another that    *)
(* suits, and exists when one suits; implementation and documentation is   *)
(* never given to a reader; a write's reviewer is another profile that     *)
(* cannot write; a router gives nothing out that its policy does not list. *)
RoutedSafely ==
  At("config") /\ ConfigAccepted(config) =>
    /\ \A task \in Tasks :
         LET w == Select(config.workers, task, "worker", {})
             v == Select(config.workers, ReviewTask(task), "reviewer", {w})
         IN /\ w = NoAgent => \A u \in DOMAIN config.workers : ~Suits(u, task)
            /\ w # NoAgent =>
                 /\ Suits(w, task) /\ Confined(w, task.access)
                 /\ task.access = "workspace_write" => config.workers[w].retries = 0
                 /\ \A u \in DOMAIN config.workers :
                      Suits(u, task) => config.workers[w].cost <= config.workers[u].cost
                 /\ task.access = "read_only" =>
                      {"implementation", "documentation"}
                        \cap RequiredCapabilities(task, "worker") = {}
            /\ v # NoAgent => v # w /\ Confined(v, "read_only")
    /\ \A policy \in Policies, signal \in Signals :
         LET w == Route(config.workers, policy, signal, "worker", {})
         IN w # NoAgent => /\ Confined(w, signal.access)
                           /\ signal.action \in policy.actions
                           /\ signal.access \in policy.accesses
===============================================================================
