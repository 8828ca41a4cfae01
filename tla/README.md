# TLA+ models of agent-swarm-framework

The framework runs a goal as a plan of tasks, each executed by a command-line
agent (a provider process) in one checkout. Everything happens in one asyncio
event loop: the concurrency is between tasks of that loop, the unreliability is
in the providers, which time out, fail, overrun their budget, break their
typed contract or reject each other's work, and in cancellation, which may hit
any suspended task.

Paths below are relative to `src/agent_swarm/` unless they say otherwise.

## Inventory

| Component | Code | State | Operations | Correct when |
|---|---|---|---|---|
| Workspace gate | `core/concurrency.py` | readers, writer, waiting writers, an asyncio condition | `hold` for each access: enter, wait, resume, cancel, release | a writer is alone; writers are not starved; nobody waits at a free gate |
| Usage ledger | `core/runtime.py` 31-325 | calls, committed and reserved tokens and dollars, reservations, summaries | `reserve`, `reconcile`, `reconcile_failure`, `overage_reason`, `summary` | every reservation is settled once; the limits hold up to what calls used above their estimates; all views of the cost agree |
| Agent runtime | `core/runtime.py` 328-671 | provider semaphore, invocation records | `execute`, `generate` | permits are conserved; retries are bounded; a writer's failed provider call is never repeated; every call ends |
| Swarm runner | `swarm_runner.py`, `core/run.py` | the run record, pending and completed tasks, the causation trace | `run`: planning, waves, work, review, blocking, aggregation | dependencies, reviews, status and message causality are right, alone and beside other runs |
| Message bus | `core/bus.py`, `core/protocol.py` | ordered history, subscribers | `publish`, `subscribe`, views | history is complete, ordered and causally closed |
| Provider process | `providers/` | the process group | `run`, `_terminate_process_group`, `parse_jsonl_output` | agent CLIs never overlap; stopping a call stops its group; usage is counted once |
| Plan validation, routing | `core/run.py`, `core/routing.py`, `core/specialists.py` | none | `valid_dependency_graph`, `select`, `eligible`, approval policies | acyclic plans; exact access; least cost among the eligible |
| Local worktree runs | `core/worktree.py`, `cli.py` | a worktree, an artifact directory | create, capture, publish, remove | the patch is durable before the worktree goes |
| Configuration | `core/config.py`, `core/config_inspection.py` | none | parse, validate, report | the rules other components rely on hold |
| Agent objects, aliases, examples | `agents/`, `core/agent.py`, `orchestrator/`, `sub_orchestrator/`, `workers/`, `src/examples/` | none | call `generate` | |

How they interact: `SwarmRunner.run` creates a bus and a runtime for each run
and shares one gate per event loop and checkout with every other run. A task
takes its lease from the gate, publishes, calls the runtime for its worker and,
under the same lease, for its reviewer; the runtime reserves at the ledger,
waits for a permit of its semaphore and then runs the provider process, again
after a transient failure of a reader. The command `swarm` validates the plan and
the configuration, which the selection of workers rests on, makes the checkout
the run works in, and publishes the result.

What is hard, with the lines where it bites, is the list `hazards` of
`PROJECT.json`: a notification that meets a cancellation, predicates that change
between wakeup and resumption, admission before the semaphore, settlement on
every way out of a call, permits handed to cancelled calls, writers that must
not be repeated, an overage that arrives with an error, review inside the
writer's lease, a mutable causation trace, a `gather` that returns before its
cancelled children have stopped, a termination that outlives the call it is
shielded from, process groups whose leader dies first, usage events that repeat,
and a worktree that may only go once everything in it is safe.

## Modules

| Module | Models | Notes |
|---|---|---|
| `WorkspaceLease` | what the gate promises, abstractly | reading, writing, pending; used by `SwarmRun` |
| `WorkspaceGate` | `core/concurrency.py` | the detailed gate; implements `WorkspaceLease` |
| `UsageLedger` | the ledger and `estimate_cost` | operators only: each method is one step of `AgentRuntime` |
| `AgentRuntime` | `execute` and `generate` | extends `UsageLedger` |
| `SwarmRun` | `SwarmRunner.run`, over several runs | instantiates `WorkspaceLease` |
| `ProviderStream` | `parse_jsonl_output` | operators; with a reference definition of a stream's usage |
| `CLIProvider` | `providers/cli.py`, one call's attempts | extends `ProviderStream` |
| `TaskGraph` | `TaskPlan.valid_dependency_graph` | operators; with a reference definition |
| `Configuration` | the rules of `SwarmConfig.from_dict` and what it calls | operators |
| `Routing` | `WorkerSelector`, `SpecialistRegistry`, `ApprovalPolicy`, `SpecialistRouter` | extends `Configuration` |
| `LocalRun` | the command, `core/worktree.py` | extends `TaskGraph` and `Routing` |
| `InductionTheorems` | | minimal counterexamples, recursion over a length, sums over finite sets: the lemmas the proofs share |
| `WorkspaceGateProofs`, `AgentRuntimeProofs`, `LedgerProofs`, `SwarmRunProofs`, `CLIProviderProofs`, `LocalRunProofs` | theorems about the state machines | `LedgerProofs` extends `AgentRuntimeProofs` |
| `AcceptanceProofs` | lemmas about `TaskGraph`, `Configuration`, `Routing` | what acceptance and selection mean; used by `LocalRunProofs` |
| `MCWorkspaceGate`, `MCAgentRuntime`, `MCSwarmRun`, `MCCLIProvider`, `MCLocalRun` | instances for TLC | |

A step is what the code does from one suspension to the next, because nothing
else runs in between. Places where an `await` cannot suspend are inside one
step: the gate's and the ledger's locks are never held across a suspension, so
acquiring them never waits; publishing has no subscribers to wait for.

**WorkspaceGate.** `pc` says where each task is; `waiters` are the condition's
pending futures, `ready` the resumptions the event loop has scheduled.
Notification moves a task from one to the other, and only later does it run
(`ResumeWriter`, `ResumeReader`), look again and enter or wait again.
`Cancel` marks a suspended task, `ResumeCancelled` runs its `finally`.
`NotifyOnCancel` separates CPython 3.10 to 3.12, whose `Condition.wait` forgets
the notification of a cancelled waiter, from 3.13, which passes it on.
A slot in `Recurring` is taken by a new task when its task is over: an endless
stream of tasks.

**UsageLedger and AgentRuntime.** A call is at `admit` (about to reserve),
`queued` or `granted` (waiting for the semaphore, or handed a permit and not yet
resumed), `running`, or ended. Tokens are input plus output; a usage report may
lack tokens or cost, a provider may lack a price. `excessTokens` and `excessCost`
are history variables. One simplification is a finer grain than the code: after a
retry the code reserves again without suspending, while the model lets others
step in between. The semaphore is asyncio's of CPython 3.11 and later,
which hands permits to queued calls; a resumed waiter wakes one other at most or all
it can, depending on the version, and the model allows both. In 3.10 a newcomer can
still overtake a woken call, which is not modelled.

**SwarmRun.** `phase` of runs and `stage` of tasks say where each is; `result`,
`verdict` and `terminal` are the fields of the task's record, with the result
`refused` for a task whose error is `BudgetExceeded`; `trace` is the mutable
trace of `_execute_task`; `history` the bus's. A provider call is one step from
admission to its end with the outcomes that `AgentRuntime` has. A wave starts
when `gather`'s tasks are created and is over when all its records are in.
`Block` is one pass over the blocked tasks. Publishing order between tasks, and
everything about the gate, is free up to what the lease allows. Messages are
identified by type and subject, never published twice (`TraceSound` checks
it). The tasks of different runs are disjoint.

**ProviderStream and CLIProvider.** `call` is where the current attempt's `run`
is, `term` where each attempt's `_terminate_process_group` is: it is a task of its
own, so it may still be in its grace period when its attempt is over.
`alive` is each process group. Processes end, start others and write when they
like; SIGTERM kills any subset of the group, SIGKILL all of it at once; a signal may be
refused, and then the code falls back to the leader. `Finish` and `Timeout` are both
enabled when the leader has ended at the deadline. `CancelStopping` is a cancellation
that finds the termination under way: the second one of an attempt, or the first of one that has
timed out. It leaves the shield, and the attempt ends `detached`. `StopLoop` is `asyncio.run` at its end,
which cancels what the shield protected. `CancelSpawning` meets an attempt before its `try` block: asyncio kills
the leader, nobody signals the group, and the attempt ends `unspawned`. The text of a stream
is its last message, which may be blank (events `text` and `blank`). An event's five token counters
are one number, as in the ledger. The call is a reader's, since writers make one
attempt only. A group id is not reused while the group is being signalled.

**LocalRun.** `pc` is the next step of the command, which may fail instead
(`Fail`: an error or an interrupt, with the clean-up of whatever it leaves) or be
killed. Files have a content at HEAD, in the worktree, and may be in the
index; workers change all three. `patch` holds, per path, what the two Git
commands of the capture put into it. An artifact goes from a partial and a whole
temporary file to its target. The command reads the configuration twice, once to
fail early and once for the run; `LoadConfig` stands for both.

**TaskGraph, Configuration, Routing** are evaluated in the states of `LocalRun` in
which a plan or a configuration is about to be loaded, so that what
is accepted there and what the run then selects from is the same value. Codex
arguments are classes of strings, those the checks tell apart: `-s` beside `--sandbox`, because only
the long spelling contains the word that `_overrides_codex_sandbox` looks for. `RunsWithin` is what a
command line asks of the Codex command, an external program, by the common rules of option parsers: it looks at
the options and the arguments after them, and shares with the scan only the classes and what an assignment assigns (`ValueOf`).
The two differ: the scan lets an option pass as the value of `-c`, where a parser refuses to start.

## Runs

Between them the passing runs fire every action and disjunct. The gate's runs
turn deadlock checking off because its tasks are over in the end, those of `CLIProvider` and `LocalRun`
because the call and the command are; `AgentRuntime` and `SwarmRun`
have an explicit `Terminated` step, so a deadlock is an error.

| Run | Instance | Question |
|---|---|---|
| `py310` | two writers, two recurring readers, no notification on cancel | are the counters right, writers alone and not starved; does the gate implement the lease |
| `py313` | two writers, three readers, notification on cancel | is everyone served, is no wakeup lost |
| `lost_wakeup` | the same without notification on cancel | violated: see below |
| `tokens` | two readers and a writer, two permits, one typed-contract retry for a reader and the writer, token limit | books, reservations, permits, retries, endings |
| `overage` | the same, one permit, token limit | violated: see below |
| `runs` | two runs on one checkout: a self-planned one with a writer beside a reader, a verified task behind both and a reader behind that; the other a writer | dependencies, reviews, messages, status; exclusion across runs, cancellation, progress |
| `planning` | one self-planned run | violated: see below |
| `process` | two attempts, a leader and a tool, two cancellations, streams of two events | who is alive when an attempt is over; is usage counted once; does everything end |
| `reaped` | the same | violated: see below |
| `local` | a tracked, a new and an ignored file; 14,425 plans, 28,542 configurations | is work ever lost, is a manifest ever wrong; are plans and configurations accepted that should not be |
| `committed` | the same | violated: see below |
| `overseer` | a self-planned run with a writing overseer, and another run's reader | violated: see below |

**Bounds.** The lost wakeup takes a writer that holds, one that is cancelled and a
reader; three readers and two writers give readers on either side of both, and
contention of writers with writers. Recurring slots make the stream of readers
unbounded with a finite state space. Estimates of 2 tokens against a limit of
7 with reports of 1, 5 or nothing admit three calls at once, and refuse a retry
because of the other calls' reservations as well as because of an overage; four provider calls for three callers let the call limit bite during
a retry; two permits let a permit be handed over while another is in use, one
permit makes every call queue. Four tasks with two levels of dependencies let a
blocked task block another in the same pass and let a task fail beside one that
succeeds; two runs with a writer each are the smallest in which writers of different runs queue
for each other, before, beside and after readers and a planner. Two attempts are a retry; one tool can outlive its leader, be
started again, and keep a group alive that refused a signal; two cancellations
are what it takes to leave the shield of a cancelled attempt, and streams of two events what a
repetition, or a blank message after a real one, takes. Three files cover what Git tells apart, two
contents an edit after a commit. Plans of up to three tasks with three ids
hold every self-loop, unknown or duplicate id, and cycles of two and three; three arguments
hold a flag, its value and one that overrides it, or a flag that passes as another's value. Only one plan and one
configuration go on past the loading, since nothing later reads them.

**Fairness.** Gate: the event loop resumes what is scheduled, and every lease is
given back. Nothing is assumed about arrivals or cancellations. Runtime: an
enabled step of each call happens; a provider's end is such a step because every
provider call has a timeout (`providers/cli.py` 280-287). Runs: an enabled step
of each run and task happens, including entering a free lease. That last
assumption is what the gate's `EveryoneServed` gives on CPython 3.13, and on
earlier versions when no writer is cancelled; `EveryRunEnds` rests on it.
Provider: the event loop connects pipes, fires timers and resumes `run` and the
termination. Nothing is assumed of the processes: they may ignore SIGTERM and
live for ever. `LocalRun` has no liveness: a command may always be killed.

## What the runs found

- **A lost wakeup** (`lost_wakeup`). A holder releases and notifies a waiting writer, which is
  cancelled before it resumes and leaves without notifying. A reader that looked in between saw the waiting
  writer and waits: in the run's trace one that has just arrived; one that was notified too and
  resumed ahead of the writer is left the same way. The gate is
  free and the reader hangs, until some later lease is released. Gates outlive
  runs, so the cancelled writer may be another run's. Only on CPython 3.10 to
  3.12, which `pyproject.toml` accepts.
- **Starts after an overage** (`overage`). `docs/architecture.md` says that the
  default concurrency of one trips the admission gate before additional tasks
  start. Calls reserve before they wait for the semaphore, so those already
  queued start nevertheless; what the ledger does guarantee is
  `NoAdmissionAfterOverage`.
- **An overage that does not mark the run** (`planning`). When the planner's
  call overruns the budget and its reply breaks the typed contract, the run is
  `failed`. `StatusTruthful` states what does hold: a run that executed its plan
  reports every overage.
- **A writing overseer** (`overseer`). The configuration accepts an overseer
  with `workspace_write` access, whose planning call runs under a read lease, beside the readers of
  another run in the same event loop. With a read-only overseer `WriterAlone` holds (`runs`).
- **A cancelled start** (`reaped`). The repository's README says that timeout and cancellation
  terminate and reap the process group, so that tools do not continue in the background. The `try` block that
  does it begins after `create_subprocess_exec`. A cancellation that arrives while that still connects the pipes
  of the started process makes asyncio kill the leader; tools that it has started already are
  signalled by nobody and live on.
- **Committed work is lost** (`committed`). `docs/architecture.md` says the patch
  captures changes "relative to the starting commit"; the code diffs against the
  worktree's HEAD. A worker with `workspace_write` access that runs `git commit` moves
  HEAD, the patch leaves its changes out, the manifest calls the run complete, and
  the worktree is removed with the only reference to the commit. `WorkPreserved` says
  what does hold: everything else is preserved.

What a call leaves alive otherwise, `NoSurvivor` says case by case:

- after a timeout, or a cancellation of a running agent that saw the termination end: nobody, unless
  the operating system refused the signal;
- after a cancellation that finds the termination under way (the second of a cancelled attempt, the
  first of one that has timed out): `run` returns, and its lease is given back, before the group is dead. The shielded
  termination goes on and ends the group, unless the event loop closes first; then SIGKILL is never sent, and
  a process that ignores SIGTERM lives on;
- after a cancelled start: no leader.

It says nothing of attempts that end by themselves. A normal or failed return never signals the
group, so tools that outlive their agent CLI survive its call, and may still run during the next attempt:
`OneLeader` is about agent CLIs only.

Usage has exceptions of its own, which `UsageCountedOnce` states: it is dropped when an agent exits with zero
and its last message is blank or missing, and when a figure is invalid; and the cost of a `step_finish` event without a token
object is not counted.

## Theorems

Every invariant and every action property that a passing run checks is also proved by
TLAPS, for every value of the constants that meets the named assumptions, and so is the
refinement. The only exceptions are the liveness properties.

**The gate** (`WorkspaceGateProofs`).

- `CountersCorrect`, `GateTypes`, `MutualExclusion`, `GateImplementsLease`. `CountInv`, types
  and counters together, is inductive by itself; each counter changes with the
  set it counts, which the lemmas `MoveToHolding`, `MoveToWaiting` and `MoveOut`
  say once. Exclusion needs the counters, since the predicates read them and not
  the sets. The refinement maps every step to a step of the lease or to a stutter.
- `WakeupsNotLost`, for CPython 3.13. `QueueInv` says that every suspended task
  is queued, and that at a free gate a resumption is on its way; when readers are
  kept out, that of a writer, whose withdrawal will pass it on.

**The runtime and its ledger** (`AgentRuntimeProofs`, `LedgerProofs`).

- `RuntimeTypes`, `ReservationsSettled`. `PendingInv` (the semaphore's queue holds the queued calls,
  once each, none of them cancelled) keeps a hand-over from moving a call that
  is not waiting; `ReservedInv` makes the settlement of each call well defined. That a reservation is outstanding exactly
  while its call is suspended (`NoReservationLeaked`) holds because every way on from a suspension
  settles first: this is what `LedgerBalanced`, which sums whatever is outstanding, cannot say.
- `BudgetNeverOverbooked`. On top of these: admission establishes the
  bound, settlement moves an amount from reserved to committed and adds what
  exceeds it to the excess.
- `RetriesAreBounded`. `RetryInv` bounds the invocations by the turns the two loops
  have taken so far, with a nonlinear bound that `TurnsLeft` isolates. For a writer the inner loop
  has one turn: what repeats its call is a reply that broke the typed contract, as often as its profile allows, and never a
  failed provider call. The configuration forbids the former for workers (`RoutedSafely`) but not for an overseer.
- `NoPermitLost`. Every step moves a call between the places a permit can be (the
  semaphore's value, a hand-over on its way, a running call), and moves the
  permit with it; waiting beside a free permit needs a wakeup on its way.
- `BooksBalance`, `CostViewsCorrect`. Each settlement changes one term of the sums over
  calls and one of the sums over agents; the lemmas about sums turn that into a change of the totals by
  the same amount.
- `AdmissionsStop`, an action property. Every admission goes through `Admissible`, which
  compares what is committed and reserved with the limits; what is reserved is never
  negative, because it is a sum of reservations (`BooksBalance`).

**Runs** (`SwarmRunProofs`), any number of them on one checkout, with any plans that
validation accepts. One inductive invariant carries all theorems but one: `Inv` is
`TypeOK`, where each run and its tasks are (`PhaseInv`), what each trace names
(`TraceInv`), that the lease is held by exactly those at work (`LeaseInv`), what is
and is not yet published at each place (`SaidInv`), that causes precede their effects and a
task's terminal message is its last (`CausesPrecede`, `TerminalIsLast`), and what a status comes
from (`StatusInv`), beside `DependenciesSucceeded` and `NoUnreviewedSuccess`. `TraceSound` is not
inductive without `SaidInv`: that a message is not published twice depends on who can still
publish it. The lemma `Steps` sorts the actions by what they
do to the history and to the lease, so that each conjunct is preserved by kind of step rather than
by action.

- `RunTypes`, `DependenciesFirst`, `ReviewsEnforced`, `TraceIsSound`, `StatusIsTruthful`,
  `NothingIsLeft`.
- `ChainsUnbroken`: the messages about each task form one chain (`CauseIsLatest`). `LatestInv` says where
  the chain of each task ends: the trace of a task at work names the last message about it, and of a task that has
  not published there is none. What a task says in one step is `Chained` from its trace, which every
  path through its calls, its review and their failures shows.
- `TasksWriteAlone`: while a task with write access works, nobody else does, whatever access the
  planners have. `WritersAlone`, the property of the run `runs`, needs
  `Overseers = {}`; without it the run `overseer` violates it.

**The provider process** (`CLIProviderProofs`).

- `LeadersNeverOverlap`, `GroupsLeftBehind`. `ShieldInv` says where the
  termination of an attempt can be once the attempt is over: behind it after a timeout or a cancellation, anywhere
  only when the attempt was detached from it. `DeadInv` says what is dead by then, and stays so:
  nobody starts a leader, and an empty group starts nothing.
- `ProviderTypes`, `UsageIsCountedOnce`. `ScanMeans` says of the loop of `parse_jsonl_output` after
  `n` events which ids it has seen and that the usages it keeps are those of the
  units among the first `n`; each turn preserves it, for streams of any length. A sum over the list is
  then the sum over the stream's units, because the two correspond one to one. `ReportInv`
  carries it to what each attempt has reported.

**The command** (`LocalRunProofs`, `AcceptanceProofs`).

- `WorkIsNotLost`, `ManifestIsLast`, `FailuresAreTraceable`, `LocalTypes`. `OutputInv` ties
  the list of artifacts still to write to what is on disk, `PatchInv` the patch
  in memory to the files, which nothing changes after the capture, and `PlaceInv`
  the directories to the step the command is at. The three invariants hold for a command
  killed at any step, so they speak of its end as well.
- `PlansAreSound`. From the loop to an order: what `n` turns resolve can be numbered, one
  task at a time, so that each is numbered after all it depends on. From an order to the
  loop: the first `n` tasks of the order are resolved after `n` turns.
- `RoutingIsSafe`. The validator's scan is an automaton over the argument list, while the
  reading of the command line (`SandboxModes`) is a set over its positions. As long as every option has its
  value, what the scan has found after `n` arguments is what the first `n` positions ask for (`ModesUpTo`,
  by `ModesTurn`); so an accepted adapter that starts asks for the sandbox it declares and for nothing else. The order of the selection is total, so somebody eligible is least
  (`CheapestExists`), and what `WritersAccepted` and the equality of accesses demand of profiles then
  holds of whoever is selected.

**Induction over data.** TLAPS cannot apply an induction rule whose parameter is a
predicate with the provers installed here. `InductionTheorems` does without: a nonempty set of naturals has a
least member, a nonempty set of subsets of a finite set has a minimal one, and a proof
takes the set of counterexamples. A recursive function is shown to exist the same way
(`Recursion`), and to have the values its equation says. This is why the loops of `TaskGraph`,
`ProviderStream` and `Configuration` are written as functions of how many elements they have read.

**Only model-checked:** liveness, which is beyond the prover: `WriterNotStarved`, `EveryoneServed`,
`EveryCallEnds`, `StoppedGroupsDie`, `EveryAttemptEnds`, `EveryRunEnds`. The dollar limit, on the other
hand, is only proved: the runs have token limits.

## Assumptions

`TasksAssumption` of the gate, `CallsAssumption`: finitely many tasks, calls and agents, readers are
not writers. `LimitsAssumption`: what `BudgetConfig.from_dict` validates.
`RuntimeAssumption`: positive estimates (`reserve` estimates at least one input
and one output token), and any number of typed-contract retries for each call, writers included.

`PlanAssumption`: what `TaskPlan.valid_dependency_graph` accepts (`PlanSound` says that this is
an order to execute the plan in), for each run, with tasks of different runs kept apart by their names;
under it the error "validated task plan could not make progress" is unreachable, and
the model has no step for it. `AccessAssumption`: writers, verified tasks and overseers are some of the
tasks and of the runs that plan for themselves.

`StreamAssumption`, `AttemptsAssumption`, `MembersAssumption`: figures are
natural numbers, at least one attempt, the leader is not one of its descendants.

`FilesAssumption`: every path has a content at the base commit, or is absent. `TasksAssumption` of
`LocalRun`, and `plan \in Plans` and `IsConfig(config)` in its `Init`: plans, tasks and configurations
are what the parser hands to the validators, with a value of its type in every field; nothing is assumed about
lengths, ids, references or which accesses go together.

`RunsWithin` is not an assumption of a proof but one about the Codex command, which is not part of this
repository: that it reads the modelled spellings by the common rules of option parsers.

`NoneAssumption`, `AgentAssumption`: Python's `None` is none of the values it stands in for.

## Not modelled

Contents of prompts, replies and reports; which exceptions a provider class beyond
`ProviderError` might raise out of the listed ones; the time values in
records; YAML and JSON parsing and the ranges of numbers in them; the keyword match as a
regular expression; the printed report of `config show` (`core/config_inspection.py`),
which changes nothing; redaction and the environment filter. Codex
arguments other than the modelled spellings: combined or abbreviated options, and options with an effect on the sandbox
that the checks do not know of.

Of the message bus, subscribers: `SwarmRunner` never adds one, so a failing
subscriber concerns only callers who use `MessageBus` themselves.

Of the provider process: the Windows branch, which kills the leader only; the
plain text format, which reports no usage; tools that leave the process group;
the reuse of a process group's number; `asyncio.wait_for` swallowing a cancellation that
coincides with the end of the process, on Python before 3.12.

Of the worktree: a power failure (files are flushed, their directory is not); paths
taken out of the index while they stay in the worktree (`git rm --cached`); a process
that outlived its call and still edits between capture and removal; other users of the
repository.

The agent objects, the aliases and the examples have no state of their own.

## Plan

1. `SwarmRun` with `AgentRuntime`, and `AgentRuntime` with `CLIProvider`, in place of
   the abstract calls: that a run's provider call ends only in ways the runtime has, that the
   runtime's outcomes are those of a process.
2. `MessageBus`: concurrent publishers and failing subscribers.
