------------------------------- MODULE SwarmRun -------------------------------
(***************************************************************************)
(* swarm_runner.py: SwarmRunner.run for the runs that share a checkout:    *)
(* planning under a read lease, waves of ready tasks, each one's work and  *)
(* review under its lease, blocking, the run's status, its messages on the *)
(* bus, and cancellation.                                                  *)
(*                                                                         *)
(* The gate is its abstract form, WorkspaceLease, which WorkspaceGate      *)
(* implements.  A provider call is one step from its admission to its end; *)
(* AgentRuntime says which ends are possible.  Publishing and admission    *)
(* never suspend (a run's bus has no subscribers), so everything the code  *)
(* does between two suspensions is one action.                             *)
(*                                                                         *)
(* As in WorkspaceGate, a definition whose name extends another's is that  *)
(* definition with a plausible mistake.                                    *)
(***************************************************************************)
EXTENDS Naturals, FiniteSets, SequencesExt

CONSTANTS
  Runs,        \* concurrent runs on one checkout
  Plan,        \* the tasks of each run's plan, in order
  DependsOn,   \* each task's dependencies, in order
  Writers,     \* tasks with workspace_write access
  Verified,    \* tasks whose complexity config.verification reviews
  SelfPlanned, \* runs without a supplied plan: the overseer makes it
  Overseers,   \* self-planned runs whose overseer has workspace_write access
  None

TasksOf(r) == ToSet(Plan[r])
Tasks == UNION {TasksOf(r) : r \in Runs}

(* What TaskPlan.valid_dependency_graph accepts, for runs with their own   *)
(* tasks.                                                                  *)
ASSUME PlanAssumption ==
  /\ \A r \in Runs : /\ Plan[r] \in Seq(TasksOf(r)) /\ Plan[r] # <<>>
                      /\ Len(Plan[r]) = Cardinality(TasksOf(r))
  /\ \A r, s \in Runs : r # s => TasksOf(r) \cap TasksOf(s) = {}
  /\ \A r \in Runs : \A t \in TasksOf(r) : DependsOn[t] \in Seq(TasksOf(r))
  /\ \E rank \in [Tasks -> 1 .. Cardinality(Tasks)] :
       \A t \in Tasks : \A d \in ToSet(DependsOn[t]) : rank[d] < rank[t]
ASSUME AccessAssumption == /\ Writers \subseteq Tasks /\ Verified \subseteq Tasks
                           /\ SelfPlanned \subseteq Runs /\ Overseers \subseteq SelfPlanned
                           /\ Runs \cap Tasks = {}

VARIABLES
  phase,     \* where each run() is
  overage,   \* the run's ledger holds an overage
  status,    \* record.status once the run has finished
  history,   \* the run's bus.history
  stage,     \* where each task is
  result,    \* TaskRecord.status; "refused" is "failed" by BudgetExceeded
  verdict,   \* the review in the TaskRecord
  trace,     \* trace["latest_message_id"]
  terminal,  \* TaskRecord.terminal_message_id
  reading, writing, queued  \* the workspace lease

runVars == <<phase, overage, status, history>>
taskVars == <<stage, result, verdict, trace, terminal>>
leaseVars == <<reading, writing, queued>>
vars == <<runVars, taskVars, leaseVars>>

(* A run that plans holds a read lease in its own name. *)
Lease == INSTANCE WorkspaceLease WITH Readers <- Runs \cup (Tasks \ Writers),
                                      pending <- queued

Active == {"entering", "working", "reviewing"}
Statuses == {"succeeded", "partial", "failed", "budget_exhausted"}
Results == {"succeeded", "rejected", "blocked", "failed", "refused"}
ASSUME NoneAssumption == None \notin Results
Types == {"run.request", "plan.created", "task.assigned", "task.result",
          "review.request", "review.result", "task.failed", "task.blocked",
          "run.aggregated", "run.completed"}

(* A message is identified by its type and what it is about: no type is    *)
(* published twice about the same run or task.                             *)
Ids == Types \X (Runs \cup Tasks)
Messages == [id : Ids, cause : Ids \cup {None}, causes : SUBSET Ids]
Message(type, about, cause) ==
  [id |-> <<type, about>>, cause |-> cause, causes |-> {}]

TypeOK ==
  /\ phase \in [Runs -> {"new", "entering", "planning", "stopping", "executing",
                         "cancelling", "done", "cancelled"}]
  /\ overage \in [Runs -> BOOLEAN]
  /\ status \in [Runs -> Statuses \cup {None}]
  /\ history \in [Runs -> Seq(Messages)]
  /\ stage \in [Tasks -> Active \cup {"pending", "returned", "stopping", "stopped"}]
  /\ result \in [Tasks -> Results \cup {None}]
  /\ verdict \in [Tasks -> {"APPROVE", "REJECT", None}]
  /\ trace \in [Tasks -> Ids \cup {None}]
  /\ terminal \in [Tasks -> Ids \cup {None}]
  /\ Lease!TypeOK

Init ==
  /\ phase = [r \in Runs |-> "new"]
  /\ overage = [r \in Runs |-> FALSE]
  /\ status = [r \in Runs |-> None]
  /\ history = [r \in Runs |-> <<>>]
  /\ stage = [t \in Tasks |-> "pending"]
  /\ result = [t \in Tasks |-> None]
  /\ verdict = [t \in Tasks |-> None]
  /\ trace = [t \in Tasks |-> None]
  /\ terminal = [t \in Tasks |-> None]
  /\ Lease!Init

-------------------------------------------------------------------------------
Publish(r, messages) == history' = [history EXCEPT ![r] = @ \o messages]

(* How execute's call may end, given the overage it leaves on the books:   *)
(* with a value, a refused readmission, a breach of the typed contract, or *)
(* a provider error, which becomes BudgetExceeded when there is an overage.*)
CallErrors == {"failed", "contract", "refused"}
CallEnds(r, end) ==
  \E over \in {overage[r], TRUE} :
    /\ overage' = [overage EXCEPT ![r] = over]
    /\ end = "failed" => ~over
ErrorResultRaw(error) == error
ErrorResult(error) == IF error = "refused" THEN "refused" ELSE "failed"

(* The lease is free for t, which takes it and gives it back in one step.  *)
PassThrough(t) ==
  IF t \in Writers THEN /\ reading = {} /\ writing = {}
                        /\ queued' = queued \ {t}
                        /\ UNCHANGED <<reading, writing>>
                   ELSE /\ writing = {} /\ queued = {}
                        /\ UNCHANGED leaseVars
TakeToRead(t) == Lease!Read(t)
Take(t) == IF t \in Writers THEN Lease!Write(t) ELSE Lease!Read(t)

(* run ends: the completion message, and the record's status. *)
Complete(r, final, messages) ==
  /\ Publish(r, Append(messages,
       Message("run.completed", r,
               (IF messages = <<>> THEN <<"run.request", r>>
                                   ELSE Last(messages).id))))
  /\ status' = [status EXCEPT ![r] = final]
  /\ phase' = [phase EXCEPT ![r] = "done"]

-------------------------------------------------------------------------------
Begin(r) ==
  /\ phase[r] = "new"
  /\ \/ /\ r \in SelfPlanned
        /\ Publish(r, <<Message("run.request", r, None)>>)
        /\ phase' = [phase EXCEPT ![r] = "entering"]
     \/ /\ r \notin SelfPlanned
        /\ Publish(r, <<Message("run.request", r, None),
                        Message("plan.created", r, <<"run.request", r>>)>>)
        /\ phase' = [phase EXCEPT ![r] = "executing"]
  /\ UNCHANGED <<overage, status, taskVars, leaseVars>>

(* The planner's call is admitted under a read lease, or refused. *)
EnterPlanning(r) ==
  /\ phase[r] = "entering"
  /\ \/ /\ Lease!Read(r)
        /\ phase' = [phase EXCEPT ![r] = "planning"]
        /\ UNCHANGED <<status, history>>
     \/ /\ PassThrough(r)
        /\ Complete(r, "budget_exhausted", <<>>)
  /\ UNCHANGED <<overage, taskVars>>

EndPlanningKeepingLease(r) ==
  /\ phase[r] = "planning"
  /\ \E end \in CallErrors \cup {"value"} :
       /\ CallEnds(r, end)
       /\ \/ /\ end = "value"
             /\ Publish(r, <<Message("plan.created", r, <<"run.request", r>>)>>)
             /\ phase' = [phase EXCEPT ![r] = "executing"]
             /\ UNCHANGED <<status, leaseVars>>
          \/ /\ end # "value"
             /\ Complete(r, IF end = "refused" THEN "budget_exhausted" ELSE "failed", <<>>)
             /\ Lease!Leave(r)
  /\ UNCHANGED taskVars

EndPlanning(r) ==
  /\ phase[r] = "planning"
  /\ Lease!Leave(r)
  /\ \E end \in CallErrors \cup {"value"} :
       /\ CallEnds(r, end)
       /\ \/ /\ end = "value"
             /\ Publish(r, <<Message("plan.created", r, <<"run.request", r>>)>>)
             /\ phase' = [phase EXCEPT ![r] = "executing"]
             /\ UNCHANGED status
          \/ /\ end # "value"
             /\ Complete(r, IF end = "refused" THEN "budget_exhausted" ELSE "failed", <<>>)
  /\ UNCHANGED taskVars

-------------------------------------------------------------------------------
(* _execute_plan.  gather returns when every task of the wave has.         *)
Gathered(r) == /\ phase[r] = "executing"
               /\ \A t \in TasksOf(r) : stage[t] \in {"pending", "returned"}

(* Dependencies that completed without success; "earlier" are the tasks    *)
(* the current pass has blocked already.                                   *)
FailedDependencies(t, earlier) ==
  {d \in ToSet(DependsOn[t]) : d \in earlier \/ result[d] \notin {None, "succeeded"}}

BlockedOnFailure(r) ==
  {t \in TasksOf(r) :
     stage[t] = "pending" /\ \E d \in ToSet(DependsOn[t]) : result[d] = "failed"}

Blocked(r) ==
  {t \in TasksOf(r) : stage[t] = "pending" /\ FailedDependencies(t, {}) # {}}

Ready(r) == {t \in TasksOf(r) : /\ stage[t] = "pending"
                                /\ \A d \in ToSet(DependsOn[t]) : result[d] # None}

FirstOf(seq, S) == seq[Min({i \in DOMAIN seq : seq[i] \in S})]

(* S listed in the order its members have in seq. *)
InOrderOf(seq, S) ==
  {list \in SetToSeqs(S) :
     \A i, j \in DOMAIN list :
       i < j => \E m, n \in DOMAIN seq : m < n /\ seq[m] = list[i] /\ seq[n] = list[j]}

(* One pass over the blocked tasks. *)
Block(r) ==
  /\ Gathered(r) /\ Blocked(r) # {}
  /\ stage' = [t \in Tasks |-> IF t \in Blocked(r) THEN "returned" ELSE stage[t]]
  /\ result' = [t \in Tasks |-> IF t \in Blocked(r) THEN "blocked" ELSE result[t]]
  /\ terminal' = [t \in Tasks |-> IF t \in Blocked(r) THEN <<"task.blocked", t>>
                                                      ELSE terminal[t]]
  /\ \E blocked \in InOrderOf(Plan[r], Blocked(r)) :
       LET failed(i) == FailedDependencies(blocked[i], {blocked[j] : j \in 1 .. i - 1})
       IN  Publish(r, [i \in DOMAIN blocked |->
             [id     |-> <<"task.blocked", blocked[i]>>,
              cause  |-> terminal'[FirstOf(DependsOn[blocked[i]], failed(i))],
              causes |-> {terminal'[d] : d \in failed(i)}]])
  /\ UNCHANGED <<phase, overage, status, verdict, trace, leaseVars>>

StartWave(r) ==
  /\ Gathered(r) /\ Blocked(r) = {} /\ Ready(r) # {}
  /\ stage' = [t \in Tasks |-> IF t \in Ready(r) THEN "entering" ELSE stage[t]]
  /\ trace' = [t \in Tasks |-> IF t \in Ready(r) THEN <<"plan.created", r>>
                                                 ELSE trace[t]]
  /\ UNCHANGED <<runVars, result, verdict, terminal, leaseVars>>

(* A writer that cannot enter waits, and holds back later readers. *)
Queue(t) ==
  /\ stage[t] = "entering" /\ t \in Writers
  /\ Lease!Queue(t)
  /\ UNCHANGED <<runVars, taskVars>>

ReturnLastButOne(r, t, final, review, messages, last) ==
  /\ Publish(r, messages)
  /\ stage' = [stage EXCEPT ![t] = "returned"]
  /\ result' = [result EXCEPT ![t] = final]
  /\ verdict' = [verdict EXCEPT ![t] = review]
  /\ trace' = [trace EXCEPT ![t] = last]
  /\ terminal' = [terminal EXCEPT ![t] = trace[t]]
  /\ UNCHANGED <<phase, status>>

(* Task t of run r publishes, and returns its record to gather.            *)
Return(r, t, final, review, messages, last) ==
  /\ Publish(r, messages)
  /\ stage' = [stage EXCEPT ![t] = "returned"]
  /\ result' = [result EXCEPT ![t] = final]
  /\ verdict' = [verdict EXCEPT ![t] = review]
  /\ trace' = [trace EXCEPT ![t] = last]
  /\ terminal' = [terminal EXCEPT ![t] = last]
  /\ UNCHANGED <<phase, status>>

(* The except clause: task.failed, caused by the latest message. *)
ReturnFailed(r, t, final, messages, last) ==
  Return(r, t, final, None, Append(messages, Message("task.failed", t, last)),
         <<"task.failed", t>>)

CallUntraced(r, t, place, messages) ==
  /\ Publish(r, messages)
  /\ stage' = [stage EXCEPT ![t] = place]
  /\ UNCHANGED <<phase, status, result, verdict, trace, terminal>>

(* Task t of run r publishes, and its call is admitted. *)
Call(r, t, place, messages) ==
  /\ Publish(r, messages)
  /\ stage' = [stage EXCEPT ![t] = place]
  /\ trace' = [trace EXCEPT ![t] = Last(messages).id]
  /\ UNCHANGED <<phase, status, result, verdict, terminal>>

(* The task has its lease: a worker is selected and its call admitted, or  *)
(* nobody is eligible, or the ledger refuses the call.                     *)
Enter(r, t) ==
  /\ stage[t] = "entering"
  /\ LET assigned == Message("task.assigned", t, <<"plan.created", r>>)
     IN  \/ PassThrough(t) /\ ReturnFailed(r, t, "failed", <<>>, trace[t])
         \/ PassThrough(t) /\ ReturnFailed(r, t, "refused", <<assigned>>, assigned.id)
         \/ ~overage[r] /\ Take(t) /\ Call(r, t, "working", <<assigned>>)
  /\ UNCHANGED overage

NeedsReviewIfVerified(t) == t \in Verified
NeedsReview(t) == t \in Writers \/ t \in Verified

(* The worker's call is over.  A completed outcome that needs a review     *)
(* selects a reviewer and has its call admitted, under the same lease.     *)
EndWork(r, t) ==
  /\ stage[t] = "working"
  /\ LET res == Message("task.result", t, <<"task.assigned", t>>)
         req == Message("review.request", t, <<"task.result", t>>)
     IN  \/ /\ Lease!Leave(t)
            /\ \/ \E error \in CallErrors :
                    /\ CallEnds(r, error)
                    /\ ReturnFailed(r, t, ErrorResult(error), <<>>, trace[t])
               \/ /\ CallEnds(r, "value")
                  /\ \/ \E final \in {"blocked", "failed"} :
                          Return(r, t, final, None, <<res>>, res.id)
                     \/ /\ ~NeedsReview(t)
                        /\ Return(r, t, "succeeded", None, <<res>>, res.id)
                     \/ /\ NeedsReview(t)
                        /\ \/ ReturnFailed(r, t, "failed", <<res>>, res.id)
                           \/ ReturnFailed(r, t, "refused", <<res, req>>, req.id)
         \/ /\ CallEnds(r, "value") /\ ~overage'[r] /\ NeedsReview(t)
            /\ Call(r, t, "reviewing", <<res, req>>)
            /\ UNCHANGED leaseVars

EndReview(r, t) ==
  /\ stage[t] = "reviewing"
  /\ Lease!Leave(t)
  /\ LET reviewed == Message("review.result", t, <<"review.request", t>>)
     IN  \/ \E error \in CallErrors :
              /\ CallEnds(r, error)
              /\ ReturnFailed(r, t, ErrorResult(error), <<>>, trace[t])
         \/ /\ CallEnds(r, "value")
            /\ \/ Return(r, t, "succeeded", "APPROVE", <<reviewed>>, reviewed.id)
               \/ Return(r, t, "rejected", "REJECT", <<reviewed>>, reviewed.id)

-------------------------------------------------------------------------------
Having(r, results) == {t \in TasksOf(r) : result[t] \in results}

StatusOfTasks(r) ==
  IF Having(r, {"refused"}) # {} THEN "budget_exhausted"
  ELSE IF Having(r, {"succeeded"}) = TasksOf(r) THEN "succeeded"
  ELSE IF Having(r, {"succeeded"}) # {} THEN "partial"
  ELSE "failed"

(* _run_status, and what run makes of it. *)
FinalStatus(r) ==
  IF Having(r, {"refused"}) # {} \/ overage[r] THEN "budget_exhausted"
  ELSE IF Having(r, {"succeeded"}) = TasksOf(r) THEN "succeeded"
  ELSE IF Having(r, {"succeeded"}) # {} THEN "partial"
  ELSE "failed"

Finish(r) ==
  /\ Gathered(r) /\ \A t \in TasksOf(r) : stage[t] = "returned"
  /\ Complete(r, FinalStatus(r),
       <<[id     |-> <<"run.aggregated", r>>,
          cause  |-> <<"plan.created", r>>,
          causes |-> {terminal[t] : t \in TasksOf(r)}]>>)
  /\ UNCHANGED <<overage, taskVars, leaseVars>>

-------------------------------------------------------------------------------
(* The task that awaits run() is cancelled, while it waits for the lease,  *)
(* the planner or a wave, or just after the wave is over.  gather passes   *)
(* the cancellation on to every task of the wave.                          *)
CancelStarted(r) ==
  /\ phase[r] = "executing" /\ \E t \in TasksOf(r) : stage[t] \in Active
  /\ phase' = [phase EXCEPT ![r] = "cancelling"]
  /\ stage' = [t \in Tasks |->
                 IF t \in TasksOf(r) /\ stage[t] \in {"working", "reviewing"}
                 THEN "stopping" ELSE stage[t]]
  /\ UNCHANGED <<overage, status, history, result, verdict, trace, terminal, leaseVars>>

Cancel(r) ==
  /\ \/ /\ phase[r] = "entering"
        /\ phase' = [phase EXCEPT ![r] = "cancelled"]
        /\ UNCHANGED stage
     \/ /\ phase[r] = "planning"
        /\ phase' = [phase EXCEPT ![r] = "stopping"]
        /\ UNCHANGED stage
     \/ /\ phase[r] = "executing" /\ \E t \in TasksOf(r) : stage[t] \in Active
        /\ phase' = [phase EXCEPT ![r] = "cancelling"]
        /\ stage' = [t \in Tasks |->
                       IF t \in TasksOf(r) /\ stage[t] \in Active THEN "stopping"
                                                                  ELSE stage[t]]
     \/ /\ Gathered(r) /\ Last(history[r]).id \in {terminal[t] : t \in TasksOf(r)}
        /\ Last(history[r]).id[1] # "task.blocked"
        /\ phase' = [phase EXCEPT ![r] = "cancelled"]
        /\ UNCHANGED stage
  /\ UNCHANGED <<overage, status, history, result, verdict, trace, terminal, leaseVars>>

(* The planner's provider has been stopped. *)
StopPlanning(r) ==
  /\ phase[r] = "stopping"
  /\ Lease!Leave(r)
  /\ phase' = [phase EXCEPT ![r] = "cancelled"]
  /\ UNCHANGED <<overage, status, history, taskVars>>

(* A cancelled task gives up its lease, or its place in the queue, once    *)
(* its provider has been stopped.  gather, and with it run(), raises as    *)
(* soon as the first of them has ended.                                    *)
Stop(r, t) ==
  /\ stage[t] = "stopping"
  /\ \/ Lease!Leave(t)
     \/ Lease!Withdraw(t)
     \/ t \notin reading \cup writing \cup queued /\ UNCHANGED leaseVars
  /\ stage' = [stage EXCEPT ![t] = "stopped"]
  /\ phase' = [phase EXCEPT ![r] = "cancelled"]
  /\ UNCHANGED <<overage, status, history, result, verdict, trace, terminal>>

Advance(r) == \/ Begin(r) \/ EnterPlanning(r) \/ EndPlanning(r) \/ StopPlanning(r)
              \/ Block(r) \/ StartWave(r) \/ Finish(r)
Step(r, t) == Queue(t) \/ Enter(r, t) \/ EndWork(r, t) \/ EndReview(r, t) \/ Stop(r, t)

Over(r) == /\ phase[r] \in {"done", "cancelled"}
           /\ \A t \in TasksOf(r) : stage[t] \notin Active \cup {"stopping"}
Terminated == (\A r \in Runs : Over(r)) /\ UNCHANGED vars

Next == \/ \E r \in Runs : \/ Advance(r) \/ Cancel(r)
                           \/ \E t \in TasksOf(r) : Step(r, t)
        \/ Terminated

(* Provider calls end (their timeout), and the gate lets in whoever may    *)
(* enter and keeps being able to.                                          *)
Fairness == \A r \in Runs : /\ WF_vars(Advance(r))
                            /\ \A t \in TasksOf(r) : WF_vars(Step(r, t))

Spec == Init /\ [][Next]_vars /\ Fairness
-------------------------------------------------------------------------------
Published(r) == {history[r][i].id : i \in DOMAIN history[r]}

(* Who is at work in the checkout, or whose provider is being stopped. *)
AtWork == {t \in Tasks : \/ stage[t] \in {"working", "reviewing"}
                         \/ stage[t] = "stopping" /\ trace[t][1] # "plan.created"}
          \cup {r \in Runs : phase[r] \in {"planning", "stopping"}}

(* A task or planner with workspace_write access works, is reviewed and is *)
(* stopped while nobody else is at work in the checkout, in its run or in  *)
(* another.                                                                *)
WriterAlone == \A w \in AtWork \cap (Writers \cup Overseers) : AtWork = {w}

(* No task goes to work unless all it depends on has succeeded: a rejected,*)
(* blocked or failed dependency stops everything behind it.                *)
DependenciesSucceeded ==
  \A t \in Tasks : stage[t] \in Active \/ result[t] \notin {None, "blocked"} =>
    \A d \in ToSet(DependsOn[t]) : result[d] = "succeeded"

(* No write, whatever the verification configuration, and no task that it  *)
(* says is verified, counts as succeeded without an approval that was      *)
(* given by a reviewer and that the run's history records.                 *)
NoUnreviewedSuccess ==
  \A r \in Runs : \A t \in TasksOf(r) \cap (Writers \cup Verified) :
    result[t] = "succeeded" =>
      verdict[t] = "APPROVE" /\ <<"review.result", t>> \in Published(r)

(* A history starts with the request, holds no message twice, and every    *)
(* other message comes after all that it names as its causes.              *)
InCausalOrder(messages) ==
  \A i \in DOMAIN messages :
    LET m       == messages[i]
        earlier == {messages[j].id : j \in 1 .. i - 1}
    IN  /\ m.id \notin earlier
        /\ IF i = 1 THEN m.id[1] = "run.request"
                    ELSE {m.cause} \cup m.causes \subseteq earlier

(* Nothing a run says is caused by what it says later, or never. *)
CausesPrecede == \A r \in Runs : InCausalOrder(history[r])

(* The terminal message that a task's record names, and that aggregation   *)
(* and dependent tasks cite, is the last the history has about the task.   *)
LastAbout(messages, t, id) ==
  \E i \in DOMAIN messages :
    /\ messages[i].id = id /\ id[2] = t
    /\ \A j \in i + 1 .. Len(messages) : messages[j].id[2] # t

TerminalIsLast ==
  \A r \in Runs : \A t \in TasksOf(r) :
    stage[t] = "returned" => LastAbout(history[r], t, terminal[t])

(* The mutable traces of concurrent tasks, and the records they end in,    *)
(* make one sound account of the run: nothing is caused by what comes      *)
(* later or never, and whoever cites a task cites what it said last.       *)
TraceSound == CausesPrecede /\ TerminalIsLast

(* Message i is caused by the last one before it about the same task, or   *)
(* by the message called first if there is none.                           *)
Continues(messages, i, first) ==
  LET m           == messages[i]
      another(j)  == messages[j].id[2] # m.id[2]
  IN  \/ m.cause = first /\ \A j \in 1 .. i - 1 : another(j)
      \/ \E j \in 1 .. i - 1 : /\ m.cause = messages[j].id /\ ~another(j)
                              /\ \A k \in j + 1 .. i - 1 : another(k)

(* What a run says about a task is one unbroken chain, whichever paths the *)
(* task's call, its review and their failures take: each message names as  *)
(* its cause the one said about the task just before, and the first of a   *)
(* task that was started names the plan.                                   *)
CauseIsLatest ==
  \A r \in Runs : \A i \in DOMAIN history[r] :
    LET id == history[r][i].id
    IN  id[2] \in Tasks /\ id[1] # "task.blocked" =>
          Continues(history[r], i, <<"plan.created", r>>)

(* A run that executed its plan reports success only if every task has     *)
(* succeeded within the budget, and reports every overage.                 *)
StatusTruthful ==
  \A r \in Runs : phase[r] = "done" /\ <<"plan.created", r>> \in Published(r) =>
    /\ status[r] = "succeeded" =>
         ~overage[r] /\ Having(r, {"succeeded"}) = TasksOf(r)
    /\ overage[r] => status[r] = "budget_exhausted"

(* "The run becomes budget_exhausted" when a provider reports an overage.  *)
OverageMarksRun ==
  \A r \in Runs : phase[r] = "done" /\ overage[r] => status[r] = "budget_exhausted"

(* When run() has returned, none of its tasks is left behind; when it has  *)
(* been cancelled, those left are being stopped and start nothing more.    *)
NothingLeftRunning ==
  \A r \in Runs : \A t \in TasksOf(r) :
    /\ phase[r] \in {"done", "cancelled"} => stage[t] \notin Active
    /\ phase[r] = "done" =>
         stage[t] # "stopping" /\ {r, t} \cap (reading \cup writing \cup queued) = {}

(* Every run ends and gives back the checkout: no chain of leases, queued  *)
(* writers and waves holds up a run for ever.                              *)
EveryRunEnds == \A r \in Runs : <>Over(r)
===============================================================================
