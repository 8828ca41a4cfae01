----------------------------- MODULE CLIProvider ------------------------------
(***************************************************************************)
(* providers/cli.py on a POSIX host: CLIProvider.run and                   *)
(* _terminate_process_group, for the attempts AgentRuntime.execute makes   *)
(* at one read-only call.  An attempt starts an agent CLI as the leader of *)
(* a process group; the leader's tools are descendants in that group.  The *)
(* attempt waits for the leader, with a timeout; a timeout or a            *)
(* cancellation stops the group in a task of its own, which is shielded,   *)
(* so that a further cancellation ends the attempt but not the task.       *)
(*                                                                         *)
(* SIGTERM may be handled or ignored; SIGKILL ends a process at once.  A   *)
(* definition whose name extends another's is that definition with a       *)
(* plausible mistake.                                                      *)
(***************************************************************************)
EXTENDS ProviderStream

CONSTANTS
  MaxAttempts,  \* budgets.provider_retry_limit plus one
  MaxCancels,   \* bound: cancellations of the call
  MaxEvents,    \* bound: events an attempt writes
  Leader,       \* the process that is started
  Descendants   \* the processes it may start in its group

ASSUME AttemptsAssumption == /\ MaxAttempts \in Nat \ {0}
                             /\ MaxCancels \in Nat /\ MaxEvents \in Nat
ASSUME MembersAssumption == Leader \notin Descendants

Attempts == 1 .. MaxAttempts
Members == {Leader} \cup Descendants
ExitCodes == {"zero", "transient", "other"}  \* transient: 75, 124 and 137
Running == {"scheduled", "grace", "reaping"}
Waiting == {"spawning", "communicating", "timingOut", "cancelling"}

VARIABLES
  attempt,   \* the attempt under way, or the last one
  call,      \* where that attempt's run() is
  how,       \* how each attempt ended
  alive,     \* the living members of each attempt's process group
  code,      \* the exit code of each attempt's leader
  term,      \* where each attempt's _terminate_process_group is
  refused,   \* attempts for which killpg failed with a permission error
  stdout,    \* events the current attempt has written
  usage,     \* the usage its result or its error reports
  cancels    \* cancellations so far

vars == <<attempt, call, how, alive, code, term, refused, stdout, usage, cancels>>
callVars == <<attempt, call, how, usage>>
groupVars == <<alive, code, term, refused>>

TypeOK ==
  /\ attempt \in 0 .. MaxAttempts
  /\ call \in Waiting \cup {"idle", "ended"}
  /\ how \in [Attempts -> {"none", "returned", "failed", "transient", "timedOut",
                           "cancelled", "detached", "unspawned"}]
  /\ alive \in [Attempts -> SUBSET Members]
  /\ code \in [Attempts -> ExitCodes \cup {None}]
  /\ term \in [Attempts -> Running \cup {"none", "done", "aborted"}]
  /\ refused \subseteq Attempts
  /\ stdout \in Seq(Event)
  /\ usage \in Usage
  /\ cancels \in Nat
  /\ attempt = 0 <=> call = "idle"
  /\ call \in Waiting => how[attempt] = "none"

Init ==
  /\ attempt = 0 /\ call = "idle"
  /\ how = [r \in Attempts |-> "none"]
  /\ alive = [r \in Attempts |-> {}]
  /\ code = [r \in Attempts |-> None]
  /\ term = [r \in Attempts |-> "none"]
  /\ refused = {}
  /\ stdout = <<>> /\ usage = Unknown
  /\ cancels = 0

End(outcome, reported) ==
  /\ call' = "ended"
  /\ how' = [how EXCEPT ![attempt] = outcome]
  /\ usage' = reported

-------------------------------------------------------------------------------
(* The caller makes another attempt after a transient error. *)
MayStart ==
  /\ attempt < MaxAttempts
  /\ \/ call = "idle"
     \/ call = "ended" /\ how[attempt] \in {"transient", "timedOut"}

(* create_subprocess_exec starts the process, then waits for its pipes. *)
Spawn ==
  /\ MayStart
  /\ attempt' = attempt + 1
  /\ call' = "spawning"
  /\ alive' = [alive EXCEPT ![attempt + 1] = {Leader}]
  /\ stdout' = <<>>
  /\ UNCHANGED <<how, code, term, refused, usage, cancels>>

(* The executable is missing or cannot be started. *)
SpawnFailsUncounted ==
  /\ MayStart
  /\ call' = "ended"
  /\ how' = [how EXCEPT ![attempt + 1] = "failed"]
  /\ stdout' = <<>> /\ usage' = Unknown
  /\ UNCHANGED <<attempt, groupVars, cancels>>

SpawnFails ==
  /\ MayStart
  /\ attempt' = attempt + 1
  /\ call' = "ended"
  /\ how' = [how EXCEPT ![attempt + 1] = "failed"]
  /\ stdout' = <<>> /\ usage' = Unknown
  /\ UNCHANGED <<groupVars, cancels>>

Spawned ==
  /\ call = "spawning"
  /\ call' = "communicating"
  /\ UNCHANGED <<attempt, how, groupVars, stdout, usage, cancels>>

(* communicate returns once the leader is over: run reads the exit code    *)
(* and the stream.  The error for an agent that exits with zero and says   *)
(* nothing carries no usage, every other one what the stream reports.      *)
Finish ==
  /\ call = "communicating"
  /\ Leader \notin alive[attempt]
  /\ LET parsed == Parse(stdout)
         silent == code[attempt] = "zero" /\ parsed.verdict = "silent"
     IN End(CASE code[attempt] = "zero" /\ parsed.verdict = "output" -> "returned"
              [] code[attempt] = "transient"                         -> "transient"
              [] OTHER                                               -> "failed",
            IF silent THEN Unknown ELSE parsed.usage)
  /\ UNCHANGED <<attempt, groupVars, stdout, cancels>>

(* wait_for gives up, also when the leader has ended meanwhile, and        *)
(* forgets what was read.  The termination is a task of its own.           *)
TimeoutUnawaited ==
  /\ call = "communicating"
  /\ End("timedOut", Unknown)
  /\ stdout' = <<>>
  /\ term' = [term EXCEPT ![attempt] = "scheduled"]
  /\ UNCHANGED <<attempt, alive, code, refused, cancels>>

Timeout ==
  /\ call = "communicating"
  /\ call' = "timingOut"
  /\ stdout' = <<>>
  /\ term' = [term EXCEPT ![attempt] = "scheduled"]
  /\ UNCHANGED <<attempt, how, alive, code, refused, usage, cancels>>

(* Cancelled while it starts: asyncio kills the leader and waits for it. *)
CancelSpawning ==
  /\ call = "spawning"
  /\ End("unspawned", Unknown)
  /\ alive' = [alive EXCEPT ![attempt] = @ \ {Leader}]
  /\ UNCHANGED <<attempt, code, term, refused, stdout>>

CancelCommunicating ==
  /\ call = "communicating"
  /\ call' = "cancelling"
  /\ stdout' = <<>>
  /\ term' = [term EXCEPT ![attempt] = "scheduled"]
  /\ UNCHANGED <<attempt, how, alive, code, refused, usage>>

(* Cancelled while it waits for the shielded termination, which goes on:   *)
(* for the second time, or for the first one after a timeout.              *)
CancelStoppingUnshielded ==
  /\ call \in {"timingOut", "cancelling"}
  /\ End("detached", Unknown)
  /\ term' = [term EXCEPT ![attempt] = "done"]
  /\ UNCHANGED <<attempt, alive, code, refused, stdout>>

CancelStopping ==
  /\ call \in {"timingOut", "cancelling"}
  /\ End("detached", Unknown)
  /\ UNCHANGED <<attempt, groupVars, stdout>>

Cancel ==
  /\ cancels < MaxCancels
  /\ cancels' = cancels + 1
  /\ CancelSpawning \/ CancelCommunicating \/ CancelStopping

(* The shielded termination is over: run raises. *)
Stopped ==
  /\ call \in {"timingOut", "cancelling"}
  /\ term[attempt] \notin Running
  /\ End(IF call = "timingOut" THEN "timedOut" ELSE "cancelled", Unknown)
  /\ UNCHANGED <<attempt, groupVars, stdout, cancels>>

-------------------------------------------------------------------------------
(* _terminate_process_group.  A signal reaches the whole group, or is      *)
(* refused; the code falls back to the leader alone.                       *)
CodeAfter(r, survivors) ==
  [code EXCEPT ![r] = IF Leader \in alive[r] \ survivors THEN "other" ELSE @]

Signal(r, survivors, next) ==
  /\ alive' = [alive EXCEPT ![r] = survivors]
  /\ code' = CodeAfter(r, survivors)
  /\ term' = [term EXCEPT ![r] = next]
  /\ UNCHANGED refused

Refuse(r, survivors, next) ==
  /\ alive[r] # {}
  /\ alive' = [alive EXCEPT ![r] = survivors]
  /\ code' = CodeAfter(r, survivors)
  /\ term' = [term EXCEPT ![r] = next]
  /\ refused' = refused \cup {r}

(* SIGTERM; without any process in the group the task is done. *)
Terminate(r) ==
  /\ term[r] = "scheduled"
  /\ \/ alive[r] = {} /\ Signal(r, {}, "done")
     \/ alive[r] # {} /\ \E survivors \in SUBSET alive[r] : Signal(r, survivors, "grace")
     \/ Refuse(r, alive[r] \ {Leader}, "grace")
  /\ UNCHANGED <<callVars, stdout, cancels>>

(* The leader ended within two seconds: SIGKILL for whoever is left, whose *)
(* failure is ignored.                                                     *)
GraceEndsUnchecked(r) ==
  /\ term[r] = "grace"
  /\ Leader \notin alive[r]
  /\ Signal(r, alive[r], "done")
  /\ UNCHANGED <<callVars, stdout, cancels>>

GraceEnds(r) ==
  /\ term[r] = "grace"
  /\ Leader \notin alive[r]
  /\ Signal(r, {}, "done") \/ Refuse(r, alive[r], "done")
  /\ UNCHANGED <<callVars, stdout, cancels>>

(* Two seconds passed first: SIGKILL, and wait for the leader. *)
GraceExpiresUnforced(r) ==
  /\ term[r] = "grace"
  /\ \/ alive[r] = {} /\ Signal(r, {}, "done")
     \/ alive[r] # {} /\ Signal(r, alive[r], "reaping")
  /\ UNCHANGED <<callVars, stdout, cancels>>

GraceExpires(r) ==
  /\ term[r] = "grace"
  /\ \/ alive[r] = {} /\ Signal(r, {}, "done")
     \/ alive[r] # {} /\ Signal(r, {}, "reaping")
     \/ Refuse(r, alive[r] \ {Leader}, "reaping")
  /\ UNCHANGED <<callVars, stdout, cancels>>

Reap(r) ==
  /\ term[r] = "reaping"
  /\ Leader \notin alive[r]
  /\ Signal(r, alive[r], "done")
  /\ UNCHANGED <<callVars, stdout, cancels>>

(* asyncio.run cancels the tasks that are left once its main task is over, *)
(* shielded ones too.                                                      *)
StopLoop(r) ==
  /\ call = "ended"
  /\ term[r] \in Running
  /\ term' = [term EXCEPT ![r] = "aborted"]
  /\ UNCHANGED <<callVars, alive, code, refused, stdout, cancels>>

-------------------------------------------------------------------------------
(* The processes: a living member starts another, or ends by itself, and   *)
(* writes events while somebody reads.                                     *)
Fork(r, d) ==
  /\ alive[r] # {}
  /\ d \notin alive[r]
  /\ alive' = [alive EXCEPT ![r] = @ \cup {d}]
  /\ UNCHANGED <<callVars, code, term, refused, stdout, cancels>>

Exit(r, m) ==
  /\ m \in alive[r]
  /\ alive' = [alive EXCEPT ![r] = @ \ {m}]
  /\ \/ m = Leader /\ \E c \in ExitCodes : code' = [code EXCEPT ![r] = c]
     \/ m # Leader /\ UNCHANGED code
  /\ UNCHANGED <<callVars, term, refused, stdout, cancels>>

Write(e) ==
  /\ call = "communicating"
  /\ Leader \in alive[attempt]
  /\ Len(stdout) < MaxEvents
  /\ stdout' = Append(stdout, e)
  /\ UNCHANGED <<callVars, groupVars, cancels>>

-------------------------------------------------------------------------------
Stop(r) == Terminate(r) \/ GraceEnds(r) \/ GraceExpires(r) \/ Reap(r)
Process(r) == (\E d \in Descendants : Fork(r, d)) \/ (\E m \in Members : Exit(r, m))

Next ==
  \/ Spawn \/ SpawnFails \/ Spawned \/ Finish \/ Timeout \/ Cancel \/ Stopped
  \/ \E r \in Attempts : Stop(r) \/ StopLoop(r) \/ Process(r)
  \/ \E e \in Event : Write(e)

(* The event loop runs what is ready: pipes connect, timers fire, tasks    *)
(* resume.  Nothing is assumed of the processes.                           *)
Fairness ==
  /\ WF_vars(Spawned) /\ WF_vars(Timeout) /\ WF_vars(Stopped)
  /\ \A r \in Attempts : WF_vars(Terminate(r)) /\ WF_vars(GraceExpires(r))
                         /\ WF_vars(Reap(r))

Spec == Init /\ [][Next]_vars /\ Fairness

-------------------------------------------------------------------------------
(* No two leaders run at once: an attempt that is repeated (a timeout, or  *)
(* an exit code taken as transient) left no agent CLI behind, whatever the *)
(* process does with SIGTERM and whenever the timeout fires.               *)
OneLeader ==
  \A r, s \in Attempts : Leader \in alive[r] /\ Leader \in alive[s] => r = s

(* How an attempt that did not run to its end leaves its group.  Timed     *)
(* out, or cancelled while the agent ran: nobody is left, unless the       *)
(* operating system refused the signal.  Detached, by a cancellation that  *)
(* found the termination under way: the same, or the termination still     *)
(* runs or was cut off by the closing loop, and no attempt follows.        *)
(* Cancelled while starting: the leader is dead, its tools may live on.    *)
NoSurvivor ==
  \A r \in Attempts :
    /\ how[r] \in {"timedOut", "cancelled"} => alive[r] = {} \/ r \in refused
    /\ how[r] = "detached" =>
         \/ alive[r] = {} \/ r \in refused
         \/ term[r] \in Running \cup {"aborted"} /\ call = "ended" /\ r = attempt
    /\ how[r] = "unspawned" => Leader \notin alive[r]

(* "Timeout and cancellation terminate and reap the provider process group *)
(* so tool descendants do not continue editing in the background":         *)
(* README.md:385-386, read as a promise that they are gone in the end,     *)
(* where no signal is refused and the loop stays open.                     *)
StoppedCallsAreReaped ==
  \A r \in Attempts :
    how[r] \in {"timedOut", "cancelled", "detached", "unspawned"} ~>
      alive[r] = {} \/ r \in refused \/ term[r] = "aborted"

(* The usage an attempt reports that came to its end, with an error too.   *)
(* An invalid figure, and an agent that exits with zero but whose last     *)
(* message is blank or missing, make it fail with no usage.  Otherwise     *)
(* each step with an id counts once, at its first report however often it  *)
(* was repeated, and so does everything without an id, except the cost of  *)
(* a step_finish event without a token object, which is lost.              *)
UsageCountedOnce ==
  LET answered == \E i \in OfKind(stdout, "text") :
                    \A j \in OfKind(stdout, "blank") : j < i
      silent == code[attempt] = "zero" /\ OfKind(stdout, "failure") = {} /\ ~answered
  IN call = "ended" /\ how[attempt] \in {"returned", "transient", "failed"} =>
       IF silent \/ OfKind(stdout, "invalid") # {}
       THEN usage = Unknown /\ how[attempt] # "returned"
       ELSE usage = UsageOf(stdout, Units(stdout) \ OfKind(stdout, "uncounted"))

(* A termination that has begun empties the group, unless a signal is      *)
(* refused or the loop closes: the shield keeps it running when its caller *)
(* is cancelled again.                                                     *)
StoppedGroupsDie ==
  \A r \in Attempts :
    term[r] = "scheduled" ~> alive[r] = {} \/ r \in refused \/ term[r] = "aborted"

(* Every attempt ends, whatever its process does. *)
EveryAttemptEnds == \A r \in Attempts : attempt = r ~> how[r] # "none"
===============================================================================
