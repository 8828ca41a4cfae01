----------------------------- MODULE AgentRuntime -----------------------------
(***************************************************************************)
(* core/runtime.py: AgentRuntime.generate and .execute for the concurrent  *)
(* calls of a run: admission by the ledger, the provider semaphore, the    *)
(* provider's outcome, retries, typed-contract retries and cancellation.   *)
(*                                                                         *)
(* A step goes from one suspension of the code to the next, except that    *)
(* the code goes from a retry straight to the next admission, where the    *)
(* model has a place ("admit") at which other calls may step in between.   *)
(*                                                                         *)
(* As in WorkspaceGate, a definition whose name extends another's is that  *)
(* definition with a plausible mistake.                                    *)
(***************************************************************************)
EXTENDS UsageLedger, SequencesExt

CONSTANTS
  Writers,            \* calls whose profile has workspace_write access
  AgentOf,            \* the agent that makes each call
  Price,              \* the configured price of each call's provider, or None
  ValidationRetries,  \* the profile's validation_retries
  Estimates,          \* token estimates a prompt may have
  Usages,             \* usage reports a provider may return
  MaxConcurrency,     \* budgets.max_concurrency
  RetryLimit          \* budgets.provider_retry_limit

ASSUME RuntimeAssumption ==
  /\ Writers \subseteq Calls
  /\ AgentOf \in [Calls -> Agents]
  /\ Price \in [Calls -> MaybeNat]
  /\ ValidationRetries \in [Calls -> Nat]
  /\ Estimates \subseteq Nat \ {0}
  /\ Usages \subseteq Usage
  /\ MaxConcurrency \in Nat \ {0}
  /\ RetryLimit \in Nat

VARIABLES
  pc,          \* where each call is
  attempt,     \* execute's attempt, from 1
  validation,  \* generate's validation_attempt, from 0
  permits,     \* the semaphore's value
  pending,     \* the semaphore's pending futures, oldest first
  cancelled,   \* suspended calls that will resume with CancelledError
  invocations  \* how many InvocationRecords the call has appended

runtimeVars == <<pc, attempt, validation, permits, pending, cancelled,
                 invocations>>
vars == <<ledgerVars, runtimeVars>>

(* "queued" and "granted" wait for the semaphore: the permit of a granted  *)
(* call is already taken, its resumption is scheduled.                     *)
Suspended == {"queued", "granted", "running"}
Ended == {"ok", "contract", "failed", "budget", "cancelled"}

TypeOK == /\ LedgerTypeOK
          /\ pc \in [Calls -> {"admit"} \cup Suspended \cup Ended]
          /\ attempt \in [Calls -> Nat]
          /\ validation \in [Calls -> Nat]
          /\ permits \in Nat
          /\ pending \in Seq(Calls)
          /\ cancelled \subseteq Calls
          /\ invocations \in [Calls -> Nat]

Init == /\ LedgerInit
        /\ pc = [c \in Calls |-> "admit"]
        /\ attempt = [c \in Calls |-> 1]
        /\ validation = [c \in Calls |-> 0]
        /\ permits = MaxConcurrency
        /\ pending = <<>>
        /\ cancelled = {}
        /\ invocations = [c \in Calls |-> 0]

-------------------------------------------------------------------------------
(* asyncio.Semaphore.  acquire suspends when no permit is free or when     *)
(* anyone is ahead; a released permit is handed to the oldest waiter.      *)
Locked == permits = 0 \/ pending # <<>> \/ \E d \in Calls : pc[d] = "granted"

AcquireUnchecked(c) ==
  /\ permits' = permits - 1
  /\ pc' = [pc EXCEPT ![c] = "running"]
  /\ UNCHANGED pending

Acquire(c) ==
  \/ /\ ~Locked
     /\ permits' = permits - 1
     /\ pc' = [pc EXCEPT ![c] = "running"]
     /\ UNCHANGED pending
  \/ /\ Locked
     /\ pending' = Append(pending, c)
     /\ pc' = [pc EXCEPT ![c] = "queued"]
     /\ UNCHANGED permits

(* Call c goes to a place with so many permits free, and the semaphore     *)
(* wakes at most that many of its oldest waiters: when a waiter resumes,   *)
(* one or none in earlier versions of CPython, all it can in later ones.   *)
GoAndWake(c, place, free, most) ==
  LET woken == Min({free, most, Len(pending)})
  IN  /\ permits' = free - woken
      /\ pending' = SubSeq(pending, woken + 1, Len(pending))
      /\ pc' = [d \in Calls |->
                  IF d = c THEN place
                  ELSE IF \E i \in 1 .. woken : pending[i] = d THEN "granted"
                  ELSE pc[d]]

ReleaseForgotten(c, place) == GoAndWake(c, place, permits, 0)
ReleaseUnannounced(c, place) == GoAndWake(c, place, permits + 1, 0)
Release(c, place) == GoAndWake(c, place, permits + 1, 1)

-------------------------------------------------------------------------------
RetryLimitForAll(c) == RetryLimit
RetryLimitOf(c) == IF c \in Writers THEN 0 ELSE RetryLimit

Recorded(c) == invocations' = [invocations EXCEPT ![c] = @ + 1]

(* One turn of execute's loop begins: the ledger admits the estimate and   *)
(* the call goes for a permit, or BudgetExceeded ends it.                  *)
Admit(c) ==
  /\ pc[c] = "admit"
  /\ \E tokens \in Estimates :
       LET usage    == [tokens |-> tokens, cost |-> None]
           estimate == [tokens |-> tokens, cost |-> EstimateCost(usage, Price[c])]
       IN  \/ Reserve(c, estimate) /\ Acquire(c)
           \/ /\ ~Admissible(estimate)
              /\ pc' = [pc EXCEPT ![c] = "budget"]
              /\ UNCHANGED <<ledgerVars, permits, pending>>
  /\ UNCHANGED <<attempt, validation, cancelled, invocations>>

(* The woken call resumes, takes the semaphore and starts the provider. *)
Start(c) ==
  /\ pc[c] = "granted" /\ c \notin cancelled
  /\ \E most \in {1, Len(pending)} : GoAndWake(c, "running", permits, most)
  /\ UNCHANGED <<ledgerVars, attempt, validation, cancelled, invocations>>

(* The provider returns a result.  generate validates it and either        *)
(* returns, asks again, or gives up after the last validation attempt.     *)
Succeed(c) ==
  /\ pc[c] = "running" /\ c \notin cancelled
  /\ \E usage \in Usages : Settle(c, AgentOf[c], usage, Price[c])
  /\ Recorded(c)
  /\ \/ Release(c, "ok") /\ UNCHANGED <<attempt, validation>>
     \/ /\ validation[c] < ValidationRetries[c]
        /\ validation' = [validation EXCEPT ![c] = @ + 1]
        /\ attempt' = [attempt EXCEPT ![c] = 1]
        /\ Release(c, "admit")
     \/ /\ validation[c] >= ValidationRetries[c]
        /\ Release(c, "contract")
        /\ UNCHANGED <<attempt, validation>>
  /\ UNCHANGED cancelled

(* The provider raises: ProviderError with whatever usage it carries, or   *)
(* an unexpected error, which is never transient and reports nothing.      *)
Fail(c) ==
  /\ pc[c] = "running" /\ c \notin cancelled
  /\ Recorded(c)
  /\ \E usage \in Usages \cup {Unknown}, transient \in BOOLEAN :
       /\ Settle(c, AgentOf[c], usage, Price[c])
       /\ \/ /\ Overage'
             /\ Release(c, "budget")
             /\ UNCHANGED attempt
          \/ /\ ~Overage'
             /\ ~transient \/ attempt[c] > RetryLimitOf(c)
             /\ Release(c, "failed")
             /\ UNCHANGED attempt
          \/ /\ ~Overage'
             /\ transient /\ attempt[c] <= RetryLimitOf(c)
             /\ attempt' = [attempt EXCEPT ![c] = @ + 1]
             /\ Release(c, "admit")
  /\ UNCHANGED <<validation, cancelled>>

(* The task that makes the call is cancelled while it is suspended.  Its   *)
(* pending future is cancelled with it; a permit already granted is not.   *)
Cancel(c) ==
  /\ pc[c] \in Suspended /\ c \notin cancelled
  /\ cancelled' = cancelled \cup {c}
  /\ \/ \E i \in DOMAIN pending : /\ pending[i] = c
                                  /\ pending' = RemoveAt(pending, i)
     \/ pc[c] # "queued" /\ UNCHANGED pending
  /\ UNCHANGED <<ledgerVars, pc, attempt, validation, permits, invocations>>

(* CancelledError reaches execute, out of the semaphore or of the          *)
(* provider, which has stopped its process: the call is charged its whole  *)
(* reservation and recorded, whether the provider had started or not.      *)
Withdraw(c) ==
  \/ /\ pc[c] = "queued"
     /\ \E most \in {0, Len(pending)} : GoAndWake(c, "cancelled", permits, most)
  \/ /\ pc[c] = "granted"
     /\ \E most \in {1, Len(pending)} : GoAndWake(c, "cancelled", permits + 1, most)
  \/ pc[c] = "running" /\ Release(c, "cancelled")

AbortUnsettled(c) ==
  /\ pc[c] \in Suspended /\ c \in cancelled
  /\ \/ pc[c] = "running" /\ Settle(c, AgentOf[c], Unknown, Price[c])
     \/ pc[c] # "running" /\ UNCHANGED ledgerVars
  /\ Recorded(c)
  /\ Withdraw(c)
  /\ cancelled' = cancelled \ {c}
  /\ UNCHANGED <<attempt, validation>>

Abort(c) ==
  /\ pc[c] \in Suspended /\ c \in cancelled
  /\ Settle(c, AgentOf[c], Unknown, Price[c])
  /\ Recorded(c)
  /\ Withdraw(c)
  /\ cancelled' = cancelled \ {c}
  /\ UNCHANGED <<attempt, validation>>

Proceed(c) == Admit(c) \/ Start(c) \/ Succeed(c) \/ Fail(c) \/ Abort(c)

Terminated == (\A c \in Calls : pc[c] \in Ended) /\ UNCHANGED vars

Next == (\E c \in Calls : Proceed(c) \/ Cancel(c)) \/ Terminated

(* Every provider run is bounded by its timeout, and the event loop runs   *)
(* what is scheduled.                                                      *)
Fairness == \A c \in Calls : WF_vars(Proceed(c))

Spec == Init /\ [][Next]_vars /\ Fairness

-------------------------------------------------------------------------------
At(places) == {c \in Calls : pc[c] \in places}

(* A reservation is outstanding exactly while its call waits for a permit  *)
(* or its provider runs: every way out of a call settles it.               *)
NoReservationLeaked == Outstanding = At(Suspended)

(* No permit is lost or invented by a hand-over that meets a cancellation, *)
(* and a permit left free while calls queue has someone on the way to it.  *)
PermitsConserved ==
  /\ permits + Cardinality(At({"granted", "running"})) = MaxConcurrency
  /\ permits > 0 /\ pending # <<>> => At({"granted"}) # {}

(* A provider is invoked for one call no more often than the retry limits  *)
(* allow together.  For an agent that may edit the workspace a provider's  *)
(* failure is never repeated: each validation attempt invokes it once, and *)
(* a worker, whose validation_retries must be 0 then, runs once.           *)
RetriesBounded ==
  \A c \in Calls :
    /\ invocations[c] <= (RetryLimit + 1) * (ValidationRetries[c] + 1)
    /\ c \in Writers => invocations[c] <= ValidationRetries[c] + 1

(* The ledger "prevents new admissions once a limit is reached": after an  *)
(* overage is on the books no call obtains a reservation.                  *)
NoAdmissionAfterOverage == [][Overage => Outstanding' \subseteq Outstanding]_vars

(* "The default concurrency is one so an uncalibrated provider trips the   *)
(* admission gate before additional tasks start": with one permit, no      *)
(* provider starts once an overage is on the books.                        *)
NoStartAfterOverage ==
  [][Overage => At({"running"})' \subseteq At({"running"})]_vars

(* Every call ends, with a result, an error or a cancellation: no retry    *)
(* loop, lost permit or queue keeps it for ever.                           *)
EveryCallEnds == \A c \in Calls : <>(pc[c] \in Ended)
===============================================================================
