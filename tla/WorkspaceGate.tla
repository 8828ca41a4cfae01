---------------------------- MODULE WorkspaceGate -----------------------------
(***************************************************************************)
(* core/concurrency.py: WorkspaceGate, the asyncio readers/writer gate     *)
(* that every task of every run on one checkout passes through.            *)
(*                                                                         *)
(* The gate's condition is never held across a suspension, so each stretch *)
(* of code between two suspensions is one action.  A suspended task is in  *)
(* waiters (its future is pending) or, once notified or cancelled, in      *)
(* ready, the event loop's queue of resumptions.  Between the moment it is *)
(* notified and the moment it runs, anything may happen to the gate.       *)
(*                                                                         *)
(* Of two definitions of one thing (NotifyAll and NotifyOne, ReleaseReader *)
(* and ReleaseReaderUnannounced), the second is a plausible mistake in the *)
(* code: it stands for the first when a property's strength is measured.   *)
(***************************************************************************)
EXTENDS Naturals, FiniteSets, SequencesExt

CONSTANTS
  Readers,        \* tasks with read_only access
  Writers,        \* tasks with workspace_write access
  Recurring,      \* slots taken by a new task once the previous one is over
  NotifyOnCancel  \* asyncio.Condition.wait passes a notification on when it is
                  \* cancelled: TRUE from CPython 3.13 on, FALSE in 3.10 to 3.12

Tasks == Readers \cup Writers

ASSUME TasksAssumption == /\ IsFiniteSet(Readers)
                          /\ IsFiniteSet(Writers)
                          /\ Readers \cap Writers = {}
ASSUME RecurringAssumption == Recurring \subseteq Tasks
ASSUME NotifyAssumption == NotifyOnCancel \in BOOLEAN

VARIABLES
  readers,         \* self._readers
  writer,          \* self._writer
  waitingWriters,  \* self._waiting_writers
  waiters,         \* the pending futures of self._condition, oldest first
  ready,           \* resumptions the event loop has scheduled, oldest first
  cancelled,       \* suspended tasks that will resume with CancelledError
  pc               \* where each task is: "out", "waiting", "holding" or "gone"

vars == <<readers, writer, waitingWriters, waiters, ready, cancelled, pc>>

TypeOK == /\ readers \in Nat
          /\ writer \in BOOLEAN
          /\ waitingWriters \in Nat
          /\ waiters \in Seq(Tasks)
          /\ ready \in Seq(Tasks)
          /\ cancelled \subseteq Tasks
          /\ pc \in [Tasks -> {"out", "waiting", "holding", "gone"}]

Init == /\ readers = 0
        /\ writer = FALSE
        /\ waitingWriters = 0
        /\ waiters = <<>>
        /\ ready = <<>>
        /\ cancelled = {}
        /\ pc = [t \in Tasks |-> "out"]

-------------------------------------------------------------------------------
(* The predicates the two wait_for calls evaluate. *)
WriterMayEnterBesideReaders == ~writer
ReaderMayEnterBeforeWriters == ~writer
WriterMayEnter == ~writer /\ readers = 0
ReaderMayEnter == ~writer /\ waitingWriters = 0

(* A task that has left the gate is over; a recurring slot is free again. *)
Left(t) == [pc EXCEPT ![t] = IF t \in Recurring THEN "out" ELSE "gone"]

NotifyOne == \/ /\ waiters # <<>>
                /\ ready' = Append(ready, Head(waiters))
                /\ waiters' = Tail(waiters)
             \/ waiters = <<>> /\ UNCHANGED <<waiters, ready>>

(* Condition.notify_all: every pending future is resolved, in order. *)
NotifyAll == /\ ready' = ready \o waiters
             /\ waiters' = <<>>

EnterWriterStillCounted(w) ==
  /\ pc[w] = "out"
  /\ waitingWriters' = waitingWriters + 1
  /\ \/ /\ WriterMayEnter
        /\ writer' = TRUE
        /\ pc' = [pc EXCEPT ![w] = "holding"]
        /\ UNCHANGED waiters
     \/ /\ ~WriterMayEnter
        /\ waiters' = Append(waiters, w)
        /\ pc' = [pc EXCEPT ![w] = "waiting"]
        /\ UNCHANGED writer
  /\ UNCHANGED <<readers, ready, cancelled>>

(* A writer calls hold: it counts itself waiting, evaluates the predicate  *)
(* and either enters at once, taking itself off the count, or suspends.    *)
EnterWriter(w) ==
  /\ pc[w] = "out"
  /\ \/ /\ WriterMayEnter
        /\ writer' = TRUE
        /\ pc' = [pc EXCEPT ![w] = "holding"]
        /\ UNCHANGED <<waitingWriters, waiters>>
     \/ /\ ~WriterMayEnter
        /\ waitingWriters' = waitingWriters + 1
        /\ waiters' = Append(waiters, w)
        /\ pc' = [pc EXCEPT ![w] = "waiting"]
        /\ UNCHANGED writer
  /\ UNCHANGED <<readers, ready, cancelled>>

EnterReader(r) ==
  /\ pc[r] = "out"
  /\ \/ /\ ReaderMayEnter
        /\ readers' = readers + 1
        /\ pc' = [pc EXCEPT ![r] = "holding"]
        /\ UNCHANGED waiters
     \/ /\ ~ReaderMayEnter
        /\ waiters' = Append(waiters, r)
        /\ pc' = [pc EXCEPT ![r] = "waiting"]
        /\ UNCHANGED readers
  /\ UNCHANGED <<writer, waitingWriters, ready, cancelled>>

(* The event loop resumes the oldest scheduled task.  It evaluates its     *)
(* predicate again and, when it still does not hold, waits again behind    *)
(* everyone else.                                                          *)
ResumeWriter(w) ==
  /\ ready # <<>> /\ w = Head(ready)
  /\ pc[w] = "waiting" /\ w \notin cancelled
  /\ ready' = Tail(ready)
  /\ \/ /\ WriterMayEnter
        /\ waitingWriters' = waitingWriters - 1
        /\ writer' = TRUE
        /\ pc' = [pc EXCEPT ![w] = "holding"]
        /\ UNCHANGED waiters
     \/ /\ ~WriterMayEnter
        /\ waiters' = Append(waiters, w)
        /\ UNCHANGED <<waitingWriters, writer, pc>>
  /\ UNCHANGED <<readers, cancelled>>

ResumeReaderUnchecked(r) ==
  /\ ready # <<>> /\ r = Head(ready)
  /\ pc[r] = "waiting" /\ r \notin cancelled
  /\ ready' = Tail(ready)
  /\ readers' = readers + 1
  /\ pc' = [pc EXCEPT ![r] = "holding"]
  /\ UNCHANGED <<waiters, writer, waitingWriters, cancelled>>

ResumeReader(r) ==
  /\ ready # <<>> /\ r = Head(ready)
  /\ pc[r] = "waiting" /\ r \notin cancelled
  /\ ready' = Tail(ready)
  /\ \/ /\ ReaderMayEnter
        /\ readers' = readers + 1
        /\ pc' = [pc EXCEPT ![r] = "holding"]
        /\ UNCHANGED waiters
     \/ /\ ~ReaderMayEnter
        /\ waiters' = Append(waiters, r)
        /\ UNCHANGED <<readers, pc>>
  /\ UNCHANGED <<writer, waitingWriters, cancelled>>

(* A suspended task is cancelled.  A pending future is cancelled with it   *)
(* and the task scheduled; a task already notified keeps its place.        *)
Cancel(t) ==
  /\ pc[t] = "waiting" /\ t \notin cancelled
  /\ cancelled' = cancelled \cup {t}
  /\ \/ \E i \in DOMAIN waiters : /\ waiters[i] = t
                                  /\ waiters' = RemoveAt(waiters, i)
                                  /\ ready' = Append(ready, t)
     \/ /\ \E i \in DOMAIN ready : ready[i] = t
        /\ UNCHANGED <<waiters, ready>>
  /\ UNCHANGED <<readers, writer, waitingWriters, pc>>

ResumeCancelledUncounted(t) ==
  /\ ready # <<>> /\ t = Head(ready)
  /\ pc[t] = "waiting" /\ t \in cancelled
  /\ waitingWriters' = waitingWriters - 1
  /\ ready' = Tail(ready)
  /\ cancelled' = cancelled \ {t}
  /\ pc' = Left(t)
  /\ UNCHANGED <<readers, writer, waiters>>

(* A cancelled task resumes with CancelledError: a writer takes itself off *)
(* the count and nobody is told, unless Condition.wait itself notifies     *)
(* one more waiter.                                                        *)
ResumeCancelled(t) ==
  /\ ready # <<>> /\ t = Head(ready)
  /\ pc[t] = "waiting" /\ t \in cancelled
  /\ waitingWriters' = IF t \in Writers THEN waitingWriters - 1
                                        ELSE waitingWriters
  /\ \/ /\ NotifyOnCancel /\ waiters # <<>>
        /\ ready' = Append(Tail(ready), Head(waiters))
        /\ waiters' = Tail(waiters)
     \/ /\ ~NotifyOnCancel \/ waiters = <<>>
        /\ ready' = Tail(ready)
        /\ UNCHANGED waiters
  /\ cancelled' = cancelled \ {t}
  /\ pc' = Left(t)
  /\ UNCHANGED <<readers, writer>>

(* The body of hold is over, normally, by an exception or by cancellation. *)
ReleaseWriter(w) ==
  /\ pc[w] = "holding"
  /\ writer' = FALSE
  /\ NotifyAll
  /\ pc' = Left(w)
  /\ UNCHANGED <<readers, waitingWriters, cancelled>>

ReleaseReaderUnannounced(r) ==
  /\ pc[r] = "holding"
  /\ readers' = readers - 1
  /\ pc' = Left(r)
  /\ UNCHANGED <<writer, waitingWriters, waiters, ready, cancelled>>

ReleaseReader(r) ==
  /\ pc[r] = "holding"
  /\ readers' = readers - 1
  /\ \/ readers' = 0 /\ NotifyAll
     \/ readers' # 0 /\ UNCHANGED <<waiters, ready>>
  /\ pc' = Left(r)
  /\ UNCHANGED <<writer, waitingWriters, cancelled>>

Release(t) == \/ t \in Writers /\ ReleaseWriter(t)
              \/ t \in Readers /\ ReleaseReader(t)

Resume == \/ \E w \in Writers : ResumeWriter(w)
          \/ \E r \in Readers : ResumeReader(r)
          \/ \E t \in Tasks : ResumeCancelled(t)

Next == \/ \E w \in Writers : EnterWriter(w) \/ ReleaseWriter(w)
        \/ \E r \in Readers : EnterReader(r) \/ ReleaseReader(r)
        \/ \E t \in Tasks : Cancel(t)
        \/ Resume

(* The event loop keeps running what is scheduled, and every lease ends:   *)
(* what runs under it is bounded by provider timeouts and retry limits.    *)
Fairness == /\ WF_vars(Resume)
            /\ \A t \in Tasks : WF_vars(Release(t))

Spec == Init /\ [][Next]_vars /\ Fairness

-------------------------------------------------------------------------------
Holding(S) == {t \in S : pc[t] = "holding"}
Waiting(S) == {t \in S : pc[t] = "waiting"}

(* The three counters say who holds and who waits, through every           *)
(* interleaving of entries, resumptions, cancellations and releases: the   *)
(* finally of hold runs once for each increment.                           *)
CountersMatch == /\ readers = Cardinality(Holding(Readers))
                 /\ (IF writer THEN 1 ELSE 0) = Cardinality(Holding(Writers))
                 /\ waitingWriters = Cardinality(Waiting(Writers))

(* A workspace writer shares the checkout with nobody: no other writer and *)
(* no reader is inside hold with it.                                       *)
Exclusion == \A t, u \in Holding(Tasks) : t \in Writers => u = t

(* A suspended task is there because someone holds the gate or because the *)
(* event loop is about to resume somebody: a free gate with waiting tasks  *)
(* and nothing scheduled is a lost wakeup, and those tasks hang.           *)
NoLostWakeup ==
  (Waiting(Tasks) # {} /\ Holding(Tasks) = {}) => ready # <<>>

(* A writer that waits gets the checkout or is cancelled, however many     *)
(* readers keep coming.                                                    *)
WriterNotStarved ==
  \A w \in Writers : pc[w] = "waiting" ~> pc[w] # "waiting"

(* Every suspended task is eventually admitted or cancelled.               *)
EveryoneServed ==
  \A t \in Tasks : pc[t] = "waiting" ~> pc[t] # "waiting"

(* The gate implements the abstract lease.                                 *)
Lease == INSTANCE WorkspaceLease WITH reading <- Holding(Readers),
                                      writing <- Holding(Writers),
                                      pending <- Waiting(Writers)
LeaseSpec == Lease!Spec
===============================================================================
