------------------------- MODULE WorkspaceGateProofs --------------------------
(***************************************************************************)
(* Proofs about WorkspaceGate for any finite sets of readers and writers.  *)
(* The counters first: they are the number of tasks in each place, which   *)
(* makes the type invariant inductive and gives mutual exclusion.  Then    *)
(* the queues, which give the absence of lost wakeups, and the refinement. *)
(***************************************************************************)
EXTENDS WorkspaceGate, FiniteSetTheorems, SequenceTheorems, TLAPS

USE TasksAssumption, RecurringAssumption, NotifyAssumption

(* The counters with the types they range over: the inductive invariant.   *)
CountInv == TypeOK /\ CountersMatch

-------------------------------------------------------------------------------
(* Subsets of the tasks picked by their place are finite, and adding or    *)
(* removing one task changes their size by one.                            *)
LEMMA HoldingFinite ==
  ASSUME NEW S, IsFiniteSet(S)
  PROVE  /\ IsFiniteSet(Holding(S)) /\ Cardinality(Holding(S)) \in Nat
         /\ IsFiniteSet(Waiting(S)) /\ Cardinality(Waiting(S)) \in Nat
         /\ Cardinality(Holding(S)) = 0 <=> Holding(S) = {}
         /\ Cardinality(Waiting(S)) = 0 <=> Waiting(S) = {}
<1>1. IsFiniteSet(Holding(S)) /\ IsFiniteSet(Waiting(S))
  BY FS_Subset DEF Holding, Waiting
<1> QED
  BY <1>1, FS_CardinalityType, FS_EmptySet

LEMMA AddOne ==
  ASSUME NEW S, NEW x, IsFiniteSet(S), x \notin S
  PROVE  Cardinality(S \cup {x}) = Cardinality(S) + 1
BY FS_AddElement

LEMMA RemoveOne ==
  ASSUME NEW S, NEW x, IsFiniteSet(S), x \in S
  PROVE  Cardinality(S \ {x}) = Cardinality(S) - 1
BY FS_RemoveElement

(* What the counters say about the sets they count. *)
LEMMA CountersMeaning ==
  ASSUME CountInv
  PROVE  /\ readers = 0 <=> Holding(Readers) = {}
         /\ ~writer <=> Holding(Writers) = {}
         /\ waitingWriters = 0 <=> Waiting(Writers) = {}
<1>1. IsFiniteSet(Readers) /\ IsFiniteSet(Writers)
  OBVIOUS
<1>2. writer \in BOOLEAN
  BY DEF CountInv, TypeOK
<1> QED
  BY <1>1, <1>2, HoldingFinite DEF CountInv, CountersMatch

-------------------------------------------------------------------------------
(* Where a task's step puts it, as set equations: the next three lemmas    *)
(* turn a change of pc into a change of the counted sets.                  *)
LEMMA MoveToHolding ==
  ASSUME NEW t \in Tasks, TypeOK, pc[t] # "holding",
         pc' = [pc EXCEPT ![t] = "holding"]
  PROVE  \A S \in SUBSET Tasks :
           /\ Holding(S)' = IF t \in S THEN Holding(S) \cup {t} ELSE Holding(S)
           /\ Waiting(S)' = Waiting(S) \ {t}
           /\ t \notin Holding(S)
BY DEF TypeOK, Holding, Waiting

LEMMA MoveToWaiting ==
  ASSUME NEW t \in Tasks, TypeOK, pc[t] = "out",
         pc' = [pc EXCEPT ![t] = "waiting"]
  PROVE  \A S \in SUBSET Tasks :
           /\ Waiting(S)' = IF t \in S THEN Waiting(S) \cup {t} ELSE Waiting(S)
           /\ Holding(S)' = Holding(S)
           /\ t \notin Waiting(S)
BY DEF TypeOK, Holding, Waiting

LEMMA MoveOut ==
  ASSUME NEW t \in Tasks, TypeOK, pc' = Left(t)
  PROVE  \A S \in SUBSET Tasks : /\ Waiting(S)' = Waiting(S) \ {t}
                                 /\ Holding(S)' = Holding(S) \ {t}
BY DEF TypeOK, Holding, Waiting, Left

-------------------------------------------------------------------------------
(* The sequences keep their elements among the tasks. *)
LEMMA RemoveAtIsSeq ==
  ASSUME NEW S, NEW s \in Seq(S), NEW i \in DOMAIN s
  PROVE  RemoveAt(s, i) \in Seq(S)
BY DEF RemoveAt

(* Each action keeps the type invariant once the counters it decrements    *)
(* are known to be positive.                                               *)
LEMMA TypeStep ==
  ASSUME CountInv, [Next]_vars
  PROVE  TypeOK'
<1> DEFINE Places == {"out", "waiting", "holding", "gone"}
<1>1. TypeOK
  BY DEF CountInv
<1>2. \A t \in Tasks : /\ [pc EXCEPT ![t] = "holding"] \in [Tasks -> Places]
                      /\ [pc EXCEPT ![t] = "waiting"] \in [Tasks -> Places]
                      /\ Left(t) \in [Tasks -> Places]
  BY <1>1 DEF Left, TypeOK
<1>3. \A t \in Tasks : /\ Append(waiters, t) \in Seq(Tasks)
                      /\ Append(ready, t) \in Seq(Tasks)
  BY <1>1, AppendProperties DEF TypeOK
<1>4. ready # <<>> => Tail(ready) \in Seq(Tasks)
  BY <1>1, HeadTailProperties DEF TypeOK
<1>5. waiters # <<>> => Tail(waiters) \in Seq(Tasks) /\ Head(waiters) \in Tasks
  BY <1>1, HeadTailProperties DEF TypeOK
<1>6. NotifyAll => waiters' \in Seq(Tasks) /\ ready' \in Seq(Tasks)
  BY <1>1, ConcatProperties, EmptySeq DEF NotifyAll, TypeOK
<1>7. CASE UNCHANGED vars
  BY <1>1, <1>7 DEF vars, TypeOK
<1>8. ASSUME NEW w \in Writers, EnterWriter(w) PROVE TypeOK'
  <2>1. w \in Tasks
    BY DEF Tasks
  <2>2. waiters' \in Seq(Tasks) /\ pc' \in [Tasks -> Places]
    BY <1>1, <1>2, <1>3, <1>8, <2>1 DEF EnterWriter, TypeOK
  <2> QED
    <3>1. writer' \in BOOLEAN
      BY <1>1, <1>8, Zenon DEF EnterWriter, TypeOK
    <3>2. waitingWriters' \in Nat
      BY <1>1, <1>8 DEF EnterWriter, TypeOK
    <3> QED
      BY <1>1, <1>8, <2>2, <3>1, <3>2 DEF EnterWriter, TypeOK
<1>9. ASSUME NEW r \in Readers, EnterReader(r) PROVE TypeOK'
  <2>1. r \in Tasks
    BY DEF Tasks
  <2>2. waiters' \in Seq(Tasks) /\ pc' \in [Tasks -> Places]
    BY <1>1, <1>2, <1>3, <1>9, <2>1 DEF EnterReader, TypeOK
  <2> QED
    BY <1>1, <1>9, <2>2 DEF EnterReader, TypeOK
<1>10. ASSUME NEW w \in Writers, ReleaseWriter(w) PROVE TypeOK'
  BY <1>1, <1>2, <1>6, <1>10 DEF ReleaseWriter, TypeOK, Tasks
<1>11. ASSUME NEW r \in Readers, ReleaseReader(r) PROVE TypeOK'
  <2>1. readers - 1 \in Nat
    BY <1>1, <1>11, CountersMeaning DEF ReleaseReader, Holding, TypeOK
  <2> QED
    BY <1>1, <1>2, <1>6, <1>11, <2>1 DEF ReleaseReader, TypeOK, Tasks
<1>12. ASSUME NEW t \in Tasks, Cancel(t) PROVE TypeOK'
  <2>1. waiters' \in Seq(Tasks) /\ ready' \in Seq(Tasks)
    <3>1. CASE UNCHANGED <<waiters, ready>>
      BY <1>1, <3>1 DEF TypeOK
    <3>2. ASSUME NEW i \in DOMAIN waiters, waiters' = RemoveAt(waiters, i),
                 ready' = Append(ready, t)
          PROVE  waiters' \in Seq(Tasks) /\ ready' \in Seq(Tasks)
      <4>1. RemoveAt(waiters, i) \in Seq(Tasks)
        BY <1>1, RemoveAtIsSeq DEF TypeOK
      <4> QED
        BY <1>3, <3>2, <4>1
    <3> QED
      BY <1>12, <3>1, <3>2 DEF Cancel
  <2> QED
    BY <1>1, <1>12, <2>1 DEF Cancel, TypeOK
<1>13. ASSUME NEW w \in Writers, ResumeWriter(w) PROVE TypeOK'
  <2>1. waitingWriters - 1 \in Nat
    BY <1>1, <1>13, CountersMeaning DEF ResumeWriter, Waiting, TypeOK
  <2> QED
    BY <1>1, <1>2, <1>3, <1>4, <1>13, <2>1 DEF ResumeWriter, TypeOK, Tasks
<1>14. ASSUME NEW r \in Readers, ResumeReader(r) PROVE TypeOK'
  <2>1. r \in Tasks
    BY DEF Tasks
  <2>2. /\ waiters' \in Seq(Tasks) /\ ready' \in Seq(Tasks)
        /\ pc' \in [Tasks -> Places]
    BY <1>1, <1>2, <1>3, <1>4, <1>14, <2>1 DEF ResumeReader, TypeOK
  <2> QED
    BY <1>1, <1>14, <2>2 DEF ResumeReader, TypeOK
<1>15. ASSUME NEW t \in Tasks, ResumeCancelled(t) PROVE TypeOK'
  <2>1. t \in Writers => waitingWriters - 1 \in Nat
    BY <1>1, <1>15, CountersMeaning DEF ResumeCancelled, Waiting, TypeOK
  <2>2. waiters' \in Seq(Tasks) /\ ready' \in Seq(Tasks)
    <3>1. \A h \in Tasks :
            ready # <<>> => Append(Tail(ready), h) \in Seq(Tasks)
      BY <1>4, AppendProperties
    <3> QED
      BY <1>1, <1>4, <1>5, <1>15, <3>1 DEF ResumeCancelled, TypeOK
  <2> QED
    BY <1>1, <1>2, <1>15, <2>1, <2>2 DEF ResumeCancelled, TypeOK
<1> QED
  BY <1>7, <1>8, <1>9, <1>10, <1>11, <1>12, <1>13, <1>14, <1>15
     DEF Next, Resume

(* Each action changes a counter exactly when it changes the set the       *)
(* counter counts.                                                         *)
LEMMA CountStep ==
  ASSUME CountInv, [Next]_vars
  PROVE  CountersMatch'
<1>1. Readers \in SUBSET Tasks /\ Writers \in SUBSET Tasks
  BY DEF Tasks
<1>2. /\ IsFiniteSet(Holding(Readers)) /\ Cardinality(Holding(Readers)) \in Nat
      /\ IsFiniteSet(Holding(Writers)) /\ Cardinality(Holding(Writers)) \in Nat
      /\ IsFiniteSet(Waiting(Writers)) /\ Cardinality(Waiting(Writers)) \in Nat
  BY HoldingFinite
<1>3. /\ TypeOK
      /\ readers = Cardinality(Holding(Readers))
      /\ (IF writer THEN 1 ELSE 0) = Cardinality(Holding(Writers))
      /\ waitingWriters = Cardinality(Waiting(Writers))
  BY DEF CountInv, CountersMatch
<1>4. \A t \in Readers : /\ t \notin Writers
                        /\ t \notin Holding(Writers) /\ t \notin Waiting(Writers)
  BY DEF Holding, Waiting
<1>5. \A t \in Writers : t \notin Readers /\ t \notin Holding(Readers)
  BY DEF Holding
<1>6. writer \in BOOLEAN /\ readers \in Nat /\ waitingWriters \in Nat
  BY <1>3 DEF TypeOK
<1>7. CASE UNCHANGED vars
  BY <1>3, <1>7 DEF vars, Holding, Waiting, CountersMatch
<1>8. ASSUME NEW w \in Writers, writer' = TRUE, ~writer, UNCHANGED readers,
             pc[w] \in {"out", "waiting"}, pc' = [pc EXCEPT ![w] = "holding"],
             waitingWriters' = IF pc[w] = "waiting" THEN waitingWriters - 1
                                                   ELSE waitingWriters
      PROVE  CountersMatch'
  <2>1. /\ Holding(Readers)' = Holding(Readers)
        /\ Holding(Writers)' = Holding(Writers) \cup {w}
        /\ Waiting(Writers)' = Waiting(Writers) \ {w}
        /\ w \notin Holding(Writers)
    BY <1>1, <1>3, <1>5, <1>8, MoveToHolding
  <2>2. w \in Waiting(Writers) <=> pc[w] = "waiting"
    BY DEF Waiting
  <2>3. Cardinality(Holding(Writers)') = 1
    BY <1>2, <1>3, <1>8, <2>1, AddOne
  <2>4. Cardinality(Waiting(Writers)') = waitingWriters'
    <3>1. CASE pc[w] = "waiting"
      BY <1>2, <1>3, <1>8, <2>1, <2>2, <3>1, RemoveOne
    <3>2. CASE pc[w] = "out"
      <4>1. Waiting(Writers)' = Waiting(Writers)
        BY <2>1, <2>2, <3>2
      <4> QED
        BY <1>3, <1>8, <3>2, <4>1
    <3> QED
      BY <1>8, <3>1, <3>2
  <2> QED
    BY <1>3, <1>8, <2>1, <2>3, <2>4 DEF CountersMatch
<1>9. ASSUME NEW r \in Readers, readers' = readers + 1,
             UNCHANGED <<writer, waitingWriters>>,
             pc[r] # "holding", pc' = [pc EXCEPT ![r] = "holding"]
      PROVE  CountersMatch'
  <2>1. /\ Holding(Readers)' = Holding(Readers) \cup {r}
        /\ Holding(Writers)' = Holding(Writers)
        /\ Waiting(Writers)' = Waiting(Writers) \ {r}
        /\ r \notin Holding(Readers)
    BY <1>1, <1>3, <1>4, <1>9, MoveToHolding
  <2>2. Waiting(Writers)' = Waiting(Writers)
    BY <1>4, <2>1
  <2>3. Cardinality(Holding(Readers)') = readers + 1
    BY <1>2, <1>3, <2>1, AddOne
  <2> QED
    BY <1>3, <1>9, <2>1, <2>2, <2>3 DEF CountersMatch
<1>10. ASSUME NEW t \in Tasks, pc[t] = "out", pc' = [pc EXCEPT ![t] = "waiting"],
              UNCHANGED <<readers, writer>>,
              waitingWriters' = IF t \in Writers THEN waitingWriters + 1
                                                 ELSE waitingWriters
       PROVE  CountersMatch'
  <2>1. /\ Holding(Readers)' = Holding(Readers)
        /\ Holding(Writers)' = Holding(Writers)
        /\ Waiting(Writers)' = IF t \in Writers THEN Waiting(Writers) \cup {t}
                                                 ELSE Waiting(Writers)
        /\ t \notin Waiting(Writers)
    BY <1>1, <1>3, <1>10, MoveToWaiting
  <2>2. Cardinality(Waiting(Writers)') = waitingWriters'
    <3>1. CASE t \in Writers
      BY <1>2, <1>3, <1>10, <2>1, <3>1, AddOne
    <3>2. CASE t \notin Writers
      BY <1>3, <1>10, <2>1, <3>2
    <3> QED
      BY <3>1, <3>2
  <2> QED
    BY <1>3, <1>10, <2>1, <2>2 DEF CountersMatch
<1>11. ASSUME NEW w \in Writers, ReleaseWriter(w) PROVE CountersMatch'
  <2>1. /\ Holding(Readers)' = Holding(Readers)
        /\ Holding(Writers)' = Holding(Writers) \ {w}
        /\ Waiting(Writers)' = Waiting(Writers)
        /\ w \in Holding(Writers)
    <3>1. w \in Tasks /\ pc' = Left(w) /\ pc[w] = "holding"
      BY <1>1, <1>11 DEF ReleaseWriter
    <3>2. w \in Holding(Writers) /\ w \notin Waiting(Writers)
      BY <3>1 DEF Holding, Waiting
    <3> QED
      BY <1>1, <1>3, <1>5, <3>1, <3>2, MoveOut
  <2>2. Cardinality(Holding(Writers)) # 0
    BY <1>2, <2>1, FS_EmptySet
  <2>3. Cardinality(Holding(Writers)) = 1
    BY <1>3, <1>6, <2>2
  <2>4. Cardinality(Holding(Writers)') = 0
    BY <1>2, <2>1, <2>3, RemoveOne
  <2> QED
    BY <1>3, <1>11, <2>1, <2>4 DEF ReleaseWriter, CountersMatch
<1>12. ASSUME NEW r \in Readers, ReleaseReader(r) PROVE CountersMatch'
  <2>1. /\ Holding(Readers)' = Holding(Readers) \ {r}
        /\ Holding(Writers)' = Holding(Writers)
        /\ Waiting(Writers)' = Waiting(Writers)
        /\ r \in Holding(Readers)
    <3>1. r \in Tasks /\ pc' = Left(r) /\ pc[r] = "holding"
      BY <1>1, <1>12 DEF ReleaseReader
    <3>2. r \in Holding(Readers)
      BY <3>1 DEF Holding
    <3> QED
      BY <1>1, <1>3, <1>4, <3>1, <3>2, MoveOut
  <2>2. Cardinality(Holding(Readers)') = readers - 1
    BY <1>2, <1>3, <2>1, RemoveOne
  <2> QED
    BY <1>3, <1>12, <2>1, <2>2 DEF ReleaseReader, CountersMatch
<1>13. ASSUME NEW t \in Tasks, ResumeCancelled(t) PROVE CountersMatch'
  <2>1. /\ pc' = Left(t) /\ pc[t] = "waiting" /\ UNCHANGED <<readers, writer>>
        /\ waitingWriters' = IF t \in Writers THEN waitingWriters - 1
                                               ELSE waitingWriters
    BY <1>13 DEF ResumeCancelled
  <2>2. /\ t \notin Holding(Readers) /\ t \notin Holding(Writers)
        /\ t \in Waiting(Writers) <=> t \in Writers
    BY <2>1 DEF Holding, Waiting
  <2>3. /\ Holding(Readers)' = Holding(Readers)
        /\ Holding(Writers)' = Holding(Writers)
        /\ Waiting(Writers)' = Waiting(Writers) \ {t}
    BY <1>1, <1>3, <2>1, <2>2, MoveOut
  <2>4. Cardinality(Waiting(Writers)') = waitingWriters'
    <3>1. CASE t \in Writers
      BY <1>2, <1>3, <2>1, <2>2, <2>3, <3>1, RemoveOne
    <3>2. CASE t \notin Writers
      <4>1. Waiting(Writers)' = Waiting(Writers)
        BY <2>2, <2>3, <3>2
      <4> QED
        BY <1>3, <2>1, <3>2, <4>1
    <3> QED
      BY <3>1, <3>2
  <2> QED
    BY <1>3, <2>1, <2>3, <2>4 DEF CountersMatch
<1>14. ASSUME UNCHANGED <<readers, writer, waitingWriters, pc>>
       PROVE  CountersMatch'
  BY <1>3, <1>14 DEF Holding, Waiting, CountersMatch
<1>15. ASSUME NEW w \in Writers, EnterWriter(w) PROVE CountersMatch'
  <2>1. w \in Tasks
    BY DEF Tasks
  <2> QED
    BY <1>6, <1>8, <1>10, <1>15, <2>1 DEF EnterWriter, WriterMayEnter
<1>16. ASSUME NEW r \in Readers, EnterReader(r) PROVE CountersMatch'
  <2>1. r \in Tasks /\ r \notin Writers
    BY <1>4 DEF Tasks
  <2> QED
    BY <1>9, <1>10, <1>16, <2>1 DEF EnterReader
<1>17. ASSUME NEW w \in Writers, ResumeWriter(w) PROVE CountersMatch'
  BY <1>6, <1>8, <1>14, <1>17 DEF ResumeWriter, WriterMayEnter
<1>18. ASSUME NEW r \in Readers, ResumeReader(r) PROVE CountersMatch'
  BY <1>9, <1>14, <1>18 DEF ResumeReader
<1>19. ASSUME NEW t \in Tasks, Cancel(t) PROVE CountersMatch'
  BY <1>14, <1>19 DEF Cancel
<1> QED
  BY <1>7, <1>11, <1>12, <1>13, <1>15, <1>16, <1>17, <1>18, <1>19
     DEF Next, Resume

(* The counters start at zero with every task outside. *)
LEMMA CountInit ==
  ASSUME Init
  PROVE  CountInv
<1>1. TypeOK
  BY EmptySeq DEF Init, TypeOK
<1>2. Holding(Readers) = {} /\ Holding(Writers) = {} /\ Waiting(Writers) = {}
  BY DEF Init, Holding, Waiting, Tasks
<1> QED
  BY <1>1, <1>2, FS_EmptySet DEF Init, CountInv, CountersMatch

(* CountInv, the conjunction of the gate's types and its counters, is      *)
(* inductive.                                                              *)
LEMMA CountInvariant == Spec => []CountInv
<1>1. CountInv /\ [Next]_vars => CountInv'
  BY TypeStep, CountStep DEF CountInv
<1> QED
  BY <1>1, CountInit, PTL DEF Spec

(* The gate's state keeps its types, and self._readers, self._writer and   *)
(* self._waiting_writers always equal the number of tasks they stand for.  *)
THEOREM CountersCorrect == Spec => [](TypeOK /\ CountersMatch)
<1>1. CountInv => TypeOK /\ CountersMatch
  BY DEF CountInv
<1> QED
  BY <1>1, CountInvariant, PTL

(* The gate's variables, its counters, queue and wakeups among them, keep  *)
(* their types, for any number of readers and writers.                     *)
THEOREM GateTypes == Spec => []TypeOK
BY CountersCorrect, PTL

-------------------------------------------------------------------------------
(* The counters of a write lease and of read leases are never both up.     *)
WriterAlone == writer => readers = 0

LEMMA WriterAloneStep ==
  ASSUME CountInv, WriterAlone, [Next]_vars
  PROVE  WriterAlone'
<1>1. \A r \in Readers : ReleaseReader(r) => readers # 0
  BY CountersMeaning DEF ReleaseReader, Holding
<1> QED
  BY <1>1 DEF WriterAlone, Next, Resume, vars, EnterWriter, EnterReader,
     ReleaseWriter, ReleaseReader, Cancel, ResumeWriter, ResumeReader,
     ResumeCancelled, WriterMayEnter, ReaderMayEnter

(* At most one task holds a write lease, and nobody holds a read lease     *)
(* beside it, for any number of readers and writers.                       *)
THEOREM MutualExclusion == Spec => []Exclusion
<1>1. Init => WriterAlone
  BY DEF Init, WriterAlone
<1>2. CountInv /\ WriterAlone => Exclusion
  <2> SUFFICES ASSUME CountInv, WriterAlone,
                      NEW t \in Holding(Writers), NEW u \in Holding(Tasks)
               PROVE  u = t
    BY DEF Exclusion, Holding
  <2>1. writer /\ readers = 0
    BY CountersMeaning DEF WriterAlone
  <2>2. u \in Holding(Writers)
    BY <2>1, CountersMeaning DEF Holding, Tasks
  <2>3. Cardinality(Holding(Writers)) = 1
    BY <2>1 DEF CountInv, CountersMatch
  <2> QED
    BY <2>2, <2>3, HoldingFinite, FS_Singleton
<1> QED
  BY <1>1, <1>2, WriterAloneStep, CountInvariant, PTL DEF Spec

-------------------------------------------------------------------------------
(* The gate implements WorkspaceLease: every step of the code, a wakeup    *)
(* that fails its predicate included, is a step of the lease or none.      *)
LEMMA LeaseStep ==
  ASSUME CountInv, [Next]_vars
  PROVE  [Lease!Next]_(Lease!vars)
<1> USE DEF Lease!Next, Lease!vars
<1>1. Readers \in SUBSET Tasks /\ Writers \in SUBSET Tasks
  BY DEF Tasks
<1>2. TypeOK
  BY DEF CountInv
<1>3. \A t \in Readers : t \notin Writers
  OBVIOUS
<1>4. ASSUME UNCHANGED pc PROVE [Lease!Next]_(Lease!vars)
  BY <1>4 DEF Holding, Waiting
<1>5. ASSUME NEW w \in Writers, WriterMayEnter, pc[w] \in {"out", "waiting"},
             pc' = [pc EXCEPT ![w] = "holding"]
      PROVE  Lease!Next
  <2>1. Holding(Writers) = {} /\ Holding(Readers) = {}
    BY <1>5, CountersMeaning DEF WriterMayEnter
  <2>2. /\ Holding(Writers)' = Holding(Writers) \cup {w}
        /\ Holding(Readers)' = Holding(Readers)
        /\ Waiting(Writers)' = Waiting(Writers) \ {w}
    BY <1>1, <1>2, <1>3, <1>5, MoveToHolding
  <2>3. Lease!Write(w)
    BY <2>1, <2>2 DEF Lease!Write
  <2> QED
    BY <2>3
<1>6. ASSUME NEW r \in Readers, ReaderMayEnter, pc[r] \in {"out", "waiting"},
             pc' = [pc EXCEPT ![r] = "holding"]
      PROVE  Lease!Next
  <2>1. Holding(Writers) = {} /\ Waiting(Writers) = {}
    BY <1>6, CountersMeaning DEF ReaderMayEnter
  <2>2. /\ Holding(Readers)' = Holding(Readers) \cup {r}
        /\ Holding(Writers)' = Holding(Writers)
        /\ Waiting(Writers)' = Waiting(Writers) \ {r}
        /\ r \notin Holding(Readers)
    BY <1>1, <1>2, <1>3, <1>6, MoveToHolding
  <2>3. Lease!Read(r)
    BY <2>1, <2>2 DEF Lease!Read
  <2> QED
    BY <2>3
<1>7. ASSUME NEW w \in Writers, ~WriterMayEnter, pc[w] = "out",
             pc' = [pc EXCEPT ![w] = "waiting"]
      PROVE  Lease!Next
  <2>1. Holding(Writers) \cup Holding(Readers) # {}
    BY <1>2, <1>7, CountersMeaning DEF WriterMayEnter
  <2>2. /\ Waiting(Writers)' = Waiting(Writers) \cup {w}
        /\ Holding(Writers)' = Holding(Writers)
        /\ Holding(Readers)' = Holding(Readers)
        /\ w \notin Waiting(Writers)
    BY <1>1, <1>2, <1>7, MoveToWaiting
  <2>3. w \notin Holding(Writers)
    BY <1>7 DEF Holding
  <2>4. Lease!Queue(w)
    BY <2>1, <2>2, <2>3 DEF Lease!Queue
  <2> QED
    BY <2>4
<1>8. ASSUME NEW r \in Readers, pc[r] = "out", pc' = [pc EXCEPT ![r] = "waiting"]
      PROVE  UNCHANGED Lease!vars
  BY <1>1, <1>2, <1>3, <1>8, MoveToWaiting
<1>9. ASSUME NEW t \in Tasks, pc[t] = "holding", pc' = Left(t)
      PROVE  Lease!Next
  <2>1. /\ Holding(Readers)' = Holding(Readers) \ {t}
        /\ Holding(Writers)' = Holding(Writers) \ {t}
        /\ Waiting(Writers)' = Waiting(Writers) \ {t}
    BY <1>1, <1>2, <1>9, MoveOut
  <2>2. t \in Holding(Readers) \cup Holding(Writers) /\ t \notin Waiting(Writers)
    BY <1>9 DEF Holding, Waiting, Tasks
  <2>3. Lease!Leave(t)
    BY <2>1, <2>2 DEF Lease!Leave
  <2> QED
    BY <2>3 DEF Tasks
<1>10. ASSUME NEW t \in Tasks, pc[t] = "waiting", pc' = Left(t)
       PROVE  [Lease!Next]_(Lease!vars)
  <2>1. /\ Holding(Readers)' = Holding(Readers)
        /\ Holding(Writers)' = Holding(Writers)
        /\ Waiting(Writers)' = Waiting(Writers) \ {t}
    <3>1. t \notin Holding(Readers) /\ t \notin Holding(Writers)
      BY <1>10 DEF Holding
    <3> QED
      BY <1>1, <1>2, <1>10, <3>1, MoveOut
  <2>2. CASE t \in Writers
    <3>1. Lease!Withdraw(t)
      BY <1>10, <2>1, <2>2 DEF Lease!Withdraw, Waiting
    <3> QED
      BY <2>2, <3>1
  <2>3. CASE t \notin Writers
    BY <2>1, <2>3 DEF Waiting
  <2> QED
    BY <2>2, <2>3
<1>11. ASSUME NEW w \in Writers, EnterWriter(w) PROVE [Lease!Next]_(Lease!vars)
  BY <1>5, <1>7, <1>11 DEF EnterWriter
<1>12. ASSUME NEW r \in Readers, EnterReader(r) PROVE [Lease!Next]_(Lease!vars)
  BY <1>6, <1>8, <1>12 DEF EnterReader
<1>13. ASSUME NEW w \in Writers, ReleaseWriter(w) PROVE [Lease!Next]_(Lease!vars)
  BY <1>1, <1>9, <1>13 DEF ReleaseWriter
<1>14. ASSUME NEW r \in Readers, ReleaseReader(r) PROVE [Lease!Next]_(Lease!vars)
  BY <1>1, <1>9, <1>14 DEF ReleaseReader
<1>15. ASSUME NEW t \in Tasks, Cancel(t) PROVE [Lease!Next]_(Lease!vars)
  BY <1>4, <1>15 DEF Cancel
<1>16. ASSUME NEW w \in Writers, ResumeWriter(w) PROVE [Lease!Next]_(Lease!vars)
  BY <1>4, <1>5, <1>16 DEF ResumeWriter
<1>17. ASSUME NEW r \in Readers, ResumeReader(r) PROVE [Lease!Next]_(Lease!vars)
  BY <1>4, <1>6, <1>17 DEF ResumeReader
<1>18. ASSUME NEW t \in Tasks, ResumeCancelled(t)
       PROVE  [Lease!Next]_(Lease!vars)
  BY <1>10, <1>18 DEF ResumeCancelled
<1>19. CASE UNCHANGED vars
  BY <1>4, <1>19 DEF vars
<1> QED
  BY <1>11, <1>12, <1>13, <1>14, <1>15, <1>16, <1>17, <1>18, <1>19
     DEF Next, Resume

(* WorkspaceGate implements WorkspaceLease for any readers and writers: in *)
(* particular no reader ever overtakes a waiting writer.                   *)
THEOREM GateImplementsLease == Spec => LeaseSpec
<1>1. Init => Lease!Init
  BY DEF Init, Lease!Init, Holding, Waiting, Tasks
<1> QED
  BY <1>1, LeaseStep, CountInvariant, PTL DEF Spec, LeaseSpec, Lease!Spec

-------------------------------------------------------------------------------
(* Why a wakeup is never lost when a cancelled waiter passes its           *)
(* notification on.  Every waiting task is queued.  While nobody holds the *)
(* gate, only readers are left among the pending futures (a writer would   *)
(* have entered), and some resumption is scheduled for them.               *)
InSeq(t, s) == \E i \in DOMAIN s : s[i] = t

AllQueued == \A t \in Waiting(Tasks) : InSeq(t, waiters) \/ InSeq(t, ready)

FreeGate == Holding(Tasks) = {} =>
              /\ \A t : InSeq(t, waiters) => t \in Readers
              /\ (\E t : InSeq(t, waiters)) => (\E t : InSeq(t, ready))

QueueInv == AllQueued /\ FreeGate

LEMMA InAppend ==
  ASSUME NEW S, NEW s \in Seq(S), NEW e \in S
  PROVE  \A t : InSeq(t, Append(s, e)) <=> InSeq(t, s) \/ t = e
<1>1. /\ Append(s, e) \in Seq(S)
      /\ Len(Append(s, e)) = Len(s) + 1 /\ Len(s) \in Nat
      /\ \A i \in 1 .. Len(s) : Append(s, e)[i] = s[i]
      /\ Append(s, e)[Len(s) + 1] = e
  BY AppendProperties, LenProperties
<1>2. DOMAIN s = 1 .. Len(s) /\ DOMAIN Append(s, e) = 1 .. Len(s) + 1
  BY <1>1, LenProperties
<1> QED
  BY <1>1, <1>2 DEF InSeq

LEMMA InTail ==
  ASSUME NEW S, NEW s \in Seq(S), s # <<>>
  PROVE  \A t : InSeq(t, s) <=> InSeq(t, Tail(s)) \/ t = Head(s)
<1>1. /\ Tail(s) \in Seq(S) /\ Len(Tail(s)) = Len(s) - 1
      /\ Len(s) \in Nat \ {0}
      /\ \A i \in 1 .. Len(Tail(s)) : Tail(s)[i] = s[i+1]
      /\ Head(s) = s[1]
  BY HeadTailProperties, EmptySeq
<1>2. DOMAIN s = 1 .. Len(s) /\ DOMAIN Tail(s) = 1 .. Len(s) - 1
  BY <1>1, LenProperties
<1>3. \A t : InSeq(t, Tail(s)) \/ t = Head(s) => InSeq(t, s)
  BY <1>1, <1>2 DEF InSeq
<1>4. ASSUME NEW t, NEW i \in DOMAIN s, s[i] = t, t # Head(s)
      PROVE  InSeq(t, Tail(s))
  <2>1. i - 1 \in DOMAIN Tail(s) /\ Tail(s)[i - 1] = t
    BY <1>1, <1>2, <1>4
  <2> QED
    BY <2>1 DEF InSeq
<1> QED
  BY <1>3, <1>4 DEF InSeq

LEMMA InConcat ==
  ASSUME NEW S, NEW s \in Seq(S), NEW u \in Seq(S)
  PROVE  \A t : InSeq(t, s \o u) <=> InSeq(t, s) \/ InSeq(t, u)
<1>1. /\ s \o u \in Seq(S) /\ Len(s \o u) = Len(s) + Len(u)
      /\ Len(s) \in Nat /\ Len(u) \in Nat
      /\ \A i \in 1 .. Len(s) + Len(u) :
           (s \o u)[i] = IF i <= Len(s) THEN s[i] ELSE u[i - Len(s)]
  BY ConcatProperties, LenProperties
<1>2. /\ DOMAIN s = 1 .. Len(s) /\ DOMAIN u = 1 .. Len(u)
      /\ DOMAIN (s \o u) = 1 .. Len(s) + Len(u)
  BY <1>1, LenProperties
<1>3. ASSUME NEW i \in DOMAIN s PROVE InSeq(s[i], s \o u)
  BY <1>1, <1>2 DEF InSeq
<1>4. ASSUME NEW i \in DOMAIN u PROVE InSeq(u[i], s \o u)
  <2>1. i + Len(s) \in DOMAIN (s \o u) /\ (s \o u)[i + Len(s)] = u[i]
    BY <1>1, <1>2
  <2> QED
    BY <2>1 DEF InSeq
<1>5. ASSUME NEW i \in DOMAIN (s \o u)
      PROVE  InSeq((s \o u)[i], s) \/ InSeq((s \o u)[i], u)
  <2>1. CASE i <= Len(s)
    BY <1>1, <1>2, <2>1 DEF InSeq
  <2>2. CASE i > Len(s)
    <3>1. i - Len(s) \in DOMAIN u /\ (s \o u)[i] = u[i - Len(s)]
      BY <1>1, <1>2, <2>2
    <3> QED
      BY <3>1 DEF InSeq
  <2> QED
    BY <1>1, <1>2, <2>1, <2>2
<1> QED
  BY <1>3, <1>4, <1>5 DEF InSeq

LEMMA InRemoveAt ==
  ASSUME NEW S, NEW s \in Seq(S), NEW k \in DOMAIN s
  PROVE  /\ \A t : InSeq(t, s) => InSeq(t, RemoveAt(s, k)) \/ t = s[k]
         /\ \A t : InSeq(t, RemoveAt(s, k)) => InSeq(t, s)
<1> DEFINE a == SubSeq(s, 1, k - 1)
           b == SubSeq(s, k + 1, Len(s))
<1>1. Len(s) \in Nat /\ DOMAIN s = 1 .. Len(s)
      /\ \A i \in 1 .. Len(s) : s[i] \in S
  BY LenProperties, ElementOfSeq
<1>2. /\ a \in Seq(S) /\ Len(a) = k - 1
      /\ \A i \in 1 .. k - 1 : a[i] = s[i]
  <2>1. \A i \in 1 .. k - 1 : s[i] \in S
    BY <1>1
  <2>2. k \in Int /\ k - 1 \in Int
    BY <1>1
  <2>3. /\ a \in Seq(S)
        /\ Len(a) = IF 1 <= k - 1 THEN k - 1 - 1 + 1 ELSE 0
        /\ \A i \in 1 .. k - 1 - 1 + 1 : a[i] = s[1 + i - 1]
    BY <2>1, <2>2, SubSeqProperties
  <2> QED
    BY <1>1, <2>2, <2>3
<1>3. /\ b \in Seq(S) /\ Len(b) = Len(s) - k
      /\ \A i \in 1 .. Len(s) - k : b[i] = s[k + i]
  BY <1>1, SubSeqProperties
<1>4. RemoveAt(s, k) = a \o b
  BY DEF RemoveAt
<1>5. DOMAIN a = 1 .. k - 1 /\ DOMAIN b = 1 .. Len(s) - k
  BY <1>2, <1>3, LenProperties
<1> HIDE DEF a, b
<1>6. \A t : InSeq(t, a) \/ InSeq(t, b) => InSeq(t, s)
  <2>1. \A i \in DOMAIN a : i \in DOMAIN s
    BY <1>1, <1>5
  <2>2. \A i \in DOMAIN b : k + i \in DOMAIN s
    BY <1>1, <1>5
  <2> QED
    BY <1>2, <1>3, <1>5, <2>1, <2>2 DEF InSeq
<1>7. ASSUME NEW i \in DOMAIN s, i # k PROVE InSeq(s[i], a) \/ InSeq(s[i], b)
  <2>1. CASE i < k
    BY <1>1, <1>2, <1>5, <2>1 DEF InSeq
  <2>2. CASE i > k
    <3>1. i - k \in 1 .. Len(s) - k /\ k + (i - k) = i
      BY <1>1, <2>2
    <3>2. i - k \in DOMAIN b /\ b[i - k] = s[i]
      BY <1>3, <1>5, <3>1
    <3> QED
      BY <3>2 DEF InSeq
  <2> QED
    BY <1>1, <1>7, <2>1, <2>2
<1>8. \A t : InSeq(t, RemoveAt(s, k)) <=> InSeq(t, a) \/ InSeq(t, b)
  BY <1>2, <1>3, <1>4, InConcat
<1>9. \A t : InSeq(t, s) => InSeq(t, a) \/ InSeq(t, b) \/ t = s[k]
  BY <1>7 DEF InSeq
<1> QED
  BY <1>6, <1>8, <1>9

LEMMA InEmpty ==
  ASSUME NEW S, NEW s \in Seq(S)
  PROVE  s # <<>> <=> \E t : InSeq(t, s)
<1>1. CASE s = <<>>
  BY <1>1 DEF InSeq
<1>2. CASE s # <<>>
  <2>1. 1 \in DOMAIN s
    BY <1>2, EmptySeq, LenProperties
  <2> QED
    BY <1>2, <2>1 DEF InSeq
<1> QED
  BY <1>1, <1>2

(* While nobody holds the gate, a reader that may not enter is kept out by *)
(* a waiting writer, whose resumption is scheduled.                        *)
LEMMA ReaderKeptOut ==
  ASSUME CountInv, QueueInv, Holding(Tasks) = {}, ~ReaderMayEnter
  PROVE  \E w \in Writers : InSeq(w, ready)
<1>1. Holding(Writers) = {}
  BY DEF Holding, Tasks
<1>2. Waiting(Writers) # {}
  BY <1>1, CountersMeaning DEF ReaderMayEnter
<1>3. PICK w \in Writers : w \in Waiting(Tasks)
  BY <1>2 DEF Waiting, Tasks
<1>4. ~InSeq(w, waiters)
  BY DEF QueueInv, FreeGate
<1> QED
  BY <1>3, <1>4 DEF QueueInv, AllQueued

(* A writer that may not enter is kept out by a holder. *)
LEMMA WriterKeptOut ==
  ASSUME CountInv, ~WriterMayEnter
  PROVE  Holding(Tasks) # {}
BY CountersMeaning DEF WriterMayEnter, Holding, Tasks, CountInv, TypeOK

LEMMA QueueStep ==
  ASSUME NotifyOnCancel, CountInv, CountInv', QueueInv, [Next]_vars
  PROVE  QueueInv'
<1>1. /\ TypeOK /\ waiters \in Seq(Tasks) /\ ready \in Seq(Tasks)
      /\ Tasks \in SUBSET Tasks
  BY DEF CountInv, TypeOK
<1>2. /\ \A t \in Waiting(Tasks) : InSeq(t, waiters) \/ InSeq(t, ready)
      /\ Holding(Tasks) = {} =>
           /\ \A t : InSeq(t, waiters) => t \in Readers
           /\ (\E t : InSeq(t, waiters)) => (\E t : InSeq(t, ready))
  BY DEF QueueInv, AllQueued, FreeGate
<1>3. /\ \A t \in Readers : t \in Tasks /\ t \notin Writers
      /\ \A t \in Writers : t \in Tasks
  BY DEF Tasks
<1>4. CASE UNCHANGED vars
  BY <1>4 DEF vars, QueueInv, AllQueued, FreeGate, Holding, Waiting, InSeq
(* a task enters the gate or resumes into it *)
<1>5. ASSUME NEW t \in Tasks, pc[t] = "out", pc' = [pc EXCEPT ![t] = "holding"],
             UNCHANGED <<waiters, ready>>
      PROVE  QueueInv'
  <2>1. /\ t \in Holding(Tasks)'
        /\ Waiting(Tasks)' = Waiting(Tasks) \ {t}
    BY <1>1, <1>5 DEF Holding, Waiting, TypeOK
  <2> QED
    BY <1>2, <1>5, <2>1 DEF QueueInv, AllQueued, FreeGate, InSeq
<1>6. ASSUME NEW t \in Tasks, pc[t] = "waiting",
             pc' = [pc EXCEPT ![t] = "holding"],
             ready # <<>>, t = Head(ready), ready' = Tail(ready), UNCHANGED waiters
      PROVE  QueueInv'
  <2>1. /\ t \in Holding(Tasks)'
        /\ Waiting(Tasks)' = Waiting(Tasks) \ {t}
    BY <1>1, <1>6 DEF Holding, Waiting, TypeOK
  <2>2. \A u : InSeq(u, ready) => InSeq(u, ready)' \/ u = t
    BY <1>1, <1>6, InTail
  <2>3. \A u : InSeq(u, waiters) => InSeq(u, waiters)'
    BY <1>6 DEF InSeq
  <2> QED
    BY <1>2, <2>1, <2>2, <2>3 DEF QueueInv, AllQueued, FreeGate
(* a task suspends *)
<1>7. ASSUME NEW w \in Writers, pc[w] = "out", ~WriterMayEnter,
             pc' = [pc EXCEPT ![w] = "waiting"],
             waiters' = Append(waiters, w), UNCHANGED ready
      PROVE  QueueInv'
  <2>1. /\ Holding(Tasks)' # {}
        /\ Waiting(Tasks)' = Waiting(Tasks) \cup {w}
    BY <1>1, <1>3, <1>7, WriterKeptOut, MoveToWaiting
  <2>2. \A u : InSeq(u, waiters)' <=> InSeq(u, waiters) \/ u = w
    BY <1>1, <1>3, <1>7, InAppend
  <2>3. \A u : InSeq(u, ready)' <=> InSeq(u, ready)
    BY <1>7 DEF InSeq
  <2> QED
    BY <1>2, <2>1, <2>2, <2>3 DEF QueueInv, AllQueued, FreeGate
<1>8. ASSUME NEW r \in Readers, pc[r] = "out", ~ReaderMayEnter,
             pc' = [pc EXCEPT ![r] = "waiting"],
             waiters' = Append(waiters, r), UNCHANGED ready
      PROVE  QueueInv'
  <2>1. /\ Holding(Tasks)' = Holding(Tasks)
        /\ Waiting(Tasks)' = Waiting(Tasks) \cup {r}
    BY <1>1, <1>3, <1>8, MoveToWaiting
  <2>2. \A u : InSeq(u, waiters)' <=> InSeq(u, waiters) \/ u = r
    BY <1>1, <1>3, <1>8, InAppend
  <2>3. \A u : InSeq(u, ready)' <=> InSeq(u, ready)
    BY <1>8 DEF InSeq
  <2>4. Holding(Tasks) = {} => \E u : InSeq(u, ready)
    BY <1>8, ReaderKeptOut
  <2> QED
    BY <1>2, <2>1, <2>2, <2>3, <2>4 DEF QueueInv, AllQueued, FreeGate
(* a task resumes and suspends again *)
<1>9. ASSUME NEW t \in Tasks, ready # <<>>, t = Head(ready), ready' = Tail(ready),
             waiters' = Append(waiters, t), UNCHANGED pc,
             Holding(Tasks) = {} => /\ t \in Readers
                                    /\ \E w \in Writers : InSeq(w, ready)
      PROVE  QueueInv'
  <2>1. Holding(Tasks)' = Holding(Tasks) /\ Waiting(Tasks)' = Waiting(Tasks)
    BY <1>9 DEF Holding, Waiting
  <2>2. \A u : InSeq(u, waiters)' <=> InSeq(u, waiters) \/ u = t
    BY <1>1, <1>9, InAppend
  <2>3. \A u : InSeq(u, ready) <=> InSeq(u, ready)' \/ u = t
    BY <1>1, <1>9, InTail
  <2> QED
    BY <1>2, <1>3, <1>9, <2>1, <2>2, <2>3 DEF QueueInv, AllQueued, FreeGate
(* a task leaves and notifies everyone *)
<1>10. ASSUME NEW t \in Tasks, pc' = Left(t), NotifyAll
       PROVE  QueueInv'
  <2>1. Waiting(Tasks)' = Waiting(Tasks) \ {t}
    BY <1>1, <1>10, MoveOut
  <2>2. \A u : InSeq(u, ready)' <=> InSeq(u, ready) \/ InSeq(u, waiters)
    BY <1>1, <1>10, InConcat DEF NotifyAll
  <2>3. \A u : ~InSeq(u, waiters)'
    BY <1>10 DEF NotifyAll, InSeq
  <2> QED
    BY <1>2, <2>1, <2>2, <2>3 DEF QueueInv, AllQueued, FreeGate
<1>11. ASSUME NEW r \in Readers, ReleaseReader(r), readers' # 0,
              UNCHANGED <<waiters, ready>>
       PROVE  QueueInv'
  <2>1. Holding(Tasks)' # {}
    <3>1. Cardinality(Holding(Readers)') # 0
      BY <1>11 DEF CountInv, CountersMatch
    <3>2. Holding(Readers)' # {}
      BY <3>1, FS_EmptySet
    <3> QED
      BY <3>2 DEF Holding, Tasks
  <2>2. Waiting(Tasks)' = Waiting(Tasks) \ {r}
    BY <1>1, <1>3, <1>11, MoveOut DEF ReleaseReader
  <2> QED
    BY <1>2, <1>11, <2>1, <2>2 DEF QueueInv, AllQueued, FreeGate, InSeq
<1>12. ASSUME NEW t \in Tasks, Cancel(t) PROVE QueueInv'
  <2>1. Holding(Tasks)' = Holding(Tasks) /\ Waiting(Tasks)' = Waiting(Tasks)
    BY <1>12 DEF Cancel, Holding, Waiting
  <2>2. CASE UNCHANGED <<waiters, ready>>
    BY <1>2, <2>1, <2>2 DEF QueueInv, AllQueued, FreeGate, InSeq
  <2>3. ASSUME NEW i \in DOMAIN waiters, waiters[i] = t,
               waiters' = RemoveAt(waiters, i), ready' = Append(ready, t)
        PROVE  QueueInv'
    <3>1. /\ \A u : InSeq(u, waiters) => InSeq(u, waiters)' \/ u = t
          /\ \A u : InSeq(u, waiters)' => InSeq(u, waiters)
      BY <1>1, <2>3, InRemoveAt
    <3>2. \A u : InSeq(u, ready)' <=> InSeq(u, ready) \/ u = t
      BY <1>1, <2>3, InAppend
    <3> QED
      BY <1>2, <2>1, <3>1, <3>2 DEF QueueInv, AllQueued, FreeGate
  <2> QED
    BY <1>12, <2>2, <2>3 DEF Cancel
<1>13. ASSUME NEW t \in Tasks, ResumeCancelled(t) PROVE QueueInv'
  <2>1. /\ Waiting(Tasks)' = Waiting(Tasks) \ {t}
        /\ Holding(Tasks)' = Holding(Tasks)
    BY <1>1, <1>13, MoveOut DEF ResumeCancelled, Holding
  <2>2. \A u : InSeq(u, ready) <=> InSeq(u, Tail(ready)) \/ u = t
    BY <1>1, <1>13, InTail DEF ResumeCancelled
  <2>3. CASE waiters = <<>>
    <3>1. ready' = Tail(ready) /\ waiters' = <<>>
      BY <1>13, <2>3 DEF ResumeCancelled
    <3>2. \A u : ~InSeq(u, waiters) /\ ~InSeq(u, waiters)'
      BY <2>3, <3>1 DEF InSeq
    <3>3. \A u : InSeq(u, ready)' <=> InSeq(u, Tail(ready))
      BY <3>1
    <3> QED
      BY <1>2, <2>1, <2>2, <3>2, <3>3 DEF QueueInv, AllQueued, FreeGate
  <2>4. CASE waiters # <<>>
    <3>1. ready' = Append(Tail(ready), Head(waiters)) /\ waiters' = Tail(waiters)
      BY <1>13, <2>4 DEF ResumeCancelled
    <3>2. Tail(ready) \in Seq(Tasks) /\ Head(waiters) \in Tasks
      BY <1>1, <1>13, <2>4, HeadTailProperties DEF ResumeCancelled
    <3>3. \A u : InSeq(u, ready)' <=> InSeq(u, Tail(ready)) \/ u = Head(waiters)
      BY <3>1, <3>2, InAppend
    <3>4. \A u : InSeq(u, waiters) <=> InSeq(u, waiters)' \/ u = Head(waiters)
      BY <1>1, <2>4, <3>1, InTail
    <3> QED
      BY <1>2, <2>1, <2>2, <3>3, <3>4 DEF QueueInv, AllQueued, FreeGate
  <2> QED
    BY <2>3, <2>4
<1>14. ASSUME NEW w \in Writers, EnterWriter(w) PROVE QueueInv'
  BY <1>3, <1>5, <1>7, <1>14 DEF EnterWriter
<1>15. ASSUME NEW r \in Readers, EnterReader(r) PROVE QueueInv'
  BY <1>3, <1>5, <1>8, <1>15 DEF EnterReader
<1>16. ASSUME NEW w \in Writers, ReleaseWriter(w) PROVE QueueInv'
  BY <1>3, <1>10, <1>16 DEF ReleaseWriter
<1>17. ASSUME NEW r \in Readers, ReleaseReader(r) PROVE QueueInv'
  BY <1>3, <1>10, <1>11, <1>17 DEF ReleaseReader
<1>18. ASSUME NEW w \in Writers, ResumeWriter(w) PROVE QueueInv'
  <2>1. ~WriterMayEnter => Holding(Tasks) # {}
    BY WriterKeptOut
  <2> QED
    BY <1>3, <1>6, <1>9, <1>18, <2>1 DEF ResumeWriter
<1>19. ASSUME NEW r \in Readers, ResumeReader(r) PROVE QueueInv'
  <2>1. ~ReaderMayEnter /\ Holding(Tasks) = {} => \E w \in Writers : InSeq(w, ready)
    BY ReaderKeptOut
  <2> QED
    BY <1>3, <1>6, <1>9, <1>19, <2>1 DEF ResumeReader
<1> QED
  BY <1>4, <1>12, <1>13, <1>14, <1>15, <1>16, <1>17, <1>18, <1>19
     DEF Next, Resume

(* With a condition variable that passes notifications on when a waiter is *)
(* cancelled, a free gate never leaves waiting tasks without a scheduled   *)
(* resumption, for any number of readers and writers.                      *)
THEOREM WakeupsNotLost == NotifyOnCancel => (Spec => []NoLostWakeup)
<1> SUFFICES ASSUME NotifyOnCancel PROVE Spec => []NoLostWakeup
  OBVIOUS
<1>1. Init => QueueInv
  BY DEF Init, QueueInv, AllQueued, FreeGate, Waiting, Holding, InSeq
<1>2. CountInv /\ CountInv' /\ QueueInv /\ [Next]_vars => QueueInv'
  BY QueueStep
<1>3. CountInv /\ QueueInv => NoLostWakeup
  <2> SUFFICES ASSUME CountInv, QueueInv, Holding(Tasks) = {},
                      NEW t \in Waiting(Tasks)
               PROVE  ready # <<>>
    BY DEF NoLostWakeup
  <2>1. \E u : InSeq(u, ready)
    BY DEF QueueInv, AllQueued, FreeGate
  <2> QED
    BY <2>1, InEmpty DEF CountInv, TypeOK
<1> QED
  BY <1>1, <1>2, <1>3, CountInvariant, PTL DEF Spec
===============================================================================
