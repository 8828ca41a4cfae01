--------------------------- MODULE CLIProviderProofs ---------------------------
(***************************************************************************)
(* Proofs about CLIProvider, for any number of attempts, cancellations,    *)
(* processes and whatever they write.  For the processes, what a stream    *)
(* amounts to plays no part, only that a call ends in one of the ways      *)
(* Finish knows; the invariant says where the termination of each          *)
(* attempt's group can be when the attempt is over, and what it has left   *)
(* alive by then.  For the usage, an invariant of the scan relates what    *)
(* the loop knows after n events to these events.                          *)
(***************************************************************************)
EXTENDS CLIProvider, InductionTheorems, SequenceTheorems

USE AttemptsAssumption, MembersAssumption

GroupTypeOK ==
  /\ attempt \in 0 .. MaxAttempts
  /\ call \in Waiting \cup {"idle", "ended"}
  /\ how \in [Attempts -> {"none", "returned", "failed", "transient", "timedOut",
                           "cancelled", "detached", "unspawned"}]
  /\ alive \in [Attempts -> SUBSET Members]
  /\ term \in [Attempts -> Running \cup {"none", "done", "aborted"}]
  /\ refused \subseteq Attempts
  /\ cancels \in Nat

(* Attempts come one after the other: those before the current one ended   *)
(* in a way that allows another, those after it have not begun.            *)
OrderInv ==
  /\ attempt = 0 <=> call = "idle"
  /\ attempt > 0 => (call = "ended" <=> how[attempt] # "none")
  /\ \A r \in Attempts :
       /\ r < attempt => how[r] \in {"transient", "timedOut"}
       /\ r > attempt => how[r] = "none" /\ alive[r] = {} /\ term[r] = "none"

(* A termination runs while run() waits for it, or after a cancellation    *)
(* has taken run() away from it, and never after run() has seen its end.   *)
ShieldInv ==
  /\ call \in {"spawning", "communicating"} => term[attempt] = "none"
  /\ call \in {"timingOut", "cancelling"} => term[attempt] \in Running \cup {"done"}
  /\ \A r \in Attempts :
       /\ term[r] \in Running => how[r] \in {"none", "detached"}
       /\ how[r] \in {"timedOut", "cancelled"} => term[r] = "done"
       /\ how[r] = "detached" => term[r] # "none"

(* What is dead stays dead: a leader cannot be started by its descendants, *)
(* and an empty group has nobody to start a process.                       *)
DeadInv ==
  \A r \in Attempts :
    /\ how[r] \in {"returned", "transient", "failed", "unspawned"} =>
         Leader \notin alive[r]
    /\ term[r] \in {"reaping", "done"} =>
         Leader \notin alive[r] /\ (r \in refused \/ alive[r] = {})

GroupInv == GroupTypeOK /\ OrderInv /\ ShieldInv /\ DeadInv

-------------------------------------------------------------------------------
LEMMA GroupInit == Init => GroupInv
BY DEF Init, GroupInv, GroupTypeOK, OrderInv, ShieldInv, DeadInv, Attempts, Members,
       Waiting, Running

(* Starting an attempt: the one before it, if any, ended in a way that     *)
(* allows this.                                                            *)
LEMMA StartStep == GroupInv /\ (Spawn \/ SpawnFails) => GroupInv'
<1> SUFFICES ASSUME GroupInv, Spawn \/ SpawnFails PROVE GroupInv'
  OBVIOUS
<1> USE DEF GroupInv, GroupTypeOK, OrderInv, ShieldInv, DeadInv, Attempts, Members,
            Waiting, Running, MayStart
<1>1. attempt + 1 \in Attempts /\ attempt \in Nat /\ attempt' = attempt + 1
  BY DEF Spawn, SpawnFails
<1>2. CASE Spawn
  BY <1>1, <1>2 DEF Spawn
<1>3. CASE SpawnFails
  BY <1>1, <1>3 DEF SpawnFails, groupVars
<1> QED
  BY <1>2, <1>3

(* run() itself: waiting, ending, handing the group to a termination.      *)
LEMMA CallStep ==
  GroupInv /\ (Spawned \/ Finish \/ Timeout \/ Cancel \/ Stopped) => GroupInv'
<1> SUFFICES ASSUME GroupInv, Spawned \/ Finish \/ Timeout \/ Cancel \/ Stopped
             PROVE GroupInv'
  OBVIOUS
<1> USE DEF GroupInv, GroupTypeOK, OrderInv, ShieldInv, DeadInv, Attempts, Members,
            Waiting, Running, groupVars
<1>1. attempt \in Attempts /\ how[attempt] = "none"
  BY DEF Spawned, Finish, Timeout, Cancel, CancelSpawning, CancelCommunicating,
         CancelStopping, Stopped
<1>2. CASE Spawned
  BY <1>1, <1>2 DEF Spawned
<1>3. CASE Finish
  <2>1. PICK outcome \in {"returned", "transient", "failed"} :
          how' = [how EXCEPT ![attempt] = outcome]
    BY <1>3 DEF Finish, End
  <2> QED
    BY <1>1, <1>3, <2>1 DEF Finish, End
<1>4. CASE Timeout
  BY <1>1, <1>4 DEF Timeout
<1>5. CASE Cancel
  <2>1. CASE CancelSpawning
    BY <1>1, <1>5, <2>1 DEF Cancel, CancelSpawning, End
  <2>2. CASE CancelCommunicating
    BY <1>1, <1>5, <2>2 DEF Cancel, CancelCommunicating
  <2>3. CASE CancelStopping
    BY <1>1, <1>5, <2>3 DEF Cancel, CancelStopping, End
  <2> QED
    BY <1>5, <2>1, <2>2, <2>3 DEF Cancel
<1>6. CASE Stopped
  BY <1>1, <1>6 DEF Stopped, End
<1> QED
  BY <1>2, <1>3, <1>4, <1>5, <1>6

(* A step of a running termination: it takes members away, and if it is    *)
(* about to end, either all of them or, refused, the leader.               *)
LEMMA ShrinkStep ==
  ASSUME GroupInv, NEW r \in Attempts, term[r] \in Running,
         NEW survivors \in SUBSET alive[r], NEW next \in Running \cup {"done"},
         alive' = [alive EXCEPT ![r] = survivors],
         term' = [term EXCEPT ![r] = next],
         refused' \in {refused, refused \cup {r}},
         next \in {"reaping", "done"} =>
           Leader \notin survivors /\ (r \in refused' \/ survivors = {}),
         UNCHANGED <<callVars, cancels>>
  PROVE  GroupInv'
<1> USE DEF GroupInv, GroupTypeOK, OrderInv, ShieldInv, DeadInv, Attempts, Running, callVars
<1>1. attempt \in Nat /\ r \in Nat
  OBVIOUS
<1>2. GroupTypeOK'
  BY DEF Members
<1>3. OrderInv'
  BY <1>1
<1>4. ShieldInv'
  BY <1>1
<1>5. DeadInv'
  BY <1>1
<1> QED
  BY <1>2, <1>3, <1>4, <1>5

(* The termination of an attempt's group, and the closing of the loop.     *)
LEMMA StopStep ==
  ASSUME GroupInv, NEW r \in Attempts, Stop(r) \/ StopLoop(r) PROVE GroupInv'
<1> USE DEF Signal, Refuse, Running
<1>1. CASE Terminate(r)
  <2>1. PICK survivors \in SUBSET alive[r], next \in {"grace", "done"} :
          /\ alive' = [alive EXCEPT ![r] = survivors]
          /\ term' = [term EXCEPT ![r] = next]
          /\ refused' \in {refused, refused \cup {r}}
          /\ next = "done" => survivors = {}
    BY <1>1 DEF Terminate
  <2> QED
    BY <1>1, <2>1, ShrinkStep DEF Terminate
<1>2. CASE GraceEnds(r)
  <2>1. CASE Signal(r, {}, "done")
    BY <1>2, <2>1, ShrinkStep DEF GraceEnds
  <2>2. CASE Refuse(r, alive[r], "done")
    BY <1>2, <2>2, ShrinkStep DEF GraceEnds
  <2> QED
    BY <1>2, <2>1, <2>2 DEF GraceEnds
<1>3. CASE GraceExpires(r)
  <2>1. PICK survivors \in SUBSET alive[r], next \in {"reaping", "done"} :
          /\ alive' = [alive EXCEPT ![r] = survivors]
          /\ term' = [term EXCEPT ![r] = next]
          /\ refused' \in {refused, refused \cup {r}}
          /\ Leader \notin survivors /\ (r \in refused' \/ survivors = {})
    BY <1>3 DEF GraceExpires
  <2> QED
    BY <1>3, <2>1, ShrinkStep DEF GraceExpires
<1>4. CASE Reap(r)
  <2>1. r \in refused \/ alive[r] = {}
    BY <1>4 DEF Reap, GroupInv, DeadInv
  <2> QED
    BY <1>4, <2>1, ShrinkStep DEF Reap
<1>5. CASE StopLoop(r)
  BY <1>5 DEF StopLoop, GroupInv, GroupTypeOK, OrderInv, ShieldInv, DeadInv, Attempts,
              Members, Waiting, callVars
<1> QED
  BY <1>1, <1>2, <1>3, <1>4, <1>5 DEF Stop

(* The processes of a group. *)
LEMMA ProcessStep ==
  ASSUME GroupInv, NEW r \in Attempts, Process(r) PROVE GroupInv'
<1> USE DEF GroupInv, GroupTypeOK, OrderInv, ShieldInv, DeadInv, Attempts, Members,
            Waiting, Running, callVars
<1>1. attempt \in Nat /\ r \in Nat
  OBVIOUS
<1>2. ASSUME NEW d \in Descendants, Fork(r, d) PROVE GroupInv'
  BY <1>1, <1>2 DEF Fork
<1>3. ASSUME NEW m \in Members, Exit(r, m) PROVE GroupInv'
  BY <1>1, <1>3 DEF Exit
<1> QED
  BY <1>2, <1>3 DEF Process

LEMMA GroupStep == GroupInv /\ [Next]_vars => GroupInv'
<1> SUFFICES ASSUME GroupInv, [Next]_vars PROVE GroupInv'
  OBVIOUS
<1> USE DEF GroupInv, GroupTypeOK, OrderInv, ShieldInv, DeadInv
<1>1. CASE Spawn \/ SpawnFails
  BY <1>1, StartStep
<1>2. CASE Spawned \/ Finish \/ Timeout \/ Cancel \/ Stopped
  BY <1>2, CallStep
<1>3. CASE \E r \in Attempts : Stop(r) \/ StopLoop(r) \/ Process(r)
  BY <1>3, StopStep, ProcessStep
<1>4. CASE \E e \in Event : Write(e)
  BY <1>4 DEF Write, callVars, groupVars
<1>5. CASE UNCHANGED vars
  BY <1>5 DEF vars
<1> QED
  BY <1>1, <1>2, <1>3, <1>4, <1>5 DEF Next

LEMMA GroupInvariant == Spec => []GroupInv
<1> QED
  BY GroupInit, GroupStep, PTL DEF Spec

-------------------------------------------------------------------------------
(* No two leaders run at once, however many attempts are made: what makes  *)
(* an attempt repeatable, a timeout or a transient exit code, has its      *)
(* leader dead before the next one starts.                                 *)
THEOREM LeadersNeverOverlap == Spec => []OneLeader
<1>1. GroupInv => OneLeader
  <2> SUFFICES ASSUME GroupInv, NEW r \in Attempts, NEW s \in Attempts,
                      Leader \in alive[r], Leader \in alive[s]
               PROVE  r = s
    BY DEF OneLeader
  <2>1. ASSUME NEW x \in Attempts, Leader \in alive[x] PROVE x = attempt
    BY <2>1 DEF GroupInv, GroupTypeOK, OrderInv, ShieldInv, DeadInv, Attempts
  <2> QED
    BY <2>1
<1> QED
  BY <1>1, GroupInvariant, PTL

(* What a timeout and the three ways of cancelling an attempt leave of its *)
(* group: nobody without a refused signal, but for a termination that a    *)
(* cancellation left to itself, and for the tools of an attempt cancelled  *)
(* while it started.                                                       *)
THEOREM GroupsLeftBehind == Spec => []NoSurvivor
<1>1. GroupInv => NoSurvivor
  <2> SUFFICES ASSUME GroupInv, NEW r \in Attempts
               PROVE  /\ how[r] \in {"timedOut", "cancelled"} => alive[r] = {} \/ r \in refused
                      /\ how[r] = "detached" =>
                           \/ alive[r] = {} \/ r \in refused
                           \/ /\ term[r] \in Running \cup {"aborted"}
                              /\ call = "ended" /\ r = attempt
                      /\ how[r] = "unspawned" => Leader \notin alive[r]
    BY DEF NoSurvivor
  <2> USE DEF GroupInv, GroupTypeOK, OrderInv, ShieldInv, DeadInv, Attempts
  <2>1. how[r] = "detached" => r = attempt /\ call = "ended"
    OBVIOUS
  <2>2. how[r] = "detached" => term[r] \in Running \cup {"done", "aborted"}
    OBVIOUS
  <2> QED
    BY <2>1, <2>2
<1> QED
  BY <1>1, GroupInvariant, PTL

-------------------------------------------------------------------------------
(* What a call reports.  The scan of a stream, event by event.             *)
ScanState == [text : BOOLEAN, failed : BOOLEAN, invalid : BOOLEAN,
              seen : SUBSET StepIds, usages : Seq(Event)]

LEMMA EventParts ==
  ASSUME NEW e \in Event
  PROVE  /\ e.id \in StepIds \cup {None}
         /\ e.tokens \in MaybeNat /\ e.cost \in MaybeNat
<1> USE StreamAssumption DEF MaybeNat
<1>1. CASE \E kind : e = Bare(kind)
  BY <1>1 DEF Bare
<1>2. CASE e \in [kind : {"turn"}, id : {None}, tokens : Tokens \cup {None}, cost : {None}]
  BY <1>2
<1>3. CASE e \in [kind : {"step"}, id : StepIds \cup {None}, tokens : Tokens \cup {None},
                 cost : Tokens \cup {None}]
  BY <1>3
<1>4. CASE e \in [kind : {"uncounted"}, id : {None}, tokens : {None}, cost : Tokens]
  BY <1>4
<1> QED
  BY <1>1, <1>2, <1>3, <1>4 DEF Event

LEMMA ScanTypes ==
  ASSUME NEW s \in ScanState, NEW e \in Event
  PROVE  Scan(s, e) \in ScanState
<1>1. s.usages \in Seq(Event) /\ Append(s.usages, e) \in Seq(Event)
  BY AppendProperties DEF ScanState
<1>2. e.id # None => s.seen \cup {e.id} \in SUBSET StepIds
  BY EventParts DEF ScanState
<1> QED
  BY <1>1, <1>2 DEF ScanState, Scan, SaysText

LEMMA ScannedStep ==
  ASSUME NEW events \in Seq(Event)
  PROVE  /\ Scanned(events)[0] = Unscanned
         /\ \A n \in 0 .. Len(events) : Scanned(events)[n] \in ScanState
         /\ \A n \in 1 .. Len(events) :
              Scanned(events)[n] = Scan(Scanned(events)[n - 1], events[n])
<1> DEFINE N == Len(events)
           step == [n \in 1 .. N |-> [s \in ScanState |-> Scan(s, events[n])]]
           Scans(g) == g = [n \in 0 .. N |-> IF n = 0 THEN Unscanned
                                             ELSE Scan(g[n - 1], events[n])]
<1>1. N \in Nat /\ \A n \in 1 .. N : events[n] \in Event
  BY LenProperties
<1>2. Unscanned \in ScanState
  BY DEF Unscanned, ScanState
<1>3. step \in [1 .. N -> [ScanState -> ScanState]]
  BY <1>1, ScanTypes
<1>4. PICK g \in [0 .. N -> ScanState] : Recurs(N, Unscanned, step, g)
  <2> HIDE DEF N, step
  <2> QED
    BY <1>1, <1>2, <1>3, Recursion
<1>5. Scans(g)
  <2>1. g = [n \in 0 .. N |-> IF n = 0 THEN Unscanned ELSE step[n][g[n - 1]]]
    BY <1>4 DEF Recurs
  <2>2. \A n \in 0 .. N : n # 0 => n \in 1 .. N /\ g[n - 1] \in ScanState
    BY <1>1, <1>4
  <2>3. \A n \in 0 .. N : n # 0 => step[n][g[n - 1]] = Scan(g[n - 1], events[n])
    BY <2>2
  <2> HIDE DEF step
  <2> QED
    BY <2>1, <2>3
<1>6. Scanned(events) = CHOOSE h : Scans(h)
  BY DEF Scanned
<1> DEFINE f == Scanned(events)
<1>7. Scans(f)
  <2> HIDE DEF Scans
  <2> QED
    BY <1>5, <1>6
<1>8. \A n \in 0 .. N : f[n] = IF n = 0 THEN Unscanned ELSE Scan(f[n - 1], events[n])
  <2> HIDE DEF f
  <2> QED
    BY <1>7
<1>9. \A n \in 0 .. N : f[n] \in ScanState
  <2> DEFINE H == {n \in 0 .. N : f[n] \in ScanState}
  <2>1. 0 \in H
    BY <1>1, <1>2, <1>8
  <2>2. ASSUME NEW n \in 1 .. N, n - 1 \in H PROVE n \in H
    <3>1. n \in 0 .. N /\ n # 0
      BY <1>1
    <3> HIDE DEF f
    <3> QED
      BY <1>1, <1>8, <2>2, <3>1, ScanTypes
  <2>3. H \in SUBSET (0 .. N)
    OBVIOUS
  <2> HIDE DEF H, f
  <2>4. H = 0 .. N
    BY <1>1, <2>1, <2>2, <2>3, UpTo
  <2> QED
    BY <2>4 DEF H
<1> QED
  BY <1>1, <1>8, <1>9

(* The sum of the known values at some indices, and one index more. *)
KnownSum(f, I) ==
  LET known == {i \in I : f[i] # None}
  IN IF known = {} THEN None ELSE SumFunctionOnSet(f, known)
Plus(a, b) == IF b = None THEN a ELSE IF a = None THEN b ELSE a + b

LEMMA KnownTypes ==
  ASSUME NEW I, IsFiniteSet(I), NEW f, \A i \in I : f[i] \in MaybeNat
  PROVE  KnownSum(f, I) \in MaybeNat
<1> DEFINE known == {i \in I : f[i] # None}
<1>1. IsFiniteSet(known) /\ \A i \in known : f[i] \in Nat
  BY FS_Subset DEF MaybeNat
<1> HIDE DEF known
<1>2. SumFunctionOnSet(f, known) \in Nat
  BY <1>1, SumNat
<1> QED
  BY <1>2 DEF KnownSum, MaybeNat, known

LEMMA KnownSame ==
  ASSUME NEW I, IsFiniteSet(I), NEW f, NEW g, \A i \in I : f[i] = g[i]
  PROVE  KnownSum(f, I) = KnownSum(g, I)
<1> DEFINE known == {i \in I : f[i] # None}
<1>1. known = {i \in I : g[i] # None} /\ IsFiniteSet(known)
      /\ \A i \in known : f[i] = g[i]
  BY FS_Subset
<1> HIDE DEF known
<1>2. SumFunctionOnSet(f, known) = SumFunctionOnSet(g, known)
  BY <1>1, SumSame
<1> QED
  BY <1>1, <1>2 DEF KnownSum, known

LEMMA KnownAdd ==
  ASSUME NEW I, IsFiniteSet(I), NEW f, NEW g, NEW y, y \notin I, g[y] \in MaybeNat,
         \A i \in I : f[i] \in MaybeNat /\ g[i] = f[i]
  PROVE  KnownSum(g, I \cup {y}) = Plus(KnownSum(f, I), g[y])
<1> DEFINE known == {i \in I : f[i] # None}
           more == {i \in I \cup {y} : g[i] # None}
<1>1. /\ more = IF g[y] = None THEN known ELSE known \cup {y}
      /\ y \notin known /\ IsFiniteSet(known)
      /\ \A i \in known : f[i] \in Nat /\ g[i] = f[i]
  BY FS_Subset DEF MaybeNat
<1>2. /\ KnownSum(f, I) = IF known = {} THEN None ELSE SumFunctionOnSet(f, known)
      /\ KnownSum(g, I \cup {y}) = IF more = {} THEN None ELSE SumFunctionOnSet(g, more)
  BY DEF KnownSum
<1> HIDE DEF known, more
<1>3. SumFunctionOnSet(g, known) = SumFunctionOnSet(f, known)
  BY <1>1, SumSame
<1>4. SumFunctionOnSet(f, known) \in Nat
  BY <1>1, SumNat
<1>5. None \notin Nat
  BY StreamAssumption
<1>6. CASE g[y] = None
  BY <1>1, <1>2, <1>3, <1>6 DEF Plus
<1>7. CASE g[y] # None
  <2>1. g[y] \in Int /\ (\A i \in known : f[i] \in Int /\ g[i] = f[i])
    BY <1>1, <1>7 DEF MaybeNat
  <2>2. SumFunctionOnSet(g, more) = SumFunctionOnSet(f, known) + g[y]
    BY <1>1, <1>7, <2>1, SumAdd
  <2>3. known = {} => SumFunctionOnSet(f, known) = 0
    BY <1>1, SumZero
  <2>4. more # {}
    BY <1>1, <1>7
  <2> QED
    BY <1>2, <1>4, <1>5, <1>7, <2>1, <2>2, <2>3, <2>4 DEF Plus
<1> QED
  BY <1>6, <1>7

(* What the scan knows after n events, said of those events: its flags,    *)
(* the steps it has seen, and sums over the usages it keeps that are those *)
(* over the units so far.                                                  *)
Identified(e) == ReportsUsage(e) /\ e.kind = "step" /\ e.id # None
Kept(v, s) == KnownSum([i \in DOMAIN s.usages |-> v[s.usages[i]]], DOMAIN s.usages)
Reported(v, events, I) == KnownSum([i \in DOMAIN events |-> v[events[i]]], I)
Counted(events) == Units(events) \ OfKind(events, "uncounted")
SoFar(events, n) == Counted(events) \cap (1 .. n)
Answered(events, n) ==
  \E i \in 1 .. n : /\ events[i].kind = "text"
                    /\ \A j \in 1 .. n : events[j].kind = "blank" => j < i

ScanMeans(events, n) ==
  LET s == Scanned(events)[n]
      Some(kind) == \E i \in 1 .. n : events[i].kind = kind
  IN /\ s.invalid <=> Some("invalid")
     /\ ~s.invalid =>
          /\ s.text <=> Answered(events, n)
          /\ s.failed <=> Some("failure")
          /\ \A id : id \in s.seen <=>
               \E i \in 1 .. n : Identified(events[i]) /\ events[i].id = id
          /\ \A v \in [Event -> MaybeNat] : Kept(v, s) = Reported(v, events, SoFar(events, n))

LEMMA UnitsSoFar ==
  ASSUME NEW events \in Seq(Event), NEW n \in 1 .. Len(events)
  PROVE  /\ IsFiniteSet(SoFar(events, n)) /\ IsFiniteSet(SoFar(events, n - 1))
         /\ SoFar(events, n - 1) \subseteq DOMAIN events /\ n \notin SoFar(events, n - 1)
         /\ SoFar(events, n) = IF n \in Counted(events) THEN SoFar(events, n - 1) \cup {n}
                               ELSE SoFar(events, n - 1)
<1>1. Len(events) \in Nat /\ DOMAIN events = 1 .. Len(events)
  BY LenProperties
<1>2. n \in Nat /\ n - 1 \in Nat /\ n \notin 1 .. n - 1 /\ 1 .. n = (1 .. n - 1) \cup {n}
  BY <1>1
<1>3. IsFiniteSet(1 .. n) /\ IsFiniteSet(1 .. n - 1)
  BY <1>2, FS_Interval
<1>4. SoFar(events, n) \in SUBSET (1 .. n) /\ SoFar(events, n - 1) \in SUBSET (1 .. n - 1)
  BY DEF SoFar
<1>5. SoFar(events, n - 1) \subseteq DOMAIN events
  BY <1>1 DEF SoFar, Counted, Units
<1> QED
  BY <1>2, <1>3, <1>4, <1>5, FS_Subset DEF SoFar

(* A usage that is kept adds what its event reports. *)
LEMMA KeptAdd ==
  ASSUME NEW v \in [Event -> MaybeNat], NEW s \in ScanState, NEW e \in Event, NEW t,
         t.usages = Append(s.usages, e)
  PROVE  Kept(v, t) = Plus(Kept(v, s), v[e])
<1> DEFINE u == s.usages
           w == t.usages
           old == [i \in DOMAIN u |-> v[u[i]]]
           more == [i \in DOMAIN w |-> v[w[i]]]
           first == 1 .. Len(u)
           last == Len(u) + 1
<1>1. u \in Seq(Event)
  BY DEF ScanState
<1>2. /\ Len(u) \in Nat /\ DOMAIN u = first /\ \A i \in first : u[i] \in Event
      /\ DOMAIN w = 1 .. last /\ w[last] = e /\ \A i \in first : w[i] = u[i]
  BY <1>1, LenProperties, AppendProperties
<1>3. IsFiniteSet(first) /\ last \notin first /\ 1 .. last = first \cup {last}
  <2>1. Len(u) \in Nat
    BY <1>2
  <2>2. last \notin first /\ 1 .. last = first \cup {last}
    BY <2>1
  <2>3. IsFiniteSet(first)
    BY <2>1, FS_Interval
  <2> QED
    BY <2>2, <2>3
<1>4. more[last] = v[e] /\ \A i \in first : more[i] = v[u[i]] /\ old[i] = v[u[i]]
  BY <1>2, <1>3
<1>5. more[last] \in MaybeNat /\ \A i \in first : old[i] \in MaybeNat /\ more[i] = old[i]
  BY <1>2, <1>4
<1>6. Kept(v, s) = KnownSum(old, first) /\ Kept(v, t) = KnownSum(more, first \cup {last})
  BY <1>2, <1>3 DEF Kept
<1> HIDE DEF old, more, first, last, u, w
<1>7. KnownSum(more, first \cup {last}) = Plus(KnownSum(old, first), more[last])
  <2>1. IsFiniteSet(first) /\ last \notin first
    BY <1>3
  <2> QED
    BY <1>5, <2>1, KnownAdd
<1> QED
  BY <1>4, <1>6, <1>7

LEMMA ReportedAdd ==
  ASSUME NEW v \in [Event -> MaybeNat], NEW events \in Seq(Event),
         NEW n \in 1 .. Len(events), n \in Counted(events)
  PROVE  Reported(v, events, SoFar(events, n)) =
           Plus(Reported(v, events, SoFar(events, n - 1)), v[events[n]])
<1> DEFINE old == [i \in DOMAIN events |-> v[events[i]]]
           more == [i \in DOMAIN events |-> v[events[i]]]
           first == SoFar(events, n - 1)
           last == n
<1>1. DOMAIN events = 1 .. Len(events) /\ \A i \in DOMAIN events : events[i] \in Event
  BY LenProperties
<1>2. /\ IsFiniteSet(first) /\ first \subseteq DOMAIN events /\ last \notin first
      /\ SoFar(events, n) = first \cup {last}
  BY UnitsSoFar
<1>3. \A i \in first : old[i] \in MaybeNat /\ more[i] = old[i]
  BY <1>1, <1>2
<1>4. more[last] = v[events[n]] /\ more[last] \in MaybeNat
  BY <1>1
<1>5. IsFiniteSet(first) /\ last \notin first
  BY <1>2
<1>6. Reported(v, events, SoFar(events, n)) = KnownSum(more, first \cup {last})
      /\ Reported(v, events, SoFar(events, n - 1)) = KnownSum(old, first)
  BY <1>2 DEF Reported
<1> HIDE DEF old, more, first, last
<1>7. KnownSum(more, first \cup {last}) = Plus(KnownSum(old, first), more[last])
  BY <1>3, <1>4, <1>5, KnownAdd
<1> QED
  BY <1>4, <1>6, <1>7

(* What is kept and what is reported, said of one event and of a stream.   *)
LEMMA EventKinds ==
  ASSUME NEW e \in Event
  PROVE  /\ ReportsUsage(e) <=> Figures(e) # {} /\ e.kind # "uncounted"
         /\ e.id # None => e.kind = "step"
<1>1. Figures(e) # {} <=> e.tokens # None \/ e.cost # None
  BY DEF Figures
<1>2. CASE \E kind \in {"text", "blank", "failure", "invalid"} : e = Bare(kind)
  BY <1>1, <1>2 DEF Bare, ReportsUsage
<1>3. CASE e \in [kind : {"turn"}, id : {None}, tokens : Tokens \cup {None}, cost : {None}]
  BY <1>1, <1>3 DEF ReportsUsage
<1>4. CASE e \in [kind : {"step"}, id : StepIds \cup {None}, tokens : Tokens \cup {None},
                 cost : Tokens \cup {None}]
  BY <1>1, <1>4 DEF ReportsUsage
<1>5. CASE e \in [kind : {"uncounted"}, id : {None}, tokens : {None}, cost : Tokens]
  BY <1>1, <1>5 DEF ReportsUsage
<1> QED
  BY <1>2, <1>3, <1>4, <1>5 DEF Event

LEMMA CountedMeans ==
  ASSUME NEW events \in Seq(Event), NEW n \in 1 .. Len(events)
  PROVE  n \in Counted(events) <=>
           /\ ReportsUsage(events[n])
           /\ events[n].kind = "step" /\ events[n].id # None =>
                ~ \E i \in 1 .. n - 1 : Identified(events[i]) /\ events[i].id = events[n].id
<1>1. DOMAIN events = 1 .. Len(events) /\ \A i \in DOMAIN events : events[i] \in Event
  BY LenProperties
<1>2. \A i \in 1 .. n - 1 : i \in DOMAIN events
  BY <1>1, LenProperties
<1>3. n \in Counted(events) <=>
        /\ ReportsUsage(events[n])
        /\ events[n].id # None => \A j \in 1 .. n - 1 :
             events[j].id = events[n].id => Figures(events[j]) = {}
  BY <1>1, EventKinds DEF Counted, Units, OfKind
<1>4. \A j \in 1 .. n - 1 : events[j].id # None =>
        (Identified(events[j]) <=> Figures(events[j]) # {})
  <2> SUFFICES ASSUME NEW j \in 1 .. n - 1, events[j].id # None
               PROVE  Identified(events[j]) <=> Figures(events[j]) # {}
    OBVIOUS
  <2>1. events[j] \in Event
    BY <1>1, <1>2
  <2> QED
    BY <2>1, EventKinds DEF Identified
<1>5. events[n].id # None => events[n].kind = "step"
  BY <1>1, EventKinds
<1> QED
  BY <1>3, <1>4, <1>5

LEMMA AnsweredTurn ==
  ASSUME NEW events, NEW n \in Nat \ {0}
  PROVE  Answered(events, n) <=> SaysText(Answered(events, n - 1), events[n])
<1>1. 1 .. n = (1 .. n - 1) \cup {n} /\ \A i \in 1 .. n - 1 : i < n /\ ~(n < i)
  OBVIOUS
<1>2. ~(n < n)
  OBVIOUS
<1>3. CASE events[n].kind = "text"
  BY <1>1, <1>3 DEF Answered, SaysText
<1>4. CASE events[n].kind = "blank"
  BY <1>1, <1>2, <1>4 DEF Answered, SaysText
<1>5. CASE events[n].kind \notin {"text", "blank"}
  BY <1>1, <1>5 DEF Answered, SaysText
<1> QED
  BY <1>3, <1>4, <1>5

(* One turn: the event counts exactly when it is a unit of the stream.     *)
LEMMA ScanTurn ==
  ASSUME NEW events \in Seq(Event), NEW n \in 1 .. Len(events), ScanMeans(events, n - 1)
  PROVE  ScanMeans(events, n)
<1> DEFINE s == Scanned(events)[n - 1]
           t == Scanned(events)[n]
           e == events[n]
<1>1. /\ n \in Nat /\ n - 1 \in 0 .. Len(events) /\ DOMAIN events = 1 .. Len(events)
      /\ \A P \in {1 .. n - 1} : 1 .. n = P \cup {n} /\ n \notin P
  BY LenProperties
<1>2. s \in ScanState /\ t = Scan(s, e) /\ e \in Event
  BY <1>1, ScannedStep, LenProperties
<1>3. /\ s.invalid <=> \E i \in 1 .. n - 1 : events[i].kind = "invalid"
      /\ ~s.invalid =>
          /\ s.text <=> Answered(events, n - 1)
          /\ s.failed <=> \E i \in 1 .. n - 1 : events[i].kind = "failure"
          /\ \A id : id \in s.seen <=>
               \E i \in 1 .. n - 1 : Identified(events[i]) /\ events[i].id = id
          /\ \A v \in [Event -> MaybeNat] :
               Kept(v, s) = Reported(v, events, SoFar(events, n - 1))
  BY DEF ScanMeans
<1> HIDE DEF s, t
<1>4. CASE s.invalid
  <2>1. t = s
    BY <1>2, <1>4 DEF Scan
  <2> QED
    BY <1>1, <1>3, <1>4, <2>1 DEF ScanMeans, t
<1>5. CASE ~s.invalid
  <2> DEFINE repeated == e.kind = "step" /\ e.id \in s.seen
             counted == ReportsUsage(e) /\ ~repeated
  <2>1. /\ t.text = SaysText(s.text, e)
        /\ t.failed = (s.failed \/ e.kind = "failure")
        /\ t.invalid = (e.kind = "invalid")
        /\ t.seen = IF Identified(e) THEN s.seen \cup {e.id} ELSE s.seen
        /\ t.usages = IF counted THEN Append(s.usages, e) ELSE s.usages
    BY <1>2, <1>5 DEF Scan, Identified
  <2>2. s.text \in BOOLEAN /\ s.failed \in BOOLEAN /\ None \notin s.seen
    BY <1>2, StreamAssumption DEF ScanState
  <2>3. counted <=> n \in Counted(events)
    <3>1. n \in Counted(events) <=>
            /\ ReportsUsage(e)
            /\ e.kind = "step" /\ e.id # None =>
                 ~ \E i \in 1 .. n - 1 : Identified(events[i]) /\ events[i].id = e.id
      BY CountedMeans
    <3> QED
      BY <1>3, <1>5, <2>2, <3>1
  <2>4. \A id : id \in t.seen <=>
          \E i \in 1 .. n : Identified(events[i]) /\ events[i].id = id
    <3>1. \A id : id \in t.seen <=> id \in s.seen \/ (Identified(e) /\ e.id = id)
      BY <2>1
    <3> QED
      BY <1>1, <1>3, <1>5, <3>1
  <2>5. ASSUME NEW v \in [Event -> MaybeNat]
        PROVE  Kept(v, t) = Reported(v, events, SoFar(events, n))
    <3>1. Kept(v, s) = Reported(v, events, SoFar(events, n - 1))
      BY <1>3, <1>5
    <3>2. CASE counted
      <4>1. Kept(v, t) = Plus(Kept(v, s), v[e])
        BY <1>2, <2>1, <3>2, KeptAdd
      <4> QED
        BY <2>3, <3>1, <3>2, <4>1, ReportedAdd
    <3>3. CASE ~counted
      <4>1. Kept(v, t) = Kept(v, s)
        BY <2>1, <3>3 DEF Kept
      <4>2. SoFar(events, n) = SoFar(events, n - 1)
        BY <2>3, <3>3, UnitsSoFar
      <4> QED
        BY <3>1, <4>1, <4>2
    <3> QED
      BY <3>2, <3>3
  <2>6. /\ t.invalid <=> \E i \in 1 .. n : events[i].kind = "invalid"
        /\ t.failed <=> \E i \in 1 .. n : events[i].kind = "failure"
    BY <1>1, <1>3, <1>5, <2>1, <2>2
  <2>7. t.text <=> Answered(events, n)
    <3>1. n \in Nat \ {0}
      BY <1>1
    <3>2. Answered(events, n) <=> SaysText(Answered(events, n - 1), e)
      BY <3>1, AnsweredTurn
    <3> QED
      BY <1>3, <1>5, <2>1, <2>2, <3>2 DEF SaysText
  <2> QED
    BY <2>4, <2>5, <2>6, <2>7 DEF ScanMeans, t
<1>6. s.invalid \in BOOLEAN
  BY <1>2 DEF ScanState
<1> QED
  BY <1>4, <1>5, <1>6

LEMMA ScanCorrect ==
  ASSUME NEW events \in Seq(Event)
  PROVE  ScanMeans(events, Len(events))
<1> DEFINE N == Len(events)
           H == {n \in 0 .. N : ScanMeans(events, n)}
<1>1. N \in Nat
  BY LenProperties
<1>2. ScanMeans(events, 0)
  <2>1. Scanned(events)[0] = Unscanned
    BY ScannedStep
  <2>2. \A i : i \notin 1 .. 0
    OBVIOUS
  <2>3. ASSUME NEW v PROVE Kept(v, Unscanned) = Reported(v, events, SoFar(events, 0))
    <3>1. DOMAIN Unscanned.usages = {} /\ SoFar(events, 0) = {}
      BY <2>2 DEF Unscanned, SoFar
    <3> QED
      BY <3>1 DEF Kept, Reported, KnownSum
  <2>4. ~Unscanned.invalid /\ ~Unscanned.text /\ ~Unscanned.failed /\ Unscanned.seen = {}
    BY DEF Unscanned
  <2> QED
    BY <2>1, <2>2, <2>3, <2>4 DEF ScanMeans, Answered
<1>3. 0 \in H
  BY <1>1, <1>2
<1>4. ASSUME NEW n \in 1 .. N, n - 1 \in H PROVE n \in H
  <2>1. ScanMeans(events, n)
    BY <1>4, ScanTurn
  <2> QED
    BY <1>1, <2>1
<1>5. H \in SUBSET (0 .. N)
  OBVIOUS
<1> HIDE DEF H
<1>6. H = 0 .. N
  BY <1>1, <1>3, <1>4, <1>5, UpTo
<1> QED
  BY <1>1, <1>6 DEF H

(* What a figure of a stream amounts to: what the scan keeps of it is its  *)
(* total over the units.                                                   *)
LEMMA FigureTotal ==
  ASSUME NEW events \in Seq(Event), NEW s, s = Scanned(events)[Len(events)], ~s.invalid,
         NEW v \in [Event -> MaybeNat], NEW figure,
         \A e \in Event : v[e] = e[figure]
  PROVE  Kept(v, s) = Total(events, Counted(events), figure)
<1> DEFINE I == Counted(events)
           f == [i \in DOMAIN events |-> v[events[i]]]
           known == {i \in I : f[i] # None}
           g == [i \in known |-> events[i][figure]]
<1>1. /\ Len(events) \in Nat /\ DOMAIN events = 1 .. Len(events)
      /\ \A i \in DOMAIN events : events[i] \in Event
  BY LenProperties
<1>2. I \subseteq DOMAIN events /\ SoFar(events, Len(events)) = I
  BY <1>1 DEF Counted, Units, SoFar
<1>3. IsFiniteSet(known)
  <2>1. IsFiniteSet(1 .. Len(events))
    BY <1>1, FS_Interval
  <2>2. known \in SUBSET (1 .. Len(events))
    BY <1>1, <1>2
  <2> QED
    BY <2>1, <2>2, FS_Subset
<1>4. Kept(v, s) = KnownSum(f, I)
  BY <1>2, ScanCorrect DEF ScanMeans, Reported
<1>5. \A i \in I : f[i] = events[i][figure]
  BY <1>1, <1>2
<1>6. known = {i \in Counted(events) : events[i][figure] # None}
  BY <1>5
<1>7. \A i \in known : f[i] = g[i]
  BY <1>5
<1>8. DOMAIN g = known
  OBVIOUS
<1>9. SumFunctionOnSet(f, known) = SumFunctionOnSet(g, known)
  <2> HIDE DEF f, g, known
  <2> QED
    BY <1>3, <1>7, SumSame
<1>10. Total(events, Counted(events), figure) = IF known = {} THEN None ELSE SumFunction(g)
  BY <1>6 DEF Total
<1>11. SumFunction(g) = SumFunctionOnSet(g, known)
  <2> HIDE DEF known
  <2> QED
    BY DEF SumFunction
<1> QED
  BY <1>4, <1>9, <1>10, <1>11 DEF KnownSum

LEMMA AggregateTypes == ASSUME NEW usages \in Seq(Event) PROVE Aggregate(usages) \in Usage
<1> DEFINE I == DOMAIN usages
           f == [i \in I |-> usages[i].tokens]
           g == [i \in I |-> usages[i].cost]
<1>1. IsFiniteSet(I)
  <2>1. I = 1 .. Len(usages) /\ Len(usages) \in Nat
    BY LenProperties
  <2> QED
    BY <2>1, FS_Interval
<1>2. \A i \in I : f[i] \in MaybeNat /\ g[i] \in MaybeNat
  <2>1. \A i \in I : usages[i] \in Event
    BY LenProperties
  <2> QED
    BY <2>1, EventParts
<1>3. DOMAIN f = I /\ DOMAIN g = I
  OBVIOUS
<1>4. Aggregate(usages) = [tokens |-> SumKnown(f), cost |-> SumKnown(g)]
  BY DEF Aggregate
<1> HIDE DEF f, g, I
<1>5. SumKnown(f) = KnownSum(f, I) /\ SumKnown(g) = KnownSum(g, I)
  BY <1>3 DEF SumKnown, KnownSum
<1>6. KnownSum(f, I) \in MaybeNat /\ KnownSum(g, I) \in MaybeNat
  BY <1>1, <1>2, KnownTypes
<1> QED
  BY <1>4, <1>5, <1>6 DEF Usage

(* No message of the stream, or a blank one at its end. *)
NoAnswer(events) ==
  ~ \E i \in OfKind(events, "text") : \A j \in OfKind(events, "blank") : j < i

LEMMA ParseMeans ==
  ASSUME NEW events \in Seq(Event)
  PROVE  /\ Parse(events).usage \in Usage
         /\ OfKind(events, "invalid") # {} =>
              Parse(events).usage = Unknown /\ Parse(events).verdict = "failure"
         /\ OfKind(events, "invalid") = {} =>
              /\ Parse(events).usage = UsageOf(events, Counted(events))
              /\ Parse(events).verdict = "failure" <=> OfKind(events, "failure") # {}
              /\ Parse(events).verdict = "silent" <=>
                   OfKind(events, "failure") = {} /\ NoAnswer(events)
<1> DEFINE s == Scanned(events)[Len(events)]
           tokens == [e \in Event |-> e.tokens]
           cost == [e \in Event |-> e.cost]
<1>1. s \in ScanState
  <2>1. Len(events) \in 0 .. Len(events)
    BY LenProperties
  <2> QED
    BY <2>1, ScannedStep
<1>2. DOMAIN events = 1 .. Len(events)
  BY LenProperties
<1>3. /\ s.invalid <=> OfKind(events, "invalid") # {}
      /\ ~s.invalid => (s.text <=> ~NoAnswer(events))
                       /\ (s.failed <=> OfKind(events, "failure") # {})
  <2>1. Answered(events, Len(events)) <=> ~NoAnswer(events)
    BY <1>2 DEF Answered, NoAnswer, OfKind
  <2> QED
    BY <1>2, <2>1, ScanCorrect DEF ScanMeans, OfKind
<1>4. ASSUME ~s.invalid PROVE Aggregate(s.usages) = UsageOf(events, Counted(events))
  <2>1. /\ tokens \in [Event -> MaybeNat] /\ cost \in [Event -> MaybeNat]
        /\ \A e \in Event : tokens[e] = e.tokens /\ cost[e] = e.cost
    BY EventParts
  <2>2. \A i \in DOMAIN s.usages : s.usages[i] \in Event
    BY <1>1, LenProperties DEF ScanState
  <2> HIDE DEF s
  <2>3. Kept(tokens, s) = SumKnown([i \in DOMAIN s.usages |-> s.usages[i].tokens])
    BY <2>2 DEF Kept, SumKnown, KnownSum
  <2>4. Kept(cost, s) = SumKnown([i \in DOMAIN s.usages |-> s.usages[i].cost])
    BY <2>2 DEF Kept, SumKnown, KnownSum
  <2> HIDE DEF tokens, cost
  <2>5. Kept(tokens, s) = Total(events, Counted(events), "tokens")
    BY <1>4, <2>1, FigureTotal DEF s
  <2>6. Kept(cost, s) = Total(events, Counted(events), "cost")
    BY <1>4, <2>1, FigureTotal DEF s
  <2> QED
    BY <2>3, <2>4, <2>5, <2>6 DEF Aggregate, UsageOf
<1>5. /\ Parse(events).verdict = IF s.failed \/ s.invalid THEN "failure"
                                 ELSE IF s.text THEN "output" ELSE "silent"
      /\ Parse(events).usage = IF s.invalid THEN Unknown ELSE Aggregate(s.usages)
  BY DEF Parse
<1>6. Unknown \in Usage /\ Aggregate(s.usages) \in Usage
  BY <1>1, AggregateTypes DEF Unknown, Usage, MaybeNat, ScanState
<1> HIDE DEF s
<1> QED
  BY <1>3, <1>4, <1>5, <1>6

-------------------------------------------------------------------------------
ReportInv == /\ GroupInv
             /\ stdout \in Seq(Event) /\ usage \in Usage
             /\ code \in [Attempts -> ExitCodes \cup {None}]
             /\ UsageCountedOnce

LEMMA ReportInit == Init => ReportInv
<1> SUFFICES ASSUME Init PROVE ReportInv
  OBVIOUS
<1>1. GroupInv
  BY GroupInit
<1>2. stdout \in Seq(Event) /\ usage \in Usage
  BY DEF Init, Unknown, Usage, MaybeNat
<1>3. code \in [Attempts -> ExitCodes \cup {None}] /\ UsageCountedOnce
  BY DEF Init, UsageCountedOnce
<1> QED
  BY <1>1, <1>2, <1>3 DEF ReportInv

(* A process and its termination leave the report alone, and the exit code *)
(* of a leader that is over.                                               *)
LEMMA ReportKept ==
  ASSUME ReportInv, UNCHANGED callVars,
         call = "ended" /\ how[attempt] \in {"returned", "transient", "failed"} =>
           code'[attempt] = code[attempt]
  PROVE  /\ usage' \in Usage
         /\ stdout' = stdout => UsageCountedOnce'
BY DEF ReportInv, callVars, UsageCountedOnce

LEMMA CodeKept ==
  ASSUME ReportInv, NEW r \in Attempts, Stop(r) \/ StopLoop(r) \/ Process(r),
         call = "ended", how[attempt] \in {"returned", "transient", "failed"}
  PROVE  code'[attempt] = code[attempt]
<1>1. Leader \notin alive[attempt] /\ attempt \in Attempts
  BY DEF ReportInv, GroupInv, GroupTypeOK, OrderInv, DeadInv, Attempts
<1>2. code \in [Attempts -> ExitCodes \cup {None}]
  BY DEF ReportInv
<1>3. ASSUME NEW survivors, code' = CodeAfter(r, survivors)
      PROVE  code'[attempt] = code[attempt]
  BY <1>1, <1>2, <1>3 DEF CodeAfter
<1>4. CASE Stop(r)
  BY <1>3, <1>4 DEF Stop, Terminate, GraceEnds, GraceExpires, Reap, Signal, Refuse
<1>5. CASE StopLoop(r)
  BY <1>5 DEF StopLoop
<1>6. CASE Process(r)
  BY <1>1, <1>2, <1>6 DEF Process, Fork, Exit
<1> QED
  BY <1>4, <1>5, <1>6

LEMMA ReportStep == ReportInv /\ [Next]_vars => ReportInv'
<1> SUFFICES ASSUME ReportInv, [Next]_vars PROVE ReportInv'
  OBVIOUS
<1>1. GroupInv /\ GroupInv'
  BY GroupStep DEF ReportInv
<1>2. call \in Waiting => attempt \in Attempts /\ how \in [Attempts -> {"none", "returned",
                "failed", "transient", "timedOut", "cancelled", "detached", "unspawned"}]
  BY <1>1 DEF GroupInv, GroupTypeOK, OrderInv, Attempts, Waiting
<1>3. Unknown \in Usage /\ <<>> \in Seq(Event)
  BY DEF Unknown, Usage, MaybeNat
<1>4. code' \in [Attempts -> ExitCodes \cup {None}]
  <2>1. code \in [Attempts -> ExitCodes \cup {None}]
    BY DEF ReportInv
  <2>2. CASE code' = code
    BY <2>1, <2>2
  <2>3. CASE \E r \in Attempts, c \in ExitCodes : code' = [code EXCEPT ![r] = c]
    BY <2>1, <2>3
  <2>4. CASE \E r \in Attempts : \E survivors : code' = CodeAfter(r, survivors)
    BY <2>1, <2>4 DEF CodeAfter, ExitCodes
  <2>5. ASSUME NEW r \in Attempts, Stop(r)
        PROVE  \E survivors : code' = CodeAfter(r, survivors)
    BY <2>5 DEF Stop, Terminate, GraceEnds, GraceExpires, Reap, Signal, Refuse
  <2>6. ASSUME NEW r \in Attempts, Process(r)
        PROVE  code' = code \/ \E c \in ExitCodes : code' = [code EXCEPT ![r] = c]
    BY <2>6 DEF Process, Fork, Exit
  <2> QED
    BY <2>2, <2>3, <2>4, <2>5, <2>6 DEF Next, Spawn, SpawnFails, Spawned, Finish, Timeout,
       Cancel, CancelSpawning, CancelCommunicating, CancelStopping, Stopped, StopLoop, Write,
       groupVars, vars
<1>5. CASE Finish
  <2>1. stdout \in Seq(Event) /\ stdout' = stdout /\ attempt' = attempt
    BY <1>5 DEF ReportInv, Finish
  <2> DEFINE p == Parse(stdout)
             silent == code[attempt] = "zero" /\ p.verdict = "silent"
  <2>2. usage' = IF silent THEN Unknown ELSE p.usage
    BY <1>5 DEF Finish, End
  <2>3. how'[attempt] = CASE code[attempt] = "zero" /\ p.verdict = "output" -> "returned"
                          [] code[attempt] = "transient"                     -> "transient"
                          [] OTHER                                           -> "failed"
    <3>1. call \in Waiting
      BY <1>5 DEF Finish, Waiting
    <3> QED
      BY <1>2, <1>5, <3>1 DEF Finish, End
  <2>4. /\ p.usage \in Usage
        /\ OfKind(stdout, "invalid") # {} => p.usage = Unknown /\ p.verdict = "failure"
        /\ OfKind(stdout, "invalid") = {} =>
             /\ p.usage = UsageOf(stdout, Counted(stdout))
             /\ p.verdict = "silent" <=> OfKind(stdout, "failure") = {} /\ NoAnswer(stdout)
    BY <2>1, ParseMeans
  <2> HIDE DEF p
  <2>5. usage' \in Usage
    BY <1>3, <2>2, <2>4
  <2>6. how'[attempt] = "returned" => p.verdict = "output"
    BY <2>3
  <2> DEFINE unanswered == /\ code[attempt] = "zero" /\ OfKind(stdout, "failure") = {}
                           /\ NoAnswer(stdout)
  <2>7. IF unanswered \/ OfKind(stdout, "invalid") # {}
        THEN usage' = Unknown /\ how'[attempt] # "returned"
        ELSE usage' = UsageOf(stdout, Counted(stdout))
    <3>1. CASE OfKind(stdout, "invalid") # {}
      BY <2>2, <2>4, <2>6, <3>1
    <3>2. CASE OfKind(stdout, "invalid") = {} /\ unanswered
      BY <2>2, <2>4, <2>6, <3>2
    <3>3. CASE OfKind(stdout, "invalid") = {} /\ ~unanswered
      BY <2>2, <2>4, <3>3
    <3> QED
      BY <3>1, <3>2, <3>3
  <2>8. UsageCountedOnce'
    <3>1. code' = code
      BY <1>5 DEF Finish, groupVars
    <3> QED
      BY <2>1, <2>7, <3>1 DEF UsageCountedOnce, NoAnswer, Counted
  <2> QED
    BY <1>1, <1>4, <2>1, <2>5, <2>8 DEF ReportInv
<1>6. CASE SpawnFails
  <2>1. /\ stdout' = <<>> /\ usage' = Unknown /\ attempt' = attempt + 1
        /\ how' = [how EXCEPT ![attempt + 1] = "failed"]
    BY <1>6 DEF SpawnFails
  <2>2. how'[attempt'] = "failed"
    BY <1>1, <1>6, <2>1 DEF SpawnFails, MayStart, GroupInv, GroupTypeOK, Attempts
  <2>3. UsageOf(<<>>, Units(<<>>) \ OfKind(<<>>, "uncounted")) = Unknown
    BY DEF UsageOf, Units, Total, Unknown
  <2>4. UsageCountedOnce'
    BY <2>1, <2>2, <2>3 DEF UsageCountedOnce
  <2> QED
    BY <1>1, <1>3, <1>4, <2>1, <2>4 DEF ReportInv
<1>7. ASSUME usage' = usage, stdout' \in {stdout, <<>>}, call' # "ended"
      PROVE  ReportInv'
  BY <1>1, <1>3, <1>4, <1>7 DEF ReportInv, UsageCountedOnce
<1>8. CASE Spawn \/ Spawned \/ Timeout \/ (Cancel /\ CancelCommunicating)
  BY <1>7, <1>8 DEF Spawn, Spawned, Timeout, CancelCommunicating
<1>9. ASSUME NEW outcome \in {"timedOut", "cancelled", "detached", "unspawned"}, End(outcome, Unknown),
             call \in Waiting, UNCHANGED <<attempt, stdout>>
      PROVE  ReportInv'
  <2>1. usage' = Unknown /\ how'[attempt'] = outcome
    BY <1>2, <1>9 DEF End
  <2>2. UsageCountedOnce'
    BY <2>1 DEF UsageCountedOnce
  <2> QED
    BY <1>1, <1>3, <1>4, <1>9, <2>1, <2>2 DEF ReportInv
<1>10. CASE Stopped \/ (Cancel /\ (CancelSpawning \/ CancelStopping))
  BY <1>9, <1>10 DEF Stopped, CancelSpawning, CancelStopping, Waiting
<1>11. CASE \E r \in Attempts : Stop(r) \/ StopLoop(r) \/ Process(r)
  <2>1. UNCHANGED <<callVars, stdout>>
    BY <1>11 DEF Stop, Terminate, GraceEnds, GraceExpires, Reap, StopLoop, Process, Fork, Exit
  <2>2. call = "ended" /\ how[attempt] \in {"returned", "transient", "failed"} =>
          code'[attempt] = code[attempt]
    BY <1>11, CodeKept
  <2> QED
    BY <1>1, <1>4, <2>1, <2>2, ReportKept DEF ReportInv
<1>12. CASE \E e \in Event : Write(e)
  <2>1. PICK e \in Event : Write(e)
    BY <1>12
  <2>2. call' # "ended" /\ usage' = usage /\ stdout' = Append(stdout, e)
    BY <2>1 DEF Write, callVars
  <2>3. stdout' \in Seq(Event)
    BY <2>2, AppendProperties DEF ReportInv
  <2>4. UsageCountedOnce'
    BY <2>2 DEF UsageCountedOnce
  <2> QED
    BY <1>1, <1>4, <2>2, <2>3, <2>4 DEF ReportInv
<1>13. CASE UNCHANGED vars
  BY <1>1, <1>4, <1>13, ReportKept DEF ReportInv, vars, callVars
<1> QED
  BY <1>5, <1>6, <1>8, <1>10, <1>11, <1>12, <1>13 DEF Next, Cancel

LEMMA ReportInvariant == Spec => []ReportInv
<1> QED
  BY ReportInit, ReportStep, PTL DEF Spec

(* Type correctness, down to the usage that a call reports.                *)
THEOREM ProviderTypes == Spec => []TypeOK
<1>1. ReportInv => TypeOK
  BY DEF ReportInv, GroupInv, GroupTypeOK, OrderInv, TypeOK, Waiting, Attempts
<1> QED
  BY <1>1, ReportInvariant, PTL

(* Whatever a stream holds and in whatever order, an attempt that returned *)
(* or failed reports each identified step once, at its first report, and   *)
(* everything else but costs without a token object; or nothing, exactly   *)
(* for the two reasons the code has, an invalid figure and an agent that   *)
(* exits with zero and ends with no message or a blank one.                *)
THEOREM UsageIsCountedOnce == Spec => []UsageCountedOnce
<1>1. ReportInv => UsageCountedOnce
  BY DEF ReportInv
<1> QED
  BY <1>1, ReportInvariant, PTL
===============================================================================
