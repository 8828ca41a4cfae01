--------------------------- MODULE AcceptanceProofs ----------------------------
(***************************************************************************)
(* What the acceptance of a plan, and of a configuration, is worth: lemmas *)
(* about the operators of TaskGraph, Configuration and Routing, for plans  *)
(* and argument lists of any length.  The loops of the code are functions  *)
(* defined by recursion, and every lemma about one is an induction over    *)
(* its turns.                                                              *)
(***************************************************************************)
EXTENDS TaskGraph, Routing, InductionTheorems, SequenceTheorems

(* Plans.  A turn resolves what depends on nothing unresolved.             *)
Resolve(p, resolved) ==
  resolved \cup {p[i].id : i \in {j \in DOMAIN p : p[j].dependsOn \subseteq resolved}}

LEMMA PlanParts ==
  ASSUME NEW p \in Plans
  PROVE  /\ Len(p) \in Nat /\ DOMAIN p = 1 .. Len(p)
         /\ IsFiniteSet(DOMAIN p) /\ Cardinality(DOMAIN p) = Len(p)
         /\ IsFiniteSet(Ids(p)) /\ Cardinality(Ids(p)) \in Nat /\ Cardinality(Ids(p)) <= Len(p)
         /\ Cardinality(Ids(p)) = Len(p) =>
              \A i, j \in DOMAIN p : p[i].id = p[j].id => i = j
<1>1. Len(p) \in Nat /\ DOMAIN p = 1 .. Len(p)
  BY LenProperties DEF Plans
<1>2. IsFiniteSet(DOMAIN p) /\ Cardinality(DOMAIN p) = Len(p)
  <2> DEFINE n == Len(p)
  <2>1. n \in Int /\ 1 \in Int /\ (IF 1 > n THEN 0 ELSE n - 1 + 1) = n
    BY <1>1
  <2>2. IsFiniteSet(1 .. n) /\ Cardinality(1 .. n) = IF 1 > n THEN 0 ELSE n - 1 + 1
    <3> HIDE DEF n
    <3> QED
      BY <2>1, FS_Interval
  <2> QED
    BY <1>1, <2>1, <2>2
<1> DEFINE idOf == [i \in DOMAIN p |-> p[i].id]
           S == DOMAIN p
           T == Ids(p)
<1>3. idOf \in Surjection(S, T)
  BY DEF Surjection, Ids
<1>4. idOf \in Injection(S, T) => \A i, j \in S : p[i].id = p[j].id => i = j
  <2>1. \A i \in S : idOf[i] = p[i].id
    OBVIOUS
  <2> HIDE DEF idOf
  <2> QED
    BY <2>1 DEF Injection, IsInjective
<1> HIDE DEF idOf, S, T
<1>5. IsFiniteSet(S) /\ Cardinality(S) = Len(p)
  BY <1>2 DEF S
<1>6. /\ IsFiniteSet(T) /\ Cardinality(T) <= Cardinality(S)
      /\ Cardinality(T) = Cardinality(S) <=> idOf \in Injection(S, T)
  BY <1>3, <1>5, FS_Surjection
<1>7. Cardinality(T) \in Nat
  BY <1>6, FS_CardinalityType
<1> QED
  BY <1>1, <1>2, <1>4, <1>5, <1>6, <1>7 DEF S, T

LEMMA TurnsStep ==
  ASSUME NEW p \in Plans
  PROVE  /\ Turns(p)[0] = {}
         /\ \A n \in 0 .. Len(p) : Turns(p)[n] \in SUBSET Ids(p)
         /\ \A n \in 1 .. Len(p) : Turns(p)[n] = Resolve(p, Turns(p)[n - 1])
<1> DEFINE N == Len(p)
           S == SUBSET Ids(p)
           step == [n \in 1 .. N |-> [R \in S |-> Resolve(p, R)]]
           Turned(g) == g = [n \in 0 .. N |-> IF n = 0 THEN {} ELSE Resolve(p, g[n - 1])]
<1>1. N \in Nat
  BY PlanParts
<1>2. \A R \in S : Resolve(p, R) \in S
  BY DEF Resolve, Ids
<1>3. step \in [1 .. N -> [S -> S]] /\ {} \in S
  BY <1>2
<1>4. PICK g \in [0 .. N -> S] : Recurs(N, {}, step, g)
  <2> HIDE DEF N, step, S
  <2> QED
    BY <1>1, <1>3, Recursion
<1>5. Turned(g)
  <2>1. g = [n \in 0 .. N |-> IF n = 0 THEN {} ELSE step[n][g[n - 1]]]
    BY <1>4 DEF Recurs
  <2>2. \A n \in 0 .. N : n # 0 => n \in 1 .. N /\ g[n - 1] \in S
    BY <1>1, <1>4
  <2>3. \A n \in 0 .. N : n # 0 => step[n][g[n - 1]] = Resolve(p, g[n - 1])
    BY <2>2
  <2> HIDE DEF step
  <2> QED
    BY <2>1, <2>3
<1> DEFINE f == Turns(p)
<1>6. f = CHOOSE h : Turned(h)
  BY DEF Turns, Resolve
<1>7. Turned(f)
  <2> HIDE DEF Turned, f
  <2> QED
    BY <1>5, <1>6
<1>8. \A n \in 0 .. N : f[n] = IF n = 0 THEN {} ELSE Resolve(p, f[n - 1])
  <2> HIDE DEF f
  <2> QED
    BY <1>7
<1>9. \A n \in 0 .. N : f[n] \in S
  <2> DEFINE H == {n \in 0 .. N : f[n] \in S}
  <2>1. 0 \in H
    BY <1>1, <1>3, <1>8
  <2>2. ASSUME NEW n \in 1 .. N, n - 1 \in H PROVE n \in H
    <3>1. n \in 0 .. N /\ n # 0
      BY <1>1
    <3> HIDE DEF f, S
    <3> QED
      BY <1>1, <1>2, <1>8, <2>2, <3>1
  <2>3. H \in SUBSET (0 .. N)
    OBVIOUS
  <2> HIDE DEF H, f
  <2>4. H = 0 .. N
    BY <1>1, <2>1, <2>2, <2>3, UpTo
  <2> QED
    BY <2>4 DEF H
<1> QED
  BY <1>1, <1>8, <1>9

(* The order, grown by one task at a time: k tasks are numbered from 1 to  *)
(* k, each after all that it depends on.                                   *)
Numbered(p, k, R, f) ==
  /\ R \in SUBSET Ids(p) /\ Cardinality(R) = k /\ f \in [R -> 1 .. k]
  /\ \A n \in 1 .. k : \E t \in R : f[t] = n
  /\ \A i \in DOMAIN p : p[i].id \in R =>
       \A d \in p[i].dependsOn : d \in R /\ f[d] < f[p[i].id]

(* While tasks are left one of them has only numbered dependencies: one    *)
(* that is resolved in the first turn that resolves any of them.           *)
LEMMA NextTask ==
  ASSUME NEW p \in Plans, Turns(p)[Len(p)] = Ids(p), NEW R \in SUBSET Ids(p), R # Ids(p)
  PROVE  \E i \in DOMAIN p : p[i].id \notin R /\ p[i].dependsOn \subseteq R
<1> DEFINE F == {n \in 0 .. Len(p) : ~(Turns(p)[n] \subseteq R)}
<1>1. Len(p) \in Nat
  BY PlanParts
<1>2. F \in SUBSET Nat /\ F # {}
  <2>1. ~(Turns(p)[Len(p)] \subseteq R)
    <3>1. ~(Ids(p) \subseteq R)
      OBVIOUS
    <3> QED
      BY <3>1, Zenon
  <2> QED
    BY <1>1, <2>1
<1>3. PICK n \in F : \A m \in F : n <= m
  <2> HIDE DEF F
  <2> QED
    BY <1>2, LeastMember
<1>4. n # 0
  BY TurnsStep
<1>5. n \in 1 .. Len(p) /\ n - 1 \in 0 .. Len(p) /\ ~(n <= n - 1)
  BY <1>1, <1>4
<1>6. Turns(p)[n - 1] \subseteq R
  BY <1>3, <1>5
<1>7. PICK t \in Turns(p)[n] : t \notin R
  OBVIOUS
<1>8. t \in Resolve(p, Turns(p)[n - 1]) /\ t \notin Turns(p)[n - 1]
  BY <1>5, <1>6, <1>7, TurnsStep
<1> QED
  BY <1>6, <1>7, <1>8 DEF Resolve

LEMMA NumberOneMore ==
  ASSUME NEW p \in Plans, PlanAccepted(p), NEW k \in 0 .. Len(p) - 1,
         NEW R, NEW f, Numbered(p, k, R, f)
  PROVE  \E S, g : Numbered(p, k + 1, S, g)
<1>1. /\ Len(p) \in Nat /\ IsFiniteSet(Ids(p)) /\ Cardinality(Ids(p)) = Len(p)
      /\ \A i, j \in DOMAIN p : p[i].id = p[j].id => i = j
  BY PlanParts DEF PlanAccepted
<1>2. R \in SUBSET Ids(p) /\ Cardinality(R) = k /\ IsFiniteSet(R) /\ R # Ids(p)
  <2>1. R \in SUBSET Ids(p) /\ Cardinality(R) = k
    BY DEF Numbered
  <2>2. IsFiniteSet(R)
    BY <1>1, <2>1, FS_Subset
  <2> QED
    BY <1>1, <2>1, <2>2
<1>3. PICK i \in DOMAIN p : p[i].id \notin R /\ p[i].dependsOn \subseteq R
  BY <1>2, NextTask DEF PlanAccepted
<1> DEFINE t == p[i].id
           S == R \cup {t}
           g == [s \in S |-> IF s = t THEN k + 1 ELSE f[s]]
<1>4. S \in SUBSET Ids(p) /\ Cardinality(S) = k + 1
  <2>1. t \in Ids(p)
    BY DEF Ids
  <2> HIDE DEF t
  <2> QED
    BY <1>2, <1>3, <2>1, FS_AddElement DEF t
<1>5. f \in [R -> 1 .. k] /\ (\A n \in 1 .. k : \E s \in R : f[s] = n)
  BY DEF Numbered
<1>6. t \notin R /\ g[t] = k + 1 /\ \A s \in R : g[s] = f[s] /\ g[s] \in 1 .. k
  BY <1>3, <1>5
<1>7. k \in Nat /\ k + 1 \in Nat /\ 1 .. k + 1 = (1 .. k) \cup {k + 1}
      /\ \A n \in 1 .. k : n < k + 1
  BY <1>1
<1>8. g \in [S -> 1 .. k + 1]
  <2>1. \A s \in S : g[s] \in 1 .. k + 1
    BY <1>6, <1>7
  <2> QED
    BY <2>1
<1>9. \A n \in 1 .. k + 1 : \E s \in S : g[s] = n
  <2> HIDE DEF g
  <2> QED
    BY <1>5, <1>6, <1>7
<1>10. ASSUME NEW j \in DOMAIN p, p[j].id \in S, NEW d \in p[j].dependsOn
       PROVE  d \in S /\ g[d] < g[p[j].id]
  <2>1. CASE p[j].id = t
    <3>1. j = i
      BY <1>1, <2>1
    <3>2. d \in R
      BY <1>3, <1>10, <3>1
    <3> HIDE DEF g
    <3> QED
      BY <1>6, <1>7, <2>1, <3>2
  <2>2. CASE p[j].id # t
    <3>1. p[j].id \in R
      BY <1>10, <2>2
    <3>2. d \in R /\ f[d] < f[p[j].id]
      BY <1>10, <3>1 DEF Numbered
    <3> HIDE DEF g
    <3> QED
      BY <1>6, <3>1, <3>2
  <2> QED
    BY <2>1, <2>2
<1> HIDE DEF S, g
<1> QED
  BY <1>4, <1>8, <1>9, <1>10 DEF Numbered

LEMMA AcceptedIsExecutable ==
  ASSUME NEW p \in Plans, PlanAccepted(p)
  PROVE  Executable(p)
<1> DEFINE N == Len(p)
           H == {k \in 0 .. N : \E R, f : Numbered(p, k, R, f)}
<1>1. /\ N \in Nat /\ DOMAIN p = 1 .. N /\ IsFiniteSet(Ids(p)) /\ Cardinality(Ids(p)) = N
  BY PlanParts DEF PlanAccepted
<1>2. 0 \in H
  <2>1. Numbered(p, 0, {}, [s \in {} |-> 0])
    BY FS_EmptySet DEF Numbered
  <2> QED
    BY <1>1, <2>1
<1>3. ASSUME NEW k \in 1 .. N, k - 1 \in H PROVE k \in H
  <2>1. PICK R, f : Numbered(p, k - 1, R, f)
    BY <1>3
  <2>2. k - 1 \in 0 .. N - 1 /\ (k - 1) + 1 = k /\ k \in 0 .. N
    BY <1>1
  <2>3. \E S, g : Numbered(p, (k - 1) + 1, S, g)
    BY <2>1, <2>2, NumberOneMore
  <2> QED
    BY <2>2, <2>3
<1>4. N \in H
  <2>1. H \in SUBSET (0 .. N)
    OBVIOUS
  <2> HIDE DEF H
  <2>2. H = 0 .. N
    BY <1>1, <1>2, <1>3, <2>1, UpTo
  <2> QED
    BY <1>1, <2>2
<1>5. PICK R, f : Numbered(p, N, R, f)
  BY <1>4
<1>6. R = Ids(p)
  <2>1. R \in SUBSET Ids(p) /\ Cardinality(R) = N
    BY <1>5 DEF Numbered
  <2> QED
    BY <1>1, <2>1, FS_Subset
<1>7. /\ f \in [Ids(p) -> DOMAIN p]
      /\ \A i \in DOMAIN p : \E t \in Ids(p) : f[t] = i
      /\ \A i \in DOMAIN p : \A d \in p[i].dependsOn :
           d \in Ids(p) /\ f[d] < f[p[i].id]
  BY <1>1, <1>5, <1>6 DEF Numbered, Ids
<1> QED
  BY <1>7 DEF Executable, PlanAccepted

(* Back: the n-th task of an order is resolved after n turns.              *)
LEMMA ExecutableIsAccepted ==
  ASSUME NEW p \in Plans, Executable(p)
  PROVE  PlanAccepted(p)
<1> DEFINE N == Len(p)
<1>1. /\ N \in Nat /\ DOMAIN p = 1 .. N /\ IsFiniteSet(DOMAIN p) /\ Cardinality(DOMAIN p) = N
      /\ IsFiniteSet(Ids(p)) /\ Cardinality(Ids(p)) \in Nat /\ Cardinality(Ids(p)) <= N
  BY PlanParts
<1>2. PICK order \in [Ids(p) -> DOMAIN p] :
         /\ \A i \in DOMAIN p : \E t \in Ids(p) : order[t] = i
         /\ \A i \in DOMAIN p : \A d \in p[i].dependsOn :
              d \in Ids(p) /\ order[d] < order[p[i].id]
  BY DEF Executable
<1>3. Cardinality(Ids(p)) = N
  <2> DEFINE S == Ids(p)
             T == DOMAIN p
  <2>1. order \in Surjection(S, T)
    BY <1>2 DEF Surjection
  <2>2. IsFiniteSet(S)
    BY <1>1
  <2> HIDE DEF S, T
  <2>3. Cardinality(T) <= Cardinality(S)
    BY <2>1, <2>2, FS_Surjection
  <2> QED
    BY <1>1, <2>3 DEF S, T
<1>4. ASSUME NEW i \in DOMAIN p
      PROVE  p[i].dependsOn \subseteq Ids(p) /\ p[i].id \notin p[i].dependsOn
  <2>1. \A d \in p[i].dependsOn : d \in Ids(p) /\ order[d] < order[p[i].id]
    BY <1>2
  <2>2. p[i].id \in Ids(p)
    BY DEF Ids
  <2>3. order[p[i].id] \in Nat
    BY <1>1, <1>2, <2>2
  <2> QED
    BY <2>1, <2>3
<1>5. Turns(p)[N] = Ids(p)
  <2> DEFINE H == {n \in 0 .. N : \A t \in Ids(p) : order[t] <= n => t \in Turns(p)[n]}
  <2>1. \A t \in Ids(p) : order[t] \in 1 .. N
    BY <1>1, <1>2
  <2>2. 0 \in H
    BY <1>1, <2>1
  <2>3. ASSUME NEW n \in 1 .. N, n - 1 \in H PROVE n \in H
    <3> SUFFICES ASSUME NEW t \in Ids(p), order[t] <= n PROVE t \in Turns(p)[n]
      BY <1>1
    <3>1. PICK i \in DOMAIN p : p[i].id = t
      BY DEF Ids
    <3>2. ASSUME NEW d \in p[i].dependsOn PROVE d \in Turns(p)[n - 1]
      <4>1. d \in Ids(p) /\ order[d] < order[t]
        BY <1>2, <3>1
      <4>2. order[d] <= n - 1
        <5>1. order[d] \in Nat /\ order[t] \in Nat /\ n \in Nat
          BY <1>1, <2>1, <4>1
        <5> QED
          BY <4>1, <5>1
      <4> QED
        BY <2>3, <4>1, <4>2
    <3>3. Turns(p)[n] = Resolve(p, Turns(p)[n - 1])
      BY TurnsStep
    <3> QED
      BY <3>1, <3>2, <3>3 DEF Resolve
  <2>4. H = 0 .. N
    <3>1. H \in SUBSET (0 .. N)
      OBVIOUS
    <3> HIDE DEF H
    <3> QED
      BY <1>1, <2>2, <2>3, <3>1, UpTo
  <2>5. N \in H
    BY <1>1, <2>4
  <2>6. \A t \in Ids(p) : t \in Turns(p)[N]
    BY <1>1, <2>1, <2>5
  <2>7. Turns(p)[N] \in SUBSET Ids(p)
    <3>1. N \in 0 .. Len(p)
      BY <1>1
    <3> QED
      BY <3>1, TurnsStep
  <2> QED
    BY <2>6, <2>7
<1> QED
  BY <1>3, <1>4, <1>5 DEF PlanAccepted, Executable

-------------------------------------------------------------------------------
(* Argument lists.  The scan of the validator, argument by argument.       *)
FlagState == [takes : BOOLEAN, found : Seq(Arguments)]

LEMMA FlagTypes ==
  ASSUME NEW s \in FlagState, NEW a \in Arguments
  PROVE  ReadFlag(s, a) \in FlagState
<1>1. ValueOf(a) \in Arguments
  BY DEF ValueOf, Arguments
<1>2. s.found \in Seq(Arguments) /\ Append(s.found, a) \in Seq(Arguments)
      /\ Append(s.found, ValueOf(a)) \in Seq(Arguments)
  BY <1>1, AppendProperties DEF FlagState
<1> QED
  BY <1>2 DEF FlagState, ReadFlag

LEMMA FlagsStep ==
  ASSUME NEW args \in Seq(Arguments)
  PROVE  /\ FlagsRead(args)[0] = [takes |-> FALSE, found |-> <<>>]
         /\ \A n \in 0 .. Len(args) : FlagsRead(args)[n] \in FlagState
         /\ \A n \in 1 .. Len(args) :
              FlagsRead(args)[n] = ReadFlag(FlagsRead(args)[n - 1], args[n])
<1> DEFINE N == Len(args)
           base == [takes |-> FALSE, found |-> <<>>]
           step == [n \in 1 .. N |-> [s \in FlagState |-> ReadFlag(s, args[n])]]
           Reads(g) == g = [n \in 0 .. N |-> IF n = 0 THEN base
                                             ELSE ReadFlag(g[n - 1], args[n])]
<1>1. N \in Nat /\ \A n \in 1 .. N : args[n] \in Arguments
  BY LenProperties
<1>2. base \in FlagState
  BY DEF FlagState
<1>3. step \in [1 .. N -> [FlagState -> FlagState]]
  BY <1>1, FlagTypes
<1>4. PICK g \in [0 .. N -> FlagState] : Recurs(N, base, step, g)
  <2> HIDE DEF N, step, base
  <2> QED
    BY <1>1, <1>2, <1>3, Recursion
<1>5. Reads(g)
  <2>1. g = [n \in 0 .. N |-> IF n = 0 THEN base ELSE step[n][g[n - 1]]]
    BY <1>4 DEF Recurs
  <2>2. \A n \in 0 .. N : n # 0 => n \in 1 .. N /\ g[n - 1] \in FlagState
    BY <1>1, <1>4
  <2>3. \A n \in 0 .. N : n # 0 => step[n][g[n - 1]] = ReadFlag(g[n - 1], args[n])
    BY <2>2
  <2> HIDE DEF step, base
  <2> QED
    BY <2>1, <2>3
<1> DEFINE f == FlagsRead(args)
<1>6. f = CHOOSE h : Reads(h)
  BY DEF FlagsRead
<1>7. Reads(f)
  <2> HIDE DEF Reads, f
  <2> QED
    BY <1>5, <1>6
<1>8. \A n \in 0 .. N : f[n] = IF n = 0 THEN base ELSE ReadFlag(f[n - 1], args[n])
  <2> HIDE DEF f, base
  <2> QED
    BY <1>7
<1>9. \A n \in 0 .. N : f[n] \in FlagState
  <2> DEFINE H == {n \in 0 .. N : f[n] \in FlagState}
  <2>1. 0 \in H
    BY <1>1, <1>2, <1>8
  <2>2. ASSUME NEW n \in 1 .. N, n - 1 \in H PROVE n \in H
    <3>1. n \in 0 .. N /\ n # 0
      BY <1>1
    <3> HIDE DEF f, base
    <3> QED
      BY <1>1, <1>8, <2>2, <3>1, FlagTypes
  <2>3. H \in SUBSET (0 .. N)
    OBVIOUS
  <2> HIDE DEF H, f
  <2>4. H = 0 .. N
    BY <1>1, <2>1, <2>2, <2>3, UpTo
  <2> QED
    BY <2>4 DEF H
<1> QED
  BY <1>1, <1>8, <1>9

LEMMA ArgumentAppended ==
  ASSUME NEW found \in Seq(Arguments), NEW a \in Arguments
  PROVE  ToSet(Append(found, a)) = ToSet(found) \cup {a}
<1> DEFINE more == Append(found, a)
<1>1. /\ Len(found) \in Nat /\ Len(more) = Len(found) + 1
      /\ DOMAIN found = 1 .. Len(found) /\ DOMAIN more = 1 .. Len(more)
      /\ more[Len(found) + 1] = a /\ \A i \in 1 .. Len(found) : more[i] = found[i]
  BY AppendProperties, LenProperties
<1>2. 1 .. Len(found) + 1 = (1 .. Len(found)) \cup {Len(found) + 1}
  BY <1>1
<1> HIDE DEF more
<1>3. ToSet(more) = ToSet(found) \cup {a}
  BY <1>1, <1>2 DEF ToSet
<1> QED
  BY <1>3 DEF more

(* In a command line that starts, the scan takes a value exactly after a   *)
(* sandbox flag: no value is a flag itself.                                *)
LEMMA TakesValue ==
  ASSUME NEW args \in Seq(Arguments), ~NotStarted(args), NEW n \in 1 .. Len(args)
  PROVE  /\ FlagsRead(args)[n].takes <=> args[n] \in SandboxFlags
         /\ FlagsRead(args)[n - 1].takes <=> n > 1 /\ args[n - 1] \in SandboxFlags
         /\ FlagsRead(args)[n - 1].takes => args[n] \notin Options
<1>1. /\ Len(args) \in Nat /\ DOMAIN args = 1 .. Len(args)
      /\ \A i \in DOMAIN args : args[i] \in Arguments
  BY LenProperties
<1>2. ~FlagsRead(args)[0].takes
  BY FlagsStep
<1>3. ASSUME NEW m \in 1 .. Len(args)
      PROVE  FlagsRead(args)[m].takes <=>
               ~FlagsRead(args)[m - 1].takes /\ args[m] \in SandboxFlags
  <2> DEFINE s == FlagsRead(args)[m - 1]
             t == FlagsRead(args)[m]
  <2>1. m - 1 \in 0 .. Len(args)
    BY <1>1
  <2>2. s \in FlagState /\ t = ReadFlag(s, args[m])
    BY <2>1, FlagsStep
  <2> HIDE DEF s, t
  <2>3. s.takes \in BOOLEAN
    BY <2>2 DEF FlagState
  <2>4. t.takes <=> ~s.takes /\ args[m] \in SandboxFlags
    BY <2>2, <2>3 DEF ReadFlag
  <2> QED
    BY <2>4 DEF s, t
<1>4. ASSUME NEW m \in 1 .. Len(args), m > 1, args[m - 1] \in SandboxFlags
      PROVE  args[m] \notin Options
  <2>1. m - 1 \in DOMAIN args /\ m - 1 # Len(args) /\ (m - 1) + 1 = m
    BY <1>1, <1>4
  <2> QED
    BY <1>4, <2>1 DEF NotStarted
<1>5. SandboxFlags \in SUBSET Options
  BY DEF SandboxFlags, Options, Arguments
<1>6. ASSUME NEW m \in 1 .. Len(args), FlagsRead(args)[m - 1].takes
      PROVE  m > 1 /\ args[m - 1] \in SandboxFlags
  <2>1. m # 1
    BY <1>2, <1>6
  <2>2. m - 1 \in 1 .. Len(args) /\ m > 1
    BY <1>1, <2>1
  <2> QED
    BY <1>3, <1>6, <2>2
<1>7. ASSUME NEW m \in 1 .. Len(args)
      PROVE  FlagsRead(args)[m].takes <=> args[m] \in SandboxFlags
  BY <1>3, <1>4, <1>5, <1>6, <1>7
<1>8. n > 1 => n - 1 \in 1 .. Len(args)
  BY <1>1
<1> QED
  BY <1>4, <1>6, <1>7, <1>8

(* The modes set by the first n arguments. *)
ModesUpTo(args, n) ==
  {args[i] : i \in {j \in 1 .. n : j > 1 /\ args[j - 1] \in SandboxFlags}}
    \cup {ValueOf(args[i]) : i \in {j \in 1 .. n : args[j] \in SandboxAssigned}}

LEMMA ModesTurn ==
  ASSUME NEW args \in Seq(Arguments), ~NotStarted(args), NEW n \in 1 .. Len(args),
         ToSet(FlagsRead(args)[n - 1].found) = ModesUpTo(args, n - 1)
  PROVE  ToSet(FlagsRead(args)[n].found) = ModesUpTo(args, n)
<1> DEFINE s == FlagsRead(args)[n - 1]
           t == FlagsRead(args)[n]
           a == args[n]
<1>1. /\ n \in Nat /\ n - 1 \in 0 .. Len(args) /\ a \in Arguments
      /\ 1 .. n = (1 .. n - 1) \cup {n}
  BY LenProperties
<1>2. s \in FlagState /\ t = ReadFlag(s, a)
  BY <1>1, FlagsStep
<1>3. /\ s.takes <=> n > 1 /\ args[n - 1] \in SandboxFlags
      /\ s.takes => a \notin Options
  BY TakesValue
<1>4. ModesUpTo(args, n) =
        ModesUpTo(args, n - 1)
          \cup (IF n > 1 /\ args[n - 1] \in SandboxFlags THEN {a} ELSE {})
          \cup (IF a \in SandboxAssigned THEN {ValueOf(a)} ELSE {})
  BY <1>1 DEF ModesUpTo
<1>5. SandboxAssigned \in SUBSET Options /\ ValueOf(a) \in Arguments
  BY DEF SandboxAssigned, LongAssigned, Options, Arguments, ValueOf
<1> HIDE DEF s, t, a
<1>6. s.found \in Seq(Arguments) /\ s.takes \in BOOLEAN
  BY <1>2 DEF FlagState
<1>7. CASE s.takes
  <2>1. t.found = Append(s.found, a)
    BY <1>2, <1>7 DEF ReadFlag
  <2>2. ToSet(t.found) = ToSet(s.found) \cup {a}
    BY <1>1, <1>6, <2>1, ArgumentAppended
  <2> QED
    BY <1>3, <1>4, <1>5, <1>7, <2>2 DEF s, t
<1>8. CASE ~s.takes /\ a \in SandboxAssigned
  <2>1. t.found = Append(s.found, ValueOf(a))
    BY <1>2, <1>8 DEF ReadFlag
  <2>2. ToSet(t.found) = ToSet(s.found) \cup {ValueOf(a)}
    BY <1>5, <1>6, <2>1, ArgumentAppended
  <2> QED
    BY <1>3, <1>4, <1>8, <2>2 DEF s, t
<1>9. CASE ~s.takes /\ a \notin SandboxAssigned
  <2>1. t.found = s.found
    BY <1>2, <1>9 DEF ReadFlag
  <2> QED
    BY <1>3, <1>4, <1>9, <2>1 DEF s, t
<1> QED
  BY <1>7, <1>8, <1>9

LEMMA ModesFound ==
  ASSUME NEW args \in Seq(Arguments), ~NotStarted(args)
  PROVE  SandboxModes(args) = ToSet(Sandboxes(args).found)
<1> DEFINE N == Len(args)
           H == {n \in 0 .. N : ToSet(FlagsRead(args)[n].found) = ModesUpTo(args, n)}
<1>1. N \in Nat /\ DOMAIN args = 1 .. N
  BY LenProperties
<1>2. 0 \in H
  <2>1. FlagsRead(args)[0].found = <<>>
    BY FlagsStep
  <2>2. ToSet(<<>>) = {} /\ ModesUpTo(args, 0) = {}
    BY DEF ToSet, ModesUpTo
  <2>3. ToSet(FlagsRead(args)[0].found) = ModesUpTo(args, 0)
    BY <2>1, <2>2
  <2>4. 0 \in 0 .. N
    BY <1>1
  <2> QED
    BY <2>3, <2>4
<1>3. ASSUME NEW n \in 1 .. N, n - 1 \in H PROVE n \in H
  <2>1. ToSet(FlagsRead(args)[n].found) = ModesUpTo(args, n)
    BY <1>3, ModesTurn
  <2> QED
    BY <1>1, <2>1
<1>4. ToSet(FlagsRead(args)[N].found) = ModesUpTo(args, N)
  <2>1. H \in SUBSET (0 .. N)
    OBVIOUS
  <2>2. H = 0 .. N
    <3> HIDE DEF H, N
    <3> QED
      BY <1>1, <1>2, <1>3, <2>1, UpTo
  <2> QED
    BY <1>1, <2>2
<1>5. {args[i] : i \in {j \in 1 .. N : j > 1 /\ args[j - 1] \in SandboxFlags}}
        = {args[i + 1] : i \in {j \in DOMAIN args : j < N /\ args[j] \in SandboxFlags}}
  <2>1. \A i \in 1 .. N : i > 1 => i - 1 \in DOMAIN args /\ i - 1 < N /\ (i - 1) + 1 = i
    BY <1>1
  <2>2. \A i \in DOMAIN args : i < N => i + 1 \in 1 .. N /\ i + 1 > 1 /\ (i + 1) - 1 = i
    BY <1>1
  <2> HIDE DEF N
  <2> QED
    BY <2>1, <2>2
<1>6. ModesUpTo(args, N) = SandboxModes(args)
  BY <1>1, <1>5 DEF ModesUpTo, SandboxModes
<1> QED
  BY <1>4, <1>6 DEF Sandboxes

(* A Codex adapter that is accepted with a boundary asks for it.           *)
LEMMA AcceptedSandbox ==
  ASSUME NEW provider \in Provider, ProviderAccepted(provider),
         provider.command = "codex", provider.access # "unrestricted"
  PROVE  RunsWithin(provider.args, ExpectedSandbox(provider.access))
<1> DEFINE args == provider.args
           x == ExpectedSandbox(provider.access)
<1>1. args \in Seq(Arguments) /\ DOMAIN args = 1 .. Len(args) /\ Len(args) \in Nat
  BY LenProperties DEF Provider
<1>2. /\ {"--bypass", "--add-dir"} \cap ToSet(args) = {} /\ ~OverridesSandbox(args)
      /\ Sandboxes(args).found = <<x>>
  BY DEF ProviderAccepted
<1> HIDE DEF args, x
<1>3. ~Loosened(args)
  <2>1. "--config=sandbox" \notin ToSet(args)
    BY <1>2 DEF OverridesSandbox, ToSet
  <2>2. "sandbox_mode" \in MentionsSandbox
    BY DEF MentionsSandbox
  <2> QED
    BY <1>2, <2>1, <2>2 DEF Loosened, OverridesSandbox
<1>4. ToSet(<<x>>) = {x}
  BY DEF ToSet
<1>5. ~NotStarted(args) => SandboxModes(args) = {x}
  BY <1>1, <1>2, <1>4, ModesFound
<1>6. RunsWithin(args, x)
  BY <1>3, <1>5 DEF RunsWithin
<1> QED
  BY <1>6 DEF args, x

-------------------------------------------------------------------------------
(* Selection: the least by cost, then by name, exists and is unique, so    *)
(* that whoever is eligible is not passed over for nobody.                 *)
LEMMA CheapestExists ==
  ASSUME NEW workers, NEW eligible \in SUBSET Nat, eligible # {},
         \A w \in eligible : workers[w].cost \in Nat
  PROVE  /\ Cheapest(workers, eligible) \in eligible
         /\ \A v \in eligible : workers[Cheapest(workers, eligible)].cost <= workers[v].cost
<1> DEFINE costs == {workers[w].cost : w \in eligible}
<1>1. PICK c \in costs : \A d \in costs : c <= d
  <2>1. costs \in SUBSET Nat /\ costs # {}
    OBVIOUS
  <2> HIDE DEF costs
  <2> QED
    BY <2>1, LeastMember
<1> DEFINE least == {w \in eligible : workers[w].cost = c}
<1>2. PICK w \in least : \A v \in least : w <= v
  <2>1. least \in SUBSET Nat /\ least # {}
    OBVIOUS
  <2> HIDE DEF least
  <2> QED
    BY <2>1, LeastMember
<1>3. w \in eligible /\ \A v \in eligible \ {w} : Before(workers, w, v)
  <2> SUFFICES ASSUME NEW v \in eligible \ {w} PROVE Before(workers, w, v)
    OBVIOUS
  <2>1. c <= workers[v].cost /\ workers[w].cost = c
    BY <1>1
  <2>2. workers[v].cost = c => w <= v
    BY <1>2
  <2>3. c \in Nat /\ workers[v].cost \in Nat /\ w \in Nat /\ v \in Nat /\ w # v
    BY <1>1
  <2> QED
    BY <2>1, <2>2, <2>3 DEF Before
<1> DEFINE x == Cheapest(workers, eligible)
<1>4. x \in eligible /\ \A v \in eligible \ {x} : Before(workers, x, v)
  BY <1>3 DEF Cheapest
<1>5. ASSUME NEW v \in eligible PROVE workers[x].cost <= workers[v].cost
  <2>1. workers[x].cost \in Nat /\ workers[v].cost \in Nat
    BY <1>4
  <2>2. v = x \/ Before(workers, x, v)
    BY <1>4
  <2> HIDE DEF x
  <2> QED
    BY <2>1, <2>2 DEF Before
<1> QED
  BY <1>4, <1>5

(* A profile of an accepted configuration is confined to its own access.   *)
LEMMA ProfileConfined ==
  ASSUME NEW c, IsConfig(c), ConfigAccepted(c), NEW w \in DOMAIN c.workers
  PROVE  LET profile  == c.workers[w]
             provider == c.providers[profile.provider]
         IN /\ profile.cost \in Nat /\ provider.access = profile.access
            /\ provider.command = "codex" =>
                 RunsWithin(provider.args, ExpectedSandbox(profile.access))
<1> DEFINE profile == c.workers[w]
           provider == c.providers[profile.provider]
<1>1. profile \in Profile /\ profile \in Profiles(c)
  BY DEF IsConfig, Profiles
<1>2. /\ ProfileAccepted(profile) /\ profile.provider \in DOMAIN c.providers
      /\ provider.access = profile.access
  BY <1>1 DEF ConfigAccepted
<1>3. provider \in Provider /\ ProviderAccepted(provider)
  BY <1>2 DEF IsConfig, ConfigAccepted
<1>4. profile.cost \in Nat /\ profile.access \in Accesses
  BY <1>1, <1>2 DEF Profile, ProfileAccepted
<1>5. provider.access # "unrestricted"
  BY <1>2, <1>4 DEF Accesses
<1> HIDE DEF provider, profile
<1>6. provider.command = "codex" =>
        RunsWithin(provider.args, ExpectedSandbox(profile.access))
  BY <1>2, <1>3, <1>5, AcceptedSandbox
<1> QED
  BY <1>2, <1>4, <1>6 DEF provider, profile

(* A selection among the workers of an accepted configuration.             *)
LEMMA SelectionSound ==
  ASSUME NEW c, IsConfig(c), ConfigAccepted(c), NEW eligible \in SUBSET DOMAIN c.workers
  PROVE  LET w == Cheapest(c.workers, eligible)
         IN IF eligible = {} THEN w = NoAgent
            ELSE /\ w \in eligible /\ w # NoAgent
                 /\ \A v \in eligible : c.workers[w].cost <= c.workers[v].cost
<1>1. DOMAIN c.workers \in SUBSET Nat /\ \A v \in DOMAIN c.workers : c.workers[v].cost \in Nat
  BY ProfileConfined DEF IsConfig
<1>2. CASE eligible = {}
  BY <1>2 DEF Cheapest
<1>3. CASE eligible # {}
  <2>1. eligible \in SUBSET Nat /\ \A v \in eligible : c.workers[v].cost \in Nat
    BY <1>1
  <2>2. /\ Cheapest(c.workers, eligible) \in eligible
        /\ \A v \in eligible :
             c.workers[Cheapest(c.workers, eligible)].cost <= c.workers[v].cost
    BY <1>3, <2>1, CheapestExists
  <2> QED
    BY <1>3, <2>1, <2>2, AgentAssumption
<1> QED
  BY <1>2, <1>3
===============================================================================
