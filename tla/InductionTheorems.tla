--------------------------- MODULE InductionTheorems ---------------------------
(***************************************************************************)
(* Induction over data, by minimal counterexamples: a finite set has no    *)
(* infinitely descending chain of subsets, and the natural numbers have    *)
(* none at all.  From this follow the values of functions defined by       *)
(* recursion over the length of a sequence, which TaskGraph,               *)
(* ProviderStream and Configuration scan with, and the sum of a function   *)
(* over a finite set, which the books of UsageLedger are stated with.      *)
(***************************************************************************)
EXTENDS Integers, FiniteSets, Functions, FiniteSetTheorems, TLAPS

(* A set of subsets of a finite set has a minimal member. *)
LEMMA MinimalSubset ==
  ASSUME NEW S, IsFiniteSet(S), NEW F \in SUBSET SUBSET S, F # {}
  PROVE  \E T \in F : \A U \in F : ~(U \subseteq T /\ U # T)
<1>1. IsWellFoundedOn(StrictSubsetOrdering(S), SUBSET S)
  BY FS_StrictSubsetOrderingWellFounded, FS_FiniteSubsetsOfFinite
<1>2. PICK T \in F : \A U \in F : ~(<<U, T>> \in StrictSubsetOrdering(S))
  BY <1>1, WFMin
<1>3. \A U \in F : <<U, T>> \in (SUBSET S) \X (SUBSET S)
  OBVIOUS
<1> QED
  BY <1>2, <1>3 DEF StrictSubsetOrdering

(* A nonempty set of numbers has a least one. *)
LEMMA LeastMember ==
  ASSUME NEW S \in SUBSET Nat, S # {}
  PROVE  \E m \in S : \A n \in S : m <= n
<1>1. PICK x \in Nat : x \in S
  OBVIOUS
<1> DEFINE below(m) == {k \in S : k <= m}
           F == {below(m) : m \in {k \in S : k <= x}}
<1>2. x \in Nat /\ IsFiniteSet(0 .. x)
  BY <1>1, FS_Interval
<1>3. F \in SUBSET SUBSET (0 .. x) /\ F # {}
  <2>1. ASSUME NEW m \in S, m <= x PROVE below(m) \subseteq 0 .. x
    <3>1. \A k \in S : k \in Nat
      OBVIOUS
    <3>2. \A k \in S : k <= m => k \in 0 .. x
      BY <1>2, <2>1, <3>1
    <3> QED
      BY <3>2
  <2>2. below(x) \in F
    BY <1>1
  <2> QED
    BY <2>1, <2>2
<1>4. PICK T \in F : \A U \in F : ~(U \subseteq T /\ U # T)
  <2> DEFINE R == 0 .. x
  <2>1. IsFiniteSet(R) /\ F \in SUBSET SUBSET R /\ F # {}
    BY <1>2, <1>3
  <2> HIDE DEF F, R
  <2> QED
    BY <2>1, MinimalSubset
<1>5. PICK m \in S : m <= x /\ T = below(m)
  OBVIOUS
<1>6. ASSUME NEW n \in S PROVE m <= n
  <2> SUFFICES ASSUME n < m PROVE FALSE
    OBVIOUS
  <2>1. n \in Nat /\ m \in Nat /\ n <= x
    BY <1>1, <1>5
  <2>2. below(n) \in F
    BY <1>1, <2>1
  <2>3. \A k \in S : k <= n => k <= m
    BY <2>1
  <2>4. below(n) \subseteq below(m)
    BY <2>3
  <2>5. m \in below(m) /\ m \notin below(n)
    BY <2>1
  <2> QED
    BY <1>4, <1>5, <2>2, <2>4, <2>5
<1> QED
  BY <1>6

(* What holds of 0, and of every number up to N whose predecessor it holds *)
(* of, holds of all numbers up to N.                                       *)
LEMMA UpTo ==
  ASSUME NEW N \in Nat, NEW H \in SUBSET (0 .. N), 0 \in H,
         \A n \in 1 .. N : n - 1 \in H => n \in H
  PROVE  H = 0 .. N
<1> DEFINE F == (0 .. N) \ H
<1> SUFFICES ASSUME F # {} PROVE FALSE
  OBVIOUS
<1>1. F \in SUBSET Nat
  OBVIOUS
<1> HIDE DEF F
<1>2. PICK m \in F : \A n \in F : m <= n
  BY <1>1, LeastMember
<1>3. m \in 1 .. N /\ m - 1 \in 0 .. N /\ ~(m <= m - 1)
  BY DEF F
<1>4. m - 1 \in H
  BY <1>2, <1>3 DEF F
<1> QED
  BY <1>3, <1>4 DEF F

(* The recursion over 0 .. N has a solution. *)
Recurs(N, base, step, g) ==
  g = [n \in 0 .. N |-> IF n = 0 THEN base ELSE step[n][g[n - 1]]]

LEMMA Recursion ==
  ASSUME NEW N \in Nat, NEW S, NEW base \in S, NEW step \in [1 .. N -> [S -> S]]
  PROVE  \E g \in [0 .. N -> S] : Recurs(N, base, step, g)
<1> DEFINE Solved(n, g) == /\ g \in [0 .. n -> S] /\ g[0] = base
                           /\ \A k \in 1 .. n : g[k] = step[k][g[k - 1]]
           H == {n \in 0 .. N : \E g : Solved(n, g)}
<1>1. 0 \in H
  <2>1. Solved(0, [n \in 0 .. 0 |-> base])
    OBVIOUS
  <2> HIDE DEF Solved
  <2> QED
    BY <2>1
<1>2. ASSUME NEW n \in 1 .. N, n - 1 \in H PROVE n \in H
  <2>1. PICK g : Solved(n - 1, g)
    BY <1>2
  <2>2. /\ n \in Nat /\ n > 0 /\ n \in 1 .. N
        /\ \A k \in 0 .. n : k \in Nat /\ (k < n => k \in 0 .. n - 1)
        /\ \A k \in 1 .. n : k - 1 \in 0 .. n - 1 /\ (k < n => k \in 1 .. n - 1)
    OBVIOUS
  <2> DEFINE h == [k \in 0 .. n |-> IF k < n THEN g[k] ELSE step[n][g[n - 1]]]
  <2>3. step[n][g[n - 1]] \in S
    BY <2>1, <2>2
  <2>4. h \in [0 .. n -> S]
    BY <2>1, <2>2, <2>3
  <2>5. h[0] = base
    BY <2>1, <2>2
  <2>6. ASSUME NEW k \in 1 .. n PROVE h[k] = step[k][h[k - 1]]
    <3>1. k \in 0 .. n /\ k - 1 \in 0 .. n /\ k - 1 < n /\ (k < n => k \in 1 .. n - 1)
          /\ (~(k < n) => k = n)
      OBVIOUS
    <3>2. h[k - 1] = g[k - 1]
      BY <3>1
    <3> QED
      BY <2>1, <3>1, <3>2
  <2> HIDE DEF h
  <2>7. Solved(n, h)
    BY <2>4, <2>5, <2>6
  <2> HIDE DEF Solved
  <2> QED
    BY <2>2, <2>7
<1>3. N \in H
  <2>1. H \in SUBSET (0 .. N)
    OBVIOUS
  <2> HIDE DEF H
  <2>2. H = 0 .. N
    BY <1>1, <1>2, <2>1, UpTo
  <2> QED
    BY <2>2
<1>4. PICK g : Solved(N, g)
  BY <1>3
<1>5. g = [n \in 0 .. N |-> IF n = 0 THEN base ELSE step[n][g[n - 1]]]
  <2>1. \A n \in 0 .. N : n = 0 \/ n \in 1 .. N
    OBVIOUS
  <2> QED
    BY <1>4, <2>1
<1> QED
  BY <1>4, <1>5 DEF Recurs

-------------------------------------------------------------------------------
(* The recursion that defines the sum of f over S. *)
Chosen(s) == CHOOSE x \in s : TRUE
Sums(f, S, g) ==
  g = [s \in SUBSET S |-> IF s = {} THEN 0 ELSE f[Chosen(s)] + g[s \ {Chosen(s)}]]

LEMMA SumDefinition ==
  ASSUME NEW f, NEW S
  PROVE  SumFunctionOnSet(f, S) = (CHOOSE g : Sums(f, S, g))[S]
BY DEF SumFunctionOnSet, FoldFunctionOnSet, MapThenFoldSet, Sums, Chosen

LEMMA ChosenIn == ASSUME NEW s, s # {} PROVE Chosen(s) \in s
BY DEF Chosen

(* Two solutions of the recursion agree where both are defined. *)
LEMMA SumsUnique ==
  ASSUME NEW f, NEW S, IsFiniteSet(S), NEW T \in SUBSET S,
         NEW g, Sums(f, S, g), NEW h, Sums(f, T, h)
  PROVE  \A s \in SUBSET T : g[s] = h[s]
<1> DEFINE F == {s \in SUBSET T : g[s] # h[s]}
<1> SUFFICES ASSUME F # {} PROVE FALSE
  OBVIOUS
<1>1. PICK s \in F : \A u \in F : ~(u \subseteq s /\ u # s)
  <2>1. IsFiniteSet(T) /\ F \in SUBSET SUBSET T
    BY FS_Subset
  <2> HIDE DEF F
  <2> QED
    BY <2>1, MinimalSubset
<1>2. s \in SUBSET T /\ s \in SUBSET S /\ g[s] # h[s]
  OBVIOUS
<1>3. /\ g[s] = IF s = {} THEN 0 ELSE f[Chosen(s)] + g[s \ {Chosen(s)}]
      /\ h[s] = IF s = {} THEN 0 ELSE f[Chosen(s)] + h[s \ {Chosen(s)}]
  <2>1. g = [u \in SUBSET S |-> IF u = {} THEN 0 ELSE f[Chosen(u)] + g[u \ {Chosen(u)}]]
    BY DEF Sums
  <2>2. h = [u \in SUBSET T |-> IF u = {} THEN 0 ELSE f[Chosen(u)] + h[u \ {Chosen(u)}]]
    BY DEF Sums
  <2> QED
    BY <1>2, <2>1, <2>2
<1>4. s # {}
  BY <1>2, <1>3
<1>5. g[s \ {Chosen(s)}] = h[s \ {Chosen(s)}]
  BY <1>1, <1>2, <1>4, ChosenIn
<1> QED
  BY <1>2, <1>3, <1>4, <1>5

(* The recursion has a solution on every finite set. *)
LEMMA SumsExist ==
  ASSUME NEW f, NEW S, IsFiniteSet(S)
  PROVE  \E g : Sums(f, S, g)
<1> DEFINE F == {T \in SUBSET S : ~ \E g : Sums(f, T, g)}
<1> SUFFICES ASSUME F # {} PROVE FALSE
  OBVIOUS
<1>1. PICK T \in F : \A U \in F : ~(U \subseteq T /\ U # T)
  <2>1. F \in SUBSET SUBSET S
    OBVIOUS
  <2> HIDE DEF F
  <2> QED
    BY <2>1, MinimalSubset
<1>2. \A U \in SUBSET T : U # T => \E g : Sums(f, U, g)
  BY <1>1
<1>3. IsFiniteSet(T) /\ \A U \in SUBSET T : IsFiniteSet(U)
  BY FS_Subset
<1> DEFINE below(U) == CHOOSE g : Sums(f, U, g)
           sum(s) == IF s = {} THEN 0
                     ELSE f[Chosen(s)] + below(s \ {Chosen(s)})[s \ {Chosen(s)}]
           h == [s \in SUBSET T |-> sum(s)]
<1>4. ASSUME NEW U \in SUBSET T, U # T
      PROVE  Sums(f, U, below(U))
  BY <1>2, <1>4
<1>5. ASSUME NEW U \in SUBSET T, U # T
      PROVE  below(U)[U] = sum(U)
  <2>1. Sums(f, U, below(U))
    BY <1>4, <1>5
  <2> DEFINE k == below(U)
  <2>2. k = [u \in SUBSET U |-> IF u = {} THEN 0 ELSE f[Chosen(u)] + k[u \ {Chosen(u)}]]
    BY <2>1 DEF Sums
  <2> HIDE DEF k
  <2>3. k[U] = IF U = {} THEN 0 ELSE f[Chosen(U)] + k[U \ {Chosen(U)}]
    BY <2>2
  <2>4. CASE U = {}
    BY <2>3, <2>4 DEF k
  <2>5. CASE U # {}
    <3> DEFINE V == U \ {Chosen(U)}
    <3>1. V \in SUBSET U /\ V \in SUBSET T /\ V # T
      BY <2>5, ChosenIn
    <3>2. Sums(f, V, below(V))
      BY <1>4, <3>1
    <3>3. IsFiniteSet(U) /\ Sums(f, U, k) /\ V \in SUBSET V
      BY <1>3, <2>1 DEF k
    <3> HIDE DEF V, below
    <3>4. k[V] = below(V)[V]
      BY <3>1, <3>2, <3>3, SumsUnique
    <3> QED
      BY <2>3, <2>5, <3>4 DEF V, k
  <2> QED
    BY <2>4, <2>5
<1>6. ASSUME NEW s \in SUBSET T
      PROVE  h[s] = IF s = {} THEN 0 ELSE f[Chosen(s)] + h[s \ {Chosen(s)}]
  <2>1. CASE s = {}
    BY <2>1
  <2>2. CASE s # {}
    <3> DEFINE V == s \ {Chosen(s)}
    <3>1. V \in SUBSET T /\ V # T
      BY <2>2, ChosenIn
    <3>2. below(V)[V] = sum(V)
      BY <1>5, <3>1
    <3>3. h[V] = sum(V)
      BY <3>1
    <3>4. h[s] = f[Chosen(s)] + below(V)[V]
      BY <2>2
    <3> QED
      BY <2>2, <3>2, <3>3, <3>4
  <2> QED
    BY <2>1, <2>2
<1>7. Sums(f, T, h)
  <2>1. h = [s \in SUBSET T |-> h[s]]
    OBVIOUS
  <2> HIDE DEF h
  <2> QED
    BY <1>6, <2>1 DEF Sums
<1> QED
  BY <1>1, <1>7

-------------------------------------------------------------------------------
(* The sum over the empty set, and the sum over another one by its chosen  *)
(* element.                                                                *)
LEMMA SumUnfold ==
  ASSUME NEW f, NEW S, IsFiniteSet(S)
  PROVE  SumFunctionOnSet(f, S) =
           IF S = {} THEN 0
           ELSE f[Chosen(S)] + SumFunctionOnSet(f, S \ {Chosen(S)})
<1> DEFINE g(T) == CHOOSE h : Sums(f, T, h)
           T == S \ {Chosen(S)}
<1>1. Sums(f, S, g(S))
  BY SumsExist
<1>2. IsFiniteSet(T) /\ T \in SUBSET S
  BY FS_RemoveElement
<1>3. Sums(f, T, g(T))
  <2> HIDE DEF T
  <2> QED
    BY <1>2, SumsExist
<1>4. g(S)[T] = g(T)[T]
  <2> HIDE DEF g, T
  <2> QED
    BY <1>1, <1>2, <1>3, SumsUnique
<1>5. g(S)[S] = IF S = {} THEN 0 ELSE f[Chosen(S)] + g(S)[T]
  <2> DEFINE k == g(S)
  <2>1. k = [s \in SUBSET S |-> IF s = {} THEN 0 ELSE f[Chosen(s)] + k[s \ {Chosen(s)}]]
    BY <1>1 DEF Sums
  <2> HIDE DEF k
  <2>2. k[S] = IF S = {} THEN 0 ELSE f[Chosen(S)] + k[S \ {Chosen(S)}]
    BY <2>1
  <2> QED
    BY <2>2 DEF k
<1>6. SumFunctionOnSet(f, S) = g(S)[S] /\ SumFunctionOnSet(f, T) = g(T)[T]
  BY SumDefinition
<1> QED
  BY <1>4, <1>5, <1>6

(* A sum of integers is an integer. *)
LEMMA SumInt ==
  ASSUME NEW S, IsFiniteSet(S), NEW f, \A x \in S : f[x] \in Int
  PROVE  SumFunctionOnSet(f, S) \in Int
<1> DEFINE F == {T \in SUBSET S : SumFunctionOnSet(f, T) \notin Int}
<1> SUFFICES ASSUME F # {} PROVE FALSE
  OBVIOUS
<1>1. PICK T \in F : \A U \in F : ~(U \subseteq T /\ U # T)
  <2>1. F \in SUBSET SUBSET S
    OBVIOUS
  <2> HIDE DEF F
  <2> QED
    BY <2>1, MinimalSubset
<1>2. IsFiniteSet(T) /\ T \subseteq S
  BY FS_Subset
<1>3. SumFunctionOnSet(f, T) =
        IF T = {} THEN 0 ELSE f[Chosen(T)] + SumFunctionOnSet(f, T \ {Chosen(T)})
  BY <1>2, SumUnfold
<1>4. CASE T = {}
  BY <1>1, <1>3, <1>4
<1>5. CASE T # {}
  <2>1. Chosen(T) \in T
    BY <1>5, ChosenIn
  <2>2. SumFunctionOnSet(f, T \ {Chosen(T)}) \in Int
    BY <1>1, <1>2, <2>1
  <2> QED
    BY <1>1, <1>2, <1>3, <1>5, <2>1, <2>2
<1> QED
  BY <1>4, <1>5

(* A sum of natural numbers is a natural number. *)
LEMMA SumNat ==
  ASSUME NEW S, IsFiniteSet(S), NEW f, \A x \in S : f[x] \in Nat
  PROVE  SumFunctionOnSet(f, S) \in Nat
<1> DEFINE F == {T \in SUBSET S : SumFunctionOnSet(f, T) \notin Nat}
<1> SUFFICES ASSUME F # {} PROVE FALSE
  OBVIOUS
<1>1. PICK T \in F : \A U \in F : ~(U \subseteq T /\ U # T)
  <2>1. F \in SUBSET SUBSET S
    OBVIOUS
  <2> HIDE DEF F
  <2> QED
    BY <2>1, MinimalSubset
<1>2. IsFiniteSet(T) /\ T \subseteq S
  BY FS_Subset
<1>3. SumFunctionOnSet(f, T) =
        IF T = {} THEN 0 ELSE f[Chosen(T)] + SumFunctionOnSet(f, T \ {Chosen(T)})
  BY <1>2, SumUnfold
<1>4. CASE T = {}
  BY <1>1, <1>3, <1>4
<1>5. CASE T # {}
  <2>1. Chosen(T) \in T
    BY <1>5, ChosenIn
  <2>2. SumFunctionOnSet(f, T \ {Chosen(T)}) \in Nat
    BY <1>1, <1>2, <2>1
  <2> QED
    BY <1>1, <1>2, <1>3, <1>5, <2>1, <2>2
<1> QED
  BY <1>4, <1>5

(* The sum by any of its elements: the order of the recursion plays no     *)
(* part.                                                                   *)
LEMMA SumRemove ==
  ASSUME NEW S, IsFiniteSet(S), NEW f, \A x \in S : f[x] \in Int, NEW y \in S
  PROVE  SumFunctionOnSet(f, S) = f[y] + SumFunctionOnSet(f, S \ {y})
<1> DEFINE Off(T, x) == SumFunctionOnSet(f, T) # f[x] + SumFunctionOnSet(f, T \ {x})
           F == {T \in SUBSET S : \E x \in T : Off(T, x)}
<1> SUFFICES ASSUME F # {} PROVE FALSE
  OBVIOUS
<1>1. PICK T \in F : \A U \in F : ~(U \subseteq T /\ U # T)
  <2>1. F \in SUBSET SUBSET S
    OBVIOUS
  <2> HIDE DEF F
  <2> QED
    BY <2>1, MinimalSubset
<1>2. PICK x \in T : Off(T, x)
  OBVIOUS
<1>3. \A U \in SUBSET T : U # T => \A z \in U : ~Off(U, z)
  BY <1>1
<1>4. \A U \in SUBSET T : IsFiniteSet(U) /\ \A z \in U : f[z] \in Int
  BY FS_Subset
<1> DEFINE c == Chosen(T)
<1>5. c \in T
  BY <1>2, ChosenIn
<1> HIDE DEF F, Off, c
<1>6. SumFunctionOnSet(f, T) = f[c] + SumFunctionOnSet(f, T \ {c})
  BY <1>2, <1>4, SumUnfold DEF c
<1>7. CASE x = c
  BY <1>2, <1>6, <1>7 DEF Off
<1>8. CASE x # c
  <2>1. /\ T \ {c} \in SUBSET T /\ T \ {c} # T /\ x \in T \ {c}
        /\ T \ {x} \in SUBSET T /\ T \ {x} # T /\ c \in T \ {x}
        /\ (T \ {c}) \ {x} = (T \ {x}) \ {c}
        /\ (T \ {x}) \ {c} \in SUBSET T
    BY <1>2, <1>5, <1>8
  <2>2. SumFunctionOnSet(f, T \ {c}) = f[x] + SumFunctionOnSet(f, (T \ {c}) \ {x})
    BY <1>3, <2>1 DEF Off
  <2>3. SumFunctionOnSet(f, T \ {x}) = f[c] + SumFunctionOnSet(f, (T \ {x}) \ {c})
    BY <1>3, <2>1 DEF Off
  <2>4. SumFunctionOnSet(f, (T \ {x}) \ {c}) \in Int
    BY <1>4, <2>1, SumInt
  <2>5. f[x] \in Int /\ f[c] \in Int
    BY <1>2, <1>4, <1>5
  <2>6. SumFunctionOnSet(f, T) = f[x] + SumFunctionOnSet(f, T \ {x})
    <3>1. SumFunctionOnSet(f, T) =
            f[c] + (f[x] + SumFunctionOnSet(f, (T \ {x}) \ {c}))
      BY <1>6, <2>1, <2>2, Zenon
    <3> QED
      BY <2>3, <2>4, <2>5, <3>1
  <2> QED
    BY <1>2, <2>6 DEF Off
<1> QED
  BY <1>7, <1>8

(* Functions that agree on a set have the same sum over it. *)
LEMMA SumSame ==
  ASSUME NEW S, IsFiniteSet(S), NEW f, NEW g, \A x \in S : f[x] = g[x]
  PROVE  SumFunctionOnSet(f, S) = SumFunctionOnSet(g, S)
<1> DEFINE F == {T \in SUBSET S : SumFunctionOnSet(f, T) # SumFunctionOnSet(g, T)}
<1> SUFFICES ASSUME F # {} PROVE FALSE
  OBVIOUS
<1>1. PICK T \in F : \A U \in F : ~(U \subseteq T /\ U # T)
  <2>1. F \in SUBSET SUBSET S
    OBVIOUS
  <2> HIDE DEF F
  <2> QED
    BY <2>1, MinimalSubset
<1>2. IsFiniteSet(T) /\ T \subseteq S
  BY FS_Subset
<1>3. /\ SumFunctionOnSet(f, T) =
           IF T = {} THEN 0 ELSE f[Chosen(T)] + SumFunctionOnSet(f, T \ {Chosen(T)})
      /\ SumFunctionOnSet(g, T) =
           IF T = {} THEN 0 ELSE g[Chosen(T)] + SumFunctionOnSet(g, T \ {Chosen(T)})
  BY <1>2, SumUnfold
<1>4. CASE T = {}
  BY <1>1, <1>3, <1>4
<1>5. CASE T # {}
  <2>1. Chosen(T) \in T
    BY <1>5, ChosenIn
  <2>2. SumFunctionOnSet(f, T \ {Chosen(T)}) = SumFunctionOnSet(g, T \ {Chosen(T)})
    BY <1>1, <1>2, <2>1
  <2> QED
    BY <1>1, <1>2, <1>3, <1>5, <2>1, <2>2
<1> QED
  BY <1>4, <1>5

(* A sum of zeroes is zero. *)
LEMMA SumZero ==
  ASSUME NEW S, IsFiniteSet(S), NEW f, \A x \in S : f[x] = 0
  PROVE  SumFunctionOnSet(f, S) = 0
<1> DEFINE F == {T \in SUBSET S : SumFunctionOnSet(f, T) # 0}
<1> SUFFICES ASSUME F # {} PROVE FALSE
  OBVIOUS
<1>1. PICK T \in F : \A U \in F : ~(U \subseteq T /\ U # T)
  <2>1. F \in SUBSET SUBSET S
    OBVIOUS
  <2> HIDE DEF F
  <2> QED
    BY <2>1, MinimalSubset
<1>2. IsFiniteSet(T) /\ T \subseteq S
  BY FS_Subset
<1>3. SumFunctionOnSet(f, T) =
        IF T = {} THEN 0 ELSE f[Chosen(T)] + SumFunctionOnSet(f, T \ {Chosen(T)})
  BY <1>2, SumUnfold
<1>4. T # {} => Chosen(T) \in T /\ SumFunctionOnSet(f, T \ {Chosen(T)}) = 0
  BY <1>1, <1>2, ChosenIn
<1> QED
  BY <1>1, <1>2, <1>3, <1>4

(* A term is added to a sum, is taken from it, or changes in it. *)
LEMMA SumAdd ==
  ASSUME NEW S, IsFiniteSet(S), NEW f, NEW g, NEW y, y \notin S,
         \A x \in S : f[x] \in Int /\ g[x] = f[x], g[y] \in Int
  PROVE  SumFunctionOnSet(g, S \cup {y}) = SumFunctionOnSet(f, S) + g[y]
<1> DEFINE T == S \cup {y}
<1>1. IsFiniteSet(T) /\ y \in T /\ T \ {y} = S /\ \A x \in T : g[x] \in Int
  BY FS_AddElement
<1> HIDE DEF T
<1>2. SumFunctionOnSet(g, T) = g[y] + SumFunctionOnSet(g, S)
  BY <1>1, SumRemove
<1>3. SumFunctionOnSet(g, S) = SumFunctionOnSet(f, S) /\ SumFunctionOnSet(f, S) \in Int
  BY SumSame, SumInt
<1> QED
  BY <1>2, <1>3 DEF T

LEMMA SumDrop ==
  ASSUME NEW S, IsFiniteSet(S), NEW f, NEW g, NEW y \in S,
         \A x \in S : f[x] \in Int, \A x \in S \ {y} : g[x] = f[x]
  PROVE  SumFunctionOnSet(g, S \ {y}) = SumFunctionOnSet(f, S) - f[y]
<1>1. IsFiniteSet(S \ {y})
  BY FS_RemoveElement
<1>2. SumFunctionOnSet(f, S) = f[y] + SumFunctionOnSet(f, S \ {y})
  BY SumRemove
<1>3. /\ SumFunctionOnSet(g, S \ {y}) = SumFunctionOnSet(f, S \ {y})
      /\ SumFunctionOnSet(f, S \ {y}) \in Int
  BY <1>1, SumSame, SumInt
<1> QED
  BY <1>2, <1>3

LEMMA SumUpdate ==
  ASSUME NEW S, IsFiniteSet(S), NEW f, NEW g, NEW y \in S,
         \A x \in S : f[x] \in Int, g[y] \in Int,
         \A x \in S \ {y} : g[x] = f[x]
  PROVE  SumFunctionOnSet(g, S) = SumFunctionOnSet(f, S) + g[y] - f[y]
<1>1. IsFiniteSet(S \ {y})
  BY FS_RemoveElement
<1>2. SumFunctionOnSet(g, S \ {y}) = SumFunctionOnSet(f, S \ {y})
  BY <1>1, SumSame
<1>3. SumFunctionOnSet(f, S) = f[y] + SumFunctionOnSet(f, S \ {y})
  BY SumRemove
<1>4. SumFunctionOnSet(g, S) = g[y] + SumFunctionOnSet(g, S \ {y})
  <2>1. \A x \in S : g[x] \in Int
    OBVIOUS
  <2> QED
    BY <2>1, SumRemove
<1>5. SumFunctionOnSet(f, S \ {y}) \in Int
  BY <1>1, SumInt
<1> QED
  BY <1>2, <1>3, <1>4, <1>5
===============================================================================
