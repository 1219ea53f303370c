----------------------------- MODULE ReadsProofs ------------------------------
(***************************************************************************)
(* Lemmas about what is read of the rows that are kept: sums over sets, the *)
(* rollups of the runs, the monitor, the queue of the reviewers, and what   *)
(* is said of runs side by side.                                            *)
(***************************************************************************)
EXTENDS ReviewQueue, Examples, RunCompare, FiniteSetTheorems, SequenceTheorems, WellFoundedInduction, TLAPS

-----------------------------------------------------------------------------
(* Sums. *)

\* Every nonempty set of naturals has a least element.
LEMMA NatMin ==
  ASSUME NEW S \in SUBSET Nat, S # {}
  PROVE  \E n \in S : \A m \in S : n <= m
<1> DEFINE R == OpToRel(<, Nat)
<1>1. IsWellFoundedOn(R, Nat)
  BY NatLessThanWellFounded
<1>2. \A x, y \in Nat : x < y => <<x, y>> \in R
  BY DEF OpToRel
<1> HIDE DEF R
<1>3. PICK x \in S : \A y \in S : ~(<<y, x>> \in R)
  BY <1>1, WFMin
<1>4. \A y \in S : ~(y < x)
  BY <1>2, <1>3
<1> QED
  BY <1>3, <1>4

\* A set with 0, and with n + 1 for each n in it, is all of Nat.
LEMMA NatInduct ==
  ASSUME NEW T, 0 \in T, \A n \in Nat : n \in T => n + 1 \in T
  PROVE  \A n \in Nat : n \in T
<1> SUFFICES ASSUME NEW k \in Nat, k \notin T PROVE FALSE
  OBVIOUS
<1> DEFINE S == {n \in Nat : n \notin T}
<1>1. PICK n \in S : \A m \in S : n <= m
  <2>1. S \in SUBSET Nat /\ S # {}
    OBVIOUS
  <2> HIDE DEF S
  <2> QED
    BY <2>1, NatMin
<1>2. n # 0
  OBVIOUS
<1>3. n - 1 \in Nat /\ n - 1 \in T
  BY <1>1, <1>2
<1>4. (n - 1) + 1 \in T
  BY <1>3
<1> QED
  BY <1>4

One(s) == CHOOSE x \in s : TRUE
Solves(g, f, S) ==
  g = [s \in SUBSET S |-> IF s = {} THEN 0 ELSE f[One(s)] + g[s \ {One(s)}]]

LEMMA SumIs == \A f, S : SumFunctionOnSet(f, S) = (CHOOSE g : Solves(g, f, S))[S]
BY DEF SumFunctionOnSet, FoldFunctionOnSet, MapThenFoldSet, Solves, One

LEMMA OneIn == \A s : s # {} => One(s) \in s
BY DEF One

LEMMA SolvesAt ==
  ASSUME NEW g, NEW f, NEW S, Solves(g, f, S), NEW s \in SUBSET S
  PROVE  g[s] = IF s = {} THEN 0 ELSE f[One(s)] + g[s \ {One(s)}]
<1> DEFINE body(x) == IF x = {} THEN 0 ELSE f[One(x)] + g[x \ {One(x)}]
<1>1. g = [x \in SUBSET S |-> body(x)]
  BY DEF Solves
<1> HIDE DEF body
<1>2. g[s] = body(s)
  BY <1>1
<1> QED
  BY <1>2 DEF body

LEMMA SolutionExists ==
  ASSUME NEW f, NEW S, IsFiniteSet(S)
  PROVE  \E g : Solves(g, f, S)
<1> DEFINE Small(n) == {s \in SUBSET S : Cardinality(s) <= n}
           Upto(g, n) == \A s \in Small(n) : g[s] = IF s = {} THEN 0 ELSE f[One(s)] + g[s \ {One(s)}]
           T == {n \in Nat : \E g : Upto(g, n)}
<1>0. \A s \in SUBSET S : IsFiniteSet(s) /\ Cardinality(s) \in Nat
  BY FS_Subset, FS_CardinalityType
<1>1. 0 \in T
  <2>1. \A s \in Small(0) : s = {}
    BY <1>0, FS_EmptySet
  <2> DEFINE g == [s \in Small(0) |-> 0]
  <2>2. Upto(g, 0)
    BY <2>1
  <2> QED
    BY <2>2
<1>2. \A n \in Nat : n \in T => n + 1 \in T
  <2> TAKE n \in Nat
  <2> HAVE n \in T
  <2>0. PICK g : Upto(g, n)
    OBVIOUS
  <2> DEFINE h == [s \in Small(n + 1) |-> IF s = {} THEN 0 ELSE f[One(s)] + g[s \ {One(s)}]]
  <2>1. Small(n) \subseteq Small(n + 1)
    BY <1>0
  <2>2. \A s \in Small(n) : h[s] = g[s]
    BY <2>0, <2>1
  <2>3. \A s \in Small(n + 1) : s # {} => s \ {One(s)} \in Small(n)
    <3> TAKE s \in Small(n + 1)
    <3> HAVE s # {}
    <3>1. One(s) \in s
      BY OneIn
    <3>2. Cardinality(s \ {One(s)}) = Cardinality(s) - 1
      BY <1>0, <3>1, FS_RemoveElement
    <3> QED
      BY <1>0, <3>2
  <2>4. \A s \in Small(n + 1) : h[s] = IF s = {} THEN 0 ELSE f[One(s)] + g[s \ {One(s)}]
    OBVIOUS
  <2> HIDE DEF Small, h
  <2>5. Upto(h, n + 1)
    BY <2>2, <2>3, <2>4
  <2> HIDE DEF Upto
  <2> QED
    BY <2>5
<1>3. Cardinality(S) \in T
  <2> HIDE DEF T
  <2> QED
    BY <1>0, <1>1, <1>2, NatInduct
<1>4. Small(Cardinality(S)) = SUBSET S
  BY FS_Subset
<1> HIDE DEF Small
<1>5. PICK g : Upto(g, Cardinality(S))
  BY <1>3
<1> DEFINE h == [s \in SUBSET S |-> g[s]]
<1>6. Solves(h, f, S)
  <2>1. \A s \in SUBSET S : h[s] = IF s = {} THEN 0 ELSE f[One(s)] + h[s \ {One(s)}]
    BY <1>4, <1>5
  <2>2. h = [s \in SUBSET S |-> h[s]]
    OBVIOUS
  <2> HIDE DEF h
  <2> QED
    BY <2>1, <2>2 DEF Solves
<1> QED
  BY <1>6

\* Two solutions agree on a set they both reach, if what they sum agrees on it.
LEMMA SolutionsAgree ==
  ASSUME NEW f, NEW g, NEW S, NEW fg, NEW gg, NEW R, IsFiniteSet(S), S \subseteq R,
         Solves(f, fg, S), Solves(g, gg, R), \A x \in S : fg[x] = gg[x]
  PROVE  \A s \in SUBSET S : f[s] = g[s]
<1> DEFINE T == {n \in Nat : \A s \in SUBSET S : Cardinality(s) = n => f[s] = g[s]}
<1>0. \A s \in SUBSET S : IsFiniteSet(s) /\ Cardinality(s) \in Nat
  BY FS_Subset, FS_CardinalityType
<1>1. \A s \in SUBSET S : f[s] = IF s = {} THEN 0 ELSE fg[One(s)] + f[s \ {One(s)}]
  BY SolvesAt
<1>2. \A s \in SUBSET S : g[s] = IF s = {} THEN 0 ELSE gg[One(s)] + g[s \ {One(s)}]
  <2>1. \A s \in SUBSET R : g[s] = IF s = {} THEN 0 ELSE gg[One(s)] + g[s \ {One(s)}]
    BY SolvesAt
  <2> QED
    BY <2>1
<1>3. 0 \in T
  BY <1>0, <1>1, <1>2, FS_EmptySet
<1>4. \A n \in Nat : n \in T => n + 1 \in T
  <2> SUFFICES ASSUME NEW n \in Nat, n \in T, NEW s \in SUBSET S, Cardinality(s) = n + 1
               PROVE  f[s] = g[s]
    OBVIOUS
  <2>1. s # {}
    BY FS_EmptySet
  <2>2. One(s) \in s
    BY <2>1, OneIn
  <2>3. Cardinality(s \ {One(s)}) = n
    <3>1. Cardinality(s \ {One(s)}) = Cardinality(s) - 1
      BY <1>0, <2>2, FS_RemoveElement
    <3> QED
      BY <3>1
  <2>4. f[s \ {One(s)}] = g[s \ {One(s)}]
    BY <2>3
  <2> QED
    BY <1>1, <1>2, <2>1, <2>2, <2>4
<1> HIDE DEF T
<1>5. \A n \in Nat : n \in T
  BY <1>3, <1>4, NatInduct
<1> QED
  BY <1>0, <1>5 DEF T

\* The sum over a set is that over any set that holds it.
LEMMA SumSolves ==
  ASSUME NEW f, NEW S, IsFiniteSet(S), NEW R \in SUBSET S
  PROVE  SumFunctionOnSet(f, R) = (CHOOSE g : Solves(g, f, S))[R]
<1>1. IsFiniteSet(R)
  BY FS_Subset
<1> DEFINE g == CHOOSE x : Solves(x, f, S)
           h == CHOOSE x : Solves(x, f, R)
<1>2. Solves(g, f, S)
  BY SolutionExists
<1>3. Solves(h, f, R)
  BY <1>1, SolutionExists
<1> HIDE DEF g, h
<1>4. h[R] = g[R]
  BY <1>1, <1>2, <1>3, SolutionsAgree
<1> QED
  BY <1>4, SumIs DEF g, h

LEMMA SumEmpty == \A f : SumFunctionOnSet(f, {}) = 0
<1> TAKE f
<1> DEFINE g == CHOOSE x : Solves(x, f, {})
<1>1. Solves(g, f, {})
  BY FS_EmptySet, SolutionExists
<1> HIDE DEF g
<1>2. g[{}] = 0
  BY <1>1, SolvesAt
<1> QED
  BY <1>2, SumIs DEF g

LEMMA SumStep ==
  ASSUME NEW f, NEW S, IsFiniteSet(S), S # {}
  PROVE  SumFunctionOnSet(f, S) = f[One(S)] + SumFunctionOnSet(f, S \ {One(S)})
<1> DEFINE g == CHOOSE x : Solves(x, f, S)
<1>1. Solves(g, f, S)
  BY SolutionExists
<1>2. SumFunctionOnSet(f, S) = g[S] /\ SumFunctionOnSet(f, S \ {One(S)}) = g[S \ {One(S)}]
  BY SumSolves
<1> HIDE DEF g
<1>3. g[S] = IF S = {} THEN 0 ELSE f[One(S)] + g[S \ {One(S)}]
  BY <1>1, SolvesAt
<1> QED
  BY <1>2, <1>3

\* What is summed matters only where it is summed.
LEMMA SumSame ==
  ASSUME NEW f, NEW g, NEW S, IsFiniteSet(S), \A x \in S : f[x] = g[x]
  PROVE  SumFunctionOnSet(f, S) = SumFunctionOnSet(g, S)
<1> DEFINE ff == CHOOSE x : Solves(x, f, S)
           gg == CHOOSE x : Solves(x, g, S)
<1>1. Solves(ff, f, S) /\ Solves(gg, g, S)
  BY SolutionExists
<1> HIDE DEF ff, gg
<1>2. ff[S] = gg[S]
  BY <1>1, SolutionsAgree
<1> QED
  BY <1>2, SumIs DEF ff, gg

LEMMA SumType ==
  ASSUME NEW f, NEW S, IsFiniteSet(S)
  PROVE  /\ (\A x \in S : f[x] \in Int) => SumFunctionOnSet(f, S) \in Int
         /\ (\A x \in S : f[x] \in Nat) => SumFunctionOnSet(f, S) \in Nat
<1> SUFFICES ASSUME NEW D \in {Int, Nat}, \A x \in S : f[x] \in D
             PROVE  SumFunctionOnSet(f, S) \in D
  OBVIOUS
<1> DEFINE T == {n \in Nat : \A s \in SUBSET S : Cardinality(s) = n => SumFunctionOnSet(f, s) \in D}
<1>0. \A s \in SUBSET S : IsFiniteSet(s) /\ Cardinality(s) \in Nat
  BY FS_Subset, FS_CardinalityType
<1>1. 0 \in T
  BY <1>0, SumEmpty, FS_EmptySet
<1>2. \A n \in Nat : n \in T => n + 1 \in T
  <2> SUFFICES ASSUME NEW n \in Nat, n \in T, NEW s \in SUBSET S, Cardinality(s) = n + 1
               PROVE  SumFunctionOnSet(f, s) \in D
    OBVIOUS
  <2>1. s # {}
    BY FS_EmptySet
  <2>2. One(s) \in s
    BY <2>1, OneIn
  <2>3. Cardinality(s \ {One(s)}) = n
    <3>1. Cardinality(s \ {One(s)}) = Cardinality(s) - 1
      BY <1>0, <2>2, FS_RemoveElement
    <3> QED
      BY <3>1
  <2>4. SumFunctionOnSet(f, s \ {One(s)}) \in D /\ f[One(s)] \in D
    BY <2>2, <2>3
  <2>5. SumFunctionOnSet(f, s) = f[One(s)] + SumFunctionOnSet(f, s \ {One(s)})
    BY <1>0, <2>1, SumStep
  <2> QED
    BY <2>4, <2>5
<1> HIDE DEF T
<1>3. Cardinality(S) \in T
  BY <1>0, <1>1, <1>2, NatInduct
<1> QED
  BY <1>3 DEF T

\* An element may be left for last.
LEMMA SumRemove ==
  ASSUME NEW f, NEW S, IsFiniteSet(S), \A x \in S : f[x] \in Int, NEW x \in S
  PROVE  SumFunctionOnSet(f, S) = f[x] + SumFunctionOnSet(f, S \ {x})
<1> DEFINE T == {n \in Nat : \A s \in SUBSET S : Cardinality(s) = n =>
                   \A y \in s : SumFunctionOnSet(f, s) = f[y] + SumFunctionOnSet(f, s \ {y})}
<1>0. \A s \in SUBSET S : IsFiniteSet(s) /\ Cardinality(s) \in Nat /\ SumFunctionOnSet(f, s) \in Int
  BY FS_Subset, FS_CardinalityType, SumType
<1>1. 0 \in T
  BY <1>0, FS_EmptySet
<1>2. \A n \in Nat : n \in T => n + 1 \in T
  <2> SUFFICES ASSUME NEW n \in Nat, n \in T, NEW s \in SUBSET S, Cardinality(s) = n + 1, NEW y \in s
               PROVE  SumFunctionOnSet(f, s) = f[y] + SumFunctionOnSet(f, s \ {y})
    OBVIOUS
  <2> DEFINE c == One(s)
  <2>1. c \in s
    BY OneIn
  <2>2. SumFunctionOnSet(f, s) = f[c] + SumFunctionOnSet(f, s \ {c})
    BY <1>0, SumStep
  <2> HIDE DEF c
  <2>3. CASE y = c
    BY <2>2, <2>3
  <2>4. CASE y # c
    <3>0. Cardinality(s \ {c}) = Cardinality(s) - 1 /\ Cardinality(s \ {y}) = Cardinality(s) - 1
      BY <1>0, <2>1, FS_RemoveElement
    <3>1. Cardinality(s \ {c}) = n /\ Cardinality(s \ {y}) = n
      BY <3>0
    <3>2. SumFunctionOnSet(f, s \ {c}) = f[y] + SumFunctionOnSet(f, (s \ {c}) \ {y})
      BY <2>4, <3>1
    <3>3. SumFunctionOnSet(f, s \ {y}) = f[c] + SumFunctionOnSet(f, (s \ {y}) \ {c})
      BY <2>1, <2>4, <3>1
    <3>4. SumFunctionOnSet(f, (s \ {c}) \ {y}) = SumFunctionOnSet(f, (s \ {y}) \ {c})
      <4>1. (s \ {c}) \ {y} = (s \ {y}) \ {c}
        OBVIOUS
      <4> QED
        BY <4>1
    <3>5. f[c] \in Int /\ f[y] \in Int /\ SumFunctionOnSet(f, (s \ {c}) \ {y}) \in Int
      BY <1>0, <2>1
    <3> QED
      BY <2>2, <3>2, <3>3, <3>4, <3>5
  <2> QED
    BY <2>3, <2>4
<1> HIDE DEF T
<1>3. Cardinality(S) \in T
  BY <1>0, <1>1, <1>2, NatInduct
<1> QED
  BY <1>3 DEF T

LEMMA SumAdd ==
  ASSUME NEW f, NEW S, IsFiniteSet(S), NEW x, x \notin S, \A y \in S \cup {x} : f[y] \in Int
  PROVE  SumFunctionOnSet(f, S \cup {x}) = SumFunctionOnSet(f, S) + f[x]
<1>1. IsFiniteSet(S \cup {x}) /\ (S \cup {x}) \ {x} = S
  BY FS_AddElement
<1>2. SumFunctionOnSet(f, S) \in Int
  BY SumType
<1> QED
  BY <1>1, <1>2, SumRemove
LEMMA SumOne ==
  ASSUME NEW f, NEW x, f[x] \in Int
  PROVE  SumFunctionOnSet(f, {x}) = f[x]
<1>1. SumFunctionOnSet(f, {} \cup {x}) = SumFunctionOnSet(f, {}) + f[x]
  <2>1. IsFiniteSet({}) /\ x \notin {} /\ \A y \in {} \cup {x} : f[y] \in Int
    BY FS_EmptySet
  <2> QED
    BY <2>1, SumAdd
<1>2. {} \cup {x} = {x}
  OBVIOUS
<1> QED
  BY <1>1, <1>2, SumEmpty

\* Two sets with nothing in common are summed one after the other.
LEMMA SumUnion ==
  ASSUME NEW f, NEW A, NEW B, IsFiniteSet(A), IsFiniteSet(B), A \cap B = {},
         \A x \in A \cup B : f[x] \in Int
  PROVE  SumFunctionOnSet(f, A \cup B) = SumFunctionOnSet(f, A) + SumFunctionOnSet(f, B)
<1> DEFINE T == {n \in Nat : \A s \in SUBSET B : Cardinality(s) = n =>
                   SumFunctionOnSet(f, A \cup s) = SumFunctionOnSet(f, A) + SumFunctionOnSet(f, s)}
<1>0. /\ \A s \in SUBSET B : IsFiniteSet(s) /\ Cardinality(s) \in Nat /\ SumFunctionOnSet(f, s) \in Int
      /\ SumFunctionOnSet(f, A) \in Int
  BY FS_Subset, FS_CardinalityType, SumType
<1>1. 0 \in T
  <2>1. \A s \in SUBSET B : Cardinality(s) = 0 => s = {}
    BY <1>0, FS_EmptySet
  <2>2. A \cup {} = A
    OBVIOUS
  <2> QED
    BY <1>0, <2>1, <2>2, SumEmpty
<1>2. \A n \in Nat : n \in T => n + 1 \in T
  <2> SUFFICES ASSUME NEW n \in Nat, n \in T, NEW s \in SUBSET B, Cardinality(s) = n + 1
               PROVE  SumFunctionOnSet(f, A \cup s) = SumFunctionOnSet(f, A) + SumFunctionOnSet(f, s)
    OBVIOUS
  <2> DEFINE c == One(s)
             r == s \ {c}
  <2>1. c \in s
    BY FS_EmptySet, OneIn
  <2> HIDE DEF c
  <2>2. Cardinality(r) = n
    <3>1. Cardinality(r) = Cardinality(s) - 1
      BY <1>0, <2>1, FS_RemoveElement
    <3> QED
      BY <3>1
  <2>3. r \in SUBSET B /\ IsFiniteSet(r) /\ c \notin r /\ s = r \cup {c}
    BY <1>0, <2>1
  <2>4. SumFunctionOnSet(f, A \cup r) = SumFunctionOnSet(f, A) + SumFunctionOnSet(f, r)
    BY <2>2, <2>3
  <2>5. IsFiniteSet(A \cup r) /\ c \notin A \cup r /\ A \cup s = (A \cup r) \cup {c}
    BY <2>1, <2>3, FS_Union
  <2> HIDE DEF r
  <2>6. \A x \in (A \cup r) \cup {c} : f[x] \in Int
    BY <2>1, <2>3
  <2>7. SumFunctionOnSet(f, (A \cup r) \cup {c}) = SumFunctionOnSet(f, A \cup r) + f[c]
    BY <2>5, <2>6, SumAdd
  <2>8. SumFunctionOnSet(f, r \cup {c}) = SumFunctionOnSet(f, r) + f[c]
    BY <2>3, <2>6, SumAdd
  <2>9. SumFunctionOnSet(f, r) \in Int /\ f[c] \in Int
    BY <1>0, <2>3, <2>6
  <2> QED
    BY <1>0, <2>3, <2>4, <2>5, <2>7, <2>8, <2>9
<1> HIDE DEF T
<1>3. Cardinality(B) \in T
  BY <1>0, <1>1, <1>2, NatInduct
<1> QED
  BY <1>3 DEF T

\* A part sums to no more than the whole, and to the whole if the rest is nothing.
LEMMA SumPart ==
  ASSUME NEW f, NEW S, IsFiniteSet(S), \A x \in S : f[x] \in Nat, NEW R \in SUBSET S
  PROVE  /\ SumFunctionOnSet(f, R) <= SumFunctionOnSet(f, S)
         /\ SumFunctionOnSet(f, S) = SumFunctionOnSet(f, R) + SumFunctionOnSet(f, S \ R)
<1> DEFINE Q == S \ R
<1>1. IsFiniteSet(R) /\ IsFiniteSet(Q) /\ R \cap Q = {} /\ R \cup Q = S /\ Q \subseteq S
  BY FS_Subset
<1> HIDE DEF Q
<1>2. \A x \in R \cup Q : f[x] \in Int
  BY <1>1
<1>3. SumFunctionOnSet(f, R \cup Q) = SumFunctionOnSet(f, R) + SumFunctionOnSet(f, Q)
  BY <1>1, <1>2, SumUnion
<1>4. SumFunctionOnSet(f, R) \in Nat /\ SumFunctionOnSet(f, Q) \in Nat
  BY <1>1, SumType
<1>5. SumFunctionOnSet(f, R \cup Q) = SumFunctionOnSet(f, S)
  BY <1>1, Zenon
<1>7. /\ SumFunctionOnSet(f, R) <= SumFunctionOnSet(f, S)
      /\ SumFunctionOnSet(f, S) = SumFunctionOnSet(f, R) + SumFunctionOnSet(f, Q)
  BY <1>3, <1>4, <1>5
<1> QED
  BY <1>7 DEF Q

LEMMA SumZero ==
  ASSUME NEW f, NEW S, IsFiniteSet(S), \A x \in S : f[x] = 0
  PROVE  SumFunctionOnSet(f, S) = 0
<1> DEFINE T == {n \in Nat : \A s \in SUBSET S : Cardinality(s) = n => SumFunctionOnSet(f, s) = 0}
<1>0. \A s \in SUBSET S : IsFiniteSet(s) /\ Cardinality(s) \in Nat
  BY FS_Subset, FS_CardinalityType
<1>1. 0 \in T
  BY <1>0, FS_EmptySet, SumEmpty
<1>2. \A n \in Nat : n \in T => n + 1 \in T
  <2> SUFFICES ASSUME NEW n \in Nat, n \in T, NEW s \in SUBSET S, Cardinality(s) = n + 1
               PROVE  SumFunctionOnSet(f, s) = 0
    OBVIOUS
  <2>1. s # {} /\ One(s) \in s
    BY FS_EmptySet, OneIn
  <2>2. Cardinality(s \ {One(s)}) = n
    <3>1. Cardinality(s \ {One(s)}) = Cardinality(s) - 1
      BY <1>0, <2>1, FS_RemoveElement
    <3> QED
      BY <3>1
  <2>3. SumFunctionOnSet(f, s \ {One(s)}) = 0
    BY <2>2
  <2>4. SumFunctionOnSet(f, s) = f[One(s)] + SumFunctionOnSet(f, s \ {One(s)})
    BY <1>0, <2>1, SumStep
  <2> QED
    BY <2>1, <2>3, <2>4
<1> HIDE DEF T
<1>3. Cardinality(S) \in T
  BY <1>0, <1>1, <1>2, NatInduct
<1> QED
  BY <1>3 DEF T

\* One value changes.
LEMMA SumChange ==
  ASSUME NEW f, NEW g, NEW S, IsFiniteSet(S), \A y \in S : f[y] \in Int /\ g[y] \in Int,
         NEW x \in S, \A y \in S \ {x} : g[y] = f[y]
  PROVE  SumFunctionOnSet(g, S) = SumFunctionOnSet(f, S) + (g[x] - f[x])
<1>1. IsFiniteSet(S \ {x})
  BY FS_RemoveElement
<1>2. SumFunctionOnSet(g, S \ {x}) = SumFunctionOnSet(f, S \ {x})
  BY <1>1, SumSame
<1>3. SumFunctionOnSet(f, S \ {x}) \in Int
  BY <1>1, SumType
<1>4. SumFunctionOnSet(f, S) = f[x] + SumFunctionOnSet(f, S \ {x})
  BY SumRemove
<1>5. SumFunctionOnSet(g, S) = g[x] + SumFunctionOnSet(g, S \ {x})
  BY SumRemove
<1> QED
  BY <1>2, <1>3, <1>4, <1>5

\* A set in parts, and the sum or the size of each part.
AllOf(part, I)  == UNION {part[i] : i \in I}
Each(f, part, I) == [i \in I |-> SumFunctionOnSet(f, part[i])]
Sizes(part, I)   == [i \in I |-> Cardinality(part[i])]

\* The parts of a set, each summed, add up to the set.
LEMMA SumParts ==
  ASSUME NEW f, NEW I, IsFiniteSet(I), NEW part,
         \A i \in I : IsFiniteSet(part[i]) /\ \A x \in part[i] : f[x] \in Int,
         \A i, j \in I : i # j => part[i] \cap part[j] = {}
  PROVE  /\ IsFiniteSet(AllOf(part, I))
         /\ SumFunctionOnSet(f, AllOf(part, I)) = SumFunctionOnSet(Each(f, part, I), I)
<1> DEFINE All(s) == UNION {part[i] : i \in s}
           F == [i \in I |-> SumFunctionOnSet(f, part[i])]
           T == {n \in Nat : \A s \in SUBSET I : Cardinality(s) = n =>
                   /\ IsFiniteSet(All(s))
                   /\ SumFunctionOnSet(f, All(s)) = SumFunctionOnSet(F, s)}
<1>0. \A s \in SUBSET I : IsFiniteSet(s) /\ Cardinality(s) \in Nat
  BY FS_Subset, FS_CardinalityType
<1>1. \A i \in I : F[i] \in Int /\ F[i] = SumFunctionOnSet(f, part[i])
  BY SumType
<1>2. 0 \in T
  <2>1. \A s \in SUBSET I : Cardinality(s) = 0 => s = {}
    BY <1>0, FS_EmptySet
  <2>2. All({}) = {}
    OBVIOUS
  <2> HIDE DEF All, F
  <2> SUFFICES ASSUME NEW s \in SUBSET I, Cardinality(s) = 0
               PROVE  IsFiniteSet(All(s)) /\ SumFunctionOnSet(f, All(s)) = SumFunctionOnSet(F, s)
    OBVIOUS
  <2>3. s = {}
    BY <2>1
  <2>4. SumFunctionOnSet(f, {}) = 0 /\ SumFunctionOnSet(F, {}) = 0 /\ IsFiniteSet({})
    BY SumEmpty, FS_EmptySet
  <2> QED
    BY <2>2, <2>3, <2>4, Zenon
<1>3. \A n \in Nat : n \in T => n + 1 \in T
  <2> SUFFICES ASSUME NEW n \in Nat, n \in T, NEW s \in SUBSET I, Cardinality(s) = n + 1
               PROVE  /\ IsFiniteSet(All(s))
                      /\ SumFunctionOnSet(f, All(s)) = SumFunctionOnSet(F, s)
    <3> HIDE DEF All, F
    <3> QED
      OBVIOUS
  <2> DEFINE c == One(s)
             r == s \ {c}
  <2>1. c \in s
    BY FS_EmptySet, OneIn
  <2> HIDE DEF c
  <2>2. Cardinality(r) = n
    <3>1. Cardinality(r) = Cardinality(s) - 1
      BY <1>0, <2>1, FS_RemoveElement
    <3> QED
      BY <3>1
  <2>3. r \in SUBSET I /\ IsFiniteSet(r) /\ c \notin r /\ s = r \cup {c}
    BY <1>0, <2>1
  <2>4. IsFiniteSet(All(r)) /\ SumFunctionOnSet(f, All(r)) = SumFunctionOnSet(F, r)
    <3> HIDE DEF All, F, r
    <3> QED
      BY <2>2, <2>3
  <2>5. All(s) = All(r) \cup part[c]
    BY <2>3
  <2>6. All(r) \cap part[c] = {}
    BY <2>1, <2>3
  <2>7. \A x \in All(r) \cup part[c] : f[x] \in Int
    BY <2>1, <2>3
  <2> HIDE DEF All, r
  <2>8. IsFiniteSet(part[c])
    BY <2>1
  <2>9. SumFunctionOnSet(f, All(r) \cup part[c]) = SumFunctionOnSet(f, All(r)) + SumFunctionOnSet(f, part[c])
    BY <2>4, <2>6, <2>7, <2>8, SumUnion
  <2>10. SumFunctionOnSet(F, r \cup {c}) = SumFunctionOnSet(F, r) + F[c]
    <3>1. \A i \in r \cup {c} : F[i] \in Int
      BY <1>1, <2>1, <2>3
    <3> HIDE DEF F
    <3> QED
      BY <2>3, <3>1, SumAdd
  <2>11. F[c] = SumFunctionOnSet(f, part[c])
    BY <1>1, <2>1
  <2>12. IsFiniteSet(All(r) \cup part[c])
    BY <2>4, <2>8, FS_Union
  <2> HIDE DEF F
  <2> QED
    BY <2>3, <2>4, <2>5, <2>9, <2>10, <2>11, <2>12
<1> HIDE DEF T, All, F
<1>4. Cardinality(I) \in T
  BY <1>0, <1>2, <1>3, NatInduct
<1>5. IsFiniteSet(All(I)) /\ SumFunctionOnSet(f, All(I)) = SumFunctionOnSet(F, I)
  BY <1>4 DEF T
<1>6. All(I) = AllOf(part, I) /\ F = Each(f, part, I)
  BY DEF All, F, AllOf, Each
<1> QED
  BY <1>5, <1>6

\* Summing one for each counts.
LEMMA SumOfOnes ==
  ASSUME NEW f, NEW S, IsFiniteSet(S), \A x \in S : f[x] = 1
  PROVE  SumFunctionOnSet(f, S) = Cardinality(S)
<1> DEFINE T == {n \in Nat : \A s \in SUBSET S : Cardinality(s) = n => SumFunctionOnSet(f, s) = n}
<1>0. \A s \in SUBSET S : IsFiniteSet(s) /\ Cardinality(s) \in Nat
  BY FS_Subset, FS_CardinalityType
<1>1. 0 \in T
  <2>1. \A s \in SUBSET S : Cardinality(s) = 0 => s = {}
    BY <1>0, FS_EmptySet
  <2> QED
    BY <2>1, SumEmpty
<1>2. \A n \in Nat : n \in T => n + 1 \in T
  <2> SUFFICES ASSUME NEW n \in Nat, n \in T, NEW s \in SUBSET S, Cardinality(s) = n + 1
               PROVE  SumFunctionOnSet(f, s) = n + 1
    OBVIOUS
  <2>1. s # {} /\ One(s) \in s
    BY FS_EmptySet, OneIn
  <2>2. Cardinality(s \ {One(s)}) = n
    <3>1. Cardinality(s \ {One(s)}) = Cardinality(s) - 1
      BY <1>0, <2>1, FS_RemoveElement
    <3> QED
      BY <3>1
  <2>3. SumFunctionOnSet(f, s \ {One(s)}) = n
    BY <2>2
  <2>4. SumFunctionOnSet(f, s) = f[One(s)] + SumFunctionOnSet(f, s \ {One(s)})
    BY <1>0, <2>1, SumStep
  <2> QED
    BY <2>1, <2>3, <2>4
<1> HIDE DEF T
<1>3. Cardinality(S) \in T
  BY <1>0, <1>1, <1>2, NatInduct
<1> QED
  BY <1>3 DEF T

\* Renaming what is summed one to one changes nothing.
LEMMA SumRenamed ==
  ASSUME NEW f, NEW I, IsFiniteSet(I), NEW m, \A i \in I : f[m[i]] \in Int,
         \A i, j \in I : m[i] = m[j] => i = j
  PROVE  SumFunctionOnSet(f, {m[i] : i \in I}) = SumFunctionOnSet([i \in I |-> f[m[i]]], I)
<1> DEFINE part == [i \in I |-> {m[i]}]
           G == [i \in I |-> f[m[i]]]
<1>1. \A i \in I : part[i] = {m[i]}
  OBVIOUS
<1>2. AllOf(part, I) = {m[i] : i \in I}
  BY DEF AllOf
<1>3. \A i \in I : Each(f, part, I)[i] = G[i]
  BY <1>1, SumOne DEF Each
<1>5. \A i \in I : IsFiniteSet(part[i]) /\ \A x \in part[i] : f[x] \in Int
  BY <1>1, FS_Singleton
<1>6. \A i, j \in I : i # j => part[i] \cap part[j] = {}
  BY <1>1
<1> HIDE DEF part, G
<1>4. SumFunctionOnSet(Each(f, part, I), I) = SumFunctionOnSet(G, I)
  BY <1>3, SumSame
<1>7. SumFunctionOnSet(f, AllOf(part, I)) = SumFunctionOnSet(Each(f, part, I), I)
  BY <1>5, <1>6, SumParts
<1>8. SumFunctionOnSet(f, AllOf(part, I)) = SumFunctionOnSet(G, I)
  BY <1>4, <1>7
<1> QED
  BY <1>2, <1>8 DEF G

\* Counting the parts of a set counts the set.
LEMMA CountParts ==
  ASSUME NEW I, IsFiniteSet(I), NEW part, \A i \in I : IsFiniteSet(part[i]),
         \A i, j \in I : i # j => part[i] \cap part[j] = {}
  PROVE  Cardinality(AllOf(part, I)) = SumFunctionOnSet(Sizes(part, I), I)
<1> DEFINE one == [x \in AllOf(part, I) |-> 1]
<1>1. \A i \in I : \A x \in part[i] : one[x] = 1
  BY DEF AllOf
<1>2. \A x \in AllOf(part, I) : one[x] = 1
  OBVIOUS
<1> HIDE DEF one
<1>3. /\ IsFiniteSet(AllOf(part, I))
      /\ SumFunctionOnSet(one, AllOf(part, I)) = SumFunctionOnSet(Each(one, part, I), I)
  <2>1. \A i \in I : IsFiniteSet(part[i]) /\ \A x \in part[i] : one[x] \in Int
    BY <1>1
  <2> QED
    BY <2>1, SumParts
<1>4. SumFunctionOnSet(one, AllOf(part, I)) = Cardinality(AllOf(part, I))
  BY <1>2, <1>3, SumOfOnes
<1>5. \A i \in I : Each(one, part, I)[i] = Sizes(part, I)[i]
  BY <1>1, SumOfOnes DEF Each, Sizes
<1>6. SumFunctionOnSet(Each(one, part, I), I) = SumFunctionOnSet(Sizes(part, I), I)
  BY <1>5, SumSame
<1> QED
  BY <1>3, <1>4, <1>6

\* The sum of a function is that of any that agrees with it.
LEMMA SumFunctionIs ==
  ASSUME NEW f, NEW S, IsFiniteSet(S), NEW g, DOMAIN g = S, \A x \in S : g[x] = f[x]
  PROVE  SumFunction(g) = SumFunctionOnSet(f, S)
<1>1. SumFunctionOnSet(g, S) = SumFunctionOnSet(f, S)
  BY SumSame
<1> QED
  BY <1>1 DEF SumFunction

-----------------------------------------------------------------------------
(* The rows, and what is rolled up of them. *)

Costs == [t \in Spans |-> SpanOf[t].cost]
LEMMA CostIs ==
  ASSUME NEW S \in SUBSET Spans
  PROVE  IsFiniteSet(S) /\ CostOf(S) = SumFunctionOnSet(Costs, S) /\ CostOf(S) \in Nat
<1>1. IsFiniteSet(S)
  BY StoreAssumption, FS_Subset
<1> DEFINE g == [t \in S |-> SpanOf[t].cost]
<1>2. DOMAIN g = S /\ \A t \in S : g[t] = Costs[t] /\ Costs[t] \in Nat
  BY StoreAssumption DEF Costs
<1> HIDE DEF g
<1>3. SumFunction(g) = SumFunctionOnSet(Costs, S)
  BY <1>1, <1>2, SumFunctionIs
<1>4. SumFunctionOnSet(Costs, S) \in Nat
  BY <1>1, <1>2, SumType
<1> QED
  BY <1>1, <1>3, <1>4 DEF CostOf, g

LEMMA CostUnion ==
  ASSUME NEW A \in SUBSET Spans, NEW B \in SUBSET Spans, A \cap B = {}
  PROVE  CostOf(A \cup B) = CostOf(A) + CostOf(B)
<1>1. /\ IsFiniteSet(A) /\ CostOf(A) = SumFunctionOnSet(Costs, A)
      /\ IsFiniteSet(B) /\ CostOf(B) = SumFunctionOnSet(Costs, B)
  BY CostIs
<1>2. CostOf(A \cup B) = SumFunctionOnSet(Costs, A \cup B)
  BY CostIs
<1>3. \A t \in A \cup B : Costs[t] \in Int
  BY StoreAssumption DEF Costs
<1>4. SumFunctionOnSet(Costs, A \cup B) = SumFunctionOnSet(Costs, A) + SumFunctionOnSet(Costs, B)
  BY <1>1, <1>3, SumUnion
<1> QED
  BY <1>1, <1>2, <1>4

\* What is summed over two sets apart is the one sum and the other.
LEMMA AddedUp ==
  ASSUME NEW f, NEW g, NEW h, IsFiniteSet(DOMAIN g), IsFiniteSet(DOMAIN h),
         DOMAIN g \cap DOMAIN h = {}, DOMAIN f = DOMAIN g \cup DOMAIN h,
         \A x \in DOMAIN g : g[x] = f[x] /\ g[x] \in Nat, \A x \in DOMAIN h : h[x] = f[x] /\ h[x] \in Nat
  PROVE  /\ SumFunction(f) = SumFunction(g) + SumFunction(h)
         /\ SumFunction(f) \in Nat /\ SumFunction(g) \in Nat /\ SumFunction(h) \in Nat
<1> DEFINE A == DOMAIN g
           B == DOMAIN h
<1>1. SumFunction(g) = SumFunctionOnSet(f, A)
  BY SumFunctionIs
<1>2. SumFunction(h) = SumFunctionOnSet(f, B)
  BY SumFunctionIs
<1>3. SumFunction(f) = SumFunctionOnSet(f, A \cup B)
  BY Zenon DEF SumFunction
<1>4. \A x \in A \cup B : f[x] \in Int
  OBVIOUS
<1>5. SumFunctionOnSet(f, A \cup B) = SumFunctionOnSet(f, A) + SumFunctionOnSet(f, B)
  BY <1>4, SumUnion
<1>6. SumFunctionOnSet(f, A) \in Nat /\ SumFunctionOnSet(f, B) \in Nat
  BY SumType
<1> QED
  BY <1>1, <1>2, <1>3, <1>5, <1>6

LEMMA ScoresAdd ==
  ASSUME NEW A, NEW B, IsFiniteSet(A), IsFiniteSet(B), A \cap B = {}, \A row \in A \cup B : row.score \in Nat
  PROVE  /\ ScoreSum(A \cup B) = ScoreSum(A) + ScoreSum(B)
         /\ ScoreSum(A) \in Nat /\ ScoreSum(B) \in Nat
<1> DEFINE f == [row \in A \cup B |-> row.score]
           g == [row \in A |-> row.score]
           h == [row \in B |-> row.score]
<1>1. DOMAIN g = A /\ DOMAIN h = B
  OBVIOUS
<1>2. IsFiniteSet(DOMAIN g) /\ IsFiniteSet(DOMAIN h)
  BY <1>1, Zenon
<1>3. DOMAIN g \cap DOMAIN h = {} /\ DOMAIN f = DOMAIN g \cup DOMAIN h
  OBVIOUS
<1>4. /\ \A x \in DOMAIN g : g[x] = f[x] /\ g[x] \in Nat
      /\ \A x \in DOMAIN h : h[x] = f[x] /\ h[x] \in Nat
  OBVIOUS
<1> HIDE DEF f, g, h
<1>5. SumFunction(f) = SumFunction(g) + SumFunction(h) /\ SumFunction(g) \in Nat /\ SumFunction(h) \in Nat
  BY <1>2, <1>3, <1>4, AddedUp
<1> QED
  BY <1>5 DEF f, g, h, ScoreSum

LEMMA UsageAdds ==
  ASSUME NEW A, NEW B, IsFiniteSet(A), IsFiniteSet(B), A \cap B = {}, \A row \in A \cup B : row.usage \in Nat
  PROVE  /\ UsageOf(A \cup B) = UsageOf(A) + UsageOf(B)
         /\ UsageOf(A) \in Nat /\ UsageOf(B) \in Nat
<1> DEFINE f == [row \in A \cup B |-> row.usage]
           g == [row \in A |-> row.usage]
           h == [row \in B |-> row.usage]
<1>1. DOMAIN g = A /\ DOMAIN h = B
  OBVIOUS
<1>2. IsFiniteSet(DOMAIN g) /\ IsFiniteSet(DOMAIN h)
  BY <1>1, Zenon
<1>3. DOMAIN g \cap DOMAIN h = {} /\ DOMAIN f = DOMAIN g \cup DOMAIN h
  OBVIOUS
<1>4. /\ \A x \in DOMAIN g : g[x] = f[x] /\ g[x] \in Nat
      /\ \A x \in DOMAIN h : h[x] = f[x] /\ h[x] \in Nat
  OBVIOUS
<1> HIDE DEF f, g, h
<1>5. SumFunction(f) = SumFunction(g) + SumFunction(h) /\ SumFunction(g) \in Nat /\ SumFunction(h) \in Nat
  BY <1>2, <1>3, <1>4, AddedUp
<1> QED
  BY <1>5 DEF f, g, h, UsageOf

LEMMA NothingSums == CostOf({}) = 0 /\ ScoreSum({}) = 0 /\ UsageOf({}) = 0 /\ ScansOf({}) = 0
<1> DEFINE Zeros(f) == DOMAIN f = {} => SumFunction(f) = 0
<1>1. \A f : Zeros(f)
  BY SumEmpty DEF SumFunction
<1>2. Zeros([t \in {} |-> SpanOf[t].cost]) /\ Zeros([row \in {} |-> row.score])
      /\ Zeros([row \in {} |-> row.usage]) /\ Zeros([t \in {} |-> scans[t]])
  <2> HIDE DEF Zeros
  <2> QED
    BY <1>1
<1> QED
  BY <1>2 DEF CostOf, ScoreSum, UsageOf, ScansOf

\* The values of a function on a finite set are finitely many.
LEMMA ImageFinite ==
  ASSUME NEW f, NEW S, IsFiniteSet(S)
  PROVE  IsFiniteSet({f[x] : x \in S}) /\ Cardinality({f[x] : x \in S}) <= Cardinality(S)
<1> DEFINE T == {f[x] : x \in S}
           g == [x \in S |-> f[x]]
<1>1. g \in Surjection(S, T)
  BY DEF Surjection
<1> HIDE DEF g, T
<1>2. IsFiniteSet(T) /\ Cardinality(T) <= Cardinality(S)
  BY <1>1, FS_Surjection
<1> QED
  BY <1>2 DEF T

LEMMA MinIs ==
  ASSUME NEW S \in SUBSET Nat, S # {}
  PROVE  Min(S) \in S /\ \A y \in S : Min(S) <= y
<1>1. \E x \in S : \A y \in S : x =< y
  BY NatMin
<1> QED
  BY <1>1 DEF Min

-----------------------------------------------------------------------------
(* The rows that are kept, and what is rolled up of them. *)

RowsFrom(r) == {row \in evals : row.from = r}

\* A row is a person's or one of a message of the evaluator, which came in whole.
RowKept(row) ==
  /\ row.trace \in Spans /\ row.score \in Score /\ row.usage \in Nat /\ row.at \in 0..now
  /\ \/ row.from \in Batches
     \/ row.from \in Reviewers /\ Human(row) /\ row.usage = 0
RowsInv ==
  /\ IsFiniteSet(evals) /\ \A row \in evals : RowKept(row)
  /\ \A b \in Batches : RowsFrom(b) # {} => \E time \in 0..now : RowsFrom(b) = Graded(b, time)

SpansInv ==
  /\ now \in 0..MaxTime /\ spans \in Seq([trace : Spans, at : Nat]) /\ expired \subseteq Spans
  /\ \A i \in 1..Len(spans) : spans[i].at <= now /\ spans[i].trace \notin expired
  /\ \A i, j \in 1..Len(spans) : spans[i].trace = spans[j].trace => i = j
  /\ costs \in [Spans -> Nat \cup {Nothing}] /\ \A t \in Billed : costs[t] <= now
  /\ scans \in [Spans -> Nat]

Rollups == [Roots -> [cost : Nat, scores : Nat, sum : Nat, min : Nat, risk : Nat, detections : Nat, spans : Nat]]

TreeOf(root) == {t \in Spans : SpanOf[t].root = root}
RatedIn(rows, root) == {row \in OfRoot(rows, root) : Rated(row)}
Risky(root) == {t \in TreeOf(root) : SpanOf[t].risk > 0}

\* A rollup is the sum of the rows of its run.
RollupsFine ==
  \A root \in Roots :
    /\ rollup[root].cost = CostOf(TreeOf(root) \cap Billed)
    /\ rollup[root].spans = Cardinality(TreeOf(root) \cap (Here \cup expired))
    /\ rollup[root].scores = Cardinality(RatedIn(evals, root))
    /\ rollup[root].sum = ScoreSum(RatedIn(evals, root))
    /\ \A row \in RatedIn(evals, root) : rollup[root].min =< row.score
    /\ rollup[root].detections = ScansOf(Risky(root))

StoreInv == RowsInv /\ SpansInv /\ rollup \in Rollups /\ RollupsFine

\* The rows of messages that count for a run's quality are those it rolls up.
LEMMA RatedAre ==
  ASSUME RowsInv, NEW root
  PROVE  RatedIn(evals, root)
           = {row \in evals : row.trace \in TreeOf(root) /\ row.from \in Batches
                                 /\ row.evaluator \notin {"fluiq.security", "fluiq.eval"}}
<1>1. ASSUME NEW row \in evals, row.from \in Batches
      PROVE  ~Human(row)
  <2>1. row \in RowsFrom(row.from)
    BY DEF RowsFrom
  <2>2. PICK time : row \in Graded(row.from, time)
    BY <1>1, <2>1 DEF RowsInv
  <2>3. row.evaluator = BatchOf[row.from].evaluator
    BY <2>2 DEF Graded
  <2> QED
    BY <1>1, <2>3, StoreAssumption DEF Human
<1>2. ASSUME NEW row \in evals, row.from \notin Batches
      PROVE  Human(row)
  BY <1>2 DEF RowsInv, RowKept
<1>3. \A row \in evals : row.trace \in Spans
  BY DEF RowsInv, RowKept
<1> QED
  BY <1>1, <1>2, <1>3 DEF RatedIn, OfRoot, Rated, TreeOf, Human

LEMMA StoreInvAddsUp == ASSUME StoreInv PROVE RollupsAddUp
<1> SUFFICES ASSUME NEW root \in Roots
             PROVE  LET tree == {t \in Spans : SpanOf[t].root = root}
                        rated == {row \in evals : row.trace \in tree /\ row.from \in Batches
                                    /\ row.evaluator \notin {"fluiq.security", "fluiq.eval"}}
                    IN /\ rollup[root].cost = CostOf(tree \cap Billed)
                       /\ rollup[root].spans = Cardinality(tree \cap (Here \cup expired))
                       /\ rollup[root].scores = Cardinality(rated)
                       /\ rollup[root].sum = ScoreSum(rated)
                       /\ \A row \in rated : rollup[root].min =< row.score
                       /\ rollup[root].detections = ScansOf({t \in tree : SpanOf[t].risk > 0})
  BY DEF RollupsAddUp
<1>1. RatedIn(evals, root)
           = {row \in evals : row.trace \in TreeOf(root) /\ row.from \in Batches
                                 /\ row.evaluator \notin {"fluiq.security", "fluiq.eval"}}
  BY RatedAre DEF StoreInv
<1> QED
  BY <1>1, Zenon DEF StoreInv, RollupsFine, TreeOf, Risky

LEMMA FoldedScores ==
  ASSUME RowsInv, rollup \in Rollups, RollupsFine, NEW rows, IsFiniteSet(rows),
         \A row \in rows : row.score \in Score, InsertScores(rows),
         \A row \in rows : Rated(row) => row \notin evals
  PROVE  /\ rollup' \in Rollups
         /\ \A root \in Roots :
              /\ rollup'[root].scores = Cardinality(RatedIn(evals', root))
              /\ rollup'[root].sum = ScoreSum(RatedIn(evals', root))
              /\ \A row \in RatedIn(evals', root) : rollup'[root].min =< row.score
              /\ rollup'[root].cost = rollup[root].cost /\ rollup'[root].spans = rollup[root].spans
              /\ rollup'[root].detections = rollup[root].detections
<1> DEFINE Known(root) == RatedIn(evals, root)
           New(root) == RatedIn(rows, root)
           Lowest(root) == Min({rollup[root].min} \cup {row.score : row \in New(root)})
<1>1. \A root \in Roots :
        rollup'[root] = [rollup[root] EXCEPT !.scores = @ + Cardinality(New(root)),
                                             !.sum = @ + ScoreSum(New(root)), !.min = Lowest(root)]
  BY DEF InsertScores, FoldScores, RatedIn
<1>2. DOMAIN rollup' = Roots
  BY DEF InsertScores
<1>3. ASSUME NEW root \in Roots
      PROVE  /\ IsFiniteSet(Known(root)) /\ IsFiniteSet(New(root)) /\ Known(root) \cap New(root) = {}
             /\ RatedIn(evals', root) = Known(root) \cup New(root)
             /\ \A row \in Known(root) \cup New(root) : row.score \in Score
  <2>1. Known(root) \in SUBSET evals /\ New(root) \in SUBSET rows
    BY DEF RatedIn, OfRoot
  <2>2. IsFiniteSet(Known(root)) /\ IsFiniteSet(New(root))
    BY <2>1, FS_Subset DEF RowsInv
  <2>3. Known(root) \cap New(root) = {}
    BY <2>1 DEF RatedIn
  <2>4. evals' = evals \cup rows
    BY DEF InsertScores
  <2>5. RatedIn(evals', root) = Known(root) \cup New(root)
    BY <2>4 DEF RatedIn, OfRoot, Rated, Human
  <2>6. \A row \in Known(root) \cup New(root) : row.score \in Score
    BY <2>1 DEF RowsInv, RowKept
  <2> QED
    BY <2>2, <2>3, <2>5, <2>6
<1>4. ASSUME NEW root \in Roots
      PROVE  /\ Cardinality(New(root)) \in Nat
             /\ Cardinality(RatedIn(evals', root)) = Cardinality(Known(root)) + Cardinality(New(root))
             /\ ScoreSum(New(root)) \in Nat
             /\ ScoreSum(RatedIn(evals', root)) = ScoreSum(Known(root)) + ScoreSum(New(root))
             /\ Lowest(root) \in Nat /\ Lowest(root) <= rollup[root].min
             /\ \A row \in New(root) : Lowest(root) <= row.score
  <2>1. /\ IsFiniteSet(Known(root)) /\ IsFiniteSet(New(root)) /\ Known(root) \cap New(root) = {}
        /\ RatedIn(evals', root) = Known(root) \cup New(root)
        /\ \A row \in Known(root) \cup New(root) : row.score \in Nat
    BY <1>3 DEF Score
  <2> DEFINE S == {rollup[root].min} \cup {row.score : row \in New(root)}
  <2>2. S \in SUBSET Nat /\ S # {}
    BY <2>1 DEF Rollups
  <2>3. rollup[root].min \in S /\ \A row \in New(root) : row.score \in S
    OBVIOUS
  <2> HIDE DEF S, Known, New
  <2>4. Min(S) \in S /\ \A y \in S : Min(S) <= y
    BY <2>2, MinIs
  <2>5. Min(S) \in Nat /\ Min(S) <= rollup[root].min /\ \A row \in New(root) : Min(S) <= row.score
    BY <2>2, <2>3, <2>4
  <2>6. Cardinality(New(root)) \in Nat
    BY <2>1, FS_CardinalityType
  <2>7. Cardinality(Known(root) \cup New(root)) = Cardinality(Known(root)) + Cardinality(New(root))
    <3>1. Cardinality(Known(root) \cap New(root)) = 0
      BY <2>1, FS_EmptySet, Zenon
    <3>2. Cardinality(Known(root)) \in Nat
      BY <2>1, FS_CardinalityType
    <3>3. Cardinality(Known(root) \cup New(root))
            = Cardinality(Known(root)) + Cardinality(New(root)) - Cardinality(Known(root) \cap New(root))
      BY <2>1, FS_Union
    <3> QED
      BY <2>6, <3>1, <3>2, <3>3
  <2>8. /\ ScoreSum(Known(root) \cup New(root)) = ScoreSum(Known(root)) + ScoreSum(New(root))
        /\ ScoreSum(New(root)) \in Nat
    BY <2>1, ScoresAdd
  <2>9. Lowest(root) = Min(S)
    BY DEF S
  <2>10. /\ Cardinality(RatedIn(evals', root)) = Cardinality(Known(root)) + Cardinality(New(root))
         /\ ScoreSum(RatedIn(evals', root)) = ScoreSum(Known(root)) + ScoreSum(New(root))
    BY <2>1, <2>7, <2>8, Zenon
  <2> HIDE DEF Lowest
  <2> QED
    BY <2>5, <2>6, <2>8, <2>9, <2>10
<1> HIDE DEF Lowest, New, Known
<1>5. rollup' \in Rollups
  <2>1. \A root \in Roots : rollup'[root] \in [cost : Nat, scores : Nat, sum : Nat, min : Nat, risk : Nat,
                                                detections : Nat, spans : Nat]
    <3> TAKE root \in Roots
    <3>1. rollup[root] \in [cost : Nat, scores : Nat, sum : Nat, min : Nat, risk : Nat,
                             detections : Nat, spans : Nat]
      BY DEF Rollups
    <3>2. Cardinality(New(root)) \in Nat /\ ScoreSum(New(root)) \in Nat /\ Lowest(root) \in Nat
      BY <1>4
    <3>3. rollup'[root] = [rollup[root] EXCEPT !.scores = @ + Cardinality(New(root)),
                                               !.sum = @ + ScoreSum(New(root)), !.min = Lowest(root)]
      BY <1>1
    <3>4. rollup[root].scores + Cardinality(New(root)) \in Nat /\ rollup[root].sum + ScoreSum(New(root)) \in Nat
      BY <3>1, <3>2
    <3> QED
      BY <3>1, <3>2, <3>3, <3>4
  <2>2. rollup' = [root \in Roots |-> rollup'[root]]
    BY DEF InsertScores
  <2> QED
    BY <2>1, <2>2 DEF Rollups
<1>6. ASSUME NEW root \in Roots
      PROVE  /\ rollup'[root].scores = Cardinality(RatedIn(evals', root))
             /\ rollup'[root].sum = ScoreSum(RatedIn(evals', root))
             /\ rollup'[root].cost = rollup[root].cost /\ rollup'[root].spans = rollup[root].spans
             /\ rollup'[root].detections = rollup[root].detections
             /\ rollup'[root].min = Lowest(root)
  <2>1. /\ rollup'[root].scores = rollup[root].scores + Cardinality(New(root))
        /\ rollup'[root].sum = rollup[root].sum + ScoreSum(New(root))
        /\ rollup'[root].cost = rollup[root].cost /\ rollup'[root].spans = rollup[root].spans
        /\ rollup'[root].detections = rollup[root].detections
        /\ rollup'[root].min = Lowest(root)
    BY <1>1 DEF Rollups
  <2>2. rollup[root].scores = Cardinality(Known(root)) /\ rollup[root].sum = ScoreSum(Known(root))
    BY DEF RollupsFine, Known
  <2> QED
    BY <1>4, <2>1, <2>2
<1>7. ASSUME NEW root \in Roots, NEW row \in RatedIn(evals', root)
      PROVE  rollup'[root].min =< row.score
  <2>1. rollup'[root].min = Lowest(root)
    BY <1>6
  <2>2. row \in Known(root) \cup New(root) /\ row.score \in Nat
    BY <1>3 DEF Score
  <2>3. CASE row \in New(root)
    BY <1>4, <2>1, <2>3
  <2>4. CASE row \in Known(root)
    <3>1. rollup[root].min <= row.score /\ rollup[root].min \in Nat
      BY <2>4 DEF RollupsFine, Known, Rollups
    <3>2. Lowest(root) \in Nat /\ Lowest(root) <= rollup[root].min
      BY <1>4
    <3> QED
      BY <2>1, <2>2, <3>1, <3>2
  <2> QED
    BY <2>2, <2>3, <2>4
<1> QED
  BY <1>5, <1>6, <1>7

LEMMA GradedAre ==
  ASSUME NEW b \in Batches, NEW time \in Nat
  PROVE  /\ IsFiniteSet(Graded(b, time))
         /\ \A row \in Graded(b, time) :
              /\ row.from = b /\ row.trace = BatchOf[b].trace /\ row.evaluator = BatchOf[b].evaluator
              /\ row.trace \in Spans /\ row.score \in Score /\ row.usage \in Nat /\ row.at = time
<1> DEFINE f == [x \in DOMAIN BatchOf[b].scores |->
                   [from |-> b, trace |-> BatchOf[b].trace, evaluator |-> BatchOf[b].evaluator,
                    metric |-> x, score |-> BatchOf[b].scores[x], kind |-> "score", at |-> time,
                    usage |-> IF x = BatchOf[b].first THEN BatchOf[b].usage ELSE 0]]
<1>1. Graded(b, time) = {f[x] : x \in DOMAIN BatchOf[b].scores}
  BY DEF Graded
<1>2. IsFiniteSet({f[x] : x \in DOMAIN BatchOf[b].scores})
  <2> HIDE DEF f
  <2> QED
    BY ImageFinite, StoreAssumption
<1>3. \A row \in Graded(b, time) :
              /\ row.from = b /\ row.trace = BatchOf[b].trace /\ row.evaluator = BatchOf[b].evaluator
              /\ row.trace \in Spans /\ row.score \in Score /\ row.usage \in Nat /\ row.at = time
  BY StoreAssumption DEF Graded
<1>4. IsFiniteSet(Graded(b, time))
  BY <1>1, <1>2, Zenon
<1> QED
  BY <1>3, <1>4

\* What a rollup holds of spans, costs and scans, which no score moves.
LEMMA ScoresMove ==
  ASSUME StoreInv, NEW rows, IsFiniteSet(rows), \A row \in rows : row.score \in Score, InsertScores(rows),
         \A row \in rows : Rated(row) => row \notin evals, RowsInv', UNCHANGED <<spans, costs, scans, expired, now>>
  PROVE  StoreInv'
<1>1. /\ rollup' \in Rollups
      /\ \A root \in Roots :
           /\ rollup'[root].scores = Cardinality(RatedIn(evals', root))
           /\ rollup'[root].sum = ScoreSum(RatedIn(evals', root))
           /\ \A row \in RatedIn(evals', root) : rollup'[root].min =< row.score
           /\ rollup'[root].cost = rollup[root].cost /\ rollup'[root].spans = rollup[root].spans
           /\ rollup'[root].detections = rollup[root].detections
  BY FoldedScores DEF StoreInv
<1>2. Billed' = Billed /\ Here' = Here /\ \A S : ScansOf(S)' = ScansOf(S)
  BY DEF Billed, Here, ScansOf
<1>3. RollupsFine'
  BY <1>1, <1>2 DEF RollupsFine, StoreInv, RatedIn, OfRoot, Rated, Human, TreeOf, Risky
<1>4. SpansInv'
  BY DEF StoreInv, SpansInv, Billed
<1> QED
  BY <1>1, <1>3, <1>4 DEF StoreInv, Rollups

LEMMA GradeKeeps == ASSUME StoreInv, NEW b \in Batches, Grade(b) PROVE StoreInv'
<1> DEFINE rows == Graded(b, now)
<1>0. now \in Nat
  BY StoreAssumption DEF StoreInv, SpansInv
<1>1. /\ IsFiniteSet(rows)
      /\ \A row \in rows : /\ row.from = b /\ row.trace \in Spans /\ row.score \in Score
                            /\ row.usage \in Nat /\ row.at = now
  BY <1>0, GradedAre
<1>2. InsertScores(rows) /\ (\A row \in evals : row.from # b) /\ UNCHANGED <<spans, costs, scans, expired, now>>
  BY DEF Grade
<1> HIDE DEF rows
<1>3. evals' = evals \cup rows
  BY <1>2 DEF InsertScores
<1>4. RowsInv'
  <2>1. IsFiniteSet(evals')
    BY <1>1, <1>3, FS_Union DEF StoreInv, RowsInv
  <2>2. \A row \in evals' : RowKept(row)'
    BY <1>0, <1>1, <1>2, <1>3 DEF StoreInv, RowsInv, RowKept, Human
  <2>3. ASSUME NEW c \in Batches, RowsFrom(c)' # {}
        PROVE  \E time \in 0..now' : RowsFrom(c)' = Graded(c, time)'
    <3>1. \A time : Graded(c, time)' = Graded(c, time)
      BY DEF Graded
    <3>2. CASE c = b
      <4>1. RowsFrom(c)' = rows
        BY <1>1, <1>2, <1>3, <3>2 DEF RowsFrom
      <4>2. RowsFrom(c)' = Graded(c, now)
        BY <3>2, <4>1 DEF rows
      <4> QED
        BY <1>0, <1>2, <3>1, <4>2
    <3>3. CASE c # b
      <4>1. RowsFrom(c)' = RowsFrom(c)
        BY <1>1, <1>3, <3>3 DEF RowsFrom
      <4> QED
        BY <1>2, <2>3, <3>1, <4>1 DEF StoreInv, RowsInv
    <3> QED
      BY <3>2, <3>3
  <2> QED
    BY <2>1, <2>2, <2>3 DEF RowsInv
<1> QED
  BY <1>1, <1>2, <1>4, ScoresMove

LEMMA PersonKeeps ==
  ASSUME StoreInv, Batches \cap Reviewers = {}, NEW r \in Reviewers, NEW t \in Labelled, NEW evaluator,
         evaluator \in {"human.feedback", "human.annotation"}, NEW metric, NEW score \in Score, NEW kind,
         InsertScores({HumanRow(r, t, evaluator, metric, score, kind)}),
         UNCHANGED <<spans, costs, scans, expired, now>>
  PROVE  StoreInv'
<1> DEFINE row == HumanRow(r, t, evaluator, metric, score, kind)
<1>0. now \in Nat
  BY StoreAssumption DEF StoreInv, SpansInv
<1>1. /\ row.from = r /\ row.trace \in Spans /\ row.score \in Score /\ row.usage = 0 /\ row.at = now
      /\ Human(row)
  BY StoreAssumption DEF HumanRow, Human
<1> HIDE DEF row
<1>2. InsertScores({row}) /\ evals' = evals \cup {row}
  BY DEF row, InsertScores
<1>3. RowsInv'
  <2>1. IsFiniteSet(evals')
    BY <1>2, FS_AddElement DEF StoreInv, RowsInv
  <2>2. \A x \in evals' : RowKept(x)'
    BY <1>0, <1>1, <1>2 DEF StoreInv, RowsInv, RowKept, Human
  <2>3. \A c \in Batches : RowsFrom(c)' = RowsFrom(c) /\ \A time : Graded(c, time)' = Graded(c, time)
    BY <1>1, <1>2 DEF RowsFrom, Graded
  <2> QED
    BY <2>1, <2>2, <2>3 DEF StoreInv, RowsInv
<1>4. \A x \in {row} : x.score \in Score /\ ~Rated(x)
  BY <1>1 DEF Rated
<1>5. IsFiniteSet({row})
  BY FS_Singleton
<1> QED
  BY <1>2, <1>3, <1>4, <1>5, ScoresMove

\* What the scores rolled up are stays while neither rows nor rollups of scores move.
LEMMA RowsStay == ASSUME RowsInv, UNCHANGED evals, now' \in Nat, now \in Nat, now <= now' PROVE RowsInv'
<1>1. \A row : Human(row)' = Human(row)
  BY DEF Human
<1>2. \A row \in evals : RowKept(row)'
  BY <1>1 DEF RowsInv, RowKept
<1>3. \A b \in Batches : RowsFrom(b)' = RowsFrom(b) /\ \A time : Graded(b, time)' = Graded(b, time)
  BY DEF RowsFrom, Graded
<1>4. ASSUME NEW b \in Batches, RowsFrom(b)' # {}
      PROVE  \E time \in 0..now' : RowsFrom(b)' = Graded(b, time)'
  <2>1. PICK time \in 0..now : RowsFrom(b) = Graded(b, time)
    BY <1>3, <1>4 DEF RowsInv
  <2>2. time \in 0..now'
    OBVIOUS
  <2> QED
    BY <1>3, <2>1, <2>2
<1> QED
  BY <1>2, <1>4 DEF RowsInv

LEMMA StoreStays == ASSUME StoreInv, UNCHANGED storeVars PROVE StoreInv'
<1>1. UNCHANGED <<spans, costs, scans, evals, rollup, expired, now>>
  BY DEF storeVars
<1>2. RowsInv'
  BY <1>1, RowsStay, StoreAssumption DEF StoreInv, SpansInv
<1>3. Billed' = Billed /\ Here' = Here /\ \A S : ScansOf(S)' = ScansOf(S)
  BY <1>1 DEF Billed, Here, ScansOf
<1>4. SpansInv'
  BY <1>1, <1>3 DEF StoreInv, SpansInv
<1>5. RollupsFine'
  BY <1>1, <1>3 DEF RollupsFine, StoreInv, RatedIn, OfRoot, Rated, Human, TreeOf, Risky
<1> QED
  BY <1>1, <1>2, <1>4, <1>5 DEF StoreInv

\* An action of the tracer moves one field of one rollup.
LEMMA OneRollup ==
  ASSUME StoreInv, UNCHANGED evals, NEW t \in Spans, NEW acc,
         acc \in [cost : Nat, scores : Nat, sum : Nat, min : Nat, risk : Nat, detections : Nat, spans : Nat],
         rollup' = [rollup EXCEPT ![SpanOf[t].root] = acc],
         acc.scores = rollup[SpanOf[t].root].scores, acc.sum = rollup[SpanOf[t].root].sum,
         acc.min = rollup[SpanOf[t].root].min
  PROVE  /\ SpanOf[t].root \in Roots /\ rollup' \in Rollups
         /\ \A root \in Roots :
              /\ rollup'[root] = IF root = SpanOf[t].root THEN acc ELSE rollup[root]
              /\ rollup'[root].scores = Cardinality(RatedIn(evals', root))
              /\ rollup'[root].sum = ScoreSum(RatedIn(evals', root))
              /\ \A row \in RatedIn(evals', root) : rollup'[root].min =< row.score
<1>1. SpanOf[t].root \in Roots
  BY DEF Roots
<1>2. rollup' \in Rollups
  BY <1>1 DEF StoreInv, Rollups
<1>3. \A root \in Roots : rollup'[root] = IF root = SpanOf[t].root THEN acc ELSE rollup[root]
  BY <1>1 DEF StoreInv, Rollups
<1>4. ASSUME NEW root \in Roots
      PROVE  /\ rollup'[root].scores = rollup[root].scores /\ rollup'[root].sum = rollup[root].sum
             /\ rollup'[root].min = rollup[root].min
  BY <1>3
<1> QED
  BY <1>1, <1>2, <1>3, <1>4 DEF StoreInv, RollupsFine

LEMMA BillKeeps == ASSUME StoreInv, NEW t \in Spans, Bill(t) PROVE StoreInv'
<1> DEFINE home == SpanOf[t].root
           acc == FoldCost(rollup[home], t)
<1>0. now \in Nat /\ now # Nothing /\ t \notin Billed /\ SpanOf[t].cost \in Nat
  BY StoreAssumption DEF StoreInv, SpansInv, Bill
<1>1. /\ UNCHANGED <<spans, scans, evals, expired, now>> /\ costs' = [costs EXCEPT ![t] = now]
      /\ rollup' = [rollup EXCEPT ![home] = acc]
  BY DEF Bill
<1>2. home \in Roots
  BY DEF Roots
<1>3. acc = [rollup[home] EXCEPT !.cost = @ + SpanOf[t].cost]
  BY DEF FoldCost
<1>4. /\ acc \in [cost : Nat, scores : Nat, sum : Nat, min : Nat, risk : Nat, detections : Nat, spans : Nat]
      /\ acc.cost = rollup[home].cost + SpanOf[t].cost /\ acc.scores = rollup[home].scores
      /\ acc.sum = rollup[home].sum /\ acc.min = rollup[home].min /\ acc.spans = rollup[home].spans
      /\ acc.detections = rollup[home].detections
  <2>1. rollup[home] \in [cost : Nat, scores : Nat, sum : Nat, min : Nat, risk : Nat, detections : Nat, spans : Nat]
    BY <1>2 DEF StoreInv, Rollups
  <2>2. rollup[home].cost + SpanOf[t].cost \in Nat
    BY <1>0, <2>1
  <2> QED
    BY <1>3, <2>1, <2>2
<1> HIDE DEF acc
<1>5. /\ rollup' \in Rollups
      /\ \A root \in Roots :
           /\ rollup'[root] = IF root = home THEN acc ELSE rollup[root]
           /\ rollup'[root].scores = Cardinality(RatedIn(evals', root))
           /\ rollup'[root].sum = ScoreSum(RatedIn(evals', root))
           /\ \A row \in RatedIn(evals', root) : rollup'[root].min =< row.score
  BY <1>1, <1>4, OneRollup
<1>6. Billed' = Billed \cup {t}
  BY <1>0, <1>1 DEF Billed, StoreInv, SpansInv
<1>7. Here' = Here /\ \A S : ScansOf(S)' = ScansOf(S)
  BY <1>1 DEF Here, ScansOf
<1>8. ASSUME NEW root \in Roots
      PROVE  rollup'[root].cost = CostOf(TreeOf(root) \cap Billed')
  <2> DEFINE A == TreeOf(root) \cap Billed
  <2>1. rollup[root].cost = CostOf(A)
    BY DEF StoreInv, RollupsFine
  <2>2. CASE root # home
    <3>1. TreeOf(root) \cap Billed' = A
      BY <1>6, <2>2 DEF TreeOf
    <3> QED
      BY <1>5, <2>1, <2>2, <3>1, Zenon
  <2>3. CASE root = home
    <3>1. TreeOf(root) \cap Billed' = A \cup {t}
      BY <1>6, <2>3 DEF TreeOf
    <3>2. A \in SUBSET Spans /\ {t} \in SUBSET Spans /\ A \cap {t} = {}
      BY <1>0 DEF TreeOf, Billed
    <3> HIDE DEF A
    <3>3. CostOf(A \cup {t}) = CostOf(A) + CostOf({t})
      BY <3>2, CostUnion
    <3>4. CostOf({t}) = SpanOf[t].cost
      <4>1. CostOf({t}) = SumFunctionOnSet(Costs, {t})
        BY <3>2, CostIs
      <4>2. Costs[t] = SpanOf[t].cost
        BY DEF Costs
      <4> QED
        BY <1>0, <4>1, <4>2, SumOne
    <3>5. CostOf(TreeOf(root) \cap Billed') = CostOf(A \cup {t})
      BY <3>1, Zenon
    <3>6. rollup'[root].cost = CostOf(A) + SpanOf[t].cost
      BY <1>4, <1>5, <2>1, <2>3
    <3> QED
      BY <3>3, <3>4, <3>5, <3>6
  <2> QED
    BY <2>2, <2>3
<1>9. RollupsFine'
  <2> SUFFICES ASSUME NEW root \in Roots
               PROVE  /\ rollup'[root].cost = CostOf(TreeOf(root) \cap Billed')
                      /\ rollup'[root].spans = Cardinality(TreeOf(root) \cap (Here \cup expired))
                      /\ rollup'[root].scores = Cardinality(RatedIn(evals', root))
                      /\ rollup'[root].sum = ScoreSum(RatedIn(evals', root))
                      /\ \A row \in RatedIn(evals', root) : rollup'[root].min =< row.score
                      /\ rollup'[root].detections = ScansOf(Risky(root))
    BY <1>1, <1>7 DEF RollupsFine, TreeOf, Risky, RatedIn, OfRoot, Rated, Human
  <2>1. rollup'[root].spans = rollup[root].spans /\ rollup'[root].detections = rollup[root].detections
    BY <1>4, <1>5
  <2>2. /\ rollup[root].spans = Cardinality(TreeOf(root) \cap (Here \cup expired))
        /\ rollup[root].detections = ScansOf(Risky(root))
    BY DEF StoreInv, RollupsFine
  <2> QED
    BY <1>5, <1>8, <2>1, <2>2
<1>10. SpansInv'
  BY <1>0, <1>1, <1>6 DEF StoreInv, SpansInv
<1>11. RowsInv'
  BY <1>0, <1>1, RowsStay DEF StoreInv
<1> QED
  BY <1>5, <1>9, <1>10, <1>11 DEF StoreInv, Rollups

LEMMA ScansAre ==
  ASSUME scans \in [Spans -> Nat], NEW S \in SUBSET Spans
  PROVE  IsFiniteSet(S) /\ ScansOf(S) = SumFunctionOnSet(scans, S) /\ ScansOf(S) \in Nat
<1>1. IsFiniteSet(S)
  BY StoreAssumption, FS_Subset
<1> DEFINE g == [t \in S |-> scans[t]]
<1>2. DOMAIN g = S /\ \A t \in S : g[t] = scans[t] /\ scans[t] \in Nat
  OBVIOUS
<1> HIDE DEF g
<1>3. SumFunction(g) = SumFunctionOnSet(scans, S)
  BY <1>1, <1>2, SumFunctionIs
<1>4. SumFunctionOnSet(scans, S) \in Nat
  BY <1>1, <1>2, SumType
<1> QED
  BY <1>1, <1>3, <1>4 DEF ScansOf, g

\* One scan more is one more where it counts, and none elsewhere.
LEMMA ScansMove ==
  ASSUME scans \in [Spans -> Nat], NEW t \in Spans, scans' = [scans EXCEPT ![t] = @ + 1], NEW S \in SUBSET Spans
  PROVE  ScansOf(S)' = ScansOf(S) + (IF t \in S THEN 1 ELSE 0)
<1>1. scans' \in [Spans -> Nat] /\ scans'[t] = scans[t] + 1 /\ scans[t] \in Nat
      /\ \A s \in S \ {t} : scans'[s] = scans[s]
  OBVIOUS
<1>2. IsFiniteSet(S) /\ ScansOf(S) = SumFunctionOnSet(scans, S) /\ ScansOf(S) \in Nat
  BY ScansAre
<1>3. ScansOf(S)' = SumFunctionOnSet(scans', S)
  <2> DEFINE g == [s \in S |-> scans'[s]]
  <2>1. DOMAIN g = S /\ \A s \in S : g[s] = scans'[s]
    OBVIOUS
  <2> HIDE DEF g
  <2>2. SumFunction(g) = SumFunctionOnSet(scans', S)
    BY <1>2, <2>1, SumFunctionIs
  <2> QED
    BY <2>2 DEF ScansOf, g
<1>4. CASE t \in S
  <2>1. \A s \in S : scans[s] \in Int /\ scans'[s] \in Int
    BY <1>1
  <2> DEFINE f == scans
             g == scans'
  <2>2. /\ \A s \in S : f[s] \in Int /\ g[s] \in Int
        /\ \A s \in S \ {t} : g[s] = f[s]
        /\ IsFiniteSet(S) /\ t \in S
    BY <1>1, <1>2, <1>4, <2>1
  <2>3. SumFunctionOnSet(f, S) \in Nat /\ g[t] - f[t] = 1
    BY <1>1, <1>2
  <2> HIDE DEF f, g
  <2>4. SumFunctionOnSet(g, S) = SumFunctionOnSet(f, S) + (g[t] - f[t])
    BY <2>2, SumChange
  <2>5. SumFunctionOnSet(g, S) = SumFunctionOnSet(f, S) + 1
    BY <2>3, <2>4
  <2>6. SumFunctionOnSet(scans', S) = SumFunctionOnSet(scans, S) + 1
    BY <2>5 DEF f, g
  <2> QED
    BY <1>2, <1>3, <1>4, <2>6
<1>5. CASE t \notin S
  <2> DEFINE f == scans
             g == scans'
  <2>1. \A s \in S : g[s] = f[s]
    BY <1>1, <1>5
  <2> HIDE DEF f, g
  <2>2. SumFunctionOnSet(g, S) = SumFunctionOnSet(f, S)
    BY <1>2, <2>1, SumSame
  <2> QED
    BY <1>2, <1>3, <1>5, <2>2 DEF f, g
<1> QED
  BY <1>4, <1>5

LEMMA ScanKeeps == ASSUME StoreInv, NEW t \in Spans, ScanSpan(t) PROVE StoreInv'
<1> DEFINE home == SpanOf[t].root
           acc == FoldScan(rollup[home], t)
           more == IF SpanOf[t].risk > 0 THEN 1 ELSE 0
<1>0. now \in Nat /\ SpanOf[t].risk \in 0..3
  BY StoreAssumption DEF StoreInv, SpansInv
<1>1. /\ UNCHANGED <<spans, costs, evals, expired, now>> /\ scans' = [scans EXCEPT ![t] = @ + 1]
      /\ rollup' = [rollup EXCEPT ![home] = acc]
  BY DEF ScanSpan
<1>2. home \in Roots
  BY DEF Roots
<1>3. /\ acc \in [cost : Nat, scores : Nat, sum : Nat, min : Nat, risk : Nat, detections : Nat, spans : Nat]
      /\ acc.cost = rollup[home].cost /\ acc.scores = rollup[home].scores
      /\ acc.sum = rollup[home].sum /\ acc.min = rollup[home].min /\ acc.spans = rollup[home].spans
      /\ acc.detections = rollup[home].detections + more
  <2>1. rollup[home] \in [cost : Nat, scores : Nat, sum : Nat, min : Nat, risk : Nat, detections : Nat, spans : Nat]
    BY <1>2 DEF StoreInv, Rollups
  <2> DEFINE S == {rollup[home].risk, SpanOf[t].risk}
  <2>2. Max(S) \in Nat
    <3>1. \E x \in S : \A y \in S : x >= y
      BY <1>0, <2>1
    <3>2. Max(S) \in S
      BY <3>1 DEF Max
    <3> QED
      BY <1>0, <2>1, <3>2
  <2>3. rollup[home].detections + more \in Nat
    BY <2>1
  <2>4. acc = [rollup[home] EXCEPT !.risk = Max(S), !.detections = @ + more]
    BY DEF FoldScan
  <2> HIDE DEF S, more
  <2> QED
    BY <2>1, <2>2, <2>3, <2>4
<1> HIDE DEF acc
<1>5. /\ rollup' \in Rollups
      /\ \A root \in Roots :
           /\ rollup'[root] = IF root = home THEN acc ELSE rollup[root]
           /\ rollup'[root].scores = Cardinality(RatedIn(evals', root))
           /\ rollup'[root].sum = ScoreSum(RatedIn(evals', root))
           /\ \A row \in RatedIn(evals', root) : rollup'[root].min =< row.score
  BY <1>1, <1>3, OneRollup
<1>6. Billed' = Billed /\ Here' = Here
  BY <1>1 DEF Billed, Here
<1>7. ASSUME NEW root \in Roots
      PROVE  rollup'[root].detections = ScansOf(Risky(root))'
  <2>1. Risky(root) \in SUBSET Spans /\ Risky(root)' = Risky(root)
    BY DEF Risky, TreeOf
  <2>2. t \in Risky(root) <=> root = home /\ SpanOf[t].risk > 0
    BY DEF Risky, TreeOf
  <2>3. ScansOf(Risky(root))' = ScansOf(Risky(root)) + (IF t \in Risky(root) THEN 1 ELSE 0)
    <3> DEFINE S == Risky(root)
    <3>1. S \in SUBSET Spans /\ S' = S
      BY <2>1
    <3>2. scans \in [Spans -> Nat]
      BY DEF StoreInv, SpansInv
    <3> HIDE DEF S
    <3>3. \A U \in SUBSET Spans : ScansOf(U)' = ScansOf(U) + (IF t \in U THEN 1 ELSE 0)
      BY <1>1, <3>2, ScansMove
    <3>4. ScansOf(S)' = ScansOf(S) + (IF t \in S THEN 1 ELSE 0)
      BY <3>1, <3>3 DEF ScansOf
    <3> QED
      BY <3>4 DEF S
  <2>4. ScansOf(Risky(root)) \in Nat
    BY <2>1, ScansAre DEF StoreInv, SpansInv
  <2>5. rollup[root].detections = ScansOf(Risky(root))
    BY DEF StoreInv, RollupsFine
  <2>6. CASE root = home
    BY <1>3, <1>5, <2>2, <2>3, <2>4, <2>5, <2>6
  <2>7. CASE root # home
    BY <1>5, <2>2, <2>3, <2>4, <2>5, <2>7
  <2> QED
    BY <2>6, <2>7
<1>8. RollupsFine'
  <2> SUFFICES ASSUME NEW root \in Roots
               PROVE  /\ rollup'[root].cost = CostOf(TreeOf(root) \cap Billed)
                      /\ rollup'[root].spans = Cardinality(TreeOf(root) \cap (Here \cup expired))
                      /\ rollup'[root].scores = Cardinality(RatedIn(evals', root))
                      /\ rollup'[root].sum = ScoreSum(RatedIn(evals', root))
                      /\ \A row \in RatedIn(evals', root) : rollup'[root].min =< row.score
                      /\ rollup'[root].detections = ScansOf(Risky(root))'
    BY <1>1, <1>6 DEF RollupsFine, TreeOf, RatedIn, OfRoot, Rated, Human
  <2>1. rollup'[root].spans = rollup[root].spans /\ rollup'[root].cost = rollup[root].cost
    BY <1>3, <1>5
  <2>2. /\ rollup[root].spans = Cardinality(TreeOf(root) \cap (Here \cup expired))
        /\ rollup[root].cost = CostOf(TreeOf(root) \cap Billed)
    BY DEF StoreInv, RollupsFine
  <2> QED
    BY <1>5, <1>7, <2>1, <2>2
<1>9. SpansInv'
  BY <1>0, <1>1, <1>6 DEF StoreInv, SpansInv
<1>10. RowsInv'
  BY <1>0, <1>1, RowsStay DEF StoreInv
<1> QED
  BY <1>5, <1>8, <1>9, <1>10 DEF StoreInv, Rollups

LEMMA NextBucketKeeps == ASSUME StoreInv, NextBucket PROVE StoreInv'
<1>1. /\ UNCHANGED <<spans, costs, scans, evals, rollup, expired>> /\ now' = now + 1 /\ now < MaxTime
      /\ now \in 0..MaxTime /\ MaxTime \in Nat
  BY StoreAssumption DEF StoreInv, SpansInv, NextBucket
<1>2. RowsInv'
  BY <1>1, RowsStay DEF StoreInv
<1>3. Billed' = Billed /\ Here' = Here /\ \A S : ScansOf(S)' = ScansOf(S)
  BY <1>1 DEF Billed, Here, ScansOf
<1>4. SpansInv'
  <2>1. now' \in 0..MaxTime
    BY <1>1
  <2>2. \A i \in 1..Len(spans) : spans[i].at \in Nat /\ spans[i].at <= now'
    <3> TAKE i \in 1..Len(spans)
    <3>1. spans[i] \in [trace : Spans, at : Nat] /\ spans[i].at <= now
      BY ElementOfSeq DEF StoreInv, SpansInv
    <3> QED
      BY <1>1, <3>1
  <2>3. \A t \in Billed : costs[t] \in Nat /\ costs[t] <= now'
    BY <1>1 DEF StoreInv, SpansInv, Billed
  <2> QED
    BY <1>1, <1>3, <2>1, <2>2, <2>3 DEF StoreInv, SpansInv
<1>5. RollupsFine'
  BY <1>1, <1>3 DEF RollupsFine, StoreInv, RatedIn, OfRoot, Rated, Human, TreeOf, Risky
<1> QED
  BY <1>1, <1>2, <1>4, <1>5 DEF StoreInv

\* A sequence without its element at one place.
LEMMA Removed ==
  ASSUME NEW S, NEW s \in Seq(S), NEW i \in 1..Len(s)
  PROVE  /\ RemoveAt(s, i) \in Seq(S) /\ Len(RemoveAt(s, i)) = Len(s) - 1
         /\ \A j \in 1..(Len(s) - 1) : RemoveAt(s, i)[j] = IF j < i THEN s[j] ELSE s[j + 1]
<1>0. Len(s) \in Nat /\ i \in Nat /\ 1 <= i /\ i <= Len(s) /\ \A j \in 1..Len(s) : s[j] \in S
  BY LenProperties, ElementOfSeq
<1> DEFINE a == SubSeq(s, 1, i - 1)
           z == SubSeq(s, i + 1, Len(s))
<1>1. a \in Seq(S) /\ Len(a) = i - 1 /\ \A j \in 1..(i - 1) : a[j] = s[j]
  BY <1>0
<1>2. z \in Seq(S) /\ Len(z) = Len(s) - i /\ \A j \in 1..(Len(s) - i) : z[j] = s[i + j]
  <2>1. i + 1 \in Int /\ Len(s) \in Int /\ \A j \in (i + 1)..Len(s) : s[j] \in S
    BY <1>0
  <2>2. /\ z \in Seq(S) /\ Len(z) = IF i + 1 <= Len(s) THEN Len(s) - (i + 1) + 1 ELSE 0
        /\ \A j \in 1..(Len(s) - (i + 1) + 1) : z[j] = s[(i + 1) + j - 1]
    BY <2>1, SubSeqProperties
  <2> HIDE DEF z
  <2>3. Len(z) = Len(s) - i
    BY <1>0, <2>2
  <2>4. \A j \in 1..(Len(s) - i) : z[j] = s[i + j]
    <3> TAKE j \in 1..(Len(s) - i)
    <3>1. j \in 1..(Len(s) - (i + 1) + 1) /\ (i + 1) + j - 1 = i + j
      BY <1>0
    <3> QED
      BY <2>2, <3>1
  <2> QED
    BY <2>2, <2>3, <2>4
<1> HIDE DEF a, z
<1>3. a \o z \in Seq(S) /\ Len(a \o z) = Len(s) - 1
  <2>1. a \o z \in Seq(S) /\ Len(a \o z) = Len(a) + Len(z)
    BY <1>1, <1>2, ConcatProperties
  <2> QED
    BY <1>0, <1>1, <1>2, <2>1
<1>4. ASSUME NEW j \in 1..(Len(s) - 1)
      PROVE  (a \o z)[j] = IF j < i THEN s[j] ELSE s[j + 1]
  <2>1. (a \o z)[j] = IF j <= Len(a) THEN a[j] ELSE z[j - Len(a)]
    <3>1. j \in 1..(Len(a) + Len(z))
      BY <1>0, <1>1, <1>2
    <3> QED
      BY <1>1, <1>2, <3>1, ConcatProperties
  <2>2. CASE j < i
    BY <1>0, <1>1, <2>1, <2>2
  <2>3. CASE ~(j < i)
    <3>1. j - Len(a) \in 1..(Len(s) - i) /\ i + (j - Len(a)) = j + 1 /\ ~(j <= Len(a))
      BY <1>0, <1>1, <2>3
    <3> QED
      BY <1>2, <2>1, <2>3, <3>1
  <2> QED
    BY <2>2, <2>3
<1>5. RemoveAt(s, i) = a \o z
  BY DEF RemoveAt, a, z
<1> QED
  BY <1>3, <1>4, <1>5

LEMMA HereIs ==
  ASSUME SpansInv
  PROVE  /\ \A i \in 1..Len(spans) : /\ spans[i] \in [trace : Spans, at : Nat]
                                     /\ spans[i].trace \in Spans /\ spans[i].at \in Nat
         /\ Here = {spans[i].trace : i \in 1..Len(spans)} /\ DOMAIN spans = 1..Len(spans)
         /\ Here \cap expired = {} /\ Len(spans) \in Nat
<1>1. spans \in Seq([trace : Spans, at : Nat])
  BY DEF SpansInv
<1>2. \A i \in 1..Len(spans) : spans[i] \in [trace : Spans, at : Nat]
  BY <1>1, ElementOfSeq
<1>3. DOMAIN spans = 1..Len(spans) /\ Len(spans) \in Nat
  BY <1>1, LenProperties
<1>4. Here = {spans[i].trace : i \in 1..Len(spans)}
  BY <1>2, <1>3 DEF Here
<1>5. Here \cap expired = {}
  BY <1>4 DEF SpansInv
<1> QED
  BY <1>2, <1>3, <1>4, <1>5

LEMMA PersistKeeps == ASSUME StoreInv, NEW t \in Spans, Persist(t) PROVE StoreInv'
<1> DEFINE home == SpanOf[t].root
           acc == FoldSpan(rollup[home])
           n == Len(spans)
<1>0. now \in 0..MaxTime /\ now \in Nat /\ n \in Nat
  BY StoreAssumption, LenProperties DEF StoreInv, SpansInv
<1>1. /\ UNCHANGED <<costs, scans, evals, expired, now>> /\ spans' = Append(spans, [trace |-> t, at |-> now])
      /\ rollup' = [rollup EXCEPT ![home] = acc] /\ t \notin Here \cup expired
  BY DEF Persist
<1>2. home \in Roots
  BY DEF Roots
<1>3. acc = [rollup[home] EXCEPT !.spans = @ + 1]
  BY DEF FoldSpan
<1>4. /\ acc \in [cost : Nat, scores : Nat, sum : Nat, min : Nat, risk : Nat, detections : Nat, spans : Nat]
      /\ acc.cost = rollup[home].cost /\ acc.scores = rollup[home].scores
      /\ acc.sum = rollup[home].sum /\ acc.min = rollup[home].min /\ acc.spans = rollup[home].spans + 1
      /\ acc.detections = rollup[home].detections
  <2>1. rollup[home] \in [cost : Nat, scores : Nat, sum : Nat, min : Nat, risk : Nat, detections : Nat, spans : Nat]
    BY <1>2 DEF StoreInv, Rollups
  <2> QED
    BY <1>3, <2>1
<1> HIDE DEF acc
<1>5. /\ rollup' \in Rollups
      /\ \A root \in Roots :
           /\ rollup'[root] = IF root = home THEN acc ELSE rollup[root]
           /\ rollup'[root].scores = Cardinality(RatedIn(evals', root))
           /\ rollup'[root].sum = ScoreSum(RatedIn(evals', root))
           /\ \A row \in RatedIn(evals', root) : rollup'[root].min =< row.score
  BY <1>1, <1>4, OneRollup
<1>6. Billed' = Billed /\ \A S : ScansOf(S)' = ScansOf(S)
  BY <1>1 DEF Billed, ScansOf
<1>7. /\ spans' \in Seq([trace : Spans, at : Nat]) /\ Len(spans') = n + 1
      /\ \A i \in 1..n : spans'[i] = spans[i]
      /\ spans'[n + 1] = [trace |-> t, at |-> now]
  <2>1. spans \in Seq([trace : Spans, at : Nat]) /\ [trace |-> t, at |-> now] \in [trace : Spans, at : Nat]
    BY <1>0 DEF StoreInv, SpansInv
  <2> QED
    BY <1>1, <2>1, AppendProperties
<1>8. \A i \in 1..n : spans[i].trace \in Here
  BY HereIs DEF StoreInv
<1>9. SpansInv'
  <2>1. \A i \in 1..Len(spans') : spans'[i].at <= now /\ spans'[i].trace \notin expired
    <3> TAKE i \in 1..Len(spans')
    <3>1. CASE i \in 1..n
      BY <1>7, <3>1 DEF StoreInv, SpansInv
    <3>2. CASE i = n + 1
      BY <1>0, <1>1, <1>7, <3>2
    <3> QED
      BY <1>0, <1>7, <3>1, <3>2
  <2>2. \A i, j \in 1..Len(spans') : spans'[i].trace = spans'[j].trace => i = j
    <3> TAKE i, j \in 1..Len(spans')
    <3>1. CASE i \in 1..n /\ j \in 1..n
      BY <1>7, <3>1 DEF StoreInv, SpansInv
    <3>2. CASE i \in 1..n /\ j = n + 1
      BY <1>1, <1>7, <1>8, <3>2
    <3>3. CASE i = n + 1 /\ j \in 1..n
      BY <1>1, <1>7, <1>8, <3>3
    <3> QED
      BY <1>0, <1>7, <3>1, <3>2, <3>3
  <2> QED
    BY <1>0, <1>1, <1>6, <1>7, <2>1, <2>2 DEF StoreInv, SpansInv
<1>10. Here' = Here \cup {t}
  <2>1. DOMAIN spans = 1..n /\ DOMAIN spans' = 1..(n + 1)
    BY <1>7, LenProperties, HereIs DEF StoreInv
  <2>2. \A x \in Spans : x \in Here <=> \E i \in 1..n : spans[i].trace = x
    BY <2>1 DEF Here
  <2>3. \A x \in Spans : x \in Here' <=> \E i \in 1..(n + 1) : spans'[i].trace = x
    BY <2>1 DEF Here
  <2>4. \A x \in Spans : x \in Here' <=> x \in Here \/ x = t
    <3> TAKE x \in Spans
    <3>1. (\E i \in 1..(n + 1) : spans'[i].trace = x) <=> (\E i \in 1..n : spans'[i].trace = x) \/ spans'[n + 1].trace = x
      BY <1>0
    <3>2. (\E i \in 1..n : spans'[i].trace = x) <=> (\E i \in 1..n : spans[i].trace = x)
      BY <1>7
    <3>3. spans'[n + 1].trace = t
      BY <1>7
    <3> QED
      BY <2>2, <2>3, <3>1, <3>2, <3>3
  <2>5. Here \subseteq Spans /\ Here' \subseteq Spans
    BY DEF Here
  <2> QED
    BY <2>4, <2>5
<1>11. ASSUME NEW root \in Roots
       PROVE  rollup'[root].spans = Cardinality(TreeOf(root) \cap (Here' \cup expired))
  <2> DEFINE A == TreeOf(root) \cap (Here \cup expired)
  <2>1. rollup[root].spans = Cardinality(A)
    BY DEF StoreInv, RollupsFine
  <2>2. CASE root # home
    <3>1. TreeOf(root) \cap (Here' \cup expired) = A
      BY <1>10, <2>2 DEF TreeOf
    <3> QED
      BY <1>5, <2>1, <2>2, <3>1, Zenon
  <2>3. CASE root = home
    <3>1. TreeOf(root) \cap (Here' \cup expired) = A \cup {t}
      BY <1>10, <2>3 DEF TreeOf
    <3>2. IsFiniteSet(A) /\ t \notin A
      BY <1>1, StoreAssumption, FS_Subset DEF TreeOf
    <3> HIDE DEF A
    <3>3. Cardinality(A \cup {t}) = Cardinality(A) + 1
      BY <3>2, FS_AddElement
    <3>4. Cardinality(TreeOf(root) \cap (Here' \cup expired)) = Cardinality(A \cup {t})
      BY <3>1, Zenon
    <3>5. rollup'[root].spans = Cardinality(A) + 1
      BY <1>4, <1>5, <2>1, <2>3
    <3> QED
      BY <3>3, <3>4, <3>5
  <2> QED
    BY <2>2, <2>3
<1>12. RollupsFine'
  <2> SUFFICES ASSUME NEW root \in Roots
               PROVE  /\ rollup'[root].cost = CostOf(TreeOf(root) \cap Billed)
                      /\ rollup'[root].spans = Cardinality(TreeOf(root) \cap (Here' \cup expired))
                      /\ rollup'[root].scores = Cardinality(RatedIn(evals', root))
                      /\ rollup'[root].sum = ScoreSum(RatedIn(evals', root))
                      /\ \A row \in RatedIn(evals', root) : rollup'[root].min =< row.score
                      /\ rollup'[root].detections = ScansOf(Risky(root))
    BY <1>1, <1>6 DEF RollupsFine, TreeOf, RatedIn, OfRoot, Rated, Human, Risky
  <2>1. rollup'[root].detections = rollup[root].detections /\ rollup'[root].cost = rollup[root].cost
    BY <1>4, <1>5
  <2>2. /\ rollup[root].detections = ScansOf(Risky(root))
        /\ rollup[root].cost = CostOf(TreeOf(root) \cap Billed)
    BY DEF StoreInv, RollupsFine
  <2> QED
    BY <1>5, <1>11, <2>1, <2>2
<1>13. RowsInv'
  BY <1>0, <1>1, RowsStay DEF StoreInv
<1> QED
  BY <1>5, <1>9, <1>12, <1>13 DEF StoreInv

\* A span that expires leaves its place to the next, and is still counted.
LEMMA RetireKeeps == ASSUME StoreInv, NEW t \in Spans, Retire(t) PROVE StoreInv'
<1> DEFINE n == Len(spans)
<1>0. now \in 0..MaxTime /\ now \in Nat /\ n \in Nat
  BY StoreAssumption, LenProperties DEF StoreInv, SpansInv
<1>1. UNCHANGED <<costs, scans, evals, rollup, now>> /\ expired' = expired \cup {t}
  BY DEF Retire
<1>2. PICK i \in 1..n : spans[i].trace = t /\ spans' = RemoveAt(spans, i)
  BY HereIs DEF StoreInv, Retire
<1> DEFINE from(j) == IF j < i THEN j ELSE j + 1
<1>3. /\ spans' \in Seq([trace : Spans, at : Nat]) /\ Len(spans') = n - 1
      /\ \A j \in 1..(n - 1) : spans'[j] = spans[from(j)]
  <2>1. spans \in Seq([trace : Spans, at : Nat])
    BY DEF StoreInv, SpansInv
  <2>2. /\ spans' \in Seq([trace : Spans, at : Nat]) /\ Len(spans') = n - 1
        /\ \A j \in 1..(n - 1) : spans'[j] = IF j < i THEN spans[j] ELSE spans[j + 1]
    BY <1>2, <2>1, Removed
  <2> QED
    BY <2>2
<1>4. \A j \in 1..(n - 1) : from(j) \in 1..n /\ from(j) # i /\ (\A k \in 1..(n - 1) : from(j) = from(k) => j = k)
  BY <1>0
<1>5. \A k \in 1..n : k # i => \E j \in 1..(n - 1) : from(j) = k
  <2> TAKE k \in 1..n
  <2> HAVE k # i
  <2>1. CASE k < i
    <3>1. k \in 1..(n - 1) /\ from(k) = k
      BY <1>0, <2>1
    <3> QED
      BY <3>1
  <2>2. CASE k > i
    <3>1. k - 1 \in 1..(n - 1) /\ from(k - 1) = k
      BY <1>0, <2>2
    <3> QED
      BY <3>1
  <2> QED
    BY <1>0, <2>1, <2>2
<1> HIDE DEF from
<1>6. \A j, k \in 1..n : spans[j].trace = spans[k].trace => j = k
  BY DEF StoreInv, SpansInv
<1>7. Billed' = Billed /\ \A S : ScansOf(S)' = ScansOf(S)
  BY <1>1 DEF Billed, ScansOf
<1>8. \A k \in 1..n : spans[k].trace \in Spans /\ spans[k].at <= now /\ spans[k].trace \notin expired
  BY HereIs DEF StoreInv, SpansInv
<1>9. SpansInv'
  <2>1. \A j \in 1..Len(spans') : spans'[j].at <= now /\ spans'[j].trace \notin expired'
    <3> TAKE j \in 1..Len(spans')
    <3>1. spans'[j] = spans[from(j)] /\ from(j) \in 1..n /\ from(j) # i
      BY <1>3, <1>4
    <3>2. spans[from(j)].trace # t
      BY <1>2, <1>6, <3>1
    <3> QED
      BY <1>1, <1>8, <3>1, <3>2
  <2>2. \A j, k \in 1..Len(spans') : spans'[j].trace = spans'[k].trace => j = k
    <3> TAKE j, k \in 1..Len(spans')
    <3> HAVE spans'[j].trace = spans'[k].trace
    <3>1. /\ spans'[j] = spans[from(j)] /\ from(j) \in 1..n
          /\ spans'[k] = spans[from(k)] /\ from(k) \in 1..n
          /\ from(j) = from(k) => j = k
      BY <1>3, <1>4
    <3> QED
      BY <1>6, <3>1
  <2> QED
    BY <1>0, <1>1, <1>3, <1>7, <2>1, <2>2 DEF StoreInv, SpansInv
<1>10. Here' \cup expired' = Here \cup expired
  <2>1. DOMAIN spans = 1..n /\ DOMAIN spans' = 1..(n - 1)
    BY <1>3, LenProperties, HereIs DEF StoreInv
  <2>2. \A x \in Spans : x \in Here <=> \E k \in 1..n : spans[k].trace = x
    BY <2>1 DEF Here
  <2>3. \A x \in Spans : x \in Here' <=> \E j \in 1..(n - 1) : spans'[j].trace = x
    BY <2>1 DEF Here
  <2>4. \A x \in Spans : x \in Here' \/ x = t <=> x \in Here
    <3> TAKE x \in Spans
    <3>1. ASSUME x \in Here' PROVE x \in Here
      <4>1. PICK j \in 1..(n - 1) : spans'[j].trace = x
        BY <2>3, <3>1
      <4>2. from(j) \in 1..n /\ spans[from(j)].trace = x
        BY <1>3, <1>4, <4>1
      <4> QED
        BY <2>2, <4>2
    <3>2. t \in Here
      BY <1>2, <2>2
    <3>3. ASSUME x \in Here, x # t PROVE x \in Here'
      <4>1. PICK k \in 1..n : spans[k].trace = x
        BY <2>2, <3>3
      <4>2. k # i
        BY <1>2, <3>3, <4>1
      <4>3. PICK j \in 1..(n - 1) : from(j) = k
        BY <1>5, <4>2
      <4>4. spans'[j].trace = x
        BY <1>3, <4>1, <4>3
      <4> QED
        BY <2>3, <4>4
    <3> QED
      BY <3>1, <3>2, <3>3
  <2>5. Here \subseteq Spans /\ Here' \subseteq Spans
    BY DEF Here
  <2> QED
    BY <1>1, <2>4, <2>5
<1>11. RollupsFine'
  <2>1. \A root \in Roots : TreeOf(root) \cap (Here' \cup expired') = TreeOf(root) \cap (Here \cup expired)
    BY <1>10, Zenon
  <2> SUFFICES ASSUME NEW root \in Roots
               PROVE  /\ rollup[root].cost = CostOf(TreeOf(root) \cap Billed)
                      /\ rollup[root].spans = Cardinality(TreeOf(root) \cap (Here' \cup expired'))
                      /\ rollup[root].scores = Cardinality(RatedIn(evals, root))
                      /\ rollup[root].sum = ScoreSum(RatedIn(evals, root))
                      /\ \A row \in RatedIn(evals, root) : rollup[root].min =< row.score
                      /\ rollup[root].detections = ScansOf(Risky(root))
    BY <1>1, <1>7 DEF RollupsFine, TreeOf, RatedIn, OfRoot, Rated, Human, Risky
  <2>2. rollup[root].spans = Cardinality(TreeOf(root) \cap (Here \cup expired))
    BY DEF StoreInv, RollupsFine
  <2>3. Cardinality(TreeOf(root) \cap (Here' \cup expired')) = Cardinality(TreeOf(root) \cap (Here \cup expired))
    BY <2>1, Zenon
  <2> QED
    BY <2>2, <2>3 DEF StoreInv, RollupsFine
<1>12. RowsInv'
  BY <1>0, <1>1, RowsStay DEF StoreInv
<1> QED
  BY <1>1, <1>9, <1>11, <1>12 DEF StoreInv, Rollups

LEMMA StoreStepKeeps == ASSUME StoreInv, StoreStep PROVE StoreInv'
<1>1. CASE \E t \in Spans : Persist(t) \/ Bill(t) \/ ScanSpan(t) \/ Retire(t)
  BY <1>1, PersistKeeps, BillKeeps, ScanKeeps, RetireKeeps
<1>2. CASE \E b \in Batches : Grade(b)
  BY <1>2, GradeKeeps
<1>3. CASE NextBucket
  BY <1>3, NextBucketKeeps
<1> QED
  BY <1>1, <1>2, <1>3 DEF StoreStep

LEMMA SpansStepKeeps == ASSUME StoreInv, SpansStep PROVE StoreInv'
BY PersistKeeps, RetireKeeps DEF SpansStep

\* The rollups of what is there in the beginning are those of its rows.
LEMMA StoreBegins ==
  ASSUME NEW begun \in 0..MaxTime, NEW arrived \in Seq([trace : Spans, at : 0..begun]),
         \A i, j \in DOMAIN arrived : arrived[i].trace = arrived[j].trace => i = j,
         NEW graded \in SUBSET Batches, IsFiniteSet(graded), StoreInit(arrived, graded, begun)
  PROVE  StoreInv
<1> DEFINE size(r) == Cardinality({i \in DOMAIN arrived : SpanOf[arrived[i].trace].root = r})
           base(r) == [cost |-> 0, scores |-> 0, sum |-> 0, min |-> 10, risk |-> 0, detections |-> 0,
                       spans |-> size(r)]
           n == Len(arrived)
<1>1. /\ spans = arrived /\ now = begun
      /\ evals = UNION {Graded(b, 0) : b \in graded} /\ expired = {}
      /\ costs = [t \in Spans |-> Nothing] /\ scans = [t \in Spans |-> 0]
  BY DEF StoreInit
<1>2. rollup = [r \in Roots |-> FoldScores(base(r), OfRoot(evals, r))]
  BY DEF StoreInit
<1>3. /\ DOMAIN arrived = 1..n /\ n \in Nat /\ begun \in Nat
      /\ \A i \in 1..n : arrived[i] \in [trace : Spans, at : 0..begun]
  <2>1. begun \in Nat
    BY StoreAssumption
  <2> QED
    BY <2>1, LenProperties, ElementOfSeq
<1>4. /\ spans \in Seq([trace : Spans, at : Nat]) /\ Len(spans) = n
      /\ \A i \in 1..n : spans[i].trace = arrived[i].trace /\ spans[i].at <= begun
  <2>1. \A i \in 1..n : arrived[i] \in [trace : Spans, at : Nat] /\ arrived[i].at <= begun
    <3> TAKE i \in 1..n
    <3>1. arrived[i] \in [trace : Spans, at : 0..begun]
      BY <1>3
    <3> HIDE DEF n
    <3> QED
      BY <1>3, <3>1
  <2>2. arrived = [i \in 1..n |-> arrived[i]]
    BY <1>3
  <2> HIDE DEF n
  <2>3. [i \in 1..n |-> arrived[i]] \in Seq([trace : Spans, at : Nat])
    BY <1>3, <2>1, IsASeq
  <2>4. arrived \in Seq([trace : Spans, at : Nat])
    BY <2>2, <2>3, Zenon
  <2> QED
    BY <1>1, <2>1, <2>4 DEF n
<1>5. SpansInv
  <2>1. Billed = {}
    BY <1>1 DEF Billed
  <2>2. costs \in [Spans -> Nat \cup {Nothing}] /\ scans \in [Spans -> Nat]
    BY <1>1
  <2>3. now \in 0..MaxTime
    BY <1>1, StoreAssumption
  <2>4. \A i, j \in 1..n : arrived[i].trace = arrived[j].trace => i = j
    BY <1>3
  <2> QED
    BY <1>1, <1>4, <2>1, <2>2, <2>3, <2>4 DEF SpansInv
<1>6. RowsInv
  <2>1. \A b \in graded : /\ IsFiniteSet(Graded(b, 0))
                          /\ \A row \in Graded(b, 0) : /\ row.from = b /\ row.trace \in Spans /\ row.score \in Score
                                                       /\ row.usage \in Nat /\ row.at = 0
    BY GradedAre
  <2>2. \A row \in evals : \E b \in graded : row \in Graded(b, 0)
    BY <1>1
  <2>3. \A b \in graded : Graded(b, 0) \subseteq evals
    BY <1>1
  <2>4. IsFiniteSet(evals)
    <3> DEFINE all == [b \in graded |-> Graded(b, 0)]
               S == {all[b] : b \in graded}
    <3>1. evals = UNION S
      BY <1>1
    <3>2. \A T \in S : IsFiniteSet(T)
      BY <2>1
    <3> HIDE DEF all
    <3>3. IsFiniteSet(S)
      BY ImageFinite
    <3> HIDE DEF S
    <3>4. IsFiniteSet(UNION S)
      BY <3>2, <3>3, FS_UNION
    <3> QED
      BY <3>1, <3>4, Zenon
  <2>5. \A row \in evals : RowKept(row)
    BY <1>1, <2>1, <2>2 DEF RowKept
  <2>6. ASSUME NEW b \in Batches, RowsFrom(b) # {}
        PROVE  \E time \in 0..now : RowsFrom(b) = Graded(b, time)
    <3>1. b \in graded
      BY <2>1, <2>2, <2>6 DEF RowsFrom
    <3>2. RowsFrom(b) = Graded(b, 0)
      BY <2>1, <2>2, <2>3, <3>1 DEF RowsFrom
    <3> QED
      BY <1>1, <1>3, <3>2
  <2> QED
    BY <2>4, <2>5, <2>6 DEF RowsInv
<1>7. ASSUME NEW r \in Roots
      PROVE  size(r) = Cardinality(TreeOf(r) \cap (Here \cup expired))
  <2> DEFINE I == {i \in DOMAIN arrived : SpanOf[arrived[i].trace].root = r}
             T == TreeOf(r) \cap (Here \cup expired)
             f == [i \in I |-> arrived[i].trace]
  <2>1. I \subseteq 1..n /\ IsFiniteSet(1..n)
    BY <1>3, FS_Interval
  <2>2. IsFiniteSet(I)
    BY <2>1, FS_Subset
  <2>3. \A t : t \in T <=> \E i \in I : t = arrived[i].trace
    <3>1. DOMAIN spans = 1..n
      BY <1>1, <1>3
    <3>2. \A t : t \in T <=> t \in Spans /\ SpanOf[t].root = r /\ \E i \in 1..n : arrived[i].trace = t
      BY <1>1, <1>4, <3>1 DEF TreeOf, Here
    <3>3. \A i \in 1..n : arrived[i].trace \in Spans
      <4> TAKE i \in 1..n
      <4>1. arrived[i] \in [trace : Spans, at : 0..begun]
        BY <1>3
      <4> HIDE DEF n
      <4> QED
        BY <4>1
    <3> HIDE DEF T
    <3> QED
      BY <1>3, <3>2, <3>3
  <2>4. f \in Bijection(I, T)
    <3>1. f \in [I -> T]
      BY <2>3
    <3>2. \A t \in T : \E i \in I : f[i] = t
      BY <2>3
    <3>3. \A i, j \in I : f[i] = f[j] => i = j
      OBVIOUS
    <3> QED
      BY <3>1, <3>2, <3>3 DEF Bijection, Injection, Surjection, IsInjective
  <2> HIDE DEF I, T, f
  <2>5. Cardinality(T) = Cardinality(I)
    BY <2>2, <2>4, FS_Bijection DEF ExistsBijection
  <2> QED
    BY <2>5, Zenon DEF I, T
<1> DEFINE R(r) == RatedIn(evals, r)
           Lowest(r) == Min({10} \cup {row.score : row \in R(r)})
<1>8. ASSUME NEW r \in Roots
      PROVE  /\ Cardinality(R(r)) \in Nat /\ ScoreSum(R(r)) \in Nat /\ size(r) \in Nat
             /\ Lowest(r) \in Nat /\ \A row \in R(r) : Lowest(r) <= row.score
  <2>1. IsFiniteSet(R(r)) /\ \A row \in R(r) : row.score \in Nat
    <3>1. R(r) \in SUBSET evals
      BY DEF RatedIn, OfRoot
    <3> DEFINE K == R(r)
    <3> HIDE DEF K
    <3>2. IsFiniteSet(evals) /\ \A row \in evals : row.score \in Nat
      BY <1>6 DEF RowsInv, RowKept, Score
    <3>3. IsFiniteSet(K) /\ \A row \in K : row.score \in Nat
      BY <3>1, <3>2, FS_Subset DEF K
    <3> QED
      BY <3>3 DEF K
  <2>2. size(r) \in Nat
    <3>1. TreeOf(r) \cap (Here \cup expired) \in SUBSET Spans
      BY DEF TreeOf
    <3> DEFINE T == TreeOf(r) \cap (Here \cup expired)
    <3> HIDE DEF T
    <3>2. Cardinality(T) \in Nat
      BY <3>1, FS_Subset, FS_CardinalityType, StoreAssumption DEF T
    <3> QED
      BY <1>7, <3>2 DEF T
  <2> DEFINE S == {10} \cup {row.score : row \in R(r)}
  <2>3. S \in SUBSET Nat /\ S # {} /\ \A row \in R(r) : row.score \in S
    BY <2>1
  <2> HIDE DEF S, R, size
  <2>4. Min(S) \in S /\ \A y \in S : Min(S) <= y
    BY <2>3, MinIs
  <2>5. Min(S) \in Nat /\ \A row \in R(r) : Min(S) <= row.score
    BY <2>3, <2>4
  <2>6. Cardinality(R(r)) \in Nat
    BY <2>1, FS_CardinalityType
  <2>7. ScoreSum(R(r)) \in Nat
    BY <2>1, FS_EmptySet, ScoresAdd
  <2> QED
    BY <2>2, <2>5, <2>6, <2>7 DEF S
<1>9. ASSUME NEW r \in Roots
      PROVE  rollup[r] = [base(r) EXCEPT !.scores = 0 + Cardinality(R(r)), !.sum = 0 + ScoreSum(R(r)),
                                         !.min = Lowest(r)]
  BY <1>2 DEF FoldScores, RatedIn
<1> HIDE DEF R, Lowest, size
<1>10. ASSUME NEW r \in Roots
       PROVE  /\ rollup[r] \in [cost : Nat, scores : Nat, sum : Nat, min : Nat, risk : Nat, detections : Nat, spans : Nat]
              /\ rollup[r].scores = Cardinality(R(r)) /\ rollup[r].sum = ScoreSum(R(r)) /\ rollup[r].cost = 0
              /\ rollup[r].min = Lowest(r) /\ rollup[r].detections = 0 /\ rollup[r].spans = size(r)
  <2>0. Cardinality(R(r)) \in Nat /\ ScoreSum(R(r)) \in Nat /\ size(r) \in Nat /\ Lowest(r) \in Nat
    BY <1>8
  <2>1. 0 + Cardinality(R(r)) = Cardinality(R(r)) /\ 0 + ScoreSum(R(r)) = ScoreSum(R(r))
    BY <2>0
  <2>2. base(r) \in [cost : Nat, scores : Nat, sum : Nat, min : Nat, risk : Nat, detections : Nat, spans : Nat]
        /\ base(r).cost = 0 /\ base(r).detections = 0 /\ base(r).spans = size(r)
    BY <2>0
  <2>3. rollup[r] = [base(r) EXCEPT !.scores = Cardinality(R(r)), !.sum = ScoreSum(R(r)), !.min = Lowest(r)]
    BY <1>9, <2>1, Zenon
  <2> HIDE DEF base
  <2> QED
    BY <2>0, <2>2, <2>3
<1>11. RollupsFine
  <2> SUFFICES ASSUME NEW root \in Roots
               PROVE  /\ rollup[root].cost = CostOf(TreeOf(root) \cap Billed)
                      /\ rollup[root].spans = Cardinality(TreeOf(root) \cap (Here \cup expired))
                      /\ rollup[root].scores = Cardinality(R(root))
                      /\ rollup[root].sum = ScoreSum(R(root))
                      /\ \A row \in R(root) : rollup[root].min =< row.score
                      /\ rollup[root].detections = ScansOf(Risky(root))
    BY DEF RollupsFine, R
  <2>1. CostOf(TreeOf(root) \cap Billed) = 0
    <3>1. TreeOf(root) \cap Billed = {}
      BY <1>1 DEF Billed
    <3> QED
      BY <3>1, NothingSums, Zenon
  <2>2. ScansOf(Risky(root)) = 0
    <3>1. Risky(root) \in SUBSET Spans /\ scans \in [Spans -> Nat] /\ \A t \in Spans : scans[t] = 0
      BY <1>1 DEF Risky, TreeOf
    <3> DEFINE S == Risky(root)
               f == scans
    <3> HIDE DEF S
    <3>2. IsFiniteSet(S) /\ ScansOf(S) = SumFunctionOnSet(scans, S)
      BY <3>1, ScansAre DEF S
    <3>3. \A t \in S : f[t] = 0
      BY <3>1 DEF S
    <3> HIDE DEF f
    <3>4. SumFunctionOnSet(f, S) = 0
      BY <3>2, <3>3, SumZero
    <3> QED
      BY <3>2, <3>4 DEF f, S
  <2> QED
    BY <1>7, <1>8, <1>10, <2>1, <2>2
<1>12. rollup \in Rollups
  BY <1>2, <1>10 DEF Rollups
<1> QED
  BY <1>5, <1>6, <1>11, <1>12 DEF StoreInv

-----------------------------------------------------------------------------
(* What is read of the rows. *)

\* What is summed group by group is the sum, if every one is in one group.
LEMMA Grouped ==
  ASSUME NEW S, IsFiniteSet(S), NEW w, \A x \in S : w[x] \in Int, NEW I, IsFiniteSet(I), NEW part,
         \A i \in I : part[i] \subseteq S, \A x \in S : \E i \in I : x \in part[i],
         \A i, j \in I : i # j => part[i] \cap part[j] = {},
         NEW g, DOMAIN g = I, \A i \in I : g[i] = SumFunctionOnSet(w, part[i])
  PROVE  SumFunction(g) = SumFunctionOnSet(w, S)
<1>1. AllOf(part, I) = S
  BY DEF AllOf
<1>2. \A i \in I : IsFiniteSet(part[i]) /\ \A x \in part[i] : w[x] \in Int
  BY FS_Subset
<1>3. SumFunctionOnSet(w, AllOf(part, I)) = SumFunctionOnSet(Each(w, part, I), I)
  BY <1>2, SumParts
<1>4. \A i \in I : g[i] = Each(w, part, I)[i]
  BY DEF Each
<1>5. SumFunction(g) = SumFunctionOnSet(Each(w, part, I), I)
  BY <1>4, SumFunctionIs
<1> QED
  BY <1>1, <1>3, <1>5, Zenon

LEMMA GroupedCount ==
  ASSUME NEW S, IsFiniteSet(S), NEW I, IsFiniteSet(I), NEW part,
         \A i \in I : part[i] \subseteq S, \A x \in S : \E i \in I : x \in part[i],
         \A i, j \in I : i # j => part[i] \cap part[j] = {},
         NEW g, DOMAIN g = I, \A i \in I : g[i] = Cardinality(part[i])
  PROVE  SumFunction(g) = Cardinality(S)
<1>1. AllOf(part, I) = S
  BY DEF AllOf
<1>2. \A i \in I : IsFiniteSet(part[i])
  BY FS_Subset
<1>3. Cardinality(AllOf(part, I)) = SumFunctionOnSet(Sizes(part, I), I)
  BY <1>2, CountParts
<1>4. \A i \in I : g[i] = Sizes(part, I)[i]
  BY DEF Sizes
<1>5. SumFunction(g) = SumFunctionOnSet(Sizes(part, I), I)
  BY <1>4, SumFunctionIs
<1> QED
  BY <1>1, <1>3, <1>5, Zenon

\* What each row says, and used.
ScoreOf == [row \in evals |-> row.score]
UseOf   == [row \in evals |-> row.usage]

LEMMA ScoresAre ==
  ASSUME RowsInv, NEW S \in SUBSET evals
  PROVE  /\ IsFiniteSet(S) /\ ScoreSum(S) = SumFunctionOnSet(ScoreOf, S) /\ ScoreSum(S) \in Nat
         /\ \A row \in S : ScoreOf[row] \in Nat
<1>1. IsFiniteSet(S)
  BY FS_Subset DEF RowsInv
<1> DEFINE g == [row \in S |-> row.score]
<1>2. DOMAIN g = S /\ \A row \in S : g[row] = ScoreOf[row] /\ ScoreOf[row] \in Nat
  BY DEF ScoreOf, RowsInv, RowKept, Score
<1> HIDE DEF g
<1>3. SumFunction(g) = SumFunctionOnSet(ScoreOf, S)
  BY <1>1, <1>2, SumFunctionIs
<1>4. SumFunctionOnSet(ScoreOf, S) \in Nat
  BY <1>1, <1>2, SumType
<1> QED
  BY <1>1, <1>2, <1>3, <1>4 DEF ScoreSum, g

LEMMA UsagesAre ==
  ASSUME RowsInv, NEW S \in SUBSET evals
  PROVE  /\ IsFiniteSet(S) /\ UsageOf(S) = SumFunctionOnSet(UseOf, S) /\ UsageOf(S) \in Nat
         /\ \A row \in S : UseOf[row] \in Nat /\ UseOf[row] = row.usage
<1>1. IsFiniteSet(S)
  BY FS_Subset DEF RowsInv
<1> DEFINE g == [row \in S |-> row.usage]
<1>2. DOMAIN g = S /\ \A row \in S : g[row] = UseOf[row] /\ UseOf[row] \in Nat /\ UseOf[row] = row.usage
  BY DEF UseOf, RowsInv, RowKept
<1> HIDE DEF g
<1>3. SumFunction(g) = SumFunctionOnSet(UseOf, S)
  BY <1>1, <1>2, SumFunctionIs
<1>4. SumFunctionOnSet(UseOf, S) \in Nat
  BY <1>1, <1>2, SumType
<1> QED
  BY <1>1, <1>2, <1>3, <1>4 DEF UsageOf, g

\* Every span there is came in within one bucket.
LEMMA SpansCounted ==
  ASSUME StoreInv
  PROVE  Totals.spans = Len(spans)
<1> DEFINE in(b) == {t \in Here : \E i \in DOMAIN spans : spans[i].trace = t /\ spans[i].at = b}
           part == [b \in Buckets |-> in(b)]
           g == [b \in Buckets |-> Traffic(b).spans]
           n == Len(spans)
<1>1. /\ Here = {spans[i].trace : i \in 1..n} /\ DOMAIN spans = 1..n /\ n \in Nat
      /\ \A i \in 1..n : spans[i].at \in Nat /\ spans[i].at <= now
      /\ now \in 0..MaxTime /\ MaxTime \in Nat
      /\ \A i, j \in 1..n : spans[i].trace = spans[j].trace => i = j
  BY HereIs, StoreAssumption DEF StoreInv, SpansInv
<1>2. Cardinality(Here) = n /\ IsFiniteSet(Here)
  <2> DEFINE f == [i \in 1..n |-> spans[i].trace]
  <2>1. f \in Bijection(1..n, Here)
    <3>1. f \in [1..n -> Here]
      BY <1>1
    <3>2. \A t \in Here : \E i \in 1..n : f[i] = t
      BY <1>1
    <3>3. \A i, j \in 1..n : f[i] = f[j] => i = j
      BY <1>1
    <3> QED
      BY <3>1, <3>2, <3>3 DEF Bijection, Injection, Surjection, IsInjective
  <2>2. IsFiniteSet(1..n) /\ Cardinality(1..n) = n
    <3>1. Cardinality(1..n) = IF 1 > n THEN 0 ELSE n - 1 + 1
      BY <1>1, FS_Interval
    <3> QED
      BY <1>1, <3>1, FS_Interval
  <2> HIDE DEF f
  <2> QED
    BY <2>1, <2>2, FS_Bijection DEF ExistsBijection
<1>3. IsFiniteSet(Buckets)
  BY <1>1, FS_Interval DEF Buckets
<1>4. \A b \in Buckets : part[b] \subseteq Here
  OBVIOUS
<1>5. \A t \in Here : \E b \in Buckets : t \in part[b]
  <2> TAKE t \in Here
  <2>1. PICK i \in 1..n : spans[i].trace = t
    BY <1>1
  <2>2. spans[i].at \in Buckets
    BY <1>1 DEF Buckets
  <2> QED
    BY <1>1, <2>1, <2>2
<1>6. \A b, c \in Buckets : b # c => part[b] \cap part[c] = {}
  BY <1>1
<1>7. DOMAIN g = Buckets /\ \A b \in Buckets : g[b] = Cardinality(part[b])
  BY DEF Traffic
<1> HIDE DEF part, g
<1>8. SumFunction(g) = Cardinality(Here)
  BY <1>2, <1>3, <1>4, <1>5, <1>6, <1>7, GroupedCount
<1>9. Totals.spans = SumFunction(g)
  BY DEF Totals, g
<1> QED
  BY <1>2, <1>8, <1>9

LEMMA CostsCounted ==
  ASSUME StoreInv
  PROVE  Totals.cost = CostOf(Billed)
<1> DEFINE part == [b \in Buckets |-> {t \in Billed : costs[t] = b}]
           g == [b \in Buckets |-> Spend(b)]
<1>1. /\ Billed \in SUBSET Spans /\ \A t \in Billed : costs[t] \in Nat /\ costs[t] <= now
      /\ now \in 0..MaxTime /\ MaxTime \in Nat
  BY StoreAssumption DEF StoreInv, SpansInv, Billed
<1>2. IsFiniteSet(Buckets)
  BY <1>1, FS_Interval DEF Buckets
<1>3. IsFiniteSet(Billed) /\ CostOf(Billed) = SumFunctionOnSet(Costs, Billed)
  BY <1>1, CostIs
<1>4. \A b \in Buckets : part[b] \subseteq Billed
  OBVIOUS
<1>5. \A t \in Billed : \E b \in Buckets : t \in part[b]
  <2> TAKE t \in Billed
  <2>1. costs[t] \in Buckets
    BY <1>1 DEF Buckets
  <2> QED
    BY <2>1
<1>6. \A b, c \in Buckets : b # c => part[b] \cap part[c] = {}
  OBVIOUS
<1>7. DOMAIN g = Buckets /\ \A b \in Buckets : g[b] = SumFunctionOnSet(Costs, part[b])
  <2>1. \A b \in Buckets : g[b] = CostOf(part[b]) /\ part[b] \in SUBSET Spans
    BY <1>1 DEF Spend
  <2>2. DOMAIN g = Buckets
    OBVIOUS
  <2> HIDE DEF part, g
  <2> QED
    BY <2>1, <2>2, CostIs
<1>8. \A t \in Billed : Costs[t] \in Int
  BY <1>1, StoreAssumption DEF Costs
<1> HIDE DEF part, g
<1>9. SumFunction(g) = SumFunctionOnSet(Costs, Billed)
  BY <1>2, <1>3, <1>4, <1>5, <1>6, <1>7, <1>8, Grouped
<1>10. Totals.cost = SumFunction(g)
  BY DEF Totals, g
<1> QED
  BY <1>3, <1>9, <1>10

LEMMA ModelsCounted ==
  ASSUME StoreInv
  PROVE  SumFunction([model \in Models |-> Breakdown(model).cost])
           = CostOf(Billed) - CostOf({t \in Billed : SpanOf[t].model = ""})
<1> DEFINE none == {t \in Billed : SpanOf[t].model = ""}
           some == {t \in Billed : SpanOf[t].model # ""}
           part == [model \in Models |-> {t \in Billed : SpanOf[t].model = model}]
           g == [model \in Models |-> Breakdown(model).cost]
<1>1. Billed \in SUBSET Spans /\ some \in SUBSET Spans /\ none \in SUBSET Spans
      /\ some \cap none = {} /\ some \cup none = Billed
  BY DEF Billed
<1>2. IsFiniteSet(Billed) /\ IsFiniteSet(some) /\ CostOf(some) = SumFunctionOnSet(Costs, some)
      /\ CostOf(some) \in Nat /\ CostOf(none) \in Nat
  <2> HIDE DEF some, none
  <2> QED
    BY <1>1, CostIs
<1>3. IsFiniteSet(Models)
  <2> DEFINE f == [t \in Billed |-> SpanOf[t].model]
             S == {f[t] : t \in Billed}
  <2>1. Models \in SUBSET S
    BY DEF Models
  <2> HIDE DEF f
  <2>2. IsFiniteSet(S)
    BY <1>2, ImageFinite
  <2> HIDE DEF S
  <2> QED
    BY <2>1, <2>2, FS_Subset
<1>4. \A model \in Models : part[model] \subseteq some
  BY DEF Models
<1>5. \A t \in some : \E model \in Models : t \in part[model]
  BY DEF Models
<1>6. \A b, c \in Models : b # c => part[b] \cap part[c] = {}
  OBVIOUS
<1>7. DOMAIN g = Models /\ \A b \in Models : g[b] = SumFunctionOnSet(Costs, part[b])
  <2>1. \A b \in Models : g[b] = CostOf(part[b]) /\ part[b] \in SUBSET Spans
    BY <1>1 DEF Breakdown
  <2>2. DOMAIN g = Models
    OBVIOUS
  <2> HIDE DEF part, g
  <2> QED
    BY <2>1, <2>2, CostIs
<1>8. \A t \in some : Costs[t] \in Int
  <2>1. \A t \in Spans : Costs[t] \in Int
    BY StoreAssumption DEF Costs
  <2> HIDE DEF some
  <2> QED
    BY <1>1, <2>1
<1> HIDE DEF part, g, some, none
<1>9. SumFunction(g) = SumFunctionOnSet(Costs, some)
  BY <1>2, <1>3, <1>4, <1>5, <1>6, <1>7, <1>8, Grouped
<1>10. CostOf(Billed) = CostOf(some) + CostOf(none)
  <2>1. CostOf(some \cup none) = CostOf(some) + CostOf(none)
    BY <1>1, CostUnion
  <2> QED
    BY <1>1, <2>1, Zenon
<1>11. SumFunction(g) = CostOf(Billed) - CostOf(none)
  BY <1>2, <1>9, <1>10
<1> QED
  BY <1>11 DEF g, none

\* Averages weighed by how much went into them make the average of all.
In(rows, b) == {row \in rows : row.at = b}
Averages(rows) ==
  {[bucket |-> b, avg |-> Weighed(AvgIf(In(rows, b)), Cardinality(In(rows, b)))] : b \in ScoredBuckets}

LEMMA AverageIs ==
  ASSUME RowsInv, NEW K \in SUBSET evals
  PROVE  /\ K = {} <=> AvgIf(K) = NaN
         /\ K # {} => AvgIf(K) = [sum |-> ScoreSum(K), of |-> Cardinality(K)]
         /\ K = {} <=> Cardinality(K) = 0
         /\ Cardinality(K) \in Nat /\ ScoreSum(K) \in Nat /\ IsFiniteSet(K)
<1>1. IsFiniteSet(K) /\ ScoreSum(K) \in Nat
  BY ScoresAre
<1>2. Cardinality(K) \in Nat /\ (K = {} <=> Cardinality(K) = 0)
  BY <1>1, FS_CardinalityType, FS_EmptySet
<1>3. [sum |-> ScoreSum(K), of |-> Cardinality(K)] # NaN
  <2>1. [sum |-> ScoreSum(K), of |-> Cardinality(K)] \in [sum : Nat, of : Nat]
    BY <1>1, <1>2
  <2> QED
    BY <2>1, NothingIsNoAverage
<1> QED
  BY <1>1, <1>2, <1>3 DEF AvgIf, Avg

LEMMA AveragesAddUp ==
  ASSUME RowsInv, NEW K \in SUBSET evals
  PROVE  /\ TotalOf(Averages(K)) # NaN => TotalOf(Averages(K)) = AvgIf(K)
         /\ (TotalOf(Averages(K)) = NaN /\ evals # {}) => \E b \in ScoredBuckets : Cardinality(In(K, b)) = 0
<1> DEFINE B == ScoredBuckets
           a(b) == [bucket |-> b, avg |-> Weighed(AvgIf(In(K, b)), Cardinality(In(K, b)))]
           m == [b \in B |-> a(b)]
           A == Averages(K)
           fs == [x \in A |-> x.avg.sum]
           fo == [x \in A |-> x.avg.of]
           gs == [b \in B |-> fs[m[b]]]
           go == [b \in B |-> fo[m[b]]]
           part == [b \in B |-> In(K, b)]
<1>1. \A b : In(K, b) \in SUBSET evals
  BY DEF In
<1>2. \A b : /\ In(K, b) = {} <=> AvgIf(In(K, b)) = NaN
             /\ In(K, b) # {} => AvgIf(In(K, b)) = [sum |-> ScoreSum(In(K, b)), of |-> Cardinality(In(K, b))]
             /\ In(K, b) = {} <=> Cardinality(In(K, b)) = 0
             /\ Cardinality(In(K, b)) \in Nat /\ ScoreSum(In(K, b)) \in Nat
  BY <1>1, AverageIs
<1>3. \A b : /\ In(K, b) = {} <=> a(b).avg = NaN
             /\ In(K, b) # {} => a(b).avg = [sum |-> ScoreSum(In(K, b)), of |-> Cardinality(In(K, b))]
  <2> TAKE b
  <2>1. CASE In(K, b) = {}
    BY <1>2, <2>1 DEF Weighed
  <2>2. CASE In(K, b) # {}
    <3>1. a(b).avg = [sum |-> ScoreSum(In(K, b)), of |-> Cardinality(In(K, b))]
      BY <1>2, <2>2 DEF Weighed
    <3>2. a(b).avg \in [sum : Nat, of : Nat]
      BY <1>2, <3>1
    <3> HIDE DEF a
    <3> QED
      BY <2>2, <3>1, <3>2, NothingIsNoAverage
  <2> QED
    BY <2>1, <2>2
<1>4. A = {m[b] : b \in B} /\ \A b \in B : m[b] = a(b)
  BY DEF Averages
<1>5. \A b, c \in B : m[b] = m[c] => b = c
  <2> TAKE b, c \in B
  <2>1. m[b].bucket = b /\ m[c].bucket = c
    OBVIOUS
  <2> QED
    BY <2>1
<1>6. B # {} <=> evals # {}
  BY DEF ScoredBuckets
<1>7. IsFiniteSet(B)
  <2> DEFINE f == [row \in evals |-> row.at]
  <2>1. B = {f[row] : row \in evals}
    BY DEF ScoredBuckets
  <2> HIDE DEF f
  <2>2. IsFiniteSet({f[row] : row \in evals})
    BY ImageFinite DEF RowsInv
  <2> QED
    BY <2>1, <2>2, Zenon
<1> HIDE DEF a, m, A, B
<1>8. CASE A = {} \/ \E x \in A : x.avg = NaN
  <2>1. TotalOf(A) = NaN
    BY <1>8 DEF TotalOf
  <2>2. ASSUME evals # {} PROVE \E b \in B : Cardinality(In(K, b)) = 0
    <3>1. PICK b \in B : m[b].avg = NaN
      BY <1>4, <1>6, <1>8, <2>2
    <3> QED
      BY <1>2, <1>3, <1>4, <3>1
  <2> QED
    BY <2>1, <2>2 DEF A, B
<1>9. CASE A # {} /\ \A x \in A : x.avg # NaN
  <2>1. /\ B # {}
        /\ \A b \in B : /\ m[b] \in A /\ In(K, b) # {}
                        /\ m[b].avg = [sum |-> ScoreSum(In(K, b)), of |-> Cardinality(In(K, b))]
    BY <1>3, <1>4, <1>9
  <2>2. \A b \in B : /\ gs[b] = ScoreSum(In(K, b)) /\ fs[m[b]] \in Int /\ gs[b] = fs[m[b]]
                     /\ go[b] = Cardinality(In(K, b)) /\ fo[m[b]] \in Int /\ go[b] = fo[m[b]]
    <3> TAKE b \in B
    <3>1. fs[m[b]] = m[b].avg.sum /\ fo[m[b]] = m[b].avg.of /\ gs[b] = fs[m[b]] /\ go[b] = fo[m[b]]
      BY <2>1
    <3> DEFINE s == ScoreSum(In(K, b))
               c == Cardinality(In(K, b))
    <3>2. m[b].avg = [sum |-> s, of |-> c] /\ s \in Nat /\ c \in Nat
      BY <1>2, <2>1
    <3> HIDE DEF fs, fo, gs, go, s, c
    <3>3. m[b].avg.sum = s /\ m[b].avg.of = c
      BY <3>2
    <3> QED
      BY <3>1, <3>2, <3>3 DEF s, c
  <2>3. DOMAIN gs = B /\ DOMAIN go = B /\ DOMAIN fs = A /\ DOMAIN fo = A
    OBVIOUS
  <2>4. gs = [b \in B |-> fs[m[b]]] /\ go = [b \in B |-> fo[m[b]]]
    OBVIOUS
  <2> HIDE DEF fs, fo, gs, go
  <2>5. SumFunction(fs) = SumFunction(gs) /\ SumFunction(fo) = SumFunction(go)
    <3>1. SumFunctionOnSet(fs, {m[b] : b \in B}) = SumFunctionOnSet([b \in B |-> fs[m[b]]], B)
      BY <1>5, <1>7, <2>2, SumRenamed
    <3>2. SumFunctionOnSet(fo, {m[b] : b \in B}) = SumFunctionOnSet([b \in B |-> fo[m[b]]], B)
      BY <1>5, <1>7, <2>2, SumRenamed
    <3>3. SumFunction(fs) = SumFunctionOnSet(fs, {m[b] : b \in B}) /\ SumFunction(gs) = SumFunctionOnSet(gs, B)
          /\ SumFunction(fo) = SumFunctionOnSet(fo, {m[b] : b \in B}) /\ SumFunction(go) = SumFunctionOnSet(go, B)
      BY <1>4, <2>3, Zenon DEF SumFunction
    <3> QED
      BY <2>4, <3>1, <3>2, <3>3, Zenon
  <2>6. \A b \in B : part[b] \subseteq K /\ part[b] = In(K, b)
    BY DEF In
  <2>7. \A row \in K : \E b \in B : row \in part[b]
    <3> TAKE row \in K
    <3>1. row.at \in B
      BY DEF B, ScoredBuckets
    <3> QED
      BY <3>1 DEF In
  <2>8. \A b, c \in B : b # c => part[b] \cap part[c] = {}
    BY DEF In
  <2>9. /\ IsFiniteSet(K) /\ ScoreSum(K) = SumFunctionOnSet(ScoreOf, K) /\ \A row \in K : ScoreOf[row] \in Int
        /\ \A b : ScoreSum(In(K, b)) = SumFunctionOnSet(ScoreOf, In(K, b))
    BY <1>1, ScoresAre
  <2> HIDE DEF part
  <2>10. SumFunction(gs) = ScoreSum(K)
    <3>1. \A b \in B : gs[b] = SumFunctionOnSet(ScoreOf, part[b])
      BY <2>2, <2>6, <2>9
    <3>2. SumFunction(gs) = SumFunctionOnSet(ScoreOf, K)
      BY <1>7, <2>3, <2>6, <2>7, <2>8, <2>9, <3>1, Grouped
    <3> QED
      BY <2>9, <3>2
  <2>11. SumFunction(go) = Cardinality(K)
    <3>1. \A b \in B : go[b] = Cardinality(part[b])
      BY <2>2, <2>6
    <3> QED
      BY <1>7, <2>3, <2>6, <2>7, <2>8, <2>9, <3>1, GroupedCount
  <2>12. K # {}
    BY <2>1 DEF In
  <2>13. AvgIf(K) = [sum |-> ScoreSum(K), of |-> Cardinality(K)] /\ AvgIf(K) # NaN
    BY <2>12, AverageIs
  <2>14. TotalOf(A) = [sum |-> SumFunction(fs), of |-> SumFunction(fo)]
    BY <1>9 DEF TotalOf, fs, fo
  <2>15. TotalOf(A) = AvgIf(K)
    BY <2>5, <2>10, <2>11, <2>13, <2>14
  <2> QED
    BY <2>13, <2>15 DEF A
<1> QED
  BY <1>8, <1>9

LEMMA StoreInvMonitor == ASSUME StoreInv PROVE MonitorAddsUp
<1> DEFINE judged == Judges(evals)
           given == Feedback(evals)
<1>1. judged \in SUBSET evals /\ given \in SUBSET evals /\ RowsInv
  BY DEF Judges, Feedback, StoreInv
<1>2. \A b : /\ Judges({row \in evals : row.at = b}) = In(judged, b)
             /\ Feedback({row \in evals : row.at = b}) = In(given, b)
  BY DEF Judges, Feedback, In
<1>3. \A b : /\ Scores(b).judge = AvgIf(In(judged, b)) /\ Scores(b).judged = Cardinality(In(judged, b))
             /\ Scores(b).feedback = AvgIf(In(given, b)) /\ Scores(b).given = Cardinality(In(given, b))
  BY <1>2, Zenon DEF Scores
<1> HIDE DEF judged, given
<1>4. Totals.judge = TotalOf(Averages(judged)) /\ Totals.feedback = TotalOf(Averages(given))
  <2>1. {[bucket |-> b, avg |-> Weighed(Scores(b).judge, Scores(b).judged)] : b \in ScoredBuckets} = Averages(judged)
    BY <1>3 DEF Averages
  <2>2. {[bucket |-> b, avg |-> Weighed(Scores(b).feedback, Scores(b).given)] : b \in ScoredBuckets} = Averages(given)
    BY <1>3 DEF Averages
  <2>3. /\ Totals.judge = TotalOf({[bucket |-> b, avg |-> Weighed(Scores(b).judge, Scores(b).judged)] : b \in ScoredBuckets})
        /\ Totals.feedback = TotalOf({[bucket |-> b, avg |-> Weighed(Scores(b).feedback, Scores(b).given)] : b \in ScoredBuckets})
    BY DEF Totals
  <2> QED
    BY <2>1, <2>2, <2>3, Zenon
<1>5. /\ Totals.judge # NaN => Totals.judge = AvgIf(judged)
      /\ (Totals.judge = NaN /\ evals # {}) => \E b \in ScoredBuckets : Cardinality(In(judged, b)) = 0
      /\ Totals.feedback # NaN => Totals.feedback = AvgIf(given)
  BY <1>1, <1>4, AveragesAddUp
<1>6. (Totals.judge = NaN /\ judged # {}) => \E b \in ScoredBuckets : Scores(b).judged = 0
  BY <1>1, <1>3, <1>5
<1>7. Totals.spans = Len(spans) /\ Totals.cost = CostOf(Billed)
      /\ SumFunction([model \in Models |-> Breakdown(model).cost])
           = CostOf(Billed) - CostOf({t \in Billed : SpanOf[t].model = ""})
  BY SpansCounted, CostsCounted, ModelsCounted
<1> QED
  BY <1>5, <1>6, <1>7, Zenon DEF MonitorAddsUp, judged, given

\* What a message's judges used is on its first row.
LEMMA BatchUsed ==
  ASSUME RowsInv, NEW b \in Batches, RowsFrom(b) # {}
  PROVE  SumFunctionOnSet(UseOf, RowsFrom(b)) = BatchOf[b].usage
<1> DEFINE R == RowsFrom(b)
<1>1. PICK time : R = Graded(b, time)
  BY DEF RowsInv
<1>2. R \in SUBSET evals
  BY DEF RowsFrom
<1> DEFINE m(x) == [from |-> b, trace |-> BatchOf[b].trace, evaluator |-> BatchOf[b].evaluator,
                    metric |-> x, score |-> BatchOf[b].scores[x], kind |-> "score", at |-> time,
                    usage |-> IF x = BatchOf[b].first THEN BatchOf[b].usage ELSE 0]
           first == m(BatchOf[b].first)
<1>3. first \in R /\ first.usage = BatchOf[b].usage
  BY <1>1, StoreAssumption DEF Graded
<1>4. \A row \in R \ {first} : row.usage = 0
  BY <1>1 DEF Graded
<1> HIDE DEF R, m, first
<1>5. IsFiniteSet(R) /\ \A row \in R : UseOf[row] \in Nat /\ UseOf[row] = row.usage
  BY <1>2, UsagesAre
<1>6. SumFunctionOnSet(UseOf, R) = UseOf[first] + SumFunctionOnSet(UseOf, R \ {first})
  BY <1>3, <1>5, SumRemove
<1>7. SumFunctionOnSet(UseOf, R \ {first}) = 0
  <2> DEFINE Q == R \ {first}
  <2>1. Q \in SUBSET R /\ \A row \in Q : UseOf[row] = 0
    BY <1>4, <1>5
  <2> HIDE DEF Q
  <2>2. IsFiniteSet(Q)
    BY <1>5, <2>1, FS_Subset
  <2>3. SumFunctionOnSet(UseOf, Q) = 0
    BY <2>1, <2>2, SumZero
  <2> QED
    BY <2>3 DEF Q
<1>8. SumFunctionOnSet(UseOf, R) = BatchOf[b].usage
  BY <1>3, <1>5, <1>6, <1>7
<1> QED
  BY <1>8 DEF R

\* Read by message, by evaluator and by run, what was used is the same.
LEMMA UsedByMessage ==
  ASSUME StoreInv
  PROVE  LET judged == {row.from : row \in evals} \cap Batches IN
         UsageOf(evals) = SumFunction([b \in judged |-> BatchOf[b].usage])
<1> DEFINE judged == {row.from : row \in evals} \cap Batches
           part == [b \in judged |-> RowsFrom(b)]
           g == [b \in judged |-> BatchOf[b].usage]
           R == {row \in evals : row.from \in Batches}
           Q == evals \ R
<1>1. RowsInv /\ IsFiniteSet(evals)
  BY DEF StoreInv, RowsInv
<1>2. IsFiniteSet(judged)
  <2> DEFINE f == [row \in evals |-> row.from]
             S == {f[row] : row \in evals}
  <2>1. judged \in SUBSET S
    OBVIOUS
  <2> HIDE DEF f
  <2>2. IsFiniteSet(S)
    BY <1>1, ImageFinite
  <2> HIDE DEF S
  <2> QED
    BY <2>1, <2>2, FS_Subset
<1>3. R \in SUBSET evals /\ Q \in SUBSET evals /\ R \cup Q = evals /\ R \cap Q = {}
  OBVIOUS
<1>4. \A row \in Q : row.usage = 0
  BY <1>1 DEF RowsInv, RowKept
<1>5. /\ \A b \in judged : part[b] \subseteq R
      /\ \A row \in R : \E b \in judged : row \in part[b]
      /\ \A b, c \in judged : b # c => part[b] \cap part[c] = {}
  BY DEF RowsFrom
<1>6. \A b \in judged : g[b] = SumFunctionOnSet(UseOf, part[b])
  <2> TAKE b \in judged
  <2>1. RowsFrom(b) # {} /\ b \in Batches
    BY DEF RowsFrom
  <2>2. SumFunctionOnSet(UseOf, RowsFrom(b)) = BatchOf[b].usage
    BY <1>1, <2>1, BatchUsed
  <2> QED
    BY <2>2
<1>7. DOMAIN g = judged
  OBVIOUS
<1> HIDE DEF R, Q, g, part, judged
<1>8. /\ IsFiniteSet(R) /\ \A row \in R : UseOf[row] \in Int
      /\ IsFiniteSet(Q) /\ \A row \in Q : UseOf[row] \in Int /\ UseOf[row] = 0
      /\ UsageOf(evals) = SumFunctionOnSet(UseOf, evals) /\ SumFunctionOnSet(UseOf, R) \in Nat
  BY <1>1, <1>3, <1>4, UsagesAre
<1>9. SumFunction(g) = SumFunctionOnSet(UseOf, R)
  BY <1>2, <1>5, <1>6, <1>7, <1>8, Grouped
<1>10. SumFunctionOnSet(UseOf, R \cup Q) = SumFunctionOnSet(UseOf, R) + SumFunctionOnSet(UseOf, Q)
  BY <1>3, <1>8, SumUnion
<1>11. SumFunctionOnSet(UseOf, Q) = 0
  BY <1>8, SumZero
<1>12. SumFunctionOnSet(UseOf, evals) = SumFunctionOnSet(UseOf, R \cup Q)
  BY <1>3, Zenon
<1>13. UsageOf(evals) = SumFunction(g)
  BY <1>8, <1>9, <1>10, <1>11, <1>12
<1> QED
  BY <1>13 DEF g, judged

LEMMA UsedByEvaluator == ASSUME StoreInv PROVE TotalUsage.tokens = UsageOf(evals)
<1> DEFINE part == [e \in Evaluators |-> {row \in evals : row.evaluator = e}]
           g == [e \in Evaluators |-> Usage(e).tokens]
<1>1. RowsInv /\ IsFiniteSet(evals)
  BY DEF StoreInv, RowsInv
<1>2. IsFiniteSet(Evaluators)
  <2> DEFINE f == [row \in evals |-> row.evaluator]
  <2>1. Evaluators = {f[row] : row \in evals}
    BY DEF Evaluators
  <2> HIDE DEF f
  <2>2. IsFiniteSet({f[row] : row \in evals})
    BY <1>1, ImageFinite
  <2> QED
    BY <2>1, <2>2, Zenon
<1>3. /\ \A e \in Evaluators : part[e] \subseteq evals
      /\ \A row \in evals : \E e \in Evaluators : row \in part[e]
      /\ \A e, d \in Evaluators : e # d => part[e] \cap part[d] = {}
  BY DEF Evaluators
<1>4. /\ DOMAIN g = Evaluators
      /\ \A e \in Evaluators : g[e] = UsageOf(part[e])
  BY DEF Usage
<1> HIDE DEF part, g
<1>5. /\ \A row \in evals : UseOf[row] \in Int
      /\ UsageOf(evals) = SumFunctionOnSet(UseOf, evals)
      /\ \A e \in Evaluators : UsageOf(part[e]) = SumFunctionOnSet(UseOf, part[e])
  BY <1>1, <1>3, UsagesAre
<1>6. \A e \in Evaluators : g[e] = SumFunctionOnSet(UseOf, part[e])
  BY <1>4, <1>5
<1>7. SumFunction(g) = SumFunctionOnSet(UseOf, evals)
  BY <1>1, <1>2, <1>3, <1>4, <1>5, <1>6, Grouped
<1>8. TotalUsage.tokens = SumFunction(g)
  BY DEF TotalUsage, g
<1> QED
  BY <1>5, <1>7, <1>8

LEMMA UsedByRun ==
  ASSUME StoreInv
  PROVE  UsageOf(evals) = SumFunction([root \in Roots |-> RunUsage({t \in Spans : SpanOf[t].root = root})])
<1> DEFINE part == [root \in Roots |-> {row \in evals : row.trace \in {t \in Spans : SpanOf[t].root = root}}]
           g == [root \in Roots |-> RunUsage({t \in Spans : SpanOf[t].root = root})]
<1>1. RowsInv /\ IsFiniteSet(evals) /\ \A row \in evals : row.trace \in Spans
  BY DEF StoreInv, RowsInv, RowKept
<1>2. IsFiniteSet(Roots)
  <2> DEFINE f == [t \in Spans |-> SpanOf[t].root]
  <2>1. Roots = {f[t] : t \in Spans}
    BY DEF Roots
  <2> HIDE DEF f
  <2>2. IsFiniteSet({f[t] : t \in Spans})
    BY StoreAssumption, ImageFinite
  <2> QED
    BY <2>1, <2>2, Zenon
<1>3. /\ \A e \in Roots : part[e] \subseteq evals
      /\ \A row \in evals : \E e \in Roots : row \in part[e]
      /\ \A e, d \in Roots : e # d => part[e] \cap part[d] = {}
  BY <1>1 DEF Roots
<1>4. /\ DOMAIN g = Roots
      /\ \A e \in Roots : g[e] = UsageOf(part[e])
  BY DEF RunUsage
<1> HIDE DEF part, g
<1>5. /\ \A row \in evals : UseOf[row] \in Int
      /\ UsageOf(evals) = SumFunctionOnSet(UseOf, evals)
      /\ \A e \in Roots : UsageOf(part[e]) = SumFunctionOnSet(UseOf, part[e])
  BY <1>1, <1>3, UsagesAre
<1>6. \A e \in Roots : g[e] = SumFunctionOnSet(UseOf, part[e])
  BY <1>4, <1>5
<1>7. SumFunction(g) = SumFunctionOnSet(UseOf, evals)
  BY <1>1, <1>2, <1>3, <1>4, <1>5, <1>6, Grouped
<1> QED
  BY <1>5, <1>7 DEF g

\* A trace is counted once for an evaluator, however many messages were about it.
LEMMA RunsCounted ==
  ASSUME StoreInv
  PROVE  LET judged == {row.from : row \in evals} \cap Batches
             about  == {<<BatchOf[b].trace, BatchOf[b].evaluator>> : b \in judged}
             people == {<<row.trace, row.evaluator>> : row \in {e \in evals : e.from \notin Batches}}
         IN TotalUsage.runs = Cardinality(about) + Cardinality(people)
<1> DEFINE judged == {row.from : row \in evals} \cap Batches
           people == {<<row.trace, row.evaluator>> : row \in {e \in evals : e.from \notin Batches}}
           key == [row \in evals |-> <<row.trace, row.evaluator>>]
           pairs == {key[row] : row \in evals}
           about == {<<BatchOf[b].trace, BatchOf[b].evaluator>> : b \in judged}
           part == [e \in Evaluators |-> {p \in pairs : p[2] = e}]
           g == [e \in Evaluators |-> Usage(e).runs]
<1>1. RowsInv /\ IsFiniteSet(evals)
  BY DEF StoreInv, RowsInv
<1>2. ASSUME NEW row \in evals, row.from \in Batches
      PROVE  row.trace = BatchOf[row.from].trace /\ row.evaluator = BatchOf[row.from].evaluator
  <2>1. row \in RowsFrom(row.from)
    BY DEF RowsFrom
  <2>2. PICK time : row \in Graded(row.from, time)
    BY <1>1, <1>2, <2>1 DEF RowsInv
  <2> QED
    BY <2>2 DEF Graded
<1>3. \A row \in evals : row.from \notin Batches => Human(row)
  BY <1>1 DEF RowsInv, RowKept
<1>4. IsFiniteSet(Evaluators)
  <2> DEFINE f == [row \in evals |-> row.evaluator]
  <2>1. Evaluators = {f[row] : row \in evals}
    BY DEF Evaluators
  <2> HIDE DEF f
  <2>2. IsFiniteSet({f[row] : row \in evals})
    BY <1>1, ImageFinite
  <2> QED
    BY <2>1, <2>2, Zenon
<1>5. IsFiniteSet(pairs)
  <2> HIDE DEF key
  <2> QED
    BY <1>1, ImageFinite
<1>6. /\ \A e \in Evaluators : part[e] \subseteq pairs
      /\ \A p \in pairs : \E e \in Evaluators : p \in part[e]
      /\ \A e, d \in Evaluators : e # d => part[e] \cap part[d] = {}
  BY DEF Evaluators
<1>7. ASSUME NEW e \in Evaluators
      PROVE  g[e] = Cardinality(part[e])
  <2> DEFINE rows == {row \in evals : row.evaluator = e}
             traces == {row.trace : row \in rows}
             f == [p \in part[e] |-> p[1]]
  <2>1. f \in Bijection(part[e], traces)
    <3>1. f \in [part[e] -> traces]
      OBVIOUS
    <3>2. \A t \in traces : \E p \in part[e] : f[p] = t
      <4> TAKE t \in traces
      <4>1. PICK row \in evals : row.evaluator = e /\ row.trace = t
        OBVIOUS
      <4>2. key[row] \in part[e] /\ f[key[row]] = t
        BY <4>1
      <4> QED
        BY <4>2
    <3>3. \A p, q \in part[e] : f[p] = f[q] => p = q
      OBVIOUS
    <3> QED
      BY <3>1, <3>2, <3>3 DEF Bijection, Injection, Surjection, IsInjective
  <2>2. IsFiniteSet(part[e])
    BY <1>5, <1>6, FS_Subset
  <2>3. g[e] = Cardinality(traces)
    BY DEF Usage
  <2> HIDE DEF f, part, traces, g
  <2>4. Cardinality(traces) = Cardinality(part[e])
    BY <2>1, <2>2, FS_Bijection DEF ExistsBijection
  <2> QED
    BY <2>3, <2>4
<1>8. DOMAIN g = Evaluators
  OBVIOUS
<1>9. pairs = about \cup people
  <2>1. \A p \in pairs : p \in about \cup people
    BY <1>2
  <2>2. \A p \in about : p \in pairs
    <3> TAKE p \in about
    <3>1. PICK row \in evals : row.from \in Batches /\ p = <<BatchOf[row.from].trace, BatchOf[row.from].evaluator>>
      OBVIOUS
    <3>2. p = key[row]
      BY <1>2, <3>1
    <3> QED
      BY <3>2
  <2>3. \A p \in people : p \in pairs
    OBVIOUS
  <2> HIDE DEF pairs, about, people
  <2> QED
    BY <2>1, <2>2, <2>3
<1>10. about \cap people = {}
  <2>1. \A p \in about : p[2] \notin {"human.feedback", "human.annotation"}
    BY StoreAssumption
  <2>2. \A p \in people : p[2] \in {"human.feedback", "human.annotation"}
    BY <1>3 DEF Human
  <2> HIDE DEF about, people
  <2> QED
    BY <2>1, <2>2
<1>11. IsFiniteSet(about) /\ IsFiniteSet(people)
  <2>1. about \in SUBSET pairs /\ people \in SUBSET pairs
    BY <1>9
  <2> HIDE DEF pairs, about, people
  <2> QED
    BY <1>5, <2>1, FS_Subset
<1> HIDE DEF pairs, about, people, judged, part, g
<1>14. SumFunction(g) = Cardinality(pairs)
  BY <1>4, <1>5, <1>6, <1>7, <1>8, GroupedCount
<1>15. Cardinality(pairs) = Cardinality(about) + Cardinality(people)
  <2>1. Cardinality(about \cap people) = 0
    BY <1>10, FS_EmptySet, Zenon
  <2>2. Cardinality(about \cup people) = Cardinality(about) + Cardinality(people) - Cardinality(about \cap people)
    BY <1>11, FS_Union
  <2>3. Cardinality(about) \in Nat /\ Cardinality(people) \in Nat
    BY <1>11, FS_CardinalityType
  <2>4. Cardinality(pairs) = Cardinality(about \cup people)
    BY <1>9, Zenon
  <2> QED
    BY <2>1, <2>2, <2>3, <2>4
<1>16. TotalUsage.runs = SumFunction(g)
  BY DEF TotalUsage, g
<1>17. TotalUsage.runs = Cardinality(about) + Cardinality(people)
  BY <1>14, <1>15, <1>16
<1> QED
  BY <1>17, Zenon DEF about, judged, people

LEMMA StoreInvUsage == ASSUME StoreInv PROVE UsageAddsUp
BY UsedByMessage, UsedByEvaluator, UsedByRun, RunsCounted, Zenon DEF UsageAddsUp

-----------------------------------------------------------------------------
(* The matrix of the reviewers. *)

BothIn(rows) ==
  {t \in Spans : (\E row \in rows : row.trace = t /\ ~Human(row)) /\ (\E row \in rows : row.trace = t /\ Human(row))}

\* What a matrix that was read says once its coverage is read too.
ChartRight(chart) ==
  LET placed == SumFunction(chart.cells)
      c == chart.coverage
  IN /\ placed =< c.both
     /\ chart.rows # {} => placed = c.both
     /\ chart.rows # {} =>
          c.both + c.judge_only + c.human_only = Cardinality({row.trace : row \in chart.rows})

\* Between the two queries a request holds cells of the rows there were.
HalfRead(chart) ==
  \E rows \in SUBSET evals : \E cells :
    /\ chart = [cells |-> cells, coverage |-> Nothing, rows |-> rows]
    /\ SumFunction(cells) = Cardinality(BothIn(rows))

ChartFine(r) ==
  /\ "stage" \in DOMAIN asking[r]
  /\ Is(r, "idle") => charted[r] = Nothing
  /\ Is(r, "matrix") => HalfRead(charted[r])
  /\ ~Is(r, "idle") /\ ~Is(r, "matrix") => charted[r] = Nothing \/ ChartRight(charted[r])

ChartInv ==
  /\ DOMAIN asking = Reviewers /\ DOMAIN charted = Reviewers
  /\ \A r \in Reviewers : ChartFine(r)

LEMMA ChartInvHolds == ASSUME ChartInv PROVE MatrixHolds
<1> SUFFICES ASSUME NEW r \in Reviewers, charted[r] # Nothing, charted[r].coverage # Nothing
             PROVE  ChartRight(charted[r])
  BY Zenon DEF MatrixHolds, ChartRight
<1>1. ~Is(r, "matrix")
  BY DEF ChartInv, ChartFine, HalfRead
<1> QED
  BY <1>1 DEF ChartInv, ChartFine

LEMMA ChartBegins == ASSUME ReviewInit, QueueInit PROVE ChartInv
BY DEF ReviewInit, QueueInit, ChartInv, ChartFine, Is, Ends

\* A step that reads no matrix moves on, if at all, a request that reads none.
Passes(r) ==
  /\ "stage" \in DOMAIN asking'[r]
  /\ \/ asking'[r].stage = asking[r].stage
     \/ ~Is(r, "matrix") /\ asking'[r].stage \notin {"idle", "matrix"}

LEMMA ChartsStay ==
  ASSUME ChartInv, UNCHANGED charted, evals \subseteq evals', DOMAIN asking' = Reviewers,
         \A r \in Reviewers : Passes(r)
  PROVE  ChartInv'
<1> SUFFICES ASSUME NEW r \in Reviewers PROVE ChartFine(r)'
  BY DEF ChartInv
<1>1. ChartFine(r) /\ Passes(r) /\ charted'[r] = charted[r]
  BY DEF ChartInv
<1>2. HalfRead(charted[r]) => HalfRead(charted[r])'
  BY <1>1 DEF HalfRead, BothIn, Human
<1>3. ChartRight(charted[r])' <=> ChartRight(charted[r])
  BY <1>1 DEF ChartRight
<1>4. CASE asking'[r].stage = asking[r].stage
  BY <1>1, <1>2, <1>3, <1>4 DEF ChartFine, Passes, Is
<1>5. CASE ~Is(r, "matrix") /\ asking'[r].stage \notin {"idle", "matrix"}
  BY <1>1, <1>2, <1>3, <1>5 DEF ChartFine, Passes, Is
<1> QED
  BY <1>1, <1>4, <1>5 DEF Passes

LEMMA TurnPasses ==
  ASSUME ChartInv, NEW r \in Reviewers, NEW w, Turn(r, w), "stage" \in DOMAIN w,
         \/ w.stage = asking[r].stage
         \/ ~Is(r, "matrix") /\ w.stage \notin {"idle", "matrix"}
  PROVE  DOMAIN asking' = Reviewers /\ \A o \in Reviewers : Passes(o)
<1>1. asking' = [asking EXCEPT ![r] = w] /\ DOMAIN asking = Reviewers
  BY DEF Turn, ChartInv
<1>2. DOMAIN asking' = Reviewers /\ asking'[r] = w /\ \A o \in Reviewers : o # r => asking'[o] = asking[o]
  BY <1>1
<1>3. \A o \in Reviewers : "stage" \in DOMAIN asking[o]
  BY DEF ChartInv, ChartFine
<1> QED
  BY <1>2, <1>3 DEF Passes

LEMMA ReviewPasses ==
  ASSUME ChartInv, ReviewStep
  PROVE  DOMAIN asking' = Reviewers /\ \A r \in Reviewers : Passes(r)
<1>1. PICK r \in Reviewers :
        \/ CountFields(r) \/ AddField(r) \/ ReadField(r) \/ EditField(r) \/ DeleteField(r)
        \/ ReadRubric(r) \/ SendToDataset(r) \/ SubmitFeedback(r) \/ AnnotateTrace(r)
        \/ RecordAnswer(r) \/ RefuseAnswer(r) \/ EndReview(r)
  BY DEF ReviewStep
<1>2. "stage" \in DOMAIN asking[r]
  BY DEF ChartInv, ChartFine
<1>3. CASE CountFields(r)
  <2>1. PICK k \in Keys, f \in Fields : Turn(r, [stage |-> "add", key |-> k, field |-> f])
    BY <1>3 DEF CountFields
  <2>2. ~Is(r, "matrix")
    BY <1>3 DEF CountFields, Idle, Is
  <2> QED
    BY <2>1, <2>2, TurnPasses
<1>4. CASE ReadField(r)
  <2>1. PICK k \in Asked : Turn(r, [stage |-> "edit", key |-> k, read |-> rubric[k]])
    BY <1>4 DEF ReadField
  <2>2. ~Is(r, "matrix")
    BY <1>4 DEF ReadField, Idle, Is
  <2> QED
    BY <2>1, <2>2, TurnPasses
<1>5. CASE AddField(r) \/ EditField(r) \/ DeleteField(r) \/ SendToDataset(r) \/ SubmitFeedback(r) \/ AnnotateTrace(r)
  <2>1. Turn(r, Ends("done")) /\ ~Is(r, "matrix")
    BY <1>5 DEF AddField, EditField, DeleteField, SendToDataset, SubmitFeedback, AnnotateTrace, Verdict, Idle, Is
  <2>2. "stage" \in DOMAIN Ends("done") /\ Ends("done").stage = "done"
    BY DEF Ends
  <2> QED
    BY <2>1, <2>2, TurnPasses
<1>6. CASE ReadRubric(r)
  <2>1. PICK t, keys, answers, order :
          Turn(r, [stage |-> "review", trace |-> t, answers |-> answers,
                   order |-> order, rubric |-> [k \in keys |-> rubric[k]], wrote |-> <<>>])
    BY <1>6 DEF ReadRubric
  <2>2. ~Is(r, "matrix")
    BY <1>6 DEF ReadRubric, Idle, Is
  <2> QED
    BY <2>1, <2>2, TurnPasses
<1>7. CASE RecordAnswer(r)
  <2> DEFINE w == [asking[r] EXCEPT !.wrote = Append(@, NextKey(r))]
  <2>1. Turn(r, w)
    BY <1>7 DEF RecordAnswer
  <2>2. "stage" \in DOMAIN w /\ w.stage = asking[r].stage
    BY <1>2
  <2> HIDE DEF w
  <2> QED
    BY <2>1, <2>2, TurnPasses
<1>8. CASE RefuseAnswer(r) \/ EndReview(r)
  <2>1. PICK stage \in {"failed", "refused", "recorded"} : Turn(r, [asking[r] EXCEPT !.stage = stage])
    <3>1. CASE RefuseAnswer(r)
      <4>1. Turn(r, [asking[r] EXCEPT !.stage = "failed"]) \/ Turn(r, [asking[r] EXCEPT !.stage = "refused"])
        BY <3>1 DEF RefuseAnswer
      <4> QED
        BY <4>1
    <3>2. CASE EndReview(r)
      BY <3>2 DEF EndReview
    <3> QED
      BY <1>8, <3>1, <3>2
  <2>2. ~Is(r, "matrix")
    BY <1>8 DEF RefuseAnswer, EndReview, Is
  <2> DEFINE w == [asking[r] EXCEPT !.stage = stage]
  <2>3. "stage" \in DOMAIN w /\ w.stage = stage
    BY <1>2
  <2>4. Turn(r, w)
    BY <2>1
  <2> HIDE DEF w
  <2> QED
    BY <2>2, <2>3, <2>4, TurnPasses
<1> QED
  BY <1>1, <1>3, <1>4, <1>5, <1>6, <1>7, <1>8

LEMMA ExamplesPass ==
  ASSUME ChartInv, ExamplesStep
  PROVE  DOMAIN asking' = Reviewers /\ \A r \in Reviewers : Passes(r)
<1>1. PICK r \in Reviewers :
        \/ ReadSources(r) \/ FetchPage(r) \/ ReadRun(r) \/ WritePin(r) \/ LosePin(r) \/ AddRows(r)
        \/ LinkAgent(r) \/ UnlinkAgent(r) \/ AddExample(r) \/ ViewTrajectory(r)
        \/ RemoveExample(r) \/ DeleteDataset(r) \/ SendToDataset(r)
  BY DEF ExamplesStep
<1>2. "stage" \in DOMAIN asking[r]
  BY DEF ChartInv, ChartFine
<1>3. CASE UnlinkAgent(r) \/ RemoveExample(r) \/ DeleteDataset(r) \/ SendToDataset(r)
  <2>1. Turn(r, Ends("done")) /\ ~Is(r, "matrix")
    BY <1>3 DEF UnlinkAgent, RemoveExample, DeleteDataset, SendToDataset, Idle, Is
  <2>2. "stage" \in DOMAIN Ends("done") /\ Ends("done").stage = "done"
    BY DEF Ends
  <2> QED
    BY <2>1, <2>2, TurnPasses
<1>4. CASE LinkAgent(r) \/ AddExample(r) \/ ViewTrajectory(r)
  <2>1. ~Is(r, "matrix")
    BY <1>4 DEF LinkAgent, AddExample, ViewTrajectory, Idle, Is
  <2>2. \E w : Turn(r, w) /\ "stage" \in DOMAIN w /\ w.stage \in {"row", "link"}
    <3>1. CASE LinkAgent(r)
      <4> DEFINE c == Carries("import", <<>>, {})
                 there == Listed(AgentRuns)
                 w == [c EXCEPT !.stage = "link", !.there = there]
      <4>1. Turn(r, w)
        BY <3>1 DEF LinkAgent
      <4>2. "stage" \in DOMAIN c
        BY DEF Carries
      <4> HIDE DEF c, there
      <4>3. "stage" \in DOMAIN w /\ w.stage = "link"
        BY <4>2
      <4> HIDE DEF w
      <4> QED
        BY <4>1, <4>3
    <3>2. CASE AddExample(r) \/ ViewTrajectory(r)
      <4>1. PICK kind, page : Turn(r, Carries(kind, page, {}))
        BY <3>2 DEF AddExample, ViewTrajectory
      <4> QED
        BY <4>1 DEF Carries
    <3> QED
      BY <1>4, <3>1, <3>2
  <2> QED
    BY <2>1, <2>2, TurnPasses
<1>5. CASE ReadSources(r)
  <2> DEFINE w == [asking[r] EXCEPT !.stage = "page", !.seen = Sources]
  <2>1. Turn(r, w) /\ ~Is(r, "matrix")
    BY <1>5 DEF ReadSources, Is
  <2>2. "stage" \in DOMAIN w /\ w.stage = "page"
    BY <1>2
  <2> HIDE DEF w
  <2> QED
    BY <2>1, <2>2, TurnPasses
<1>6. CASE FetchPage(r)
  <2>1. PICK page, offset, last : Turn(r,
          [asking[r] EXCEPT !.stage = "row", !.page = page, !.offset = offset, !.last = last])
    BY <1>6 DEF FetchPage
  <2> DEFINE w == [asking[r] EXCEPT !.stage = "row", !.page = page, !.offset = offset, !.last = last]
  <2>2. Turn(r, w) /\ ~Is(r, "matrix")
    BY <1>6, <2>1 DEF FetchPage, Is
  <2>3. "stage" \in DOMAIN w /\ w.stage = "row"
    BY <1>2
  <2> HIDE DEF w
  <2> QED
    BY <2>2, <2>3, TurnPasses
<1>7. CASE ReadRun(r)
  <2>1. PICK seen, run, held : Turn(r,
          [asking[r] EXCEPT !.stage = "pin", !.seen = seen, !.run = run, !.held = held])
    BY <1>7 DEF ReadRun
  <2> DEFINE w == [asking[r] EXCEPT !.stage = "pin", !.seen = seen, !.run = run, !.held = held]
  <2>2. Turn(r, w) /\ ~Is(r, "matrix")
    BY <1>7, <2>1 DEF ReadRun, Is
  <2>3. "stage" \in DOMAIN w /\ w.stage = "pin"
    BY <1>2
  <2> HIDE DEF w
  <2> QED
    BY <2>2, <2>3, TurnPasses
<1>8. CASE WritePin(r) \/ LosePin(r)
  <2>1. PICK adding : Turn(r,
          [asking[r] EXCEPT !.stage = "row", !.run = Nothing, !.held = {}, !.adding = adding])
    BY <1>8 DEF WritePin, LosePin, KeepRow
  <2> DEFINE w == [asking[r] EXCEPT !.stage = "row", !.run = Nothing, !.held = {}, !.adding = adding]
  <2>2. Turn(r, w) /\ ~Is(r, "matrix")
    BY <1>8, <2>1 DEF WritePin, LosePin, Is
  <2>3. "stage" \in DOMAIN w /\ w.stage = "row"
    BY <1>2
  <2> HIDE DEF w
  <2> QED
    BY <2>2, <2>3, TurnPasses
<1>9. CASE AddRows(r)
  <2>1. PICK kind, missed, tied, whole :
          Turn(r, [stage |-> "added", kind |-> kind, missed |-> missed, tied |-> tied, whole |-> whole])
    BY <1>9 DEF AddRows
  <2>2. ~Is(r, "matrix")
    BY <1>9 DEF AddRows, Is
  <2> QED
    BY <2>1, <2>2, TurnPasses
<1> QED
  BY <1>1, <1>3, <1>4, <1>5, <1>6, <1>7, <1>8, <1>9

\* The average of rows is a number, good or not.
LEMMA GoodIs ==
  ASSUME RowsInv, NEW K \in SUBSET evals, K # {}
  PROVE  /\ AvgIf(K).sum \in Nat /\ AvgIf(K).of \in Nat \ {0}
         /\ AvgIf(K).sum = ScoreSum(K) /\ AvgIf(K).of = Cardinality(K)
         /\ Good(AvgIf(K)) \in BOOLEAN
<1>1. AvgIf(K) = [sum |-> ScoreSum(K), of |-> Cardinality(K)] /\ Cardinality(K) # 0
      /\ ScoreSum(K) \in Nat /\ Cardinality(K) \in Nat
  BY AverageIs
<1>2. AvgIf(K).sum \in Nat /\ AvgIf(K).of \in Nat \ {0}
      /\ AvgIf(K).sum = ScoreSum(K) /\ AvgIf(K).of = Cardinality(K)
  BY <1>1
<1>3. (AvgIf(K).sum >= 5 * AvgIf(K).of) \in BOOLEAN
  BY <1>2
<1> QED
  BY <1>2, <1>3 DEF Good, Threshold

\* Every trace both sides scored is placed in one cell.
LEMMA CellsAddUp ==
  ASSUME RowsInv
  PROVE  /\ SumFunction(Cells) = Cardinality(BothSides)
         /\ BothIn(evals) = BothSides /\ IsFiniteSet(BothSides)
<1>1. IsFiniteSet(evals) /\ \A row \in evals : row.trace \in Spans
  BY DEF RowsInv, RowKept
<1> DEFINE traces == {row.trace : row \in evals}
           f == [row \in evals |-> row.trace]
           image == {f[row] : row \in evals}
<1>2. traces = image
  OBVIOUS
<1>3. IsFiniteSet(traces)
  <2>1. IsFiniteSet(image)
    <3> HIDE DEF f
    <3> QED
      BY <1>1, ImageFinite
  <2> HIDE DEF image, traces
  <2> QED
    BY <1>2, <2>1
<1>4. BothIn(evals) = BothSides
  BY DEF BothIn, BothSides, Judges, People, RowsOf
<1>5. BothSides \in SUBSET traces
  <2> SUFFICES ASSUME NEW t \in BothSides PROVE t \in traces
    OBVIOUS
  <2>1. Judges(RowsOf(t)) # {}
    BY DEF BothSides
  <2>2. PICK row : row \in Judges(RowsOf(t))
    BY <2>1
  <2> QED
    BY <2>2 DEF Judges, RowsOf
<1>6. IsFiniteSet(BothSides)
  <2> HIDE DEF traces
  <2> QED
    BY <1>3, <1>5, FS_Subset
<1> DEFINE B == BOOLEAN
           I == B \X B
           part == [c \in I |-> {t \in BothSides : Cell(t) = c}]
           g == [c \in I |-> Cardinality(part[c])]
<1>7. IsFiniteSet(I)
  <2>1. IsFiniteSet(BOOLEAN)
    <3>0. IsFiniteSet({TRUE}) /\ IsFiniteSet({FALSE})
      BY FS_Singleton, Zenon
    <3>1. IsFiniteSet({TRUE} \cup {FALSE})
      BY <3>0, FS_Union, Zenon
    <3>2. BOOLEAN = {TRUE} \cup {FALSE}
      BY Zenon
    <3> QED
      BY <3>1, <3>2, Zenon
  <2>2. IsFiniteSet(B)
    BY <2>1
  <2> HIDE DEF B
  <2>3. IsFiniteSet(B \X B)
    BY <2>2, FS_Product
  <2> QED
    BY <2>3
<1>8. Cells = g
  BY DEF Cells
<1>9. \A t \in BothSides : Cell(t) \in I
  <2> SUFFICES ASSUME NEW t \in BothSides PROVE Cell(t) \in I
    OBVIOUS
  <2>1. Judges(RowsOf(t)) \in SUBSET evals /\ People(RowsOf(t)) \in SUBSET evals
    BY DEF Judges, People, RowsOf
  <2>2. Judges(RowsOf(t)) # {} /\ People(RowsOf(t)) # {}
    BY DEF BothSides
  <2>3. Good(AvgIf(Judges(RowsOf(t)))) \in BOOLEAN /\ Good(AvgIf(People(RowsOf(t)))) \in BOOLEAN
    BY <2>1, <2>2, GoodIs
  <2> QED
    BY <2>3, Zenon DEF Cell
<1>10. \A c \in I : part[c] \in SUBSET BothSides
  OBVIOUS
<1>11. \A t \in BothSides : \E c \in I : t \in part[c]
  BY <1>9
<1>12. \A c, d \in I : c # d => part[c] \cap part[d] = {}
  OBVIOUS
<1>13. DOMAIN g = I /\ \A c \in I : g[c] = Cardinality(part[c])
  OBVIOUS
<1> HIDE DEF part, g, I
<1>14. SumFunction(g) = Cardinality(BothSides)
  BY <1>6, <1>7, <1>10, <1>11, <1>12, <1>13, GroupedCount
<1> QED
  BY <1>4, <1>6, <1>8, <1>14

\* Every trace somebody scored is on both sides or on one.
LEMMA CoverageAddsUp ==
  ASSUME RowsInv
  PROVE  /\ Coverage.both = Cardinality(BothSides)
         /\ Coverage.both + Coverage.judge_only + Coverage.human_only = Cardinality({row.trace : row \in evals})
<1> DEFINE traces == {row.trace : row \in evals}
           f == [row \in evals |-> row.trace]
           image == {f[row] : row \in evals}
           J1 == {t \in Spans : Judges(RowsOf(t)) # {} /\ People(RowsOf(t)) = {}}
           H1 == {t \in Spans : Judges(RowsOf(t)) = {} /\ People(RowsOf(t)) # {}}
<1>1. IsFiniteSet(evals) /\ \A row \in evals : row.trace \in Spans
  BY DEF RowsInv, RowKept
<1>2. IsFiniteSet(traces)
  <2>1. IsFiniteSet(image)
    <3> HIDE DEF f
    <3> QED
      BY <1>1, ImageFinite
  <2>2. traces = image
    OBVIOUS
  <2> HIDE DEF image, traces
  <2> QED
    BY <2>1, <2>2
<1>3. \A t \in Spans : t \in traces <=> Judges(RowsOf(t)) # {} \/ People(RowsOf(t)) # {}
  <2> SUFFICES ASSUME NEW t \in Spans PROVE t \in traces <=> Judges(RowsOf(t)) # {} \/ People(RowsOf(t)) # {}
    OBVIOUS
  <2>1. t \in traces <=> RowsOf(t) # {}
    BY DEF RowsOf
  <2>2. RowsOf(t) # {} <=> Judges(RowsOf(t)) # {} \/ People(RowsOf(t)) # {}
    BY DEF Judges, People
  <2> QED
    BY <2>1, <2>2
<1>4. \A t \in traces : t \in Spans
  BY <1>1
<1> HIDE DEF traces
<1>5. \A t : t \in traces <=> t \in J1 \/ t \in H1 \/ t \in BothSides
  BY <1>3, <1>4 DEF BothSides
<1>6. \A t : ~(t \in J1 /\ t \in H1) /\ ~(t \in J1 /\ t \in BothSides) /\ ~(t \in H1 /\ t \in BothSides)
  BY DEF BothSides
<1>7. Coverage = [both |-> Cardinality(BothSides), judge_only |-> Cardinality(J1), human_only |-> Cardinality(H1)]
  BY DEF Coverage
<1> HIDE DEF J1, H1
<1> DEFINE one == J1 \cup H1
<1>8. IsFiniteSet(J1) /\ IsFiniteSet(H1) /\ IsFiniteSet(BothSides)
  <2>1. J1 \in SUBSET traces /\ H1 \in SUBSET traces /\ BothSides \in SUBSET traces
    BY <1>5
  <2> QED
    BY <1>2, <2>1, FS_Subset
<1>9. J1 \cap H1 = {}
  BY <1>6
<1>10. one \cap BothSides = {}
  BY <1>6
<1>11. traces = one \cup BothSides
  BY <1>5
<1>12. IsFiniteSet(one) /\ Cardinality(one) = Cardinality(J1) + Cardinality(H1) - Cardinality(J1 \cap H1)
  BY <1>8, FS_Union
<1> HIDE DEF one
<1>13. Cardinality(one \cup BothSides) = Cardinality(one) + Cardinality(BothSides) - Cardinality(one \cap BothSides)
  BY <1>8, <1>12, FS_Union
<1>14. Cardinality(J1 \cap H1) = 0 /\ Cardinality(one \cap BothSides) = 0
  BY <1>9, <1>10, FS_EmptySet, Zenon
<1>15. Cardinality(traces) = Cardinality(one) + Cardinality(BothSides) - Cardinality(one \cap BothSides)
  BY <1>11, <1>13, Zenon
<1>16. Cardinality(J1) \in Nat /\ Cardinality(H1) \in Nat /\ Cardinality(BothSides) \in Nat
  BY <1>8, FS_CardinalityType
<1>17. Cardinality(BothSides) + Cardinality(J1) + Cardinality(H1) = Cardinality(traces)
  BY <1>12, <1>14, <1>15, <1>16
<1> QED
  BY <1>7, <1>17 DEF traces

LEMMA OthersKeep ==
  ASSUME ChartInv, NEW r \in Reviewers, NEW stage, Turn(r, Ends(stage)), NEW chart,
         DOMAIN charted' = Reviewers, charted'[r] = chart,
         \A o \in Reviewers : o # r => charted'[o] = charted[o], UNCHANGED evals
  PROVE  /\ DOMAIN asking' = Reviewers /\ DOMAIN charted' = Reviewers
         /\ \A o \in Reviewers : o # r => ChartFine(o)'
         /\ "stage" \in DOMAIN asking'[r] /\ asking'[r].stage = stage /\ charted'[r] = chart
<1>1. DOMAIN asking = Reviewers /\ DOMAIN charted = Reviewers /\ \A o \in Reviewers : ChartFine(o)
  BY DEF ChartInv
<1>2. /\ DOMAIN asking' = Reviewers /\ DOMAIN charted' = Reviewers
      /\ "stage" \in DOMAIN asking'[r] /\ asking'[r].stage = stage /\ charted'[r] = chart
      /\ \A o \in Reviewers : o # r => asking'[o] = asking[o] /\ charted'[o] = charted[o]
  BY <1>1 DEF Turn, Ends
<1>3. ASSUME NEW o \in Reviewers, o # r PROVE ChartFine(o)'
  <2>1. asking'[o] = asking[o] /\ charted'[o] = charted[o] /\ ChartFine(o)
    BY <1>1, <1>2, <1>3
  <2>2. HalfRead(charted[o]) => HalfRead(charted[o])'
    BY <2>1 DEF HalfRead, BothIn, Human
  <2>3. ChartRight(charted[o]) => ChartRight(charted[o])'
    BY <2>1 DEF ChartRight
  <2> QED
    BY <2>1, <2>2, <2>3 DEF ChartFine, Is
<1> QED
  BY <1>2, <1>3

LEMMA MatrixReadKeeps ==
  ASSUME ChartInv, RowsInv, NEW r \in Reviewers, ReadMatrix(r), UNCHANGED evals
  PROVE  ChartInv'
<1> DEFINE chart == [cells |-> Cells, coverage |-> Nothing, rows |-> evals]
<1>1. /\ Turn(r, Ends("matrix")) /\ DOMAIN charted' = Reviewers /\ charted'[r] = chart
      /\ \A o \in Reviewers : o # r => charted'[o] = charted[o]
  BY DEF ReadMatrix, ChartInv
<1>2. /\ DOMAIN asking' = Reviewers /\ DOMAIN charted' = Reviewers
      /\ \A o \in Reviewers : o # r => ChartFine(o)'
      /\ "stage" \in DOMAIN asking'[r] /\ asking'[r].stage = "matrix" /\ charted'[r] = chart
  <2> HIDE DEF chart
  <2> QED
    BY <1>1, OthersKeep
<1>3. SumFunction(Cells) = Cardinality(BothIn(evals))
  BY CellsAddUp
<1>4. HalfRead(charted[r])'
  <2>1. charted'[r] = [cells |-> Cells, coverage |-> Nothing, rows |-> evals]
    BY <1>2
  <2>2. evals \in SUBSET evals'
    OBVIOUS
  <2> QED
    BY <1>3, <2>1, <2>2 DEF HalfRead, BothIn, Human
<1>5. ChartFine(r)'
  BY <1>2, <1>4 DEF ChartFine, Is
<1> QED
  BY <1>2, <1>5 DEF ChartInv

LEMMA CoverageReadKeeps ==
  ASSUME ChartInv, RowsInv, NEW r \in Reviewers, ReadCoverage(r), UNCHANGED evals
  PROVE  ChartInv'
<1>1. Turn(r, Ends("done")) /\ DOMAIN charted = Reviewers
  BY DEF ReadCoverage, ChartInv
<1>2. PICK rows \in SUBSET evals : \E cells :
        /\ charted[r] = [cells |-> cells, coverage |-> Nothing, rows |-> rows]
        /\ SumFunction(cells) = Cardinality(BothIn(rows))
  BY DEF ReadCoverage, ChartInv, ChartFine, HalfRead
<1>3. PICK cells :
        /\ charted[r] = [cells |-> cells, coverage |-> Nothing, rows |-> rows]
        /\ SumFunction(cells) = Cardinality(BothIn(rows))
  BY <1>2
<1> DEFINE chart == [cells |-> cells, coverage |-> Coverage, rows |-> IF rows = evals THEN evals ELSE {}]
<1>4. /\ DOMAIN charted' = Reviewers /\ charted'[r] = chart
      /\ \A o \in Reviewers : o # r => charted'[o] = charted[o]
  <2> DEFINE c == charted[r]
             left == IF c.rows = evals THEN evals ELSE {}
  <2>1. charted' = [charted EXCEPT ![r].coverage = Coverage, ![r].rows = IF @ = evals THEN evals ELSE {}]
    BY DEF ReadCoverage
  <2>2. /\ DOMAIN charted' = Reviewers /\ charted'[r] = [[c EXCEPT !.coverage = Coverage] EXCEPT !.rows = left]
        /\ \A o \in Reviewers : o # r => charted'[o] = charted[o]
    <3> DEFINE d == [charted EXCEPT ![r].coverage = Coverage]
    <3>1. DOMAIN d = Reviewers /\ d[r] = [c EXCEPT !.coverage = Coverage] /\ \A o \in Reviewers : o # r => d[o] = charted[o]
      BY <1>1
    <3>2. charted' = [d EXCEPT ![r].rows = IF d[r].rows = evals THEN evals ELSE {}]
      BY <2>1
    <3>3. d[r].rows = c.rows
      <4> HIDE DEF d
      <4> QED
        BY <1>3, <3>1
    <3> HIDE DEF d
    <3>4. /\ DOMAIN charted' = Reviewers /\ charted'[r] = [d[r] EXCEPT !.rows = IF d[r].rows = evals THEN evals ELSE {}]
          /\ \A o \in Reviewers : o # r => charted'[o] = d[o]
      BY <3>1, <3>2
    <3>5. [d[r] EXCEPT !.rows = IF d[r].rows = evals THEN evals ELSE {}] = [[c EXCEPT !.coverage = Coverage] EXCEPT !.rows = left]
      BY <3>1, <3>3, Zenon
    <3> QED
      BY <3>1, <3>4, <3>5, Zenon
  <2>3. c = [cells |-> cells, coverage |-> Nothing, rows |-> rows] /\ c.rows = rows
    BY <1>3
  <2> HIDE DEF c
  <2>4. [[c EXCEPT !.coverage = Coverage] EXCEPT !.rows = left] = [cells |-> cells, coverage |-> Coverage, rows |-> left]
    <3> HIDE DEF left
    <3>1. [c EXCEPT !.coverage = Coverage] = [cells |-> cells, coverage |-> Coverage, rows |-> rows]
      BY <2>3
    <3>2. [[cells |-> cells, coverage |-> Coverage, rows |-> rows] EXCEPT !.rows = left]
            = [cells |-> cells, coverage |-> Coverage, rows |-> left]
      OBVIOUS
    <3> QED
      BY <3>1, <3>2, Zenon
  <2>5. left = IF rows = evals THEN evals ELSE {}
    BY <2>3, Zenon
  <2> QED
    BY <2>2, <2>4, <2>5, Zenon
<1>5. /\ DOMAIN asking' = Reviewers /\ DOMAIN charted' = Reviewers
      /\ \A o \in Reviewers : o # r => ChartFine(o)'
      /\ "stage" \in DOMAIN asking'[r] /\ asking'[r].stage = "done" /\ charted'[r] = chart
  <2> HIDE DEF chart
  <2> QED
    BY <1>1, <1>4, OthersKeep
<1>6. Cardinality(BothIn(rows)) =< Cardinality(BothSides)
  <2>1. BothIn(rows) \in SUBSET BothSides
    <3>1. BothIn(rows) \in SUBSET BothIn(evals)
      BY DEF BothIn
    <3> QED
      BY <3>1, CellsAddUp
  <2> QED
    BY <2>1, CellsAddUp, FS_Subset
<1>7. rows = evals => Cardinality(BothIn(rows)) = Cardinality(BothSides)
  BY CellsAddUp, Zenon
<1>8. /\ Coverage.both = Cardinality(BothSides)
      /\ Coverage.both + Coverage.judge_only + Coverage.human_only = Cardinality({row.trace : row \in evals})
  BY CoverageAddsUp
<1>9. ChartRight(chart)
  <2>1. chart.cells = cells /\ chart.coverage = Coverage /\ (chart.rows # {} => chart.rows = evals /\ rows = evals)
    OBVIOUS
  <2> HIDE DEF chart
  <2>3. ASSUME chart.rows # {}
        PROVE  Cardinality({row.trace : row \in chart.rows}) = Cardinality({row.trace : row \in evals})
    <3>1. chart.rows = evals
      BY <2>1, <2>3
    <3> QED
      BY <3>1, Zenon
  <2>6. chart.coverage = Coverage
    BY <2>1
  <2>4. chart.rows # {} => SumFunction(chart.cells) = Coverage.both
    BY <1>3, <1>7, <1>8, <2>1, Zenon
  <2>5. SumFunction(chart.cells) =< Coverage.both
    BY <1>3, <1>6, <1>8, <2>1
  <2> QED
    <3> DEFINE some == chart.rows # {}
               there == Cardinality({row.trace : row \in chart.rows})
               placed == SumFunction(chart.cells)
    <3>0. placed =< Coverage.both
      BY <2>5
    <3>1. some => placed = Coverage.both
      BY <2>4
    <3>2. some => Coverage.both + Coverage.judge_only + Coverage.human_only = there
      BY <1>8, <2>3, Zenon
    <3>3. ChartRight(chart) <=>
            /\ placed =< Coverage.both
            /\ some => placed = Coverage.both
            /\ some => Coverage.both + Coverage.judge_only + Coverage.human_only = there
      BY <2>6, Zenon DEF ChartRight
    <3> HIDE DEF some, there, placed
    <3> QED
      BY <3>0, <3>1, <3>2, <3>3, Zenon
<1>10. ChartFine(r)'
  <2>2. ChartRight(charted[r])'
    BY <1>5, <1>9 DEF ChartRight
  <2> QED
    BY <1>5, <2>2 DEF ChartFine, Is
<1> QED
  BY <1>5, <1>10 DEF ChartInv

LEMMA QueueStepKeeps ==
  ASSUME ChartInv, RowsInv, QueueStep, UNCHANGED evals
  PROVE  ChartInv'
BY MatrixReadKeeps, CoverageReadKeeps DEF QueueStep

-----------------------------------------------------------------------------
(* The agreement of a judge with people. *)

LEMMA SumAtMost ==
  ASSUME NEW S, IsFiniteSet(S), NEW f, NEW g, \A x \in S : f[x] \in Int /\ g[x] \in Int /\ f[x] =< g[x]
  PROVE  SumFunctionOnSet(f, S) =< SumFunctionOnSet(g, S)
<1> DEFINE T == {n \in Nat : \A s \in SUBSET S : Cardinality(s) = n =>
                   SumFunctionOnSet(f, s) =< SumFunctionOnSet(g, s)}
<1>0. \A s \in SUBSET S : IsFiniteSet(s) /\ Cardinality(s) \in Nat
  BY FS_Subset, FS_CardinalityType
<1>1. 0 \in T
  BY <1>0, SumEmpty, FS_EmptySet
<1>2. \A n \in Nat : n \in T => n + 1 \in T
  <2> SUFFICES ASSUME NEW n \in Nat, n \in T, NEW s \in SUBSET S, Cardinality(s) = n + 1
               PROVE  SumFunctionOnSet(f, s) =< SumFunctionOnSet(g, s)
    OBVIOUS
  <2>0. s # {}
    BY FS_EmptySet
  <2>1. One(s) \in s
    BY <2>0, OneIn
  <2> DEFINE x == One(s)
             rest == s \ {x}
  <2>2. Cardinality(rest) = n /\ rest \in SUBSET S /\ IsFiniteSet(rest)
    <3>1. Cardinality(rest) = Cardinality(s) - 1
      BY <1>0, <2>1, FS_RemoveElement
    <3> QED
      BY <1>0, <3>1
  <2>3. SumFunctionOnSet(f, rest) =< SumFunctionOnSet(g, rest)
    BY <2>2
  <2>4. f[x] \in Int /\ g[x] \in Int /\ f[x] =< g[x]
    BY <2>1
  <2>5. SumFunctionOnSet(f, rest) \in Int /\ SumFunctionOnSet(g, rest) \in Int
    BY <2>2, SumType
  <2>6. /\ SumFunctionOnSet(f, s) = f[x] + SumFunctionOnSet(f, rest)
        /\ SumFunctionOnSet(g, s) = g[x] + SumFunctionOnSet(g, rest)
    BY <1>0, <2>0, SumStep
  <2> QED
    BY <2>3, <2>4, <2>5, <2>6
<1> HIDE DEF T
<1>3. Cardinality(S) \in T
  BY <1>0, <1>1, <1>2, NatInduct
<1> QED
  BY <1>3 DEF T

\* What a pair compares are averages of rows of either side.
LEMMA PairsAre ==
  ASSUME RowsInv, NEW m, NEW f
  PROVE  /\ IsFiniteSet(Pairs(m, f))
         /\ \A p \in Pairs(m, f) :
              /\ J(p) \in Nat /\ H(p) \in Nat
              /\ Good(p.judge) \in BOOLEAN /\ Good(p.human) \in BOOLEAN
              /\ p.trace \in Here
              /\ OnMetric(p.trace, m) # {} /\ p.judge = AvgIf(OnMetric(p.trace, m))
              /\ OnField(p.trace, f) # {} /\ p.human = AvgIf(OnField(p.trace, f))
<1> DEFINE both == {s \in Here : OnMetric(s, m) # {} /\ OnField(s, f) # {}}
           pair == [t \in both |-> [trace |-> t, judge |-> AvgIf(OnMetric(t, m)), human |-> AvgIf(OnField(t, f))]]
           traces == {row.trace : row \in evals}
           of == [row \in evals |-> row.trace]
           image == {of[row] : row \in evals}
           pairs == {pair[t] : t \in both}
<1>1. IsFiniteSet(evals)
  BY DEF RowsInv
<1>2. IsFiniteSet(image) /\ traces = image
  <2>1. traces = image
    OBVIOUS
  <2> HIDE DEF of
  <2>2. IsFiniteSet(image)
    BY <1>1, ImageFinite
  <2> QED
    BY <2>1, <2>2, Zenon
<1>3. both \in SUBSET traces
  <2> SUFFICES ASSUME NEW t \in both PROVE t \in traces
    OBVIOUS
  <2>1. PICK row : row \in OnMetric(t, m)
    OBVIOUS
  <2> QED
    BY <2>1 DEF OnMetric, Judges, RowsOf
<1>4. IsFiniteSet(both)
  <2>1. IsFiniteSet(traces)
    BY <1>2, Zenon
  <2> HIDE DEF both, traces
  <2> QED
    BY <1>3, <2>1, FS_Subset
<1>5. Pairs(m, f) = pairs
  BY DEF Pairs
<1>6. IsFiniteSet(pairs)
  <2> HIDE DEF pair, both
  <2> QED
    BY <1>4, ImageFinite
<1>7. ASSUME NEW t \in both
      PROVE  /\ J(pair[t]) \in Nat /\ H(pair[t]) \in Nat
             /\ Good(pair[t].judge) \in BOOLEAN /\ Good(pair[t].human) \in BOOLEAN
             /\ pair[t].trace = t /\ pair[t].judge = AvgIf(OnMetric(t, m)) /\ pair[t].human = AvgIf(OnField(t, f))
  <2> DEFINE a == AvgIf(OnMetric(t, m))
             b == AvgIf(OnField(t, f))
  <2>1. OnMetric(t, m) \in SUBSET evals /\ OnMetric(t, m) # {} /\ OnField(t, f) \in SUBSET evals /\ OnField(t, f) # {}
    BY DEF OnMetric, OnField, Judges, People, RowsOf
  <2>2. /\ a.sum \in Nat /\ a.of \in Nat \ {0} /\ Good(a) \in BOOLEAN
        /\ b.sum \in Nat /\ b.of \in Nat \ {0} /\ Good(b) \in BOOLEAN
    BY <2>1, GoodIs
  <2>3. pair[t].trace = t /\ pair[t].judge = a /\ pair[t].human = b
    OBVIOUS
  <2> HIDE DEF a, b, pair
  <2>4. Sixths(a) \in Nat /\ Sixths(b) \in Nat
    BY <2>2 DEF Sixths
  <2>5. J(pair[t]) \in Nat /\ H(pair[t]) \in Nat
    BY <2>3, <2>4 DEF J, H
  <2>6. Good(pair[t].judge) \in BOOLEAN /\ Good(pair[t].human) \in BOOLEAN
    BY <2>2, <2>3, Zenon
  <2> QED
    BY <2>3, <2>5, <2>6 DEF a, b
<1>8. \A t \in both : t \in Here /\ OnMetric(t, m) # {} /\ OnField(t, f) # {}
  OBVIOUS
<1> HIDE DEF pair, both
<1>9. ASSUME NEW p \in pairs
      PROVE  /\ J(p) \in Nat /\ H(p) \in Nat
             /\ Good(p.judge) \in BOOLEAN /\ Good(p.human) \in BOOLEAN
             /\ p.trace \in Here
             /\ OnMetric(p.trace, m) # {} /\ p.judge = AvgIf(OnMetric(p.trace, m))
             /\ OnField(p.trace, f) # {} /\ p.human = AvgIf(OnField(p.trace, f))
  <2>1. PICK t \in both : p = pair[t]
    OBVIOUS
  <2> QED
    BY <1>7, <1>8, <2>1, Zenon
<1> QED
  BY <1>5, <1>6, <1>9, Zenon

LEMMA PairSums ==
  ASSUME NEW pairs, IsFiniteSet(pairs), \A p \in pairs : J(p) \in Nat /\ H(p) \in Nat
  PROVE  /\ SumJ(pairs) \in Nat /\ SumH(pairs) \in Nat /\ Cardinality(pairs) \in Nat
         /\ SumJ(pairs) > SumH(pairs) => \E p \in pairs : J(p) > H(p)
         /\ SumJ(pairs) < SumH(pairs) => \E p \in pairs : J(p) < H(p)
<1> DEFINE f == [p \in pairs |-> J(p)]
           g == [p \in pairs |-> H(p)]
<1>1. DOMAIN f = pairs /\ DOMAIN g = pairs /\ \A p \in pairs : f[p] = J(p) /\ g[p] = H(p)
  OBVIOUS
<1>2. SumJ(pairs) = SumFunctionOnSet(f, pairs) /\ SumH(pairs) = SumFunctionOnSet(g, pairs)
  <2>1. SumJ(pairs) = SumFunction(f) /\ SumH(pairs) = SumFunction(g)
    BY DEF SumJ, SumH
  <2> HIDE DEF f, g
  <2>2. SumFunction(f) = SumFunctionOnSet(f, pairs) /\ SumFunction(g) = SumFunctionOnSet(g, pairs)
    BY <1>1, SumFunctionIs
  <2> QED
    BY <2>1, <2>2
<1> HIDE DEF f, g
<1>3. SumFunctionOnSet(f, pairs) \in Nat /\ SumFunctionOnSet(g, pairs) \in Nat
  BY <1>1, SumType
<1>4. (\A p \in pairs : J(p) =< H(p)) => SumFunctionOnSet(f, pairs) =< SumFunctionOnSet(g, pairs)
  BY <1>1, SumAtMost
<1>5. (\A p \in pairs : H(p) =< J(p)) => SumFunctionOnSet(g, pairs) =< SumFunctionOnSet(f, pairs)
  BY <1>1, SumAtMost
<1>6. Cardinality(pairs) \in Nat
  BY FS_CardinalityType
<1>7. SumJ(pairs) > SumH(pairs) => \E p \in pairs : J(p) > H(p)
  BY <1>2, <1>3, <1>4
<1>8. SumJ(pairs) < SumH(pairs) => \E p \in pairs : J(p) < H(p)
  BY <1>2, <1>3, <1>5
<1> QED
  BY <1>2, <1>3, <1>6, <1>7, <1>8

\* What a verdict stands on.
LEMMA VerdictStands ==
  ASSUME NEW pairs, IsFiniteSet(pairs), \A p \in pairs : J(p) \in Nat /\ H(p) \in Nat
  PROVE  /\ Constant(J, pairs) => JudgeVerdict(pairs) \notin {"good", "mixed", "lenient", "harsh"}
         /\ JudgeVerdict(pairs) = "good" => 5 * Agreed(pairs) >= 4 * Cardinality(pairs)
         /\ JudgeVerdict(pairs) = "lenient" => Bias(pairs) > 9 * Cardinality(pairs)
         /\ JudgeVerdict(pairs) = "harsh" => Bias(pairs) < -9 * Cardinality(pairs)
<1> DEFINE n == Cardinality(pairs)
           constantJ == Constant(J, pairs)
           constantH == Constant(H, pairs)
           weak == WeakCorrelation(pairs)
           base == AtBaseRate(pairs)
           bias == Bias(pairs)
           agreed == Agreed(pairs)
<1>1. n \in Nat
  BY FS_CardinalityType
<1>2. JudgeVerdict(pairs) =
        CASE n = 0 -> "no_data"
          [] n > 0 /\ n < MinLabelled -> "insufficient"
          [] n >= MinLabelled /\ constantJ -> IF base THEN "matches_base_rate" ELSE "weak"
          [] n >= MinLabelled /\ ~constantJ /\ constantH -> "undetermined"
          [] n >= MinLabelled /\ ~constantJ /\ ~constantH ->
               CASE weak -> IF base THEN "matches_base_rate" ELSE "weak"
                 [] ~weak /\ bias > 9 * n  -> "lenient"
                 [] ~weak /\ bias < -9 * n -> "harsh"
                 [] OTHER -> IF 5 * agreed >= 4 * n THEN "good" ELSE "mixed"
  BY DEF JudgeVerdict
<1> HIDE DEF n, constantJ, constantH, weak, base, bias, agreed
<1>3. constantJ => JudgeVerdict(pairs) \notin {"good", "mixed", "lenient", "harsh"}
  BY <1>1, <1>2, QueueAssumption
<1>4. JudgeVerdict(pairs) = "good" => 5 * agreed >= 4 * n
  BY <1>1, <1>2, QueueAssumption
<1>5. JudgeVerdict(pairs) = "lenient" => bias > 9 * n
  BY <1>1, <1>2, QueueAssumption
<1>6. JudgeVerdict(pairs) = "harsh" => bias < -9 * n
  BY <1>1, <1>2, QueueAssumption
<1> QED
  BY <1>3, <1>4, <1>5, <1>6, Zenon DEF n, constantJ, bias, agreed

\* Pairs agree or contradict each other.
LEMMA AgreedCount ==
  ASSUME NEW pairs, IsFiniteSet(pairs)
  PROVE  Agreed(pairs) \in Nat /\ Cardinality({p \in pairs : Crosses(p)}) \in Nat
         /\ Agreed(pairs) + Cardinality({p \in pairs : Crosses(p)}) = Cardinality(pairs)
<1> DEFINE across == {p \in pairs : Crosses(p)}
           same == {p \in pairs : ~Crosses(p)}
<1>1. across \in SUBSET pairs /\ same \in SUBSET pairs /\ same \cap across = {} /\ pairs = same \cup across
  OBVIOUS
<1>2. Agreed(pairs) = Cardinality(same)
  BY DEF Agreed
<1> HIDE DEF across, same
<1>3. IsFiniteSet(across) /\ IsFiniteSet(same)
  BY <1>1, FS_Subset
<1>4. Cardinality(across) \in Nat /\ Cardinality(same) \in Nat
  BY <1>3, FS_CardinalityType
<1>5. Cardinality(same \cap across) = 0
  BY <1>1, FS_EmptySet, Zenon
<1>6. Cardinality(same \cup across) = Cardinality(same) + Cardinality(across) - Cardinality(same \cap across)
  BY <1>3, FS_Union
<1>7. Cardinality(pairs) = Cardinality(same \cup across)
  BY <1>1, Zenon
<1>8. Cardinality(same) + Cardinality(across) = Cardinality(pairs)
  BY <1>4, <1>5, <1>6, <1>7
<1> QED
  BY <1>2, <1>4, <1>8 DEF across

\* The matrix of a metric that is the only one counts the pairs that cross.
LEMMA CrossedCells ==
  ASSUME RowsInv, NEW m, \A row \in Judges(evals) : row.metric = m /\ row.trace \in Here
  PROVE  {p.trace : p \in {q \in Pairs(m, "") : Crosses(q)}} = {t \in BothSides : Cell(t)[1] # Cell(t)[2]}
<1> DEFINE pairs == Pairs(m, "")
           crossed == {p.trace : p \in {q \in pairs : Crosses(q)}}
           cells == {t \in BothSides : Cell(t)[1] # Cell(t)[2]}
           pair(t) == [trace |-> t, judge |-> AvgIf(OnMetric(t, m)), human |-> AvgIf(OnField(t, ""))]
<1>1. ASSUME NEW t
      PROVE  OnMetric(t, m) = Judges(RowsOf(t)) /\ OnField(t, "") = People(RowsOf(t))
  BY DEF OnMetric, OnField, Judges, RowsOf, People
<1>2. ASSUME NEW t, NEW p, p.trace = t, p.judge = AvgIf(OnMetric(t, m)), p.human = AvgIf(OnField(t, ""))
      PROVE  Crosses(p) <=> Cell(t)[1] # Cell(t)[2]
  <2>1. p.judge = AvgIf(Judges(RowsOf(t))) /\ p.human = AvgIf(People(RowsOf(t)))
    BY <1>1, <1>2, Zenon
  <2> DEFINE a == Good(AvgIf(Judges(RowsOf(t))))
             b == Good(AvgIf(People(RowsOf(t))))
  <2>2. Cell(t) = <<b, a>>
    BY DEF Cell
  <2>3. Good(p.judge) = a /\ Good(p.human) = b
    BY <2>1, Zenon
  <2>4. Cell(t)[1] = b /\ Cell(t)[2] = a
    <3> HIDE DEF a, b
    <3> QED
      BY <2>2
  <2> HIDE DEF a, b
  <2> QED
    BY <2>3, <2>4, Zenon DEF Crosses
<1>3. ASSUME NEW t \in crossed PROVE t \in cells
  <2>1. PICK p \in pairs : Crosses(p) /\ p.trace = t
    OBVIOUS
  <2>2. /\ t \in Here /\ OnMetric(t, m) # {} /\ p.judge = AvgIf(OnMetric(t, m))
        /\ OnField(t, "") # {} /\ p.human = AvgIf(OnField(t, ""))
    BY <2>1, PairsAre
  <2>3. Cell(t)[1] # Cell(t)[2]
    BY <1>2, <2>1, <2>2
  <2>4. Judges(RowsOf(t)) # {} /\ People(RowsOf(t)) # {}
    BY <1>1, <2>2, Zenon
  <2>5. t \in Spans
    <3>1. PICK row : row \in Judges(RowsOf(t))
      BY <2>4
    <3> QED
      BY <3>1 DEF Judges, RowsOf, RowsInv, RowKept
  <2> QED
    BY <2>3, <2>4, <2>5, Zenon DEF BothSides
<1>4. ASSUME NEW t \in cells PROVE t \in crossed
  <2>1. Judges(RowsOf(t)) # {} /\ People(RowsOf(t)) # {} /\ Cell(t)[1] # Cell(t)[2]
    BY Zenon DEF BothSides
  <2>2. t \in Here
    <3>1. PICK row : row \in Judges(RowsOf(t))
      BY <2>1
    <3>2. row \in Judges(evals) /\ row.trace = t
      BY <3>1 DEF Judges, RowsOf
    <3> QED
      BY <3>2
  <2>3. OnMetric(t, m) # {} /\ OnField(t, "") # {}
    BY <1>1, <2>1, Zenon
  <2>4. pair(t) \in pairs
    BY <2>2, <2>3 DEF Pairs
  <2>5. pair(t).trace = t /\ pair(t).judge = AvgIf(OnMetric(t, m)) /\ pair(t).human = AvgIf(OnField(t, ""))
    OBVIOUS
  <2> HIDE DEF pair
  <2>6. Crosses(pair(t))
    BY <1>2, <2>1, <2>5, Zenon
  <2> QED
    BY <2>4, <2>5, <2>6
<1> HIDE DEF crossed, cells
<1>5. crossed = cells
  BY <1>3, <1>4
<1> QED
  BY <1>5, Zenon DEF crossed, cells

LEMMA RowsInvAgree == ASSUME RowsInv PROVE AgreementHolds
<1> SUFFICES ASSUME NEW m \in Metrics
             PROVE
    LET pairs == Pairs(m, "")
        across == {p \in pairs : Crosses(p)}
        verdict == JudgeVerdict(pairs)
    IN /\ Constant(J, pairs) => verdict \notin {"good", "mixed", "lenient", "harsh"}
       /\ verdict = "good" => 5 * Cardinality(across) =< Cardinality(pairs)
       /\ verdict = "lenient" => \E p \in pairs : J(p) > H(p)
       /\ verdict = "harsh" => \E p \in pairs : J(p) < H(p)
       /\ across \subseteq Disagreements(pairs)
       /\ \A p \in pairs : m \in DOMAIN LabelledMetrics /\ p.trace \in LabelledMetrics[m].judged
       /\ (\A row \in Judges(evals) : row.metric = m /\ row.trace \in Here) =>
            {p.trace : p \in across} = {t \in BothSides : Cell(t)[1] # Cell(t)[2]}
  BY Zenon DEF AgreementHolds
<1> DEFINE pairs == Pairs(m, "")
           across == {p \in pairs : Crosses(p)}
           verdict == JudgeVerdict(pairs)
<1>1. IsFiniteSet(pairs) /\ \A p \in pairs : J(p) \in Nat /\ H(p) \in Nat
  BY PairsAre
<1>2. \A p \in pairs : m \in DOMAIN LabelledMetrics /\ p.trace \in LabelledMetrics[m].judged
  <2> SUFFICES ASSUME NEW p \in pairs
               PROVE  m \in DOMAIN LabelledMetrics /\ p.trace \in LabelledMetrics[m].judged
    OBVIOUS
  <2>1. OnMetric(p.trace, m) # {}
    BY PairsAre
  <2>2. PICK row : row \in OnMetric(p.trace, m)
    BY <2>1
  <2>3. row \in evals /\ row \in Judges(evals) /\ row.metric = m /\ row.trace = p.trace
    BY <2>2 DEF OnMetric, Judges, RowsOf
  <2> HIDE DEF pairs
  <2>4. m \in DOMAIN LabelledMetrics
    BY <2>3 DEF LabelledMetrics
  <2>5. LabelledMetrics[m].judged = {r.trace : r \in {e \in Judges(evals) : e.metric = m}}
    BY <2>4 DEF LabelledMetrics
  <2> QED
    BY <2>3, <2>4, <2>5
<1>3. across \subseteq Disagreements(pairs)
  BY DEF Disagreements
<1>4. (\A row \in Judges(evals) : row.metric = m /\ row.trace \in Here) =>
        {p.trace : p \in across} = {t \in BothSides : Cell(t)[1] # Cell(t)[2]}
  BY CrossedCells, Zenon
<1> HIDE DEF pairs
<1>5. /\ Constant(J, pairs) => verdict \notin {"good", "mixed", "lenient", "harsh"}
      /\ verdict = "good" => 5 * Agreed(pairs) >= 4 * Cardinality(pairs)
      /\ verdict = "lenient" => Bias(pairs) > 9 * Cardinality(pairs)
      /\ verdict = "harsh" => Bias(pairs) < -9 * Cardinality(pairs)
  BY <1>1, VerdictStands
<1>6. /\ SumJ(pairs) \in Nat /\ SumH(pairs) \in Nat /\ Cardinality(pairs) \in Nat
      /\ SumJ(pairs) > SumH(pairs) => \E p \in pairs : J(p) > H(p)
      /\ SumJ(pairs) < SumH(pairs) => \E p \in pairs : J(p) < H(p)
  BY <1>1, PairSums
<1>7. Bias(pairs) = SumJ(pairs) - SumH(pairs)
  BY DEF Bias
<1>8. verdict = "lenient" => \E p \in pairs : J(p) > H(p)
  BY <1>5, <1>6, <1>7
<1>9. verdict = "harsh" => \E p \in pairs : J(p) < H(p)
  BY <1>5, <1>6, <1>7
<1>10. verdict = "good" => 5 * Cardinality(across) =< Cardinality(pairs)
  <2>1. /\ Agreed(pairs) \in Nat /\ Cardinality(across) \in Nat
        /\ Agreed(pairs) + Cardinality(across) = Cardinality(pairs)
    BY <1>1, AgreedCount
  <2> HIDE DEF across
  <2> QED
    BY <1>5, <1>6, <2>1
<1> HIDE DEF verdict, across
<1> QED
  BY <1>2, <1>3, <1>4, <1>5, <1>8, <1>9, <1>10, Zenon DEF verdict, across, pairs

-----------------------------------------------------------------------------
(* The queue of the reviewers. *)

\* What is ahead of an element, of a set in a strict order.
AheadIn(R, S, x) == {y \in S : <<y, x>> \in R}
Strict(R, S) ==
  /\ \A x \in S : <<x, x>> \notin R
  /\ \A x, y, z \in S : <<x, y>> \in R /\ <<y, z>> \in R => <<x, z>> \in R
  /\ \A x, y \in S : x # y => <<x, y>> \in R \/ <<y, x>> \in R

\* In a strict order each place is taken, by one element.
LEMMA Ranked ==
  ASSUME NEW S, IsFiniteSet(S), NEW R, Strict(R, S)
  PROVE  /\ \A k \in 1..Cardinality(S) : \E x \in S : Cardinality(AheadIn(R, S, x)) = k - 1
         /\ \A x, y \in S : Cardinality(AheadIn(R, S, x)) = Cardinality(AheadIn(R, S, y)) => x = y
         /\ \A x, y \in S : Cardinality(AheadIn(R, S, x)) < Cardinality(AheadIn(R, S, y)) => <<x, y>> \in R
         /\ \A x \in S : Cardinality(AheadIn(R, S, x)) + 1 \in 1..Cardinality(S)
<1> DEFINE n == Cardinality(S)
           size(x) == Cardinality(AheadIn(R, S, x))
           f == [x \in S |-> size(x) + 1]
<1>1. n \in Nat
  BY FS_CardinalityType
<1>2. \A x \in S : IsFiniteSet(AheadIn(R, S, x)) /\ size(x) \in Nat
  <2> SUFFICES ASSUME NEW x \in S PROVE IsFiniteSet(AheadIn(R, S, x)) /\ size(x) \in Nat
    OBVIOUS
  <2>1. AheadIn(R, S, x) \in SUBSET S
    BY DEF AheadIn
  <2> QED
    BY <2>1, FS_Subset, FS_CardinalityType
<1>3. ASSUME NEW x \in S PROVE size(x) + 1 \in 1..n
  <2> DEFINE A == AheadIn(R, S, x)
  <2>1. A \cup {x} \in SUBSET S /\ x \notin A
    BY DEF AheadIn, Strict
  <2> HIDE DEF A
  <2>2. IsFiniteSet(A) /\ Cardinality(A) \in Nat
    BY <1>2 DEF A
  <2>3. Cardinality(A \cup {x}) = Cardinality(A) + 1
    BY <2>1, <2>2, FS_AddElement
  <2>4. Cardinality(A \cup {x}) <= n
    BY <2>1, FS_Subset
  <2>5. Cardinality(A) + 1 \in 1..n
    BY <1>1, <2>2, <2>3, <2>4
  <2> QED
    BY <2>5 DEF A
<1>4. ASSUME NEW x \in S, NEW y \in S, <<x, y>> \in R
      PROVE  size(x) < size(y)
  <2> DEFINE A == AheadIn(R, S, x)
             B == AheadIn(R, S, y)
  <2>1. A \cup {x} \in SUBSET B /\ x \notin A
    BY <1>4 DEF AheadIn, Strict
  <2>2. IsFiniteSet(A) /\ IsFiniteSet(B)
    BY <1>2
  <2> HIDE DEF A, B
  <2>3. Cardinality(A \cup {x}) = Cardinality(A) + 1
    BY <2>1, <2>2, FS_AddElement
  <2>4. Cardinality(A \cup {x}) <= Cardinality(B)
    BY <2>1, <2>2, FS_Subset
  <2>5. Cardinality(A) \in Nat /\ Cardinality(B) \in Nat
    BY <2>2, FS_CardinalityType
  <2>6. Cardinality(A) < Cardinality(B)
    BY <2>3, <2>4, <2>5
  <2> QED
    BY <2>6 DEF A, B
<1> HIDE DEF size, n
<1>5. \A x, y \in S : x # y => size(x) < size(y) \/ size(y) < size(x)
  BY <1>4 DEF Strict
<1>6. \A x, y \in S : size(x) = size(y) => x = y
  BY <1>2, <1>5
<1>7. \A x, y \in S : size(x) < size(y) => <<x, y>> \in R
  <2> SUFFICES ASSUME NEW x \in S, NEW y \in S, size(x) < size(y) PROVE <<x, y>> \in R
    OBVIOUS
  <2>1. x # y
    BY <1>2
  <2>2. <<x, y>> \in R \/ <<y, x>> \in R
    BY <2>1 DEF Strict
  <2>3. <<y, x>> \in R => size(y) < size(x)
    BY <1>4
  <2> QED
    BY <1>2, <2>2, <2>3
<1>8. f \in Injection(S, 1..n)
  <2>1. f \in [S -> 1..n]
    BY <1>3
  <2>2. \A x, y \in S : f[x] = f[y] => x = y
    BY <1>2, <1>6
  <2> HIDE DEF f
  <2> QED
    BY <2>1, <2>2 DEF Injection, IsInjective
<1>9. f \in Surjection(S, 1..n)
  <2>1. IsFiniteSet(1..n) /\ Cardinality(1..n) = n
    BY <1>1, FS_Interval
  <2>2. Cardinality(S) = Cardinality(1..n)
    BY <2>1 DEF n
  <2> HIDE DEF f
  <2> QED
    BY <1>8, <2>1, <2>2, FS_Injection
<1>10. \A k \in 1..n : \E x \in S : size(x) = k - 1
  <2> SUFFICES ASSUME NEW k \in 1..n PROVE \E x \in S : size(x) = k - 1
    OBVIOUS
  <2>1. PICK x \in S : f[x] = k
    <3> HIDE DEF f
    <3> QED
      BY <1>9 DEF Surjection
  <2>2. size(x) + 1 = k /\ size(x) \in Nat
    BY <1>2, <2>1
  <2> QED
    BY <1>1, <2>2
<1> QED
  BY <1>3, <1>6, <1>7, <1>10 DEF size, n

-----------------------------------------------------------------------------
\* Averages by cross-multiplication.
LEMMA Scaled ==
  ASSUME NEW x \in Nat, NEW y \in Nat, NEW k \in Nat \ {0}
  PROVE  x < y <=> x * k < y * k
<1>1. ASSUME x < y PROVE x * k < y * k
  <2>1. PICK d \in Nat \ {0} : y = x + d
    <3>1. y - x \in Nat \ {0} /\ y = x + (y - x)
      BY <1>1
    <3> QED
      BY <3>1
  <2>2. y * k = x * k + d * k /\ x * k \in Nat
    BY <2>1
  <2>3. d * k \in Nat /\ d * k > 0
    OBVIOUS
  <2> QED
    BY <2>2, <2>3
<1>2. ASSUME y =< x PROVE y * k =< x * k
  <2>1. PICK d \in Nat : x = y + d
    <3>1. x - y \in Nat /\ x = y + (x - y)
      BY <1>2
    <3> QED
      BY <3>1
  <2>2. x * k = y * k + d * k /\ y * k \in Nat /\ d * k \in Nat
    BY <2>1
  <2> QED
    BY <2>2
<1>3. x * k \in Nat /\ y * k \in Nat
  OBVIOUS
<1> QED
  BY <1>1, <1>2, <1>3

LEMMA CrossTrans ==
  ASSUME NEW p \in Nat, NEW q \in Nat, NEW r \in Nat,
         NEW i \in Nat \ {0}, NEW j \in Nat \ {0}, NEW k \in Nat \ {0}
  PROVE  /\ p * j < q * i /\ q * k < r * j => p * k < r * i
         /\ p * k < r * i => p * j < q * i \/ q * k < r * j
<1>1. /\ p * j \in Nat /\ q * i \in Nat /\ q * k \in Nat /\ r * j \in Nat /\ p * k \in Nat /\ r * i \in Nat
  OBVIOUS
<1>2. p * j < q * i <=> (p * j) * k < (q * i) * k
  BY <1>1, Scaled
<1>3. q * k < r * j <=> (q * k) * i < (r * j) * i
  BY <1>1, Scaled
<1>4. p * k < r * i <=> (p * k) * j < (r * i) * j
  BY <1>1, Scaled
<1>5. (p * j) * k = (p * k) * j /\ (q * i) * k = (q * k) * i /\ (r * j) * i = (r * i) * j
  OBVIOUS
<1> DEFINE a == (p * j) * k
           b == (q * i) * k
           c == (r * j) * i
<1>6. a \in Nat /\ b \in Nat /\ c \in Nat
  BY <1>1
<1>7. /\ p * j < q * i <=> a < b
      /\ q * k < r * j <=> b < c
      /\ p * k < r * i <=> a < c
  BY <1>2, <1>3, <1>4, <1>5, Zenon
<1> HIDE DEF a, b, c
<1> QED
  BY <1>6, <1>7

\* What a side of a trace scored, or no number.
Average == [sum : Nat, of : Nat \ {0}] \cup {NaN}

LEMMA LessIs ==
  ASSUME NEW a \in Average, NEW b \in Average
  PROVE  /\ a # NaN /\ b # NaN => (Less(a, b) <=> a.sum * b.of < b.sum * a.of)
         /\ a = NaN => ~Less(a, b)
         /\ b = NaN => (Less(a, b) <=> a # NaN)
         /\ a # NaN => a.sum \in Nat /\ a.of \in Nat \ {0}
         /\ Bad(a) <=> a # NaN /\ a.sum < 5 * a.of
BY DEF Less, Average, Bad, Threshold

LEMMA LessStrict ==
  ASSUME NEW a \in Average, NEW b \in Average, NEW c \in Average
  PROVE  /\ ~Less(a, a)
         /\ Less(a, b) /\ Less(b, c) => Less(a, c)
         /\ Less(a, c) => Less(a, b) \/ Less(b, c)
<1>1. ~Less(a, a)
  <2>1. CASE a = NaN
    BY <2>1, LessIs
  <2>2. CASE a # NaN
    <3>1. a.sum * a.of \in Nat /\ (Less(a, a) <=> a.sum * a.of < a.sum * a.of)
      BY <2>2, LessIs
    <3> QED
      BY <3>1
  <2> QED
    BY <2>1, <2>2
<1>2. CASE a = NaN \/ b = NaN \/ c = NaN
  BY <1>1, <1>2, LessIs
<1>3. CASE a # NaN /\ b # NaN /\ c # NaN
  <2>1. /\ a.sum \in Nat /\ a.of \in Nat \ {0}
        /\ b.sum \in Nat /\ b.of \in Nat \ {0}
        /\ c.sum \in Nat /\ c.of \in Nat \ {0}
    BY <1>3, LessIs
  <2>2. /\ Less(a, b) <=> a.sum * b.of < b.sum * a.of
        /\ Less(b, c) <=> b.sum * c.of < c.sum * b.of
        /\ Less(a, c) <=> a.sum * c.of < c.sum * a.of
    BY <1>3, LessIs
  <2>3. /\ a.sum * b.of < b.sum * a.of /\ b.sum * c.of < c.sum * b.of => a.sum * c.of < c.sum * a.of
        /\ a.sum * c.of < c.sum * a.of => a.sum * b.of < b.sum * a.of \/ b.sum * c.of < c.sum * b.of
    BY <2>1, CrossTrans
  <2> QED
    BY <1>1, <2>2, <2>3, Zenon
<1> QED
  BY <1>2, <1>3

\* What is no worse than a bad average is bad.
LEMMA NoBetter ==
  ASSUME NEW a \in Average, NEW b \in Average, Bad(a), ~Less(a, b)
  PROVE  Bad(b)
<1>1. a # NaN /\ b # NaN
  BY LessIs
<1>2. /\ a.sum \in Nat /\ a.of \in Nat \ {0} /\ b.sum \in Nat /\ b.of \in Nat \ {0}
      /\ a.sum < 5 * a.of /\ ~(a.sum * b.of < b.sum * a.of)
  BY <1>1, LessIs
<1>3. a.sum * 1 < 5 * a.of /\ ~(a.sum * b.of < b.sum * a.of)
  BY <1>2
<1>4. a.sum * 1 < 5 * a.of => a.sum * b.of < b.sum * a.of \/ b.sum * 1 < 5 * b.of
  BY <1>2, CrossTrans
<1>5. b.sum < 5 * b.of
  BY <1>2, <1>3, <1>4
<1> QED
  BY <1>1, <1>5, LessIs

LEMMA ScoresAverage ==
  ASSUME RowsInv, NEW t
  PROVE  /\ JudgeScore(t) \in Average /\ HumanScore(t) \in Average
         /\ RowsOf(t) # {} => /\ JudgeScore(t) = AvgIf(Judges(RowsOf(t)))
                              /\ HumanScore(t) = AvgIf(People(RowsOf(t)))
         /\ RowsOf(t) = {} => AvgIf(People(RowsOf(t))) = NaN /\ AvgIf(Judges(RowsOf(t))) = NaN
<1>1. Judges(RowsOf(t)) \in SUBSET evals /\ People(RowsOf(t)) \in SUBSET evals
  BY DEF Judges, People, RowsOf
<1>2. \A K \in SUBSET evals : AvgIf(K) \in Average
  <2> SUFFICES ASSUME NEW K \in SUBSET evals PROVE AvgIf(K) \in Average
    OBVIOUS
  <2>1. CASE K = {}
    BY <2>1, AverageIs DEF Average
  <2>2. CASE K # {}
    <3>1. /\ AvgIf(K) = [sum |-> ScoreSum(K), of |-> Cardinality(K)] /\ Cardinality(K) # 0
          /\ Cardinality(K) \in Nat /\ ScoreSum(K) \in Nat
      BY <2>2, AverageIs
    <3> QED
      BY <3>1 DEF Average
  <2> QED
    BY <2>1, <2>2
<1>3. Zero \in Average
  BY DEF Zero, Average
<1>4. RowsOf(t) = {} => Judges(RowsOf(t)) = {} /\ People(RowsOf(t)) = {}
  BY DEF Judges, People
<1>5. /\ JudgeScore(t) = IF RowsOf(t) = {} THEN Zero ELSE AvgIf(Judges(RowsOf(t)))
      /\ HumanScore(t) = IF RowsOf(t) = {} THEN Zero ELSE AvgIf(People(RowsOf(t)))
  BY Zenon DEF JudgeScore, HumanScore
<1>6. AvgIf({}) = NaN
  BY DEF AvgIf
<1>7. AvgIf(Judges(RowsOf(t))) \in Average /\ AvgIf(People(RowsOf(t))) \in Average
  BY <1>1, <1>2
<1>8. RowsOf(t) = {} => AvgIf(People(RowsOf(t))) = NaN /\ AvgIf(Judges(RowsOf(t))) = NaN
  BY <1>4, <1>6, Zenon
<1> QED
  BY <1>3, <1>5, <1>7, <1>8, Zenon

\* Every trace that is there came in at some time, and every order of ties tells
\* traces apart.
LEMMA CameAt == ASSUME SpansInv PROVE \A t \in Here : CameIn(t) \in Nat /\ CameIn(t) <= now
<1> TAKE t \in Here
<1>1. \A i \in DOMAIN spans : spans[i].at \in Nat /\ spans[i].at <= now
  <2>1. DOMAIN spans = 1..Len(spans) /\ spans \in Seq([trace : Spans, at : Nat])
    BY DEF SpansInv
  <2>2. \A i \in DOMAIN spans : spans[i] \in [trace : Spans, at : Nat]
    BY <2>1, ElementOfSeq
  <2>3. \A i \in DOMAIN spans : spans[i].at <= now
    BY <2>1 DEF SpansInv
  <2> QED
    BY <2>2, <2>3
<1>2. \E i \in DOMAIN spans : spans[i].trace = t
  BY DEF Here
<1> DEFINE i == CHOOSE j \in DOMAIN spans : spans[j].trace = t
<1>3. i \in DOMAIN spans
  BY <1>2
<1>4. CameIn(t) = spans[i].at
  BY Zenon DEF CameIn
<1> HIDE DEF i
<1> QED
  BY <1>1, <1>3, <1>4

LEMMA TiesTell ==
  ASSUME NEW tie \in Ties
  PROVE  (\A t \in Here : t \in Spans /\ tie[t] \in Nat) /\ \A s, t \in Here : tie[s] = tie[t] => s = t
<1>1. tie \in [Spans -> Nat] /\ \A s, t \in Spans : tie[s] = tie[t] => s = t
  BY QueriesAssumption
<1> QED
  BY <1>1 DEF Here

\* The last thing that decides is which trace came in later.
Later(s, t, tie) == CameIn(s) > CameIn(t) \/ (CameIn(s) = CameIn(t) /\ tie[s] < tie[t])

LEMMA LaterStrict ==
  ASSUME SpansInv, NEW tie \in Ties, NEW s \in Here, NEW t \in Here, NEW u \in Here
  PROVE  /\ ~Later(s, s, tie)
         /\ Later(s, t, tie) /\ Later(t, u, tie) => Later(s, u, tie)
         /\ s # t => Later(s, t, tie) \/ Later(t, s, tie)
<1>1. CameIn(s) \in Nat /\ CameIn(t) \in Nat /\ CameIn(u) \in Nat
  BY CameAt
<1>2. tie[s] \in Nat /\ tie[t] \in Nat /\ tie[u] \in Nat /\ (s # t => tie[s] # tie[t])
  BY TiesTell
<1> QED
  BY <1>1, <1>2 DEF Later

LEMMA WorseStrict ==
  ASSUME RowsInv, SpansInv, NEW tie \in Ties, NEW S \in SUBSET Here
  PROVE  Strict({p \in S \X S : Worse(p[1], p[2], tie)}, S)
<1> DEFINE R == {p \in S \X S : Worse(p[1], p[2], tie)}
<1>1. \A s, t \in S : <<s, t>> \in R <=> Worse(s, t, tie)
  OBVIOUS
<1>2. ASSUME NEW s \in S, NEW t \in S, NEW u \in S
      PROVE  /\ ~Worse(s, s, tie)
             /\ Worse(s, t, tie) /\ Worse(t, u, tie) => Worse(s, u, tie)
             /\ s # t => Worse(s, t, tie) \/ Worse(t, s, tie)
  <2> DEFINE h(x, y) == Less(HumanScore(x), HumanScore(y))
             j(x, y) == Less(JudgeScore(x), JudgeScore(y))
  <2>1. /\ HumanScore(s) \in Average /\ HumanScore(t) \in Average /\ HumanScore(u) \in Average
        /\ JudgeScore(s) \in Average /\ JudgeScore(t) \in Average /\ JudgeScore(u) \in Average
    BY ScoresAverage
  <2>2. /\ ~h(s, s) /\ (h(s, t) /\ h(t, u) => h(s, u))
        /\ (h(s, u) => h(s, t) \/ h(t, u)) /\ (h(u, s) => h(u, t) \/ h(t, s))
        /\ (h(t, s) => h(t, u) \/ h(u, s)) /\ (h(u, t) => h(u, s) \/ h(s, t))
        /\ (h(s, t) => h(s, u) \/ h(u, t)) /\ (h(t, u) => h(t, s) \/ h(s, u))
        /\ (h(s, t) => ~h(t, s)) /\ (h(t, u) => ~h(u, t)) /\ (h(s, u) => ~h(u, s))
    BY <2>1, LessStrict
  <2>3. /\ ~j(s, s) /\ (j(s, t) /\ j(t, u) => j(s, u))
        /\ (j(s, u) => j(s, t) \/ j(t, u)) /\ (j(u, s) => j(u, t) \/ j(t, s))
        /\ (j(t, s) => j(t, u) \/ j(u, s)) /\ (j(u, t) => j(u, s) \/ j(s, t))
        /\ (j(s, t) => j(s, u) \/ j(u, t)) /\ (j(t, u) => j(t, s) \/ j(s, u))
        /\ (j(s, t) => ~j(t, s)) /\ (j(t, u) => ~j(u, t)) /\ (j(s, u) => ~j(u, s))
    BY <2>1, LessStrict
  <2>4. /\ (Worse(s, s, tie) <=> h(s, s) \/ (~h(s, s) /\ (j(s, s) \/ (~j(s, s) /\ Later(s, s, tie)))))
        /\ (Worse(s, t, tie) <=> h(s, t) \/ (~h(t, s) /\ (j(s, t) \/ (~j(t, s) /\ Later(s, t, tie)))))
        /\ (Worse(t, s, tie) <=> h(t, s) \/ (~h(s, t) /\ (j(t, s) \/ (~j(s, t) /\ Later(t, s, tie)))))
        /\ (Worse(t, u, tie) <=> h(t, u) \/ (~h(u, t) /\ (j(t, u) \/ (~j(u, t) /\ Later(t, u, tie)))))
        /\ (Worse(s, u, tie) <=> h(s, u) \/ (~h(u, s) /\ (j(s, u) \/ (~j(u, s) /\ Later(s, u, tie)))))
    BY Zenon DEF Worse, Later
  <2>5. /\ ~Later(s, s, tie) /\ (Later(s, t, tie) /\ Later(t, u, tie) => Later(s, u, tie))
        /\ (s # t => Later(s, t, tie) \/ Later(t, s, tie))
    BY LaterStrict
  <2> HIDE DEF h, j
  <2> QED
    BY <2>2, <2>3, <2>4, <2>5
<1> HIDE DEF R
<1>3. Strict(R, S)
  BY <1>1, <1>2 DEF Strict
<1> QED
  BY <1>3 DEF R

\* Each trace of the queue has the place the order gives it.
LEMMA QueuePlaces ==
  ASSUME RowsInv, SpansInv, NEW tie \in Ties, NEW source
  PROVE  /\ DOMAIN Queue(source, tie) = 1..Cardinality(Queued(source))
         /\ Len(Queue(source, tie)) = Cardinality(Queued(source)) /\ Len(Queue(source, tie)) \in Nat
         /\ {Queue(source, tie)[i] : i \in DOMAIN Queue(source, tie)} = Queued(source)
         /\ \A i, j \in DOMAIN Queue(source, tie) : i < j => Worse(Queue(source, tie)[i], Queue(source, tie)[j], tie)
<1> DEFINE S == Queued(source)
           n == Cardinality(S)
           R == {p \in S \X S : Worse(p[1], p[2], tie)}
           ahead(t) == Cardinality({s \in S : Worse(s, t, tie)})
           queue == [k \in 1..n |-> CHOOSE t \in S : ahead(t) = k - 1]
<1>1. Queue(source, tie) = queue
  BY Zenon DEF Queue
<1>2. IsFiniteSet(S)
  <2>1. S \in SUBSET Spans
    BY DEF Queued, Here
  <2> QED
    BY <2>1, StoreAssumption, FS_Subset
<1>3. S \in SUBSET Here
  BY DEF Queued
<1> HIDE DEF S
<1>4. n \in Nat
  BY <1>2, FS_CardinalityType
<1>5. Strict(R, S)
  BY <1>3, WorseStrict
<1>6. \A s, t \in S : <<s, t>> \in R <=> Worse(s, t, tie)
  OBVIOUS
<1>7. \A t \in S : AheadIn(R, S, t) = {s \in S : Worse(s, t, tie)}
  BY <1>6 DEF AheadIn
<1>8. \A t \in S : Cardinality(AheadIn(R, S, t)) = ahead(t)
  BY <1>7, Zenon
<1> HIDE DEF R, ahead, n
<1>9. /\ \A k \in 1..n : \E x \in S : Cardinality(AheadIn(R, S, x)) = k - 1
      /\ \A x, y \in S : Cardinality(AheadIn(R, S, x)) = Cardinality(AheadIn(R, S, y)) => x = y
      /\ \A x, y \in S : Cardinality(AheadIn(R, S, x)) < Cardinality(AheadIn(R, S, y)) => <<x, y>> \in R
      /\ \A x \in S : Cardinality(AheadIn(R, S, x)) + 1 \in 1..n
  BY <1>2, <1>5, Ranked DEF n
<1>10. /\ \A k \in 1..n : \E x \in S : ahead(x) = k - 1
       /\ \A x, y \in S : ahead(x) = ahead(y) => x = y
       /\ \A x, y \in S : ahead(x) < ahead(y) => Worse(x, y, tie)
       /\ \A x \in S : ahead(x) + 1 \in 1..n
  BY <1>6, <1>8, <1>9
<1>11. \A x \in S : ahead(x) \in Nat
  <2>1. \A x \in S : IsFiniteSet(AheadIn(R, S, x))
    <3> SUFFICES ASSUME NEW x \in S PROVE IsFiniteSet(AheadIn(R, S, x))
      OBVIOUS
    <3>1. AheadIn(R, S, x) \in SUBSET S
      BY DEF AheadIn
    <3> QED
      BY <1>2, <3>1, FS_Subset
  <2>2. \A x \in S : Cardinality(AheadIn(R, S, x)) \in Nat
    BY <2>1, FS_CardinalityType
  <2> QED
    BY <1>8, <2>2
<1>12. \A k \in 1..n : queue[k] \in S /\ ahead(queue[k]) = k - 1
  BY <1>10
<1>13. DOMAIN queue = 1..n /\ queue \in [1..n -> S]
  BY <1>12
<1> HIDE DEF queue
<1>14. {queue[k] : k \in DOMAIN queue} = S
  <2>1. \A x \in S : \E k \in 1..n : queue[k] = x
    <3> SUFFICES ASSUME NEW x \in S PROVE \E k \in 1..n : queue[k] = x
      OBVIOUS
    <3>1. ahead(x) + 1 \in 1..n /\ ahead(x) \in Nat
      BY <1>10, <1>11
    <3>2. queue[ahead(x) + 1] \in S /\ ahead(queue[ahead(x) + 1]) = ahead(x)
      BY <1>12, <3>1
    <3> QED
      BY <1>10, <3>1, <3>2
  <2> QED
    BY <1>12, <1>13, <2>1
<1>15. \A i, j \in 1..n : i < j => Worse(queue[i], queue[j], tie)
  <2> SUFFICES ASSUME NEW i \in 1..n, NEW j \in 1..n, i < j PROVE Worse(queue[i], queue[j], tie)
    OBVIOUS
  <2>1. queue[i] \in S /\ queue[j] \in S /\ ahead(queue[i]) = i - 1 /\ ahead(queue[j]) = j - 1
    BY <1>12
  <2>2. i - 1 < j - 1
    BY <1>4
  <2>3. ahead(queue[i]) < ahead(queue[j])
    BY <2>1, <2>2, Zenon
  <2> QED
    BY <1>10, <2>1, <2>3
<1>16. Len(queue) = n
  <2>1. queue \in Seq(S)
    BY <1>4, <1>12, <1>13
  <2> QED
    BY <1>4, <1>13, <2>1
<1> QED
  BY <1>1, <1>4, <1>13, <1>14, <1>15, <1>16 DEF S, n

\* A text an answer gave says nothing of the score, and is kept as zero.
TextsInv == \A row \in evals : row.kind = "text" => row.score = 0

LEMMA TextsWeighNothing ==
  ASSUME RowsInv, TextsInv, NEW t, Bad(AvgIf(People(RowsOf(t)) \ Texts(t)))
  PROVE  Bad(AvgIf(People(RowsOf(t))))
<1> DEFINE A == People(RowsOf(t)) \ Texts(t)
           B == People(RowsOf(t)) \cap Texts(t)
           C == People(RowsOf(t))
<1>1. A \in SUBSET evals /\ B \in SUBSET evals /\ C \in SUBSET evals
  BY DEF People, RowsOf
<1>2. C = A \cup B /\ A \cap B = {}
  OBVIOUS
<1>3. \A row \in A \cup B : row.score \in Nat
  BY <1>1 DEF RowsInv, RowKept, Score
<1>4. \A row \in B : row.score = 0
  BY DEF TextsInv, Texts, RowsOf
<1>5. A # {}
  <2>1. AvgIf({}) = NaN
    BY DEF AvgIf
  <2>2. AvgIf(A) # NaN
    BY DEF Bad
  <2> QED
    BY <2>1, <2>2, Zenon
<1>6. Bad(AvgIf(A))
  OBVIOUS
<1> HIDE DEF A, B, C
<1>7. C # {}
  BY <1>2, <1>5
<1>8. /\ IsFiniteSet(A) /\ IsFiniteSet(B) /\ IsFiniteSet(C)
  BY <1>1, ScoresAre
<1>9. ScoreSum(A \cup B) = ScoreSum(A) + ScoreSum(B) /\ ScoreSum(A) \in Nat /\ ScoreSum(B) \in Nat
  BY <1>2, <1>3, <1>8, ScoresAdd
<1>10. ScoreSum(B) = 0
  <2>1. ScoreSum(B) = SumFunctionOnSet(ScoreOf, B)
    BY <1>1, ScoresAre
  <2>2. \A row \in B : ScoreOf[row] = 0
    BY <1>1, <1>4 DEF ScoreOf
  <2>3. SumFunctionOnSet(ScoreOf, B) = 0
    BY <1>8, <2>2, SumZero
  <2> QED
    BY <2>1, <2>3
<1>11. ScoreSum(C) = ScoreSum(A)
  <2>1. ScoreSum(C) = ScoreSum(A \cup B)
    BY <1>2, Zenon
  <2> QED
    BY <1>9, <1>10, <2>1
<1>12. Cardinality(A) <= Cardinality(C)
  <2>1. A \in SUBSET C
    BY <1>2
  <2> QED
    BY <1>8, <2>1, FS_Subset
<1>13. /\ AvgIf(A).sum \in Nat /\ AvgIf(A).of \in Nat \ {0}
       /\ AvgIf(A).sum = ScoreSum(A) /\ AvgIf(A).of = Cardinality(A)
  BY <1>1, <1>5, GoodIs
<1>14. /\ AvgIf(C).sum \in Nat /\ AvgIf(C).of \in Nat \ {0}
       /\ AvgIf(C).sum = ScoreSum(C) /\ AvgIf(C).of = Cardinality(C)
  BY <1>1, <1>7, GoodIs
<1>15. AvgIf(C) # NaN
  BY <1>1, <1>7, AverageIs
<1>16. AvgIf(A).sum < 5 * AvgIf(A).of
  BY <1>6 DEF Bad, Threshold
<1>17. AvgIf(C).sum < 5 * AvgIf(C).of
  BY <1>11, <1>12, <1>13, <1>14, <1>16
<1>18. Bad(AvgIf(C))
  BY <1>15, <1>17 DEF Bad, Threshold
<1> QED
  BY <1>18 DEF C

\* What is no better than zero is zero throughout.
LEMMA NothingBelow ==
  ASSUME RowsInv, NEW K \in SUBSET evals, ~Less(Zero, AvgIf(K))
  PROVE  \A row \in K : row.score = 0
<1> SUFFICES ASSUME NEW x \in K PROVE x.score = 0
  OBVIOUS
<1>1. /\ AvgIf(K) # NaN /\ AvgIf(K).sum \in Nat /\ AvgIf(K).of \in Nat \ {0}
      /\ AvgIf(K).sum = ScoreSum(K)
  BY AverageIs, GoodIs
<1>2. AvgIf(K) \in Average
  BY AverageIs, GoodIs DEF Average
<1>3. Zero \in Average /\ Zero.sum = 0 /\ Zero.of = 1
  BY DEF Zero, Average
<1>4. Zero # NaN
  BY NothingIsNoAverage DEF Zero
<1>5. Less(Zero, AvgIf(K)) <=> 0 * AvgIf(K).of < AvgIf(K).sum * 1
  BY <1>1, <1>2, <1>3, <1>4, LessIs
<1>6. ScoreSum(K) = 0
  BY <1>1, <1>5
<1> DEFINE A == {x}
           B == K \ {x}
<1>7. A \in SUBSET evals /\ B \in SUBSET evals /\ A \cap B = {} /\ A \cup B = K
  OBVIOUS
<1>8. \A row \in K : row.score \in Nat
  BY DEF RowsInv, RowKept, Score
<1>9. ScoreSum(A) = x.score
  <2>0. ScoreOf[x] = x.score
    BY DEF ScoreOf
  <2>1. ScoreSum(A) = SumFunctionOnSet(ScoreOf, A) /\ ScoreOf[x] = x.score
    <3>1. A \in SUBSET evals
      BY <1>7
    <3> HIDE DEF A
    <3> QED
      BY <2>0, <3>1, ScoresAre
  <2>2. SumFunctionOnSet(ScoreOf, A) = ScoreOf[x]
    <3>1. ScoreOf[x] \in Int
      BY <1>8, <2>0
    <3> QED
      BY <3>1, SumOne
  <2> QED
    BY <2>1, <2>2
<1> HIDE DEF A, B
<1>10. ScoreSum(A \cup B) = ScoreSum(A) + ScoreSum(B) /\ ScoreSum(A) \in Nat /\ ScoreSum(B) \in Nat
  <2>1. IsFiniteSet(A) /\ IsFiniteSet(B)
    BY <1>7, ScoresAre
  <2>2. \A row \in A \cup B : row.score \in Nat
    BY <1>7, <1>8
  <2> QED
    BY <1>7, <2>1, <2>2, ScoresAdd
<1>11. ScoreSum(A \cup B) = ScoreSum(K)
  BY <1>7, Zenon
<1> QED
  BY <1>6, <1>8, <1>9, <1>10, <1>11

\* A trace nobody scored is bad by the zero that the join finds.
LEMMA HavingIs ==
  ASSUME RowsInv, NEW t
  PROVE  Having(t, "all") <=> \/ Shown(t, "flag") = "open" \/ RowsOf(t) = {}
                              \/ Bad(Found(t)) \/ Bad(AvgIf(Judges(RowsOf(t))))
<1>1. Having(t, "all") <=> Shown(t, "flag") = "open" \/ Bad(HumanScore(t)) \/ Bad(JudgeScore(t))
  BY DEF Having
<1>2. CASE RowsOf(t) = {}
  <2>1. HumanScore(t) = Zero
    BY <1>2, Zenon DEF HumanScore
  <2>2. Zero # NaN /\ Zero.sum = 0 /\ Zero.of = 1
    BY NothingIsNoAverage DEF Zero
  <2>3. Bad(Zero)
    BY <2>2 DEF Bad, Threshold
  <2> QED
    BY <1>1, <1>2, <2>1, <2>3, Zenon
<1>3. CASE RowsOf(t) # {}
  BY <1>1, <1>3, ScoresAverage, Zenon DEF Found
<1> QED
  BY <1>2, <1>3

LEMMA QueuedAre ==
  ASSUME RowsInv, TextsInv
  PROVE  Queued("all") = Wanted \cup Unscored \cup {t \in Here : Open(t) /\ Texts(t) # {} /\ Bad(Found(t))}
<1>1. \A t : t \in Queued("all") <=> t \in Here /\ Open(t) /\ Having(t, "all")
  BY DEF Queued, Open
<1>2. \A t : Having(t, "all") <=> \/ Shown(t, "flag") = "open" \/ RowsOf(t) = {}
                                  \/ Bad(Found(t)) \/ Bad(AvgIf(Judges(RowsOf(t))))
  BY HavingIs
<1>3. \A t : Bad(AvgIf(People(RowsOf(t)) \ Texts(t))) => Bad(Found(t))
  BY TextsWeighNothing DEF Found
<1>4. \A t : Texts(t) = {} => (Bad(Found(t)) <=> Bad(AvgIf(People(RowsOf(t)) \ Texts(t))))
  <2> SUFFICES ASSUME NEW t, Texts(t) = {} PROVE Bad(Found(t)) <=> Bad(AvgIf(People(RowsOf(t)) \ Texts(t)))
    OBVIOUS
  <2>1. People(RowsOf(t)) \ Texts(t) = People(RowsOf(t))
    OBVIOUS
  <2> QED
    BY <2>1, Zenon DEF Found
<1>5. /\ \A t : t \in Unscored <=> t \in Here /\ Open(t) /\ RowsOf(t) = {}
      /\ \A t : t \in Wanted <=> /\ t \in Here /\ Open(t)
                                /\ \/ Shown(t, "flag") = "open"
                                   \/ Bad(AvgIf(People(RowsOf(t)) \ Texts(t)))
                                   \/ Bad(AvgIf(Judges(RowsOf(t))))
  BY DEF Unscored, Wanted
<1> DEFINE marred == {t \in Here : Open(t) /\ Texts(t) # {} /\ Bad(Found(t))}
<1>6. \A t : t \in Queued("all") <=> t \in Wanted \/ t \in Unscored \/ t \in marred
  <2> TAKE t
  <2>1. t \in marred <=> t \in Here /\ Open(t) /\ Texts(t) # {} /\ Bad(Found(t))
    OBVIOUS
  <2> HIDE DEF marred
  <2> QED
    BY <1>1, <1>2, <1>3, <1>4, <1>5, <2>1, Zenon
<1> HIDE DEF marred
<1>7. Queued("all") = Wanted \cup Unscored \cup marred
  BY <1>6
<1> QED
  BY <1>7, Zenon DEF marred

\* No worse by what people found, and if they found the same no worse by the judges.
LEMMA NotBetter ==
  ASSUME RowsInv, NEW s, NEW t, NEW tie, Worse(s, t, tie)
  PROVE  /\ ~Less(HumanScore(t), HumanScore(s))
         /\ Less(HumanScore(s), HumanScore(t)) \/ ~Less(JudgeScore(t), JudgeScore(s))
<1>1. /\ HumanScore(s) \in Average /\ HumanScore(t) \in Average
      /\ JudgeScore(s) \in Average /\ JudgeScore(t) \in Average
  BY ScoresAverage
<1>2. \A a, b \in Average : Less(a, b) => ~Less(b, a)
  BY LessStrict
<1>3. \/ Less(HumanScore(s), HumanScore(t))
      \/ /\ ~Less(HumanScore(t), HumanScore(s))
         /\ Less(JudgeScore(s), JudgeScore(t)) \/ ~Less(JudgeScore(t), JudgeScore(s))
  BY Zenon DEF Worse
<1> QED
  BY <1>1, <1>2, <1>3

LEMMA ZeroLeads ==
  ASSUME RowsInv, NEW s, NEW t, NEW tie, Worse(s, t, tie), RowsOf(t) = {}
  PROVE  \A row \in RowsOf(s) : row.score = 0
<1>1. HumanScore(t) = Zero /\ JudgeScore(t) = Zero
  BY Zenon DEF HumanScore, JudgeScore
<1>2. HumanScore(s) \in Average /\ Zero \in Average /\ Zero.sum = 0 /\ Zero.of = 1
  BY ScoresAverage DEF Zero, Average
<1>3. ~Less(HumanScore(s), Zero)
  <2>1. Zero # NaN
    BY NothingIsNoAverage DEF Zero
  <2>2. CASE HumanScore(s) = NaN
    BY <1>2, <2>2, LessIs
  <2>3. CASE HumanScore(s) # NaN
    <3>1. HumanScore(s).sum \in Nat /\ HumanScore(s).of \in Nat \ {0}
      BY <1>2, <2>3, LessIs
    <3>2. Less(HumanScore(s), Zero) <=> HumanScore(s).sum * 1 < 0 * HumanScore(s).of
      BY <1>2, <2>1, <2>3, LessIs
    <3> QED
      BY <3>1, <3>2
  <2> QED
    BY <2>2, <2>3
<1>4. ~Less(Zero, HumanScore(s)) /\ ~Less(Zero, JudgeScore(s))
  BY <1>1, <1>3, NotBetter
<1> SUFFICES ASSUME NEW row \in RowsOf(s) PROVE row.score = 0
  OBVIOUS
<1>5. HumanScore(s) = AvgIf(People(RowsOf(s))) /\ JudgeScore(s) = AvgIf(Judges(RowsOf(s)))
  <2>1. RowsOf(s) # {}
    OBVIOUS
  <2> QED
    BY <2>1, ScoresAverage
<1>6. People(RowsOf(s)) \in SUBSET evals /\ Judges(RowsOf(s)) \in SUBSET evals
  BY DEF People, Judges, RowsOf
<1>7. /\ \A x \in People(RowsOf(s)) : x.score = 0
      /\ \A x \in Judges(RowsOf(s)) : x.score = 0
  <2>1. ~Less(Zero, AvgIf(People(RowsOf(s)))) /\ ~Less(Zero, AvgIf(Judges(RowsOf(s))))
    BY <1>4, <1>5, Zenon
  <2> QED
    BY <1>6, <2>1, NothingBelow
<1>8. row \in People(RowsOf(s)) \/ row \in Judges(RowsOf(s))
  BY DEF People, Judges
<1> QED
  BY <1>7, <1>8

LEMMA BadLeads ==
  ASSUME RowsInv, NEW s, NEW t, NEW tie, Worse(s, t, tie), Bad(Found(t)), RowsOf(s) # {}
  PROVE  Bad(Found(s))
<1>1. RowsOf(t) # {}
  <2>1. AvgIf(People(RowsOf(t))) # NaN
    BY DEF Bad, Found
  <2> QED
    BY <2>1, ScoresAverage
<1>2. HumanScore(t) = Found(t) /\ HumanScore(s) = Found(s)
  BY <1>1, ScoresAverage, Zenon DEF Found
<1>3. ~Less(HumanScore(t), HumanScore(s)) /\ HumanScore(s) \in Average /\ HumanScore(t) \in Average
  BY NotBetter, ScoresAverage
<1>4. Bad(HumanScore(t))
  BY <1>2, Zenon
<1>5. Bad(HumanScore(s))
  BY <1>3, <1>4, NoBetter
<1> QED
  BY <1>2, <1>5, Zenon

LEMMA StoreInvQueue ==
  ASSUME RowsInv, SpansInv, TextsInv
  PROVE  QueueHolds
<1>1. Queued("all") = Wanted \cup Unscored \cup {t \in Here : Open(t) /\ Texts(t) # {} /\ Bad(Found(t))}
  BY QueuedAre
<1>2. Queued("all") = UNION {Queued(s) : s \in {"flagged", "feedback", "low_score"}}
  <2>1. Queued("all") = Queued("flagged") \cup Queued("feedback") \cup Queued("low_score")
    BY DEF Queued, Having
  <2> QED
    BY <2>1
<1>3. ASSUME NEW tie \in Ties
      PROVE  LET queue == Queue("all", tie) IN
               /\ {queue[i] : i \in DOMAIN queue} = Queued("all") /\ Len(queue) = Cardinality(Queued("all"))
               /\ \A i, j \in DOMAIN queue : i < j =>
                    /\ queue[j] \in Unscored =>
                         queue[i] \in Unscored \/ \A row \in RowsOf(queue[i]) : row.score = 0
                    /\ Bad(Found(queue[j])) => queue[i] \in Unscored \/ Bad(Found(queue[i]))
  <2> DEFINE queue == Queue("all", tie)
  <2>1. /\ Len(queue) = Cardinality(Queued("all"))
        /\ {queue[i] : i \in DOMAIN queue} = Queued("all")
        /\ \A i, j \in DOMAIN queue : i < j => Worse(queue[i], queue[j], tie)
    BY QueuePlaces
  <2> HIDE DEF queue
  <2>2. \A i \in DOMAIN queue : queue[i] \in Here /\ Open(queue[i])
    BY <2>1 DEF Queued, Open
  <2>3. ASSUME NEW i \in DOMAIN queue, NEW j \in DOMAIN queue, i < j
        PROVE  /\ queue[j] \in Unscored =>
                    queue[i] \in Unscored \/ \A row \in RowsOf(queue[i]) : row.score = 0
               /\ Bad(Found(queue[j])) => queue[i] \in Unscored \/ Bad(Found(queue[i]))
    <3>1. Worse(queue[i], queue[j], tie)
      BY <2>1, <2>3
    <3>2. queue[j] \in Unscored => RowsOf(queue[j]) = {}
      BY DEF Unscored
    <3>3. RowsOf(queue[i]) = {} => queue[i] \in Unscored
      BY <2>2 DEF Unscored
    <3> QED
      BY <3>1, <3>2, <3>3, ZeroLeads, BadLeads
  <2> QED
    BY <2>1, <2>3, Zenon DEF queue
<1> QED
  BY <1>1, <1>2, <1>3, Zenon DEF QueueHolds

-----------------------------------------------------------------------------
(* Runs compared. *)

\* A finite set of things measured has one with the most.
LEMMA FarthestIn ==
  ASSUME NEW S, IsFiniteSet(S), S # {}, NEW f, \A x \in S : f[x] \in Nat
  PROVE  \E x \in S : \A y \in S : f[y] <= f[x]
<1> DEFINE T == {n \in Nat : \A s \in SUBSET S : Cardinality(s) = n /\ s # {} =>
                   \E x \in s : \A y \in s : f[y] <= f[x]}
<1>0. \A s \in SUBSET S : IsFiniteSet(s) /\ Cardinality(s) \in Nat
  BY FS_Subset, FS_CardinalityType
<1>1. 0 \in T
  BY <1>0, FS_EmptySet
<1>2. \A n \in Nat : n \in T => n + 1 \in T
  <2> SUFFICES ASSUME NEW n \in Nat, n \in T, NEW s \in SUBSET S, Cardinality(s) = n + 1, s # {}
               PROVE  \E x \in s : \A y \in s : f[y] <= f[x]
    OBVIOUS
  <2>1. PICK c \in s : TRUE
    OBVIOUS
  <2>2. Cardinality(s \ {c}) = n
    <3>1. Cardinality(s \ {c}) = Cardinality(s) - 1
      BY <1>0, FS_RemoveElement
    <3> QED
      BY <3>1
  <2>3. CASE s \ {c} = {}
    BY <2>3
  <2>4. CASE s \ {c} # {}
    <3>1. PICK x \in s \ {c} : \A y \in s \ {c} : f[y] <= f[x]
      BY <2>2, <2>4
    <3>2. CASE f[c] <= f[x]
      BY <3>1, <3>2
    <3>3. CASE ~(f[c] <= f[x])
      <4>1. \A y \in s : f[y] <= f[c]
        BY <3>1, <3>3
      <4> QED
        BY <4>1
    <3> QED
      BY <3>2, <3>3
  <2> QED
    BY <2>3, <2>4
<1> HIDE DEF T
<1>3. Cardinality(S) \in T
  BY <1>0, <1>1, <1>2, NatInduct
<1> QED
  BY <1>0, <1>3 DEF T

LEMMA MostIs ==
  ASSUME NEW S \in SUBSET Nat, NEW n \in S, \A m \in S : m <= n
  PROVE  Most(S) = n
<1>1. Most(S) \in S /\ \A m \in S : m <= Most(S)
  BY DEF Most
<1>2. Most(S) \in Nat /\ n \in Nat /\ Most(S) <= n /\ n <= Most(S)
  BY <1>1
<1> QED
  BY <1>2

LEMMA LeastIs ==
  ASSUME NEW S \in SUBSET Nat, NEW n \in S, \A m \in S : n <= m
  PROVE  Least(S) = n
<1>1. Least(S) \in S /\ \A m \in S : Least(S) <= m
  BY DEF Least
<1>2. Least(S) \in Nat /\ n \in Nat /\ Least(S) <= n /\ n <= Least(S)
  BY <1>1
<1> QED
  BY <1>2

\* Of rows that are there one is the last, whichever way they are read.
LEMMA LastIsThere ==
  ASSUME NEW rows \in SUBSET ResultRows, IsFiniteSet(rows), rows # {}, NEW way
  PROVE  LastOf(rows, way) \in rows
<1> DEFINE far == [row \in rows |-> row.n]
<1>1. \A row \in rows : far[row] \in Nat /\ far[row] = row.n
  BY CompareAssumption
<1>2. \E x \in rows : \A y \in rows : y.n <= x.n
  <2> HIDE DEF far
  <2>1. PICK x \in rows : \A y \in rows : far[y] <= far[x]
    BY <1>1, FarthestIn
  <2> QED
    BY <1>1, <2>1
<1>3. \E x \in rows : \A y \in rows : x.n <= y.n
  <2> DEFINE S == {far[row] : row \in rows}
  <2>1. S \in SUBSET Nat /\ S # {}
    BY <1>1
  <2> HIDE DEF far
  <2>2. PICK n \in S : \A m \in S : n <= m
    <3> HIDE DEF S
    <3> QED
      BY <2>1, NatMin
  <2>3. PICK x \in rows : n = far[x]
    OBVIOUS
  <2>4. \A y \in rows : far[x] <= far[y]
    BY <2>2, <2>3
  <2> QED
    BY <1>1, <2>4
<1>4. \E x \in rows : \A other \in rows : IF way = "forth" THEN other.n =< x.n ELSE x.n =< other.n
  BY <1>2, <1>3
<1> QED
  BY <1>4, Zenon DEF LastOf

-----------------------------------------------------------------------------
(* Means. *)

LEMMA QuotientIsNat == \A a, b \in Nat : b # 0 => a \div b \in Nat
OBVIOUS

LEMMA MeanType ==
  ASSUME NEW value, IsFiniteSet(DOMAIN value), \A x \in DOMAIN value : value[x] \in Nat
  PROVE  MeanOf(value) \in Nat \cup {None} /\ (MeanOf(value) = None <=> DOMAIN value = {})
<1>1. CASE DOMAIN value = {}
  BY <1>1 DEF MeanOf
<1>2. CASE DOMAIN value # {}
  <2>1. SumFunctionOnSet(value, DOMAIN value) \in Nat
    BY SumType
  <2>2. Cardinality(DOMAIN value) \in Nat /\ Cardinality(DOMAIN value) # 0
    BY <1>2, FS_CardinalityType, FS_EmptySet
  <2>3. MeanOf(value) = SumFunctionOnSet(value, DOMAIN value) \div Cardinality(DOMAIN value)
    BY <1>2 DEF MeanOf, SumFunction
  <2>4. MeanOf(value) \in Nat
    BY <2>1, <2>2, <2>3, QuotientIsNat
  <2> QED
    BY <1>2, <2>4, CompareAssumption
<1> QED
  BY <1>1, <1>2

\* Two averages are one if each thing in the one stands for a thing in the other.
LEMMA MeanRenamed ==
  ASSUME NEW v, NEW w, IsFiniteSet(DOMAIN v), NEW h, {h[i] : i \in DOMAIN v} = DOMAIN w,
         \A i, j \in DOMAIN v : h[i] = h[j] => i = j,
         \A i \in DOMAIN v : v[i] = w[h[i]] /\ v[i] \in Int
  PROVE  MeanOf(v) = MeanOf(w) /\ Cardinality(DOMAIN v) = Cardinality(DOMAIN w)
<1> DEFINE S == DOMAIN v
           T == DOMAIN w
           u == [i \in S |-> w[h[i]]]
<1>0. /\ T = {h[i] : i \in S} /\ IsFiniteSet(S)
      /\ \A i, j \in S : h[i] = h[j] => i = j
  OBVIOUS
<1>1. SumFunctionOnSet(w, {h[i] : i \in S}) = SumFunctionOnSet(u, S)
  BY SumRenamed
<1>2. SumFunctionOnSet(u, S) = SumFunctionOnSet(v, S)
  <2>1. \A i \in S : u[i] = v[i]
    OBVIOUS
  <2> HIDE DEF u, S
  <2> QED
    BY <2>1, SumSame DEF S
<1>3. Cardinality(T) = Cardinality(S)
  <2> DEFINE r == [i \in S |-> h[i]]
  <2> HIDE DEF S, T
  <2>a. r \in [S -> T] /\ \A i \in S : r[i] = h[i]
    BY <1>0
  <2>b. \A t \in T : \E i \in S : r[i] = t
    BY <1>0, <2>a
  <2>c. \A i, j \in S : r[i] = r[j] => i = j
    BY <1>0, <2>a
  <2> HIDE DEF r
  <2>1. r \in Bijection(S, T)
    BY <2>a, <2>b, <2>c DEF Bijection, Injection, Surjection, IsInjective
  <2>2. ExistsBijection(S, T)
    BY <2>1, Zenon DEF ExistsBijection
  <2> QED
    BY <1>0, <2>2, FS_Bijection
<1>4. SumFunctionOnSet(w, T) = SumFunctionOnSet(v, S)
  BY <1>1, <1>2
<1>5. S = {} <=> T = {}
  <2> HIDE DEF S, T
  <2> QED
    BY <1>0
<1> HIDE DEF S, T
<1> QED
  BY <1>3, <1>4, <1>5, Zenon DEF MeanOf, SumFunction, S, T

-----------------------------------------------------------------------------
(* Scores of one trace. *)

ResultsKnown == IsFiniteSet(results) /\ results \subseteq ResultRows /\ runKind \in {"metrics", "agentic"}

\* The rows that say something on a metric, or a layer if the run is agentic.
AnswersOn(rows, m) ==
  IF runKind = "agentic" THEN {row \in Layered(rows) : row.layer = m}
    ELSE {row \in Measured(rows) : row.metric = m}

LEMMA RowsKnown ==
  ASSUME ResultsKnown, NEW rows \in SUBSET results
  PROVE  rows \in SUBSET ResultRows /\ IsFiniteSet(rows)
BY FS_Subset DEF ResultsKnown

LEMMA RowsForKnown ==
  ASSUME ResultsKnown, NEW t
  PROVE  RowsFor(t) \in SUBSET results /\ RowsFor(t) \in SUBSET ResultRows /\ IsFiniteSet(RowsFor(t))
<1>1. RowsFor(t) \in SUBSET results
  BY DEF RowsFor
<1> QED
  BY <1>1, RowsKnown

LEMMA InPartsIsNat == \A s \in Nat : InParts(s) \in Nat
BY DEF InParts, Scale

\* What rows say something on.
AnsweredOn(rows) ==
  IF runKind = "agentic" THEN {row.layer : row \in Layered(rows)} ELSE {row.metric : row \in Measured(rows)}

LEMMA AnsweredOnIs == \A rows, m : m \in AnsweredOn(rows) <=> AnswersOn(rows, m) # {}
BY DEF AnsweredOn, AnswersOn

LEMMA PerMetricIs ==
  ASSUME NEW rows, NEW way
  PROVE  PerMetric(rows, way) = [m \in AnsweredOn(rows) |-> InParts(LastOf(AnswersOn(rows, m), way).score)]
<1>1. CASE runKind = "agentic"
  <2>1. PerMetric(rows, way) = [l \in {row.layer : row \in Layered(rows)} |->
                                  InParts(LastOf({row \in Layered(rows) : row.layer = l}, way).score)]
    BY <1>1 DEF PerMetric
  <2> QED
    BY <1>1, <2>1 DEF AnsweredOn, AnswersOn
<1>2. CASE runKind # "agentic"
  <2>1. PerMetric(rows, way) = [m \in {row.metric : row \in Measured(rows)} |->
                                  InParts(LastOf({row \in Measured(rows) : row.metric = m}, way).score)]
    BY <1>2 DEF PerMetric
  <2> QED
    BY <1>2, <2>1 DEF AnsweredOn, AnswersOn
<1> QED
  BY <1>1, <1>2

LEMMA PerMetricType ==
  ASSUME NEW rows \in SUBSET ResultRows, IsFiniteSet(rows), NEW way
  PROVE  \A m \in DOMAIN PerMetric(rows, way) : m # None /\ PerMetric(rows, way)[m] \in Nat
<1> SUFFICES ASSUME NEW m \in DOMAIN PerMetric(rows, way)
             PROVE  m # None /\ PerMetric(rows, way)[m] \in Nat
  OBVIOUS
<1>1. AnswersOn(rows, m) # {} /\ PerMetric(rows, way)[m] = InParts(LastOf(AnswersOn(rows, m), way).score)
  BY PerMetricIs, AnsweredOnIs
<1>2. AnswersOn(rows, m) \in SUBSET rows /\ \A row \in AnswersOn(rows, m) : m \in {row.metric, row.layer}
  BY DEF AnswersOn, Layered, Measured
<1>3. AnswersOn(rows, m) \in SUBSET ResultRows /\ IsFiniteSet(AnswersOn(rows, m))
  BY <1>2, FS_Subset
<1>4. LastOf(AnswersOn(rows, m), way) \in AnswersOn(rows, m)
  BY <1>1, <1>3, LastIsThere
<1>5. LastOf(AnswersOn(rows, m), way) \in ResultRows
  BY <1>3, <1>4
<1>6. LastOf(AnswersOn(rows, m), way).score \in Nat
  BY <1>5, CompareAssumption
<1>7. m # None
  BY <1>2, <1>4, <1>5, CompareAssumption
<1> QED
  BY <1>1, <1>6, <1>7, InPartsIsNat

LEMMA MeanScoreType ==
  ASSUME NEW rows \in SUBSET ResultRows, IsFiniteSet(rows)
  PROVE  MeanScore(rows) \in Nat \cup {None} /\ (MeanScore(rows) = None <=> rows = {})
<1> DEFINE v == [row \in rows |-> InParts(row.score)]
<1>1. DOMAIN v = rows /\ \A x \in rows : v[x] \in Nat
  BY CompareAssumption, InPartsIsNat
<1> HIDE DEF v
<1>2. MeanOf(v) \in Nat \cup {None} /\ (MeanOf(v) = None <=> DOMAIN v = {})
  BY <1>1, MeanType
<1>3. MeanScore(rows) = MeanOf(v)
  BY DEF MeanScore, v
<1> QED
  BY <1>1, <1>2, <1>3

LEMMA OverallType ==
  ASSUME runKind \in {"metrics", "agentic"}, NEW rows \in SUBSET ResultRows, IsFiniteSet(rows), NEW way
  PROVE  OverallScore(rows, way) \in Nat \cup {None}
<1> DEFINE per == PerMetric(rows, way)
           seen == {per[l] : l \in DOMAIN per}
<1>1. CASE runKind = "metrics"
  <2>1. Measured(rows) \in SUBSET rows
    BY DEF Measured
  <2>2. Measured(rows) \in SUBSET ResultRows /\ IsFiniteSet(Measured(rows))
    BY <2>1, FS_Subset
  <2> QED
    BY <1>1, <2>2, MeanScoreType DEF OverallScore
<1>2. CASE runKind = "agentic" /\ Decided(rows) # {}
  <2>1. Decided(rows) \in SUBSET rows
    BY DEF Decided
  <2>2. Decided(rows) \in SUBSET ResultRows /\ IsFiniteSet(Decided(rows))
    BY <2>1, FS_Subset
  <2>3. LastOf(Decided(rows), way) \in ResultRows
    BY <1>2, <2>2, LastIsThere
  <2>4. OverallScore(rows, way) = InParts(LastOf(Decided(rows), way).runScore)
    BY <1>2 DEF OverallScore
  <2> QED
    BY <2>3, <2>4, CompareAssumption, InPartsIsNat
<1>3. CASE runKind = "agentic" /\ Decided(rows) = {} /\ DOMAIN per # {}
  <2>1. seen \in SUBSET Nat /\ seen # {}
    BY <1>3, PerMetricType
  <2>2. OverallScore(rows, way) = Least(seen)
    BY <1>3 DEF OverallScore
  <2> HIDE DEF seen
  <2>3. PICK n \in seen : \A m \in seen : n <= m
    BY <2>1, NatMin
  <2>4. Least(seen) = n
    BY <2>1, <2>3, LeastIs
  <2> QED
    BY <2>1, <2>2, <2>4
<1>4. CASE runKind = "agentic" /\ Decided(rows) = {} /\ DOMAIN per = {}
  BY <1>4 DEF OverallScore
<1> QED
  BY <1>1, <1>2, <1>3, <1>4

-----------------------------------------------------------------------------
(* A run beside other runs: of an example with trials, the last item counts. *)

\* What ScoredIn's recursion is after, and what it finds, item by item.
Overwrites(f, run, way) ==
  f = [k \in 0..Len(Members[run]) |->
         IF k = 0 THEN [e \in {} |-> None]
         ELSE LET item == NthItem(run, way, k) IN
              [e \in DOMAIN f[k - 1] \cup {item.example} |->
                 IF e = item.example THEN ScoresAt(item.trace, way) ELSE f[k - 1][e]]]

LEMMA ScoredInIs == \A run, way : ScoredIn(run, way) = (CHOOSE f : Overwrites(f, run, way))[Len(Members[run])]
BY DEF ScoredIn, Overwrites

NamedUpto(run, way, k) == {NthItem(run, way, i).example : i \in 1..k}
LastUpto(run, way, k, e) ==
  {i \in 1..k : NthItem(run, way, i).example = e /\ \A j \in 1..k : j > i => NthItem(run, way, j).example # e}
ScoredBy(run, way, k, e) == ScoresAt(NthItem(run, way, One(LastUpto(run, way, k, e))).trace, way)
ScoredUpto(run, way) ==
  [k \in 0..Len(Members[run]) |-> [e \in NamedUpto(run, way, k) |-> ScoredBy(run, way, k, e)]]

LEMMA ItemsListed ==
  ASSUME NEW run \in RunIds
  PROVE  Len(Members[run]) \in Nat /\ DOMAIN Members[run] = 1..Len(Members[run])
<1>1. Members[run] \in Seq(ToSet(Members[run]))
  BY CompareAssumption DEF RunIds
<1> QED
  BY <1>1, LenProperties

LEMMA OneOfOne == \A x : One({x}) = x
BY DEF One

LEMMA ScoredUptoFollows ==
  ASSUME NEW run, NEW way, Len(Members[run]) \in Nat
  PROVE  Overwrites(ScoredUpto(run, way), run, way)
<1> DEFINE n == Len(Members[run])
           It(k) == NthItem(run, way, k)
           g == ScoredUpto(run, way)
           Next0(k) == IF k = 0 THEN [e \in {} |-> None]
                       ELSE [e \in DOMAIN g[k - 1] \cup {It(k).example} |->
                               IF e = It(k).example THEN ScoresAt(It(k).trace, way) ELSE g[k - 1][e]]
<1>1. \A k \in 0..n : g[k] = [e \in NamedUpto(run, way, k) |-> ScoredBy(run, way, k, e)]
  BY DEF ScoredUpto
<1>2. \A k \in 0..n : g[k] = Next0(k)
  <2> TAKE k \in 0..n
  <2>1. CASE k = 0
    <3>1. NamedUpto(run, way, 0) = {}
      BY DEF NamedUpto
    <3>2. g[0] = [e \in {} |-> ScoredBy(run, way, 0, e)]
      BY <1>1, <2>1, <3>1
    <3>3. [e \in {} |-> ScoredBy(run, way, 0, e)] = [e \in {} |-> None]
      OBVIOUS
    <3> QED
      BY <2>1, <3>2, <3>3
  <2>2. CASE k # 0
    <3>0. k \in 1..n /\ k - 1 \in 0..n
      BY <2>2
    <3>1. NamedUpto(run, way, k) = NamedUpto(run, way, k - 1) \cup {It(k).example}
      <4>1. 1..k = (1..(k - 1)) \cup {k}
        BY <3>0
      <4> QED
        BY <4>1 DEF NamedUpto
    <3>2. DOMAIN g[k - 1] = NamedUpto(run, way, k - 1)
      BY <1>1, <3>0
    <3>3. ScoredBy(run, way, k, It(k).example) = ScoresAt(It(k).trace, way)
      <4>1. LastUpto(run, way, k, It(k).example) = {k}
        BY <3>0 DEF LastUpto
      <4> QED
        BY <4>1, OneOfOne DEF ScoredBy
    <3>4. \A e \in NamedUpto(run, way, k - 1) : e # It(k).example => ScoredBy(run, way, k, e) = g[k - 1][e]
      <4> SUFFICES ASSUME NEW e \in NamedUpto(run, way, k - 1), e # It(k).example
                   PROVE  ScoredBy(run, way, k, e) = g[k - 1][e]
        OBVIOUS
      <4>1. LastUpto(run, way, k, e) = LastUpto(run, way, k - 1, e)
        <5>1. \A i : i \in LastUpto(run, way, k, e) => i \in LastUpto(run, way, k - 1, e)
          BY <3>0 DEF LastUpto
        <5>2. \A i : i \in LastUpto(run, way, k - 1, e) => i \in LastUpto(run, way, k, e)
          BY <3>0 DEF LastUpto
        <5> QED
          BY <5>1, <5>2, Zenon
      <4>2. ScoredBy(run, way, k, e) = ScoredBy(run, way, k - 1, e)
        BY <4>1 DEF ScoredBy
      <4>3. g[k - 1][e] = ScoredBy(run, way, k - 1, e)
        BY <1>1, <3>0
      <4> QED
        BY <4>2, <4>3
    <3> HIDE DEF g, It
    <3>5. g[k] = [e \in NamedUpto(run, way, k) |-> ScoredBy(run, way, k, e)]
      BY <1>1
    <3>6. Next0(k) = [e \in NamedUpto(run, way, k) |->
                       IF e = It(k).example THEN ScoresAt(It(k).trace, way) ELSE g[k - 1][e]]
      BY <2>2, <3>1, <3>2
    <3>7. \A e \in NamedUpto(run, way, k) :
            ScoredBy(run, way, k, e) = IF e = It(k).example THEN ScoresAt(It(k).trace, way) ELSE g[k - 1][e]
      BY <3>1, <3>3, <3>4
    <3> HIDE DEF Next0
    <3> QED
      BY <3>5, <3>6, <3>7
  <2> QED
    BY <2>1, <2>2
<1>3. g = [k \in 0..n |-> g[k]]
  BY DEF ScoredUpto
<1> HIDE DEF g, Next0
<1>4. g = [k \in 0..n |-> Next0(k)]
  BY <1>2, <1>3
<1> QED
  BY <1>4 DEF Overwrites, Next0, g

LEMMA ScoredInUpto ==
  ASSUME NEW run, NEW way, Len(Members[run]) \in Nat
  PROVE  ScoredIn(run, way) = ScoredUpto(run, way)[Len(Members[run])]
<1> DEFINE n == Len(Members[run])
           f == CHOOSE x : Overwrites(x, run, way)
           g == ScoredUpto(run, way)
           item(k) == NthItem(run, way, k)
           step(h, k) == IF k = 0 THEN [e \in {} |-> None]
                         ELSE [e \in DOMAIN h[k - 1] \cup {item(k).example} |->
                                IF e = item(k).example THEN ScoresAt(item(k).trace, way) ELSE h[k - 1][e]]
           T == {k \in Nat : k <= n => f[k] = g[k]}
<1>1. Overwrites(g, run, way)
  BY ScoredUptoFollows
<1>2. Overwrites(f, run, way)
  BY <1>1, Zenon
<1> HIDE DEF f, g
<1>3. \A k \in 0..n : f[k] = step(f, k)
  BY <1>2 DEF Overwrites
<1>4. \A k \in 0..n : g[k] = step(g, k)
  BY <1>1 DEF Overwrites
<1>5. 0 \in T
  <2>1. f[0] = step(f, 0) /\ g[0] = step(g, 0)
    <3>1. 0 \in 0..n
      OBVIOUS
    <3> HIDE DEF step
    <3> QED
      BY <1>3, <1>4, <3>1
  <2>2. step(f, 0) = [e \in {} |-> None] /\ step(g, 0) = [e \in {} |-> None]
    OBVIOUS
  <2> HIDE DEF step
  <2> QED
    BY <2>1, <2>2
<1>6. \A k \in Nat : k \in T => k + 1 \in T
  <2> SUFFICES ASSUME NEW k \in Nat, k <= n => f[k] = g[k], k + 1 <= n
               PROVE  f[k + 1] = g[k + 1]
    OBVIOUS
  <2>1. f[k] = g[k] /\ k + 1 \in 0..n /\ (k + 1) - 1 = k
    OBVIOUS
  <2>2. step(f, k + 1) = step(g, k + 1)
    BY <2>1
  <2> HIDE DEF step
  <2> QED
    BY <1>3, <1>4, <2>1, <2>2
<1> HIDE DEF T
<1>7. n \in T
  BY <1>5, <1>6, NatInduct
<1>8. f[n] = g[n]
  BY <1>7 DEF T
<1> QED
  BY <1>8, ScoredInIs DEF f, g

\* Of the trials of an example the one read last has the highest number, or the lowest.
LEMMA LastTrial ==
  ASSUME NEW run \in RunIds, NEW way \in Ways, NEW e \in ExamplesIn(run)
  PROVE  /\ \E i \in TrialsAt(run, e) : ItemFor(run, way, e) = Members[run][i]
         /\ ItemFor(run, way, e) = NthItem(run, way, One(LastUpto(run, way, Len(Members[run]), e)))
<1> DEFINE n == Len(Members[run])
           A == TrialsAt(run, e)
           Back(k) == IF way = "forth" THEN k ELSE n + 1 - k
           L == LastUpto(run, way, n, e)
<1>1. n \in Nat /\ DOMAIN Members[run] = 1..n
  BY ItemsListed
<1>2. A \in SUBSET (1..n) /\ A # {} /\ \A i \in 1..n : i \in A <=> Members[run][i].example = e
  BY <1>1 DEF TrialsAt, ExamplesIn, ItemsIn, ToSet
<1>3. A \in SUBSET Nat /\ IsFiniteSet(A)
  <2>0. 1 \in Int /\ n \in Int
    BY <1>1
  <2>1. IsFiniteSet(1..n)
    BY <2>0, FS_Interval
  <2> QED
    BY <1>2, <2>1, FS_Subset
<1> HIDE DEF A
<1>4. PICK lo \in A : \A i \in A : lo <= i
  BY <1>2, <1>3, NatMin
<1>5. PICK hi \in A : \A i \in A : i <= hi
  <2> DEFINE id == [i \in A |-> i]
  <2>1. \A i \in A : id[i] = i /\ id[i] \in Nat
    BY <1>3
  <2> HIDE DEF id
  <2>2. \E x \in A : \A y \in A : id[y] <= id[x]
    BY <1>2, <1>3, <2>1, FarthestIn
  <2> QED
    BY <2>1, <2>2
<1>6. Least(A) = lo /\ Most(A) = hi
  BY <1>3, <1>4, <1>5, LeastIs, MostIs
<1> DEFINE last == IF way = "forth" THEN hi ELSE lo
<1>7. ItemFor(run, way, e) = Members[run][last]
  BY <1>6 DEF ItemFor, A
<1>8. last \in A /\ last \in 1..n
  BY <1>2
<1>9. \A k \in 1..n : NthItem(run, way, k) = Members[run][Back(k)] /\ Back(k) \in 1..n /\ Back(Back(k)) = k
  BY <1>1 DEF NthItem
<1>10. L = {Back(last)}
  <2>1. Back(last) \in L
    <3>1. Back(last) \in 1..n /\ NthItem(run, way, Back(last)).example = e
      <4>1. Back(last) \in 1..n /\ Back(Back(last)) = last
        BY <1>8, <1>9
      <4> HIDE DEF Back, last
      <4>2. NthItem(run, way, Back(last)) = Members[run][last]
        BY <1>9, <4>1
      <4> QED
        BY <1>2, <1>8, <4>1, <4>2
    <3>2. \A j \in 1..n : j > Back(last) => NthItem(run, way, j).example # e
      <4> SUFFICES ASSUME NEW j \in 1..n, j > Back(last), NthItem(run, way, j).example = e
                   PROVE  FALSE
        OBVIOUS
      <4>1. Back(j) \in A
        BY <1>2, <1>9
      <4>2. CASE way = "forth"
        BY <1>1, <1>3, <1>5, <4>1, <4>2
      <4>3. CASE way # "forth"
        BY <1>1, <1>3, <1>4, <4>1, <4>3
      <4> QED
        BY <4>2, <4>3
    <3> QED
      BY <3>1, <3>2 DEF LastUpto
  <2>2. \A j \in L : j = Back(last)
    <3> SUFFICES ASSUME NEW j \in L PROVE j = Back(last)
      OBVIOUS
    <3>1. j \in 1..n /\ NthItem(run, way, j).example = e /\ ~(Back(last) > j)
      BY <2>1 DEF LastUpto
    <3>2. ~(j > Back(last))
      BY <2>1, <3>1 DEF LastUpto
    <3> QED
      BY <1>1, <1>8, <1>9, <3>1, <3>2
  <2> HIDE DEF L, Back
  <2> QED
    BY <2>1, <2>2
<1>11. NthItem(run, way, Back(last)) = Members[run][last]
  BY <1>8, <1>9
<1>12. One(L) = Back(last)
  BY <1>10, OneOfOne
<1> HIDE DEF L, Back, last
<1>13. ItemFor(run, way, e) = NthItem(run, way, One(L))
  BY <1>7, <1>11, <1>12
<1> QED
  BY <1>7, <1>8, <1>13 DEF L, A

LEMMA ScoredInAt ==
  ASSUME NEW run \in RunIds, NEW way \in Ways
  PROVE  ScoredIn(run, way) = [e \in ExamplesIn(run) |-> ScoresAt(ItemFor(run, way, e).trace, way)]
<1> DEFINE n == Len(Members[run])
<1>1. n \in Nat /\ DOMAIN Members[run] = 1..n
  BY ItemsListed
<1>2. NamedUpto(run, way, n) = ExamplesIn(run)
  <2> DEFINE Back(k) == IF way = "forth" THEN k ELSE n + 1 - k
  <2>1. \A k \in 1..n : NthItem(run, way, k) = Members[run][Back(k)] /\ Back(k) \in 1..n /\ Back(Back(k)) = k
    BY <1>1 DEF NthItem
  <2>2. ExamplesIn(run) = {Members[run][i].example : i \in 1..n}
    BY <1>1 DEF ExamplesIn, ItemsIn, ToSet
  <2> HIDE DEF Back
  <2>3. \A e : e \in NamedUpto(run, way, n) => e \in ExamplesIn(run)
    BY <2>1, <2>2 DEF NamedUpto
  <2>4. \A e : e \in ExamplesIn(run) => e \in NamedUpto(run, way, n)
    <3> SUFFICES ASSUME NEW i \in 1..n PROVE Members[run][i].example \in NamedUpto(run, way, n)
      BY <2>2
    <3>1. NthItem(run, way, Back(i)) = Members[run][i] /\ Back(i) \in 1..n
      BY <2>1
    <3> QED
      BY <3>1 DEF NamedUpto
  <2> QED
    BY <2>3, <2>4, Zenon
<1>3. ScoredIn(run, way) = [e \in NamedUpto(run, way, n) |-> ScoredBy(run, way, n, e)]
  <2>1. ScoredIn(run, way) = ScoredUpto(run, way)[n]
    BY <1>1, ScoredInUpto
  <2>2. n \in 0..n
    BY <1>1
  <2> QED
    BY <2>1, <2>2 DEF ScoredUpto
<1>4. \A e \in ExamplesIn(run) : ScoredBy(run, way, n, e) = ScoresAt(ItemFor(run, way, e).trace, way)
  BY LastTrial DEF ScoredBy
<1> QED
  BY <1>2, <1>3, <1>4

LEMMA ComparedType ==
  ASSUME ResultsKnown, NEW run, NEW way, NEW e
  PROVE  /\ OverallScore(ComparedRows(run, way, e), way) \in Nat \cup {None}
         /\ \A m \in DOMAIN ComparedOn(run, way, e) : m # None /\ ComparedOn(run, way, e)[m] \in Nat
<1>1. ComparedRows(run, way, e) \in SUBSET ResultRows /\ IsFiniteSet(ComparedRows(run, way, e))
  BY RowsForKnown DEF ComparedRows
<1>2. runKind \in {"metrics", "agentic"}
  BY DEF ResultsKnown
<1>3. OverallScore(ComparedRows(run, way, e), way) \in Nat \cup {None}
  BY <1>1, <1>2, OverallType
<1>4. \A m \in DOMAIN ComparedOn(run, way, e) : m # None /\ ComparedOn(run, way, e)[m] \in Nat
  BY <1>1, PerMetricType DEF ComparedOn
<1> QED
  BY <1>3, <1>4

LEMMA ScoreOnIs ==
  ASSUME NEW run \in RunIds, NEW way \in Ways, NEW e \in ExamplesIn(run), NEW drill
  PROVE  ScoreOn(run, way, e, drill) =
           IF drill = None THEN OverallScore(ComparedRows(run, way, e), way)
           ELSE IF drill \in DOMAIN ComparedOn(run, way, e) THEN ComparedOn(run, way, e)[drill]
           ELSE None
<1> DEFINE s == ScoredIn(run, way)
<1>1. s = [x \in ExamplesIn(run) |-> ScoresAt(ItemFor(run, way, x).trace, way)]
  BY ScoredInAt
<1>2. e \in DOMAIN s /\ s[e] = ScoresAt(ItemFor(run, way, e).trace, way)
  BY <1>1
<1>3. /\ s[e].overall = OverallScore(ComparedRows(run, way, e), way)
      /\ s[e].per = ComparedOn(run, way, e)
  BY <1>2 DEF ScoresAt, ComparedRows, ComparedOn
<1> HIDE DEF s
<1>4. ScoreOn(run, way, e, drill) =
        IF e \notin DOMAIN s THEN None
        ELSE IF drill = None THEN s[e].overall
        ELSE IF drill \in DOMAIN s[e].per THEN s[e].per[drill]
        ELSE None
  BY DEF ScoreOn, s
<1> QED
  BY <1>2, <1>3, <1>4

\* Two runs are apart by the difference of their scores, if both have one.
LEMMA SpreadOfTwo ==
  ASSUME NEW run, NEW base, run # base, NEW read, NEW e, NEW drill, NEW a, NEW b,
         a = ScoreOn(run, read[run], e, drill), b = ScoreOn(base, read[base], e, drill),
         a \in Nat \cup {None}, b \in Nat \cup {None}
  PROVE  SpreadOf({run, base}, read, e, drill) =
           IF a = None \/ b = None THEN None ELSE IF a < b THEN b - a ELSE a - b
<1> DEFINE scores == {ScoreOn(r, read[r], e, drill) : r \in {run, base}} \ {None}
           present == {r \in {run, base} : ScoreOn(r, read[r], e, drill) # None}
<1>0. SpreadOf({run, base}, read, e, drill) =
        IF Cardinality(present) < 2 THEN None ELSE Most(scores) - Least(scores)
  BY DEF SpreadOf
<1>1. scores = {a, b} \ {None}
  OBVIOUS
<1>2. CASE a = None \/ b = None
  <2>1. PICK r \in {run, base} : present \subseteq {r}
    BY <1>2
  <2>2. IsFiniteSet({r}) /\ Cardinality({r}) = 1
    BY FS_Singleton
  <2> HIDE DEF present
  <2>3. Cardinality(present) <= 1 /\ IsFiniteSet(present)
    BY <2>1, <2>2, FS_Subset
  <2>4. Cardinality(present) \in Nat
    BY <2>3, FS_CardinalityType
  <2>5. Cardinality(present) < 2
    BY <2>3, <2>4
  <2> QED
    BY <1>0, <1>2, <2>5
<1>3. CASE a # None /\ b # None
  <2>1. present = {run} \cup {base}
    BY <1>3
  <2>2. IsFiniteSet({run}) /\ Cardinality({run}) = 1
    BY FS_Singleton
  <2>3. Cardinality({run} \cup {base}) = 2
    <3>1. Cardinality({run} \cup {base}) = Cardinality({run}) + 1
      BY <2>2, FS_AddElement
    <3> QED
      BY <2>2, <3>1
  <2>4. a \in Nat /\ b \in Nat /\ scores = {a, b}
    BY <1>1, <1>3
  <2> HIDE DEF present, scores
  <2>5. SpreadOf({run, base}, read, e, drill) = Most(scores) - Least(scores)
    BY <1>0, <2>1, <2>3
  <2>6. scores \in SUBSET Nat /\ a \in scores /\ b \in scores
    BY <2>4
  <2>7. CASE a < b
    <3>1. Most(scores) = b
      <4>1. \A m \in scores : m <= b
        BY <2>4, <2>7
      <4> QED
        BY <2>6, <4>1, MostIs
    <3>2. Least(scores) = a
      <4>1. \A m \in scores : a <= m
        BY <2>4, <2>7
      <4> QED
        BY <2>6, <4>1, LeastIs
    <3> QED
      BY <1>3, <2>5, <2>7, <3>1, <3>2
  <2>8. CASE ~(a < b)
    <3>1. Most(scores) = a
      <4>1. \A m \in scores : m <= a
        BY <2>4, <2>8
      <4> QED
        BY <2>6, <4>1, MostIs
    <3>2. Least(scores) = b
      <4>1. \A m \in scores : b <= m
        BY <2>4, <2>8
      <4> QED
        BY <2>6, <4>1, LeastIs
    <3> QED
      BY <1>3, <2>5, <2>8, <3>1, <3>2
  <2> QED
    BY <2>7, <2>8
<1> QED
  BY <1>2, <1>3

\* How an example that two runs have has moved, by its scores.
LEMMA MovementIs ==
  ASSUME NEW run, NEW base, NEW read, NEW e, NEW a, NEW b,
         a = OverallScore(ComparedRows(run, read[run], e), read[run]),
         b = OverallScore(ComparedRows(base, read[base], e), read[base])
  PROVE  Movement(run, base, read, e) =
           IF e \notin ExamplesIn(base) THEN "added"
           ELSE IF a = None \/ b = None THEN "pending"
           ELSE IF a + InParts(Noise) < b THEN "regressed"
           ELSE IF b + InParts(Noise) < a THEN "improved"
           ELSE "unchanged"
BY Zenon DEF Movement

LEMMA TwoMirror == ResultsKnown => ComparisonsMirror
<1> SUFFICES ASSUME ResultsKnown, NEW run \in RunIds, NEW base \in RunIds, NEW read \in [{run, base} -> Ways],
                    run # base
             PROVE  /\ \A e \in ExamplesIn(run) \cap ExamplesIn(base) :
                         Movements(run, base, read)[e] = Opposite[Movements(base, run, read)[e]]
                    /\ {e \in ExamplesIn(run) : Movements(run, base, read)[e] = "added"} = Missing(base, run)
                    /\ \A m \in MetricNames({run, base}, read) :
                         PairsOn(run, base, read, m) = PairsOn(base, run, read, m)
  BY DEF ComparisonsMirror
<1> DEFINE score(r, e) == OverallScore(ComparedRows(r, read[r], e), read[r])
<1>0. \A r, e : score(r, e) \in Nat \cup {None}
  BY ComparedType
<1>n. InParts(Noise) \in Nat /\ None \notin Nat
  BY CompareAssumption, InPartsIsNat
<1>1. \A r, s, e : Movement(r, s, read, e) =
           IF e \notin ExamplesIn(s) THEN "added"
           ELSE IF score(r, e) = None \/ score(s, e) = None THEN "pending"
           ELSE IF score(r, e) + InParts(Noise) < score(s, e) THEN "regressed"
           ELSE IF score(s, e) + InParts(Noise) < score(r, e) THEN "improved"
           ELSE "unchanged"
  BY MovementIs
<1> HIDE DEF score
<1>2. ASSUME NEW e \in ExamplesIn(run) \cap ExamplesIn(base)
      PROVE  Movements(run, base, read)[e] = Opposite[Movements(base, run, read)[e]]
  <2>1. /\ Movements(run, base, read)[e] = Movement(run, base, read, e)
        /\ Movements(base, run, read)[e] = Movement(base, run, read, e)
    BY DEF Movements
  <2>2. score(run, e) \in Nat \cup {None} /\ score(base, e) \in Nat \cup {None}
    BY <1>0
  <2>3. Movement(run, base, read, e) = Opposite[Movement(base, run, read, e)]
    <3>1. CASE score(run, e) = None \/ score(base, e) = None
      <4>1. Movement(run, base, read, e) = "pending" /\ Movement(base, run, read, e) = "pending"
        BY <1>1, <3>1
      <4> QED
        BY <4>1 DEF Opposite
    <3>2. CASE ~(score(run, e) = None \/ score(base, e) = None) /\ score(run, e) + InParts(Noise) < score(base, e)
      <4>1. ~(score(base, e) + InParts(Noise) < score(run, e))
        BY <1>n, <2>2, <3>2
      <4>2. Movement(run, base, read, e) = "regressed" /\ Movement(base, run, read, e) = "improved"
        BY <1>1, <3>2, <4>1, Zenon
      <4> QED
        BY <4>2 DEF Opposite
    <3>3. CASE ~(score(run, e) = None \/ score(base, e) = None) /\ score(base, e) + InParts(Noise) < score(run, e)
      <4>1. ~(score(run, e) + InParts(Noise) < score(base, e))
        BY <1>n, <2>2, <3>3
      <4>2. Movement(run, base, read, e) = "improved" /\ Movement(base, run, read, e) = "regressed"
        BY <1>1, <3>3, <4>1, Zenon
      <4> QED
        BY <4>2 DEF Opposite
    <3>4. CASE /\ ~(score(run, e) = None \/ score(base, e) = None)
               /\ ~(score(run, e) + InParts(Noise) < score(base, e))
               /\ ~(score(base, e) + InParts(Noise) < score(run, e))
      <4>1. Movement(run, base, read, e) = "unchanged" /\ Movement(base, run, read, e) = "unchanged"
        BY <1>1, <3>4, Zenon
      <4> QED
        BY <4>1 DEF Opposite
    <3> QED
      BY <3>1, <3>2, <3>3, <3>4, Zenon
  <2> QED
    BY <2>1, <2>3
<1>3. {e \in ExamplesIn(run) : Movements(run, base, read)[e] = "added"} = Missing(base, run)
  <2>1. \A e \in ExamplesIn(run) : Movements(run, base, read)[e] = Movement(run, base, read, e)
    BY DEF Movements
  <2>2. \A e \in ExamplesIn(run) : Movement(run, base, read, e) = "added" <=> e \notin ExamplesIn(base)
    BY <1>1
  <2> QED
    BY <2>1, <2>2 DEF Missing
<1>4. \A m : PairsOn(run, base, read, m) = PairsOn(base, run, read, m)
  BY DEF PairsOn
<1> QED
  BY <1>2, <1>3, <1>4

\* A metric of two runs is one that some example of either has.
LEMMA NamesKnown ==
  ASSUME ResultsKnown, NEW runs \in SUBSET RunIds, NEW read \in [runs -> Ways]
  PROVE  \A m \in MetricNames(runs, read) : m # None
<1> SUFFICES ASSUME NEW m \in MetricNames(runs, read) PROVE m # None
  OBVIOUS
<1> DEFINE of(r) == LET scored == ScoredIn(r, read[r]) IN UNION {DOMAIN scored[e].per : e \in DOMAIN scored}
<1>1. PICK r \in runs : m \in of(r)
  BY DEF MetricNames
<1>2. ScoredIn(r, read[r]) = [e \in ExamplesIn(r) |-> ScoresAt(ItemFor(r, read[r], e).trace, read[r])]
  BY ScoredInAt
<1>3. PICK e \in ExamplesIn(r) : m \in DOMAIN ScoredIn(r, read[r])[e].per
  BY <1>1, <1>2
<1>4. ScoredIn(r, read[r])[e].per = ComparedOn(r, read[r], e)
  BY <1>2 DEF ScoresAt, ComparedOn, ComparedRows
<1> QED
  BY <1>3, <1>4, ComparedType

LEMMA ManyAgree == ResultsKnown => ManyAgreeWithTwo
<1> SUFFICES ASSUME ResultsKnown, NEW run \in RunIds, NEW base \in RunIds, NEW read \in [{run, base} -> Ways],
                    run # base
             PROVE  LET moved == Movements(run, base, read)
                        names == MetricNames({run, base}, read)
                        pairs == [m \in names |-> PairsOn(run, base, read, m)]
                    IN /\ \A e \in ExamplesIn(run) \cap ExamplesIn(base) :
                            LET apart == SpreadOf({run, base}, read, e, None) IN
                            /\ (apart = None) <=> (moved[e] = "pending")
                            /\ apart # None => ((apart =< InParts(Noise)) <=> (moved[e] = "unchanged"))
                            /\ \A m \in names : (SpreadOf({run, base}, read, e, m) # None) <=> (e \in pairs[m])
                       /\ \A m \in names :
                            pairs[m] = Bearing(run, read[run], m)
                              => PairAvg(run, base, read, m) = Matrix(run, read[run], m)
  BY Zenon DEF ManyAgreeWithTwo
<1> DEFINE moved == Movements(run, base, read)
           names == MetricNames({run, base}, read)
           pairs == [m \in names |-> PairsOn(run, base, read, m)]
<1>n. InParts(Noise) \in Nat /\ None \notin Nat
  BY CompareAssumption, InPartsIsNat
<1>r. read[run] \in Ways /\ read[base] \in Ways
  OBVIOUS
<1>1. ASSUME NEW e \in ExamplesIn(run) \cap ExamplesIn(base)
      PROVE  /\ (SpreadOf({run, base}, read, e, None) = None) <=> (moved[e] = "pending")
             /\ SpreadOf({run, base}, read, e, None) # None =>
                  ((SpreadOf({run, base}, read, e, None) =< InParts(Noise)) <=> (moved[e] = "unchanged"))
             /\ \A m \in names : (SpreadOf({run, base}, read, e, m) # None) <=> (e \in pairs[m])
  <2> DEFINE apart == SpreadOf({run, base}, read, e, None)
             a == OverallScore(ComparedRows(run, read[run], e), read[run])
             b == OverallScore(ComparedRows(base, read[base], e), read[base])
  <2>1. a \in Nat \cup {None} /\ b \in Nat \cup {None}
    BY ComparedType
  <2>2. a = ScoreOn(run, read[run], e, None) /\ b = ScoreOn(base, read[base], e, None)
    BY <1>r, ScoreOnIs
  <2>3. moved[e] = IF a = None \/ b = None THEN "pending"
                   ELSE IF a + InParts(Noise) < b THEN "regressed"
                   ELSE IF b + InParts(Noise) < a THEN "improved"
                   ELSE "unchanged"
    <3>1. moved[e] = Movement(run, base, read, e)
      BY DEF Movements
    <3> HIDE DEF moved
    <3> QED
      BY <3>1, MovementIs
  <2> HIDE DEF a, b, moved
  <2>4. apart = IF a = None \/ b = None THEN None ELSE IF a < b THEN b - a ELSE a - b
    BY <2>1, <2>2, SpreadOfTwo
  <2> HIDE DEF apart
  <2>5. /\ (apart = None) <=> (moved[e] = "pending")
        /\ apart # None => ((apart =< InParts(Noise)) <=> (moved[e] = "unchanged"))
    <3>1. CASE a = None \/ b = None
      BY <2>3, <2>4, <3>1
    <3>2. CASE a # None /\ b # None
      <4>1. a \in Nat /\ b \in Nat /\ apart \in Nat
        BY <2>1, <2>4, <3>2
      <4>2. apart # None
        BY <1>n, <4>1
      <4>3. moved[e] # "pending"
        BY <2>3, <3>2
      <4>4. (apart =< InParts(Noise)) <=> (moved[e] = "unchanged")
        BY <1>n, <2>3, <2>4, <3>2, <4>1
      <4> QED
        BY <4>2, <4>3, <4>4
    <3> QED
      BY <3>1, <3>2
  <2>7. ASSUME NEW m \in names PROVE (SpreadOf({run, base}, read, e, m) # None) <=> (e \in pairs[m])
    <3>1. m # None
      <4>1. {run, base} \in SUBSET RunIds
        OBVIOUS
      <4> QED
        BY <4>1, NamesKnown
    <3> DEFINE on(r) == IF m \in DOMAIN ComparedOn(r, read[r], e) THEN ComparedOn(r, read[r], e)[m] ELSE None
    <3>2. on(run) = ScoreOn(run, read[run], e, m) /\ on(base) = ScoreOn(base, read[base], e, m)
      BY <1>r, <3>1, ScoreOnIs
    <3>3. \A r : on(r) \in Nat \cup {None} /\ (on(r) # None <=> m \in DOMAIN ComparedOn(r, read[r], e))
      BY <1>n, ComparedType
    <3>4. e \in pairs[m] <=> m \in DOMAIN ComparedOn(run, read[run], e) /\ m \in DOMAIN ComparedOn(base, read[base], e)
      BY DEF PairsOn
    <3> DEFINE x == on(run)
               y == on(base)
    <3>5. x \in Nat \cup {None} /\ y \in Nat \cup {None}
      BY <3>3
    <3>6. (x # None /\ y # None) <=> e \in pairs[m]
      BY <3>3, <3>4
    <3>7. x = ScoreOn(run, read[run], e, m) /\ y = ScoreOn(base, read[base], e, m)
      BY <3>2
    <3> HIDE DEF x, y, pairs
    <3>8. SpreadOf({run, base}, read, e, m) = IF x = None \/ y = None THEN None ELSE IF x < y THEN y - x ELSE x - y
      BY <3>5, <3>7, SpreadOfTwo
    <3>9. SpreadOf({run, base}, read, e, m) # None <=> (x # None /\ y # None)
      BY <1>n, <3>5, <3>8
    <3> QED
      BY <3>6, <3>9
  <2> QED
    BY <2>5, <2>7, Zenon DEF apart
<1>2. ASSUME NEW m \in names, pairs[m] = Bearing(run, read[run], m)
      PROVE  PairAvg(run, base, read, m) = Matrix(run, read[run], m)
  <2> DEFINE scored == ScoredIn(run, read[run])
             P == PairsOn(run, base, read, m)
  <2>1. scored = [x \in ExamplesIn(run) |-> ScoresAt(ItemFor(run, read[run], x).trace, read[run])]
    BY <1>r, ScoredInAt
  <2>2. \A e \in ExamplesIn(run) : scored[e].per = ComparedOn(run, read[run], e)
    BY <2>1 DEF ScoresAt, ComparedOn, ComparedRows
  <2>3. P \subseteq ExamplesIn(run) /\ Bearing(run, read[run], m) = P
    BY <1>2 DEF PairsOn
  <2> HIDE DEF scored, P
  <2>4. Matrix(run, read[run], m) = MeanOf([e \in P |-> scored[e].per[m]])
    BY <2>3, Zenon DEF Matrix, scored
  <2>5. PairAvg(run, base, read, m) = MeanOf([e \in P |-> ComparedOn(run, read[run], e)[m]])
    BY Zenon DEF PairAvg, P
  <2>6. [e \in P |-> scored[e].per[m]] = [e \in P |-> ComparedOn(run, read[run], e)[m]]
    BY <2>2, <2>3
  <2> QED
    BY <2>4, <2>5, <2>6, Zenon
<1> QED
  BY <1>1, <1>2, Zenon

\* A list with as many names as entries has no name twice.
LEMMA NoneTwice ==
  ASSUME NEW n \in Nat, NEW f, NEW S, S = {f[i] : i \in 1..n}, Cardinality(S) = n
  PROVE  IsFiniteSet(S) /\ \A i, j \in 1..n : f[i] = f[j] => i = j
<1> DEFINE g == [i \in 1..n |-> f[i]]
<1>1. IsFiniteSet(1..n) /\ Cardinality(1..n) = n
  <2>1. 1 \in Int /\ n \in Int
    OBVIOUS
  <2>2. IsFiniteSet(1..n) /\ Cardinality(1..n) = IF 1 > n THEN 0 ELSE n - 1 + 1
    BY <2>1, FS_Interval
  <2> QED
    BY <2>2
<1>2. /\ g \in [1..n -> S] /\ \A x \in S : \E i \in 1..n : g[i] = x
      /\ \A i \in 1..n : g[i] = f[i]
  OBVIOUS
<1> HIDE DEF g
<1>3. g \in Surjection(1..n, S)
  BY <1>2 DEF Surjection
<1>4. IsFiniteSet(S) /\ g \in Injection(1..n, S)
  <2>1. Cardinality(S) = Cardinality(1..n) /\ IsFiniteSet(1..n)
    BY <1>1
  <2>2. IsFiniteSet(S)
    BY <1>3, <2>1, FS_Surjection
  <2>3. g \in Injection(1..n, S)
    BY <1>3, <2>1, FS_SurjSameCardinalityImpliesInj
  <2> QED
    BY <2>2, <2>3
<1>5. DOMAIN g = 1..n /\ \A i, j \in DOMAIN g : g[i] = g[j] => i = j
  BY <1>2, <1>4 DEF Injection, IsInjective
<1>6. \A i, j \in 1..n : g[i] = g[j] => i = j
  BY <1>5, Zenon
<1>7. \A i, j \in 1..n : f[i] = f[j] => i = j
  BY <1>2, <1>6, Zenon
<1> QED
  BY <1>4, <1>7

LEMMA NamesListed ==
  ASSUME NEW run \in RunIds
  PROVE  /\ DOMAIN Members[run] = 1..Len(Members[run]) /\ Len(Members[run]) \in Nat
         /\ ExamplesIn(run) = {Members[run][i].example : i \in 1..Len(Members[run])}
         /\ TracesIn(run) = {Members[run][i].trace : i \in 1..Len(Members[run])}
BY ItemsListed DEF ExamplesIn, TracesIn, ItemsIn, ToSet

LEMMA NamedOnce ==
  ASSUME NEW run \in RunIds, Once(run)
  PROVE  \A i, j \in DOMAIN Members[run] : Members[run][i].example = Members[run][j].example => i = j
<1> DEFINE n == Len(Members[run])
           f == [i \in 1..n |-> Members[run][i].example]
<1>1. n \in Nat /\ DOMAIN Members[run] = 1..n /\ ExamplesIn(run) = {f[i] : i \in 1..n}
  BY NamesListed
<1>2. \A i \in 1..n : f[i] = Members[run][i].example
  OBVIOUS
<1>3. Cardinality(ExamplesIn(run)) = n
  BY DEF Once
<1> HIDE DEF f, n
<1>4. \A i, j \in 1..n : f[i] = f[j] => i = j
  BY <1>1, <1>3, NoneTwice
<1> QED
  BY <1>1, <1>2, <1>4

LEMMA TracedOnce ==
  ASSUME NEW run \in RunIds, Apart(run)
  PROVE  \A i, j \in DOMAIN Members[run] : Members[run][i].trace = Members[run][j].trace => i = j
<1> DEFINE n == Len(Members[run])
           f == [i \in 1..n |-> Members[run][i].trace]
<1>1. n \in Nat /\ DOMAIN Members[run] = 1..n /\ TracesIn(run) = {f[i] : i \in 1..n}
  BY NamesListed
<1>2. \A i \in 1..n : f[i] = Members[run][i].trace
  OBVIOUS
<1>3. Cardinality(TracesIn(run)) = n
  BY DEF Apart
<1> HIDE DEF f, n
<1>4. \A i, j \in 1..n : f[i] = f[j] => i = j
  BY <1>1, <1>3, NoneTwice
<1> QED
  BY <1>1, <1>2, <1>4

\* Items with an example each are each the last, whichever way they are read.
LEMMA OnceAlone ==
  ASSUME NEW run \in RunIds, Once(run), NEW way \in Ways
  PROVE  \A i \in DOMAIN Members[run] : ItemFor(run, way, Members[run][i].example) = Members[run][i]
<1> TAKE i \in DOMAIN Members[run]
<1>1. Members[run][i].example \in ExamplesIn(run)
  BY NamesListed
<1>2. PICK j \in TrialsAt(run, Members[run][i].example) : ItemFor(run, way, Members[run][i].example) = Members[run][j]
  BY <1>1, LastTrial
<1>3. j \in DOMAIN Members[run] /\ Members[run][j].example = Members[run][i].example
  BY DEF TrialsAt
<1>4. j = i
  BY <1>3, NamedOnce
<1> QED
  BY <1>2, <1>4

\* Each trace of a run that nobody answers twice has one answer at most on anything.
LEMMA OneAnswer ==
  ASSUME ResultsKnown, NEW run, AnsweredOnce(run), NEW t \in TracesIn(run)
  PROVE  /\ \A m : \A r1, r2 \in AnswersOn(RowsFor(t), m) : r1 = r2
         /\ \A r1, r2 \in Decided(RowsFor(t)) : r1 = r2
<1>1. /\ RowsFor(t) \in SUBSET SummaryRows(run) /\ RowsFor(t) \in SUBSET results
      /\ \A r \in RowsFor(t) : r.trace = t
  BY DEF SummaryRows, RowsFor
<1>2. \A r1, r2 \in RowsFor(t) :
        \/ r1 \in Measured(results) /\ r2 \in Measured(results) /\ r1.metric = r2.metric
        \/ r1 \in Layered(results) /\ r1.layer = r2.layer
        => r1 = r2
  BY <1>1 DEF AnsweredOnce
<1>3. \A m : \A r1, r2 \in AnswersOn(RowsFor(t), m) : r1 = r2
  <2> TAKE m
  <2> TAKE r1, r2 \in AnswersOn(RowsFor(t), m)
  <2>1. CASE runKind = "agentic"
    BY <1>1, <1>2, <2>1 DEF AnswersOn, Layered
  <2>2. CASE runKind # "agentic"
    BY <1>1, <1>2, <2>2 DEF AnswersOn, Measured
  <2> QED
    BY <2>1, <2>2
<1>4. \A r1, r2 \in Decided(RowsFor(t)) : r1 = r2
  BY <1>1, <1>2 DEF Decided, Layered
<1> QED
  BY <1>3, <1>4

\* The one row there is is the last.
LEMMA LastAlone ==
  ASSUME NEW rows \in SUBSET ResultRows, IsFiniteSet(rows), \A r1, r2 \in rows : r1 = r2
  PROVE  \A way : \A row \in rows : LastOf(rows, way) = row
BY LastIsThere

LEMMA SameBothWays ==
  ASSUME ResultsKnown, NEW run, AnsweredOnce(run), NEW t \in TracesIn(run)
  PROVE  ScoresAt(t, "forth") = ScoresAt(t, "back")
<1> DEFINE rows == RowsFor(t)
<1>1. rows \in SUBSET ResultRows /\ IsFiniteSet(rows)
  BY RowsForKnown
<1>2. \A m \in AnsweredOn(rows) : LastOf(AnswersOn(rows, m), "forth") = LastOf(AnswersOn(rows, m), "back")
  <2> TAKE m \in AnsweredOn(rows)
  <2> DEFINE A == AnswersOn(rows, m)
  <2>0. A # {}
    BY AnsweredOnIs
  <2>1. A # {} /\ A \in SUBSET rows
    <3>1. \A row \in A : row \in rows
      BY DEF AnswersOn, Layered, Measured
    <3> QED
      BY <2>0, <3>1
  <2>2. \A r1, r2 \in A : r1 = r2
    BY OneAnswer
  <2> HIDE DEF A, rows
  <2>3. A \in SUBSET ResultRows /\ IsFiniteSet(A)
    BY <1>1, <2>1, FS_Subset
  <2>4. LastOf(A, "forth") \in A /\ LastOf(A, "back") \in A
    BY <2>1, <2>3, LastIsThere
  <2>5. LastOf(A, "forth") = LastOf(A, "back")
    BY <2>2, <2>4
  <2> QED
    BY <2>5 DEF A
<1>3. Decided(rows) # {} => LastOf(Decided(rows), "forth") = LastOf(Decided(rows), "back")
  <2> DEFINE A == Decided(rows)
  <2>1. A \in SUBSET rows
    BY DEF Decided
  <2>2. \A r1, r2 \in A : r1 = r2
    BY OneAnswer
  <2> HIDE DEF A, rows
  <2>3. A \in SUBSET ResultRows /\ IsFiniteSet(A)
    BY <1>1, <2>1, FS_Subset
  <2>4. A # {} => LastOf(A, "forth") \in A /\ LastOf(A, "back") \in A
    BY <2>1, <2>3, LastIsThere
  <2>5. A # {} => LastOf(A, "forth") = LastOf(A, "back")
    BY <2>2, <2>4
  <2> QED
    BY <2>5 DEF A
<1> HIDE DEF rows
<1>4. PerMetric(rows, "forth") = PerMetric(rows, "back")
  <2>1. PerMetric(rows, "forth") = [m \in AnsweredOn(rows) |-> InParts(LastOf(AnswersOn(rows, m), "forth").score)]
    BY PerMetricIs
  <2>2. PerMetric(rows, "back") = [m \in AnsweredOn(rows) |-> InParts(LastOf(AnswersOn(rows, m), "back").score)]
    BY PerMetricIs
  <2> QED
    BY <1>2, <2>1, <2>2
<1>5. OverallScore(rows, "forth") = OverallScore(rows, "back")
  <2> DEFINE seen(per) == IF DOMAIN per # {} THEN Least({per[l] : l \in DOMAIN per}) ELSE None
  <2>1. \A way : OverallScore(rows, way) =
          IF runKind = "metrics" THEN MeanScore(Measured(rows))
          ELSE IF Decided(rows) # {} THEN InParts(LastOf(Decided(rows), way).runScore)
          ELSE seen(PerMetric(rows, way))
    BY DEF OverallScore
  <2> HIDE DEF seen
  <2> QED
    BY <1>3, <1>4, <2>1
<1> QED
  BY <1>4, <1>5 DEF ScoresAt, rows

LEMMA AllComparedTheSame == ResultsKnown => ComparedTheSame
<1> SUFFICES ASSUME ResultsKnown, NEW run \in RunIds, Once(run), AnsweredOnce(run)
             PROVE  ScoredIn(run, "forth") = ScoredIn(run, "back")
  BY DEF ComparedTheSame
<1>1. /\ ScoredIn(run, "forth") = [e \in ExamplesIn(run) |-> ScoresAt(ItemFor(run, "forth", e).trace, "forth")]
      /\ ScoredIn(run, "back") = [e \in ExamplesIn(run) |-> ScoresAt(ItemFor(run, "back", e).trace, "back")]
  BY ScoredInAt DEF Ways
<1>2. ASSUME NEW e \in ExamplesIn(run)
      PROVE  ScoresAt(ItemFor(run, "forth", e).trace, "forth") = ScoresAt(ItemFor(run, "back", e).trace, "back")
  <2>1. PICK i \in DOMAIN Members[run] : e = Members[run][i].example
    BY NamesListed
  <2>2. ItemFor(run, "forth", e) = Members[run][i] /\ ItemFor(run, "back", e) = Members[run][i]
    BY <2>1, OnceAlone DEF Ways
  <2>3. Members[run][i].trace \in TracesIn(run)
    BY NamesListed
  <2> QED
    BY <2>2, <2>3, SameBothWays
<1> QED
  BY <1>1, <1>2

-----------------------------------------------------------------------------
(* The report of a run, and its summary. *)

LEMMA WholeQuotient == \A k, s \in Nat : k # 0 => (k * s) \div k = s
<1> SUFFICES ASSUME NEW k \in Nat, NEW s \in Nat, k # 0 PROVE (k * s) \div k = s
  OBVIOUS
<1> DEFINE p == k * s
           q == p \div k
<1>1. p \in Nat
  OBVIOUS
<1>2. q \in Int /\ k * q <= p /\ p < k * (q + 1)
  BY <1>1
<1> HIDE DEF q
<1>3. ~(q < s)
  <2>1. q < s => q + 1 <= s
    BY <1>2
  <2>2. q + 1 <= s => k * (q + 1) <= k * s
    BY <1>2
  <2> QED
    BY <1>2, <2>1, <2>2
<1>4. ~(s < q)
  <2>1. s < q => s + 1 <= q
    BY <1>2
  <2>2. s + 1 <= q => k * (s + 1) <= k * q
    BY <1>2
  <2>3. k * (s + 1) = p + k
    OBVIOUS
  <2> QED
    BY <1>1, <1>2, <2>1, <2>2, <2>3
<1>5. q = s
  BY <1>2, <1>3, <1>4
<1> QED
  BY <1>5 DEF q

RowScores == [row \in ResultRows |-> row.score]
TrialRows(run, e) == UNION {Measured(RowsFor(i.trace)) : i \in {Members[run][i] : i \in TrialsAt(run, e)}}
\* The rows of an example's trials that are about a metric.
TrialsOn(run, e, m) == {row \in TrialRows(run, e) : row.metric = m}

LEMMA TrialRowsKnown ==
  ASSUME ResultsKnown, NEW run, NEW e, NEW m
  PROVE  /\ TrialRows(run, e) \in SUBSET results
         /\ TrialsOn(run, e, m) \in SUBSET ResultRows /\ IsFiniteSet(TrialsOn(run, e, m))
         /\ \A row \in TrialsOn(run, e, m) : RowScores[row] = row.score /\ row.score \in Nat /\ row.n \in Nat
<1>1. TrialRows(run, e) \in SUBSET results
  BY DEF TrialRows, Measured, RowsFor
<1>2. TrialsOn(run, e, m) \in SUBSET results
  BY <1>1 DEF TrialsOn
<1>3. TrialsOn(run, e, m) \in SUBSET ResultRows /\ IsFiniteSet(TrialsOn(run, e, m))
  BY <1>2, RowsKnown
<1> QED
  BY <1>1, <1>3, CompareAssumption DEF RowScores

\* What an example's report says of a metric: the mean of its trials, as often as there are.
ReportedOn(run, e, m) == {x \in FoldTrials(run, e).result : x.metric = m}
InAll(r) == (r.trials * r.score.sum) \div r.score.of

LEMMA FoldedAlone ==
  ASSUME ResultsKnown, NEW run, NEW e, NEW m, Cardinality(TrialsAt(run, e)) = 1
  PROVE  SumFunction([r \in ReportedOn(run, e, m) |-> InAll(r)])
           = SumFunctionOnSet(RowScores, TrialsOn(run, e, m))
<1> DEFINE I == TrialsOn(run, e, m)
           As(row) == [row |-> row.n, metric |-> row.metric, score |-> [sum |-> row.score, of |-> 1], trials |-> 1]
           h == [row \in I |-> As(row)]
           R == ReportedOn(run, e, m)
           f == [r \in R |-> InAll(r)]
<1>0. I \in SUBSET ResultRows /\ IsFiniteSet(I) /\ \A row \in I : RowScores[row] = row.score /\ row.score \in Nat
  BY TrialRowsKnown
<1>1. FoldTrials(run, e).result = {As(row) : row \in TrialRows(run, e)}
  BY DEF FoldTrials, TrialRows
<1>2. R = {As(row) : row \in I}
  BY <1>1 DEF ReportedOn, TrialsOn
<1>3. R = {h[row] : row \in I}
  BY <1>2
<1>4. \A row \in I : f[h[row]] = row.score
  <2> TAKE row \in I
  <2>1. h[row] = As(row) /\ h[row] \in R
    BY <1>2
  <2>2. InAll(As(row)) = (1 * row.score) \div 1
    BY DEF InAll
  <2>3. (1 * row.score) \div 1 = row.score
    BY <1>0
  <2> HIDE DEF h, R, As
  <2> QED
    BY <2>1, <2>2, <2>3
<1>5. \A i, j \in I : h[i] = h[j] => i = j
  <2> TAKE i, j \in I
  <2>1. h[i].row = i.n /\ h[j].row = j.n
    OBVIOUS
  <2>2. i \in ResultRows /\ j \in ResultRows
    BY <1>0
  <2> HIDE DEF h
  <2> QED
    BY <2>1, <2>2, CompareAssumption
<1>6. DOMAIN f = R
  OBVIOUS
<1> HIDE DEF I, h, R, f, As
<1>7. SumFunctionOnSet(f, {h[i] : i \in I}) = SumFunctionOnSet([i \in I |-> f[h[i]]], I)
  <2>1. \A i \in I : f[h[i]] \in Int
    BY <1>0, <1>4
  <2> QED
    BY <1>0, <1>5, <2>1, SumRenamed
<1>8. SumFunctionOnSet([i \in I |-> f[h[i]]], I) = SumFunctionOnSet(RowScores, I)
  <2> DEFINE u == [i \in I |-> f[h[i]]]
  <2>1. \A i \in I : u[i] = RowScores[i]
    BY <1>0, <1>4
  <2> HIDE DEF u
  <2>2. SumFunctionOnSet(u, I) = SumFunctionOnSet(RowScores, I)
    BY <1>0, <2>1, SumSame
  <2> QED
    BY <2>2 DEF u
<1>9. SumFunction(f) = SumFunctionOnSet(f, R)
  BY <1>6 DEF SumFunction
<1>10. SumFunction(f) = SumFunctionOnSet(RowScores, I)
  BY <1>3, <1>7, <1>8, <1>9
<1> QED
  BY <1>10 DEF f, R, I

LEMMA FoldedTrials ==
  ASSUME ResultsKnown, NEW run, NEW e, NEW m, Cardinality(TrialsAt(run, e)) # 1
  PROVE  SumFunction([r \in ReportedOn(run, e, m) |-> InAll(r)])
           = SumFunctionOnSet(RowScores, TrialsOn(run, e, m))
<1> DEFINE I == TrialsOn(run, e, m)
           sumOn == SumFunction([row \in I |-> row.score])
           R == ReportedOn(run, e, m)
           f == [r \in R |-> InAll(r)]
<1>0. I \in SUBSET ResultRows /\ IsFiniteSet(I) /\ \A row \in I : RowScores[row] = row.score /\ row.score \in Nat
  BY TrialRowsKnown
<1>1. sumOn = SumFunctionOnSet(RowScores, I) /\ SumFunctionOnSet(RowScores, I) \in Nat
  <2> DEFINE g == [row \in I |-> row.score]
  <2>1. DOMAIN g = I /\ \A row \in I : g[row] = RowScores[row] /\ RowScores[row] \in Nat
    BY <1>0
  <2> HIDE DEF g, I
  <2>2. SumFunction(g) = SumFunctionOnSet(RowScores, I) /\ SumFunctionOnSet(RowScores, I) \in Nat
    BY <1>0, <2>1, SumFunctionIs, SumType
  <2> QED
    BY <2>2 DEF g
<1>2. /\ \A r \in R : r.metric = m /\ r.trials = Cardinality(I) /\ r.score.sum = sumOn /\ r.score.of = Cardinality(I)
      /\ \A r1, r2 \in R : r1 = r2
      /\ R = {} <=> I = {}
  <2> DEFINE rows == TrialRows(run, e)
             on(x) == {row \in rows : row.metric = x}
             As(x) == [row |-> None, metric |-> x, trials |-> Cardinality(on(x)),
                       score |-> [sum |-> SumFunction([row \in on(x) |-> row.score]), of |-> Cardinality(on(x))],
                       spread |-> Most({row.score : row \in on(x)}) - Least({row.score : row \in on(x)})]
  <2>1. FoldTrials(run, e).result = {As(x) : x \in {row.metric : row \in rows}}
    BY Zenon DEF FoldTrials, TrialRows
  <2>2. on(m) = I
    BY DEF TrialsOn
  <2>3. /\ \A x : As(x).metric = x
        /\ As(m).trials = Cardinality(I) /\ As(m).score.sum = sumOn /\ As(m).score.of = Cardinality(I)
    BY <2>2
  <2>4. m \in {row.metric : row \in rows} <=> I # {}
    BY DEF TrialsOn
  <2> HIDE DEF As
  <2>5. R = {x \in {As(y) : y \in {row.metric : row \in rows}} : x.metric = m}
    BY <2>1 DEF ReportedOn
  <2> DEFINE names == {row.metric : row \in rows}
  <2> HIDE DEF names, I, rows
  <2>6. \A r : r \in R <=> r = As(m) /\ m \in names
    BY <2>3, <2>5 DEF names
  <2> HIDE DEF R
  <2> QED
    BY <2>3, <2>4, <2>6 DEF names
<1> HIDE DEF sumOn, R
<1>3. CASE I = {}
  <2>1. R = {} /\ SumFunctionOnSet(RowScores, I) = 0
    BY <1>2, <1>3, SumEmpty
  <2>2. DOMAIN f = {}
    BY <2>1
  <2> HIDE DEF f
  <2>3. SumFunction(f) = 0
    BY <2>2, SumEmpty DEF SumFunction
  <2> QED
    BY <2>1, <2>3 DEF f, R, I
<1>4. CASE I # {}
  <2>1. PICK r \in R : R = {r}
    BY <1>2, <1>4
  <2>2. Cardinality(I) \in Nat /\ Cardinality(I) # 0
    BY <1>0, <1>4, FS_CardinalityType, FS_EmptySet
  <2>3. f[r] = (Cardinality(I) * sumOn) \div Cardinality(I) /\ DOMAIN f = {r}
    BY <1>2, <2>1 DEF InAll
  <2>4. f[r] = sumOn /\ sumOn \in Nat
    BY <1>1, <2>2, <2>3, WholeQuotient
  <2> HIDE DEF f, I
  <2>5. SumFunctionOnSet(f, {r}) = f[r]
    BY <2>4, SumOne
  <2>6. SumFunction(f) = sumOn
    BY <2>3, <2>4, <2>5 DEF SumFunction
  <2> QED
    BY <1>1, <2>6 DEF f, R, I
<1> QED
  BY <1>3, <1>4

\* Folding trials into their examples moves no sum.
LEMMA FoldsAddUp ==
  ASSUME ResultsKnown, NEW run \in RunIds, Apart(run), NEW m
  PROVE  FoldedSum(run, m) = SummarySum(run, m)
<1> DEFINE E == ExamplesIn(run)
           part == [e \in E |-> TrialsOn(run, e, m)]
           inner == [e \in E |-> SumFunction([r \in ReportedOn(run, e, m) |-> InAll(r)])]
           S == {x \in Measured(SummaryRows(run)) : x.metric = m}
           n == Len(Members[run])
<1>1. n \in Nat /\ DOMAIN Members[run] = 1..n /\ E = {Members[run][i].example : i \in 1..n}
  BY NamesListed
<1>2. IsFiniteSet(E)
  <2> DEFINE f == [i \in 1..n |-> Members[run][i].example]
  <2>1. f \in [1..n -> E] /\ \A e \in E : \E i \in 1..n : f[i] = e
    BY <1>1
  <2>2. 1 \in Int /\ n \in Int
    BY <1>1
  <2> HIDE DEF f, E, n
  <2>3. f \in Surjection(1..n, E)
    BY <2>1 DEF Surjection
  <2>4. IsFiniteSet(1..n)
    BY <2>2, FS_Interval
  <2> QED
    BY <2>3, <2>4, FS_Surjection
<1>3. \A e \in E : inner[e] = SumFunctionOnSet(RowScores, part[e])
  <2> TAKE e \in E
  <2>1. SumFunction([r \in ReportedOn(run, e, m) |-> InAll(r)]) = SumFunctionOnSet(RowScores, TrialsOn(run, e, m))
    BY FoldedAlone, FoldedTrials
  <2> QED
    BY <2>1
<1>4. FoldedSum(run, m) = SumFunction(inner)
  BY Zenon DEF FoldedSum, ReportedOn, InAll
<1>5. \A e \in E : part[e] = TrialsOn(run, e, m)
  OBVIOUS
<1>6. \A e \in E : IsFiniteSet(part[e]) /\ \A x \in part[e] : RowScores[x] \in Int
  BY <1>5, TrialRowsKnown
<1>7. \A e \in E : \A row \in part[e] : \E i \in DOMAIN Members[run] : Members[run][i].example = e /\ Members[run][i].trace = row.trace
  BY <1>5 DEF TrialsOn, TrialRows, TrialsAt, Measured, RowsFor
<1>8. \A d, e \in E : d # e => part[d] \cap part[e] = {}
  <2> SUFFICES ASSUME NEW d \in E, NEW e \in E, d # e, NEW row \in part[d] \cap part[e] PROVE FALSE
    OBVIOUS
  <2>1. PICK i \in DOMAIN Members[run] : Members[run][i].example = d /\ Members[run][i].trace = row.trace
    BY <1>7
  <2>2. PICK j \in DOMAIN Members[run] : Members[run][j].example = e /\ Members[run][j].trace = row.trace
    BY <1>7
  <2>3. i = j
    BY <2>1, <2>2, TracedOnce
  <2> QED
    BY <2>1, <2>2, <2>3
<1>9. AllOf(part, E) = S
  <2>1. \A x \in AllOf(part, E) : x \in S
    <3> SUFFICES ASSUME NEW e \in E, NEW x \in TrialsOn(run, e, m) PROVE x \in S
      BY <1>5 DEF AllOf
    <3>1. PICK i \in TrialsAt(run, e) : x \in Measured(RowsFor(Members[run][i].trace)) /\ x.metric = m
      BY DEF TrialsOn, TrialRows
    <3>2. Members[run][i].trace \in TracesIn(run)
      BY NamesListed DEF TrialsAt
    <3> QED
      BY <3>1, <3>2 DEF SummaryRows, Measured
  <2>2. \A x \in S : x \in AllOf(part, E)
    <3> SUFFICES ASSUME NEW x \in S PROVE \E e \in E : x \in TrialsOn(run, e, m)
      BY <1>5 DEF AllOf
    <3>1. PICK i \in 1..n : x \in Measured(RowsFor(Members[run][i].trace)) /\ x.metric = m
      BY NamesListed DEF SummaryRows, Measured
    <3>2. i \in TrialsAt(run, Members[run][i].example) /\ Members[run][i].example \in E
      BY <1>1, <3>1 DEF TrialsAt
    <3>3. x \in TrialsOn(run, Members[run][i].example, m)
      BY <3>1, <3>2 DEF TrialsOn, TrialRows
    <3> QED
      BY <3>2, <3>3
  <2> HIDE DEF S
  <2> QED
    BY <2>1, <2>2
<1>10. SummarySum(run, m) = SumFunction([row \in S |-> row.score])
  BY Zenon DEF SummarySum
<1>11. DOMAIN inner = E
  OBVIOUS
<1> HIDE DEF part, inner, S, E
<1>12. IsFiniteSet(S) /\ SumFunctionOnSet(RowScores, S) = SumFunctionOnSet(Each(RowScores, part, E), E)
  <2>1. /\ IsFiniteSet(AllOf(part, E))
        /\ SumFunctionOnSet(RowScores, AllOf(part, E)) = SumFunctionOnSet(Each(RowScores, part, E), E)
    BY <1>2, <1>6, <1>8, SumParts
  <2> QED
    BY <1>9, <2>1
<1>13. SumFunction(inner) = SumFunctionOnSet(Each(RowScores, part, E), E)
  <2>1. \A e \in E : inner[e] = Each(RowScores, part, E)[e]
    BY <1>3 DEF Each
  <2> QED
    BY <1>2, <1>11, <2>1, SumFunctionIs
<1>14. SumFunction([row \in S |-> row.score]) = SumFunctionOnSet(RowScores, S)
  <2> DEFINE g == [row \in S |-> row.score]
  <2>1. \A x \in S : x \in ResultRows
    BY DEF S, Measured, SummaryRows, RowsFor, ResultsKnown
  <2>2. DOMAIN g = S /\ \A row \in S : g[row] = RowScores[row]
    BY <2>1 DEF RowScores
  <2> HIDE DEF g
  <2>3. SumFunction(g) = SumFunctionOnSet(RowScores, S)
    BY <1>12, <2>2, SumFunctionIs
  <2> QED
    BY <2>3 DEF g
<1> QED
  BY <1>4, <1>10, <1>12, <1>13, <1>14

\* A run is completed when each of its traces is answered, and no sooner.
LEMMA DoneWhenAnswered ==
  ASSUME ResultsKnown, NEW run \in RunIds, Apart(run)
  PROVE  /\ IsFiniteSet(AnsweredTraces(run))
         /\ (\A e \in ExamplesIn(run) : FoldTrials(run, e).done)
              <=> (Cardinality(AnsweredTraces(run)) = Len(Members[run]))
<1> DEFINE n == Len(Members[run])
           A == AnsweredTraces(run)
           T == TracesIn(run)
           f == [i \in 1..n |-> Members[run][i].trace]
<1>1. /\ n \in Nat /\ DOMAIN Members[run] = 1..n /\ T = {f[i] : i \in 1..n} /\ Cardinality(T) = n
      /\ \A i \in 1..n : f[i] = Members[run][i].trace
  BY NamesListed DEF Apart
<1>2. A \in SUBSET T
  BY DEF AnsweredTraces
<1>3. (\A e \in ExamplesIn(run) : FoldTrials(run, e).done) <=> \A i \in 1..n : Members[run][i].trace \in A
  <2>1. \A e : FoldTrials(run, e).done <=> \A i \in TrialsAt(run, e) : Members[run][i].trace \in A
    <3> TAKE e
    <3>1. FoldTrials(run, e).done = (\A i \in {Members[run][j] : j \in TrialsAt(run, e)} : i.trace \in A)
      BY DEF FoldTrials
    <3> HIDE DEF A
    <3> QED
      BY <3>1
  <2>2. \A i \in 1..n : Members[run][i].example \in ExamplesIn(run) /\ i \in TrialsAt(run, Members[run][i].example)
    BY NamesListed DEF TrialsAt
  <2>3. \A e : TrialsAt(run, e) \subseteq 1..n
    BY <1>1 DEF TrialsAt
  <2> HIDE DEF A, n
  <2> QED
    BY <2>1, <2>2, <2>3
<1>4. IsFiniteSet(T)
  <2> HIDE DEF f, n, T
  <2> QED
    BY <1>1, NoneTwice
<1>5. (\A i \in 1..n : Members[run][i].trace \in A) <=> A = T
  <2> HIDE DEF A, n, f
  <2> QED
    BY <1>1, <1>2
<1>6. IsFiniteSet(A) /\ (Cardinality(A) = n <=> A = T)
  <2> HIDE DEF A, n, f, T
  <2>1. IsFiniteSet(A) /\ (Cardinality(T) = Cardinality(A) => T = A)
    BY <1>2, <1>4, FS_Subset
  <2> QED
    BY <1>1, <2>1
<1> QED
  BY <1>3, <1>5, <1>6

\* The trace of an example of a run that has each once.
TraceOf(run, e) == ItemFor(run, "forth", e).trace

LEMMA TraceEach ==
  ASSUME NEW run \in RunIds, Once(run), Apart(run)
  PROVE  /\ \A e \in ExamplesIn(run) : TraceOf(run, e) \in TracesIn(run)
         /\ \A d, e \in ExamplesIn(run) : TraceOf(run, d) = TraceOf(run, e) => d = e
         /\ \A t \in TracesIn(run) : \E e \in ExamplesIn(run) : TraceOf(run, e) = t
         /\ IsFiniteSet(ExamplesIn(run))
<1> DEFINE item == Members[run]
<1>1. \A i \in DOMAIN item : TraceOf(run, item[i].example) = item[i].trace
  BY OnceAlone DEF TraceOf, Ways
<1>2. /\ ExamplesIn(run) = {item[i].example : i \in DOMAIN item}
      /\ TracesIn(run) = {item[i].trace : i \in DOMAIN item}
  BY NamesListed
<1>3. \A i, j \in DOMAIN item : item[i].trace = item[j].trace => i = j
  BY TracedOnce
<1>4. IsFiniteSet(ExamplesIn(run))
  <2> DEFINE n == Len(Members[run])
             f == [i \in 1..n |-> item[i].example]
  <2>1. n \in Nat /\ ExamplesIn(run) = {f[i] : i \in 1..n} /\ Cardinality(ExamplesIn(run)) = n
    BY NamesListed DEF Once
  <2> HIDE DEF n, f
  <2> QED
    BY <2>1, NoneTwice
<1> HIDE DEF item
<1> QED
  BY <1>1, <1>2, <1>3, <1>4

LEMMA ScoredForth ==
  ASSUME NEW run \in RunIds
  PROVE  /\ DOMAIN ScoredIn(run, "forth") = ExamplesIn(run)
         /\ \A e \in ExamplesIn(run) :
              /\ ScoredIn(run, "forth")[e].overall = OverallScore(RowsFor(TraceOf(run, e)), "forth")
              /\ ScoredIn(run, "forth")[e].per = PerMetric(RowsFor(TraceOf(run, e)), "forth")
<1>1. ScoredIn(run, "forth") = [e \in ExamplesIn(run) |-> ScoresAt(TraceOf(run, e), "forth")]
  BY ScoredInAt DEF Ways, TraceOf
<1> QED
  BY <1>1 DEF ScoresAt

\* Beside other runs a run has on a metric, or layer, the mean of its summary.
LEMMA MatrixIs ==
  ASSUME ResultsKnown, NEW run \in RunIds, Once(run), Apart(run), AnsweredOnce(run), NEW m
  PROVE  Matrix(run, "forth", m) = MeanScore(AnswersOn(SummaryRows(run), m))
<1> DEFINE B == Bearing(run, "forth", m)
           on(e) == AnswersOn(RowsFor(TraceOf(run, e)), m)
           S == AnswersOn(SummaryRows(run), m)
           v == [e \in B |-> ScoredIn(run, "forth")[e].per[m]]
           w == [row \in S |-> InParts(row.score)]
           h == [e \in B |-> LastOf(on(e), "forth")]
<1>1. \A e : e \in B <=> e \in ExamplesIn(run) /\ on(e) # {}
  <2>1. \A e : e \in B <=> e \in ExamplesIn(run) /\ m \in DOMAIN PerMetric(RowsFor(TraceOf(run, e)), "forth")
    BY ScoredForth DEF Bearing
  <2>2. \A e : m \in DOMAIN PerMetric(RowsFor(TraceOf(run, e)), "forth") <=> on(e) # {}
    BY PerMetricIs, AnsweredOnIs
  <2> QED
    BY <2>1, <2>2
<1>2. \A e : /\ on(e) \in SUBSET ResultRows /\ IsFiniteSet(on(e))
             /\ \A row \in on(e) : row \in RowsFor(TraceOf(run, e)) /\ row.trace = TraceOf(run, e)
  <2> TAKE e
  <2>1. \A row \in on(e) : row \in RowsFor(TraceOf(run, e))
    BY DEF AnswersOn, Layered, Measured
  <2>2. RowsFor(TraceOf(run, e)) \in SUBSET ResultRows /\ IsFiniteSet(RowsFor(TraceOf(run, e)))
    BY RowsForKnown
  <2>3. on(e) \in SUBSET RowsFor(TraceOf(run, e))
    BY <2>1
  <2> HIDE DEF on
  <2>4. on(e) \in SUBSET ResultRows /\ IsFiniteSet(on(e))
    BY <2>2, <2>3, FS_Subset
  <2> QED
    BY <2>1, <2>4 DEF RowsFor
<1>3. \A e \in ExamplesIn(run) : on(e) \subseteq S
  <2> SUFFICES ASSUME NEW e \in ExamplesIn(run), NEW row \in on(e) PROVE row \in S
    OBVIOUS
  <2>1. row \in RowsFor(TraceOf(run, e)) /\ TraceOf(run, e) \in TracesIn(run)
    BY <1>2, TraceEach
  <2>2. row \in SummaryRows(run)
    BY <2>1 DEF SummaryRows
  <2> QED
    BY <2>2 DEF AnswersOn, Layered, Measured
<1>4. \A row \in S : \E e \in ExamplesIn(run) : row \in on(e)
  <2> TAKE row \in S
  <2>1. PICK t \in TracesIn(run) : row \in RowsFor(t)
    BY DEF AnswersOn, Layered, Measured, SummaryRows
  <2>2. PICK e \in ExamplesIn(run) : TraceOf(run, e) = t
    BY TraceEach
  <2>3. row \in on(e)
    BY <2>1, <2>2 DEF AnswersOn, Layered, Measured
  <2> QED
    BY <2>3
<1>5. \A e \in B : h[e] \in on(e)
  <2> TAKE e \in B
  <2> HIDE DEF on, B
  <2> QED
    BY <1>1, <1>2, LastIsThere
<1>6. \A e \in ExamplesIn(run) : \A r1, r2 \in on(e) : r1 = r2
  BY TraceEach, OneAnswer
<1>7. \A e \in B : v[e] = InParts(h[e].score)
  <2> TAKE e \in B
  <2>1. ScoredIn(run, "forth")[e].per = PerMetric(RowsFor(TraceOf(run, e)), "forth")
    BY <1>1, ScoredForth
  <2>2. m \in AnsweredOn(RowsFor(TraceOf(run, e)))
    BY <1>1, AnsweredOnIs
  <2>3. PerMetric(RowsFor(TraceOf(run, e)), "forth")[m] = InParts(LastOf(on(e), "forth").score)
    BY <2>2, PerMetricIs
  <2> QED
    BY <2>1, <2>3
<1>8. DOMAIN v = B /\ DOMAIN w = S /\ \A row \in S : w[row] = InParts(row.score)
  OBVIOUS
<1>9. Matrix(run, "forth", m) = MeanOf(v) /\ MeanScore(S) = MeanOf(w)
  BY Zenon DEF Matrix, MeanScore
<1> HIDE DEF B, on, S, v, w, h
<1>10. {h[e] : e \in DOMAIN v} = DOMAIN w
  <2>1. \A e \in B : h[e] \in S
    BY <1>1, <1>3, <1>5
  <2>2. \A row \in S : \E e \in B : h[e] = row
    <3> TAKE row \in S
    <3>1. PICK e \in ExamplesIn(run) : row \in on(e)
      BY <1>4
    <3>2. e \in B
      BY <1>1, <3>1
    <3> QED
      BY <1>5, <1>6, <3>1, <3>2
  <2> QED
    BY <1>8, <2>1, <2>2
<1>11. \A d, e \in DOMAIN v : h[d] = h[e] => d = e
  <2> TAKE d, e \in DOMAIN v
  <2>1. h[d].trace = TraceOf(run, d) /\ h[e].trace = TraceOf(run, e)
    BY <1>2, <1>5, <1>8
  <2>2. d \in ExamplesIn(run) /\ e \in ExamplesIn(run)
    BY <1>1, <1>8
  <2> QED
    BY <2>1, <2>2, TraceEach
<1>12. \A e \in DOMAIN v : v[e] = w[h[e]] /\ v[e] \in Int
  <2> TAKE e \in DOMAIN v
  <2>1. h[e] \in on(e) /\ e \in B
    BY <1>5, <1>8
  <2>2. h[e] \in S /\ h[e] \in ResultRows
    BY <1>1, <1>2, <1>3, <2>1
  <2>3. v[e] = InParts(h[e].score) /\ InParts(h[e].score) \in Nat
    BY <1>7, <2>1, <2>2, CompareAssumption, InPartsIsNat
  <2> QED
    BY <1>8, <2>2, <2>3
<1>13. IsFiniteSet(DOMAIN v)
  <2>1. B \in SUBSET ExamplesIn(run) /\ IsFiniteSet(ExamplesIn(run))
    BY <1>1, TraceEach
  <2> QED
    BY <1>8, <2>1, FS_Subset
<1>14. MeanOf(v) = MeanOf(w)
  BY <1>10, <1>11, <1>12, <1>13, MeanRenamed
<1> QED
  BY <1>9, <1>14 DEF S

LEMMA CompletedIs ==
  ASSUME NEW run \in RunIds
  PROVE  \A e : e \in CompletedIn(run, "forth")
                  <=> e \in ExamplesIn(run) /\ OverallScore(RowsFor(TraceOf(run, e)), "forth") # None
BY ScoredForth DEF CompletedIn

\* The average of a run on metrics, and how many are completed, are those of its summary.
LEMMA MetricsAverage ==
  ASSUME ResultsKnown, NEW run \in RunIds, Once(run), Apart(run), runKind = "metrics"
  PROVE  /\ MetricsSummary(run).avg = OverallAvg(run, "forth")
         /\ MetricsSummary(run).completed = Cardinality(CompletedIn(run, "forth"))
<1> DEFINE C == CompletedIn(run, "forth")
           A == AnsweredTraces(run)
           mean(t) == MeanScore(Measured(RowsFor(t)))
           v == [e \in C |-> ScoredIn(run, "forth")[e].overall]
           w == [t \in A |-> mean(t)]
           h == [e \in C |-> TraceOf(run, e)]
<1>1. \A t : mean(t) \in Nat \cup {None} /\ (mean(t) = None <=> Measured(RowsFor(t)) = {})
  <2> TAKE t
  <2>1. Measured(RowsFor(t)) \in SUBSET RowsFor(t)
    BY DEF Measured
  <2>2. RowsFor(t) \in SUBSET ResultRows /\ IsFiniteSet(RowsFor(t))
    BY RowsForKnown
  <2>3. Measured(RowsFor(t)) \in SUBSET ResultRows /\ IsFiniteSet(Measured(RowsFor(t)))
    BY <2>1, <2>2, FS_Subset
  <2> QED
    BY <2>3, MeanScoreType
<1>2. \A e : OverallScore(RowsFor(TraceOf(run, e)), "forth") = mean(TraceOf(run, e))
  BY DEF OverallScore
<1>3. \A t : t \in A <=> t \in TracesIn(run) /\ mean(t) # None
  BY <1>1 DEF AnsweredTraces
<1>4. \A e : e \in C <=> e \in ExamplesIn(run) /\ mean(TraceOf(run, e)) # None
  BY <1>2, CompletedIs
<1>5. \A e \in C : v[e] = mean(TraceOf(run, e)) /\ h[e] = TraceOf(run, e)
  BY <1>2, <1>4, ScoredForth
<1>6. DOMAIN v = C /\ DOMAIN w = A /\ \A t \in A : w[t] = mean(t)
  OBVIOUS
<1>7. OverallAvg(run, "forth") = MeanOf(v)
  BY Zenon DEF OverallAvg
<1>8. MetricsSummary(run).avg = MeanOf(w) /\ MetricsSummary(run).completed = Cardinality(A)
  BY DEF MetricsSummary
<1> HIDE DEF C, A, mean, v, w, h
<1>9. {h[e] : e \in DOMAIN v} = DOMAIN w
  <2>1. \A e \in C : h[e] \in A
    BY <1>3, <1>4, <1>5, TraceEach
  <2>2. \A t \in A : \E e \in C : h[e] = t
    <3> TAKE t \in A
    <3>1. PICK e \in ExamplesIn(run) : TraceOf(run, e) = t
      BY <1>3, TraceEach
    <3> QED
      BY <1>3, <1>4, <1>5, <3>1
  <2> QED
    BY <1>6, <2>1, <2>2
<1>10. \A d, e \in DOMAIN v : h[d] = h[e] => d = e
  BY <1>4, <1>5, <1>6, TraceEach
<1>11. \A e \in DOMAIN v : v[e] = w[h[e]] /\ v[e] \in Int
  <2> TAKE e \in DOMAIN v
  <2>1. h[e] \in A /\ v[e] = mean(h[e]) /\ mean(h[e]) # None
    BY <1>3, <1>4, <1>5, <1>6, TraceEach
  <2>2. mean(h[e]) \in Nat
    BY <1>1, <2>1
  <2> QED
    BY <1>6, <2>1, <2>2
<1>12. IsFiniteSet(DOMAIN v)
  <2>1. C \in SUBSET ExamplesIn(run) /\ IsFiniteSet(ExamplesIn(run))
    BY <1>4, TraceEach
  <2> QED
    BY <1>6, <2>1, FS_Subset
<1>13. MeanOf(v) = MeanOf(w) /\ Cardinality(DOMAIN v) = Cardinality(DOMAIN w)
  BY <1>9, <1>10, <1>11, <1>12, MeanRenamed
<1> QED
  BY <1>6, <1>7, <1>8, <1>13 DEF C

\* The average of an agentic run is that of its summary, if each answer was decided.
LEMMA AgenticAverage ==
  ASSUME ResultsKnown, NEW run \in RunIds, Once(run), Apart(run), AnsweredOnce(run), runKind = "agentic",
         \A t \in AnsweredTraces(run) : Decided(RowsFor(t)) # {}
  PROVE  AgenticSummary(run).avg = OverallAvg(run, "forth")
<1> DEFINE C == CompletedIn(run, "forth")
           on(e) == Decided(RowsFor(TraceOf(run, e)))
           S == Decided(SummaryRows(run))
           v == [e \in C |-> ScoredIn(run, "forth")[e].overall]
           w == [row \in S |-> InParts(row.runScore)]
           h == [e \in C |-> LastOf(on(e), "forth")]
<1>1. \A e : /\ on(e) \in SUBSET ResultRows /\ IsFiniteSet(on(e))
             /\ \A row \in on(e) : row \in RowsFor(TraceOf(run, e)) /\ row.trace = TraceOf(run, e)
  <2> TAKE e
  <2>1. on(e) \in SUBSET RowsFor(TraceOf(run, e))
    BY DEF Decided
  <2>2. RowsFor(TraceOf(run, e)) \in SUBSET ResultRows /\ IsFiniteSet(RowsFor(TraceOf(run, e)))
    BY RowsForKnown
  <2> HIDE DEF on
  <2>3. on(e) \in SUBSET ResultRows /\ IsFiniteSet(on(e))
    BY <2>1, <2>2, FS_Subset
  <2> QED
    BY <2>1, <2>3 DEF RowsFor
<1>2. \A e \in ExamplesIn(run) : on(e) # {} =>
        /\ OverallScore(RowsFor(TraceOf(run, e)), "forth") = InParts(LastOf(on(e), "forth").runScore)
        /\ LastOf(on(e), "forth") \in on(e)
  <2> TAKE e \in ExamplesIn(run)
  <2> HAVE on(e) # {}
  <2>1. OverallScore(RowsFor(TraceOf(run, e)), "forth") = InParts(LastOf(on(e), "forth").runScore)
    BY DEF OverallScore
  <2> HIDE DEF on
  <2>2. LastOf(on(e), "forth") \in on(e)
    BY <1>1, LastIsThere
  <2> QED
    BY <2>1, <2>2
<1>3. \A e \in ExamplesIn(run) : on(e) = {} => OverallScore(RowsFor(TraceOf(run, e)), "forth") = None
  <2> TAKE e \in ExamplesIn(run)
  <2> HAVE on(e) = {}
  <2>1. TraceOf(run, e) \in TracesIn(run)
    BY TraceEach
  <2>2. RowsFor(TraceOf(run, e)) = {}
    BY <2>1 DEF AnsweredTraces
  <2>3. AnsweredOn(RowsFor(TraceOf(run, e))) = {}
    BY <2>2 DEF AnsweredOn, Layered
  <2>4. DOMAIN PerMetric(RowsFor(TraceOf(run, e)), "forth") = {}
    BY <2>3, PerMetricIs
  <2> QED
    BY <2>4 DEF OverallScore
<1>4. \A e : e \in C <=> e \in ExamplesIn(run) /\ on(e) # {}
  <2>1. \A e \in ExamplesIn(run) : on(e) # {} => OverallScore(RowsFor(TraceOf(run, e)), "forth") # None
    <3> TAKE e \in ExamplesIn(run)
    <3> HAVE on(e) # {}
    <3>1. LastOf(on(e), "forth") \in ResultRows
      BY <1>1, <1>2
    <3>2. InParts(LastOf(on(e), "forth").runScore) \in Nat
      BY <3>1, CompareAssumption, InPartsIsNat
    <3> QED
      BY <1>2, <3>2, CompareAssumption
  <2> HIDE DEF C, on
  <2> QED
    BY <1>3, <2>1, CompletedIs DEF C
<1>5. \A e \in ExamplesIn(run) : on(e) \subseteq S
  <2> SUFFICES ASSUME NEW e \in ExamplesIn(run), NEW row \in on(e) PROVE row \in S
    OBVIOUS
  <2>1. row \in RowsFor(TraceOf(run, e)) /\ TraceOf(run, e) \in TracesIn(run)
    BY <1>1, TraceEach
  <2>2. row \in SummaryRows(run)
    BY <2>1 DEF SummaryRows
  <2> QED
    BY <2>2 DEF Decided
<1>6. \A row \in S : \E e \in ExamplesIn(run) : row \in on(e)
  <2> TAKE row \in S
  <2>1. PICK t \in TracesIn(run) : row \in RowsFor(t)
    BY DEF Decided, SummaryRows
  <2>2. PICK e \in ExamplesIn(run) : TraceOf(run, e) = t
    BY TraceEach
  <2>3. row \in on(e)
    BY <2>1, <2>2 DEF Decided
  <2> QED
    BY <2>3
<1>7. \A e \in ExamplesIn(run) : \A r1, r2 \in on(e) : r1 = r2
  BY TraceEach, OneAnswer
<1>8. \A e \in C : h[e] \in on(e) /\ v[e] = InParts(h[e].runScore)
  BY <1>2, <1>4, ScoredForth
<1>9. DOMAIN v = C /\ DOMAIN w = S /\ \A row \in S : w[row] = InParts(row.runScore)
  OBVIOUS
<1>10. OverallAvg(run, "forth") = MeanOf(v)
  BY Zenon DEF OverallAvg
<1>11. AgenticSummary(run).avg = MeanOf(w)
  BY DEF AgenticSummary
<1> HIDE DEF C, on, S, v, w, h
<1>12. {h[e] : e \in DOMAIN v} = DOMAIN w
  <2>1. \A e \in C : h[e] \in S
    BY <1>4, <1>5, <1>8
  <2>2. \A row \in S : \E e \in C : h[e] = row
    <3> TAKE row \in S
    <3>1. PICK e \in ExamplesIn(run) : row \in on(e)
      BY <1>6
    <3>2. e \in C
      BY <1>4, <3>1
    <3> QED
      BY <1>7, <1>8, <3>1, <3>2
  <2> QED
    BY <1>9, <2>1, <2>2
<1>13. \A d, e \in DOMAIN v : h[d] = h[e] => d = e
  <2> TAKE d, e \in DOMAIN v
  <2>1. h[d].trace = TraceOf(run, d) /\ h[e].trace = TraceOf(run, e)
    BY <1>1, <1>8, <1>9
  <2>2. d \in ExamplesIn(run) /\ e \in ExamplesIn(run)
    BY <1>4, <1>9
  <2> QED
    BY <2>1, <2>2, TraceEach
<1>14. \A e \in DOMAIN v : v[e] = w[h[e]] /\ v[e] \in Int
  <2> TAKE e \in DOMAIN v
  <2>1. h[e] \in on(e) /\ v[e] = InParts(h[e].runScore) /\ e \in ExamplesIn(run)
    BY <1>4, <1>8, <1>9
  <2>2. h[e] \in S /\ h[e] \in ResultRows
    BY <1>1, <1>5, <2>1
  <2>3. InParts(h[e].runScore) \in Nat
    BY <2>2, CompareAssumption, InPartsIsNat
  <2> QED
    BY <1>9, <2>1, <2>2, <2>3
<1>15. IsFiniteSet(DOMAIN v)
  <2>1. C \in SUBSET ExamplesIn(run) /\ IsFiniteSet(ExamplesIn(run))
    BY <1>4, TraceEach
  <2> QED
    BY <1>9, <2>1, FS_Subset
<1>16. MeanOf(v) = MeanOf(w)
  BY <1>12, <1>13, <1>14, <1>15, MeanRenamed
<1> QED
  BY <1>10, <1>11, <1>16

LEMMA AllReportsAgree == ResultsKnown => ReportsAgree
<1> SUFFICES ASSUME ResultsKnown, NEW run \in RunIds
             PROVE  LET summary == IF runKind = "metrics" THEN MetricsSummary(run) ELSE AgenticSummary(run)
                    IN /\ (runKind = "metrics" /\ Apart(run)) =>
                            /\ \A m \in DOMAIN summary.on : FoldedSum(run, m) = SummarySum(run, m)
                            /\ (\A e \in ExamplesIn(run) : FoldTrials(run, e).done)
                                 <=> (summary.completed = Len(Members[run]))
                       /\ (Once(run) /\ Apart(run) /\ AnsweredOnce(run)) =>
                            /\ \A m \in DOMAIN summary.on : summary.on[m] = Matrix(run, "forth", m)
                            /\ runKind = "metrics" =>
                                 /\ summary.avg = OverallAvg(run, "forth")
                                 /\ summary.completed = Cardinality(CompletedIn(run, "forth"))
                            /\ (runKind = "agentic" /\ \A t \in AnsweredTraces(run) : Decided(RowsFor(t)) # {}) =>
                                 summary.avg = OverallAvg(run, "forth")
  BY Zenon DEF ReportsAgree
<1> DEFINE summary == IF runKind = "metrics" THEN MetricsSummary(run) ELSE AgenticSummary(run)
<1>k. runKind = "metrics" \/ runKind = "agentic"
  BY DEF ResultsKnown
<1>1. summary.completed = Cardinality(AnsweredTraces(run))
  BY DEF MetricsSummary, AgenticSummary
<1>2. \A m \in DOMAIN summary.on : summary.on[m] = MeanScore(AnswersOn(SummaryRows(run), m))
  <2>1. CASE runKind = "metrics"
    BY <2>1 DEF MetricsSummary, AnswersOn
  <2>2. CASE runKind = "agentic"
    BY <2>2 DEF AgenticSummary, AnswersOn
  <2> QED
    BY <1>k, <2>1, <2>2
<1>3. runKind = "metrics" => summary.avg = MetricsSummary(run).avg
  OBVIOUS
<1>4. runKind = "agentic" => summary.avg = AgenticSummary(run).avg
  OBVIOUS
<1>5. runKind = "metrics" => summary.completed = MetricsSummary(run).completed
  OBVIOUS
<1> HIDE DEF summary
<1>6. ASSUME Apart(run)
      PROVE  /\ \A m \in DOMAIN summary.on : FoldedSum(run, m) = SummarySum(run, m)
             /\ (\A e \in ExamplesIn(run) : FoldTrials(run, e).done) <=> (summary.completed = Len(Members[run]))
  BY <1>1, <1>6, FoldsAddUp, DoneWhenAnswered
<1>7. ASSUME Once(run), Apart(run), AnsweredOnce(run)
      PROVE  /\ \A m \in DOMAIN summary.on : summary.on[m] = Matrix(run, "forth", m)
             /\ runKind = "metrics" =>
                  /\ summary.avg = OverallAvg(run, "forth")
                  /\ summary.completed = Cardinality(CompletedIn(run, "forth"))
             /\ (runKind = "agentic" /\ \A t \in AnsweredTraces(run) : Decided(RowsFor(t)) # {}) =>
                  summary.avg = OverallAvg(run, "forth")
  <2>1. \A m \in DOMAIN summary.on : summary.on[m] = Matrix(run, "forth", m)
    BY <1>2, <1>7, MatrixIs
  <2>2. runKind = "metrics" =>
          /\ summary.avg = OverallAvg(run, "forth")
          /\ summary.completed = Cardinality(CompletedIn(run, "forth"))
    BY <1>3, <1>5, <1>7, MetricsAverage
  <2>3. (runKind = "agentic" /\ \A t \in AnsweredTraces(run) : Decided(RowsFor(t)) # {}) =>
           summary.avg = OverallAvg(run, "forth")
    BY <1>4, <1>7, AgenticAverage
  <2> QED
    BY <2>1, <2>2, <2>3
<1> QED
  BY <1>6, <1>7 DEF summary

\* Whatever results came in, comparisons of them say the same.
LEMMA AllComparisonsAgree ==
  ResultsKnown => ComparisonsMirror /\ ManyAgreeWithTwo /\ ComparedTheSame /\ ReportsAgree
BY TwoMirror, ManyAgree, AllComparedTheSame, AllReportsAgree

-----------------------------------------------------------------------------
(* The pages of the list of traces. *)

\* Rows of traces that are there, each known by its trace and its number.
Numbered(S) ==
  /\ IsFiniteSet(S) /\ \A a \in S : a.trace \in Here /\ a.scan \in Nat
  /\ \A a, b \in S : a.trace = b.trace /\ a.scan = b.scan => a = b
Sorts(S, q) ==
  /\ Numbered(S) /\ q.sort \in {"newest", "oldest", "cost_desc"}
  /\ q.sort = "cost_desc" => \A a, b \in S : a.cost \in Nat /\ (a.trace = b.trace => a.cost = b.cost)
Order(S, q, tie) == {p \in S \X S : Precedes(p[1], p[2], q, tie)}

LEMMA PrecedesStrict ==
  ASSUME SpansInv, NEW tie \in Ties, NEW S, NEW q, Sorts(S, q)
  PROVE  Strict(Order(S, q, tie), S)
<1>1. \A a, b \in S : <<a, b>> \in Order(S, q, tie) <=> Precedes(a, b, q, tie)
  BY DEF Order
<1>2. ASSUME NEW a \in S, NEW b \in S, NEW c \in S
      PROVE  /\ ~Precedes(a, a, q, tie)
             /\ Precedes(a, b, q, tie) /\ Precedes(b, c, q, tie) => Precedes(a, c, q, tie)
             /\ a # b => Precedes(a, b, q, tie) \/ Precedes(b, a, q, tie)
  <2>1. /\ a.trace \in Here /\ b.trace \in Here /\ c.trace \in Here
        /\ a.scan \in Nat /\ b.scan \in Nat /\ c.scan \in Nat
        /\ a.trace = b.trace /\ a.scan = b.scan => a = b
    BY DEF Sorts, Numbered
  <2>2. /\ tie[a.trace] \in Nat /\ tie[b.trace] \in Nat /\ tie[c.trace] \in Nat
        /\ tie[a.trace] = tie[b.trace] => a.trace = b.trace
        /\ tie[b.trace] = tie[c.trace] => b.trace = c.trace
        /\ tie[a.trace] = tie[c.trace] => a.trace = c.trace
    BY <2>1, TiesTell
  <2>3. PICK i, j, k \in Int :
          /\ Leads(a, b, q) <=> i < j
          /\ Leads(b, a, q) <=> j < i
          /\ Leads(b, c, q) <=> j < k
          /\ Leads(c, b, q) <=> k < j
          /\ Leads(a, c, q) <=> i < k
          /\ Leads(c, a, q) <=> k < i
          /\ a.trace = b.trace => i = j
          /\ b.trace = c.trace => j = k
          /\ a.trace = c.trace => i = k
    <3>1. CameIn(a.trace) \in Nat /\ CameIn(b.trace) \in Nat /\ CameIn(c.trace) \in Nat
      BY <2>1, CameAt
    <3>2. CASE q.sort = "newest"
      <4>1. \A x, y : Leads(x, y, q) <=> CameIn(x.trace) > CameIn(y.trace)
        BY <3>2 DEF Leads
      <4>3. PICK i \in Int : i = 0 - CameIn(a.trace)
        BY <3>1
      <4>4. PICK j \in Int : j = 0 - CameIn(b.trace)
        BY <3>1
      <4>5. PICK k \in Int : k = 0 - CameIn(c.trace)
        BY <3>1
      <4> WITNESS i \in Int, j \in Int, k \in Int
      <4> QED
        BY <3>1, <4>1, <4>3, <4>4, <4>5
    <3>3. CASE q.sort = "oldest"
      <4>1. \A x, y : Leads(x, y, q) <=> CameIn(x.trace) < CameIn(y.trace)
        BY <3>3 DEF Leads
      <4> USE <3>1
      <4> WITNESS CameIn(a.trace) \in Int, CameIn(b.trace) \in Int, CameIn(c.trace) \in Int
      <4> QED
        BY <3>1, <4>1
    <3>4. CASE q.sort = "cost_desc"
      <4>1. \A x, y : Leads(x, y, q) <=> x.cost > y.cost
        BY <3>4 DEF Leads
      <4>2. /\ a.cost \in Nat /\ b.cost \in Nat /\ c.cost \in Nat
            /\ a.trace = b.trace => a.cost = b.cost
            /\ b.trace = c.trace => b.cost = c.cost
            /\ a.trace = c.trace => a.cost = c.cost
        BY <3>4 DEF Sorts
      <4>3. PICK i \in Int : i = 0 - a.cost
        BY <4>2
      <4>4. PICK j \in Int : j = 0 - b.cost
        BY <4>2
      <4>5. PICK k \in Int : k = 0 - c.cost
        BY <4>2
      <4> WITNESS i \in Int, j \in Int, k \in Int
      <4> QED
        BY <4>2, <4>1, <4>3, <4>4, <4>5
    <3> QED
      BY <3>2, <3>3, <3>4 DEF Sorts
  <2>4. \A x, y : Precedes(x, y, q, tie) <=>
          IF x.trace = y.trace THEN x.scan < y.scan
            ELSE Leads(x, y, q) \/ (~Leads(y, x, q) /\ tie[x.trace] < tie[y.trace])
    BY DEF Precedes
  <2> QED
    BY <2>1, <2>2, <2>3, <2>4
<1> QED
  BY <1>1, <1>2 DEF Strict

LEMMA SortsPart == ASSUME NEW S, NEW q, Sorts(S, q), NEW C \in SUBSET S PROVE Sorts(C, q)
BY FS_Subset DEF Sorts, Numbered

\* Each row has the place the order gives it.
LEMMA Places ==
  ASSUME SpansInv, NEW tie \in Ties, NEW S, NEW q, Sorts(S, q)
  PROVE  /\ Cardinality(S) \in Nat /\ DOMAIN InOrder(S, q, tie) = 1..Cardinality(S)
         /\ \A k \in 1..Cardinality(S) : InOrder(S, q, tie)[k] \in S /\ Ahead(S, InOrder(S, q, tie)[k], q, tie) = k - 1
         /\ \A a \in S : /\ Ahead(S, a, q, tie) \in Nat /\ Ahead(S, a, q, tie) + 1 \in 1..Cardinality(S)
                         /\ InOrder(S, q, tie)[Ahead(S, a, q, tie) + 1] = a
         /\ \A a, b \in S : Ahead(S, a, q, tie) < Ahead(S, b, q, tie) => Precedes(a, b, q, tie)
         /\ \A a, b \in S : Precedes(a, b, q, tie) => ~Precedes(b, a, q, tie)
<1> DEFINE n == Cardinality(S)
           R == Order(S, q, tie)
           size(a) == Cardinality(AheadIn(R, S, a))
           list == [k \in 1..n |-> CHOOSE a \in S : Ahead(S, a, q, tie) = k - 1]
<1>1. IsFiniteSet(S) /\ n \in Nat
  BY FS_CardinalityType DEF Sorts, Numbered
<1>2. Strict(R, S)
  BY PrecedesStrict
<1>3. \A a, b \in S : <<a, b>> \in R <=> Precedes(a, b, q, tie)
  BY DEF Order
<1> HIDE DEF R
<1>4. \A a \in S : AheadIn(R, S, a) = {b \in S : Precedes(b, a, q, tie)}
  BY <1>3 DEF AheadIn
<1>5. \A a \in S : size(a) = Ahead(S, a, q, tie)
  BY <1>4, Zenon DEF Ahead
<1>6. /\ \A k \in 1..n : \E a \in S : size(a) = k - 1
      /\ \A a, b \in S : size(a) = size(b) => a = b
      /\ \A a, b \in S : size(a) < size(b) => <<a, b>> \in R
      /\ \A a \in S : size(a) + 1 \in 1..n
  BY <1>1, <1>2, Ranked
<1> HIDE DEF size
<1>7. /\ \A k \in 1..n : \E a \in S : Ahead(S, a, q, tie) = k - 1
      /\ \A a, b \in S : Ahead(S, a, q, tie) = Ahead(S, b, q, tie) => a = b
      /\ \A a, b \in S : Ahead(S, a, q, tie) < Ahead(S, b, q, tie) => Precedes(a, b, q, tie)
      /\ \A a \in S : Ahead(S, a, q, tie) + 1 \in 1..n
  BY <1>3, <1>5, <1>6
<1>8. \A a \in S : Ahead(S, a, q, tie) \in Nat
  <2> TAKE a \in S
  <2>1. {b \in S : Precedes(b, a, q, tie)} \in SUBSET S
    OBVIOUS
  <2> QED
    BY <1>1, <2>1, FS_Subset, FS_CardinalityType DEF Ahead
<1>9. \A a, b \in S : Precedes(a, b, q, tie) => ~Precedes(b, a, q, tie)
  BY <1>2, <1>3 DEF Strict
<1> HIDE DEF n
<1>10. \A k \in 1..n : list[k] \in S /\ Ahead(S, list[k], q, tie) = k - 1
  BY <1>7
<1>11. DOMAIN list = 1..n
  OBVIOUS
<1> HIDE DEF list
<1>12. \A a \in S : list[Ahead(S, a, q, tie) + 1] = a
  <2> TAKE a \in S
  <2>1. Ahead(S, a, q, tie) + 1 \in 1..n /\ Ahead(S, a, q, tie) \in Nat
    BY <1>7, <1>8
  <2>2. list[Ahead(S, a, q, tie) + 1] \in S /\ Ahead(S, list[Ahead(S, a, q, tie) + 1], q, tie) = Ahead(S, a, q, tie)
    BY <1>10, <2>1
  <2> QED
    BY <1>7, <2>2
<1>13. InOrder(S, q, tie) = list
  BY Zenon DEF InOrder, list, n
<1> QED
  BY <1>1, <1>7, <1>8, <1>9, <1>10, <1>11, <1>12, <1>13, Zenon DEF n

\* A sequence that lists rows in order is the only one that does.
LEMMA OneOrder ==
  ASSUME SpansInv, NEW tie \in Ties, NEW S, NEW q, Sorts(S, q), NEW m \in Nat, NEW s, DOMAIN s = 1..m, s \in [1..m -> S],
         \A a \in S : \E i \in 1..m : s[i] = a,
         \A i, j \in 1..m : i < j => Precedes(s[i], s[j], q, tie)
  PROVE  InOrder(S, q, tie) = s /\ Cardinality(S) = m
<1>1. \A a, b \in S : Precedes(a, b, q, tie) => ~Precedes(b, a, q, tie)
  BY Places
<1>2. \A i, j \in 1..m : s[i] = s[j] => i = j
  <2> SUFFICES ASSUME NEW i \in 1..m, NEW j \in 1..m, s[i] = s[j], i < j PROVE FALSE
    OBVIOUS
  <2>1. Precedes(s[i], s[j], q, tie) /\ s[i] \in S
    OBVIOUS
  <2> QED
    BY <1>1, <2>1
<1>3. \A k \in 0..m : IsFiniteSet({s[i] : i \in 1..k}) /\ Cardinality({s[i] : i \in 1..k}) = k
  <2> TAKE k \in 0..m
  <2> DEFINE f == [i \in 1..k |-> s[i]]
             T == {s[i] : i \in 1..k}
  <2>1. f \in Bijection(1..k, T)
    <3>1. f \in [1..k -> T] /\ \A i, j \in 1..k : f[i] = f[j] => i = j
      BY <1>2
    <3>2. \A x \in T : \E i \in 1..k : f[i] = x
      OBVIOUS
    <3> QED
      BY <3>1, <3>2 DEF Bijection, Injection, Surjection, IsInjective
  <2>2. IsFiniteSet(1..k) /\ Cardinality(1..k) = k
    <3>1. 1 \in Int /\ k \in Int
      OBVIOUS
    <3>2. Cardinality(1..k) = IF 1 > k THEN 0 ELSE k - 1 + 1
      BY <3>1, FS_Interval
    <3> QED
      BY <3>1, <3>2, FS_Interval
  <2> HIDE DEF f, T
  <2>3. IsFiniteSet(T) /\ Cardinality(T) = k
    BY <2>1, <2>2, FS_Bijection DEF ExistsBijection
  <2> QED
    BY <2>3 DEF T
<1>4. Cardinality(S) = m
  <2>1. {s[i] : i \in 1..m} = S /\ m \in 0..m
    OBVIOUS
  <2> QED
    BY <1>3, <2>1
<1>5. \A k \in 1..m : Ahead(S, s[k], q, tie) = k - 1
  <2> TAKE k \in 1..m
  <2>1. {a \in S : Precedes(a, s[k], q, tie)} = {s[i] : i \in 1..(k - 1)}
    <3>1. ASSUME NEW a \in S, Precedes(a, s[k], q, tie) PROVE a \in {s[i] : i \in 1..(k - 1)}
      <4>1. PICK i \in 1..m : s[i] = a
        OBVIOUS
      <4>2. s[k] \in S
        OBVIOUS
      <4>3. ~(k < i) /\ k # i
        BY <1>1, <3>1, <4>1, <4>2
      <4>4. i \in 1..(k - 1)
        BY <4>3
      <4> QED
        BY <4>1, <4>4
    <3>2. ASSUME NEW i \in 1..(k - 1) PROVE s[i] \in S /\ Precedes(s[i], s[k], q, tie)
      <4>1. i \in 1..m /\ i < k
        OBVIOUS
      <4> QED
        BY <4>1
    <3> QED
      BY <3>1, <3>2
  <2>2. k - 1 \in 0..m
    OBVIOUS
  <2>3. Cardinality({s[i] : i \in 1..(k - 1)}) = k - 1
    BY <1>3, <2>2
  <2> QED
    BY <2>1, <2>3 DEF Ahead
<1>6. \A k \in 1..m : InOrder(S, q, tie)[k] = s[k]
  <2> TAKE k \in 1..m
  <2>1. Ahead(S, s[k], q, tie) + 1 = k /\ s[k] \in S
    BY <1>5
  <2> QED
    BY <2>1, Places
<1>7. DOMAIN InOrder(S, q, tie) = 1..m /\ InOrder(S, q, tie) = [k \in 1..m |-> InOrder(S, q, tie)[k]]
  <2>1. DOMAIN InOrder(S, q, tie) = 1..m
    BY <1>4, Places
  <2>2. InOrder(S, q, tie) = [k \in DOMAIN InOrder(S, q, tie) |-> InOrder(S, q, tie)[k]]
    BY DEF InOrder
  <2> QED
    BY <2>1, <2>2
<1> QED
  BY <1>4, <1>6, <1>7

LEMMA LeastOfTwo ==
  ASSUME NEW a \in Nat, NEW b \in Nat
  PROVE  Min({a, b}) \in Nat /\ Min({a, b}) <= a /\ Min({a, b}) <= b /\ (Min({a, b}) = a \/ Min({a, b}) = b)
<1> DEFINE T == {a, b}
<1>1. T \in SUBSET Nat /\ T # {} /\ IsFiniteSet(T)
  <2>1. IsFiniteSet({a} \cup {b})
    BY FS_Singleton, FS_Union
  <2>2. T = {a} \cup {b}
    OBVIOUS
  <2> QED
    BY <2>1, <2>2
<1>2. (\A x \in T : x = a \/ x = b) /\ a \in T /\ b \in T
  OBVIOUS
<1> HIDE DEF T
<1>3. Min(T) \in T /\ \A x \in T : Min(T) <= x
  BY <1>1, MinIs
<1>4. Min(T) \in Nat /\ Min(T) <= a /\ Min(T) <= b /\ (Min(T) = a \/ Min(T) = b)
  BY <1>1, <1>2, <1>3
<1> QED
  BY <1>4 DEF T

\* A page of what is in order is in order, and has the rows of their places.
LEMMA CutIs ==
  ASSUME SpansInv, NEW tie \in Ties, NEW S, NEW q, Sorts(S, q), NEW limit \in Nat, NEW offset \in Nat,
         NEW last \in Nat, last <= Cardinality(S), last <= offset + limit,
         last = Cardinality(S) \/ last = offset + limit
  PROVE  /\ InOrder(Cut(S, q, limit, offset, tie), q, tie) = SubSeq(InOrder(S, q, tie), offset + 1, last)
         /\ offset + limit <= Cardinality(S) => Cardinality(Cut(S, q, limit, offset, tie)) = limit
<1> DEFINE n == Cardinality(S)
           C == Cut(S, q, limit, offset, tie)
           list == InOrder(S, q, tie)
           s == SubSeq(list, offset + 1, last)
           m == IF offset < last THEN last - offset ELSE 0
<1>1. /\ n \in Nat /\ \A k \in 1..n : list[k] \in S /\ Ahead(S, list[k], q, tie) = k - 1
      /\ \A a \in S : Ahead(S, a, q, tie) \in Nat /\ Ahead(S, a, q, tie) + 1 \in 1..n /\ list[Ahead(S, a, q, tie) + 1] = a
      /\ \A a, b \in S : Ahead(S, a, q, tie) < Ahead(S, b, q, tie) => Precedes(a, b, q, tie)
  BY Places
<1>2. last \in Nat /\ last <= n /\ last <= offset + limit /\ (last = n \/ last = offset + limit)
  OBVIOUS
<1> HIDE DEF list, n
<1>3. \A i \in (offset + 1)..last : list[i] \in C /\ Ahead(S, list[i], q, tie) = i - 1
  <2> TAKE i \in (offset + 1)..last
  <2>1. i \in 1..n /\ offset <= i - 1 /\ i - 1 < offset + limit
    BY <1>1, <1>2
  <2> QED
    BY <1>1, <2>1 DEF Cut
<1>4. /\ s \in Seq(C) /\ Len(s) = m /\ \A i \in 1..m : s[i] = list[offset + i]
  <2>1. offset + 1 \in Int /\ last \in Int /\ \A i \in (offset + 1)..last : list[i] \in C
    BY <1>2, <1>3
  <2>2. /\ s \in Seq(C) /\ Len(s) = IF offset + 1 <= last THEN last - (offset + 1) + 1 ELSE 0
        /\ \A i \in 1..(last - (offset + 1) + 1) : s[i] = list[(offset + 1) + i - 1]
    BY <2>1, SubSeqProperties
  <2>3. m = (IF offset + 1 <= last THEN last - (offset + 1) + 1 ELSE 0) /\ 1..m = 1..(last - (offset + 1) + 1)
    BY <1>2
  <2>4. \A i \in 1..m : (offset + 1) + i - 1 = offset + i
    BY <1>2
  <2> HIDE DEF s, m
  <2> QED
    BY <2>2, <2>3, <2>4
<1>5. m \in Nat /\ \A i \in 1..m : offset + i \in (offset + 1)..last
  BY <1>2
<1> HIDE DEF s, m, C
<1>6. DOMAIN s = 1..m /\ s \in [1..m -> C]
  BY <1>4, LenProperties, SeqDef
<1>7. \A a \in C : \E i \in 1..m : s[i] = a
  <2> TAKE a \in C
  <2>1. a \in S /\ offset <= Ahead(S, a, q, tie) /\ Ahead(S, a, q, tie) < offset + limit
    BY DEF C, Cut
  <2>2. Ahead(S, a, q, tie) \in Nat /\ Ahead(S, a, q, tie) + 1 \in 1..n /\ list[Ahead(S, a, q, tie) + 1] = a
    BY <1>1, <2>1
  <2> DEFINE i == Ahead(S, a, q, tie) - offset + 1
  <2>3. i \in 1..m /\ offset + i = Ahead(S, a, q, tie) + 1
    BY <1>1, <1>2, <2>1, <2>2 DEF m
  <2> QED
    BY <1>4, <2>2, <2>3
<1>8. \A i, j \in 1..m : i < j => Precedes(s[i], s[j], q, tie)
  <2> SUFFICES ASSUME NEW i \in 1..m, NEW j \in 1..m, i < j PROVE Precedes(s[i], s[j], q, tie)
    OBVIOUS
  <2>1. /\ s[i] = list[offset + i] /\ s[j] = list[offset + j]
        /\ list[offset + i] \in C /\ list[offset + j] \in C
        /\ Ahead(S, list[offset + i], q, tie) = offset + i - 1 /\ Ahead(S, list[offset + j], q, tie) = offset + j - 1
    <3>1. s[i] = list[offset + i] /\ s[j] = list[offset + j]
      BY <1>4
    <3>2. offset + i \in (offset + 1)..last /\ offset + j \in (offset + 1)..last
      BY <1>5
    <3> QED
      BY <1>3, <3>1, <3>2
  <2>2. C \subseteq S
    BY DEF C, Cut
  <2>3. offset + i - 1 < offset + j - 1
    BY <1>5
  <2> QED
    BY <1>1, <2>1, <2>2, <2>3
<1>9. Sorts(C, q)
  BY SortsPart DEF C, Cut
<1>10. InOrder(C, q, tie) = s /\ Cardinality(C) = m
  BY <1>5, <1>6, <1>7, <1>8, <1>9, OneOrder
<1>11. offset + limit <= n => m = limit
  BY <1>1, <1>2 DEF m
<1>12. InOrder(C, q, tie) = SubSeq(list, offset + 1, last)
  BY <1>10, Zenon DEF s
<1>13. offset + limit <= n => Cardinality(C) = limit
  BY <1>10, <1>11
<1> QED
  BY <1>12, <1>13, Zenon DEF C, list, n

\* A page with room for all of them has all of them.
LEMMA CutAll ==
  ASSUME SpansInv, NEW tie \in Ties, NEW S, NEW q, Sorts(S, q), NEW limit \in Nat, Cardinality(S) <= limit
  PROVE  Cut(S, q, limit, 0, tie) = S
<1>1. \A a \in S : 0 <= Ahead(S, a, q, tie) /\ Ahead(S, a, q, tie) < 0 + limit
  <2> TAKE a \in S
  <2>1. Ahead(S, a, q, tie) \in Nat /\ Ahead(S, a, q, tie) + 1 \in 1..Cardinality(S) /\ Cardinality(S) \in Nat
    BY Places
  <2> QED
    BY <2>1
<1> QED
  BY <1>1 DEF Cut

\* What is listed are the rows.
LEMMA AllInOrder ==
  ASSUME SpansInv, NEW tie \in Ties, NEW S, NEW q, Sorts(S, q)
  PROVE  {InOrder(S, q, tie)[i] : i \in DOMAIN InOrder(S, q, tie)} = S
<1>1. /\ DOMAIN InOrder(S, q, tie) = 1..Cardinality(S)
      /\ \A k \in 1..Cardinality(S) : InOrder(S, q, tie)[k] \in S
      /\ \A a \in S : Ahead(S, a, q, tie) + 1 \in 1..Cardinality(S) /\ InOrder(S, q, tie)[Ahead(S, a, q, tie) + 1] = a
  BY Places
<1> QED
  BY <1>1

\* The rows of a trace are of it, and say the same of it.
LEMMA JoinedRows ==
  ASSUME NEW T, NEW a
  PROVE  a \in JoinAll(T) <=> \E t \in T : \E n \in {1} \cup 1..LiveScans(t) : a = Row(t, n)
BY DEF JoinAll, Joined

LEMMA RowIs == \A t, n : Row(t, n).trace = t /\ Row(t, n).scan = n /\ Row(t, n).cost = Row(t, 1).cost
BY DEF Row

LEMMA ScansLive == ASSUME SpansInv PROVE \A t \in Spans : LiveScans(t) \in Nat
BY DEF SpansInv, LiveScans

LEMMA HereFinite == \A T \in SUBSET Here : IsFiniteSet(T)
<1>1. \A T \in SUBSET Here : T \in SUBSET Spans
  BY DEF Here
<1> QED
  BY <1>1, StoreAssumption, FS_Subset

LEMMA JoinedSorts ==
  ASSUME SpansInv, NEW q, q.sort \in {"newest", "oldest", "cost_desc"}, NEW T \in SUBSET Here
  PROVE  Sorts(JoinAll(T), q)
<1> DEFINE part == [t \in T |-> Joined(t)]
           S == JoinAll(T)
<1>1. IsFiniteSet(T) /\ \A t \in T : t \in Spans /\ LiveScans(t) \in Nat
  BY HereFinite, ScansLive DEF Here
<1>2. \A t \in T : IsFiniteSet(part[t])
  <2> TAKE t \in T
  <2> DEFINE I == {1} \cup 1..LiveScans(t)
             f == [n \in I |-> Row(t, n)]
  <2>1. IsFiniteSet(I)
    <3>1. IsFiniteSet({1}) /\ IsFiniteSet(1..LiveScans(t))
      <4>1. 1 \in Int /\ LiveScans(t) \in Int
        BY <1>1
      <4> QED
        BY <4>1, FS_Singleton, FS_Interval
    <3> QED
      BY <3>1, FS_Union
  <2>2. part[t] = {f[n] : n \in I}
    BY DEF Joined
  <2> HIDE DEF f, I, part
  <2> QED
    BY <2>1, <2>2, ImageFinite
<1>3. S = AllOf(part, T)
  BY DEF JoinAll, AllOf
<1>4. IsFiniteSet(S)
  <2> DEFINE w == [a \in S |-> 0]
  <2>1. \A i, j \in T : i # j => part[i] \cap part[j] = {}
    <3> SUFFICES ASSUME NEW i \in T, NEW j \in T, i # j, NEW a \in part[i], a \in part[j] PROVE FALSE
      OBVIOUS
    <3>1. a.trace = i /\ a.trace = j
      BY RowIs DEF Joined
    <3> QED
      BY <3>1
  <2>2. \A i \in T : \A x \in part[i] : w[x] \in Int
    <3>1. \A i \in T : part[i] \subseteq S
      BY DEF JoinAll
    <3> QED
      BY <3>1
  <2> HIDE DEF w, part, S
  <2> QED
    BY <1>1, <1>2, <1>3, <2>1, <2>2, SumParts
<1>5. \A a \in S : \E t \in T : \E n \in Nat : a = Row(t, n)
  <2>1. \A t \in T : \A n \in {1} \cup 1..LiveScans(t) : n \in Nat
    OBVIOUS
  <2> QED
    BY <2>1, JoinedRows
<1>6. Numbered(S)
  <2>1. \A a \in S : a.trace \in Here /\ a.scan \in Nat
    BY <1>5, RowIs
  <2>2. \A a, b \in S : a.trace = b.trace /\ a.scan = b.scan => a = b
    BY <1>5, RowIs
  <2> QED
    BY <1>4, <2>1, <2>2 DEF Numbered
<1>7. \A a, b \in S : a.cost \in Nat /\ (a.trace = b.trace => a.cost = b.cost)
  <2>1. \A t \in T : Row(t, 1).cost \in Nat
    BY <1>1, StoreAssumption DEF Row
  <2> QED
    BY <1>5, <2>1, RowIs
<1> QED
  BY <1>6, <1>7 DEF Sorts

LEMMA BareSorts ==
  ASSUME SpansInv, NEW q, q.sort \in {"newest", "oldest"}, NEW T \in SUBSET Here
  PROVE  Sorts(Bare(T), q) /\ Cardinality(Bare(T)) = Cardinality(T)
<1> DEFINE f == [t \in T |-> [trace |-> t, scan |-> 0]]
<1>1. f \in Bijection(T, Bare(T))
  <2>1. f \in [T -> Bare(T)] /\ \A i, j \in T : f[i] = f[j] => i = j
    BY DEF Bare
  <2>2. \A x \in Bare(T) : \E i \in T : f[i] = x
    BY DEF Bare
  <2> QED
    BY <2>1, <2>2 DEF Bijection, Injection, Surjection, IsInjective
<1>2. IsFiniteSet(T)
  BY HereFinite
<1> HIDE DEF f
<1>3. IsFiniteSet(Bare(T)) /\ Cardinality(Bare(T)) = Cardinality(T)
  BY <1>1, <1>2, FS_Bijection DEF ExistsBijection
<1>4. Numbered(Bare(T))
  BY <1>3 DEF Numbered, Bare
<1> QED
  BY <1>3, <1>4 DEF Sorts

\* Of traces that are known by one row each, that many are sooner.
Sooner(s, t, q, tie) ==
  IF q.sort = "newest" THEN Later(s, t, tie)
    ELSE CameIn(s) < CameIn(t) \/ (CameIn(s) = CameIn(t) /\ tie[s] < tie[t])
Place(T, t, q, tie) == Cardinality({s \in T : Sooner(s, t, q, tie)})

ByOne(S, T, m) ==
  (\A t \in T : m[t].trace = t /\ m[t].scan \in Nat) /\ \A a : a \in S <=> \E s \in T : a = m[s]

LEMMA PlacesOf ==
  ASSUME SpansInv, NEW tie \in Ties, NEW q, q.sort \in {"newest", "oldest"}, NEW T \in SUBSET Here, NEW m, NEW S, ByOne(S, T, m),
         NEW t \in T
  PROVE  Ahead(S, m[t], q, tie) = Place(T, t, q, tie)
<1> USE DEF ByOne
<1> DEFINE A == {s \in T : Sooner(s, t, q, tie)}
           B == {a \in S : Precedes(a, m[t], q, tie)}
           f == [s \in A |-> m[s]]
<1>1. \A s \in T : Precedes(m[s], m[t], q, tie) <=> Sooner(s, t, q, tie)
  <2> TAKE s \in T
  <2>0. CameIn(s) \in Nat /\ CameIn(t) \in Nat /\ tie[s] \in Nat /\ tie[t] \in Nat
    BY CameAt, TiesTell
  <2>1. CASE s = t
    <3>1. ~Sooner(t, t, q, tie)
      BY <2>0, <2>1 DEF Sooner, Later
    <3>2. ~(m[t].scan < m[t].scan)
      OBVIOUS
    <3> QED
      BY <2>1, <3>1, <3>2 DEF Precedes
  <2>2. CASE s # t /\ q.sort = "newest"
    BY <2>0, <2>2 DEF Precedes, Leads, Sooner, Later
  <2>3. CASE s # t /\ q.sort = "oldest"
    BY <2>0, <2>3 DEF Precedes, Leads, Sooner, Later
  <2> QED
    BY <2>1, <2>2, <2>3
<1>2. f \in Bijection(A, B)
  <2>1. f \in [A -> B]
    BY <1>1
  <2>2. \A i, j \in A : f[i] = f[j] => i = j
    OBVIOUS
  <2>3. \A x \in B : \E i \in A : f[i] = x
    BY <1>1
  <2> QED
    BY <2>1, <2>2, <2>3 DEF Bijection, Injection, Surjection, IsInjective
<1>3. IsFiniteSet(A)
  <2>1. A \in SUBSET Here
    OBVIOUS
  <2> QED
    BY <2>1, HereFinite
<1> HIDE DEF f, A, B
<1>4. Cardinality(B) = Cardinality(A)
  BY <1>2, <1>3, FS_Bijection DEF ExistsBijection
<1> QED
  BY <1>4, Zenon DEF A, B, Ahead, Place

\* The traces of a page that is cut before anything is joined.
PageOf(q, limit, offset, tie) ==
  {t \in Matching(q) : offset <= Place(Matching(q), t, q, tie) /\ Place(Matching(q), t, q, tie) < offset + limit}

LEMMA FastIs ==
  ASSUME SpansInv, NEW tie \in Ties, NEW q, q.sort \in {"newest", "oldest"}, NEW limit, NEW offset
  PROVE  FastPage(q, limit, offset, tie) = JoinAll(PageOf(q, limit, offset, tie))
<1> DEFINE T == Matching(q)
           m == [t \in T |-> [trace |-> t, scan |-> 0]]
           C == Cut(Bare(T), q, limit, offset, tie)
<1>1. T \in SUBSET Here
  BY DEF Matching
<1>2. \A t \in T : m[t].trace = t /\ m[t].scan \in Nat
  OBVIOUS
<1>3. \A a : a \in Bare(T) <=> \E s \in T : a = m[s]
  BY DEF Bare
<1> HIDE DEF m, T
<1>4. ByOne(Bare(T), T, m)
  BY <1>2, <1>3, Zenon DEF ByOne
<1>5. \A t \in T : Ahead(Bare(T), m[t], q, tie) = Place(T, t, q, tie)
  BY <1>1, <1>4, PlacesOf
<1>6. \A a : a \in C <=> \E t \in T : a = m[t] /\ offset <= Place(T, t, q, tie) /\ Place(T, t, q, tie) < offset + limit
  BY <1>3, <1>5 DEF Cut
<1>7. \A t : t \in PageOf(q, limit, offset, tie) <=> t \in T /\ offset <= Place(T, t, q, tie) /\ Place(T, t, q, tie) < offset + limit
  BY DEF PageOf, T
<1> HIDE DEF C
<1>8. {a.trace : a \in C} = PageOf(q, limit, offset, tie)
  BY <1>2, <1>6, <1>7
<1> QED
  BY <1>8, Zenon DEF FastPage, C, T

LEMMA JoinTraces == \A T : {row.trace : row \in JoinAll(T)} = T
<1> TAKE T
<1>1. \A row \in JoinAll(T) : row.trace \in T
  BY JoinedRows, RowIs
<1>2. \A t \in T : Row(t, 1) \in JoinAll(T) /\ Row(t, 1).trace = t
  BY RowIs, JoinedRows
<1> QED
  BY <1>1, <1>2

\* A trace has a row at least.
LEMMA JoinLarge ==
  ASSUME SpansInv, NEW T \in SUBSET Here
  PROVE  /\ IsFiniteSet(JoinAll(T)) /\ Cardinality(JoinAll(T)) \in Nat
         /\ Cardinality(T) <= Cardinality(JoinAll(T)) /\ Cardinality(T) \in Nat
<1> DEFINE q == [sort |-> "newest"]
           f == [t \in T |-> Row(t, 1)]
           S == JoinAll(T)
<1>1. q.sort \in {"newest", "oldest", "cost_desc"}
  OBVIOUS
<1> HIDE DEF q
<1>2. IsFiniteSet(S)
  BY <1>1, JoinedSorts DEF Sorts, Numbered
<1>3. \A t \in T : Row(t, 1) \in S
  BY JoinedRows
<1> HIDE DEF S
<1>4. f \in Injection(T, S)
  <2>1. f \in [T -> S] /\ \A i, j \in T : f[i] = f[j] => i = j
    BY <1>3, RowIs
  <2> QED
    BY <2>1 DEF Injection, IsInjective
<1> HIDE DEF f
<1>5. Cardinality(T) <= Cardinality(S)
  BY <1>2, <1>4, FS_Injection
<1>6. Cardinality(S) \in Nat /\ Cardinality(T) \in Nat
  BY <1>2, HereFinite, FS_CardinalityType
<1> QED
  BY <1>2, <1>5, <1>6 DEF S

Sortable(q) == q.sort \in {"newest", "oldest", "cost_desc"}

LEMMA QualifiedSorts ==
  ASSUME SpansInv, NEW q, Sortable(q)
  PROVE  /\ Matching(q) \in SUBSET Here /\ Qualified(q) \in SUBSET JoinAll(Matching(q))
         /\ Sorts(JoinAll(Matching(q)), q) /\ Sorts(Qualified(q), q)
         /\ Cardinality(Qualified(q)) <= Cardinality(JoinAll(Matching(q)))
<1>1. Matching(q) \in SUBSET Here /\ Qualified(q) \in SUBSET JoinAll(Matching(q))
  BY DEF Matching, Qualified
<1>2. Sorts(JoinAll(Matching(q)), q)
  BY <1>1, JoinedSorts DEF Sortable
<1>3. Sorts(Qualified(q), q)
  BY <1>1, <1>2, SortsPart
<1>4. Cardinality(Qualified(q)) <= Cardinality(JoinAll(Matching(q)))
  BY <1>1, JoinLarge, FS_Subset
<1> QED
  BY <1>1, <1>2, <1>3, <1>4

\* Where no joined value is asked for, all that is joined is listed.
LEMMA AllQualify ==
  ASSUME NEW q, ~PostJoin(q)
  PROVE  Qualified(q) = JoinAll(Matching(q))
<1>1. \A row : BySecurity(row, q) /\ ByQuality(row, q)
  BY DEF PostJoin, BySecurity, ByQuality
<1> QED
  BY <1>1 DEF Qualified

LEMMA BareTraces == \A T : {row.trace : row \in Bare(T)} = T
<1> TAKE T
<1>1. \A row \in Bare(T) : row.trace \in T
  BY DEF Bare
<1>2. \A t \in T : [trace |-> t, scan |-> 0] \in Bare(T)
  BY DEF Bare
<1>3. \A t : [trace |-> t, scan |-> 0].trace = t
  OBVIOUS
<1>4. \A t \in T : \E row \in Bare(T) : row.trace = t
  BY <1>2, <1>3
<1> QED
  BY <1>1, <1>4

\* A page with room for all lists all that qualifies.
LEMMA ListedIs ==
  ASSUME SpansInv, NEW q, Sortable(q)
  PROVE  Listed(q) = {row.trace : row \in Qualified(q)}
<1> DEFINE T == Matching(q)
           n == Cardinality(JoinAll(T))
           cut == IF PostJoin(q) \/ SortsOnJoin(q) THEN SlowPage(q, n, 0, AnyTie) ELSE FastPage(q, n, 0, AnyTie)
<1>1. /\ T \in SUBSET Here /\ n \in Nat /\ Cardinality(T) <= n
      /\ Sorts(Qualified(q), q) /\ Cardinality(Qualified(q)) <= n
  BY QualifiedSorts, JoinLarge
<1>t. AnyTie \in Ties
  BY QueriesAssumption DEF AnyTie
<1>2. cut = Qualified(q)
  <2>1. CASE PostJoin(q) \/ SortsOnJoin(q)
    BY <1>t, <1>1, <2>1, CutAll DEF SlowPage
  <2>2. CASE ~PostJoin(q) /\ ~SortsOnJoin(q)
    <3>1. q.sort \in {"newest", "oldest"}
      BY <2>2 DEF Sortable, SortsOnJoin
    <3>2. Cut(Bare(T), q, n, 0, AnyTie) = Bare(T)
      <4>1. Sorts(Bare(T), q) /\ Cardinality(Bare(T)) <= n
        BY <1>1, <3>1, BareSorts
      <4> DEFINE B == Bare(T)
      <4>2. Sorts(B, q) /\ Cardinality(B) <= n /\ n \in Nat
        BY <1>1, <4>1
      <4> HIDE DEF n, T, B
      <4>3. Cut(B, q, n, 0, AnyTie) = B
        BY <1>t, <4>2, CutAll
      <4> QED
        BY <4>3, Zenon DEF B
    <3>3. {row.trace : row \in Bare(T)} = T
      BY BareTraces
    <3>4. FastPage(q, n, 0, AnyTie) = JoinAll({row.trace : row \in Cut(Bare(T), q, n, 0, AnyTie)})
      BY Zenon DEF FastPage, T, n
    <3> HIDE DEF n, T
    <3>5. FastPage(q, n, 0, AnyTie) = JoinAll(T)
      BY <3>2, <3>3, <3>4
    <3> QED
      BY <2>2, <3>5, AllQualify DEF T
  <2> QED
    BY <2>1, <2>2
<1>3. Page(q, n, 0, AnyTie) = InOrder(Qualified(q), q, AnyTie)
  <2>1. Page(q, n, 0, AnyTie) = InOrder(cut, q, AnyTie)
    BY Zenon DEF Page, cut
  <2> HIDE DEF cut
  <2> QED
    BY <1>2, <2>1
<1>4. {InOrder(Qualified(q), q, AnyTie)[i] : i \in DOMAIN InOrder(Qualified(q), q, AnyTie)} = Qualified(q)
  BY <1>t, <1>1, AllInOrder
<1>5. Listed(q) = {Page(q, n, 0, AnyTie)[i].trace : i \in DOMAIN Page(q, n, 0, AnyTie)}
  BY Zenon DEF Listed, n, T
<1> DEFINE list == InOrder(Qualified(q), q, AnyTie)
           Q == Qualified(q)
<1>6. Listed(q) = {list[i].trace : i \in DOMAIN list} /\ {list[i] : i \in DOMAIN list} = Q
  BY <1>3, <1>4, <1>5
<1> HIDE DEF list, Q
<1>7. {list[i].trace : i \in DOMAIN list} = {row.trace : row \in Q}
  BY <1>6
<1> QED
  BY <1>6, <1>7 DEF Q

\* Where no joined value is asked for, the list has all that match.
LEMMA ListedAll ==
  ASSUME SpansInv, NEW q, Sortable(q), ~PostJoin(q)
  PROVE  Listed(q) = Matching(q)
<1>1. Qualified(q) = JoinAll(Matching(q))
  BY AllQualify
<1>2. Listed(q) = {row.trace : row \in JoinAll(Matching(q))}
  BY <1>1, ListedIs
<1> QED
  BY <1>2, JoinTraces

\* Where every trace has one row, it does not matter whether a page is cut first.
LEMMA FastIsSlow ==
  ASSUME SpansInv, NEW tie \in Ties, NEW q, Sortable(q), ~PostJoin(q), ~SortsOnJoin(q), ScannedOnce, NEW limit, NEW offset
  PROVE  FastPage(q, limit, offset, tie) = SlowPage(q, limit, offset, tie)
<1> DEFINE T == Matching(q)
           m == [t \in T |-> Row(t, 1)]
           S == JoinAll(T)
<1>1. T \in SUBSET Here /\ q.sort \in {"newest", "oldest"}
  BY DEF Matching, Sortable, SortsOnJoin
<1>2. \A t \in T : {1} \cup 1..LiveScans(t) = {1}
  <2> TAKE t \in T
  <2>1. LiveScans(t) \in Nat /\ LiveScans(t) <= 1
    BY <1>1, ScansLive DEF ScannedOnce, Here
  <2> QED
    BY <2>1
<1>3. \A P \in SUBSET T : \A a : a \in JoinAll(P) <=> \E t \in P : a = m[t]
  <2> TAKE P \in SUBSET T
  <2>1. \A a : a \in JoinAll(P) <=> \E t \in P : \E n \in {1} \cup 1..LiveScans(t) : a = Row(t, n)
    BY JoinedRows
  <2>2. \A t \in P : t \in T /\ m[t] = Row(t, 1)
    OBVIOUS
  <2>3. \A a : \A t \in P : (\E n \in {1} \cup 1..LiveScans(t) : a = Row(t, n)) <=> a = m[t]
    BY <1>2, <2>2
  <2> HIDE DEF m, T
  <2> QED
    BY <2>1, <2>3
<1>4. \A t \in T : m[t].trace = t /\ m[t].scan \in Nat
  BY RowIs
<1> HIDE DEF m, T
<1>5. ByOne(S, T, m)
  BY <1>3, <1>4 DEF ByOne
<1>6. \A t \in T : Ahead(S, m[t], q, tie) = Place(T, t, q, tie)
  <2> HIDE DEF S
  <2> QED
    BY <1>1, <1>5, PlacesOf
<1>7. SlowPage(q, limit, offset, tie) = Cut(S, q, limit, offset, tie)
  BY AllQualify, Zenon DEF SlowPage, S, T
<1>8. FastPage(q, limit, offset, tie) = JoinAll(PageOf(q, limit, offset, tie))
  BY <1>1, FastIs
<1>9. \A t : t \in PageOf(q, limit, offset, tie) <=> t \in T /\ offset <= Place(T, t, q, tie) /\ Place(T, t, q, tie) < offset + limit
  BY DEF PageOf, T
<1> DEFINE P == PageOf(q, limit, offset, tie)
<1>10. P \in SUBSET T
  BY <1>9
<1>99. \A t \in T : t \in P <=> offset <= Place(T, t, q, tie) /\ Place(T, t, q, tie) < offset + limit
  BY <1>9
<1> HIDE DEF P
<1>11. \A a : a \in JoinAll(P) <=> \E t \in P : a = m[t]
  BY <1>3, <1>10
<1>12. \A a : a \in S <=> \E t \in T : a = m[t]
  BY <1>5 DEF ByOne
<1> HIDE DEF S
<1>13. \A a : a \in Cut(S, q, limit, offset, tie) <=> a \in S /\ offset <= Ahead(S, a, q, tie) /\ Ahead(S, a, q, tie) < offset + limit
  BY DEF Cut
<1>14. \A t \in T : m[t] \in Cut(S, q, limit, offset, tie) <=> t \in P
  <2> TAKE t \in T
  <2>1. m[t] \in S /\ Ahead(S, m[t], q, tie) = Place(T, t, q, tie)
    BY <1>6, <1>12
  <2>2. m[t] \in Cut(S, q, limit, offset, tie) <=> offset <= Place(T, t, q, tie) /\ Place(T, t, q, tie) < offset + limit
    BY <1>13, <2>1
  <2> QED
    BY <1>99, <2>2
<1>15. \A a : a \in Cut(S, q, limit, offset, tie) => \E t \in T : a = m[t]
  BY <1>12, <1>13
<1>16. \A a : a \in Cut(S, q, limit, offset, tie) <=> a \in JoinAll(P)
  BY <1>10, <1>11, <1>14, <1>15
<1> DEFINE C == Cut(S, q, limit, offset, tie)
           joined == JoinAll(P)
<1> HIDE DEF C, joined
<1>17. C = joined
  <2>1. \A a : a \in C <=> a \in joined
    BY <1>16 DEF C, joined
  <2> QED
    BY <2>1
<1> QED
  BY <1>7, <1>8, <1>17, Zenon DEF P, C, joined

\* Pages of the joined and narrowed list, each of its traces once.
LEMMA PagesAreCut == ASSUME SpansInv PROVE PagesAgree
<1> SUFFICES ASSUME ScannedOnce, NEW q \in Queries, ~Unanswered(q)
             PROVE  /\ \A tie \in Ties : LET list == InOrder(Qualified(q), q, tie) IN
                         /\ \A page \in Pages :
                              Page(q, page.limit, page.offset, tie)
                                = SubSeq(list, page.offset + 1, Min({Len(list), page.offset + page.limit}))
                         /\ Cardinality(Listed(q)) = Len(list)
                    /\ \A row \in Qualified(q), tie, other \in Ties :
                         Alone(row, Qualified(q), q) =>
                           Ahead(Qualified(q), row, q, tie) = Ahead(Qualified(q), row, q, other)
  BY Zenon DEF PagesAgree
<1> DEFINE S == Qualified(q)
<1>1. Sortable(q)
  BY QueriesAssumption DEF Sortable
<1>2. Sorts(S, q) /\ IsFiniteSet(S)
  BY <1>1, QualifiedSorts DEF Sorts, Numbered
<1>5. Cardinality(Listed(q)) = Cardinality(S)
  <2>1. \A a, b \in S : a.trace = b.trace => a = b
    <3>1. \A a \in S : \E t \in Matching(q) : \E n \in {1} \cup 1..LiveScans(t) : a = Row(t, n)
      BY JoinedRows DEF Qualified
    <3>2. \A t \in Matching(q) : LiveScans(t) \in Nat /\ LiveScans(t) <= 1
      BY ScansLive DEF ScannedOnce, Here, Matching
    <3>3. \A t \in Matching(q) : \A n \in {1} \cup 1..LiveScans(t) : n = 1
      BY <3>2
    <3>4. \A a \in S : \E t \in Matching(q) : a = Row(t, 1)
      BY <3>1, <3>3
    <3> QED
      BY <3>4, RowIs
  <2> DEFINE f == [a \in S |-> a.trace]
             L == {row.trace : row \in S}
  <2>2. f \in Bijection(S, L)
    <3> HIDE DEF S
    <3>1. f \in [S -> L] /\ \A i, j \in S : f[i] = f[j] => i = j
      BY <2>1
    <3>2. \A x \in L : \E i \in S : f[i] = x
      OBVIOUS
    <3> QED
      BY <3>1, <3>2 DEF Bijection, Injection, Surjection, IsInjective
  <2> HIDE DEF f, S, L
  <2>3. Cardinality(L) = Cardinality(S)
    BY <1>2, <2>2, FS_Bijection DEF ExistsBijection
  <2> QED
    BY <1>1, <2>3, ListedIs, Zenon DEF L, S
<1>6. ASSUME NEW tie \in Ties
      PROVE  LET list == InOrder(S, q, tie) IN
               /\ \A page \in Pages :
                    Page(q, page.limit, page.offset, tie)
                      = SubSeq(list, page.offset + 1, Min({Len(list), page.offset + page.limit}))
               /\ Cardinality(Listed(q)) = Len(list)
  <2> DEFINE list == InOrder(S, q, tie)
  <2>3. Len(list) = Cardinality(S) /\ Cardinality(S) \in Nat
    <3>1. DOMAIN list = 1..Cardinality(S) /\ Cardinality(S) \in Nat /\ \A k \in 1..Cardinality(S) : list[k] \in S
      BY <1>2, Places
    <3>2. list \in [1..Cardinality(S) -> S]
      <4>1. list = [k \in DOMAIN list |-> list[k]]
        BY DEF InOrder
      <4> QED
        BY <3>1, <4>1
    <3>3. list \in Seq(S)
      BY <3>1, <3>2, SeqDef
    <3> QED
      BY <3>1, <3>3, LenProperties
  <2>4. ASSUME NEW limit \in Nat, NEW offset \in Nat
        PROVE  Page(q, limit, offset, tie) = SubSeq(list, offset + 1, Min({Len(list), offset + limit}))
    <3>1. Page(q, limit, offset, tie) = InOrder(SlowPage(q, limit, offset, tie), q, tie)
      BY <1>1, FastIsSlow, Zenon DEF Page
    <3>2. SlowPage(q, limit, offset, tie) = Cut(S, q, limit, offset, tie)
      BY DEF SlowPage
    <3> DEFINE last == Min({Cardinality(S), offset + limit})
    <3>4. /\ last \in Nat /\ last <= Cardinality(S) /\ last <= offset + limit
          /\ last = Cardinality(S) \/ last = offset + limit
      <4>1. Cardinality(S) \in Nat /\ offset + limit \in Nat
        BY <2>3
      <4> QED
        BY <4>1, LeastOfTwo
    <3> HIDE DEF last
    <3>5. InOrder(Cut(S, q, limit, offset, tie), q, tie) = SubSeq(InOrder(S, q, tie), offset + 1, last)
      BY <1>2, <3>4, CutIs
    <3>7. Page(q, limit, offset, tie) = SubSeq(list, offset + 1, last)
      BY <3>1, <3>2, <3>5, Zenon
    <3> QED
      BY <2>3, <3>7, Zenon DEF last
  <2> HIDE DEF list
  <2>6. Cardinality(Listed(q)) = Len(list)
    BY <1>5, <2>3
  <2>7. \A page \in Pages : page.limit \in Nat /\ page.offset \in Nat
    BY QueriesAssumption
  <2> QED
    BY <2>4, <2>6, <2>7, Zenon DEF list
<1>7. ASSUME NEW row \in S, NEW tie \in Ties, NEW other \in Ties, Alone(row, S, q)
      PROVE  Ahead(S, row, q, tie) = Ahead(S, row, q, other)
  <2>1. \A a \in S : Precedes(a, row, q, tie) <=> Precedes(a, row, q, other)
    <3> TAKE a \in S
    <3>1. a.trace # row.trace => Leads(a, row, q) \/ Leads(row, a, q)
      <4>1. a.trace # row.trace => a \in S \ {row}
        OBVIOUS
      <4> QED
        BY <1>7, <4>1 DEF Alone
    <3> QED
      BY <3>1 DEF Precedes
  <2>2. {a \in S : Precedes(a, row, q, tie)} = {a \in S : Precedes(a, row, q, other)}
    BY <2>1
  <2> QED
    BY <2>2, Zenon DEF Ahead
<1> QED
  BY <1>6, <1>7, Zenon DEF S

\* A query for runs, narrowed by no more than a status, a kind of danger, a tag or an agent.
Of(q, status, security, tag) ==
  /\ q.roots /\ q.agent = "" /\ q.root = "" /\ q.sort = "newest" /\ q.quality = "all"
  /\ q.status = status /\ q.security = security /\ q.tag = tag

LEMMA RunsOfKind ==
  ASSUME NEW status, NEW security, NEW tag, NEW q, Of(q, status, security, tag)
  PROVE  /\ Sortable(q) /\ (PostJoin(q) <=> security \notin {"all", "flagged"})
         /\ \A t : t \in Matching(q) <=>
              /\ t \in Here /\ TopLevel(t) /\ (tag # "" => tag \in TagsOf(t))
              /\ HasStatus(t, q) /\ (security = "flagged" => Flagged(t))
<1>1. Sortable(q) /\ (PostJoin(q) <=> security \notin {"all", "flagged"})
  BY DEF Of, Sortable, PostJoin
<1>2. \A t : Narrowed(t, q) <=> /\ TopLevel(t) /\ (tag # "" => tag \in TagsOf(t))
                                /\ HasStatus(t, q) /\ (security = "flagged" => Flagged(t))
  BY DEF Of, Narrowed
<1> QED
  BY <1>1, <1>2 DEF Matching

LEMMA AllRuns ==
  /\ Of([Runs EXCEPT !.status = "failed"], "failed", "all", "")
  /\ Of([Runs EXCEPT !.security = "flagged"], "all", "flagged", "")
  /\ Of([Runs EXCEPT !.security = "clean"], "all", "clean", "")
  /\ \A n : Of([Runs EXCEPT !.tag = n], "all", "all", n)
BY DEF Runs, Of

LEMMA BelowInTree ==
  ASSUME NEW t \in Here
  PROVE  Below(t) \subseteq Tree(SpanOf[t].root)
<1>1. \A s \in Spans, x \in Spans : IsChild(s, x) => SpanOf[s].root = SpanOf[x].root
  BY QueriesAssumption DEF IsChild
<1>2. t \in Spans /\ \A s \in Here : s \in Spans
  BY DEF Here
<1> SUFFICES ASSUME NEW s \in Below(t) PROVE s \in Here /\ SpanOf[s].root = SpanOf[t].root
  BY DEF Tree
<1>3. s \in Here /\ (s = t \/ IsChild(s, t) \/ \E m \in Spans : IsChild(s, m) /\ IsChild(m, t))
  BY DEF Below
<1> QED
  BY <1>1, <1>2, <1>3

LEMMA TaggedAre == ASSUME labels \subseteq Rows PROVE \A t, n : n \in TagsOf(t) => t \in Labelled
<1> SUFFICES ASSUME NEW t, NEW n, n \in TagsOf(t), t \notin Labelled PROVE FALSE
  OBVIOUS
<1>1. \A row \in labels : row.trace \in Labelled
  BY DEF Rows
<1>2. Final(t, n) = {}
  BY <1>1 DEF Final
<1>3. Shown(t, n) = ""
  BY <1>2 DEF Shown
<1>4. "on" # ""
  OBVIOUS
<1> QED
  BY <1>3, <1>4 DEF TagsOf

\* Of a run that is clean by its own row, either nothing was scanned or nothing found.
LEMMA CleanRow ==
  ASSUME NEW t \in Spans, NEW n
  PROVE  Row(t, n).level = "" <=> LiveScans(t) = 0 \/ SpanOf[t].risk = 0
<1>1. SpanOf[t].risk \in 0..3
  BY StoreAssumption
<1>2. SpanOf[t].risk \in 1..3 => Level(SpanOf[t].risk) \in {"low", "medium", "high"}
  <2>1. CASE SpanOf[t].risk = 1
    BY <2>1 DEF Level
  <2>2. CASE SpanOf[t].risk = 2
    BY <2>2 DEF Level
  <2>3. CASE SpanOf[t].risk = 3
    BY <2>3 DEF Level
  <2> QED
    BY <2>1, <2>2, <2>3
<1>3. SpanOf[t].risk # 0 => Level(SpanOf[t].risk) # ""
  <2>1. SpanOf[t].risk # 0 => SpanOf[t].risk \in 1..3
    BY <1>1
  <2>2. "" \notin {"low", "medium", "high"}
    OBVIOUS
  <2> QED
    BY <1>2, <2>1, <2>2
<1>4. Row(t, n).level = IF LiveScans(t) = 0 \/ SpanOf[t].risk = 0 THEN "" ELSE Level(SpanOf[t].risk)
  BY DEF Row
<1> QED
  BY <1>3, <1>4

LEMMA RowsInJoin == \A T : \A row \in JoinAll(T) : row.trace \in T /\ row.level = Row(row.trace, 1).level
<1>1. \A t, n : Row(t, n).level = Row(t, 1).level /\ Row(t, n).trace = t
  BY DEF Row
<1> QED
  BY <1>1, JoinedRows

LEMMA CleanRuns ==
  ASSUME SpansInv, NEW q, Of(q, "all", "clean", "")
  PROVE  \A t : t \in Listed(q) <=> t \in Here /\ TopLevel(t) /\ (LiveScans(t) = 0 \/ SpanOf[t].risk = 0)
<1>1. Sortable(q) /\ \A t : t \in Matching(q) <=> t \in Here /\ TopLevel(t)
  BY RunsOfKind DEF HasStatus, Of
<1>2. \A row : BySecurity(row, q) /\ ByQuality(row, q) <=> row.level = ""
  BY DEF BySecurity, ByQuality, Of
<1>3. Listed(q) = {row.trace : row \in Qualified(q)}
  BY <1>1, ListedIs
<1>4. \A row : row \in Qualified(q) <=> row \in JoinAll(Matching(q)) /\ row.level = ""
  BY <1>2 DEF Qualified
<1>5. \A t \in Here : t \in Spans
  BY DEF Here
<1> TAKE t
<1>6. ASSUME t \in Listed(q) PROVE t \in Here /\ TopLevel(t) /\ (LiveScans(t) = 0 \/ SpanOf[t].risk = 0)
  <2>1. PICK row \in Qualified(q) : row.trace = t
    BY <1>3, <1>6
  <2>2. row.trace \in Matching(q) /\ row.level = Row(row.trace, 1).level /\ row.level = ""
    BY <1>4, <2>1, RowsInJoin
  <2> QED
    BY <1>1, <1>5, <2>1, <2>2, CleanRow
<1>7. ASSUME t \in Here, TopLevel(t), LiveScans(t) = 0 \/ SpanOf[t].risk = 0 PROVE t \in Listed(q)
  <2>1. Row(t, 1) \in JoinAll(Matching(q))
    BY <1>1, <1>7, JoinedRows
  <2>2. Row(t, 1).level = "" /\ Row(t, 1).trace = t
    BY <1>5, <1>7, CleanRow, RowIs
  <2> QED
    BY <1>3, <1>4, <2>1, <2>2
<1> QED
  BY <1>6, <1>7

LEMMA AllSurface == ASSUME SpansInv, labels \subseteq Rows PROVE RunsSurface
<1> DEFINE runs_ == {t \in Here : TopLevel(t)}
           F == [Runs EXCEPT !.status = "failed"]
           D == [Runs EXCEPT !.security = "flagged"]
           C == [Runs EXCEPT !.security = "clean"]
           G(n) == [Runs EXCEPT !.tag = n]
<1>1. /\ Of(F, "failed", "all", "") /\ Of(D, "all", "flagged", "") /\ Of(C, "all", "clean", "")
      /\ \A n : Of(G(n), "all", "all", n)
  BY AllRuns
<1> HIDE DEF F, D, C, G
<1>2. \A t \in Here : t \in Spans
  BY DEF Here
<1>3. \A t \in runs_ : (\E s \in Below(t) : Failed(s)) => t \in Listed(F)
  <2> SUFFICES ASSUME NEW t \in runs_, NEW s \in Below(t), Failed(s) PROVE t \in Listed(F)
    OBVIOUS
  <2>1. s \in Tree(SpanOf[t].root)
    BY BelowInTree
  <2>2. F.status = "failed" /\ ReturningRoots(F)
    BY <1>1 DEF Of, ReturningRoots
  <2>3. HasStatus(t, F)
    <3>1. Stands(t, F, Failed)
      BY <2>1, <2>2 DEF Stands
    <3> QED
      BY <2>2, <3>1 DEF HasStatus
  <2>4. t \in Matching(F) /\ ~PostJoin(F) /\ Sortable(F)
    BY <1>1, <2>3, RunsOfKind
  <2> QED
    BY <2>4, ListedAll
<1>4. \A t : t \in Listed(D) <=> t \in Here /\ TopLevel(t) /\ Flagged(t)
  <2>1. \A t : HasStatus(t, D)
    BY <1>1 DEF HasStatus, Of
  <2>2. ~PostJoin(D) /\ Sortable(D) /\ \A t : t \in Matching(D) <=> t \in Here /\ TopLevel(t) /\ Flagged(t)
    BY <1>1, <2>1, RunsOfKind
  <2> QED
    BY <2>2, ListedAll
<1>5. \A t : t \in Listed(C) <=> t \in Here /\ TopLevel(t) /\ (LiveScans(t) = 0 \/ SpanOf[t].risk = 0)
  BY <1>1, CleanRuns
<1>6. runs_ = Listed(D) \cup Listed(C)
  <2>1. ASSUME NEW t \in Here, LiveScans(t) # 0, SpanOf[t].risk # 0 PROVE Flagged(t)
    <3>1. LiveScans(t) > 0 /\ SpanOf[t].risk > 0
      BY <1>2, <2>1, ScansLive, StoreAssumption
    <3> QED
      BY <1>2, <3>1 DEF Flagged
  <2> QED
    BY <1>4, <1>5, <2>1
<1>7. ASSUME NEW n \in Tags PROVE Cardinality(Listed(G(n))) <= Uses(n)
  <2>1. n # ""
    BY QueriesAssumption
  <2>2. Listed(G(n)) \in SUBSET {t \in Labelled : n \in TagsOf(t)}
    <3>1. ~PostJoin(G(n)) /\ Sortable(G(n)) /\ \A t : t \in Matching(G(n)) => n \in TagsOf(t)
      BY <1>1, <2>1, RunsOfKind
    <3>2. Listed(G(n)) = Matching(G(n))
      BY <3>1, ListedAll
    <3> QED
      BY <3>1, <3>2, TaggedAre
  <2>3. IsFiniteSet({t \in Labelled : n \in TagsOf(t)})
    <3>1. {t \in Labelled : n \in TagsOf(t)} \in SUBSET Spans
      BY StoreAssumption
    <3> QED
      BY <3>1, StoreAssumption, FS_Subset
  <2> QED
    BY <2>2, <2>3, FS_Subset DEF Uses
<1>8. \A t \in Listed(D) \cap Listed(C) :
        (\E s \in Spans \ {t} : SpanOf[s].root = SpanOf[t].root /\ LiveScans(s) > 0 /\ SpanOf[s].risk > 0)
          \/ \E s \in Tree(SpanOf[t].root) : SpanOf[s].blocked
  <2> SUFFICES ASSUME NEW t, t \in Listed(D), t \in Listed(C),
                      NEW s \in Spans, SpanOf[s].root = SpanOf[t].root, LiveScans(s) > 0, SpanOf[s].risk > 0
               PROVE  s # t
    BY <1>4 DEF Flagged
  <2>1. LiveScans(t) = 0 \/ SpanOf[t].risk = 0
    BY <1>5
  <2> QED
    BY <2>1
<1>9. {t \in runs_ : \E s \in Below(t) : Failed(s)} \subseteq Listed(F)
  BY <1>3
<1> HIDE DEF runs_
<1> QED
  BY <1>6, <1>7, <1>8, <1>9, Zenon DEF RunsSurface, F, D, C, G, runs_

\* Every span came in within one bucket.
CameDuring(b) == {t \in Here : \E i \in DOMAIN spans : spans[i].trace = t /\ spans[i].at = b}
LEMMA EachCameIn ==
  ASSUME SpansInv
  PROVE  /\ IsFiniteSet(Buckets) /\ IsFiniteSet(Here) /\ Here \in SUBSET Spans
         /\ \A t \in Here : \E b \in Buckets : t \in CameDuring(b)
         /\ \A b, c : b # c => CameDuring(b) \cap CameDuring(c) = {}
<1> DEFINE n == Len(spans)
<1>1. /\ Here = {spans[i].trace : i \in 1..n} /\ DOMAIN spans = 1..n /\ n \in Nat
      /\ \A i \in 1..n : spans[i].at \in Nat /\ spans[i].at <= now
      /\ now \in 0..MaxTime /\ MaxTime \in Nat
      /\ \A i, j \in 1..n : spans[i].trace = spans[j].trace => i = j
  BY HereIs, StoreAssumption DEF SpansInv
<1>2. IsFiniteSet(Here) /\ Here \in SUBSET Spans
  <2>1. Here \in SUBSET Here /\ Here \in SUBSET Spans
    BY DEF Here
  <2> QED
    BY <2>1, HereFinite
<1>3. IsFiniteSet(Buckets)
  BY <1>1, FS_Interval DEF Buckets
<1>5. \A t \in Here : \E b \in Buckets : t \in CameDuring(b)
  <2> TAKE t \in Here
  <2>1. PICK i \in 1..n : spans[i].trace = t
    BY <1>1
  <2>2. spans[i].at \in Buckets
    BY <1>1 DEF Buckets
  <2> QED
    BY <1>1, <2>1, <2>2 DEF CameDuring
<1>6. \A b, c : b # c => CameDuring(b) \cap CameDuring(c) = {}
  BY <1>1 DEF CameDuring
<1> QED
  BY <1>2, <1>3, <1>5, <1>6

LEMMA AgentsRuns ==
  ASSUME SpansInv, NEW a \in Agents
  PROVE  Listed([Runs EXCEPT !.agent = a.agent, !.kind = a.kind]) = RunsOf(a)
<1> DEFINE q == [Runs EXCEPT !.agent = a.agent, !.kind = a.kind]
<1>1. PICK t \in Here : SpanOf[t].agent # "" /\ a = [agent |-> SpanOf[t].agent, kind |-> SpanOf[t].kind]
  BY DEF Agents
<1>2. a.agent # "" /\ a.kind \in {"function", "chain", "langgraph_node"}
  BY <1>1, QueriesAssumption DEF Here
<1>3. /\ q.agent = a.agent /\ q.kind = a.kind /\ q.roots /\ q.root = "" /\ q.status = "all" /\ q.security = "all"
      /\ q.quality = "all" /\ q.tag = "" /\ q.sort = "newest"
  BY DEF Runs
<1> HIDE DEF q
<1>4. Sortable(q) /\ ~PostJoin(q)
  BY <1>3 DEF Sortable, PostJoin
<1>5. \A x : OfAgent(x, q) <=> TopLevel(x) /\ SpanOf[x].agent = a.agent /\ SpanOf[x].kind = a.kind
  BY <1>2, <1>3 DEF OfAgent
<1>6. \A x : Narrowed(x, q) <=> TopLevel(x) /\ SpanOf[x].agent = a.agent /\ SpanOf[x].kind = a.kind
  BY <1>2, <1>3, <1>5 DEF Narrowed, HasStatus
<1>7. Matching(q) = RunsOf(a)
  BY <1>6 DEF Matching, RunsOf
<1> QED
  BY <1>4, <1>7, ListedAll DEF q

LEMMA AgentsCost ==
  ASSUME StoreInv, NEW a, \A s, t \in RunsOf(a) : SpanOf[s].root = SpanOf[t].root => s = t
  PROVE  AgentCost(a) = SumFunction([root \in {SpanOf[t].root : t \in RunsOf(a)} |-> RunCost(root)])
<1> DEFINE R == RunsOf(a)
           m == [t \in R |-> SpanOf[t].root]
           Q == {m[t] : t \in R}
           g == [root \in Q |-> RunCost(root)]
           h == [t \in R |-> rollup[SpanOf[t].root].cost]
<1>1. R \in SUBSET Here /\ \A t \in R : t \in Spans
  BY DEF RunsOf, Here
<1>2. IsFiniteSet(R)
  BY <1>1, HereFinite
<1>3. \A t \in R : m[t] = SpanOf[t].root /\ m[t] \in Roots /\ h[t] = rollup[m[t]].cost
  BY <1>1 DEF Roots
<1>4. DOMAIN h = R /\ DOMAIN g = Q /\ \A root \in Q : g[root] = RunCost(root)
  OBVIOUS
<1>5. \A t \in R : m[t] \in Q
  OBVIOUS
<1>6. Q = {SpanOf[t].root : t \in R}
  OBVIOUS
<1>7. \A s, t \in R : m[s] = m[t] => s = t
  OBVIOUS
<1>8. \A root \in Roots : RunCost(root) = rollup[root].cost /\ RunCost(root) \in Nat
  <2> TAKE root \in Roots
  <2>1. TreeOf(root) \cap Billed = {t \in Billed : SpanOf[t].root = root}
    BY DEF TreeOf, Billed
  <2>2. TreeOf(root) \cap Billed \in SUBSET Spans
    BY DEF TreeOf
  <2>3. CostOf(TreeOf(root) \cap Billed) \in Nat
    BY <2>2, CostIs
  <2>4. rollup[root].cost = CostOf(TreeOf(root) \cap Billed)
    BY DEF StoreInv, RollupsFine
  <2> QED
    BY <2>1, <2>3, <2>4, Zenon DEF RunCost
<1>9. AgentCost(a) = SumFunction(h)
  BY DEF AgentCost
<1> HIDE DEF R, m, Q, h
<1>10. IsFiniteSet(Q)
  BY <1>2, ImageFinite DEF Q
<1>11. \A t \in R : g[m[t]] = h[t] /\ g[m[t]] \in Int
  BY <1>3, <1>4, <1>5, <1>8
<1> HIDE DEF g
<1>12. SumFunctionOnSet(g, {m[t] : t \in R}) = SumFunctionOnSet([t \in R |-> g[m[t]]], R)
  BY <1>2, <1>7, <1>11, SumRenamed
<1>13. SumFunctionOnSet([t \in R |-> g[m[t]]], R) = SumFunction(h)
  <2> DEFINE k == [t \in R |-> g[m[t]]]
  <2>1. \A t \in R : h[t] = k[t]
    BY <1>11
  <2> HIDE DEF k
  <2>2. SumFunction(h) = SumFunctionOnSet(k, R)
    BY <1>2, <1>4, <2>1, SumFunctionIs
  <2> QED
    BY <2>2 DEF k
<1>14. SumFunction(g) = SumFunctionOnSet(g, Q)
  BY <1>4, <1>10, SumFunctionIs
<1>15. AgentCost(a) = SumFunction(g)
  BY <1>9, <1>12, <1>13, <1>14, Zenon DEF Q
<1> QED
  BY <1>6, <1>15, Zenon DEF g, R

LEMMA FailuresCounted ==
  ASSUME StoreInv
  PROVE  Cardinality(Listed([Runs EXCEPT !.roots = FALSE, !.status = "failed"])) <= Totals.errors
<1> DEFINE q == [Runs EXCEPT !.roots = FALSE, !.status = "failed"]
           S == {t \in Here : SpanOf[t].success # "yes"}
           part == [b \in Buckets |-> {t \in CameDuring(b) : SpanOf[t].success # "yes"}]
           g == [b \in Buckets |-> Traffic(b).errors]
<1>1. SpansInv
  BY DEF StoreInv
<1>2. /\ q.agent = "" /\ ~q.roots /\ q.root = "" /\ q.status = "failed" /\ q.security = "all"
      /\ q.quality = "all" /\ q.tag = "" /\ q.sort = "newest"
  BY DEF Runs
<1>3. IsFiniteSet(S)
  BY HereFinite
<1>4. \A b \in Buckets : part[b] \subseteq S
  BY DEF CameDuring
<1>5. \A t \in S : \E b \in Buckets : t \in part[b]
  BY <1>1, EachCameIn
<1>6. \A b, c \in Buckets : b # c => part[b] \cap part[c] = {}
  <2>1. \A b, c : b # c => CameDuring(b) \cap CameDuring(c) = {}
    BY <1>1, EachCameIn
  <2> QED
    BY <2>1
<1>7. DOMAIN g = Buckets /\ \A b \in Buckets : g[b] = Cardinality(part[b])
  BY DEF Traffic, CameDuring
<1> HIDE DEF part, g, q, S
<1>8. SumFunction(g) = Cardinality(S)
  BY <1>1, <1>3, <1>4, <1>5, <1>6, <1>7, EachCameIn, GroupedCount
<1>9. Totals.errors = SumFunction(g)
  BY DEF Totals, g
<1>10. Sortable(q) /\ ~PostJoin(q)
  BY <1>2 DEF Sortable, PostJoin
<1>11. \A t \in Matching(q) : t \in Here /\ Failed(t)
  BY <1>2 DEF Matching, Narrowed, HasStatus, Stands, ReturningRoots
<1>12. Matching(q) \in SUBSET S
  BY <1>11 DEF S, Failed
<1>13. Cardinality(Matching(q)) <= Cardinality(S)
  BY <1>3, <1>12, FS_Subset
<1>14. Listed(q) = Matching(q)
  BY <1>1, <1>10, ListedAll
<1> QED
  BY <1>8, <1>9, <1>13, <1>14 DEF q

LEMMA SpendingCounted ==
  ASSUME StoreInv
  PROVE  SumFunction([b \in Buckets |-> Spending(b)]) + CostOf(Billed \ Here) = Totals.cost
<1> DEFINE A == Billed \cap Here
           B == Billed \ Here
           part == [b \in Buckets |-> A \cap CameDuring(b)]
           g == [b \in Buckets |-> Spending(b)]
<1>1. SpansInv
  BY DEF StoreInv
<1>2. A \in SUBSET Spans /\ B \in SUBSET Spans /\ A \cap B = {} /\ A \cup B = Billed
  BY DEF Billed
<1>3. \A b \in Buckets : part[b] \subseteq A
  OBVIOUS
<1>4. \A t \in A : \E b \in Buckets : t \in part[b]
  BY <1>1, EachCameIn
<1>5. \A b, c \in Buckets : b # c => part[b] \cap part[c] = {}
  <2>1. \A b, c : b # c => CameDuring(b) \cap CameDuring(c) = {}
    BY <1>1, EachCameIn
  <2> QED
    BY <2>1
<1>6. DOMAIN g = Buckets /\ \A b \in Buckets : g[b] = CostOf(part[b]) /\ part[b] \in SUBSET Spans
  <2>1. DOMAIN g = Buckets
    OBVIOUS
  <2>2. ASSUME NEW b \in Buckets PROVE g[b] = CostOf(part[b]) /\ part[b] \in SUBSET Spans
    <3>1. part[b] = {t \in Billed : \E i \in DOMAIN spans : spans[i].trace = t /\ spans[i].at = b}
      BY <2>2 DEF CameDuring, Here, Billed
    <3>2. g[b] = CostOf({t \in Billed : \E i \in DOMAIN spans : spans[i].trace = t /\ spans[i].at = b})
      BY <2>2 DEF Spending
    <3>3. part[b] \in SUBSET Spans
      BY <1>2, <1>3, <2>2
    <3> HIDE DEF part, g
    <3> QED
      BY <3>1, <3>2, <3>3, Zenon
  <2> QED
    BY <2>1, <2>2
<1> HIDE DEF part, g, A, B
<1>7. IsFiniteSet(A) /\ CostOf(A) = SumFunctionOnSet(Costs, A)
  BY <1>2, CostIs
<1>8. \A b \in Buckets : g[b] = SumFunctionOnSet(Costs, part[b])
  BY <1>6, CostIs
<1>9. \A t \in A : Costs[t] \in Int
  BY <1>2, StoreAssumption DEF Costs
<1>10. IsFiniteSet(Buckets) /\ DOMAIN g = Buckets
  BY <1>1, <1>6, EachCameIn
<1>11. SumFunction(g) = SumFunctionOnSet(Costs, A)
  BY <1>3, <1>4, <1>5, <1>7, <1>8, <1>9, <1>10, Grouped
<1>12. CostOf(A \cup B) = CostOf(A) + CostOf(B)
  BY <1>2, CostUnion
<1>13. CostOf(Billed) = CostOf(A) + CostOf(B)
  BY <1>2, <1>12, Zenon
<1>14. Totals.cost = CostOf(A) + CostOf(B)
  BY <1>13, CostsCounted
<1> QED
  BY <1>7, <1>11, <1>14 DEF g, B

LEMMA AllRecent ==
  ASSUME SpansInv, NEW t \in Here
  PROVE  {row.score : row \in {e \in RecentScores(0) : e.trace = t}} = ScoresOf(t)
<1>1. {e \in RecentScores(0) : e.trace = t} = {e \in evals : e.trace = t}
  <2>1. PICK i \in 1..Len(spans) : spans[i].trace = t
    BY HereIs
  <2>2. spans[i].at >= 0 /\ i \in DOMAIN spans
    BY <2>1, HereIs
  <2> QED
    BY <2>1, <2>2 DEF RecentScores
<1> QED
  BY <1>1, Zenon DEF ScoresOf

LEMMA AllCounted == ASSUME StoreInv PROVE PagesCount
<1>1. SpansInv
  BY DEF StoreInv
<1>2. \A a \in Agents : Cardinality(RunsOf(a)) = Cardinality(Listed([Runs EXCEPT !.agent = a.agent, !.kind = a.kind]))
  <2> TAKE a \in Agents
  <2>1. Listed([Runs EXCEPT !.agent = a.agent, !.kind = a.kind]) = RunsOf(a)
    BY <1>1, AgentsRuns
  <2> QED
    BY <2>1, Zenon
<1>3. \A t \in Listed([Runs EXCEPT !.roots = FALSE]) : t \in Here
  <2> DEFINE q == [Runs EXCEPT !.roots = FALSE]
  <2>1. Sortable(q) /\ ~PostJoin(q)
    BY DEF Runs, Sortable, PostJoin
  <2> HIDE DEF q
  <2>2. Listed(q) = Matching(q)
    BY <1>1, <2>1, ListedAll
  <2>3. \A t \in Listed(q) : t \in Here
    BY <2>2 DEF Matching
  <2> QED
    BY <2>3 DEF q
<1>4. \A t \in Listed([Runs EXCEPT !.roots = FALSE]) :
        {row.score : row \in {e \in RecentScores(0) : e.trace = t}} = ScoresOf(t)
  BY <1>1, <1>3, AllRecent, Zenon
<1>5. \A a \in Agents : (\A s, t \in RunsOf(a) : SpanOf[s].root = SpanOf[t].root => s = t) =>
        AgentCost(a) = SumFunction([root \in {SpanOf[t].root : t \in RunsOf(a)} |-> RunCost(root)])
  BY AgentsCost, Zenon
<1> QED
  BY <1>2, <1>4, <1>5, FailuresCounted, SpendingCounted, Zenon DEF PagesCount

-----------------------------------------------------------------------------
(* The pages that examples are made of. *)

LEMMA OrderIsSeq ==
  ASSUME SpansInv, NEW tie \in Ties, NEW S, NEW q, Sorts(S, q)
  PROVE  InOrder(S, q, tie) \in Seq(S) /\ Len(InOrder(S, q, tie)) = Cardinality(S) /\ Cardinality(S) \in Nat
<1> DEFINE list == InOrder(S, q, tie)
<1>1. DOMAIN list = 1..Cardinality(S) /\ Cardinality(S) \in Nat /\ \A k \in 1..Cardinality(S) : list[k] \in S
  BY Places
<1>2. list \in [1..Cardinality(S) -> S]
  <2>1. list = [k \in DOMAIN list |-> list[k]]
    BY DEF InOrder
  <2> QED
    BY <1>1, <2>1
<1>3. list \in Seq(S)
  BY <1>1, <1>2, SeqDef
<1> QED
  BY <1>1, <1>3, LenProperties

\* Newest or oldest first, and narrowed by nothing that is joined.
Plain(q) == q.sort \in {"newest", "oldest"} /\ ~PostJoin(q)

\* A page has the traces whose place is on it, and is full if others are left.
LEMMA PageIs ==
  ASSUME SpansInv, NEW tie \in Ties, NEW q, Plain(q), NEW limit \in Nat, NEW offset \in Nat
  PROVE  /\ DOMAIN Page(q, limit, offset, tie) = 1..Len(Page(q, limit, offset, tie)) /\ Len(Page(q, limit, offset, tie)) \in Nat
         /\ {Page(q, limit, offset, tie)[i].trace : i \in DOMAIN Page(q, limit, offset, tie)} = PageOf(q, limit, offset, tie)
         /\ offset + limit <= Cardinality(Matching(q)) => Len(Page(q, limit, offset, tie)) >= limit
<1> DEFINE T == Matching(q)
           P == PageOf(q, limit, offset, tie)
           S == JoinAll(P)
           page == Page(q, limit, offset, tie)
           list == InOrder(S, q, tie)
<1>1. T \in SUBSET Here /\ P \in SUBSET Here
  BY DEF Matching, PageOf
<1>2. q.sort \in {"newest", "oldest", "cost_desc"} /\ ~SortsOnJoin(q)
  BY DEF Plain, SortsOnJoin
<1>3. page = list
  <2>1. ~PostJoin(q) /\ q.sort \in {"newest", "oldest"}
    BY DEF Plain
  <2>2. page = InOrder(FastPage(q, limit, offset, tie), q, tie)
    BY <1>2, <2>1, Zenon DEF Page
  <2>3. FastPage(q, limit, offset, tie) = S
    BY <2>1, FastIs
  <2> QED
    BY <2>2, <2>3, Zenon
<1>4. Sorts(S, q)
  <2> HIDE DEF P
  <2> QED
    BY <1>1, <1>2, JoinedSorts
<1> HIDE DEF S
<1>5. list \in Seq(S) /\ Len(list) = Cardinality(S) /\ Cardinality(S) \in Nat
  BY <1>4, OrderIsSeq
<1>6. {list[i] : i \in DOMAIN list} = S
  BY <1>4, AllInOrder
<1>7. {list[i].trace : i \in DOMAIN list} = {row.trace : row \in S}
  <2> HIDE DEF list
  <2> QED
    BY <1>6
<1>8. {list[i].trace : i \in DOMAIN list} = P
  <2>1. {row.trace : row \in S} = P
    BY JoinTraces DEF S
  <2> QED
    BY <1>7, <2>1, Zenon
<1>9. ASSUME offset + limit <= Cardinality(T) PROVE Len(list) >= limit
  <2> DEFINE B == Bare(T)
  <2>1. Sorts(B, q) /\ Cardinality(B) = Cardinality(T) /\ Cardinality(T) \in Nat
    <3>1. q.sort \in {"newest", "oldest"}
      BY DEF Plain
    <3> HIDE DEF T
    <3>2. IsFiniteSet(T)
      BY <1>1, HereFinite
    <3> QED
      BY <1>1, <3>1, <3>2, BareSorts, FS_CardinalityType
  <2>2. PICK last \in Nat : last = offset + limit
    OBVIOUS
  <2> DEFINE C == Cut(B, q, limit, offset, tie)
  <2>3. Cardinality(C) = limit
    <3> HIDE DEF B
    <3>1. last <= Cardinality(B) /\ last <= offset + limit /\ offset + limit <= Cardinality(B)
      BY <1>9, <2>1, <2>2
    <3> QED
      BY <2>1, <2>2, <3>1, CutIs
  <2>4. C \in SUBSET B
    BY DEF Cut
  <2>5. \A a, b \in B : a.trace = b.trace => a = b
    BY DEF Bare
  <2>6. {row.trace : row \in C} = P
    <3>1. FastPage(q, limit, offset, tie) = JoinAll({row.trace : row \in C})
      BY Zenon DEF FastPage, B, T, C
    <3>2. FastPage(q, limit, offset, tie) = S
      BY FastIs DEF Plain, S
    <3>3. {row.trace : row \in S} = {row.trace : row \in C}
      BY <3>1, <3>2, JoinTraces, Zenon
    <3> QED
      BY <1>7, <1>8, <3>3, Zenon
  <2> DEFINE f == [a \in C |-> a.trace]
  <2>7. f \in Bijection(C, P)
    <3> HIDE DEF C, B, P
    <3>1. f \in [C -> P] /\ \A i, j \in C : f[i] = f[j] => i = j
      BY <2>4, <2>5, <2>6
    <3>2. \A x \in P : \E i \in C : f[i] = x
      BY <2>6
    <3> QED
      BY <3>1, <3>2 DEF Bijection, Injection, Surjection, IsInjective
  <2>8. IsFiniteSet(C)
    <3>1. IsFiniteSet(B)
      BY <2>1 DEF Sorts, Numbered
    <3> HIDE DEF C, B
    <3> QED
      BY <2>4, <3>1, FS_Subset
  <2> HIDE DEF f, C
  <2>9. Cardinality(P) = limit
    BY <2>3, <2>7, <2>8, FS_Bijection DEF ExistsBijection
  <2>10. Cardinality(P) <= Cardinality(S)
    <3> HIDE DEF P
    <3> QED
      BY <1>1, JoinLarge DEF S
  <2> QED
    BY <1>5, <2>9, <2>10
<1>10. DOMAIN list = 1..Len(list) /\ Len(list) \in Nat
  BY <1>5, LenProperties
<1> HIDE DEF list, page, P, T
<1>11. /\ DOMAIN page = 1..Len(page) /\ Len(page) \in Nat
       /\ {page[i].trace : i \in DOMAIN page} = P
       /\ offset + limit <= Cardinality(T) => Len(page) >= limit
  BY <1>3, <1>8, <1>9, <1>10
<1> QED
  BY <1>11, Zenon DEF page, P, T

\* The runs of an agent are listed by what is written of them, newest first.
OfAgentRuns(t) == TopLevel(t) /\ (AgentRuns.agent # "" => OfAgent(t, AgentRuns))

LEMMA AgentRunsAre ==
  /\ Plain(AgentRuns) /\ Sortable(AgentRuns)
  /\ \A t : t \in Matching(AgentRuns) <=> t \in Here /\ OfAgentRuns(t)
  /\ \A t : t \in Matching(AgentRuns)' <=> t \in Here' /\ OfAgentRuns(t)'
<1>1. /\ AgentRuns.roots /\ AgentRuns.root = "" /\ AgentRuns.status = "all" /\ AgentRuns.security = "all"
      /\ AgentRuns.quality = "all" /\ AgentRuns.tag = "" /\ AgentRuns.sort = "newest"
  BY DEF AgentRuns, Runs
<1>2. \A t : (Narrowed(t, AgentRuns) <=> OfAgentRuns(t)) /\ (Narrowed(t, AgentRuns)' <=> OfAgentRuns(t)')
  BY <1>1 DEF Narrowed, HasStatus, OfAgentRuns
<1> QED
  BY <1>1, <1>2 DEF Plain, Sortable, PostJoin, Matching

\* What is read of a run is of it, and is something if its root is there.
LEMMA ReadOfRun ==
  ASSUME SpansInv, NEW tie \in Ties, NEW t, NEW limit \in Nat \ {0}
  PROVE  LET page == Page(OfRun(t), limit, 0, tie)
           read == {page[i].trace : i \in DOMAIN page}
         IN /\ t \in Spans => \A s \in read : s \in Here /\ SpanOf[s].root = t
            /\ t \in Here /\ SpanOf[t].root = t => read # {}
<1> DEFINE q == OfRun(t)
           P == PageOf(q, limit, 0, tie)
<1>1. /\ ~q.roots /\ q.agent = "" /\ q.root = t /\ q.status = "all" /\ q.security = "all"
      /\ q.quality = "all" /\ q.tag = "" /\ q.sort = "newest"
  BY DEF OfRun, Runs
<1> HIDE DEF q
<1>2. \A s : s \in Matching(q) <=> s \in Here /\ (t # "" => SpanOf[s].root = t)
  BY <1>1 DEF Matching, Narrowed, HasStatus
<1>3. Plain(q) /\ ~SortsOnJoin(q) /\ q.sort \in {"newest", "oldest"}
  BY <1>1 DEF Plain, PostJoin, SortsOnJoin
<1>4. P \subseteq Matching(q)
  BY DEF PageOf
<1>5. ASSUME t \in Here, SpanOf[t].root = t PROVE P # {}
  <2> DEFINE T == Matching(q)
             B == Bare(T)
             list == InOrder(B, q, tie)
  <2>1. T \in SUBSET Here /\ t \in T
    BY <1>2, <1>5
  <2> HIDE DEF T
  <2>2. Sorts(B, q) /\ IsFiniteSet(T)
    BY <1>3, <2>1, BareSorts, HereFinite
  <2>3. [trace |-> t, scan |-> 0] \in B
    BY <2>1 DEF Bare
  <2> HIDE DEF B
  <2>4. PICK a \in B : Ahead(B, a, q, tie) = 0
    <3>1. Cardinality(B) \in Nat /\ Cardinality(B) # 0
      <4>1. IsFiniteSet(B) /\ B # {}
        BY <2>2, <2>3 DEF Sorts, Numbered
      <4> QED
        BY <4>1, FS_EmptySet, FS_CardinalityType
    <3>2. 1 \in 1..Cardinality(B)
      BY <3>1
    <3> QED
      BY <2>2, <3>2, Places
  <2>5. \E s \in T : a = [trace |-> s, scan |-> 0]
    BY DEF B, Bare
  <2>6. PICK s \in T : a = [trace |-> s, scan |-> 0]
    BY <2>5
  <2> DEFINE m == [x \in T |-> [trace |-> x, scan |-> 0]]
  <2>7. \A x \in T : m[x].trace = x /\ m[x].scan \in Nat
    OBVIOUS
  <2>8. \A x : x \in B <=> \E y \in T : x = m[y]
    BY DEF B, Bare
  <2>9. a = m[s]
    BY <2>6
  <2> HIDE DEF m
  <2>10. ByOne(B, T, m)
    BY <2>7, <2>8, Zenon DEF ByOne
  <2>11. Ahead(B, m[s], q, tie) = Place(T, s, q, tie)
    BY <1>3, <2>1, <2>10, PlacesOf
  <2>12. Place(T, s, q, tie) = 0
    BY <2>4, <2>9, <2>11
  <2>13. s \in P
    BY <2>12 DEF PageOf, T
  <2> QED
    BY <2>13
<1>6. {Page(q, limit, 0, tie)[i].trace : i \in DOMAIN Page(q, limit, 0, tie)} = P
  BY <1>3, PageIs
<1>7. t \in Spans => \A s \in P : s \in Here /\ SpanOf[s].root = t
  BY <1>2, <1>4, QueriesAssumption
<1> HIDE DEF P
<1> DEFINE page == Page(q, limit, 0, tie)
           read == {page[i].trace : i \in DOMAIN page}
<1>9. read = P
  BY <1>6
<1> HIDE DEF read
<1>10. /\ t \in Spans => \A s \in read : s \in Here /\ SpanOf[s].root = t
       /\ t \in Here /\ SpanOf[t].root = t => read # {}
  BY <1>5, <1>7, <1>9
<1> QED
  BY <1>10, Zenon DEF read, q
=============================================================================
