---------------------------- MODULE SumTheorems ----------------------------
(***************************************************************************)
(* What a sum over a finite set is, for SumFunctionOnSet of the community  *)
(* modules: the facts the invariants about totals rest on.                 *)
(*                                                                         *)
(* SumFunctionOnSet is a fold, and a fold is what a function CHOOSE picks  *)
(* for its defining equation computes.  A function of the same equation is *)
(* built here one element at a time (Additive), the picked one is shown    *)
(* to agree with it, and each induction is a least counterexample.         *)
(***************************************************************************)
EXTENDS FiniteSetsExt, FiniteSetTheorems, WellFoundedInduction, TLAPS

(* g is the sum of f over every subset of X. *)
Additive(g, f, X) ==
  /\ g \in [SUBSET X -> Int] /\ g[{}] = 0
  /\ \A T \in SUBSET X, x \in X : x \notin T => g[T \cup {x}] = g[T] + f[x]

-----------------------------------------------------------------------------
(* A set of naturals with an element has a least one. *)
LEMMA LeastNatural ==
  ASSUME NEW T \in SUBSET Nat, T # {}
  PROVE  \E n \in T : \A m \in T : n <= m
<1> DEFINE R == {p \in Nat \X Nat : p[1] < p[2]}
<1>1. IsWellFoundedOn(R, Nat)
  BY NatLessThanWellFounded DEF OpToRel
<1>2. \E n \in T : \A m \in T : ~(<<m, n>> \in R)
  <2> HIDE DEF R
  <2> QED BY <1>1, WFMin
<1>3. PICK n \in T : \A m \in T : ~(<<m, n>> \in R)
  BY <1>2
<1>4. ASSUME NEW m \in T PROVE n <= m
  <2>1. n \in Nat /\ m \in Nat /\ <<m, n>> \notin R
    BY <1>3
  <2>2. ~(m < n)
    BY <2>1
  <2> QED BY <2>1, <2>2
<1> QED BY <1>4

(* The sums over the subsets of a set with one element more. *)
LEMMA AdditiveExtends ==
  ASSUME NEW X, NEW y, y \notin X, NEW f, f[y] \in Int, \A x \in X : f[x] \in Int,
         NEW g, Additive(g, f, X)
  PROVE  \E h : Additive(h, f, X \cup {y})
<1> DEFINE h == [T \in SUBSET (X \cup {y}) |-> IF y \in T THEN g[T \ {y}] + f[y] ELSE g[T]]
<1>1. h \in [SUBSET (X \cup {y}) -> Int] /\ h[{}] = 0
  BY DEF Additive
<1>2. ASSUME NEW T \in SUBSET (X \cup {y}), NEW x \in X \cup {y}, x \notin T
      PROVE  h[T \cup {x}] = h[T] + f[x]
  <2>1. CASE x = y
    <3>1. (T \cup {x}) \ {y} = T /\ T \in SUBSET X
      BY <1>2, <2>1
    <3> QED BY <1>2, <2>1, <3>1
  <2>2. CASE x # y /\ y \in T
    <3>1. (T \cup {x}) \ {y} = (T \ {y}) \cup {x} /\ T \ {y} \in SUBSET X /\ x \in X
      BY <1>2, <2>2
    <3>2. g[(T \ {y}) \cup {x}] = g[T \ {y}] + f[x]
      BY <1>2, <3>1 DEF Additive
    <3>3. h[T \cup {x}] = g[(T \ {y}) \cup {x}] + f[y] /\ h[T] = g[T \ {y}] + f[y]
      BY <1>2, <2>2, <3>1
    <3>4. g[T \ {y}] \in Int /\ f[x] \in Int
      BY <3>1 DEF Additive
    <3> QED BY <3>2, <3>3, <3>4
  <2>3. CASE x # y /\ y \notin T
    BY <1>2, <2>3 DEF Additive
  <2> QED BY <2>1, <2>2, <2>3
<1>3. Additive(h, f, X \cup {y})
  <2> HIDE DEF h
  <2> QED BY <1>1, <1>2 DEF Additive
<1> QED BY <1>3

(* So a finite set has them, whatever the numbers. *)
LEMMA AdditiveExists ==
  ASSUME NEW X, IsFiniteSet(X), NEW f, \A x \in X : f[x] \in Int
  PROVE  \E g : Additive(g, f, X)
<1> DEFINE Lacks(Y) == \A g : ~Additive(g, f, Y)
           T == {n \in Nat : \E Y \in SUBSET X : Cardinality(Y) = n /\ Lacks(Y)}
<1>1. \A Y \in SUBSET X : IsFiniteSet(Y) /\ Cardinality(Y) \in Nat
  BY FS_Subset, FS_CardinalityType
<1>2. SUFFICES ASSUME Lacks(X) PROVE FALSE
  OBVIOUS
<1>3. PICK n \in T : \A m \in T : n <= m
  <2>1. Cardinality(X) \in T
    BY <1>1, <1>2
  <2> QED BY <2>1, LeastNatural
<1>4. PICK Y \in SUBSET X : Cardinality(Y) = n /\ Lacks(Y)
  BY <1>3
<1>5. Y # {}
  <2>1. Additive([s \in SUBSET {} |-> 0], f, {})
    BY DEF Additive
  <2> QED BY <1>4, <2>1
<1>6. PICK y \in Y : TRUE
  BY <1>5
<1>7. Cardinality(Y \ {y}) = n - 1 /\ Cardinality(Y \ {y}) \in Nat
  BY <1>1, <1>4, FS_RemoveElement
<1>8. PICK g : Additive(g, f, Y \ {y})
  <2>1. n - 1 \notin T
    BY <1>3
  <2> QED BY <1>7, <2>1
<1>9. \E h : Additive(h, f, (Y \ {y}) \cup {y})
  <2> HIDE DEF Lacks, T
  <2> QED BY <1>8, AdditiveExtends
<1>10. (Y \ {y}) \cup {y} = Y
  OBVIOUS
<1> QED BY <1>4, <1>9, <1>10

(* The element that the fold takes from a set, and its equation. *)
Taken(s) == CHOOSE x \in s : TRUE
Step(f, g, s) == IF s = {} THEN 0 ELSE f[Taken(s)] + g[s \ {Taken(s)}]

LEMMA SumIsFold ==
  ASSUME NEW f, NEW S
  PROVE  SumFunctionOnSet(f, S) = (CHOOSE g : g = [s \in SUBSET S |-> Step(f, g, s)])[S]
BY DEF SumFunctionOnSet, FoldFunctionOnSet, MapThenFoldSet, Step, Taken

(* The sum is the one that the additive function gives. *)
LEMMA SumIsAdditive ==
  ASSUME NEW X, IsFiniteSet(X), NEW f, \A x \in X : f[x] \in Int,
         NEW g, Additive(g, f, X), NEW S \in SUBSET X
  PROVE  SumFunctionOnSet(f, S) = g[S]
<1> DEFINE h == CHOOSE h : h = [s \in SUBSET S |-> Step(f, h, s)]
           k == [s \in SUBSET S |-> g[s]]
<1>1. \A s \in SUBSET S : IsFiniteSet(s) /\ Cardinality(s) \in Nat
  BY FS_Subset, FS_CardinalityType
<1>2. ASSUME NEW s \in SUBSET S, s # {}
      PROVE  /\ Taken(s) \in s /\ s \ {Taken(s)} \in SUBSET S
             /\ g[s] = f[Taken(s)] + g[s \ {Taken(s)}]
  <2>1. Taken(s) \in s
    BY <1>2 DEF Taken
  <2>2. /\ (s \ {Taken(s)}) \cup {Taken(s)} = s /\ Taken(s) \notin s \ {Taken(s)}
        /\ s \ {Taken(s)} \in SUBSET X /\ Taken(s) \in X
    BY <2>1
  <2>3. /\ g[s] = g[s \ {Taken(s)}] + f[Taken(s)]
        /\ g[s \ {Taken(s)}] \in Int /\ g[s] \in Int
    BY <2>2 DEF Additive
  <2>4. f[Taken(s)] \in Int
    BY <2>2
  <2> QED BY <2>1, <2>2, <2>3, <2>4
<1>3. k = [s \in SUBSET S |-> Step(f, k, s)]
  BY <1>2 DEF Step, Additive
<1>4. h = [s \in SUBSET S |-> Step(f, h, s)]
  BY <1>3
<1> HIDE DEF h
<1> DEFINE T == {n \in Nat : \E s \in SUBSET S : Cardinality(s) = n /\ h[s] # g[s]}
<1>5. T = {}
  <2>1. SUFFICES ASSUME T # {} PROVE FALSE
    OBVIOUS
  <2>2. PICK n \in T : \A m \in T : n <= m
    BY <2>1, LeastNatural
  <2>3. PICK s \in SUBSET S : Cardinality(s) = n /\ h[s] # g[s]
    BY <2>2
  <2>4. s # {}
    BY <1>4, <2>3 DEF Additive, Step
  <2>5. PICK x \in s : s \ {x} \in SUBSET S /\ g[s] = f[x] + g[s \ {x}] /\ h[s] = f[x] + h[s \ {x}]
    BY <1>2, <1>4, <2>4 DEF Step
  <2>6. Cardinality(s \ {x}) = n - 1 /\ Cardinality(s \ {x}) \in Nat
    BY <1>1, <2>3, <2>5, FS_RemoveElement
  <2>7. h[s \ {x}] # g[s \ {x}]
    BY <2>3, <2>5
  <2>8. n - 1 \in T
    BY <2>5, <2>6, <2>7
  <2> QED BY <2>2, <2>8
<1>6. h[S] = g[S]
  BY <1>1, <1>5
<1> QED BY <1>6, SumIsFold DEF h

-----------------------------------------------------------------------------
(* Nothing adds up to nothing. *)
LEMMA SumEmpty == \A f : SumFunctionOnSet(f, {}) = 0
<1>1. ASSUME NEW f PROVE SumFunctionOnSet(f, {}) = 0
  <2>1. Additive([s \in SUBSET {} |-> 0], f, {})
    BY DEF Additive
  <2> QED BY <2>1, SumIsAdditive, FS_EmptySet
<1> QED BY <1>1

(* Nothing adds up to nothing. *)
LEMMA SumZero ==
  ASSUME NEW S, IsFiniteSet(S), NEW f, \A x \in S : f[x] = 0
  PROVE  SumFunctionOnSet(f, S) = 0
<1>1. Additive([T \in SUBSET S |-> 0], f, S)
  BY DEF Additive
<1>2. S \in SUBSET S /\ \A x \in S : f[x] \in Int
  OBVIOUS
<1> QED BY <1>1, <1>2, SumIsAdditive

(* Integers add up to an integer, naturals to a natural. *)
LEMMA SumInt ==
  ASSUME NEW S, IsFiniteSet(S), NEW f, \A x \in S : f[x] \in Int
  PROVE  SumFunctionOnSet(f, S) \in Int
<1>1. PICK g : Additive(g, f, S)
  BY AdditiveExists
<1>2. SumFunctionOnSet(f, S) = g[S]
  BY <1>1, SumIsAdditive
<1> QED BY <1>1, <1>2 DEF Additive

(* One element more. *)
LEMMA SumAdd ==
  ASSUME NEW S, IsFiniteSet(S), NEW x, x \notin S, NEW f, f[x] \in Int,
         \A y \in S : f[y] \in Int
  PROVE  SumFunctionOnSet(f, S \cup {x}) = SumFunctionOnSet(f, S) + f[x]
<1>1. IsFiniteSet(S \cup {x})
  BY FS_AddElement
<1>2. PICK g : Additive(g, f, S \cup {x})
  BY <1>1, AdditiveExists
<1>3. SumFunctionOnSet(f, S \cup {x}) = g[S \cup {x}] /\ SumFunctionOnSet(f, S) = g[S]
  BY <1>1, <1>2, SumIsAdditive
<1> QED BY <1>2, <1>3 DEF Additive

(* One element less. *)
LEMMA SumRemove ==
  ASSUME NEW S, IsFiniteSet(S), NEW x \in S, NEW f, \A y \in S : f[y] \in Int
  PROVE  SumFunctionOnSet(f, S \ {x}) = SumFunctionOnSet(f, S) - f[x]
<1>1. IsFiniteSet(S \ {x}) /\ (S \ {x}) \cup {x} = S
  BY FS_RemoveElement
<1>2. SumFunctionOnSet(f, S) = SumFunctionOnSet(f, S \ {x}) + f[x]
  BY <1>1, SumAdd
<1>3. SumFunctionOnSet(f, S \ {x}) \in Int
  BY <1>1, SumInt
<1> QED BY <1>2, <1>3

(* Only the numbers at the elements matter. *)
LEMMA SumSame ==
  ASSUME NEW S, IsFiniteSet(S), NEW f, NEW g, \A x \in S : f[x] \in Int /\ g[x] = f[x]
  PROVE  SumFunctionOnSet(g, S) = SumFunctionOnSet(f, S)
<1>1. PICK h : Additive(h, f, S)
  BY AdditiveExists
<1>2. Additive(h, g, S)
  BY <1>1 DEF Additive
<1> QED BY <1>1, <1>2, SumIsAdditive

(* One number changes. *)
LEMMA SumChange ==
  ASSUME NEW S, IsFiniteSet(S), NEW x \in S, NEW f, NEW g,
         \A y \in S : f[y] \in Int /\ g[y] \in Int /\ (y # x => g[y] = f[y])
  PROVE  SumFunctionOnSet(g, S) = SumFunctionOnSet(f, S) + (g[x] - f[x])
<1>1. IsFiniteSet(S \ {x})
  BY FS_RemoveElement
<1>2. SumFunctionOnSet(g, S \ {x}) = SumFunctionOnSet(f, S \ {x})
  BY <1>1, SumSame
<1>3. /\ SumFunctionOnSet(g, S \ {x}) = SumFunctionOnSet(g, S) - g[x]
      /\ SumFunctionOnSet(f, S \ {x}) = SumFunctionOnSet(f, S) - f[x]
  BY SumRemove
<1>4. SumFunctionOnSet(g, S) \in Int /\ SumFunctionOnSet(f, S) \in Int
  BY SumInt
<1> QED BY <1>2, <1>3, <1>4

(* Naturals add up to a natural. *)
LEMMA SumNat ==
  ASSUME NEW S, IsFiniteSet(S), NEW f, \A x \in S : f[x] \in Nat
  PROVE  SumFunctionOnSet(f, S) \in Nat
<1>1. PICK g : Additive(g, f, S)
  BY AdditiveExists
<1> DEFINE T == {n \in Nat : \E s \in SUBSET S : Cardinality(s) = n /\ g[s] \notin Nat}
<1>2. \A s \in SUBSET S : IsFiniteSet(s) /\ Cardinality(s) \in Nat
  BY FS_Subset, FS_CardinalityType
<1>3. T = {}
  <2>1. SUFFICES ASSUME T # {} PROVE FALSE
    OBVIOUS
  <2>2. PICK n \in T : \A m \in T : n <= m
    BY <2>1, LeastNatural
  <2>3. PICK s \in SUBSET S : Cardinality(s) = n /\ g[s] \notin Nat
    BY <2>2
  <2>4. PICK x : x \in s
    <3>1. g[{}] = 0
      BY <1>1 DEF Additive
    <3>2. s # {}
      BY <2>3, <3>1
    <3> QED BY <3>2
  <2>5. Cardinality(s \ {x}) = n - 1 /\ Cardinality(s \ {x}) \in Nat
    BY <1>2, <2>3, <2>4, FS_RemoveElement
  <2>6. g[s] = g[s \ {x}] + f[x] /\ s \ {x} \in SUBSET S
    <3>1. (s \ {x}) \cup {x} = s /\ x \notin s \ {x} /\ s \ {x} \in SUBSET S /\ x \in S
      BY <2>4
    <3> QED BY <1>1, <3>1 DEF Additive
  <2>7. g[s \ {x}] \notin Nat
    BY <2>3, <2>6
  <2>8. n - 1 \in T
    BY <2>5, <2>6, <2>7
  <2> QED BY <2>2, <2>8
<1>4. g[S] \in Nat
  BY <1>2, <1>3
<1> QED BY <1>1, <1>4, SumIsAdditive

(* And none of them is more than the sum. *)
LEMMA SumAtLeast ==
  ASSUME NEW S, IsFiniteSet(S), NEW x \in S, NEW f, \A y \in S : f[y] \in Nat
  PROVE  f[x] <= SumFunctionOnSet(f, S)
<1>1. IsFiniteSet(S \ {x}) /\ \A y \in S \ {x} : f[y] \in Nat
  BY FS_RemoveElement
<1>2. SumFunctionOnSet(f, S \ {x}) \in Nat /\ SumFunctionOnSet(f, S) \in Nat
  BY <1>1, SumNat
<1>3. \A y \in S : f[y] \in Int
  OBVIOUS
<1>4. SumFunctionOnSet(f, S \ {x}) = SumFunctionOnSet(f, S) - f[x]
  BY <1>3, SumRemove
<1> QED BY <1>2, <1>4
=============================================================================
