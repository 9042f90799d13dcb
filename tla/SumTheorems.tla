----------------------------- MODULE SumTheorems -----------------------------
(***************************************************************************)
(* What a sum over a finite set is worth when an element joins, leaves or  *)
(* changes its value.  The library's induction theorems take operators,    *)
(* which the provers cannot instantiate; its theorem on minimal elements   *)
(* takes a set, so the inductions here look for a least counterexample.    *)
(***************************************************************************)
EXTENDS Integers, FiniteSets, Folds, Functions, FiniteSetTheorems, WellFoundedInduction, TLAPS

(* Every nonempty set of naturals has a least element.                     *)
LEMMA LeastNatural ==
  ASSUME NEW T \in SUBSET Nat, T # {}
  PROVE  \E n \in T : \A m \in T : n <= m
  <1>1. PICK n \in T : \A m \in T : ~ (<<m, n>> \in OpToRel(<, Nat))
    BY NatLessThanWellFounded, WFMin
  <1>2. \A m \in T : ~ (m < n)
    BY <1>1 DEF OpToRel
  <1> QED
    BY <1>2

(* Every nonempty family of subsets of a finite set has a minimal member.  *)
LEMMA MinimalSubset ==
  ASSUME NEW S, IsFiniteSet(S), NEW F, F \subseteq SUBSET S, F # {}
  PROVE  \E s \in F : \A t \in F : t \subseteq s => t = s
  <1>1. FiniteSubsetsOf(S) = SUBSET S
    BY FS_FiniteSubsetsOfFinite
  <1>2. IsWellFoundedOn(StrictSubsetOrdering(S), SUBSET S)
    BY <1>1, FS_StrictSubsetOrderingWellFounded
  <1>3. PICK s \in F : \A t \in F : ~ (<<t, s>> \in StrictSubsetOrdering(S))
    BY <1>2, WFMin
  <1> QED
    BY <1>3 DEF StrictSubsetOrdering

First(s) == CHOOSE x \in s : TRUE

(* g adds the elements of f up, over each set of D.                        *)
Adds(g, f, D) == g = [s \in D |-> IF s = {} THEN 0 ELSE f[First(s)] + g[s \ {First(s)}]]

LEMMA AddsExists ==
  ASSUME NEW f, NEW S, IsFiniteSet(S)
  PROVE  \E g : Adds(g, f, SUBSET S)
  <1> DEFINE Small(k) == {s \in SUBSET S : Cardinality(s) <= k}
             Bad == {k \in Nat : ~ \E g : Adds(g, f, Small(k))}
  <1>1. \A s \in SUBSET S : Cardinality(s) \in Nat /\ IsFiniteSet(s)
    BY FS_Subset, FS_CardinalityType
  <1>2. Bad = {}
    <2> SUFFICES ASSUME Bad # {} PROVE FALSE
      OBVIOUS
    <2>1. PICK k \in Bad : \A m \in Bad : k <= m
      <3> HIDE DEF Bad
      <3>1. Bad \subseteq Nat
        BY DEF Bad
      <3> QED
        BY <3>1, LeastNatural
    <2>2. k # 0
      <3> SUFFICES ASSUME k = 0 PROVE FALSE
        OBVIOUS
      <3>1. Small(0) = {{}}
        BY <1>1, FS_EmptySet
      <3>2. Adds([s \in {{}} |-> 0], f, Small(0))
        BY <3>1 DEF Adds
      <3> QED
        BY <3>2
    <2>3. k - 1 \in Nat /\ k - 1 \notin Bad
      <3>1. k \in Nat /\ k - 1 \in Nat /\ ~ (k <= k - 1)
        BY <2>2
      <3> HIDE DEF Bad
      <3> QED
        BY <2>1, <3>1
    <2>4. PICK g : Adds(g, f, Small(k - 1))
      BY <2>3
    <2> DEFINE h == [s \in Small(k) |-> IF s = {} THEN 0 ELSE f[First(s)] + g[s \ {First(s)}]]
    <2>5. \A s \in Small(k) : s # {} => s \ {First(s)} \in Small(k - 1)
      <3> TAKE s \in Small(k)
      <3> HAVE s # {}
      <3>1. First(s) \in s
        BY DEF First
      <3>2. Cardinality(s \ {First(s)}) = Cardinality(s) - 1
        BY <1>1, <3>1, FS_RemoveElement
      <3> QED
        BY <1>1, <3>2
    <2>6. \A s \in Small(k - 1) : h[s] = g[s]
      <3>1. \A s \in Small(k - 1) : s \in Small(k)
        BY <1>1
      <3> QED
        BY <2>4, <3>1 DEF Adds
    <2>7. Adds(h, f, Small(k))
      <3>1. h = [s \in Small(k) |-> IF s = {} THEN 0 ELSE f[First(s)] + h[s \ {First(s)}]]
        <4> HIDE DEF Small
        <4>1. \A s \in Small(k) : s # {} => h[s \ {First(s)}] = g[s \ {First(s)}]
          BY <2>5, <2>6
        <4> QED
          BY <4>1
      <3> QED
        BY <3>1 DEF Adds
    <2> QED
      BY <2>7
  <1>3. Small(Cardinality(S)) = SUBSET S
    BY FS_Subset
  <1>4. Cardinality(S) \in Nat
    BY FS_CardinalityType
  <1> QED
    BY <1>2, <1>3, <1>4

LEMMA SumAdds ==
  ASSUME NEW f, NEW S, IsFiniteSet(S)
  PROVE  \E g : Adds(g, f, SUBSET S) /\ SumFunctionOnSet(f, S) = g[S]
  <1> DEFINE g == CHOOSE g : Adds(g, f, SUBSET S)
  <1>1. Adds(g, f, SUBSET S)
    BY AddsExists
  <1>2. SumFunctionOnSet(f, S) = g[S]
    BY DEF SumFunctionOnSet, FoldFunctionOnSet, MapThenFoldSet, Adds, First
  <1> QED
    BY <1>1, <1>2

(* The partial sums depend only on the values summed.                      *)
LEMMA AddsAgree ==
  ASSUME NEW f, NEW e, NEW g, NEW h, NEW S, NEW T \in SUBSET S, IsFiniteSet(S),
         Adds(g, f, SUBSET S), Adds(h, e, SUBSET T), \A x \in T : f[x] = e[x]
  PROVE  \A s \in SUBSET T : g[s] = h[s]
  <1> DEFINE Bad == {s \in SUBSET T : g[s] # h[s]}
  <1> SUFFICES ASSUME Bad # {} PROVE FALSE
    OBVIOUS
  <1>1. PICK s \in Bad : \A t \in Bad : t \subseteq s => t = s
    <2>1. IsFiniteSet(T) /\ Bad \subseteq SUBSET T
      BY FS_Subset
    <2> HIDE DEF Bad
    <2> QED
      BY <2>1, MinimalSubset
  <1>2. s \in SUBSET T /\ s \in SUBSET S
    OBVIOUS
  <1>3. CASE s = {}
    BY <1>2, <1>3 DEF Adds
  <1>4. CASE s # {}
    <2>1. First(s) \in s
      BY <1>4 DEF First
    <2>2. s \ {First(s)} \notin Bad /\ s \ {First(s)} \in SUBSET T
      <3>1. s \ {First(s)} \subseteq s /\ s \ {First(s)} # s
        BY <2>1
      <3> HIDE DEF Bad
      <3> QED
        BY <1>1, <1>2, <3>1
    <2>3. g[s \ {First(s)}] = h[s \ {First(s)}]
      BY <2>2
    <2>4. g[s] = f[First(s)] + g[s \ {First(s)}]
      BY <1>2, <1>4 DEF Adds
    <2>5. h[s] = e[First(s)] + h[s \ {First(s)}]
      BY <1>2, <1>4 DEF Adds
    <2> QED
      BY <1>2, <2>1, <2>3, <2>4, <2>5
  <1> QED
    BY <1>3, <1>4

LEMMA SumAgree ==
  ASSUME NEW f, NEW e, NEW S, IsFiniteSet(S), \A x \in S : f[x] = e[x]
  PROVE  SumFunctionOnSet(f, S) = SumFunctionOnSet(e, S)
  <1>1. PICK g : Adds(g, f, SUBSET S) /\ SumFunctionOnSet(f, S) = g[S]
    BY SumAdds
  <1>2. PICK h : Adds(h, e, SUBSET S) /\ SumFunctionOnSet(e, S) = h[S]
    BY SumAdds
  <1>3. \A s \in SUBSET S : g[s] = h[s]
    BY <1>1, <1>2, AddsAgree
  <1> QED
    BY <1>1, <1>2, <1>3

LEMMA SumEmpty ==
  ASSUME NEW f
  PROVE  SumFunctionOnSet(f, {}) = 0
  <1>1. PICK g : Adds(g, f, SUBSET {}) /\ SumFunctionOnSet(f, {}) = g[{}]
    BY FS_EmptySet, SumAdds
  <1> QED
    BY <1>1 DEF Adds

(* Any element may be taken out first.                                     *)
LEMMA AddsRemove ==
  ASSUME NEW f, NEW g, NEW S, IsFiniteSet(S), \A x \in S : f[x] \in Int,
         Adds(g, f, SUBSET S)
  PROVE  \A s \in SUBSET S : g[s] \in Int /\ \A x \in s : g[s] = f[x] + g[s \ {x}]
  <1> DEFINE Good(s) == g[s] \in Int /\ \A x \in s : g[s] = f[x] + g[s \ {x}]
             Bad == {s \in SUBSET S : ~ Good(s)}
  <1> SUFFICES ASSUME Bad # {} PROVE FALSE
    OBVIOUS
  <1>1. PICK s \in Bad : \A t \in Bad : t \subseteq s => t = s
    <2>1. Bad \subseteq SUBSET S
      OBVIOUS
    <2> HIDE DEF Bad
    <2> QED
      BY <2>1, MinimalSubset
  <1>2. s \in SUBSET S /\ ~ Good(s)
    OBVIOUS
  <1>3. CASE s = {}
    <2>1. g[s] = 0
      BY <1>2, <1>3 DEF Adds
    <2> QED
      BY <1>2, <1>3, <2>1
  <1>4. CASE s # {}
    <2> DEFINE c == First(s)
    <2>1. c \in s
      BY <1>4 DEF First
    <2>2. g[s] = f[c] + g[s \ {c}]
      BY <1>2, <1>4 DEF Adds
    <2> HIDE DEF c
    <2>3. \A t \in SUBSET s : t # s => Good(t)
      <3> HIDE DEF Good
      <3> QED
        BY <1>1, <1>2
    <2>4. Good(s \ {c})
      <3> HIDE DEF Good
      <3> QED
        BY <2>1, <2>3
    <2>5. g[s] \in Int
      BY <1>2, <2>1, <2>2, <2>4
    <2>6. ASSUME NEW x \in s PROVE g[s] = f[x] + g[s \ {x}]
      <3>1. CASE x = c
        BY <2>2, <3>1
      <3>2. CASE x # c
        <4> DEFINE a == s \ {c}  b == s \ {x}  d == s \ {c, x}
        <4>1. x \in a /\ c \in b /\ a \ {x} = d /\ b \ {c} = d
          BY <2>1, <3>2
        <4>2. Good(a) /\ Good(b) /\ Good(d)
          <5>1. a # s /\ b # s /\ d # s /\ a \in SUBSET s /\ b \in SUBSET s /\ d \in SUBSET s
            BY <2>1
          <5> HIDE DEF Good, a, b, d
          <5> QED
            BY <2>3, <5>1
        <4>3. g[a] = f[x] + g[d] /\ g[b] = f[c] + g[d] /\ g[d] \in Int
          <5> HIDE DEF a, b, d
          <5> QED
            BY <4>1, <4>2
        <4>4. f[x] \in Int /\ f[c] \in Int
          BY <1>2, <2>1
        <4>5. g[s] = f[c] + g[a]
          BY <2>2
        <4>6. g[s] = f[x] + g[b]
          <5> HIDE DEF a, b, d
          <5> QED
            BY <4>3, <4>4, <4>5
        <4> QED
          BY <4>6
      <3> QED
        BY <3>1, <3>2
    <2> QED
      BY <1>2, <2>5, <2>6
  <1> QED
    BY <1>3, <1>4

LEMMA SumRemove ==
  ASSUME NEW f, NEW S, IsFiniteSet(S), \A x \in S : f[x] \in Int
  PROVE  /\ SumFunctionOnSet(f, S) \in Int
         /\ \A x \in S : SumFunctionOnSet(f, S) = f[x] + SumFunctionOnSet(f, S \ {x})
  <1>1. PICK g : Adds(g, f, SUBSET S) /\ SumFunctionOnSet(f, S) = g[S]
    BY SumAdds
  <1>2. g[S] \in Int /\ \A x \in S : g[S] = f[x] + g[S \ {x}]
    <2>1. \A s \in SUBSET S : g[s] \in Int /\ \A x \in s : g[s] = f[x] + g[s \ {x}]
      BY <1>1, AddsRemove
    <2> QED
      BY <2>1
  <1>3. ASSUME NEW x \in S PROVE SumFunctionOnSet(f, S \ {x}) = g[S \ {x}]
    <2> DEFINE T == S \ {x}
    <2>1. IsFiniteSet(T) /\ T \in SUBSET S
      BY FS_RemoveElement
    <2> HIDE DEF T
    <2>2. PICK h : Adds(h, f, SUBSET T) /\ SumFunctionOnSet(f, T) = h[T]
      BY <2>1, SumAdds
    <2>3. \A s \in SUBSET T : g[s] = h[s]
      BY <1>1, <2>1, <2>2, AddsAgree
    <2> QED
      BY <2>2, <2>3 DEF T
  <1> QED
    BY <1>1, <1>2, <1>3

(* Values that are not negative have a sum that is not, and bounds that of *)
(* each part.                                                              *)
LEMMA SumNonNegative ==
  ASSUME NEW f, NEW S, IsFiniteSet(S), \A x \in S : f[x] \in Nat
  PROVE  SumFunctionOnSet(f, S) \in Nat
  <1> DEFINE Bad == {s \in SUBSET S : SumFunctionOnSet(f, s) \notin Nat}
  <1> SUFFICES ASSUME Bad # {} PROVE FALSE
    OBVIOUS
  <1>1. PICK s \in Bad : \A t \in Bad : t \subseteq s => t = s
    <2>1. Bad \subseteq SUBSET S
      OBVIOUS
    <2> HIDE DEF Bad
    <2> QED
      BY <2>1, MinimalSubset
  <1>2. s \in SUBSET S /\ SumFunctionOnSet(f, s) \notin Nat /\ IsFiniteSet(s)
    BY FS_Subset
  <1>3. s # {}
    BY <1>2, SumEmpty
  <1>4. PICK x \in s : TRUE
    BY <1>3
  <1>5. SumFunctionOnSet(f, s) = f[x] + SumFunctionOnSet(f, s \ {x})
    <2>1. \A y \in s : f[y] \in Int
      BY <1>2
    <2> QED
      BY <1>2, <2>1, SumRemove
  <1>6. SumFunctionOnSet(f, s \ {x}) \in Nat
    <2> SUFFICES s \ {x} \notin Bad
      BY <1>2
    <2> HIDE DEF Bad
    <2> QED
      BY <1>1
  <1> QED
    BY <1>2, <1>5, <1>6

LEMMA SumSubset ==
  ASSUME NEW f, NEW S, IsFiniteSet(S), \A x \in S : f[x] \in Nat, NEW R \in SUBSET S
  PROVE  SumFunctionOnSet(f, R) <= SumFunctionOnSet(f, S)
  <1> DEFINE Bad == {s \in SUBSET S :
                      R \subseteq s /\ ~ (SumFunctionOnSet(f, R) <= SumFunctionOnSet(f, s))}
  <1> SUFFICES ASSUME Bad # {} PROVE FALSE
    OBVIOUS
  <1>1. PICK s \in Bad : \A t \in Bad : t \subseteq s => t = s
    <2>1. Bad \subseteq SUBSET S
      OBVIOUS
    <2> HIDE DEF Bad
    <2> QED
      BY <2>1, MinimalSubset
  <1>2. /\ s \in SUBSET S /\ R \subseteq s /\ IsFiniteSet(s)
        /\ ~ (SumFunctionOnSet(f, R) <= SumFunctionOnSet(f, s))
    BY FS_Subset
  <1>3. SumFunctionOnSet(f, R) \in Nat
    BY FS_Subset, SumNonNegative
  <1>4. s # R
    BY <1>2, <1>3
  <1>5. PICK x \in s : x \notin R
    BY <1>2, <1>4
  <1>6. SumFunctionOnSet(f, s) = f[x] + SumFunctionOnSet(f, s \ {x})
    <2>1. \A y \in s : f[y] \in Int
      BY <1>2
    <2> QED
      BY <1>2, <2>1, SumRemove
  <1>7. SumFunctionOnSet(f, R) <= SumFunctionOnSet(f, s \ {x})
    <2> SUFFICES s \ {x} \notin Bad
      BY <1>2, <1>5
    <2> HIDE DEF Bad
    <2> QED
      BY <1>1
  <1>8. SumFunctionOnSet(f, s \ {x}) \in Nat /\ f[x] \in Nat
    <2>1. IsFiniteSet(s \ {x}) /\ \A y \in s \ {x} : f[y] \in Nat
      BY <1>2, FS_RemoveElement
    <2> QED
      BY <1>2, <2>1, SumNonNegative
  <1> QED
    BY <1>2, <1>3, <1>6, <1>7, <1>8

(* What one element contributes can be replaced.                           *)
Part(f, S, x) == IF x \in S THEN f[x] ELSE 0

LEMMA SumChange ==
  ASSUME NEW f, NEW e, NEW S, NEW T, NEW x, IsFiniteSet(S), IsFiniteSet(T),
         \A y \in S : f[y] \in Int, \A y \in T : e[y] \in Int,
         S \ {x} = T \ {x}, \A y \in S \ {x} : e[y] = f[y]
  PROVE  SumFunctionOnSet(e, T) = SumFunctionOnSet(f, S) - Part(f, S, x) + Part(e, T, x)
  <1> DEFINE U == S \ {x}
  <1>1. /\ IsFiniteSet(U) /\ \A y \in U : f[y] \in Int
        /\ U = T \ {x}
    BY FS_RemoveElement
  <1>2. SumFunctionOnSet(f, U) = SumFunctionOnSet(e, U) /\ SumFunctionOnSet(f, U) \in Int
    <2>1. \A y \in U : f[y] = e[y]
      OBVIOUS
    <2> HIDE DEF U
    <2> QED
      BY <1>1, <2>1, SumAgree, SumRemove
  <1>3. /\ SumFunctionOnSet(f, S) = Part(f, S, x) + SumFunctionOnSet(f, U)
        /\ Part(f, S, x) \in Int
    <2>1. CASE x \in S
      BY <2>1, SumRemove DEF Part
    <2>2. CASE x \notin S
      <3>1. S = U
        BY <2>2
      <3>2. SumFunctionOnSet(f, U) = SumFunctionOnSet(f, S) /\ SumFunctionOnSet(f, U) \in Int
        BY <1>2, <3>1
      <3>3. Part(f, S, x) = 0
        BY <2>2 DEF Part
      <3> QED
        BY <3>2, <3>3
    <2> QED
      BY <2>1, <2>2
  <1>4. /\ SumFunctionOnSet(e, T) = Part(e, T, x) + SumFunctionOnSet(e, U)
        /\ Part(e, T, x) \in Int
    <2>1. CASE x \in T
      BY <1>1, <2>1, SumRemove DEF Part
    <2>2. CASE x \notin T
      <3>1. T = U
        BY <1>1, <2>2
      <3>2. SumFunctionOnSet(e, U) = SumFunctionOnSet(e, T) /\ SumFunctionOnSet(e, U) \in Int
        BY <1>2, <3>1
      <3>3. Part(e, T, x) = 0
        BY <2>2 DEF Part
      <3> QED
        BY <3>2, <3>3
    <2> QED
      BY <2>1, <2>2
  <1> HIDE DEF U
  <1> QED
    BY <1>2, <1>3, <1>4

(* A function is summed over its domain.                                   *)
LEMMA SumOfFunction ==
  ASSUME NEW f, NEW e, NEW S, IsFiniteSet(S), DOMAIN f = S, \A x \in S : f[x] = e[x]
  PROVE  SumFunction(f) = SumFunctionOnSet(e, S)
  <1>1. SumFunction(f) = SumFunctionOnSet(f, S)
    BY DEF SumFunction, SumFunctionOnSet, FoldFunction
  <1> QED
    BY <1>1, SumAgree

(* A sum of multiples.                                                     *)
LEMMA SumScale ==
  ASSUME NEW f, NEW e, NEW S, IsFiniteSet(S), NEW c \in Int,
         \A x \in S : f[x] \in Int /\ e[x] = c * f[x]
  PROVE  SumFunctionOnSet(e, S) = c * SumFunctionOnSet(f, S)
  <1> DEFINE Bad == {s \in SUBSET S : SumFunctionOnSet(e, s) # c * SumFunctionOnSet(f, s)}
  <1> SUFFICES ASSUME Bad # {} PROVE FALSE
    OBVIOUS
  <1>1. PICK s \in Bad : \A t \in Bad : t \subseteq s => t = s
    <2>1. Bad \subseteq SUBSET S
      OBVIOUS
    <2> HIDE DEF Bad
    <2> QED
      BY <2>1, MinimalSubset
  <1>2. s \in SUBSET S /\ SumFunctionOnSet(e, s) # c * SumFunctionOnSet(f, s) /\ IsFiniteSet(s)
    BY FS_Subset
  <1>3. s # {}
    <2>1. SumFunctionOnSet(e, {}) = 0 /\ SumFunctionOnSet(f, {}) = 0 /\ c * 0 = 0
      BY SumEmpty
    <2> QED
      BY <1>2, <2>1
  <1>4. PICK x \in s : TRUE
    BY <1>3
  <1>5. SumFunctionOnSet(e, s \ {x}) = c * SumFunctionOnSet(f, s \ {x})
    <2> SUFFICES s \ {x} \notin Bad
      BY <1>2
    <2> HIDE DEF Bad
    <2> QED
      BY <1>1
  <1>6. /\ SumFunctionOnSet(f, s) = f[x] + SumFunctionOnSet(f, s \ {x})
        /\ SumFunctionOnSet(f, s \ {x}) \in Int
    <2>1. \A y \in s : f[y] \in Int
      BY <1>2
    <2>2. IsFiniteSet(s \ {x}) /\ \A y \in s \ {x} : f[y] \in Int
      BY <1>2, <2>1, FS_RemoveElement
    <2> QED
      BY <1>2, <2>1, <2>2, SumRemove
  <1>7. SumFunctionOnSet(e, s) = e[x] + SumFunctionOnSet(e, s \ {x})
    <2>1. \A y \in s : e[y] \in Int
      BY <1>2
    <2> QED
      BY <1>2, <2>1, SumRemove
  <1>8. \A a, b \in Int : c * (a + b) = c * a + c * b
    OBVIOUS
  <1>9. f[x] \in Int /\ e[x] = c * f[x]
    BY <1>2
  <1> QED
    BY <1>2, <1>5, <1>6, <1>7, <1>8, <1>9

(* The sum over an interval starts with its first term.                    *)
LEMMA SumFirst ==
  ASSUME NEW w, NEW t \in Int, NEW n \in Int, t <= n, \A k \in t..n : w[k] \in Int
  PROVE  /\ SumFunctionOnSet(w, t..n) = w[t] + SumFunctionOnSet(w, (t + 1)..n)
         /\ SumFunctionOnSet(w, (t + 1)..n) \in Int
  <1>1. IsFiniteSet(t..n) /\ IsFiniteSet((t + 1)..n)
    BY FS_Interval
  <1>2. t \in t..n /\ (t..n) \ {t} = (t + 1)..n /\ \A k \in (t + 1)..n : w[k] \in Int
    OBVIOUS
  <1> DEFINE S == t..n
             T == (t + 1)..n
  <1> HIDE DEF S, T
  <1>3. SumFunctionOnSet(w, S) = w[t] + SumFunctionOnSet(w, T)
    <2>1. t \in S /\ S \ {t} = T /\ IsFiniteSet(S) /\ \A k \in S : w[k] \in Int
      BY <1>1, <1>2 DEF S, T
    <2>2. \A x \in S : SumFunctionOnSet(w, S) = w[x] + SumFunctionOnSet(w, S \ {x})
      BY <2>1, SumRemove
    <2>3. SumFunctionOnSet(w, S) = w[t] + SumFunctionOnSet(w, S \ {t})
      BY <2>1, <2>2
    <2> QED
      BY <2>1, <2>3
  <1>4. SumFunctionOnSet(w, T) \in Int
    <2>1. IsFiniteSet(T) /\ \A k \in T : w[k] \in Int
      BY <1>1, <1>2 DEF T
    <2> QED
      BY <2>1, SumRemove
  <1> QED
    BY <1>3, <1>4 DEF S, T
=============================================================================
