------------------------------ MODULE SetSums ------------------------------
(***************************************************************************)
(* Facts about MapThenSumSet of FiniteSetsExt, which the models use for    *)
(* the length of a chain of records, the payments of the pieces that were  *)
(* sent and the fees of transactions.  The sum of a function over a finite *)
(* set does not depend on the order in which its elements are chosen.      *)
(* Then induction up to a number, the existence of functions defined by    *)
(* recursion, and the elements of sequences, for the other proofs.         *)
(***************************************************************************)
EXTENDS Integers, Sequences, Functions, FiniteSetsExt, TLAPS, FiniteSetTheorems, WellFoundedInduction

\* The element that a sum takes next.
Pick(s) == CHOOSE x \in s : TRUE

\* g tells the sum of f over each set of D, which has with a set also the set
\* without the element that is taken next.
Adds(g, f, D) ==
    g = [s \in D |-> IF s = {} THEN 0 ELSE f[Pick(s)] + g[s \ {Pick(s)}]]

\* Every set of natural numbers has a least one: the principle of induction in
\* a form that does not take a predicate.
LEMMA LeastNumber ==
    ASSUME NEW T \in SUBSET Nat, T # {}
    PROVE  \E n \in T : \A m \in T : n <= m
<1>1. PICK n \in T : \A m \in T : ~ (<<m, n>> \in OpToRel(<, Nat))
  BY NatLessThanWellFounded, WFMin
<1>2. \A m \in T : <<m, n>> \in OpToRel(<, Nat) <=> m < n
  BY DEF OpToRel
<1> QED
  <2>1. \A m \in T : ~(m < n)
    BY <1>1, <1>2
  <2>2. n \in Nat /\ \A m \in T : m \in Nat
    OBVIOUS
  <2> QED
    BY <2>1, <2>2

\* A set of numbers up to n that is not empty has a greatest one.
LEMMA GreatestNumber ==
    ASSUME NEW n \in Nat, NEW S \in SUBSET (0..n), S # {}
    PROVE  Max(S) \in S /\ \A x \in S : x <= Max(S)
<1> DEFINE T == {n - x : x \in S}
<1>1. T \in SUBSET Nat /\ T # {}
  <2>1. \A x \in 0..n : n - x \in Nat
    OBVIOUS
  <2>2. \A x \in S : x \in 0..n
    OBVIOUS
  <2> QED
    BY <2>1, <2>2
<1>2. PICK m \in T : \A y \in T : m <= y
  <2> HIDE DEF T
  <2> QED
    BY <1>1, LeastNumber
<1>3. PICK x \in S : m = n - x
  OBVIOUS
<1>4. \A y \in S : x >= y
  <2> SUFFICES ASSUME NEW y \in S PROVE x >= y
    OBVIOUS
  <2>1. n - y \in T
    OBVIOUS
  <2>2. n - x <= n - y
    BY <1>2, <1>3, <2>1
  <2>3. x \in Int /\ y \in Int /\ n \in Int
    OBVIOUS
  <2> HIDE DEF T
  <2> QED
    BY <2>2, <2>3
<1>5. Max(S) \in S /\ \A y \in S : Max(S) >= y
  BY <1>4 DEF Max
<1> QED
  BY <1>5

\* The element of a non-empty set that CHOOSE gives is in it.
LEMMA PickIn == ASSUME NEW s, s # {} PROVE Pick(s) \in s
BY DEF Pick

\* The subsets of S with at most n elements.
UpTo(S, n) == {s \in SUBSET S : Cardinality(s) <= n}

\* Taking the next element away.
LEMMA TakeOne ==
    ASSUME NEW S, IsFiniteSet(S), NEW s \in SUBSET S, s # {}
    PROVE  /\ s \ {Pick(s)} \in SUBSET S
           /\ Cardinality(s) \in Nat /\ Cardinality(s \ {Pick(s)}) \in Nat
           /\ Cardinality(s \ {Pick(s)}) = Cardinality(s) - 1
<1>1. IsFiniteSet(s)
  BY FS_Subset
<1>2. Cardinality(s \ {Pick(s)}) = Cardinality(s) - 1 /\ IsFiniteSet(s \ {Pick(s)})
  BY <1>1, FS_RemoveElement, PickIn
<1> QED
  BY <1>1, <1>2, FS_CardinalityType

\* The recursion that defines a sum has a solution.
LEMMA AddsExists ==
    ASSUME NEW S, IsFiniteSet(S), NEW f
    PROVE  \E g : Adds(g, f, SUBSET S)
<1> DEFINE Bad == {n \in Nat : ~ \E g : Adds(g, f, UpTo(S, n))}
<1>1. Bad = {}
  <2> SUFFICES ASSUME Bad # {} PROVE FALSE
    OBVIOUS
  <2>1. PICK n \in Bad : \A m \in Bad : n <= m
    <3> HIDE DEF Bad
    <3>1. Bad \in SUBSET Nat
      BY DEF Bad
    <3> QED
      BY <3>1, LeastNumber
  <2>2. n \in Nat /\ ~ \E g : Adds(g, f, UpTo(S, n))
    OBVIOUS
  <2>3. CASE n = 0
    <3>1. UpTo(S, 0) = {{}}
      <4>1. \A s \in SUBSET S : IsFiniteSet(s) /\ Cardinality(s) \in Nat
        BY FS_Subset, FS_CardinalityType
      <4>2. \A s \in SUBSET S : Cardinality(s) <= 0 <=> s = {}
        BY <4>1, FS_EmptySet
      <4> QED
        BY <4>2 DEF UpTo
    <3> DEFINE g == [s \in {{}} |-> 0]
    <3>2. Adds(g, f, {{}})
      BY DEF Adds
    <3> QED
      BY <2>2, <2>3, <3>1, <3>2
  <2>4. CASE n # 0
    <3>1. n - 1 \in Nat /\ n - 1 \notin Bad
      <4> HIDE DEF Bad
      <4> QED
      BY <2>1, <2>2, <2>4
    <3>2. PICK h : Adds(h, f, UpTo(S, n - 1))
      BY <3>1
    <3> DEFINE g == [s \in UpTo(S, n) |-> IF s = {} THEN 0 ELSE f[Pick(s)] + h[s \ {Pick(s)}]]
    <3>3. \A s \in UpTo(S, n) : s # {} => s \ {Pick(s)} \in UpTo(S, n - 1)
      BY <2>2, TakeOne DEF UpTo
    <3>4. \A s \in UpTo(S, n - 1) : s \in UpTo(S, n)
      <4>1. \A s \in SUBSET S : Cardinality(s) \in Nat
        BY FS_Subset, FS_CardinalityType
      <4> QED
        BY <2>2, <4>1 DEF UpTo
    <3>5. \A s \in UpTo(S, n - 1) : g[s] = h[s]
      <4> SUFFICES ASSUME NEW s \in UpTo(S, n - 1) PROVE g[s] = h[s]
        OBVIOUS
      <4>1. h[s] = IF s = {} THEN 0 ELSE f[Pick(s)] + h[s \ {Pick(s)}]
        BY <3>2 DEF Adds
      <4> QED
        BY <3>4, <4>1
    <3>6. \A s \in UpTo(S, n) : s # {} => g[s \ {Pick(s)}] = h[s \ {Pick(s)}]
      <4> HIDE DEF g
      <4> QED
        BY <3>3, <3>5
    <3>7. Adds(g, f, UpTo(S, n))
      <4>1. g = [s \in UpTo(S, n) |-> IF s = {} THEN 0 ELSE f[Pick(s)] + g[s \ {Pick(s)}]]
        BY <3>6
      <4> QED
        BY <4>1 DEF Adds
    <3> QED
      BY <2>2, <3>7
  <2> QED
    BY <2>3, <2>4
<1>2. Cardinality(S) \in Nat /\ UpTo(S, Cardinality(S)) = SUBSET S
  BY FS_CardinalityType, FS_Subset DEF UpTo
<1>3. \E g : Adds(g, f, UpTo(S, Cardinality(S)))
  BY <1>1, <1>2
<1> QED
  BY <1>2, <1>3

SameOn(f, e, u) == \A x \in u : f[x] = e[x]
SameSum(g, h, u) == g[u] = h[u]

\* Two solutions, over different sets and for functions that agree, agree.
LEMMA AddsAgree ==
    ASSUME NEW S, IsFiniteSet(S), NEW f, NEW g, Adds(g, f, SUBSET S),
           NEW T, IsFiniteSet(T), NEW e, NEW h, Adds(h, e, SUBSET T),
           NEW u, u \in SUBSET S, u \in SUBSET T, SameOn(f, e, u)
    PROVE  SameSum(g, h, u)
<1> DEFINE Bad == {n \in Nat : \E s \in SUBSET u : Cardinality(s) = n /\ g[s] # h[s]}
<1>0. Bad \in SUBSET Nat
  OBVIOUS
<1>1. Bad = {}
  <2> SUFFICES ASSUME Bad # {} PROVE FALSE
    OBVIOUS
  <2>1. PICK n \in Bad : \A m \in Bad : n <= m
    <3> HIDE DEF Bad
    <3> QED
      BY <1>0, LeastNumber
  <2>2. PICK s \in SUBSET u : Cardinality(s) = n /\ g[s] # h[s]
    OBVIOUS
  <2>3. /\ g[s] = IF s = {} THEN 0 ELSE f[Pick(s)] + g[s \ {Pick(s)}]
        /\ h[s] = IF s = {} THEN 0 ELSE e[Pick(s)] + h[s \ {Pick(s)}]
    BY DEF Adds
  <2>4. s # {}
    BY <2>2, <2>3
  <2>5. Pick(s) \in u /\ s \ {Pick(s)} \in SUBSET u
    BY <2>4, PickIn
  <2>6. g[s \ {Pick(s)}] # h[s \ {Pick(s)}]
    BY <2>2, <2>3, <2>4, <2>5 DEF SameOn
  <2>7. Cardinality(s \ {Pick(s)}) \in Nat /\ Cardinality(s \ {Pick(s)}) < n /\ n \in Nat
    BY <2>2, <2>4, TakeOne
  <2>8. Cardinality(s \ {Pick(s)}) \in Bad
    BY <2>5, <2>6, <2>7
  <2> HIDE DEF Bad
  <2> QED
    BY <2>1, <2>7, <2>8
<1>2. Cardinality(u) \in Nat
  BY FS_Subset, FS_CardinalityType
<1>3. Cardinality(u) \notin Bad
  BY <1>1
<1> QED
  BY <1>2, <1>3 DEF SameSum

\* A sum of integers is one, and of natural numbers too.
LEMMA AddsType ==
    ASSUME NEW S, IsFiniteSet(S), NEW f, NEW g, Adds(g, f, SUBSET S),
           NEW N, N \in {Nat, Int}, \A x \in S : f[x] \in N
    PROVE  \A s \in SUBSET S : g[s] \in N
<1> DEFINE Bad == {n \in Nat : \E s \in SUBSET S : Cardinality(s) = n /\ g[s] \notin N}
<1>0. Bad \in SUBSET Nat
  OBVIOUS
<1>1. Bad = {}
  <2> SUFFICES ASSUME Bad # {} PROVE FALSE
    OBVIOUS
  <2>1. PICK n \in Bad : \A m \in Bad : n <= m
    <3> HIDE DEF Bad
    <3> QED
      BY <1>0, LeastNumber
  <2>2. PICK s \in SUBSET S : Cardinality(s) = n /\ g[s] \notin N
    OBVIOUS
  <2>3. g[s] = IF s = {} THEN 0 ELSE f[Pick(s)] + g[s \ {Pick(s)}]
    BY DEF Adds
  <2>4. s # {}
    BY <2>2, <2>3
  <2>5. Pick(s) \in S /\ s \ {Pick(s)} \in SUBSET S
    BY <2>4, PickIn
  <2>6. g[s \ {Pick(s)}] \notin N
    <3>1. g[s] = f[Pick(s)] + g[s \ {Pick(s)}] /\ f[Pick(s)] \in N
      BY <2>3, <2>4, <2>5
    <3>2. CASE N = Nat
      BY <2>2, <3>1, <3>2
    <3>3. CASE N = Int
      BY <2>2, <3>1, <3>3
    <3> QED
      BY <3>2, <3>3
  <2>7. Cardinality(s \ {Pick(s)}) \in Nat /\ Cardinality(s \ {Pick(s)}) < n /\ n \in Nat
    BY <2>2, <2>4, TakeOne
  <2>8. Cardinality(s \ {Pick(s)}) \in Bad
    BY <2>5, <2>6, <2>7
  <2> HIDE DEF Bad
  <2> QED
    BY <2>1, <2>7, <2>8
<1>2. \A s \in SUBSET S : Cardinality(s) \in Nat
  BY FS_Subset, FS_CardinalityType
<1>3. \A s \in SUBSET S : Cardinality(s) \notin Bad
  BY <1>1
<1> QED
  BY <1>2, <1>3

\* Any element may be taken first.
AnyFirst(g, f, S) == \A s \in SUBSET S : \A x \in s : g[s] = f[x] + g[s \ {x}]
\* Whichever element is taken first, the sum is the same: by the least size of a set where it is not.
LEMMA AddsTake ==
    ASSUME NEW S, IsFiniteSet(S), NEW f, NEW g, Adds(g, f, SUBSET S),
           \A x \in S : f[x] \in Int
    PROVE  AnyFirst(g, f, S)
<1> DEFINE Bad == {n \in Nat : \E s \in SUBSET S : \E x \in s :
                                  Cardinality(s) = n /\ g[s] # f[x] + g[s \ {x}]}
<1>0. Bad \in SUBSET Nat
  OBVIOUS
<1>t. \A s \in SUBSET S : g[s] \in Int
  BY AddsType
<1>1. Bad = {}
  <2> SUFFICES ASSUME Bad # {} PROVE FALSE
    OBVIOUS
  <2>1. PICK n \in Bad : \A m \in Bad : n <= m
    <3> HIDE DEF Bad
    <3> QED
      BY <1>0, LeastNumber
  <2>2. PICK s \in SUBSET S : \E x \in s : Cardinality(s) = n /\ g[s] # f[x] + g[s \ {x}]
    OBVIOUS
  <2>3. PICK x \in s : Cardinality(s) = n /\ g[s] # f[x] + g[s \ {x}]
    BY <2>2
  <2> DEFINE c == Pick(s)
  <2>4. c \in s /\ g[s] = f[c] + g[s \ {c}] /\ c # x
    <3>1. g[s] = IF s = {} THEN 0 ELSE f[Pick(s)] + g[s \ {Pick(s)}]
      BY DEF Adds
    <3> QED
      BY <2>3, <3>1, PickIn
  <2> HIDE DEF c
  <2>5. /\ Cardinality(s \ {c}) = n - 1 /\ Cardinality(s \ {x}) = n - 1
        /\ n - 1 \in Nat
    <3>1. IsFiniteSet(s)
      BY FS_Subset
    <3>2. IsFiniteSet(s \ {c}) /\ Cardinality(s \ {c}) = n - 1 /\ Cardinality(s \ {x}) = n - 1
      BY <2>3, <2>4, <3>1, FS_RemoveElement
    <3> QED
      BY <3>2, FS_CardinalityType
  <2>6. n - 1 \notin Bad
    <3> HIDE DEF Bad
    <3> QED
      BY <1>0, <2>1, <2>5
  <2>7. g[s \ {c}] = f[x] + g[(s \ {c}) \ {x}]
    BY <2>4, <2>5, <2>6
  <2>8. g[s \ {x}] = f[c] + g[(s \ {x}) \ {c}]
    BY <2>4, <2>5, <2>6
  <2>9. (s \ {x}) \ {c} = (s \ {c}) \ {x}
    OBVIOUS
  <2>10. {f[x], f[c], g[s], g[s \ {c}], g[s \ {x}], g[(s \ {c}) \ {x}]} \subseteq Int
    BY <1>t, <2>4
  <2>11. \A a, b, i, j, k, l \in Int : i = b + j /\ j = a + l /\ k = b + l => i = a + k
    OBVIOUS
  <2>12. g[s \ {x}] = f[c] + g[(s \ {c}) \ {x}]
    BY <2>8, <2>9
  <2>13. g[s] = f[x] + g[s \ {x}]
    <3> DEFINE a == f[x] b == f[c] i == g[s] j == g[s \ {c}] k == g[s \ {x}] l == g[(s \ {c}) \ {x}]
    <3>1. {a, b, i, j, k, l} \subseteq Int /\ i = b + j /\ j = a + l /\ k = b + l
      BY <2>4, <2>7, <2>10, <2>12
    <3> HIDE DEF a, b, i, j, k, l
    <3>2. i = a + k
      BY <2>11, <3>1
    <3> QED
      BY <3>2 DEF a, i, k
  <2> QED
    BY <2>3, <2>13
<1>2. \A s \in SUBSET S : Cardinality(s) \in Nat
  BY FS_Subset, FS_CardinalityType
<1>3. \A s \in SUBSET S : Cardinality(s) \notin Bad
  BY <1>1
<1> QED
  BY <1>2, <1>3 DEF AnyFirst

-----------------------------------------------------------------------------

\* The sum of f over S: MapThenSumSet of x |-> f[x].
SumOf(f, S) == (CHOOSE g : Adds(g, f, SUBSET S))[S]

\* Every solution of the recursion tells the sum.
LEMMA SumOfAdds ==
    ASSUME NEW S, IsFiniteSet(S), NEW f, NEW g, Adds(g, f, SUBSET S)
    PROVE  SumOf(f, S) = g[S]
<1> DEFINE h == CHOOSE k : Adds(k, f, SUBSET S)
<1>1. Adds(h, f, SUBSET S)
  BY AddsExists
<1> HIDE DEF h
<1>2. h[S] = g[S]
  <2>1. S \in SUBSET S /\ SameOn(f, f, S)
    BY DEF SameOn
  <2>2. SameSum(h, g, S)
    BY <1>1, <2>1, AddsAgree
  <2> QED
    BY <2>2 DEF SameSum
<1> QED
  BY <1>2 DEF SumOf, h

\* The sum depends on the values on the set only.
LEMMA SumOfSame ==
    ASSUME NEW S, IsFiniteSet(S), NEW f, NEW e, \A x \in S : f[x] = e[x]
    PROVE  SumOf(f, S) = SumOf(e, S)
<1>1. PICK g : Adds(g, f, SUBSET S)
  BY AddsExists
<1>2. PICK h : Adds(h, e, SUBSET S)
  BY AddsExists
<1>3. g[S] = h[S]
  <2>1. S \in SUBSET S /\ SameOn(f, e, S)
    BY DEF SameOn
  <2>2. SameSum(g, h, S)
    BY <1>1, <1>2, <2>1, AddsAgree
  <2> QED
    BY <2>2 DEF SameSum
<1> QED
  BY <1>1, <1>2, <1>3, SumOfAdds

\* The sum over no elements is zero.
LEMMA SumOfEmpty == \A f : SumOf(f, {}) = 0
<1> SUFFICES ASSUME NEW f PROVE SumOf(f, {}) = 0
  OBVIOUS
<1>1. IsFiniteSet({})
  BY FS_EmptySet
<1>2. PICK g : Adds(g, f, SUBSET {})
  BY <1>1, AddsExists
<1>3. g[{}] = 0
  BY <1>2 DEF Adds
<1> QED
  BY <1>1, <1>2, <1>3, SumOfAdds

\* A sum of naturals is a natural, one of integers an integer.
LEMMA SumOfType ==
    ASSUME NEW S, IsFiniteSet(S), NEW f, NEW N, N \in {Nat, Int}, \A x \in S : f[x] \in N
    PROVE  SumOf(f, S) \in N
<1>1. PICK g : Adds(g, f, SUBSET S)
  BY AddsExists
<1> QED
  BY <1>1, AddsType, SumOfAdds

\* The sum over a set is one element and the sum over the rest.
LEMMA SumOfTake ==
    ASSUME NEW S, IsFiniteSet(S), NEW f, \A x \in S : f[x] \in Int, NEW x \in S
    PROVE  SumOf(f, S) = f[x] + SumOf(f, S \ {x})
<1>1. PICK g : Adds(g, f, SUBSET S)
  BY AddsExists
<1>2. IsFiniteSet(S \ {x})
  BY FS_RemoveElement
<1>3. PICK h : Adds(h, f, SUBSET (S \ {x}))
  BY <1>2, AddsExists
<1>4. g[S \ {x}] = h[S \ {x}]
  <2>1. S \ {x} \in SUBSET S /\ S \ {x} \in SUBSET (S \ {x}) /\ SameOn(f, f, S \ {x})
    BY DEF SameOn
  <2>2. SameSum(g, h, S \ {x})
    BY <1>1, <1>2, <1>3, <2>1, AddsAgree
  <2> QED
    BY <2>2 DEF SameSum
<1>5. g[S] = f[x] + g[S \ {x}]
  <2>1. AnyFirst(g, f, S)
    BY <1>1, AddsTake
  <2>2. S \in SUBSET S
    OBVIOUS
  <2> QED
    BY <2>1, <2>2 DEF AnyFirst
<1>6. SumOf(f, S) = g[S] /\ SumOf(f, S \ {x}) = h[S \ {x}]
  BY <1>1, <1>2, <1>3, SumOfAdds
<1> QED
  BY <1>4, <1>5, <1>6

\* A sum of positive numbers over a set that is not empty is positive.
LEMMA SumOfPositive ==
    ASSUME NEW S, IsFiniteSet(S), S # {}, NEW f, \A x \in S : f[x] \in Nat \ {0}
    PROVE  SumOf(f, S) \in Nat \ {0}
<1>1. PICK x \in S : TRUE
  OBVIOUS
<1>2. SumOf(f, S) = f[x] + SumOf(f, S \ {x})
  BY SumOfTake
<1>3. IsFiniteSet(S \ {x})
  BY FS_RemoveElement
<1>4. SumOf(f, S \ {x}) \in Nat
  BY <1>3, SumOfType
<1> QED
  BY <1>2, <1>4

\* When one value changes, so does the sum, by as much.
LEMMA SumOfChange ==
    ASSUME NEW S, IsFiniteSet(S), NEW x \in S, NEW f, NEW e,
           \A y \in S : f[y] \in Int /\ e[y] \in Int,
           \A y \in S \ {x} : f[y] = e[y]
    PROVE  SumOf(e, S) = SumOf(f, S) + (e[x] - f[x])
<1>1. IsFiniteSet(S \ {x})
  BY FS_RemoveElement
<1>2. SumOf(e, S \ {x}) = SumOf(f, S \ {x})
  BY <1>1, SumOfSame
<1>3. SumOf(f, S) = f[x] + SumOf(f, S \ {x}) /\ SumOf(e, S) = e[x] + SumOf(e, S \ {x})
  BY SumOfTake
<1>4. SumOf(f, S \ {x}) \in Int /\ f[x] \in Int /\ e[x] \in Int
  BY <1>1, SumOfType
<1> QED
  BY <1>2, <1>3, <1>4

\* A sum is that over a part and that over the rest.
LEMMA SumOfSplit ==
    ASSUME NEW S, IsFiniteSet(S), NEW f, \A x \in S : f[x] \in Int
    PROVE  \A T \in SUBSET S : SumOf(f, S) = SumOf(f, T) + SumOf(f, S \ T)
<1> DEFINE Bad == {n \in Nat : \E T \in SUBSET S : Cardinality(T) = n /\ SumOf(f, S) # SumOf(f, T) + SumOf(f, S \ T)}
<1>0. \A T \in SUBSET S : IsFiniteSet(T) /\ Cardinality(T) \in Nat /\ SumOf(f, T) \in Int
  <2> TAKE T \in SUBSET S
  <2>1. IsFiniteSet(T) /\ Cardinality(T) \in Nat /\ \A x \in T : f[x] \in Int
    BY FS_Subset, FS_CardinalityType
  <2> QED
    BY <2>1, SumOfType
<1>1. ASSUME NEW n \in Bad, \A m \in Bad : n <= m PROVE FALSE
  <2>1. PICK T \in SUBSET S : Cardinality(T) = n /\ SumOf(f, S) # SumOf(f, T) + SumOf(f, S \ T)
    BY <1>1
  <2>2. CASE T = {}
    <3>1. S \ T = S /\ SumOf(f, T) = 0 /\ SumOf(f, S) \in Int
      BY <2>2, <1>0, SumOfEmpty
    <3>2. SumOf(f, S \ T) = SumOf(f, S)
      BY <3>1
    <3> QED
      BY <2>1, <3>1, <3>2
  <2>3. CASE T # {}
    <3>1. PICK x \in T : TRUE
      BY <2>3
    <3>2. PICK R : R = T \ {x}
      OBVIOUS
    <3>3. R \in SUBSET S /\ T \in SUBSET S /\ S \ T \in SUBSET S /\ S \ R \in SUBSET S
      BY <3>2
    <3>4. Cardinality(R) = Cardinality(T) - 1
      BY <3>1, <3>2, <1>0, FS_RemoveElement
    <3>5. Cardinality(R) \in Nat /\ Cardinality(T) \in Nat
      BY <3>3, <1>0
    <3>6. SumOf(f, S) = SumOf(f, R) + SumOf(f, S \ R)
      <4>1. Cardinality(R) \notin Bad
        <5> HIDE DEF Bad
        <5>1. Cardinality(R) \in Bad => n <= Cardinality(R)
          BY <1>1
        <5> QED
          BY <3>4, <3>5, <2>1, <5>1
      <4> QED
        BY <4>1, <3>3, <3>5
    <3>7. SumOf(f, T) = f[x] + SumOf(f, R)
      <4>1. IsFiniteSet(T) /\ \A y \in T : f[y] \in Int
        BY <1>0
      <4> QED
        BY <4>1, <3>1, <3>2, SumOfTake
    <3>8. SumOf(f, S \ R) = f[x] + SumOf(f, S \ T)
      <4>1. IsFiniteSet(S \ R) /\ x \in S \ R /\ \A y \in S \ R : f[y] \in Int
        BY <1>0, <3>1, <3>2, <3>3
      <4>2. (S \ R) \ {x} = S \ T
        BY <3>1, <3>2
      <4>3. SumOf(f, S \ R) = f[x] + SumOf(f, (S \ R) \ {x})
        BY <4>1, SumOfTake
      <4> QED
        BY <4>2, <4>3
    <3>9. f[x] \in Int /\ SumOf(f, R) \in Int /\ SumOf(f, S \ T) \in Int
      BY <3>1, <3>3, <1>0
    <3> QED
      BY <2>1, <3>6, <3>7, <3>8, <3>9
  <2> QED
    BY <2>2, <2>3
<1>2. Bad = {}
  <2> HIDE DEF Bad
  <2>1. Bad \in SUBSET Nat
    BY DEF Bad
  <2> QED
    BY <2>1, <1>1, LeastNumber
<1>3. \A T \in SUBSET S : Cardinality(T) \notin Bad
  BY <1>2
<1> QED
  BY <1>0, <1>3

-----------------------------------------------------------------------------
(* Induction, recursion and sequences *)

\* Induction up to n, for a set instead of a predicate.
LEMMA InductionUpTo ==
    ASSUME NEW n \in Nat, NEW D, 0 \in D, \A i \in 0..(n - 1) : i \in D => i + 1 \in D
    PROVE  \A i \in 0..n : i \in D
<1> DEFINE Bad == (0..n) \ D
<1>1. Bad = {}
  <2> SUFFICES ASSUME Bad # {} PROVE FALSE
    OBVIOUS
  <2>1. Bad \in SUBSET Nat
    OBVIOUS
  <2>2. PICK k \in Bad : \A m \in Bad : k <= m
    <3> HIDE DEF Bad
    <3> QED
      BY <2>1, LeastNumber
  <2>3. k \in 0..n /\ k \notin D /\ k # 0
    OBVIOUS
  <2>4. k - 1 \in 0..(n - 1) /\ k - 1 \in 0..n /\ ~(k <= k - 1) /\ (k - 1) + 1 = k
    BY <2>3
  <2>5. k - 1 \in D
    BY <2>2, <2>4
  <2> QED
    BY <2>3, <2>4, <2>5
<1> QED
  BY <1>1

\* f is what the steps of stp make of b, one after the other, up to the n-th.
Iterates(f, b, stp, n) == f = [i \in 0..n |-> IF i = 0 THEN b ELSE stp[<<i, f[i - 1]>>]]

\* Steps that stay in a set V can be iterated, and the values are in V.
LEMMA IteratesExists ==
    ASSUME NEW V, NEW b \in V, NEW n \in Nat, NEW stp \in [(1..n) \X V -> V]
    PROVE  \E f : Iterates(f, b, stp, n)
<1> DEFINE D == {k \in Nat : \E f : Iterates(f, b, stp, k)}
<1>1. 0 \in D
  <2> DEFINE f == [i \in 0..0 |-> b]
  <2>1. Iterates(f, b, stp, 0)
    BY DEF Iterates
  <2> QED
    BY <2>1
<1>2. \A k \in 0..(n - 1) : k \in D => k + 1 \in D
  <2> SUFFICES ASSUME NEW k \in 0..(n - 1), NEW g, Iterates(g, b, stp, k) PROVE \E f : Iterates(f, b, stp, k + 1)
    OBVIOUS
  <2> DEFINE f == [i \in 0..(k + 1) |-> IF i = 0 THEN b ELSE stp[<<i, g[i - 1]>>]]
  <2>1. \A i \in 0..k : f[i] = g[i]
    <3> SUFFICES ASSUME NEW i \in 0..k PROVE f[i] = g[i]
      OBVIOUS
    <3>1. g[i] = IF i = 0 THEN b ELSE stp[<<i, g[i - 1]>>]
      BY DEF Iterates
    <3>2. i \in 0..(k + 1)
      OBVIOUS
    <3> QED
      BY <3>1, <3>2
  <2>2. \A i \in 0..(k + 1) : i # 0 => i - 1 \in 0..k
    OBVIOUS
  <2>3. \A i \in 0..(k + 1) : i # 0 => f[i - 1] = g[i - 1]
    <3> HIDE DEF f
    <3> QED
      BY <2>1, <2>2
  <2>4. f = [i \in 0..(k + 1) |-> IF i = 0 THEN b ELSE stp[<<i, f[i - 1]>>]]
    BY <2>3
  <2>5. Iterates(f, b, stp, k + 1)
    BY <2>4 DEF Iterates
  <2> QED
    BY <2>5
<1>3. n \in D
  <2> HIDE DEF D
  <2> QED
    BY <1>1, <1>2, InductionUpTo
<1> QED
  BY <1>3

\* The values of an iteration are in the set its steps stay in.
LEMMA IteratesIn ==
    ASSUME NEW V, NEW b \in V, NEW n \in Nat, NEW stp, \A i \in 1..n, v \in V : stp[<<i, v>>] \in V,
           NEW f, Iterates(f, b, stp, n)
    PROVE  \A i \in 0..n : f[i] \in V
<1> DEFINE D == {k \in 0..n : f[k] \in V}
<1>0. \A i \in 0..n : f[i] = IF i = 0 THEN b ELSE stp[<<i, f[i - 1]>>]
  BY DEF Iterates
<1>1. 0 \in D
  <2>1. 0 \in 0..n
    OBVIOUS
  <2>2. f[0] = b
    BY <1>0, <2>1
  <2> QED
    BY <2>1, <2>2
<1>2. \A k \in 0..(n - 1) : k \in D => k + 1 \in D
  <2> SUFFICES ASSUME NEW k \in 0..(n - 1), f[k] \in V PROVE k + 1 \in 0..n /\ f[k + 1] \in V
    OBVIOUS
  <2>1. k + 1 \in 0..n /\ k + 1 \in 1..n /\ k + 1 # 0 /\ (k + 1) - 1 = k
    OBVIOUS
  <2>2. f[k + 1] = stp[<<k + 1, f[(k + 1) - 1]>>]
    BY <1>0, <2>1
  <2> QED
    BY <2>1, <2>2
<1> HIDE DEF D
<1>3. \A i \in 0..n : i \in D
  BY <1>1, <1>2, InductionUpTo
<1> QED
  BY <1>3 DEF D

\* The elements of a sequence with one more.
LEMMA RangeAppend ==
    ASSUME NEW S, NEW s \in Seq(S), NEW x \in S
    PROVE  Range(Append(s, x)) = Range(s) \cup {x}
<1>1. Append(s, x) \in Seq(S) /\ DOMAIN Append(s, x) = 1..(Len(s) + 1) /\ DOMAIN s = 1..Len(s) /\ Len(s) \in Nat
  OBVIOUS
<1>2. \A i \in 1..Len(s) : i \in 1..(Len(s) + 1) /\ Append(s, x)[i] = s[i]
  OBVIOUS
<1>3. Append(s, x)[Len(s) + 1] = x /\ Len(s) + 1 \in 1..(Len(s) + 1)
  OBVIOUS
<1>4. \A i \in 1..(Len(s) + 1) : i = Len(s) + 1 \/ i \in 1..Len(s)
  BY <1>1
<1> QED
  BY <1>1, <1>2, <1>3, <1>4 DEF Range

\* The elements of a sequence are its head and those of its tail.
LEMMA RangeTail ==
    ASSUME NEW S, NEW s \in Seq(S), s # <<>>
    PROVE  /\ Tail(s) \in Seq(S) /\ Head(s) \in S /\ Len(Tail(s)) = Len(s) - 1
           /\ Range(s) = {Head(s)} \cup Range(Tail(s))
<1>1. Tail(s) \in Seq(S) /\ DOMAIN Tail(s) = 1..(Len(s) - 1) /\ DOMAIN s = 1..Len(s) /\ Len(s) \in Nat \ {0}
  OBVIOUS
<1>2. \A i \in 1..(Len(s) - 1) : i + 1 \in 1..Len(s) /\ Tail(s)[i] = s[i + 1]
  OBVIOUS
<1>3. Head(s) = s[1] /\ 1 \in 1..Len(s)
  OBVIOUS
<1>4. \A i \in 1..Len(s) : i # 1 => i - 1 \in 1..(Len(s) - 1) /\ (i - 1) + 1 = i
  BY <1>1
<1>5. \A i \in 1..Len(s) : i # 1 => s[i] = Tail(s)[i - 1]
  BY <1>2, <1>4
<1>6. Range(s) \subseteq {Head(s)} \cup Range(Tail(s))
  <2> SUFFICES ASSUME NEW i \in 1..Len(s) PROVE s[i] = Head(s) \/ s[i] \in Range(Tail(s))
    BY <1>1 DEF Range
  <2>1. CASE i = 1
    BY <1>3, <2>1
  <2>2. CASE i # 1
    <3>1. s[i] = Tail(s)[i - 1] /\ i - 1 \in DOMAIN Tail(s)
      BY <1>1, <1>4, <1>5, <2>2
    <3> QED
      BY <3>1 DEF Range
  <2> QED
    BY <2>1, <2>2
<1>7. {Head(s)} \cup Range(Tail(s)) \subseteq Range(s)
  BY <1>1, <1>2, <1>3 DEF Range
<1> QED
  BY <1>1, <1>6, <1>7

\* The elements of a sequence over S are in S; an empty one has none.
LEMMA RangeIn ==
    ASSUME NEW S, NEW s \in Seq(S)
    PROVE  Range(s) \subseteq S /\ (s = <<>> <=> Range(s) = {}) /\ Range(<<>>) = {}
<1>1. DOMAIN s = 1..Len(s) /\ Len(s) \in Nat /\ (s # <<>> => 1 \in DOMAIN s) /\ DOMAIN <<>> = {}
  OBVIOUS
<1>2. \A i \in DOMAIN s : s[i] \in S
  OBVIOUS
<1> QED
  BY <1>1, <1>2 DEF Range
=============================================================================
