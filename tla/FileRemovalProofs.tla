-------------------------- MODULE FileRemovalProofs --------------------------
(***************************************************************************)
(* FileRemoval, and with it FileStore, for any number of clients and keys  *)
(* and any sizes: tokens, the lock, and the room that is accounted for.    *)
(***************************************************************************)
EXTENDS FileRemoval, FiniteSetTheorems, SequenceTheorems,
        WellFoundedInduction, TLAPS

------------------------------------------------------------------------------
(* Sums over finite sets.  The induction theorems of the library take a      *)
(* predicate as a parameter; here they are replaced by the existence of      *)
(* least elements, which is a statement about sets.                          *)

LEMMA LeastNumber ==
    ASSUME NEW T \in SUBSET Nat, T # {}
    PROVE  \E n \in T : \A m \in T : n <= m
<1>1. PICK n \in T : \A m \in T : ~ (<<m, n>> \in OpToRel(<, Nat))
  BY NatLessThanWellFounded, WFMin
<1>2. \A m \in T : ~ (m < n)
  BY <1>1 DEF OpToRel
<1> QED  BY <1>2

\* A set of numbers that contains 0, and with each number the next, is Nat.
LEMMA NatByInduction ==
    ASSUME NEW P, 0 \in P, \A n \in Nat : n \in P => n + 1 \in P
    PROVE  Nat \subseteq P
<1> SUFFICES ASSUME Nat \ P # {}  PROVE FALSE
  OBVIOUS
<1>1. PICK n \in Nat \ P : \A m \in Nat \ P : n <= m
  BY LeastNumber
<1>2. n - 1 \in Nat /\ n - 1 \in P
  BY <1>1
<1>3. (n - 1) + 1 \in P /\ (n - 1) + 1 = n
  BY <1>1, <1>2
<1> QED  BY <1>3

\* Of some subsets of a finite set one contains no other.
LEMMA LeastSubset ==
    ASSUME NEW S, IsFiniteSet(S), NEW T \in SUBSET SUBSET S, T # {}
    PROVE  \E s \in T : \A t \in T : t \subseteq s => t = s
<1>1. T \subseteq FiniteSubsetsOf(S)
  BY FS_FiniteSubsetsOfFinite
<1>2. PICK s \in T : \A t \in T : ~ (<<t, s>> \in StrictSubsetOrdering(S))
  BY <1>1, FS_StrictSubsetOrderingWellFounded, WFMin
<1>3. ASSUME NEW t \in T, t \subseteq s  PROVE t = s
  <2>1. <<t, s>> \in (SUBSET S) \X (SUBSET S)
    OBVIOUS
  <2> QED  BY <1>2, <1>3, <2>1 DEF StrictSubsetOrdering
<1> QED  BY <1>3

Chosen(s) == CHOOSE x \in s : TRUE

\* g is the sum of f over each of the sets D, which are the subsets of a set,
\* or the smaller ones of them.
Adds(g, f, D) == g = [s \in D |-> IF s = {} THEN 0 ELSE f[Chosen(s)] + g[s \ {Chosen(s)}]]

LEMMA AddsAt ==
    ASSUME NEW g, NEW f, NEW D, Adds(g, f, D)
    PROVE  \A s \in D : g[s] = IF s = {} THEN 0 ELSE f[Chosen(s)] + g[s \ {Chosen(s)}]
BY DEF Adds

IsSum(g, f, S) == Adds(g, f, SUBSET S)
TakesOut(g, f, s, x) == g[s] = f[x] + g[s \ {x}]

LEMMA ChosenIn == ASSUME NEW s, s # {}  PROVE Chosen(s) \in s
BY DEF Chosen

LEMMA SumIsAdded ==
    ASSUME NEW f
    PROVE  SumFunction(f) = (CHOOSE sum : IsSum(sum, f, DOMAIN f))[DOMAIN f]
BY DEF IsSum, SumFunction, SumFunctionOnSet, FoldFunctionOnSet, MapThenFoldSet, Adds, Chosen

\* There is such a sum: for sets of one element more, from the one before.
LEMMA AddsExists ==
    ASSUME NEW S, IsFiniteSet(S), NEW f
    PROVE  \E g : IsSum(g, f, S)
<1> DEFINE Upto(n) == {s \in SUBSET S : Cardinality(s) <= n}
           P == {n \in Nat : \E g : Adds(g, f, Upto(n))}
<1>0. \A s \in SUBSET S : IsFiniteSet(s) /\ Cardinality(s) \in Nat
  BY FS_Subset, FS_CardinalityType
<1>1. 0 \in P
  <2> DEFINE g == [s \in Upto(0) |-> 0]
  <2>1. \A s \in Upto(0) : s = {}
    BY <1>0, FS_EmptySet
  <2>2. Adds(g, f, Upto(0))
    BY <2>1 DEF Adds
  <2> QED  BY <2>2
<1>2. ASSUME NEW n \in P  PROVE n + 1 \in P
  <2>1. PICK g : Adds(g, f, Upto(n))
    OBVIOUS
  <2> DEFINE h == [s \in Upto(n + 1) |->
                     IF s = {} THEN 0 ELSE f[Chosen(s)] + g[s \ {Chosen(s)}]]
  <2>2. ASSUME NEW s \in Upto(n + 1), s # {}
        PROVE  s \ {Chosen(s)} \in Upto(n) /\ s \ {Chosen(s)} \in Upto(n + 1)
    <3>1. Cardinality(s \ {Chosen(s)}) = Cardinality(s) - 1
      BY <1>0, <2>2, ChosenIn, FS_RemoveElement
    <3> QED  BY <1>0, <2>2, <3>1
  <2>3. ASSUME NEW s \in Upto(n), s \in Upto(n + 1)  PROVE h[s] = g[s]
    <3>1. g[s] = IF s = {} THEN 0 ELSE f[Chosen(s)] + g[s \ {Chosen(s)}]
      <4>1. Adds(g, f, Upto(n)) /\ s \in Upto(n)
        BY <2>1, <2>3
      <4> HIDE DEF Upto
      <4> QED  BY <4>1, AddsAt
    <3>2. h[s] = IF s = {} THEN 0 ELSE f[Chosen(s)] + g[s \ {Chosen(s)}]
      BY <2>3
    <3> HIDE DEF h
    <3> QED  BY <3>1, <3>2
  <2>4. \A s \in Upto(n + 1) :
          h[s] = IF s = {} THEN 0 ELSE f[Chosen(s)] + h[s \ {Chosen(s)}]
    BY <2>2, <2>3
  <2> HIDE DEF Upto
  <2>5. h = [s \in Upto(n + 1) |-> IF s = {} THEN 0 ELSE f[Chosen(s)] + h[s \ {Chosen(s)}]]
    BY <2>4
  <2> HIDE DEF h
  <2>6. Adds(h, f, Upto(n + 1))
    BY <2>5 DEF Adds
  <2> QED  BY <2>6
<1> HIDE DEF P
<1>3. Nat \subseteq P
  BY <1>1, <1>2, NatByInduction
<1>4. Cardinality(S) \in P
  BY <1>3, FS_CardinalityType
<1>5. Upto(Cardinality(S)) = SUBSET S
  BY FS_Subset
<1> QED  BY <1>4, <1>5 DEF P, IsSum

\* The sum of numbers is one, and takes them in any order.
LEMMA AddsNumbers ==
    ASSUME NEW S, IsFiniteSet(S), NEW f, NEW g, IsSum(g, f, S),
           \A x \in S : f[x] \in Nat
    PROVE  \A s \in SUBSET S : g[s] \in Nat
<1>a. \A s \in SUBSET S : g[s] = IF s = {} THEN 0 ELSE f[Chosen(s)] + g[s \ {Chosen(s)}]
  BY AddsAt DEF IsSum
<1> DEFINE T == {s \in SUBSET S : g[s] \notin Nat}
<1> SUFFICES ASSUME T # {}  PROVE FALSE
  OBVIOUS
<1>1. PICK s \in T : \A t \in T : t \subseteq s => t = s
  <2>1. T \in SUBSET SUBSET S
    OBVIOUS
  <2> HIDE DEF T
  <2> QED  BY <2>1, LeastSubset
<1>2. s \in SUBSET S /\ g[s] \notin Nat /\ s # {}
  <2>1. g[{}] = 0
    BY <1>a
  <2>2. g[{}] \in Nat
    BY <2>1
  <2>3. s \in SUBSET S /\ g[s] \notin Nat
    OBVIOUS
  <2> HIDE DEF T
  <2> QED  BY <2>2, <2>3, Zenon
<1>3. Chosen(s) \in s /\ s \ {Chosen(s)} \in SUBSET S
  BY <1>2, ChosenIn
<1>4. g[s \ {Chosen(s)}] \in Nat
  BY <1>1, <1>3
<1>5. g[s] = f[Chosen(s)] + g[s \ {Chosen(s)}] /\ f[Chosen(s)] \in Nat
  BY <1>a, <1>2, <1>3
<1> QED  BY <1>2, <1>4, <1>5

LEMMA AddsAnyOrder ==
    ASSUME NEW S, IsFiniteSet(S), NEW f, NEW g, IsSum(g, f, S),
           \A x \in S : f[x] \in Nat
    PROVE  \A s \in SUBSET S : \A x \in s : TakesOut(g, f, s, x)
<1>a. \A s \in SUBSET S : g[s] = IF s = {} THEN 0 ELSE f[Chosen(s)] + g[s \ {Chosen(s)}]
  BY AddsAt DEF IsSum
<1> DEFINE T == {s \in SUBSET S : \E x \in s : ~ TakesOut(g, f, s, x)}
<1> SUFFICES ASSUME T # {}  PROVE FALSE
  OBVIOUS
<1>1. PICK s \in T : \A t \in T : t \subseteq s => t = s
  <2>1. T \in SUBSET SUBSET S
    OBVIOUS
  <2> HIDE DEF T
  <2> QED  BY <2>1, LeastSubset
<1>2. PICK x \in s : ~ TakesOut(g, f, s, x)
  BY <1>1
<1> DEFINE y == Chosen(s)  u == s \ {x}  v == s \ {y}
<1>3. y \in s /\ g[s] = f[y] + g[v]
  BY <1>a, <1>1, <1>2, ChosenIn
<1>4. x # y
  BY <1>2, <1>3 DEF TakesOut
<1> HIDE DEF y
<1>5. g[v] = f[x] + g[v \ {x}]
  BY <1>1, <1>3, <1>4 DEF TakesOut
<1>6. g[u] = f[y] + g[u \ {y}]
  BY <1>1, <1>3, <1>4 DEF TakesOut
<1>7. u \ {y} = v \ {x}
  OBVIOUS
<1>8. f[x] \in Nat /\ f[y] \in Nat /\ g[v \ {x}] \in Nat
  BY <1>3, AddsNumbers
<1>9. g[s] = f[y] + (f[x] + g[v \ {x}]) /\ g[u] = f[y] + g[v \ {x}]
  BY <1>3, <1>5, <1>6, <1>7
<1>10. f[y] + (f[x] + g[v \ {x}]) = f[x] + (f[y] + g[v \ {x}])
  BY <1>8
<1> QED  BY <1>2, <1>9, <1>10 DEF TakesOut

\* The sum over a set depends on nothing but the values there.
LEMMA AddsAgree ==
    ASSUME NEW S, IsFiniteSet(S), NEW f, NEW g, IsSum(g, f, S),
           NEW R, NEW e, NEW h, IsSum(h, e, R),
           NEW U \in SUBSET (S \cap R), \A x \in U : f[x] = e[x]
    PROVE  g[U] = h[U]
<1>a. \A s \in SUBSET S : g[s] = IF s = {} THEN 0 ELSE f[Chosen(s)] + g[s \ {Chosen(s)}]
  <2>1. Adds(g, f, SUBSET S)
    BY DEF IsSum
  <2> QED  BY <2>1, AddsAt
<1>b. \A s \in SUBSET R : h[s] = IF s = {} THEN 0 ELSE e[Chosen(s)] + h[s \ {Chosen(s)}]
  <2>1. Adds(h, e, SUBSET R)
    BY DEF IsSum
  <2> QED  BY <2>1, AddsAt
<1> DEFINE T == {s \in SUBSET U : g[s] # h[s]}
<1> SUFFICES ASSUME T # {}  PROVE FALSE
  OBVIOUS
<1>2. PICK s \in T : \A t \in T : t \subseteq s => t = s
  <2>1. T \in SUBSET SUBSET S
    OBVIOUS
  <2> HIDE DEF T
  <2> QED  BY <2>1, LeastSubset
<1>1. s \in SUBSET S /\ s \in SUBSET R /\ s \in SUBSET U /\ g[s] # h[s]
  OBVIOUS
<1>3. s # {}
  BY <1>1, <1>a, <1>b
<1>4. Chosen(s) \in s
  BY <1>3, ChosenIn
<1>5. g[s \ {Chosen(s)}] = h[s \ {Chosen(s)}]
  BY <1>1, <1>2, <1>4
<1>6. f[Chosen(s)] = e[Chosen(s)]
  BY <1>1, <1>4
<1> HIDE DEF T
<1>7. g[s] = f[Chosen(s)] + g[s \ {Chosen(s)}]
  BY <1>1, <1>3, <1>a
<1>8. h[s] = e[Chosen(s)] + h[s \ {Chosen(s)}]
  BY <1>1, <1>3, <1>b
<1> QED  BY <1>1, <1>5, <1>6, <1>7, <1>8

\* What the proofs below use.
LEMMA SumOfRest ==
    ASSUME NEW f, IsFiniteSet(DOMAIN f), \A x \in DOMAIN f : f[x] \in Nat,
           NEW U \in SUBSET DOMAIN f
    PROVE  /\ SumFunction(f) \in Nat /\ SumFunction([x \in U |-> f[x]]) \in Nat
           /\ SumFunction([x \in U |-> f[x]]) <= SumFunction(f)
           /\ \A k \in DOMAIN f :
                U = DOMAIN f \ {k} => SumFunction(f) = f[k] + SumFunction([x \in U |-> f[x]])
<1> DEFINE S == DOMAIN f
           e == [x \in U |-> f[x]]
           g == CHOOSE sum : IsSum(sum, f, S)
           h == CHOOSE sum : IsSum(sum, e, U)
<1>1. IsFiniteSet(U)
  BY FS_Subset
<1>2. IsSum(g, f, S) /\ SumFunction(f) = g[S]
  BY AddsExists, SumIsAdded
<1>3. IsSum(h, e, U) /\ SumFunction(e) = h[U]
  <2>1. DOMAIN e = U
    OBVIOUS
  <2> HIDE DEF e
  <2> QED  BY <1>1, <2>1, AddsExists, SumIsAdded
<1> HIDE DEF g, h
<1>4. g[U] = h[U]
  <2>1. U \in SUBSET (S \cap U) /\ IsFiniteSet(S) /\ \A x \in U : f[x] = e[x]
    OBVIOUS
  <2>2. IsSum(g, f, S) /\ IsSum(h, e, U)
    BY <1>2, <1>3
  <2> HIDE DEF e, S
  <2> QED  BY <2>1, <2>2, AddsAgree
<1>5. \A s \in SUBSET S : g[s] \in Nat
  <2>1. IsFiniteSet(S) /\ \A x \in S : f[x] \in Nat
    OBVIOUS
  <2> HIDE DEF S
  <2> QED  BY <1>2, <2>1, AddsNumbers
<1>6. \A s \in SUBSET S : \A x \in s : TakesOut(g, f, s, x)
  <2>1. IsFiniteSet(S) /\ \A x \in S : f[x] \in Nat
    OBVIOUS
  <2>2. IsSum(g, f, S)
    BY <1>2
  <2> HIDE DEF S
  <2> QED  BY <2>1, <2>2, AddsAnyOrder
<1>7. g[U] <= g[S]
  <2> DEFINE T == {s \in SUBSET S : U \subseteq s /\ ~(g[U] <= g[s])}
  <2> SUFFICES ASSUME T # {}  PROVE FALSE
    OBVIOUS
  <2>1. PICK s \in T : \A t \in T : t \subseteq s => t = s
    <3>1. T \in SUBSET SUBSET S /\ IsFiniteSet(S)
      OBVIOUS
    <3> HIDE DEF T, S
    <3> QED  BY <3>1, LeastSubset
  <2>2. s # U
    BY <1>5, <2>1
  <2>9. PICK x \in s : x \notin U
    BY <2>2
  <2>3. g[U] <= g[s \ {x}]
    BY <2>1, <2>9
  <2>4. g[s] = f[x] + g[s \ {x}] /\ f[x] \in Nat
    BY <1>6, <2>1, <2>9 DEF TakesOut
  <2>5. g[s] \in Nat /\ g[s \ {x}] \in Nat /\ g[U] \in Nat
    BY <1>5, <2>1
  <2> QED  BY <2>1, <2>3, <2>4, <2>5
<1>8. \A k \in S : U = S \ {k} => g[S] = f[k] + g[U]
  BY <1>6 DEF TakesOut
<1> QED  BY <1>2, <1>3, <1>4, <1>5, <1>7, <1>8

------------------------------------------------------------------------------
(* Lists in which no entry is twice *)

Once(s, S) == s \in Seq(S) /\ IsInjective(s)

LEMMA EntriesOf ==
    ASSUME NEW S, NEW s, Once(s, S)
    PROVE  /\ Len(s) \in Nat /\ DOMAIN s = 1 .. Len(s)
           /\ \A i \in 1 .. Len(s) : s[i] \in S
           /\ \A i, j \in 1 .. Len(s) : s[i] = s[j] => i = j
BY LenProperties, ElementOfSeq DEF Once, IsInjective

LEMMA OnceIf ==
    ASSUME NEW S, NEW s \in Seq(S),
           \A i, j \in 1 .. Len(s) : s[i] = s[j] => i = j
    PROVE  Once(s, S)
BY LenProperties DEF Once, IsInjective

Span(s, m, n) == {s[i] : i \in m .. n}

\* What stands behind position m, up to position n.
LEMMA Part ==
    ASSUME NEW S, NEW s, Once(s, S), NEW m \in 0 .. Len(s), NEW n \in m .. Len(s),
           NEW first \in Int, first = m + 1
    PROVE  /\ Once(SubSeq(s, first, n), S) /\ Len(SubSeq(s, first, n)) = n - m
           /\ ToSet(SubSeq(s, first, n)) = Span(s, first, n)
<1> DEFINE t == SubSeq(s, first, n)
<1>1. /\ m \in Nat /\ n \in Nat /\ first \in Nat /\ n <= Len(s) /\ n - m \in Nat
      /\ Len(s) \in Nat
      /\ \A i \in 1 .. Len(s) : s[i] \in S
      /\ \A i, j \in 1 .. Len(s) : s[i] = s[j] => i = j
  BY EntriesOf
<1>2. \A i \in first .. n : s[i] \in S
  BY <1>1
<1>3. /\ t \in Seq(S) /\ Len(t) = IF first <= n THEN n - first + 1 ELSE 0
      /\ \A i \in 1 .. n - first + 1 : t[i] = s[first + i - 1]
  BY <1>1, <1>2, SubSeqProperties
<1> HIDE DEF t
<1>4. Len(t) = n - m /\ n - first + 1 = n - m
  BY <1>1, <1>3
<1>5. ASSUME NEW i \in 1 .. n - m
      PROVE  t[i] = s[m + i] /\ m + i \in first .. n /\ m + i \in 1 .. Len(s)
  <2>1. t[i] = s[first + i - 1] /\ first + i - 1 = m + i
    BY <1>1, <1>3, <1>4
  <2>2. m + i \in first .. n /\ m + i \in 1 .. Len(s)
    BY <1>1
  <2> QED  BY <2>1, <2>2
<1>6. ASSUME NEW i \in 1 .. Len(t), NEW j \in 1 .. Len(t), t[i] = t[j]
      PROVE  i = j
  <2>1. m + i = m + j
    BY <1>1, <1>4, <1>5, <1>6
  <2> QED  BY <1>1, <1>4, <2>1
<1>7. ToSet(t) = Span(s, first, n)
  <2>1. DOMAIN t = 1 .. n - m
    BY <1>3, <1>4, LenProperties
  <2>2. ASSUME NEW i \in first .. n  PROVE i - m \in 1 .. n - m /\ t[i - m] = s[i]
    <3>1. i - m \in 1 .. n - m /\ m + (i - m) = i
      BY <1>1
    <3> QED  BY <1>5, <3>1
  <2>3. \A e \in ToSet(t) : e \in Span(s, first, n)
    BY <1>5, <2>1 DEF ToSet, Span
  <2>4. \A e \in Span(s, first, n) : e \in ToSet(t)
    BY <2>1, <2>2 DEF ToSet, Span
  <2> QED  BY <2>3, <2>4
<1> QED  BY <1>3, <1>4, <1>6, <1>7, OnceIf DEF t

\* Two lists with no entry in common, one behind the other.
LEMMA Joined ==
    ASSUME NEW S, NEW s, NEW t, Once(s, S), Once(t, S), ToSet(s) \cap ToSet(t) = {}
    PROVE  Once(s \o t, S) /\ \A e \in ToSet(s \o t) : e \in ToSet(s) \/ e \in ToSet(t)
<1> DEFINE u == s \o t
<1>1. /\ Len(s) \in Nat /\ Len(t) \in Nat
      /\ DOMAIN s = 1 .. Len(s) /\ DOMAIN t = 1 .. Len(t)
      /\ \A i, j \in 1 .. Len(s) : s[i] = s[j] => i = j
      /\ \A i, j \in 1 .. Len(t) : t[i] = t[j] => i = j
  BY EntriesOf
<1>2. /\ u \in Seq(S) /\ Len(u) = Len(s) + Len(t)
      /\ \A i \in 1 .. Len(s) + Len(t) : u[i] = IF i <= Len(s) THEN s[i] ELSE t[i - Len(s)]
  BY ConcatProperties DEF Once
<1> HIDE DEF u
<1>3. ASSUME NEW i \in 1 .. Len(s) + Len(t)
      PROVE  \/ i \in 1 .. Len(s) /\ u[i] = s[i]
             \/ i - Len(s) \in 1 .. Len(t) /\ u[i] = t[i - Len(s)]
  BY <1>1, <1>2
<1>4. ASSUME NEW i \in 1 .. Len(s), NEW j \in 1 .. Len(t)  PROVE s[i] # t[j]
  BY <1>1 DEF ToSet
<1>5. ASSUME NEW i \in 1 .. Len(u), NEW j \in 1 .. Len(u), u[i] = u[j]
      PROVE  i = j
  <2>1. i \in 1 .. Len(s) + Len(t) /\ j \in 1 .. Len(s) + Len(t)
    BY <1>2
  <2>2. CASE i \in 1 .. Len(s) /\ u[i] = s[i]
    <3>1. j \in 1 .. Len(s) /\ u[j] = s[j]
      BY <1>3, <1>4, <1>5, <2>1, <2>2
    <3> QED  BY <1>1, <1>5, <2>2, <3>1
  <2>3. CASE i - Len(s) \in 1 .. Len(t) /\ u[i] = t[i - Len(s)]
    <3>1. j - Len(s) \in 1 .. Len(t) /\ u[j] = t[j - Len(s)]
      BY <1>3, <1>4, <1>5, <2>1, <2>3
    <3>2. i - Len(s) = j - Len(s)
      BY <1>1, <1>5, <2>3, <3>1
    <3> QED  BY <1>1, <2>1, <3>2
  <2> QED  BY <1>3, <2>1, <2>2, <2>3
<1>6. DOMAIN u = 1 .. Len(s) + Len(t)
  BY <1>2, LenProperties
<1>7. \A e \in ToSet(u) : e \in ToSet(s) \/ e \in ToSet(t)
  BY <1>1, <1>3, <1>6 DEF ToSet
<1> QED  BY <1>2, <1>5, <1>7, OnceIf DEF u

\* Without k the list is shorter, if it had k, and k is not in it.
LEMMA Dropped ==
    ASSUME NEW S, NEW s, Once(s, S), NEW k
    PROVE  /\ Once(RemoveFirst(s, k), S) /\ ~Contains(RemoveFirst(s, k), k)
           /\ Len(RemoveFirst(s, k)) = IF Contains(s, k) THEN Len(s) - 1 ELSE Len(s)
<1>1. CASE ~Contains(s, k)
  BY <1>1 DEF RemoveFirst, Contains
<1>2. CASE Contains(s, k)
  <2>1. PICK i \in 1 .. Len(s) : s[i] = k
    BY <1>2 DEF Contains
  <2>2. {j \in 1 .. Len(s) : s[j] = k} = {i}
    BY <2>1, EntriesOf
  <2>3. Min({i}) = i
    BY <2>1 DEF Min
  <2>4. SelectInSeq(s, LAMBDA v : v = k) = i
    BY <2>2, <2>3 DEF SelectInSeq
  <2> DEFINE a == SubSeq(s, 1, i - 1)  b == SubSeq(s, i + 1, Len(s))
  <2>5. RemoveFirst(s, k) = a \o b
    BY <2>1, <2>4 DEF RemoveFirst, RemoveAt
  <2>6. /\ Len(s) \in Nat /\ i - 1 \in 0 .. Len(s) /\ i \in 0 .. Len(s)
        /\ 0 \in 0 .. Len(s) /\ 1 = 0 + 1 /\ Len(s) \in i .. Len(s) /\ i + 1 \in Int
        /\ (i - 1) - 0 = i - 1 /\ (i - 1) + (Len(s) - i) = Len(s) - 1
        /\ \A x, y \in 1 .. Len(s) : s[x] = s[y] => x = y
    BY EntriesOf
  <2>7. Once(a, S) /\ Len(a) = i - 1 /\ ToSet(a) = Span(s, 1, i - 1)
    <3>1. i - 1 \in 0 .. Len(s) /\ 0 \in 0 .. Len(s)
      BY <2>6
    <3>2. 1 \in Int /\ 1 = 0 + 1 /\ (i - 1) - 0 = i - 1
      BY <2>6
    <3> QED  BY <3>1, <3>2, Part
  <2>8. Once(b, S) /\ Len(b) = Len(s) - i /\ ToSet(b) = Span(s, i + 1, Len(s))
    <3>1. i \in 0 .. Len(s) /\ Len(s) \in i .. Len(s)
      BY <2>6
    <3> DEFINE first == i + 1
    <3>2. first \in Int /\ first = i + 1
      BY <2>6
    <3> HIDE DEF first
    <3>3. /\ Once(SubSeq(s, first, Len(s)), S)
          /\ Len(SubSeq(s, first, Len(s))) = Len(s) - i
          /\ ToSet(SubSeq(s, first, Len(s))) = Span(s, first, Len(s))
      BY <3>1, <3>2, Part
    <3> QED  BY <3>3 DEF first
  <2> HIDE DEF a, b
  <2>9. ToSet(a) \cap ToSet(b) = {}
    BY <2>6, <2>7, <2>8 DEF Span
  <2>10. Once(a \o b, S)
    BY <2>7, <2>8, <2>9, Joined
  <2>11. Len(a \o b) = Len(a) + Len(b)
    BY <2>7, <2>8, ConcatProperties DEF Once
  <2>12. k \notin ToSet(a) /\ k \notin ToSet(b)
    BY <2>1, <2>6, <2>7, <2>8 DEF Span
  <2>13. k \notin ToSet(a \o b)
    BY <2>7, <2>8, <2>9, <2>12, Joined
  <2>14. ~Contains(RemoveFirst(s, k), k)
    <3> DEFINE r == RemoveFirst(s, k)
    <3>1. Once(r, S) /\ k \notin ToSet(r)
      BY <2>5, <2>10, <2>13
    <3> HIDE DEF r
    <3> QED  BY <3>1, EntriesOf DEF ToSet, Contains, r
  <2> QED  BY <1>2, <2>5, <2>6, <2>7, <2>8, <2>10, <2>11, <2>14
<1> QED  BY <1>1, <1>2

\* One more entry at the end.
LEMMA Appended ==
    ASSUME NEW S, NEW s, Once(s, S), NEW k \in S, ~Contains(s, k)
    PROVE  Once(Append(s, k), S) /\ Len(Append(s, k)) = Len(s) + 1
<1> DEFINE t == Append(s, k)
<1>1. /\ t \in Seq(S) /\ Len(t) = Len(s) + 1 /\ t[Len(s) + 1] = k
      /\ \A i \in 1 .. Len(s) : t[i] = s[i] /\ t[i] # k
  BY AppendProperties DEF Once, Contains
<1> HIDE DEF t
<1>2. \A i, j \in 1 .. Len(t) : t[i] = t[j] => i = j
  BY <1>1, EntriesOf
<1> QED  BY <1>1, <1>2, OnceIf DEF t

\* Without its first entry.
LEMMA Tailed ==
    ASSUME NEW S, NEW s, Once(s, S), s # <<>>
    PROVE  Once(Tail(s), S) /\ Len(Tail(s)) = Len(s) - 1
<1> DEFINE t == Tail(s)
<1>1. /\ Len(s) \in Nat /\ \A i, j \in 1 .. Len(s) : s[i] = s[j] => i = j
  BY EntriesOf
<1>2. t \in Seq(S) /\ Len(t) = Len(s) - 1 /\ \A i \in 1 .. Len(t) : t[i] = s[i + 1]
  BY HeadTailProperties DEF Once
<1> HIDE DEF t
<1>3. ASSUME NEW i \in 1 .. Len(t), NEW j \in 1 .. Len(t), t[i] = t[j]  PROVE i = j
  <2>1. i + 1 \in 1 .. Len(s) /\ j + 1 \in 1 .. Len(s)
    BY <1>1, <1>2
  <2>2. i + 1 = j + 1
    BY <1>1, <1>2, <1>3, <2>1
  <2> QED  BY <2>2
<1> QED  BY <1>2, <1>3, OnceIf DEF t

\* The first n entries go behind the others.
LEMMA Rotated ==
    ASSUME NEW S, NEW s, Once(s, S), NEW n \in 1 .. Len(s)
    PROVE  LET r == SubSeq(s, n + 1, Len(s)) \o SubSeq(s, 1, n)
           IN  Once(r, S) /\ Len(r) = Len(s)
<1> DEFINE a == SubSeq(s, 1, n)  b == SubSeq(s, n + 1, Len(s))
<1>1. /\ Len(s) \in Nat /\ n \in 0 .. Len(s) /\ 0 \in 0 .. Len(s)
      /\ 1 = 0 + 1 /\ Len(s) \in n .. Len(s) /\ n + 1 \in Int /\ n - 0 = n /\ (Len(s) - n) + n = Len(s)
      /\ \A x, y \in 1 .. Len(s) : s[x] = s[y] => x = y
  BY EntriesOf
<1>2. Once(a, S) /\ Len(a) = n /\ ToSet(a) = Span(s, 1, n)
  <2>1. n \in 0 .. Len(s) /\ 0 \in 0 .. Len(s)
    BY <1>1
  <2>2. 1 \in Int /\ 1 = 0 + 1 /\ n - 0 = n
    BY <1>1
  <2> QED  BY <2>1, <2>2, Part
<1>3. Once(b, S) /\ Len(b) = Len(s) - n /\ ToSet(b) = Span(s, n + 1, Len(s))
  <2>1. n \in 0 .. Len(s) /\ Len(s) \in n .. Len(s)
    BY <1>1
  <2> DEFINE first == n + 1
  <2>2. first \in Int /\ first = n + 1
    BY <1>1
  <2> HIDE DEF first
  <2>3. /\ Once(SubSeq(s, first, Len(s)), S)
        /\ Len(SubSeq(s, first, Len(s))) = Len(s) - n
        /\ ToSet(SubSeq(s, first, Len(s))) = Span(s, first, Len(s))
    BY <2>1, <2>2, Part
  <2> QED  BY <2>3 DEF first
<1> HIDE DEF a, b
<1>4. ToSet(b) \cap ToSet(a) = {}
  BY <1>1, <1>2, <1>3 DEF Span
<1>5. Once(b \o a, S)
  BY <1>2, <1>3, <1>4, Joined
<1>6. Len(b \o a) = Len(b) + Len(a)
  BY <1>2, <1>3, ConcatProperties DEF Once
<1> QED  BY <1>1, <1>2, <1>3, <1>5, <1>6 DEF a, b

\* The entries in another order.
LEMMA Reordered ==
    ASSUME NEW S, NEW s, Once(s, S), NEW t \in SetToSeqs(ToSet(s))
    PROVE  Once(t, S) /\ Len(t) <= Len(s)
<1>1. s \in Surjection(1 .. Len(s), ToSet(s)) /\ IsFiniteSet(1 .. Len(s))
  <2>1. s \in [1 .. Len(s) -> ToSet(s)]
    BY LenProperties, EntriesOf DEF Once, ToSet
  <2>2. \A e \in ToSet(s) : \E i \in 1 .. Len(s) : s[i] = e
    BY EntriesOf DEF ToSet
  <2>3. Len(s) \in Int
    BY EntriesOf
  <2> QED  BY <2>1, <2>2, <2>3, FS_Interval DEF Surjection
<1> DEFINE n == Cardinality(ToSet(s))
<1>2. n \in Nat /\ n <= Len(s)
  <2>1. IsFiniteSet(ToSet(s)) /\ n <= Cardinality(1 .. Len(s))
    BY <1>1, FS_Surjection
  <2>2. Cardinality(1 .. Len(s)) = Len(s) /\ Len(s) \in Nat
    BY EntriesOf, FS_Interval
  <2> QED  BY <2>1, <2>2, FS_CardinalityType
<1>3. t \in [1 .. n -> ToSet(s)] /\ \A i, j \in 1 .. n : i # j => t[i] # t[j]
  BY DEF SetToSeqs
<1>4. ToSet(s) \subseteq S
  BY EntriesOf DEF ToSet
<1> HIDE DEF n
<1>5. t \in Seq(S) /\ Len(t) = n
  BY <1>2, <1>3, <1>4
<1> QED  BY <1>2, <1>3, <1>5, OnceIf

------------------------------------------------------------------------------
(* The invariant *)

Listing(q) == Once(q, Keys) /\ Len(q) <= CacheSize
OnDisk(d) ==
    IsFiniteSet(DOMAIN d) /\ DOMAIN d \subseteq Keys /\ d \in [DOMAIN d -> 0 .. MaxFile]

\* The places of the clients; a client in Store has a key.
Places ==
    /\ sem \in 0 .. MaxConcurrency
    /\ mu \in Clients \cup {NoClient}
    /\ dirThere \in BOOLEAN
    /\ pc \in [Clients -> {"idle", "evict", "copy", "open", "read"}]
    /\ key \in [Clients -> Keys \cup {NoKey}]
    /\ size \in [Clients -> 0 .. MaxFile]
    /\ \A c \in Clients : pc[c] \in {"evict", "copy"} => key[c] \in Keys

\* deleteFiles has a file to delete while it is at one; the attempts are used up
\* in the first round only.
Removing ==
    /\ removal \in {"idle", "try", "acquire", "lock", "dirs"}
    /\ left \in 0 .. MaxFiles /\ attempt \in 0 .. MaxRetries
    /\ round \in {"first", "again"}
    /\ removal \in {"try", "acquire", "lock"} => left # 0
    /\ attempt = MaxRetries => round = "first"

\* The lock is held for writing by the client that is in Store.
LockHeld == \A c \in Clients : pc[c] \in {"evict", "copy"} <=> mu = c

\* A file that is being written has its room (evict).
Room ==
    /\ currentSize \in Nat /\ currentSize <= MaxSize
    /\ \A c \in Clients : pc[c] = "copy" => currentSize + size[c] <= MaxSize

\* Nothing on the disk is uncounted.
Counted == OnDisk(disk) /\ Used <= currentSize

IInv == Listing(cache) /\ Counted /\ Places /\ Removing /\ TokensHeld /\ LockHeld /\ Room

USE DEF removalVars, vars, store, Goto, At

LEMMA Implied == IInv => RemovalTypeOK /\ DiskBounded
BY DEF IInv, Listing, Once, Counted, OnDisk, Places, Removing, Room,
       RemovalTypeOK, TypeOK, DiskBounded, Files

LEMMA MaxSizeIsNat == MaxSize \in Nat
BY SizesAssumption DEF MaxSize

LEMMA Initially == RemovalInit => IInv
<1> SUFFICES ASSUME RemovalInit  PROVE IInv
  OBVIOUS
<1> USE SizesAssumption, RetriesAssumption DEF RemovalInit, Init
<1>1. TokensHeld
  <2>1. InCall = {}
    BY DEF InCall
  <2> QED  BY <2>1, FS_EmptySet DEF TokensHeld
<1>2. Listing(cache)
  BY EmptySeq DEF Listing, Once, IsInjective
<1>3. OnDisk(disk)
  BY FS_EmptySet DEF OnDisk
<1>4. Used = 0
  <2>1. PICK g : IsSum(g, disk, {})
    BY FS_EmptySet, AddsExists
  <2>2. IsSum(CHOOSE sum : IsSum(sum, disk, {}), disk, {})
    BY <2>1
  <2>3. (CHOOSE sum : IsSum(sum, disk, {}))[{}] = 0
    BY <2>2, AddsAt DEF IsSum
  <2>4. Used = (CHOOSE sum : IsSum(sum, disk, DOMAIN disk))[DOMAIN disk] /\ DOMAIN disk = {}
    BY SumIsAdded DEF Used
  <2> QED  BY <2>3, <2>4
<1>5. Places /\ Removing
  BY DEF Places, Removing
<1>6. LockHeld
  BY NullsAssumption DEF LockHeld
<1>7. Room
  BY MaxSizeIsNat DEF Room
<1> QED  BY <1>1, <1>2, <1>3, <1>4, <1>5, <1>6, <1>7 DEF IInv, Counted

------------------------------------------------------------------------------
(* The tokens *)

\* The clients in a call are finitely many.
LEMMA CallsFinite == IsFiniteSet(InCall) /\ Cardinality(InCall) \in Nat
BY ClientsAssumption, FS_Subset, FS_CardinalityType DEF InCall

\* A call begins: one token more.
LEMMA Begins ==
    ASSUME IInv, NEW c \in Clients, pc[c] = "idle", NEW loc \in {"evict", "open"},
           pc' = [pc EXCEPT ![c] = loc], sem' = sem + 1, removal' = removal
    PROVE  TokensHeld'
<1>1. InCall' = InCall \cup {c} /\ c \notin InCall
  BY DEF InCall, IInv, Places
<1>2. Cardinality(InCall') = Cardinality(InCall) + 1
  BY <1>1, CallsFinite, FS_AddElement
<1> QED  BY <1>2, CallsFinite DEF IInv, TokensHeld

\* A call goes on.
LEMMA GoesOn ==
    ASSUME IInv, NEW c \in Clients, pc[c] # "idle", NEW loc \in {"copy", "read"},
           pc' = [pc EXCEPT ![c] = loc], sem' = sem, removal' = removal
    PROVE  TokensHeld'
<1>1. InCall' = InCall
  BY DEF InCall, IInv, Places
<1> QED  BY <1>1 DEF IInv, TokensHeld

\* A call returns: its token was taken, and is taken no more.
LEMMA Ends ==
    ASSUME IInv, NEW c \in Clients, pc[c] # "idle", Returns(c), removal' = removal
    PROVE  TokensHeld' /\ sem' \in 0 .. MaxConcurrency
<1>1. InCall' = InCall \ {c} /\ c \in InCall
  BY DEF InCall, IInv, Places, Returns
<1>2. Cardinality(InCall') = Cardinality(InCall) - 1
  BY <1>1, CallsFinite, FS_RemoveElement
<1>3. Cardinality(InCall) # 0
  BY <1>1, CallsFinite, FS_EmptySet
<1> QED  BY <1>2, <1>3, CallsFinite, SizesAssumption DEF IInv, TokensHeld, Places, Returns

LEMMA Same ==
    ASSUME IInv, UNCHANGED <<pc, sem, removal>>
    PROVE  TokensHeld'
BY DEF IInv, TokensHeld, InCall

------------------------------------------------------------------------------
(* The list *)

LEMMA Refreshed ==
    ASSUME Listing(cache), NEW k \in Keys
    PROVE  Listing(Promoted(k)) /\ Listing(Added(k)) /\ Listing(RemoveFirst(cache, k))
<1> DEFINE q == RemoveFirst(cache, k)
<1>1. Len(cache) \in Nat /\ Len(cache) <= CacheSize /\ CacheSize \in Nat
  BY EntriesOf, SizesAssumption DEF Listing
<1>2. /\ Once(q, Keys) /\ ~Contains(q, k)
      /\ Len(q) = IF Contains(cache, k) THEN Len(cache) - 1 ELSE Len(cache)
  BY Dropped DEF Listing
<1> HIDE DEF q
<1>3. Once(Append(q, k), Keys) /\ Len(Append(q, k)) = Len(q) + 1
  BY <1>2, Appended
<1> DEFINE r == Append(q, k)
<1> HIDE DEF r
<1>4. Once(r, Keys) /\ Len(r) = Len(q) + 1
  BY <1>3 DEF r
<1>5. Listing(Promoted(k))
  <2>1. Promoted(k) = IF Contains(cache, k) THEN r ELSE cache
    BY DEF Promoted, q, r
  <2> QED  BY <1>1, <1>2, <1>4, <2>1 DEF Listing
<1>6. Listing(Added(k))
  <2>1. Added(k) = IF Len(r) > CacheSize THEN Tail(r) ELSE r
    BY DEF Added, q, r
  <2>2. Len(r) \in Nat /\ Len(r) <= CacheSize + 1
    BY <1>1, <1>2, <1>4
  <2>3. CASE Len(r) > CacheSize
    <3>1. r # <<>>
      BY <2>3, EmptySeq, SizesAssumption
    <3>2. Once(Tail(r), Keys) /\ Len(Tail(r)) = Len(r) - 1
      BY <1>4, <3>1, Tailed
    <3> QED  BY <1>1, <2>1, <2>2, <2>3, <3>2 DEF Listing
  <2> QED  BY <1>4, <2>1, <2>2, <2>3, <1>1 DEF Listing
<1> QED  BY <1>1, <1>2, <1>5, <1>6 DEF Listing, q

LEMMA WithoutOldest ==
    ASSUME Listing(cache), cache # <<>>
    PROVE  Listing(Tail(cache))
<1>1. Len(cache) \in Nat /\ Len(cache) <= CacheSize /\ CacheSize \in Nat
  BY EntriesOf, SizesAssumption DEF Listing
<1>2. Once(Tail(cache), Keys) /\ Len(Tail(cache)) = Len(cache) - 1
  BY Tailed DEF Listing
<1> QED  BY <1>1, <1>2 DEF Listing

LEMMA ClosedListing ==
    ASSUME Listing(cache), NEW k \in Keys, Closed(k)
    PROVE  Listing(cache')
BY Refreshed DEF Closed

\* No call leaves an entry twice in the list, or one too many.
LEMMA ListKept ==
    ASSUME IInv, NEW c \in Clients, Call(c)
    PROVE  Listing(cache')
<1>1. Listing(cache)
  BY DEF IInv
<1>2. CASE UNCHANGED cache
  BY <1>1, <1>2
<1>3. CASE Evict(c) \/ EvictMissing(c)
  BY <1>1, <1>3, WithoutOldest DEF Evict, EvictMissing
<1>4. CASE Copy(c)
  BY <1>1, <1>4, Refreshed DEF Copy, IInv, Places
<1>5. CASE Get(c) \/ GetFileInfo(c)
  BY <1>1, <1>5, Refreshed DEF Get, GetFileInfo
<1>6. CASE CloseFile(c)
  BY <1>1, <1>6, ClosedListing DEF CloseFile
<1>7. CASE ListFiles(c)
  <2>1. PICK n \in DOMAIN cache :
          cache' = SubSeq(cache, n + 1, Len(cache)) \o SubSeq(cache, 1, n)
    BY <1>7 DEF ListFiles
  <2>2. n \in 1 .. Len(cache)
    BY <1>1, EntriesOf DEF Listing
  <2> QED  BY <1>1, <2>1, <2>2, Rotated DEF Listing
<1>8. CASE Close(c)
  <2>1. Once(cache', Keys) /\ Len(cache') <= Len(cache)
    BY <1>1, <1>8, Reordered DEF Close, Listing
  <2>2. Len(cache') \in Nat /\ Len(cache) \in Nat /\ Len(cache) <= CacheSize /\ CacheSize \in Nat
    BY <1>1, <2>1, EntriesOf, SizesAssumption DEF Listing
  <2> QED  BY <2>1, <2>2 DEF Listing
<1> QED
  BY <1>2, <1>3, <1>4, <1>5, <1>6, <1>7, <1>8
     DEF Call, StoreStep, Store, EvictEmpty, Create, CreateFails, CopyFails, Open,
         OpenFails, CloseReader

------------------------------------------------------------------------------
(* The disk *)

LEMMA SizesAreNumbers ==
    ASSUME NEW d, OnDisk(d)
    PROVE  \A f \in DOMAIN d : d[f] \in Nat /\ d[f] \in 0 .. MaxFile
BY SizesAssumption DEF OnDisk

\* Files are removed.
LEMMA Lighter ==
    ASSUME NEW d, OnDisk(d), NEW U \in SUBSET DOMAIN d
    PROVE  LET e == [f \in U |-> d[f]] IN
           /\ OnDisk(e) /\ SumFunction(d) \in Nat /\ SumFunction(e) \in Nat
           /\ SumFunction(e) <= SumFunction(d)
<1>1. OnDisk([f \in U |-> d[f]])
  BY FS_Subset DEF OnDisk
<1> QED  BY <1>1, SizesAreNumbers, SumOfRest DEF OnDisk

\* One file is removed, and the rest is lighter by its size.
LEMMA LighterBy ==
    ASSUME NEW d, OnDisk(d), NEW k \in DOMAIN d
    PROVE  SumFunction(d) = d[k] + SumFunction([f \in DOMAIN d \ {k} |-> d[f]])
<1>1. DOMAIN d \ {k} \in SUBSET DOMAIN d
  OBVIOUS
<1> QED  BY <1>1, SizesAreNumbers, SumOfRest DEF OnDisk

\* A file is written, over another one or beside the others.
LEMMA Written ==
    ASSUME OnDisk(disk), NEW k \in Keys, NEW n \in 0 .. MaxFile
    PROVE  /\ OnDisk(With(k, n)) /\ SumFunction(With(k, n)) \in Nat /\ Used \in Nat
           /\ SumFunction(With(k, n)) <= Used + n
<1> DEFINE d == With(k, n)  rest == [f \in Files \ {k} |-> disk[f]]
<1>1. DOMAIN d = Files \cup {k} /\ d[k] = n /\ \A f \in Files \ {k} : d[f] = disk[f]
  BY DEF With
<1>2. OnDisk(d)
  BY FS_AddElement DEF OnDisk, With, Files
<1>3. [f \in DOMAIN d \ {k} |-> d[f]] = rest
  BY <1>1
<1> HIDE DEF d
<1>4. SumFunction(d) = n + SumFunction(rest)
  BY <1>1, <1>2, <1>3, LighterBy
<1>5. Used \in Nat /\ SumFunction(rest) \in Nat /\ SumFunction(rest) <= Used
  BY Lighter DEF Used, Files
<1>6. n \in Nat
  BY SizesAssumption
<1> QED  BY <1>2, <1>4, <1>5, <1>6 DEF d

LEMMA Freed ==
    ASSUME IInv, NEW U \in SUBSET Files, disk' = [f \in U |-> disk[f]],
           currentSize' = currentSize
    PROVE  Counted'
<1>1. OnDisk(disk') /\ Used' \in Nat /\ Used \in Nat /\ Used' <= Used
  BY Lighter DEF IInv, Counted, Used, Files
<1> QED  BY <1>1 DEF IInv, Counted, Room

LEMMA ClosedFreed ==
    ASSUME IInv, NEW k \in Keys, Closed(k), currentSize' = currentSize
    PROVE  Counted'
<1>1. CASE disk' = Without(k)
  BY <1>1, Freed DEF Without
<1>2. CASE disk' = disk
  BY <1>2 DEF IInv, Counted, Used
<1> QED  BY <1>1, <1>2 DEF Closed

\* No call leaves bytes on the disk that are not counted.
LEMMA DiskKept ==
    ASSUME IInv, NEW c \in Clients, Call(c)
    PROVE  Counted' /\ currentSize' \in Nat
<1>1. OnDisk(disk) /\ Used <= currentSize /\ currentSize \in Nat
  BY DEF IInv, Counted, Room
<1>2. CASE UNCHANGED <<disk, currentSize>>
  BY <1>1, <1>2 DEF Counted, Used
<1>3. CASE Evict(c)
  <2> DEFINE k == Head(cache)  e == [f \in Files \ {k} |-> disk[f]]
  <2>1. k \in Files /\ disk' = e /\ currentSize' = currentSize - disk[k]
    BY <1>3 DEF Evict, Without
  <2>2. OnDisk(e) /\ Used \in Nat /\ SumFunction(e) \in Nat
    BY <1>1, Lighter DEF Used, Files
  <2>3. Used = disk[k] + SumFunction(e) /\ disk[k] \in Nat
    BY <1>1, <2>1, LighterBy, SizesAreNumbers DEF Used, Files
  <2> HIDE DEF e, k
  <2>4. Used' = SumFunction(e)
    BY <2>1 DEF Used
  <2>5. currentSize' \in Nat /\ Used' <= currentSize'
    BY <1>1, <2>1, <2>2, <2>3, <2>4
  <2> QED  BY <2>1, <2>2, <2>5 DEF Counted
<1>4. CASE Create(c)
  <2>1. key[c] \in Keys /\ 0 \in 0 .. MaxFile /\ disk' = With(key[c], 0)
    BY <1>4, SizesAssumption DEF Create, IInv, Places
  <2>2. OnDisk(disk') /\ Used' \in Nat /\ Used \in Nat /\ Used' <= Used + 0
    BY <1>1, <2>1, Written DEF Used
  <2> QED  BY <1>1, <1>4, <2>2 DEF Counted, Create
<1>5. CASE Copy(c)
  <2>1. PICK written \in 0 .. size[c] :
          disk' = With(key[c], written) /\ currentSize' = currentSize + written
    BY <1>5 DEF Copy
  <2>2. key[c] \in Keys /\ written \in 0 .. MaxFile /\ written \in Nat
    BY <1>5, SizesAssumption DEF Copy, IInv, Places
  <2>3. OnDisk(disk') /\ Used' \in Nat /\ Used \in Nat /\ Used' <= Used + written
    BY <1>1, <2>1, <2>2, Written DEF Used
  <2> QED  BY <1>1, <2>1, <2>2, <2>3 DEF Counted
<1>6. CASE CopyFails(c)
  BY <1>1, <1>6, Freed DEF CopyFails, Without
<1>7. CASE CloseFile(c)
  BY <1>1, <1>7, ClosedFreed DEF CloseFile
<1>8. CASE Close(c)
  BY <1>1, <1>8, Freed DEF Close
<1> QED
  BY <1>2, <1>3, <1>4, <1>5, <1>6, <1>7, <1>8
     DEF Call, StoreStep, Store, EvictMissing, EvictEmpty, CreateFails, Get, Open,
         OpenFails, CloseReader, GetFileInfo, ListFiles

------------------------------------------------------------------------------
(* The steps *)

\* One step of a client: what is left to show.
LEMMA CallStep ==
    ASSUME IInv, NEW c \in Clients, Call(c), UNCHANGED removalVars
    PROVE  IInv'
<1> DEFINE Others == Places' /\ TokensHeld' /\ LockHeld' /\ Room'
<1> SUFFICES Others
  BY ListKept, DiskKept DEF IInv, Removing
<1> USE NullsAssumption, SizesAssumption, MaxSizeIsNat DEF IInv, Places, LockHeld, Room
<1>0. currentSize' \in Nat
  BY DiskKept
<1>1. CASE Store(c)
  <2>1. TokensHeld'
    BY <1>1, Begins DEF Store
  <2> QED  BY <1>1, <2>1 DEF Store
<1>2. CASE Evict(c)
  <2>1. TokensHeld'
    BY <1>2, Same DEF Evict
  <2>2. disk[Head(cache)] \in Nat /\ currentSize' = currentSize - disk[Head(cache)]
    BY <1>2, SizesAreNumbers DEF Evict, Counted, Files
  <2>3. UNCHANGED <<sem, mu, dirThere, pc, key, size>> /\ currentSize' <= currentSize
    BY <1>2, <2>2 DEF Evict
  <2>4. \A d \in Clients : pc[d] = "copy" => currentSize' + size[d] <= MaxSize
    BY <1>0, <2>3
  <2> QED  BY <1>0, <2>1, <2>3, <2>4
<1>3. CASE EvictMissing(c)
  <2>1. TokensHeld' /\ sem' \in 0 .. MaxConcurrency
    BY <1>3, Ends DEF EvictMissing, Full
  <2> QED  BY <1>3, <2>1 DEF EvictMissing, Full, Returns
<1>4. CASE EvictEmpty(c)
  <2>1. TokensHeld' /\ sem' \in 0 .. MaxConcurrency
    BY <1>4, Ends DEF EvictEmpty, Full
  <2> QED  BY <1>4, <2>1 DEF EvictEmpty, Full, Returns
<1>5. CASE Create(c)
  <2>1. TokensHeld'
    BY <1>5, GoesOn DEF Create
  <2> QED  BY <1>5, <2>1 DEF Create, Full
<1>6. CASE CreateFails(c)
  <2>1. TokensHeld' /\ sem' \in 0 .. MaxConcurrency
    BY <1>6, Ends DEF CreateFails
  <2> QED  BY <1>6, <2>1 DEF CreateFails, Returns
<1>7. CASE Copy(c)
  <2>1. TokensHeld' /\ sem' \in 0 .. MaxConcurrency
    BY <1>7, Ends DEF Copy
  <2>2. PICK written \in 0 .. size[c] : currentSize' = currentSize + written
    BY <1>7 DEF Copy
  <2> QED  BY <1>0, <1>7, <2>1, <2>2 DEF Copy, Returns
<1>8. CASE CopyFails(c)
  <2>1. TokensHeld' /\ sem' \in 0 .. MaxConcurrency
    BY <1>8, Ends DEF CopyFails
  <2> QED  BY <1>8, <2>1 DEF CopyFails, Returns
<1>9. CASE Get(c)
  <2>1. TokensHeld'
    BY <1>9, Begins, Same DEF Get
  <2> QED  BY <1>9, <2>1 DEF Get
<1>10. CASE Open(c)
  <2>1. TokensHeld'
    BY <1>10, GoesOn DEF Open
  <2> QED  BY <1>10, <2>1 DEF Open
<1>11. CASE OpenFails(c) \/ CloseReader(c)
  <2>1. TokensHeld' /\ sem' \in 0 .. MaxConcurrency
    BY <1>11, Ends DEF OpenFails, CloseReader
  <2> QED  BY <1>11, <2>1 DEF OpenFails, CloseReader, Returns
<1>12. CASE CloseFile(c) \/ GetFileInfo(c) \/ ListFiles(c) \/ Close(c)
  <2>1. TokensHeld'
    BY <1>12, Same DEF CloseFile, GetFileInfo, ListFiles, Close
  <2> QED  BY <1>12, <2>1 DEF CloseFile, GetFileInfo, ListFiles, Close
<1> QED
  BY <1>1, <1>2, <1>3, <1>4, <1>5, <1>6, <1>7, <1>8, <1>9, <1>10, <1>11, <1>12
     DEF Call, StoreStep

\* Where an attempt leads, the lock is not; there is a file as long as it is at
\* one, and attempts and files stay within their bounds.
LEMMA AttemptEnds ==
    ASSUME IInv, removal \in {"try", "acquire", "lock"}, NextFile \/ Handled
    PROVE  removal' \in {"dirs", "try", "acquire"} /\ Removing'
BY RetriesAssumption DEF NextFile, Handled, IInv, Removing

\* A step of deleteFiles that is not about the token.
LEMMA Elsewhere ==
    ASSUME IInv, UNCHANGED <<cache, disk, currentSize, sem, mu, pc, key, size>>,
           dirThere' \in BOOLEAN, removal # "lock", removal' # "lock", Removing'
    PROVE  IInv'
BY DEF IInv, Counted, Used, Places, TokensHeld, InCall, LockHeld, Room

LEMMA RemovalSteps ==
    ASSUME IInv, deleteFiles \/ RemovalStep \/ CloseEntry
    PROVE  IInv'
<1>0. dirThere \in BOOLEAN /\ Removing
  BY DEF IInv, Places
<1>1. CASE deleteFiles
  <2>1. Removing' /\ removal' # "lock"
    BY <1>0, <1>1, RetriesAssumption DEF deleteFiles, Removing
  <2> QED  BY <1>0, <1>1, <2>1, Elsewhere DEF deleteFiles
<1>2. CASE Removed
  BY <1>0, <1>2, AttemptEnds, Elsewhere DEF Removed
<1>3. CASE Fails
  <2>1. Removing' /\ removal' # "lock"
    BY <1>0, <1>3, AttemptEnds, RetriesAssumption DEF Fails, Removing
  <2> QED  BY <1>0, <1>3, <2>1, Elsewhere DEF Fails
<1>4. CASE Busy
  <2>1. Removing' /\ removal' # "lock"
    BY <1>0, <1>4 DEF Busy, Removing
  <2> QED  BY <1>0, <1>4, <2>1, Elsewhere DEF Busy
<1>5. CASE GivesUp
  BY <1>0, <1>5, AttemptEnds, Elsewhere DEF GivesUp
<1>6. CASE removeEmptyDirs
  <2>1. Removing' /\ removal' # "lock" /\ dirThere' \in BOOLEAN
    BY <1>0, <1>6 DEF removeEmptyDirs, Removing
  <2> QED  BY <1>6, <2>1, Elsewhere DEF removeEmptyDirs
<1>7. CASE Acquire
  <2>1. InCall' = InCall /\ sem' = sem + 1 /\ removal = "acquire" /\ removal' = "lock"
    BY <1>7 DEF Acquire, InCall
  <2>2. TokensHeld'
    BY <2>1, CallsFinite DEF IInv, TokensHeld
  <2>3. Removing' /\ sem' \in 0 .. MaxConcurrency
    BY <1>0, <1>7, SizesAssumption DEF Acquire, Removing, IInv, Places
  <2> QED
    BY <1>7, <2>2, <2>3 DEF Acquire, IInv, Counted, Used, Places, LockHeld, Room
<1>8. CASE CloseEntry
  <2>1. removal' \in {"dirs", "try", "acquire"} /\ Removing'
    BY <1>8, AttemptEnds DEF CloseEntry
  <2>2. InCall' = InCall /\ sem' = sem - 1 /\ removal = "lock"
    BY <1>8 DEF CloseEntry, InCall
  <2>3. TokensHeld' /\ sem' \in 0 .. MaxConcurrency
    BY <2>1, <2>2, CallsFinite, SizesAssumption DEF IInv, Places, TokensHeld
  <2>4. CASE UNCHANGED <<cache, disk>>
    BY <1>8, <2>1, <2>3, <2>4
       DEF CloseEntry, IInv, Counted, Used, Places, LockHeld, Room
  <2>5. ASSUME NEW k \in Keys, Closed(k)  PROVE Listing(cache') /\ Counted'
    BY <1>8, <2>5, ClosedListing, ClosedFreed DEF CloseEntry, IInv
  <2>6. CASE Listing(cache') /\ Counted'
    BY <1>8, <2>1, <2>3, <2>6 DEF CloseEntry, IInv, Places, LockHeld, Room
  <2> QED  BY <1>8, <2>4, <2>5, <2>6 DEF CloseEntry, Entry
<1> QED
  BY <1>1, <1>2, <1>3, <1>4, <1>5, <1>6, <1>7, <1>8 DEF RemovalStep

\* The invariant holds.
THEOREM Invariance == RemovalSpec => []IInv
<1>1. IInv /\ [RemovalNext]_allVars => IInv'
  <2> SUFFICES ASSUME IInv, [RemovalNext]_allVars  PROVE IInv'
    OBVIOUS
  <2>1. ASSUME NEW c \in Clients, Call(c), UNCHANGED removalVars  PROVE IInv'
    BY <2>1, CallStep
  <2>2. CASE deleteFiles \/ RemovalStep \/ CloseEntry
    BY <2>2, RemovalSteps
  <2>3. CASE UNCHANGED allVars
    BY <2>3 DEF allVars, IInv, Counted, Used, Places, Removing, TokensHeld, InCall,
               LockHeld, Room
  <2> QED  BY <2>1, <2>2, <2>3 DEF RemovalNext
<1> QED  BY Initially, <1>1, PTL DEF RemovalSpec

\* Every variable keeps its type: no entry is twice in the list, which is never
\* longer than CacheSize (lru.Cache), and deleteFiles stays within its attempts
\* (retryFileOperation, handleBusyResource).
THEOREM TypeCorrect == RemovalSpec => []RemovalTypeOK
BY Invariance, Implied, PTL

\* The files never take more than is counted, and that is never more than
\* maxSize, whatever is stored again, evicted, closed, dropped from the list or
\* removed after an error (Store, evict, CloseFile, Close).
THEOREM DiskFits == RemovalSpec => []DiskBounded
BY Invariance, Implied, PTL

\* The tokens taken are those of the calls under way, of the open readers and
\* of the CloseFile of deleteFiles, on every way out of each (Store, Get,
\* semaphoreCloser.Close, CloseFile).
THEOREM TokensReturn == RemovalSpec => []TokensHeld
BY Invariance, PTL DEF IInv

\* Two clients are never in Store at once, and a file that is being written
\* has its room (Store, evict).
THEOREM StoreExclusive == RemovalSpec => [](LockHeld /\ Room)
BY Invariance, PTL DEF IInv

------------------------------------------------------------------------------
(* How long a call may take *)

\* The steps deleteFiles has at most left with the file it is at: three for
\* each attempt (the removal, the semaphore, the lock).
AttemptsLeft == MaxRetries - attempt + (IF round = "first" THEN MaxRetries + 1 ELSE 0)
FileSteps ==
    3 * AttemptsLeft
      + CASE removal = "try" -> 3
          [] removal = "acquire" -> 2
          [] removal \in {"lock", "dirs"} -> 1
          [] removal = "idle" -> 0
Shorter == left' < left \/ (left' = left /\ FileSteps' < FileSteps)

\* The steps Store has at most left: it evicts what the list has, then it
\* creates the file, then it writes it.
StoreSteps(c) ==
    CASE pc[c] = "evict" -> Len(cache) + 2
      [] pc[c] = "copy"  -> 1
      [] OTHER -> 0

LEMMA AttemptsCounted ==
    ASSUME Removing
    PROVE  /\ AttemptsLeft \in 0 .. 2 * MaxRetries + 1
           /\ FileSteps \in 0 .. 6 * (MaxRetries + 1)
<1>1. AttemptsLeft \in 0 .. 2 * MaxRetries + 1
  BY RetriesAssumption DEF AttemptsLeft, Removing
<1> QED  BY <1>1, RetriesAssumption DEF FileSteps, Removing

LEMMA HandledShorter ==
    ASSUME Removing, removal \in {"acquire", "lock"}, Handled
    PROVE  Shorter
<1>1. CASE NextFile
  BY <1>1 DEF NextFile, Removing, Shorter
<1>2. CASE ~NextFile
  <2>1. removal' \in {"try", "acquire"} /\ left' = left /\ Removing'
    BY <1>2, RetriesAssumption DEF Handled, Removing
  <2>2. AttemptsLeft' < AttemptsLeft
    <3>1. CASE attempt = MaxRetries
      <4>1. round = "first" /\ round' = "again" /\ attempt' = 0
        BY <1>2, <3>1 DEF Handled, Removing
      <4> QED  BY <3>1, <4>1, RetriesAssumption DEF AttemptsLeft
    <3>2. CASE attempt + 1 < MaxRetries
      <4>1. attempt # MaxRetries /\ attempt \in Int
        BY <3>2, RetriesAssumption DEF Removing
      <4>2. round' = round /\ attempt' = attempt + 1
        BY <3>2, <4>1 DEF Handled
      <4> QED  BY <4>1, <4>2, RetriesAssumption DEF AttemptsLeft
    <3>3. CASE attempt # MaxRetries /\ ~(attempt + 1 < MaxRetries)
      <4>1. round = "first" /\ round' = round /\ attempt' = MaxRetries
        BY <1>2, <3>3 DEF Handled
      <4>2. attempt \in Int /\ attempt < MaxRetries
        BY <3>3, RetriesAssumption DEF Removing
      <4> QED  BY <4>1, <4>2, RetriesAssumption DEF AttemptsLeft
    <3> QED  BY <3>1, <3>2, <3>3
  <2>3. AttemptsLeft \in Int /\ AttemptsLeft' \in Int
    BY <2>1, AttemptsCounted, RetriesAssumption DEF AttemptsLeft, Removing
  <2>4. FileSteps = 3 * AttemptsLeft + 2 \/ FileSteps = 3 * AttemptsLeft + 1
    BY DEF FileSteps
  <2>5. FileSteps' = 3 * AttemptsLeft' + 3 \/ FileSteps' = 3 * AttemptsLeft' + 2
    BY <2>1 DEF FileSteps
  <2>6. FileSteps' < FileSteps
    BY <2>2, <2>3, <2>4, <2>5
  <2> QED  BY <2>1, <2>6 DEF Shorter
<1> QED  BY <1>1, <1>2

LEMMA DeletionStep ==
    ASSUME IInv, RemovalStep \/ CloseEntry
    PROVE  Shorter
<1> USE RetriesAssumption DEF IInv, Removing, FileSteps, AttemptsLeft, Shorter
<1>1. CASE Removed
  BY <1>1 DEF Removed, NextFile
<1>2. CASE Fails
  BY <1>2 DEF Fails, NextFile
<1>3. CASE Busy
  BY <1>3 DEF Busy
<1>4. CASE Acquire
  BY <1>4 DEF Acquire
<1>5. CASE GivesUp
  BY <1>5, HandledShorter DEF GivesUp
<1>6. CASE removeEmptyDirs
  BY <1>6 DEF removeEmptyDirs
<1>7. CASE CloseEntry
  BY <1>7, HandledShorter DEF CloseEntry
<1> QED  BY <1>1, <1>2, <1>3, <1>4, <1>5, <1>6, <1>7 DEF RemovalStep

\* Every step of deleteFiles brings its end nearer, by a file or by one of the
\* 6 * (MaxRetries + 1) steps it takes at most with one, whatever the clients of
\* the store do: a busy file is tried so often and no more (retryFileOperation,
\* handleBusyResource).
THEOREM DeletionShortens ==
    RemovalSpec => /\ [](FileSteps \in 0 .. 6 * (MaxRetries + 1))
                   /\ [][removal = "idle" \/ UNCHANGED removalVars \/ Shorter]_allVars
<1>1. IInv => FileSteps \in 0 .. 6 * (MaxRetries + 1)
  BY AttemptsCounted DEF IInv
<1>2. IInv /\ [RemovalNext]_allVars =>
        [removal = "idle" \/ UNCHANGED removalVars \/ Shorter]_allVars
  BY DeletionStep DEF RemovalNext, deleteFiles
<1> QED  BY Invariance, <1>1, <1>2, PTL DEF RemovalSpec

\* While a client is in Store nobody else changes the list, and every round of
\* evict, the creation of the file and the copy bring the end of Store nearer: it
\* holds the lock for CacheSize + 2 steps at most (Store, evict).
THEOREM StoreShortens ==
    RemovalSpec =>
      /\ [](\A c \in Clients : StoreSteps(c) \in 0 .. CacheSize + 2)
      /\ [][\A c \in Clients : mu = c =>
              UNCHANGED <<cache, pc[c]>> \/ StoreSteps(c)' < StoreSteps(c)]_allVars
<1>1. IInv => \A c \in Clients : StoreSteps(c) \in 0 .. CacheSize + 2
  BY EntriesOf, SizesAssumption DEF IInv, Listing, StoreSteps
<1>2. ASSUME IInv, [RemovalNext]_allVars, NEW c \in Clients, mu = c
      PROVE  UNCHANGED <<cache, pc[c]>> \/ StoreSteps(c)' < StoreSteps(c)
  <2>1. pc[c] \in {"evict", "copy"} /\ mu # NoClient /\ Len(cache) \in Nat
    BY <1>2, NullsAssumption, EntriesOf DEF IInv, LockHeld, Listing
  <2>2. ASSUME NEW d \in Clients, d # c, Call(d)  PROVE UNCHANGED <<cache, pc[c]>>
    <3>1. pc[d] \notin {"evict", "copy"} /\ pc \in [Clients -> {"idle", "evict", "copy", "open", "read"}]
      BY <1>2, <2>2 DEF IInv, LockHeld, Places
    <3> QED
      BY <2>1, <2>2, <3>1
         DEF Call, StoreStep, Store, Evict, EvictMissing, EvictEmpty, Full, Create,
             CreateFails, Copy, CopyFails, Get, Open, OpenFails, CloseReader, Returns,
             CloseFile, GetFileInfo, ListFiles, Close
  <2>3. CASE Call(c)
    <3>1. pc \in [Clients -> {"idle", "evict", "copy", "open", "read"}]
      BY <1>2 DEF IInv, Places
    <3>2. CASE Evict(c)
      <4>1. cache # <<>> /\ cache' = Tail(cache) /\ pc' = pc /\ pc[c] = "evict"
        BY <3>2 DEF Evict, Full
      <4>2. Len(cache') = Len(cache) - 1
        BY <1>2, <4>1, Tailed DEF IInv, Listing
      <4>3. StoreSteps(c) = Len(cache) + 2 /\ StoreSteps(c)' = Len(cache') + 2
        BY <4>1 DEF StoreSteps
      <4> QED  BY <2>1, <4>2, <4>3
    <3>3. CASE EvictMissing(c) \/ EvictEmpty(c) \/ CreateFails(c) \/ Copy(c) \/ CopyFails(c)
      <4>1. pc'[c] = "idle"
        BY <3>1, <3>3 DEF EvictMissing, EvictEmpty, CreateFails, Copy, CopyFails, Returns
      <4> QED  BY <2>1, <4>1 DEF StoreSteps
    <3>4. CASE Create(c)
      <4>1. pc[c] = "evict" /\ pc'[c] = "copy" /\ cache' = cache
        BY <3>1, <3>4 DEF Create
      <4> QED  BY <2>1, <4>1 DEF StoreSteps
    <3> QED
      BY <2>1, <2>3, <3>2, <3>3, <3>4
         DEF Call, StoreStep, Store, Get, Open, OpenFails, CloseReader,
             CloseFile, GetFileInfo, ListFiles, Close
  <2>4. CASE deleteFiles \/ RemovalStep \/ CloseEntry
    BY <2>1, <2>4
       DEF deleteFiles, RemovalStep, CloseEntry, Removed, Fails, Busy, Acquire, GivesUp,
           removeEmptyDirs
  <2> QED  BY <1>2, <2>2, <2>3, <2>4 DEF RemovalNext, allVars
<1>3. IInv /\ [RemovalNext]_allVars =>
        [\A c \in Clients : mu = c =>
           UNCHANGED <<cache, pc[c]>> \/ StoreSteps(c)' < StoreSteps(c)]_allVars
  BY <1>2
<1> QED  BY Invariance, <1>1, <1>3, PTL DEF RemovalSpec
=============================================================================
