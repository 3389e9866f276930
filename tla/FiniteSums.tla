----------------------------- MODULE FiniteSums -----------------------------
(***************************************************************************)
(* Sums of a function over a finite set, and what proofs about accounts    *)
(* need of them.  The fold behind MapThenSumSet is a function on the       *)
(* subsets of its set that is defined from smaller subsets; everything     *)
(* below follows from that equation by induction on strict inclusion.      *)
(***************************************************************************)
EXTENDS Integers, FiniteSetsExt, FiniteSetTheorems, TLAPS

\* The element a fold takes from a set next.
Pick(s) == CHOOSE x \in s : TRUE

\* The sum of F over s, from its sum g over the rest of s.
Adds(g, F, s) == IF s = {} THEN 0 ELSE F[Pick(s)] + g[s \ {Pick(s)}]

\* g gives the sum of F over every subset of S.
IsSum(g, F, S) == g = [s \in SUBSET S |-> Adds(g, F, s)]

\* The sum of F over S.
Total(F, S) == (CHOOSE g : IsSum(g, F, S))[S]

\* A set that is not empty has an element to take.
LEMMA PickIsElement == ASSUME NEW s, s # {} PROVE Pick(s) \in s
BY DEF Pick

\* The equation, subset by subset.
LEMMA SumUnfolds ==
    ASSUME NEW S, NEW F, NEW g, IsSum(g, F, S), NEW s \in SUBSET S
    PROVE  g[s] = Adds(g, F, s)
BY DEF IsSum

\* What holds of a set whenever it holds of its strict subsets holds of every
\* subset of a finite set.
LEMMA SubsetInduction ==
    ASSUME NEW S, IsFiniteSet(S), NEW Good,
           \A T \in SUBSET S : (\A U \in SUBSET T : U # T => U \in Good) => T \in Good
    PROVE  \A T \in SUBSET S : T \in Good
<1> DEFINE Bad == {T \in SUBSET S : T \notin Good}
<1>1. SUFFICES ASSUME Bad # {} PROVE FALSE
  OBVIOUS
<1>2. IsWellFoundedOn(StrictSubsetOrdering(S), SUBSET S)
  BY FS_StrictSubsetOrderingWellFounded, FS_FiniteSubsetsOfFinite
<1>3. PICK T \in Bad : \A U \in Bad : ~(<<U, T>> \in StrictSubsetOrdering(S))
  <2>1. Bad \subseteq SUBSET S
    OBVIOUS
  <2> HIDE DEF Bad
  <2> QED BY <1>1, <1>2, <2>1, WFMin
<1>4. ASSUME NEW U \in SUBSET T, U # T PROVE U \in Good
  <2>1. <<U, T>> \in StrictSubsetOrdering(S)
    BY <1>4 DEF StrictSubsetOrdering
  <2> QED BY <1>3, <2>1
<1> QED BY <1>3, <1>4

\* Two sums of one function agree where both are defined.
LEMMA SumsAgree ==
    ASSUME NEW F, NEW S, IsFiniteSet(S), NEW T, NEW g, NEW h, IsSum(g, F, S), IsSum(h, F, T),
           NEW U \in SUBSET S, U \subseteq T
    PROVE  g[U] = h[U]
<1> DEFINE Good == {V \in SUBSET U : g[V] = h[V]}
<1>1. IsFiniteSet(U)
  BY FS_Subset
<1>2. ASSUME NEW V \in SUBSET U, \A W \in SUBSET V : W # V => W \in Good
      PROVE  V \in Good
  <2>0. V \in SUBSET S /\ V \in SUBSET T
    BY <1>2
  <2>1. g[V] = Adds(g, F, V)
    BY <2>0, SumUnfolds
  <2>4. h[V] = Adds(h, F, V)
    BY <2>0, SumUnfolds
  <2>2. CASE V = {}
    BY <2>1, <2>2, <2>4 DEF Adds
  <2>3. CASE V # {}
    <3>1. V \ {Pick(V)} \in SUBSET V /\ V \ {Pick(V)} # V
      BY <2>3, PickIsElement
    <3>2. g[V \ {Pick(V)}] = h[V \ {Pick(V)}]
      BY <1>2, <3>1
    <3> QED BY <2>1, <2>3, <2>4, <3>2 DEF Adds
  <2> QED BY <2>2, <2>3
<1>3. \A V \in SUBSET U : V \in Good
  <2> HIDE DEF Good
  <2> QED BY <1>1, <1>2, SubsetInduction
<1> QED BY <1>3

\* A function has a sum over every finite set.
LEMMA SumExists ==
    ASSUME NEW F, NEW S, IsFiniteSet(S)
    PROVE  \E g : IsSum(g, F, S)
<1> DEFINE Good == {T \in SUBSET S : \E g : IsSum(g, F, T)}
<1>1. ASSUME NEW T \in SUBSET S, \A U \in SUBSET T : U # T => U \in Good
      PROVE  T \in Good
  <2> DEFINE f(s) == IF s = {} THEN 0 ELSE F[Pick(s)] + Total(F, s \ {Pick(s)})
             g == [s \in SUBSET T |-> f(s)]
  <2>0. ASSUME NEW U \in SUBSET T, U # T
        PROVE  IsFiniteSet(U) /\ \E h : IsSum(h, F, U) /\ Total(F, U) = h[U]
    <3>1. \E h : IsSum(h, F, U)
      BY <1>1, <2>0
    <3>2. IsSum(CHOOSE h : IsSum(h, F, U), F, U)
      BY <3>1
    <3>3. IsFiniteSet(U)
      BY FS_Subset
    <3> QED BY <3>2, <3>3 DEF Total
  <2>1. ASSUME NEW u \in SUBSET T, u # T PROVE g[u] = Total(F, u)
    <3>1. PICK h : IsSum(h, F, u) /\ Total(F, u) = h[u]
      BY <2>0, <2>1
    <3>2. h[u] = Adds(h, F, u)
      BY <3>1, SumUnfolds
    <3>3. CASE u = {}
      BY <3>1, <3>2, <3>3 DEF Adds
    <3>4. CASE u # {}
      <4> DEFINE w == u \ {Pick(u)}
      <4>1. w \in SUBSET T /\ w # T /\ w \in SUBSET u
        BY <2>1, <3>4, PickIsElement
      <4>2. PICK k : IsSum(k, F, w) /\ Total(F, w) = k[w] /\ IsFiniteSet(w)
        BY <2>0, <4>1
      <4>3. k[w] = h[w]
        <5>1. w \in SUBSET w
          OBVIOUS
        <5> HIDE DEF w
        <5> QED BY <3>1, <4>1, <4>2, <5>1, SumsAgree
      <4> QED BY <3>1, <3>2, <3>4, <4>2, <4>3 DEF Adds
    <3> QED BY <3>3, <3>4
  <2>2. ASSUME NEW s \in SUBSET T PROVE f(s) = Adds(g, F, s)
    <3>1. CASE s = {}
      BY <3>1 DEF Adds
    <3>2. CASE s # {}
      <4>1. s \ {Pick(s)} \in SUBSET T /\ s \ {Pick(s)} # T
        BY <3>2, PickIsElement
      <4> HIDE DEF g
      <4> QED BY <2>1, <3>2, <4>1 DEF Adds
    <3> QED BY <3>1, <3>2
  <2>3. IsSum(g, F, T)
    <3>1. g = [s \in SUBSET T |-> f(s)]
      OBVIOUS
    <3> HIDE DEF f, g
    <3>2. [s \in SUBSET T |-> f(s)] = [s \in SUBSET T |-> Adds(g, F, s)]
      BY <2>2
    <3> QED BY <3>1, <3>2 DEF IsSum
  <2> QED BY <2>3
<1>2. \A T \in SUBSET S : T \in Good
  <2> HIDE DEF Good
  <2> QED BY <1>1, SubsetInduction
<1> QED BY <1>2

\* Any sum of F gives its total.
LEMMA TotalOf ==
    ASSUME NEW F, NEW S, IsFiniteSet(S), NEW g, IsSum(g, F, S)
    PROVE  Total(F, S) = g[S]
<1>1. IsSum(CHOOSE h : IsSum(h, F, S), F, S)
  OBVIOUS
<1> QED BY <1>1, SumsAgree DEF Total

\* Sums of integers are integers, and natural numbers sum to one.
LEMMA TotalTyped ==
    ASSUME NEW S, IsFiniteSet(S), NEW F \in [S -> Int]
    PROVE  /\ Total(F, S) \in Int
           /\ (\A x \in S : F[x] >= 0) => Total(F, S) >= 0
           /\ (\A x \in S : F[x] = 0) => Total(F, S) = 0
<1>1. PICK g : IsSum(g, F, S)
  BY SumExists
<1> DEFINE Good == {T \in SUBSET S : /\ g[T] \in Int
                                     /\ (\A x \in S : F[x] >= 0) => g[T] >= 0
                                     /\ (\A x \in S : F[x] = 0) => g[T] = 0}
<1>2. ASSUME NEW T \in SUBSET S, \A U \in SUBSET T : U # T => U \in Good
      PROVE  T \in Good
  <2>1. g[T] = Adds(g, F, T)
    BY <1>1, SumUnfolds
  <2>2. CASE T = {}
    BY <2>1, <2>2 DEF Adds
  <2>3. CASE T # {}
    <3>1. Pick(T) \in T /\ T \ {Pick(T)} \in SUBSET T /\ T \ {Pick(T)} # T
      BY <2>3, PickIsElement
    <3>2. T \ {Pick(T)} \in Good
      BY <1>2, <3>1
    <3>3. F[Pick(T)] \in Int /\ Pick(T) \in S
      BY <3>1
    <3> QED BY <2>1, <2>3, <3>2, <3>3 DEF Adds
  <2> QED BY <2>2, <2>3
<1>3. \A T \in SUBSET S : T \in Good
  <2> HIDE DEF Good
  <2> QED BY <1>2, SubsetInduction
<1>4. Total(F, S) = g[S]
  BY <1>1, TotalOf
<1> QED BY <1>3, <1>4

\* When two functions differ in one element, so do their sums.
LEMMA TotalChange ==
    ASSUME NEW S, IsFiniteSet(S), NEW F \in [S -> Int], NEW G \in [S -> Int], NEW r \in S,
           \A x \in S \ {r} : G[x] = F[x]
    PROVE  Total(G, S) = Total(F, S) + G[r] - F[r]
<1>1. PICK g : IsSum(g, F, S)
  BY SumExists
<1>2. PICK h : IsSum(h, G, S)
  BY SumExists
<1>0. F[r] \in Int /\ G[r] \in Int
  OBVIOUS
<1> DEFINE d(T) == IF r \in T THEN G[r] - F[r] ELSE 0
           Good == {T \in SUBSET S : g[T] \in Int /\ h[T] \in Int /\ h[T] = g[T] + d(T)}
<1>3. ASSUME NEW T \in SUBSET S, \A U \in SUBSET T : U # T => U \in Good
      PROVE  T \in Good
  <2>0. g[T] = Adds(g, F, T)
    BY <1>1, SumUnfolds
  <2>1. h[T] = Adds(h, G, T)
    BY <1>2, SumUnfolds
  <2>2. CASE T = {}
    BY <2>0, <2>1, <2>2 DEF Adds
  <2>3. CASE T # {}
    <3>1. Pick(T) \in T /\ T \ {Pick(T)} \in SUBSET T /\ T \ {Pick(T)} # T
      BY <2>3, PickIsElement
    <3>2. T \ {Pick(T)} \in Good
      BY <1>3, <3>1
    <3>3. F[Pick(T)] \in Int /\ G[Pick(T)] \in Int
      BY <3>1
    <3>4. CASE Pick(T) = r
      BY <1>0, <2>0, <2>1, <2>3, <3>1, <3>2, <3>4 DEF Adds
    <3>5. CASE Pick(T) # r
      <4>1. G[Pick(T)] = F[Pick(T)] /\ (r \in T <=> r \in T \ {Pick(T)})
        BY <3>1, <3>5
      <4> QED BY <1>0, <2>0, <2>1, <2>3, <3>2, <3>3, <4>1 DEF Adds
    <3> QED BY <3>4, <3>5
  <2> QED BY <2>2, <2>3
<1>4. \A T \in SUBSET S : T \in Good
  <2> HIDE DEF Good
  <2> QED BY <1>3, SubsetInduction
<1>5. Total(F, S) = g[S] /\ Total(G, S) = h[S]
  BY <1>1, <1>2, TotalOf
<1>6. h[S] = g[S] + G[r] - F[r]
  BY <1>0, <1>4
<1> QED BY <1>5, <1>6

-----------------------------------------------------------------------------
(* The sum of a fold is a total.                                            *)

\* The sum of two functions.
LEMMA FoldOfTwo ==
    ASSUME NEW S, IsFiniteSet(S), NEW F, NEW G
    PROVE  MapThenSumSet(LAMBDA x : F[x] + G[x], S) = Total([x \in S |-> F[x] + G[x]], S)
<1> DEFINE H == [x \in S |-> F[x] + G[x]]
           iter == CHOOSE g : g = [s \in SUBSET S |->
                        IF s = {} THEN 0 ELSE (F[Pick(s)] + G[Pick(s)]) + g[s \ {Pick(s)}]]
<1>1. ASSUME NEW g
      PROVE  IsSum(g, H, S) <=> g = [s \in SUBSET S |->
                        IF s = {} THEN 0 ELSE (F[Pick(s)] + G[Pick(s)]) + g[s \ {Pick(s)}]]
  <2>1. ASSUME NEW s \in SUBSET S, s # {} PROVE H[Pick(s)] = F[Pick(s)] + G[Pick(s)]
    BY <2>1, PickIsElement
  <2> HIDE DEF H
  <2>2. [s \in SUBSET S |-> IF s = {} THEN 0 ELSE H[Pick(s)] + g[s \ {Pick(s)}]]
          = [s \in SUBSET S |-> IF s = {} THEN 0 ELSE (F[Pick(s)] + G[Pick(s)]) + g[s \ {Pick(s)}]]
    BY <2>1
  <2> QED BY <2>2 DEF IsSum, Adds
<1>2. \E g : IsSum(g, H, S)
  BY SumExists
<1>3. IsSum(iter, H, S)
  BY <1>1, <1>2
<1>4. MapThenSumSet(LAMBDA x : F[x] + G[x], S) = iter[S]
  BY DEF MapThenSumSet, MapThenFoldSet, Pick
<1> HIDE DEF iter, H
<1>5. Total(H, S) = iter[S]
  BY <1>3, TotalOf
<1> QED BY <1>4, <1>5 DEF H
=============================================================================
