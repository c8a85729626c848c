----------------------------- MODULE SumTheorems ------------------------------
(* The sum of a function over a finite set, as the models write it with the   *)
(* fold MapThenSumSet, by its recursion: it does not depend on the order in   *)
(* which the elements are taken.  What would be an induction over the number  *)
(* of elements takes a counterexample with the fewest.  The same goes for     *)
(* recursions over a range of numbers, and for walks that take in more until  *)
(* there is no more, such as the walk down the bills of an item.              *)
EXTENDS Integers, FiniteSets, FiniteSetTheorems, WellFoundedInduction, TLAPS

Ext == INSTANCE FiniteSetsExt

(* A set of natural numbers has a least member.                               *)
LEMMA LeastOf ==
  ASSUME NEW S \in SUBSET Nat, S # {}
  PROVE  \E k \in S : \A m \in S : k <= m
<1> DEFINE R == {ss \in Nat \X Nat : ss[1] < ss[2]}
<1>1. PICK x \in S : \A y \in S : <<y, x>> \notin R
  <2>1. IsWellFoundedOn(R, Nat)
    BY NatLessThanWellFounded DEF OpToRel
  <2> HIDE DEF R
  <2> QED
    BY <2>1, WFMin
<1>2. \A y \in S : ~(y < x)
  BY <1>1
<1> QED
  BY <1>2

(* A recursion over 1..M has a solution: a counterexample would have a least M. *)
Stepping(step, A, M) == step \in [A \X (1..M) -> A]
Iterates(f, step, A, a, M) ==
  /\ f \in [0..M -> A] /\ f[0] = a
  /\ \A n \in 1..M : f[n] = step[<<f[n - 1], n>>]

LEMMA IterationExists ==
  ASSUME NEW A, NEW a \in A, NEW M \in Nat, NEW step, Stepping(step, A, M)
  PROVE  \E f : Iterates(f, step, A, a, M)
<1> USE DEF Stepping, Iterates
<1> DEFINE Solves(f, N) == /\ f \in [0..N -> A] /\ f[0] = a
                           /\ \A n \in 1..N : f[n] = step[<<f[n - 1], n>>]
           Bad == {N \in 0..M : ~ \E f : Solves(f, N)}
<1>1. ASSUME Bad # {} PROVE FALSE
  <2>0. Bad \in SUBSET Nat
    OBVIOUS
  <2>1. PICK N \in Bad : \A m \in Bad : N <= m
    <3> HIDE DEF Bad
    <3> QED
      BY <1>1, <2>0, LeastOf
  <2>2. N # 0
    <3>1. Solves([n \in 0..0 |-> a], 0)
      OBVIOUS
    <3> QED
      BY <3>1
  <2>3. N - 1 \in 0..M /\ N - 1 \notin Bad
    BY <2>1, <2>2
  <2>4. PICK f : Solves(f, N - 1)
    BY <2>3
  <2> DEFINE next == step[<<f[N - 1], N>>]
             g == [n \in 0..N |-> IF n = N THEN next ELSE f[n]]
  <2>5. f[N - 1] \in A /\ N \in 1..M
    BY <2>1, <2>2, <2>4
  <2>6. next \in A
    BY <2>5
  <2> HIDE DEF next
  <2>7. g \in [0..N -> A] /\ g[0] = a
    BY <2>2, <2>4, <2>5, <2>6
  <2>8. \A n \in 1..N : g[n] = step[<<g[n - 1], n>>]
    <3> SUFFICES ASSUME NEW n \in 1..N PROVE g[n] = step[<<g[n - 1], n>>]
      OBVIOUS
    <3>1. n - 1 \in 0..(N - 1) /\ g[n - 1] = f[n - 1]
      BY <2>5
    <3>2. CASE n = N
      <4>1. g[n] = next
        BY <3>2
      <4> QED
        BY <3>1, <3>2, <4>1 DEF next
    <3>3. CASE n # N
      <4>1. n \in 1..(N - 1) /\ g[n] = f[n]
        BY <2>5, <3>3
      <4> QED
        BY <2>4, <3>1, <4>1
    <3> QED
      BY <3>2, <3>3
  <2> HIDE DEF g
  <2>9. Solves(g, N)
    BY <2>7, <2>8
  <2> QED
    BY <2>1, <2>9
<1>2. M \in 0..M
  OBVIOUS
<1>3. \E f : Solves(f, M)
  BY <1>1, <1>2
<1> QED
  BY <1>3

(* What obeys the recursion is such a solution: it never leaves A.             *)
LEMMA IterationRuns ==
  ASSUME NEW A, NEW a \in A, NEW M \in Nat, NEW step, Stepping(step, A, M),
         NEW v, v = [n \in 0..M |-> v[n]], v[0] = a,
         \A n \in 1..M : v[n - 1] \in A => v[n] = step[<<v[n - 1], n>>]
  PROVE  Iterates(v, step, A, a, M)
<1> DEFINE Bad == {n \in 0..M : v[n] \notin A}
<1>1. ASSUME Bad # {} PROVE FALSE
  <2>1. Bad \in SUBSET Nat
    OBVIOUS
  <2>2. PICK n \in Bad : \A m \in Bad : n <= m
    <3> HIDE DEF Bad
    <3> QED
      BY <1>1, <2>1, LeastOf
  <2>3. n \in 1..M /\ n - 1 \in 0..M /\ n - 1 \notin Bad
    BY <2>2
  <2>4. v[n - 1] \in A /\ <<v[n - 1], n>> \in A \X (1..M)
    BY <2>3
  <2>5. step[<<v[n - 1], n>>] \in A
    BY <2>4 DEF Stepping
  <2> QED
    BY <2>2, <2>3, <2>4, <2>5
<1>2. \A n \in 0..M : v[n] \in A
  BY <1>1
<1>3. v \in [0..M -> A]
  BY <1>2
<1>4. \A n \in 1..M : v[n] = step[<<v[n - 1], n>>]
  <2>1. \A n \in 1..M : n - 1 \in 0..M
    OBVIOUS
  <2> QED
    BY <1>2, <2>1
<1> QED
  BY <1>3, <1>4 DEF Iterates

(* A walk that only grows, inside a finite set, stands still after as many     *)
(* steps as the set has members: until then each step takes in one more.       *)
LEMMA WalkSettles ==
  ASSUME NEW S, IsFiniteSet(S), NEW g \in [SUBSET S -> SUBSET S],
         \A T \in SUBSET S : T \subseteq g[T],
         NEW V, V \in [0..Cardinality(S) -> SUBSET S], V[0] # {},
         \A n \in 1..Cardinality(S) : V[n] = g[V[n - 1]]
  PROVE  g[V[Cardinality(S)]] = V[Cardinality(S)]
<1>1. PICK N \in Nat : N = Cardinality(S)
  BY FS_CardinalityType
<1>2. /\ \A n \in 0..N : V[n] \in SUBSET S /\ IsFiniteSet(V[n]) /\ Cardinality(V[n]) \in Nat
      /\ \A n \in 0..N : Cardinality(V[n]) <= N
      /\ \A n \in 0..N : n < N => n + 1 \in 0..N /\ V[n + 1] = g[V[n]]
  <2>1. \A n \in 0..N : V[n] \in SUBSET S
    BY <1>1
  <2>2. \A n \in 0..N : IsFiniteSet(V[n]) /\ Cardinality(V[n]) \in Nat /\ Cardinality(V[n]) <= N
    BY <1>1, <2>1, FS_Subset, FS_CardinalityType
  <2>3. ASSUME NEW n \in 0..N, n < N PROVE n + 1 \in 0..N /\ V[n + 1] = g[V[n]]
    <3>1. n + 1 \in 1..N /\ (n + 1) - 1 = n
      BY <2>3
    <3> QED
      BY <1>1, <3>1
  <2> QED
    BY <2>1, <2>2, <2>3
<1>3. ASSUME g[V[N]] # V[N] PROVE FALSE
  <2> DEFINE Moving == {n \in Nat : n <= N /\ ~(Cardinality(V[n]) >= n + 1)}
  <2>1. \A n \in 0..N : g[V[n]] # V[n]
    <3> DEFINE Bad == {n \in Nat : n <= N /\ g[V[N - n]] = V[N - n]}
    <3>1. ASSUME Bad # {} PROVE FALSE
      <4>1. Bad \in SUBSET Nat
        OBVIOUS
      <4>2. PICK n \in Bad : \A m \in Bad : n <= m
        <5> HIDE DEF Bad
        <5> QED
          BY <3>1, <4>1, LeastOf
      <4>3. n # 0
        BY <1>3, <4>2
      <4>4. n - 1 \in Nat /\ n - 1 <= N /\ n - 1 \notin Bad /\ N - n \in 0..N
            /\ N - n < N /\ (N - n) + 1 = N - (n - 1)
        BY <4>2, <4>3
      <4>5. V[N - (n - 1)] = g[V[N - n]]
        BY <1>2, <4>4
      <4>6. V[N - (n - 1)] = V[N - n] /\ g[V[N - (n - 1)]] = V[N - (n - 1)]
        BY <4>2, <4>5
      <4> QED
        BY <4>4, <4>6
    <3>2. ASSUME NEW n \in 0..N, g[V[n]] = V[n] PROVE FALSE
      <4>1. N - n \in Nat /\ N - n <= N /\ N - (N - n) = n
        OBVIOUS
      <4> QED
        BY <3>1, <3>2, <4>1
    <3> QED
      BY <3>2
  <2>2. ASSUME Moving # {} PROVE FALSE
    <3>1. Moving \in SUBSET Nat
      OBVIOUS
    <3>2. PICK n \in Moving : \A m \in Moving : n <= m
      <4> HIDE DEF Moving
      <4> QED
        BY <2>2, <3>1, LeastOf
    <3>3. n # 0
      <4>1. Cardinality(V[0]) # 0
        BY <1>2, FS_EmptySet
      <4> QED
        BY <1>2, <3>2, <4>1
    <3>4. n - 1 \in 0..N /\ n - 1 < N /\ (n - 1) + 1 = n /\ n \in 0..N
      BY <3>2, <3>3
    <3>5. Cardinality(V[n - 1]) >= n
      BY <3>2, <3>4
    <3>6. V[n] = g[V[n - 1]] /\ V[n - 1] \subseteq V[n] /\ V[n] # V[n - 1]
      <4>1. V[n - 1] \in SUBSET S /\ g[V[n - 1]] # V[n - 1]
        BY <1>2, <2>1, <3>4
      <4>2. V[n] = g[V[n - 1]]
        BY <1>2, <3>4
      <4> QED
        BY <4>1, <4>2
    <3>7. IsFiniteSet(V[n]) /\ V[n - 1] \in SUBSET V[n]
      BY <1>2, <3>4, <3>6
    <3>8. Cardinality(V[n - 1]) <= Cardinality(V[n]) /\ Cardinality(V[n - 1]) # Cardinality(V[n])
      BY <3>6, <3>7, FS_Subset
    <3> QED
      BY <1>2, <3>2, <3>4, <3>5, <3>8
  <2>3. N \in 0..N /\ N \notin Moving
    BY <2>2
  <2>4. Cardinality(V[N]) >= N + 1 /\ Cardinality(V[N]) <= N /\ Cardinality(V[N]) \in Nat
    BY <1>2, <2>3
  <2> QED
    BY <2>4
<1> QED
  BY <1>1, <1>3

(* Where the walk ends holds where it began, and is closed under its step.     *)
LEMMA WalkCloses ==
  ASSUME NEW S, IsFiniteSet(S), NEW g \in [SUBSET S -> SUBSET S],
         \A T \in SUBSET S : T \subseteq g[T],
         NEW V, V \in [0..Cardinality(S) -> SUBSET S], V[0] # {},
         \A n \in 1..Cardinality(S) : V[n] = g[V[n - 1]]
  PROVE  V[0] \subseteq V[Cardinality(S)] /\ g[V[Cardinality(S)]] = V[Cardinality(S)]
<1>1. PICK C \in Nat : C = Cardinality(S)
  BY FS_CardinalityType
<1> DEFINE Bad == {n \in 0..C : ~(V[0] \subseteq V[n])}
<1>2. ASSUME Bad # {} PROVE FALSE
  <2>1. Bad \in SUBSET Nat
    OBVIOUS
  <2>2. PICK n \in Bad : \A m \in Bad : n <= m
    <3> HIDE DEF Bad
    <3> QED
      BY <1>2, <2>1, LeastOf
  <2>3. n \in 1..C /\ n - 1 \in 0..C /\ n - 1 \notin Bad
    BY <2>2
  <2>4. V[0] \subseteq V[n - 1] /\ V[n - 1] \in SUBSET S /\ V[n] = g[V[n - 1]]
    BY <1>1, <2>3
  <2>5. V[n - 1] \subseteq g[V[n - 1]]
    BY <2>4
  <2> QED
    BY <2>2, <2>4, <2>5
<1>3. V[0] \subseteq V[C]
  BY <1>2
<1> QED
  BY <1>1, <1>3, WalkSettles

(* The recursion of the fold: an element, and the sum of the others.          *)
First(s) == CHOOSE x \in s : TRUE
Added(f, it, s) == IF s = {} THEN 0 ELSE f[First(s)] + it[s \ {First(s)}]
Adds(f, D, it) == it = [s \in D |-> Added(f, it, s)]
SumOver(f, S) == Ext!MapThenSumSet(LAMBDA x : f[x], S)

(* The fold is the value of the function its recursion defines.               *)
LEMMA SumIsChosen ==
  ASSUME NEW f, NEW S
  PROVE  SumOver(f, S) = (CHOOSE it : Adds(f, SUBSET S, it))[S]
BY DEF SumOver, Ext!MapThenSumSet, Ext!MapThenFoldSet, Adds, Added, First

UpTo(S, k) == {s \in SUBSET S : Cardinality(s) <= k}

(* There is such a function.                                                  *)
LEMMA SumsExist ==
  ASSUME NEW f, NEW S, IsFiniteSet(S)
  PROVE  \E it : Adds(f, SUBSET S, it)
<1> DEFINE Bad == {k \in Nat : ~ \E it : Adds(f, UpTo(S, k), it)}
<1>1. \A s \in SUBSET S : IsFiniteSet(s) /\ Cardinality(s) \in Nat /\ Cardinality(s) <= Cardinality(S)
  BY FS_Subset, FS_CardinalityType
<1>2. UpTo(S, Cardinality(S)) = SUBSET S
  BY <1>1 DEF UpTo
<1>3. ASSUME Bad # {} PROVE FALSE
  <2>1. PICK k \in Bad : \A m \in Bad : k <= m
    BY <1>3, LeastOf
  <2>2. k # 0
    <3> SUFFICES ASSUME k = 0 PROVE FALSE
      OBVIOUS
    <3>1. UpTo(S, 0) = {{}}
      BY <1>1, FS_EmptySet DEF UpTo
    <3>2. Adds(f, {{}}, [s \in {{}} |-> 0])
      BY DEF Adds, Added
    <3> QED
      BY <3>1, <3>2
  <2>3. k \in Nat /\ k - 1 \in Nat /\ k - 1 \notin Bad
    BY <2>1, <2>2
  <2>4. PICK it : Adds(f, UpTo(S, k - 1), it)
    BY <2>3
  <2> DEFINE new == [s \in UpTo(S, k) |-> Added(f, it, s)]
  <2>5. ASSUME NEW s \in UpTo(S, k - 1) PROVE new[s] = it[s] /\ s \in UpTo(S, k)
    <3>1. s \in UpTo(S, k)
      BY <1>1, <2>3 DEF UpTo
    <3> QED
      BY <2>4, <3>1 DEF Adds
  <2>6. ASSUME NEW s \in UpTo(S, k) PROVE Added(f, new, s) = Added(f, it, s)
    <3> SUFFICES ASSUME s # {} PROVE new[s \ {First(s)}] = it[s \ {First(s)}]
      BY DEF Added
    <3>1. First(s) \in s
      BY DEF First
    <3>2. s \in SUBSET S /\ Cardinality(s) <= k
      BY DEF UpTo
    <3>3. Cardinality(s \ {First(s)}) = Cardinality(s) - 1
      BY <1>1, <3>1, <3>2, FS_RemoveElement
    <3>4. s \ {First(s)} \in UpTo(S, k - 1)
      BY <1>1, <2>3, <3>2, <3>3 DEF UpTo
    <3> QED
      BY <2>5, <3>4
  <2>7. Adds(f, UpTo(S, k), new)
    BY <2>6 DEF Adds
  <2> QED
    BY <2>1, <2>7
<1>4. Cardinality(S) \in Nat \ Bad
  BY <1>3, FS_CardinalityType
<1> QED
  BY <1>2, <1>4

(* On a part of the set it is the function of that part.                      *)
LEMMA SumsAgree ==
  ASSUME NEW f, NEW S, IsFiniteSet(S), NEW T \in SUBSET S, NEW a, NEW b,
         Adds(f, SUBSET S, a), Adds(f, SUBSET T, b)
  PROVE  \A s \in SUBSET T : a[s] = b[s]
<1> DEFINE Bad == {k \in Nat : \E s \in SUBSET T : Cardinality(s) = k /\ a[s] # b[s]}
<1>1. \A s \in SUBSET S : IsFiniteSet(s) /\ Cardinality(s) \in Nat
  BY FS_Subset, FS_CardinalityType
<1>2. ASSUME Bad # {} PROVE FALSE
  <2>1. PICK k \in Bad : \A m \in Bad : k <= m
    BY <1>2, LeastOf
  <2>2. PICK s \in SUBSET T : Cardinality(s) = k /\ a[s] # b[s]
    BY <2>1
  <2>3. a[s] = Added(f, a, s) /\ b[s] = Added(f, b, s)
    BY DEF Adds
  <2>4. s # {} /\ a[s \ {First(s)}] # b[s \ {First(s)}]
    BY <2>2, <2>3 DEF Added
  <2>5. First(s) \in s
    BY <2>4 DEF First
  <2>6. Cardinality(s \ {First(s)}) = k - 1
    BY <1>1, <2>2, <2>5, FS_RemoveElement
  <2>7. s \ {First(s)} \in SUBSET T /\ Cardinality(s \ {First(s)}) \in Nat
    BY <1>1
  <2>8. k - 1 \in Bad
    BY <2>4, <2>6, <2>7
  <2> QED
    BY <2>1, <2>8
<1> QED
  BY <1>1, <1>2

(* The sum over a set is what one of its elements adds to the sum of the rest.*)
LEMMA SumUnfolds ==
  ASSUME NEW f, NEW S, IsFiniteSet(S)
  PROVE  /\ S = {} => SumOver(f, S) = 0
         /\ S # {} => /\ First(S) \in S
                      /\ SumOver(f, S) = f[First(S)] + SumOver(f, S \ {First(S)})
<1> DEFINE a == CHOOSE it : Adds(f, SUBSET S, it)
           T == S \ {First(S)}
           b == CHOOSE it : Adds(f, SUBSET T, it)
<1>1. Adds(f, SUBSET S, a)
  BY SumsExist
<1>2. IsFiniteSet(T)
  BY FS_Subset
<1>3. Adds(f, SUBSET T, b)
  BY <1>2, SumsExist
<1>4. a[S] = Added(f, a, S)
  BY <1>1 DEF Adds
<1>5. T \in SUBSET S /\ T \in SUBSET T
  OBVIOUS
<1>6. SumOver(f, S) = a[S] /\ SumOver(f, T) = b[T]
  BY SumIsChosen
<1> HIDE DEF a, b, T
<1>7. a[T] = b[T]
  BY <1>1, <1>3, <1>5, SumsAgree
<1> USE DEF T
<1> QED
  BY <1>4, <1>6, <1>7 DEF Added, First

(* The order does not matter: a sum is what any of its elements adds to the   *)
(* rest (the totals the code reads with func.sum, in whatever order).         *)
THEOREM SumTakesAny ==
  ASSUME NEW f, NEW S, IsFiniteSet(S), \A x \in S : f[x] \in Int
  PROVE  /\ SumOver(f, S) \in Int
         /\ \A x \in S : SumOver(f, S) = f[x] + SumOver(f, S \ {x})
<1> DEFINE Good(T) == /\ SumOver(f, T) \in Int
                      /\ \A x \in T : SumOver(f, T) = f[x] + SumOver(f, T \ {x})
           Bad == {k \in Nat : \E T \in SUBSET S : Cardinality(T) = k /\ ~Good(T)}
<1>1. \A T \in SUBSET S : IsFiniteSet(T) /\ Cardinality(T) \in Nat
  BY FS_Subset, FS_CardinalityType
<1>2. ASSUME Bad # {} PROVE FALSE
  <2>1. PICK k \in Bad : \A m \in Bad : k <= m
    BY <1>2, LeastOf
  <2>2. PICK T \in SUBSET S : Cardinality(T) = k /\ ~Good(T)
    BY <2>1
  <2>3. T # {}
    <3> SUFFICES ASSUME T = {} PROVE FALSE
      OBVIOUS
    <3>1. SumOver(f, T) = 0
      BY <1>1, SumUnfolds
    <3> QED
      BY <2>2, <3>1
  <2> DEFINE c == First(T)
  <2>4. c \in T /\ SumOver(f, T) = f[c] + SumOver(f, T \ {c})
    BY <1>1, <2>3, SumUnfolds
  <2> HIDE DEF c
  <2>5. ASSUME NEW x \in T PROVE Good(T \ {x})
    <3>1. Cardinality(T \ {x}) = k - 1
      BY <1>1, <2>2, FS_RemoveElement
    <3>2. T \ {x} \in SUBSET S /\ k - 1 \in Nat /\ k - 1 \notin Bad
      BY <1>1, <2>1, <3>1
    <3> QED
      BY <3>1, <3>2
  <2>6. SumOver(f, T) \in Int
    BY <2>4, <2>5
  <2>7. ASSUME NEW x \in T PROVE SumOver(f, T) = f[x] + SumOver(f, T \ {x})
    <3>1. CASE x = c
      BY <2>4, <3>1
    <3>2. CASE x # c
      <4> DEFINE A == T \ {c}  B == T \ {x}  D == T \ {x, c}
      <4>1. A \ {x} = D /\ B \ {c} = D /\ x \in A /\ c \in B
        BY <2>4, <3>2
      <4>2. SumOver(f, A) = f[x] + SumOver(f, D)
        BY <2>4, <2>5, <4>1
      <4>3. SumOver(f, B) = f[c] + SumOver(f, D)
        BY <2>5, <4>1
      <4>4. Good(A) /\ Good(B)
        BY <2>4, <2>5
      <4>5. Good(D)
        <5>1. Cardinality(A) = k - 1 /\ IsFiniteSet(A)
          BY <1>1, <2>2, <2>4, FS_RemoveElement
        <5>2. Cardinality(A \ {x}) = Cardinality(A) - 1
          BY <4>1, <5>1, FS_RemoveElement
        <5>5. Cardinality(D) = (k - 1) - 1
          BY <4>1, <5>1, <5>2
        <5>0. Cardinality(D) = k - 2
          BY ONLY <5>5, k \in Nat
        <5>3. D \in SUBSET S /\ Cardinality(D) \in Nat
          BY <1>1
        <5>4. k - 2 \notin Bad
          BY <2>1, <5>0, <5>3
        <5> QED
          BY <5>0, <5>3, <5>4
      <4> HIDE DEF A, B, D
      <4>6. SumOver(f, T) = f[c] + SumOver(f, A)
        BY <2>4 DEF A
      <4>7. SumOver(f, D) \in Int /\ f[x] \in Int /\ f[c] \in Int
        BY <2>4, <4>5
      <4>8. SumOver(f, T) = f[x] + SumOver(f, B)
        BY <4>2, <4>3, <4>6, <4>7
      <4> QED
        BY <4>8 DEF B
    <3> QED
      BY <3>1, <3>2
  <2> QED
    BY <2>2, <2>6, <2>7
<1>3. Cardinality(S) \notin Bad /\ Cardinality(S) \in Nat
  BY <1>1, <1>2
<1> QED
  BY <1>3

LEMMA SumOfNone ==
  ASSUME NEW f PROVE SumOver(f, {}) = 0
BY SumUnfolds, FS_EmptySet

LEMMA SumOfOneMore ==
  ASSUME NEW f, NEW S, IsFiniteSet(S), \A x \in S : f[x] \in Int, NEW y, y \notin S, f[y] \in Int
  PROVE  SumOver(f, S \cup {y}) = SumOver(f, S) + f[y]
<1>1. IsFiniteSet(S \cup {y}) /\ \A x \in S \cup {y} : f[x] \in Int
  BY FS_AddElement
<1>2. \A T : T = S \cup {y} => SumOver(f, T) = f[y] + SumOver(f, T \ {y}) /\ T \ {y} = S
  BY <1>1, SumTakesAny
<1>3. SumOver(f, S \cup {y}) = f[y] + SumOver(f, S)
  BY <1>2
<1>4. SumOver(f, S) \in Int
  BY SumTakesAny
<1> QED
  BY <1>3, <1>4

(* Equal terms have equal sums.                                               *)
LEMMA SumOfSame ==
  ASSUME NEW f, NEW g, NEW S, IsFiniteSet(S), \A x \in S : f[x] = g[x]
  PROVE  SumOver(f, S) = SumOver(g, S)
<1>1. ASSUME NEW it, NEW s \in SUBSET S PROVE Added(f, it, s) = Added(g, it, s)
  BY DEF Added, First
<1>2. ASSUME NEW it
      PROVE  [s \in SUBSET S |-> Added(f, it, s)] = [s \in SUBSET S |-> Added(g, it, s)]
  BY <1>1
<1>3. (CHOOSE it : Adds(f, SUBSET S, it)) = CHOOSE it : Adds(g, SUBSET S, it)
  BY <1>2 DEF Adds
<1> QED
  BY <1>3, SumIsChosen

(* A sum of what is not negative is not less than any of its terms.           *)
LEMMA SumOfNats ==
  ASSUME NEW f, NEW S, IsFiniteSet(S), \A x \in S : f[x] \in Nat
  PROVE  SumOver(f, S) \in Nat /\ \A x \in S : f[x] <= SumOver(f, S)
<1> DEFINE Bad == {k \in Nat : \E T \in SUBSET S : Cardinality(T) = k /\ SumOver(f, T) \notin Nat}
<1>1. \A T \in SUBSET S : IsFiniteSet(T) /\ Cardinality(T) \in Nat
  BY FS_Subset, FS_CardinalityType
<1>2. ASSUME Bad # {} PROVE FALSE
  <2>1. PICK k \in Bad : \A m \in Bad : k <= m
    BY <1>2, LeastOf
  <2>2. PICK T \in SUBSET S : Cardinality(T) = k /\ SumOver(f, T) \notin Nat
    BY <2>1
  <2>3. T # {}
    BY <2>2, SumOfNone
  <2>4. PICK x \in T : TRUE
    BY <2>3
  <2>5. Cardinality(T \ {x}) = k - 1 /\ T \ {x} \in SUBSET S /\ k - 1 \in Nat
    <3>1. Cardinality(T \ {x}) = Cardinality(T) - 1
      BY <1>1, <2>4, FS_RemoveElement
    <3> QED
      BY <1>1, <2>2, <3>1
  <2>6. SumOver(f, T \ {x}) \in Nat
    <3>1. k - 1 \notin Bad
      BY <2>1, <2>5
    <3> QED
      BY <2>5, <3>1
  <2>7. SumOver(f, T) = f[x] + SumOver(f, T \ {x})
    BY <1>1, SumTakesAny
  <2> QED
    BY <2>2, <2>6, <2>7
<1>3. ASSUME NEW T \in SUBSET S PROVE SumOver(f, T) \in Nat
  BY <1>1, <1>2
<1>4. ASSUME NEW x \in S PROVE f[x] <= SumOver(f, S)
  <2>1. SumOver(f, S) = f[x] + SumOver(f, S \ {x})
    BY SumTakesAny
  <2>2. SumOver(f, S \ {x}) \in Nat
    BY <1>3
  <2> QED
    BY <2>1, <2>2
<1> QED
  BY <1>3, <1>4

(* A sum changes by what one of its terms changes by.                         *)
LEMMA SumOfChanged ==
  ASSUME NEW f, NEW g, NEW S, IsFiniteSet(S), NEW y \in S,
         \A x \in S : f[x] \in Int /\ g[x] \in Int, \A x \in S : x # y => g[x] = f[x]
  PROVE  SumOver(g, S) = SumOver(f, S) + g[y] - f[y]
<1>1. SumOver(f, S) = f[y] + SumOver(f, S \ {y}) /\ SumOver(g, S) = g[y] + SumOver(g, S \ {y})
  BY SumTakesAny
<1>2. IsFiniteSet(S \ {y})
  BY FS_Subset
<1>3. SumOver(f, S \ {y}) = SumOver(g, S \ {y}) /\ SumOver(f, S \ {y}) \in Int
  BY <1>2, SumOfSame, SumTakesAny
<1> QED
  BY <1>1, <1>3

(* A part of what is not negative sums up to no more.                         *)
LEMMA SumOfSubset ==
  ASSUME NEW f, NEW S, IsFiniteSet(S), \A x \in S : f[x] \in Nat, NEW T \in SUBSET S
  PROVE  SumOver(f, T) <= SumOver(f, S)
<1> DEFINE Bad == {k \in Nat : \E A \in SUBSET S : T \subseteq A /\ Cardinality(A) = k
                                                  /\ ~(SumOver(f, T) <= SumOver(f, A))}
<1>1. \A A \in SUBSET S : IsFiniteSet(A) /\ Cardinality(A) \in Nat /\ SumOver(f, A) \in Nat
  BY FS_Subset, FS_CardinalityType, SumOfNats
<1>2. ASSUME Bad # {} PROVE FALSE
  <2>1. PICK k \in Bad : \A m \in Bad : k <= m
    BY <1>2, LeastOf
  <2>2. PICK A \in SUBSET S : T \subseteq A /\ Cardinality(A) = k
                              /\ ~(SumOver(f, T) <= SumOver(f, A))
    BY <2>1
  <2>3. PICK x \in A : x \notin T
    BY <1>1, <2>2
  <2>4. Cardinality(A \ {x}) = Cardinality(A) - 1 /\ Cardinality(A \ {x}) \in Nat
    BY <1>1, FS_RemoveElement
  <2>5. k - 1 \in Nat /\ k - 1 \notin Bad
    BY <2>1, <2>2, <2>4
  <2>6. SumOver(f, T) <= SumOver(f, A \ {x})
    BY <2>2, <2>3, <2>4, <2>5
  <2>7. SumOver(f, A) = f[x] + SumOver(f, A \ {x})
    BY <1>1, SumTakesAny
  <2>8. f[x] \in Nat /\ SumOver(f, A \ {x}) \in Nat /\ SumOver(f, T) \in Nat
    BY <1>1
  <2> QED
    BY <2>2, <2>6, <2>7, <2>8
<1> QED
  BY <1>1, <1>2

(* Nothing but zeros is zero.                                                 *)
LEMMA SumOfZeros ==
  ASSUME NEW f, NEW S, IsFiniteSet(S), \A x \in S : f[x] = 0
  PROVE  SumOver(f, S) = 0
<1> DEFINE Bad == {k \in Nat : \E T \in SUBSET S : Cardinality(T) = k /\ SumOver(f, T) # 0}
<1>1. \A T \in SUBSET S : IsFiniteSet(T) /\ Cardinality(T) \in Nat
  BY FS_Subset, FS_CardinalityType
<1>2. ASSUME Bad # {} PROVE FALSE
  <2>1. PICK k \in Bad : \A m \in Bad : k <= m
    BY <1>2, LeastOf
  <2>2. PICK T \in SUBSET S : Cardinality(T) = k /\ SumOver(f, T) # 0
    BY <2>1
  <2>3. PICK x \in T : TRUE
    BY <2>2, SumOfNone
  <2>4. Cardinality(T \ {x}) = Cardinality(T) - 1 /\ Cardinality(T \ {x}) \in Nat
    BY <1>1, FS_RemoveElement
  <2>5. k - 1 \in Nat /\ k - 1 \notin Bad
    BY <2>1, <2>2, <2>4
  <2>6. SumOver(f, T \ {x}) = 0
    BY <2>2, <2>4, <2>5
  <2>7. SumOver(f, T) = f[x] + SumOver(f, T \ {x})
    BY <1>1, SumTakesAny
  <2> QED
    BY <2>2, <2>6, <2>7
<1> QED
  BY <1>1, <1>2

(* What takes any one of its elements off like a sum does is the sum.          *)
LEMMA SumIsUnique ==
  ASSUME NEW f, NEW S, IsFiniteSet(S), \A x \in S : f[x] \in Int, NEW g, g[{}] = 0,
         \A T \in SUBSET S : T # {} => \E x \in T : g[T] = f[x] + g[T \ {x}]
  PROVE  g[S] = SumOver(f, S)
<1> DEFINE Bad == {k \in Nat : \E T \in SUBSET S : Cardinality(T) = k /\ g[T] # SumOver(f, T)}
<1>1. \A T \in SUBSET S : IsFiniteSet(T) /\ Cardinality(T) \in Nat
  BY FS_Subset, FS_CardinalityType
<1>2. ASSUME Bad # {} PROVE FALSE
  <2>1. PICK k \in Bad : \A m \in Bad : k <= m
    BY <1>2, LeastOf
  <2>2. PICK T \in SUBSET S : Cardinality(T) = k /\ g[T] # SumOver(f, T)
    BY <2>1
  <2>3. PICK x \in T : g[T] = f[x] + g[T \ {x}]
    BY <2>2, SumOfNone
  <2>4. Cardinality(T \ {x}) = Cardinality(T) - 1 /\ Cardinality(T \ {x}) \in Nat
    BY <1>1, FS_RemoveElement
  <2>5. k - 1 \in Nat /\ k - 1 \notin Bad
    BY <2>1, <2>2, <2>4
  <2>6. g[T \ {x}] = SumOver(f, T \ {x})
    BY <2>2, <2>4, <2>5
  <2>7. SumOver(f, T) = f[x] + SumOver(f, T \ {x})
    BY <1>1, SumTakesAny
  <2> QED
    BY <2>2, <2>3, <2>6, <2>7
<1> QED
  BY <1>1, <1>2

(* The sum over two parts is the sum of their sums.                            *)
LEMMA SumOfParts ==
  ASSUME NEW f, NEW S, NEW A, IsFiniteSet(S), IsFiniteSet(A), S \cap A = {},
         \A x \in S \cup A : f[x] \in Int
  PROVE  SumOver(f, S \cup A) = SumOver(f, S) + SumOver(f, A)
<1> DEFINE g == [T \in SUBSET S |-> SumOver(f, T \cup A) - SumOver(f, A)]
<1>1. \A T \in SUBSET S : IsFiniteSet(T \cup A)
  BY FS_Subset, FS_Union
<1>2. \A T \in SUBSET S : SumOver(f, T \cup A) \in Int
  BY <1>1, SumTakesAny
<1>3. SumOver(f, A) \in Int
  BY SumTakesAny
<1>4. g[{}] = 0
  <2>1. {} \cup A = A /\ {} \in SUBSET S
    OBVIOUS
  <2> QED
    BY <1>3, <2>1
<1>5. ASSUME NEW T \in SUBSET S, T # {} PROVE \E x \in T : g[T] = f[x] + g[T \ {x}]
  <2>1. PICK x \in T : TRUE
    BY <1>5
  <2>2. (T \cup A) \ {x} = (T \ {x}) \cup A /\ x \in T \cup A
    OBVIOUS
  <2>3. SumOver(f, T \cup A) = f[x] + SumOver(f, (T \ {x}) \cup A)
    <3>1. \A y \in T \cup A : SumOver(f, T \cup A) = f[y] + SumOver(f, (T \cup A) \ {y})
      BY <1>1, SumTakesAny
    <3> QED
      BY <2>2, <3>1
  <2>4. f[x] \in Int /\ SumOver(f, (T \ {x}) \cup A) \in Int
    BY <1>2
  <2>5. g[T] = SumOver(f, T \cup A) - SumOver(f, A)
        /\ g[T \ {x}] = SumOver(f, (T \ {x}) \cup A) - SumOver(f, A)
    OBVIOUS
  <2> HIDE DEF g
  <2> QED
    BY <1>3, <2>3, <2>4, <2>5
<1>6. g[S] = SumOver(f, S)
  <2> HIDE DEF g
  <2> QED
    BY <1>4, <1>5, SumIsUnique
<1>7. SumOver(f, S \cup A) \in Int /\ g[S] = SumOver(f, S \cup A) - SumOver(f, A)
  BY <1>2
<1> QED
  BY <1>3, <1>6, <1>7

(* The sum of sums, term by term.                                              *)
LEMMA SumOfSums ==
  ASSUME NEW f, NEW h, NEW t, NEW S, IsFiniteSet(S),
         \A x \in S : f[x] \in Int /\ h[x] \in Int /\ t[x] = f[x] + h[x]
  PROVE  SumOver(t, S) = SumOver(f, S) + SumOver(h, S)
<1> DEFINE g == [T \in SUBSET S |-> SumOver(f, T) + SumOver(h, T)]
<1>1. \A T \in SUBSET S : IsFiniteSet(T)
  BY FS_Subset
<1>2. \A T \in SUBSET S : SumOver(f, T) \in Int /\ SumOver(h, T) \in Int
  BY <1>1, SumTakesAny
<1>3. g[{}] = 0
  BY SumOfNone
<1>4. ASSUME NEW T \in SUBSET S, T # {} PROVE \E x \in T : g[T] = t[x] + g[T \ {x}]
  <2>1. PICK x \in T : TRUE
    BY <1>4
  <2>2. SumOver(f, T) = f[x] + SumOver(f, T \ {x}) /\ SumOver(h, T) = h[x] + SumOver(h, T \ {x})
    BY <1>1, SumTakesAny
  <2>3. /\ f[x] \in Int /\ h[x] \in Int /\ t[x] = f[x] + h[x]
        /\ SumOver(f, T \ {x}) \in Int /\ SumOver(h, T \ {x}) \in Int
    BY <1>2
  <2>4. g[T] = SumOver(f, T) + SumOver(h, T)
        /\ g[T \ {x}] = SumOver(f, T \ {x}) + SumOver(h, T \ {x})
    OBVIOUS
  <2> HIDE DEF g
  <2>5. PICK a \in Int, b \in Int, c \in Int, d \in Int :
          a = f[x] /\ b = h[x] /\ c = SumOver(f, T \ {x}) /\ d = SumOver(h, T \ {x})
    BY <2>3
  <2>6. g[T] = (a + c) + (b + d) /\ g[T \ {x}] = c + d /\ t[x] = a + b
    BY <2>2, <2>3, <2>4, <2>5
  <2>7. g[T] = t[x] + g[T \ {x}]
    BY <2>6
  <2> QED
    BY <2>7
<1>5. \A x \in S : t[x] \in Int
  OBVIOUS
<1>6. g[S] = SumOver(t, S)
  <2> HIDE DEF g
  <2> QED
    BY <1>3, <1>4, <1>5, SumIsUnique
<1> QED
  BY <1>6

(* A fold over a set has a value, one of A where its step stays in A.  The     *)
(* fold takes the elements in the order in which they are chosen.              *)
Folding(step, S, A) == step \in [S \X A -> A]
Folded(it, step, base, T) ==
  it[T] = IF T = {} THEN base ELSE step[<<First(T), it[T \ {First(T)}]>>]
Folds(it, step, base, S, A) ==
  it \in [SUBSET S -> A] /\ \A T \in SUBSET S : Folded(it, step, base, T)

LEMMA FoldExists ==
  ASSUME NEW S, IsFiniteSet(S), NEW A, NEW base \in A, NEW step, Folding(step, S, A)
  PROVE  \E it : Folds(it, step, base, S, A)
<1> USE DEF Folding, Folds
<1> DEFINE Solves(it, k) == /\ it \in [UpTo(S, k) -> A]
                            /\ \A T \in UpTo(S, k) : Folded(it, step, base, T)
           Bad == {k \in Nat : ~ \E it : Solves(it, k)}
<1>1. \A s \in SUBSET S : IsFiniteSet(s) /\ Cardinality(s) \in Nat /\ Cardinality(s) <= Cardinality(S)
  BY FS_Subset, FS_CardinalityType
<1>2. UpTo(S, Cardinality(S)) = SUBSET S
  BY <1>1 DEF UpTo
<1>3. ASSUME Bad # {} PROVE FALSE
  <2>1. PICK k \in Bad : \A m \in Bad : k <= m
    BY <1>3, LeastOf
  <2>2. k # 0
    <3> SUFFICES ASSUME k = 0 PROVE FALSE
      OBVIOUS
    <3>1. UpTo(S, 0) = {{}}
      BY <1>1, FS_EmptySet DEF UpTo
    <3> DEFINE it == [s \in {{}} |-> base]
    <3>2. it \in [{{}} -> A] /\ Folded(it, step, base, {})
      BY DEF Folded
    <3> HIDE DEF it
    <3>3. Solves(it, 0)
      BY <3>1, <3>2
    <3> QED
      BY <2>1, <3>3
  <2>3. k \in Nat /\ k - 1 \in Nat /\ k - 1 \notin Bad
    BY <2>1, <2>2
  <2>4. PICK it : Solves(it, k - 1)
    BY <2>3
  <2> DEFINE new == [s \in UpTo(S, k) |->
                       IF s = {} THEN base ELSE step[<<First(s), it[s \ {First(s)}]>>]]
  <2>5. ASSUME NEW s \in UpTo(S, k - 1) PROVE new[s] = it[s] /\ s \in UpTo(S, k)
    <3>1. s \in UpTo(S, k)
      BY <1>1, <2>3 DEF UpTo
    <3> QED
      BY <2>4, <3>1 DEF Folded
  <2>6. ASSUME NEW s \in UpTo(S, k), s # {}
        PROVE  First(s) \in S /\ s \ {First(s)} \in UpTo(S, k - 1)
    <3>1. First(s) \in s
      BY <2>6 DEF First
    <3>2. s \in SUBSET S /\ Cardinality(s) <= k
      BY DEF UpTo
    <3>3. Cardinality(s \ {First(s)}) = Cardinality(s) - 1
      BY <1>1, <3>1, <3>2, FS_RemoveElement
    <3> QED
      BY <1>1, <2>3, <3>1, <3>2, <3>3 DEF UpTo
  <2>7. ASSUME NEW s \in UpTo(S, k) PROVE new[s] \in A
    <3>1. CASE s = {}
      BY <3>1
    <3>2. CASE s # {}
      <4>1. First(s) \in S /\ it[s \ {First(s)}] \in A
        BY <2>4, <2>6, <3>2
      <4> QED
        BY <3>2, <4>1
    <3> QED
      BY <3>1, <3>2
  <2>8. ASSUME NEW s \in UpTo(S, k) PROVE Folded(new, step, base, s)
    <3>1. CASE s = {}
      BY <3>1 DEF Folded
    <3>2. CASE s # {}
      <4>1. new[s \ {First(s)}] = it[s \ {First(s)}]
        BY <2>5, <2>6, <3>2
      <4> HIDE DEF new
      <4>2. new[s] = step[<<First(s), it[s \ {First(s)}]>>]
        BY <3>2 DEF new
      <4> QED
        BY <3>2, <4>1, <4>2 DEF Folded
    <3> QED
      BY <3>1, <3>2
  <2>9. new \in [UpTo(S, k) -> A]
    BY <2>7
  <2>10. Solves(new, k)
    <3> HIDE DEF new
    <3> QED
      BY <2>8, <2>9
  <2> QED
    BY <2>1, <2>10
<1>4. Cardinality(S) \in Nat \ Bad
  BY <1>3, FS_CardinalityType
<1>5. PICK it : Solves(it, Cardinality(S))
  BY <1>4
<1> QED
  BY <1>2, <1>5

(* What every turn of a fold keeps, its value has.                             *)
LEMMA FoldStays ==
  ASSUME NEW S, IsFiniteSet(S), NEW A, NEW it, it[{}] \in A,
         \A T \in SUBSET S : T # {} /\ it[T \ {First(T)}] \in A => it[T] \in A
  PROVE  it[S] \in A
<1> DEFINE Bad == {k \in Nat : \E T \in SUBSET S : Cardinality(T) = k /\ it[T] \notin A}
<1>1. \A T \in SUBSET S : IsFiniteSet(T) /\ Cardinality(T) \in Nat
  BY FS_Subset, FS_CardinalityType
<1>2. ASSUME Bad # {} PROVE FALSE
  <2>1. PICK k \in Bad : \A m \in Bad : k <= m
    BY <1>2, LeastOf
  <2>2. PICK T \in SUBSET S : Cardinality(T) = k /\ it[T] \notin A
    BY <2>1
  <2>3. T # {} /\ First(T) \in T
    <3>1. T # {}
      BY <2>2
    <3> QED
      BY <3>1 DEF First
  <2>4. it[T \ {First(T)}] \notin A
    BY <2>2, <2>3
  <2>5. Cardinality(T \ {First(T)}) = Cardinality(T) - 1
    BY <1>1, <2>3, FS_RemoveElement
  <2>6. T \ {First(T)} \in SUBSET S /\ Cardinality(T \ {First(T)}) \in Nat
    BY <1>1
  <2>7. k - 1 \in Bad
    BY <2>2, <2>4, <2>5, <2>6
  <2> QED
    BY <2>1, <2>2, <2>7
<1> QED
  BY <1>1, <1>2

(* ------------------------------ walks down bills ---------------------------- *)

(* N items have V versions of a bill each: boms[i][v].lines[j] is how many of  *)
(* j go into one i.  A line is let in when nothing leads from its part back to *)
(* the item, over the lines of every version, which is a walk of N rounds.     *)
Takes(V, boms, i, j) == \E v \in 1..V : boms[i][v].lines[j] > 0
Beneath(N, V, boms, S) == {j \in 1..N : \E i \in S, v \in 1..V : boms[i][v].lines[j] > 0}
Reaching(N, V, boms, i, r) ==
  r = [n \in 0..N |-> IF n = 0 THEN Beneath(N, V, boms, {i})
                      ELSE r[n - 1] \cup Beneath(N, V, boms, r[n - 1])]
Down(N, V, boms, i) == (CHOOSE r : Reaching(N, V, boms, i, r))[N]
WalksDown(N, V, boms, i, r) ==
  /\ r \in [0..N -> SUBSET (1..N)]
  /\ Down(N, V, boms, i) = r[N]
  /\ r[0] = Beneath(N, V, boms, {i})
  /\ \A n \in 1..N : r[n] = r[n - 1] \cup Beneath(N, V, boms, r[n - 1])

LEMMA RangeIsFinite == ASSUME NEW n \in Nat PROVE IsFiniteSet(1..n) /\ Cardinality(1..n) = n
<1>1. 1 \in Int /\ n \in Int
  OBVIOUS
<1>2. IsFiniteSet(1..n) /\ Cardinality(1..n) = IF 1 > n THEN 0 ELSE n - 1 + 1
  BY <1>1, FS_Interval
<1> QED
  BY <1>2

(* The walk down from an item, by its rounds.                                  *)
LEMMA DownRuns ==
  ASSUME NEW N \in Nat, NEW V, NEW boms, NEW i
  PROVE  \E r : WalksDown(N, V, boms, i, r)
<1>1. PICK A : A = SUBSET (1..N)
  OBVIOUS
<1>2. PICK a : a = Beneath(N, V, boms, {i}) /\ a \in A
  BY <1>1 DEF Beneath
<1>3. PICK step : /\ Stepping(step, A, N)
                  /\ \A T \in A : \A n \in 1..N : step[<<T, n>>] = T \cup Beneath(N, V, boms, T)
  <2> DEFINE step == [p \in A \X (1..N) |-> p[1] \cup Beneath(N, V, boms, p[1])]
  <2>1. \A T \in A : T \cup Beneath(N, V, boms, T) \in A
    BY <1>1 DEF Beneath
  <2>2. Stepping(step, A, N)
    BY <2>1 DEF Stepping
  <2>3. \A T \in A : \A n \in 1..N : step[<<T, n>>] = T \cup Beneath(N, V, boms, T)
    OBVIOUS
  <2> HIDE DEF step
  <2> QED
    BY <2>2, <2>3
<1>4. PICK f : Iterates(f, step, A, a, N)
  BY <1>2, <1>3, IterationExists
<1>5. /\ f \in [0..N -> A] /\ f[0] = a
      /\ \A n \in 1..N : n - 1 \in 0..N
      /\ \A n \in 1..N : f[n] = step[<<f[n - 1], n>>]
  BY <1>4 DEF Iterates
<1>6. \A n \in 1..N : f[n] = f[n - 1] \cup Beneath(N, V, boms, f[n - 1])
  BY <1>3, <1>5
<1>7. Reaching(N, V, boms, i, f)
  <2>1. f = [n \in 0..N |-> f[n]]
    BY <1>5
  <2>2. \A n \in 0..N : f[n] = IF n = 0 THEN Beneath(N, V, boms, {i})
                               ELSE f[n - 1] \cup Beneath(N, V, boms, f[n - 1])
    BY <1>2, <1>5, <1>6
  <2> QED
    BY <2>1, <2>2 DEF Reaching
<1> DEFINE r == CHOOSE w : Reaching(N, V, boms, i, w)
<1>8. Reaching(N, V, boms, i, r)
  BY <1>7
<1> HIDE DEF r
<1>9. r = [n \in 0..N |-> IF n = 0 THEN Beneath(N, V, boms, {i})
                          ELSE r[n - 1] \cup Beneath(N, V, boms, r[n - 1])]
  BY <1>8 DEF Reaching
<1>10. /\ r[0] = a
       /\ \A n \in 1..N : r[n] = r[n - 1] \cup Beneath(N, V, boms, r[n - 1])
       /\ r = [n \in 0..N |-> r[n]]
  <2>1. \A n \in 0..N : r[n] = IF n = 0 THEN Beneath(N, V, boms, {i})
                               ELSE r[n - 1] \cup Beneath(N, V, boms, r[n - 1])
    BY <1>9
  <2>2. r = [n \in 0..N |-> r[n]]
    BY <1>9
  <2>3. 0 \in 0..N /\ \A n \in 1..N : n \in 0..N /\ n # 0
    OBVIOUS
  <2>4. r[0] = a
    BY <1>2, <2>1, <2>3
  <2>5. \A n \in 1..N : r[n] = r[n - 1] \cup Beneath(N, V, boms, r[n - 1])
    BY <2>1, <2>3
  <2> QED
    BY <2>2, <2>4, <2>5
<1>11. Iterates(r, step, A, a, N)
  <2>1. \A n \in 1..N : r[n - 1] \in A => r[n] = step[<<r[n - 1], n>>]
    BY <1>3, <1>10
  <2> QED
    BY <1>2, <1>3, <1>10, <2>1, IterationRuns
<1>12. r \in [0..N -> SUBSET (1..N)]
  BY <1>1, <1>11 DEF Iterates
<1>13. Down(N, V, boms, i) = r[N]
  BY DEF Down, r
<1>14. WalksDown(N, V, boms, i, r)
  BY <1>2, <1>10, <1>12, <1>13 DEF WalksDown
<1> QED
  BY <1>14

(* It goes all the way down.                                                   *)
LEMMA DownIsClosed ==
  ASSUME NEW N \in Nat, NEW V, NEW boms, NEW i
  PROVE  /\ Down(N, V, boms, i) \subseteq 1..N
         /\ \A j \in 1..N : Takes(V, boms, i, j) => j \in Down(N, V, boms, i)
         /\ \A k \in Down(N, V, boms, i) : \A j \in 1..N :
              Takes(V, boms, k, j) => j \in Down(N, V, boms, i)
<1>0. PICK r : WalksDown(N, V, boms, i, r)
  BY DownRuns
<1>1. /\ r \in [0..N -> SUBSET (1..N)]
      /\ Down(N, V, boms, i) = r[N]
      /\ r[0] = Beneath(N, V, boms, {i})
      /\ \A n \in 1..N : r[n] = r[n - 1] \cup Beneath(N, V, boms, r[n - 1])
  BY <1>0 DEF WalksDown
<1>2. PICK g \in [SUBSET (1..N) -> SUBSET (1..N)] :
        \A T \in SUBSET (1..N) : g[T] = T \cup Beneath(N, V, boms, T)
  <2> DEFINE g == [T \in SUBSET (1..N) |-> T \cup Beneath(N, V, boms, T)]
  <2>1. \A T \in SUBSET (1..N) : T \cup Beneath(N, V, boms, T) \in SUBSET (1..N)
    BY DEF Beneath
  <2>2. g \in [SUBSET (1..N) -> SUBSET (1..N)]
    BY <2>1
  <2> QED
    BY <2>2
<1>3. PICK S : S = 1..N /\ IsFiniteSet(S) /\ Cardinality(S) = N
  BY RangeIsFinite
<1>4. \A n \in 0..N : r[n] \in SUBSET (1..N)
  BY <1>1
<1>5. \A n \in 1..N : r[n] = g[r[n - 1]]
  <2>1. \A n \in 1..N : n - 1 \in 0..N
    OBVIOUS
  <2> QED
    BY <1>1, <1>2, <1>4, <2>1
<1>6. CASE r[0] # {}
  <2>1. r[0] \subseteq r[N] /\ g[r[N]] = r[N]
    <3>1. \A T \in SUBSET S : T \subseteq g[T]
      BY <1>2, <1>3
    <3>2. g \in [SUBSET S -> SUBSET S] /\ r \in [0..Cardinality(S) -> SUBSET S]
      BY <1>1, <1>2, <1>3
    <3>3. \A n \in 1..Cardinality(S) : r[n] = g[r[n - 1]]
      BY <1>3, <1>5
    <3>4. r[0] \subseteq r[Cardinality(S)] /\ g[r[Cardinality(S)]] = r[Cardinality(S)]
      BY <1>3, <1>6, <3>1, <3>2, <3>3, WalkCloses
    <3> QED
      BY <1>3, <3>4
  <2>2. r[N] \in SUBSET (1..N) /\ Beneath(N, V, boms, r[N]) \subseteq r[N]
    <3>1. r[N] \in SUBSET (1..N)
      BY <1>4
    <3>2. g[r[N]] = r[N] \cup Beneath(N, V, boms, r[N])
      BY <1>2, <3>1
    <3> QED
      BY <2>1, <3>1, <3>2
  <2>3. ASSUME NEW j \in 1..N, Takes(V, boms, i, j) PROVE j \in r[N]
    <3>1. j \in Beneath(N, V, boms, {i})
      BY <2>3 DEF Beneath, Takes
    <3> QED
      BY <1>1, <2>1, <3>1
  <2>4. ASSUME NEW k \in r[N], NEW j \in 1..N, Takes(V, boms, k, j) PROVE j \in r[N]
    <3>1. j \in Beneath(N, V, boms, r[N])
      BY <2>4 DEF Beneath, Takes
    <3> QED
      BY <2>2, <3>1
  <2> QED
    BY <1>1, <2>2, <2>3, <2>4
<1>7. CASE r[0] = {}
  <2> DEFINE Bad == {n \in 0..N : r[n] # {}}
  <2>1. ASSUME Bad # {} PROVE FALSE
    <3>1. Bad \in SUBSET Nat
      OBVIOUS
    <3>2. PICK n \in Bad : \A m \in Bad : n <= m
      <4> HIDE DEF Bad
      <4> QED
        BY <2>1, <3>1, LeastOf
    <3>3. n \in 1..N /\ n - 1 \in 0..N /\ n - 1 \notin Bad
      BY <1>7, <3>2
    <3>4. r[n - 1] = {}
      BY <3>3
    <3>5. r[n] = Beneath(N, V, boms, {})
      BY <1>1, <3>3, <3>4 DEF Beneath
    <3> QED
      BY <3>2, <3>5 DEF Beneath
  <2>2. r[N] = {}
    BY <2>1
  <2>3. ASSUME NEW j \in 1..N, Takes(V, boms, i, j) PROVE FALSE
    <3>1. j \in Beneath(N, V, boms, {i})
      BY <2>3 DEF Beneath, Takes
    <3> QED
      BY <1>1, <1>7, <3>1
  <2> QED
    BY <1>1, <2>2, <2>3
<1> QED
  BY <1>6, <1>7

(* It goes nowhere else.                                                       *)
LEMMA DownIsLeast ==
  ASSUME NEW N \in Nat, NEW V, NEW boms, NEW i, NEW Q,
         \A j \in 1..N : Takes(V, boms, i, j) => j \in Q,
         \A k \in Q : \A j \in 1..N : k \in 1..N /\ Takes(V, boms, k, j) => j \in Q
  PROVE  Down(N, V, boms, i) \subseteq Q
<1>0. PICK r : WalksDown(N, V, boms, i, r)
  BY DownRuns
<1>1. /\ r \in [0..N -> SUBSET (1..N)]
      /\ Down(N, V, boms, i) = r[N]
      /\ r[0] = Beneath(N, V, boms, {i})
      /\ \A n \in 1..N : r[n] = r[n - 1] \cup Beneath(N, V, boms, r[n - 1])
  BY <1>0 DEF WalksDown
<1> DEFINE Bad == {n \in 0..N : ~(r[n] \subseteq Q)}
<1>2. ASSUME Bad # {} PROVE FALSE
  <2>1. Bad \in SUBSET Nat
    OBVIOUS
  <2>2. PICK n \in Bad : \A m \in Bad : n <= m
    <3> HIDE DEF Bad
    <3> QED
      BY <1>2, <2>1, LeastOf
  <2>3. n # 0
    BY <1>1, <2>2 DEF Beneath, Takes
  <2>4. n \in 1..N /\ n - 1 \in 0..N /\ n - 1 \notin Bad
    BY <2>2, <2>3
  <2>5. r[n - 1] \subseteq Q /\ r[n - 1] \subseteq 1..N
    BY <1>1, <2>4
  <2>6. Beneath(N, V, boms, r[n - 1]) \subseteq Q
    BY <2>5 DEF Beneath, Takes
  <2> QED
    BY <1>1, <2>2, <2>4, <2>5, <2>6
<1> QED
  BY <1>1, <1>2

LEMMA DownGoesOn ==
  ASSUME NEW N \in Nat, NEW V, NEW boms, NEW i, NEW k \in Down(N, V, boms, i)
  PROVE  Down(N, V, boms, k) \subseteq Down(N, V, boms, i)
BY DownIsClosed, DownIsLeast

(* No item is made of itself: an item is above what it is made of.             *)
Acyclic(N, V, boms) == \A i \in 1..N : i \notin Down(N, V, boms, i)
Rank(N, V, boms, i) == Cardinality(Down(N, V, boms, i))

LEMMA RankFalls ==
  ASSUME NEW N \in Nat, NEW V, NEW boms, Acyclic(N, V, boms), NEW i \in 1..N
  PROVE  /\ Rank(N, V, boms, i) \in Nat /\ Rank(N, V, boms, i) < N
         /\ \A j \in 1..N : Takes(V, boms, i, j) => Rank(N, V, boms, j) < Rank(N, V, boms, i)
<1>1. \A j \in 1..N : /\ Down(N, V, boms, j) \subseteq 1..N /\ j \notin Down(N, V, boms, j)
                      /\ IsFiniteSet(Down(N, V, boms, j))
  <2>1. \A j \in 1..N : Down(N, V, boms, j) \subseteq 1..N /\ j \notin Down(N, V, boms, j)
    BY DownIsClosed DEF Acyclic
  <2> QED
    BY <2>1, RangeIsFinite, FS_Subset
<1>2. Cardinality(Down(N, V, boms, i)) \in Nat /\ Cardinality(Down(N, V, boms, i)) < N
  <2>1. PICK D : D = Down(N, V, boms, i) /\ IsFiniteSet(D) /\ D \subseteq 1..N /\ i \notin D
    BY <1>1
  <2>2. IsFiniteSet(D \cup {i}) /\ Cardinality(D \cup {i}) = Cardinality(D) + 1
    BY <2>1, FS_AddElement
  <2>3. D \cup {i} \subseteq 1..N
    BY <2>1
  <2>4. Cardinality(D \cup {i}) <= Cardinality(1..N)
    BY <2>3, RangeIsFinite, FS_Subset
  <2>5. Cardinality(D) \in Nat
    BY <2>1, FS_CardinalityType
  <2> QED
    BY <2>1, <2>2, <2>4, <2>5, RangeIsFinite
<1>3. ASSUME NEW j \in 1..N, Takes(V, boms, i, j)
      PROVE  Cardinality(Down(N, V, boms, j)) < Cardinality(Down(N, V, boms, i))
  <2>1. PICK D, E : /\ D = Down(N, V, boms, i) /\ E = Down(N, V, boms, j)
                    /\ IsFiniteSet(D) /\ IsFiniteSet(E) /\ j \notin E /\ j \in D /\ E \subseteq D
    BY <1>1, <1>3, DownIsClosed, DownGoesOn
  <2>2. IsFiniteSet(E \cup {j}) /\ Cardinality(E \cup {j}) = Cardinality(E) + 1
    BY <2>1, FS_AddElement
  <2>3. E \cup {j} \subseteq D
    BY <2>1
  <2>4. Cardinality(E \cup {j}) <= Cardinality(D)
    BY <2>1, <2>3, FS_Subset
  <2>5. Cardinality(E) \in Nat /\ Cardinality(D) \in Nat
    BY <2>1, FS_CardinalityType
  <2> QED
    BY <2>1, <2>2, <2>4, <2>5
<1> QED
  BY <1>2, <1>3 DEF Rank

(* A line that does not lead back keeps the bills acyclic, and lines that were *)
(* there already lead nowhere else.                                            *)
LEMMA LineKeepsAcyclic ==
  ASSUME NEW N \in Nat, NEW V, NEW boms, Acyclic(N, V, boms), NEW new, NEW i \in 1..N, NEW j \in 1..N,
         i # j, i \notin Down(N, V, boms, j),
         \A x \in 1..N : \A y \in 1..N :
           Takes(V, new, x, y) => Takes(V, boms, x, y) \/ (x = i /\ y = j)
  PROVE  Acyclic(N, V, new)
<1> SUFFICES ASSUME NEW x \in 1..N, x \in Down(N, V, new, x) PROVE FALSE
  BY DEF Acyclic
<1> DEFINE D(k) == Down(N, V, boms, k)
           Q == D(x) \cup {y \in {j} \cup D(j) : x = i \/ i \in D(x)}
<1>1. D(x) \subseteq 1..N /\ D(j) \subseteq 1..N
  BY DownIsClosed
<1>2. ASSUME NEW y \in 1..N, Takes(V, new, x, y) PROVE y \in Q
  <2>1. CASE Takes(V, boms, x, y)
    BY <2>1, DownIsClosed
  <2>2. CASE x = i /\ y = j
    BY <2>2
  <2> QED
    BY <1>2, <2>1, <2>2
<1>3. ASSUME NEW k \in Q, NEW y \in 1..N, k \in 1..N, Takes(V, new, k, y) PROVE y \in Q
  <2>1. CASE Takes(V, boms, k, y)
    <3>1. CASE k \in D(x)
      BY <2>1, <3>1, DownIsClosed
    <3>2. CASE k \in {j} \cup D(j) /\ (x = i \/ i \in D(x))
      <4>1. y \in D(j)
        BY <2>1, <3>2, DownIsClosed
      <4> QED
        BY <3>2, <4>1
    <3> QED
      BY <3>1, <3>2
  <2>2. CASE k = i /\ y = j
    <3>1. k \in D(x) \/ k \in {j} \cup D(j)
      OBVIOUS
    <3>2. k \in D(x)
      BY <2>2, <3>1
    <3> QED
      BY <2>2, <3>2
  <2> QED
    BY <1>3, <2>1, <2>2
<1>4. x \in Q
  <2> HIDE DEF Q
  <2>1. Down(N, V, new, x) \subseteq Q
    BY <1>2, <1>3, DownIsLeast
  <2> QED
    BY <2>1
<1>5. x \notin D(x)
  BY DEF Acyclic
<1>6. x \in {j} \cup D(j) /\ (x = i \/ i \in D(x))
  BY <1>4, <1>5
<1>7. D(x) \subseteq D(j)
  BY <1>6, DownGoesOn
<1> QED
  BY <1>6, <1>7

LEMMA OldLinesLeadDown ==
  ASSUME NEW N \in Nat, NEW V, NEW boms, NEW new, NEW i \in 1..N,
         \A x \in 1..N : \A y \in 1..N : Takes(V, new, x, y) => Takes(V, boms, x, y)
  PROVE  Down(N, V, new, i) \subseteq Down(N, V, boms, i)
<1>1. \A y \in 1..N : Takes(V, new, i, y) => y \in Down(N, V, boms, i)
  BY DownIsClosed
<1>2. \A k \in Down(N, V, boms, i) : \A y \in 1..N :
        k \in 1..N /\ Takes(V, new, k, y) => y \in Down(N, V, boms, i)
  BY DownIsClosed
<1> QED
  BY <1>1, <1>2, DownIsLeast

LEMMA HighestIsThere ==
  ASSUME NEW V \in Nat, NEW S \in SUBSET (1..V), S # {}
  PROVE  \E x \in S : \A y \in S : x >= y
<1> DEFINE Over == {m \in Nat : \A y \in S : y <= m}
<1>1. V \in Over
  OBVIOUS
<1>2. PICK m \in Over : \A n \in Over : m <= n
  <2>1. Over \in SUBSET Nat /\ Over # {}
    BY <1>1
  <2> HIDE DEF Over
  <2> QED
    BY <2>1, LeastOf
<1>3. m \in S
  <2> SUFFICES ASSUME m \notin S PROVE FALSE
    OBVIOUS
  <2>1. PICK y \in S : TRUE
    OBVIOUS
  <2>2. m - 1 \in Nat
    BY <1>2, <2>1
  <2>3. \A z \in S : z <= m - 1
    BY <1>2
  <2>4. m - 1 \in Over
    BY <2>2, <2>3
  <2> QED
    BY <1>2, <2>2, <2>4
<1> QED
  BY <1>2, <1>3

(* ------------------------------ the explosion ----------------------------- *)

(* rel[k] is the bill that a component k is exploded through, 0 where it has  *)
(* none, and lev[n] the units of each item at depth n.                        *)
Times(N, boms, rel, l, j) ==
  [k \in 1..N |-> IF rel[k] = 0 THEN 0 ELSE l[k] * boms[k][rel[k]].lines[j]]
OneDown(N, boms, rel, l) == [j \in 1..N |-> SumOver(Times(N, boms, rel, l, j), 1..N)]
ByDepth(N, boms, rel, top, lev) ==
  lev = [n \in 1..(N + 1) |-> IF n = 1 THEN top ELSE OneDown(N, boms, rel, lev[n - 1])]
Explodes(N, boms, rel, top) == CHOOSE lev : ByDepth(N, boms, rel, top, lev)

LinesIn(N, R) == \A row \in R : row.lines \in [1..N -> Nat]
OverIt(N, V, boms, l, j) == \E k \in 1..N : l[k] # 0 /\ Takes(V, boms, k, j)

LEMMA NatsMultiply == \A a, b \in Nat : a * b \in Nat /\ (a * b # 0 => a # 0 /\ b # 0)
OBVIOUS

LEMMA OneDownIsTyped ==
  ASSUME NEW N \in Nat, NEW V \in Nat, NEW R, LinesIn(N, R),
         NEW boms \in [1..N -> [1..V -> R]], NEW rel \in [1..N -> 0..V],
         NEW l \in [1..N -> Nat]
  PROVE  /\ OneDown(N, boms, rel, l) \in [1..N -> Nat]
         /\ \A j \in 1..N : OneDown(N, boms, rel, l)[j] # 0 => OverIt(N, V, boms, l, j)
<1>1. ASSUME NEW j \in 1..N, NEW k \in 1..N, rel[k] # 0
      PROVE  rel[k] \in 1..V /\ boms[k][rel[k]].lines[j] \in Nat
  <2>1. rel[k] \in 1..V
    BY <1>1
  <2>2. boms[k][rel[k]] \in R
    BY <2>1
  <2>3. boms[k][rel[k]].lines \in [1..N -> Nat]
    BY <2>2 DEF LinesIn
  <2>4. boms[k][rel[k]].lines[j] \in Nat
    BY <2>3
  <2> QED
    BY <2>1, <2>4
<1>2. ASSUME NEW j \in 1..N, NEW k \in 1..N PROVE Times(N, boms, rel, l, j)[k] \in Nat
  <2>1. CASE rel[k] = 0
    BY <2>1 DEF Times
  <2>2. CASE rel[k] # 0
    <3>1. l[k] \in Nat /\ boms[k][rel[k]].lines[j] \in Nat
      BY <1>1, <2>2
    <3>2. l[k] * boms[k][rel[k]].lines[j] \in Nat
      BY <3>1, NatsMultiply
    <3> QED
      BY <2>2, <3>2 DEF Times
  <2> QED
    BY <2>1, <2>2
<1>3. ASSUME NEW j \in 1..N
      PROVE  /\ OneDown(N, boms, rel, l)[j] = SumOver(Times(N, boms, rel, l, j), 1..N)
             /\ OneDown(N, boms, rel, l)[j] \in Nat
  <2>1. PICK f : f = Times(N, boms, rel, l, j)
    OBVIOUS
  <2>2. \A k \in 1..N : f[k] \in Nat
    BY <1>2, <2>1
  <2>3. SumOver(f, 1..N) \in Nat
    BY <2>2, RangeIsFinite, SumOfNats
  <2>4. OneDown(N, boms, rel, l)[j] = SumOver(Times(N, boms, rel, l, j), 1..N)
    BY DEF OneDown
  <2> QED
    BY <2>1, <2>3, <2>4
<1>4. OneDown(N, boms, rel, l) \in [1..N -> Nat]
  <2>1. PICK g : g = OneDown(N, boms, rel, l)
    OBVIOUS
  <2>2. g = [j \in 1..N |-> g[j]]
    BY <2>1 DEF OneDown
  <2>3. \A j \in 1..N : g[j] \in Nat
    BY <1>3, <2>1
  <2> QED
    BY <2>1, <2>2, <2>3
<1>5. ASSUME NEW j \in 1..N, OneDown(N, boms, rel, l)[j] # 0
      PROVE  OverIt(N, V, boms, l, j)
  <2>1. PICK f : f = Times(N, boms, rel, l, j)
    OBVIOUS
  <2>2. PICK k \in 1..N : f[k] # 0
    BY <1>3, <1>5, <2>1, RangeIsFinite, SumOfZeros
  <2>3. rel[k] # 0 /\ l[k] * boms[k][rel[k]].lines[j] # 0
    BY <2>1, <2>2 DEF Times
  <2>4. l[k] \in Nat /\ boms[k][rel[k]].lines[j] \in Nat /\ rel[k] \in 1..V
    BY <1>1, <2>3
  <2>5. l[k] # 0 /\ boms[k][rel[k]].lines[j] # 0
    BY <2>3, <2>4, NatsMultiply
  <2>6. boms[k][rel[k]].lines[j] > 0
    BY <2>4, <2>5
  <2>7. Takes(V, boms, k, j)
    BY <2>4, <2>6 DEF Takes
  <2> QED
    BY <2>5, <2>7 DEF OverIt
<1> QED
  BY <1>4, <1>5

LEMMA DepthsExist ==
  ASSUME NEW N \in Nat, NEW V \in Nat, NEW R, LinesIn(N, R),
         NEW boms \in [1..N -> [1..V -> R]], NEW rel \in [1..N -> 0..V],
         NEW top \in [1..N -> Nat]
  PROVE  ByDepth(N, boms, rel, top, Explodes(N, boms, rel, top))
<1>1. PICK A : A = [1..N -> Nat]
  OBVIOUS
<1>2. PICK step : /\ Stepping(step, A, N)
                  /\ \A l \in A : \A n \in 1..N : step[<<l, n>>] = OneDown(N, boms, rel, l)
  <2> DEFINE step == [p \in A \X (1..N) |-> OneDown(N, boms, rel, p[1])]
  <2>1. \A l \in A : OneDown(N, boms, rel, l) \in A
    BY <1>1, OneDownIsTyped
  <2>2. Stepping(step, A, N)
    BY <2>1 DEF Stepping
  <2>3. \A l \in A : \A n \in 1..N : step[<<l, n>>] = OneDown(N, boms, rel, l)
    OBVIOUS
  <2> HIDE DEF step
  <2> QED
    BY <2>2, <2>3
<1>3. PICK f : Iterates(f, step, A, top, N)
  BY <1>1, <1>2, IterationExists
<1>4. /\ f \in [0..N -> A] /\ f[0] = top
      /\ \A n \in 1..N : f[n] = step[<<f[n - 1], n>>]
  BY <1>3 DEF Iterates
<1>5. \A n \in 1..N : f[n] = OneDown(N, boms, rel, f[n - 1])
  <2>1. \A n \in 1..N : n - 1 \in 0..N
    OBVIOUS
  <2> QED
    BY <1>2, <1>4, <2>1
<1> DEFINE lev == [n \in 1..(N + 1) |-> f[n - 1]]
<1>6. \A n \in 1..(N + 1) : lev[n] = IF n = 1 THEN top ELSE OneDown(N, boms, rel, lev[n - 1])
  <2> SUFFICES ASSUME NEW n \in 1..(N + 1)
               PROVE  lev[n] = IF n = 1 THEN top ELSE OneDown(N, boms, rel, lev[n - 1])
    OBVIOUS
  <2>1. CASE n = 1
    <3>1. lev[n] = f[0]
      BY <2>1
    <3> QED
      BY <1>4, <2>1, <3>1
  <2>2. CASE n # 1
    <3>1. n - 1 \in 1..N /\ n - 1 \in 1..(N + 1)
      BY <2>2
    <3>2. lev[n] = f[n - 1] /\ lev[n - 1] = f[(n - 1) - 1]
      BY <3>1
    <3> QED
      BY <1>5, <2>2, <3>1, <3>2
  <2> QED
    BY <2>1, <2>2
<1>7. lev = [n \in 1..(N + 1) |-> lev[n]]
  OBVIOUS
<1> HIDE DEF lev
<1>8. ByDepth(N, boms, rel, top, lev)
  BY <1>6, <1>7 DEF ByDepth
<1> QED
  BY <1>8 DEF Explodes

Explodable(N, V, R, boms, rel, top, i) ==
  /\ LinesIn(N, R)
  /\ boms \in [1..N -> [1..V -> R]] /\ rel \in [1..N -> 0..V]
  /\ top \in [1..N -> Nat] /\ Acyclic(N, V, boms)
  /\ \A j \in 1..N : top[j] # 0 => Takes(V, boms, i, j)
Ends(N, lev) ==
  /\ \A n \in 1..(N + 1) : lev[n] \in [1..N -> Nat]
  /\ lev[N + 1] = [j \in 1..N |-> 0]

(* What is at a depth ranks that much lower than the item at the top: as deep *)
(* as there are items, nothing is left.                                       *)
LEMMA ExplosionEnds ==
  ASSUME NEW N \in Nat, NEW V \in Nat, NEW R, NEW boms, NEW rel, NEW top, NEW i \in 1..N,
         Explodable(N, V, R, boms, rel, top, i)
  PROVE  Ends(N, Explodes(N, boms, rel, top))
<1>0. /\ LinesIn(N, R) /\ boms \in [1..N -> [1..V -> R]] /\ rel \in [1..N -> 0..V]
      /\ top \in [1..N -> Nat] /\ Acyclic(N, V, boms)
      /\ \A j \in 1..N : top[j] # 0 => Takes(V, boms, i, j)
  BY DEF Explodable
<1>1. PICK lev : lev = Explodes(N, boms, rel, top)
  OBVIOUS
<1>2. /\ lev[1] = top
      /\ \A n \in 2..(N + 1) : lev[n] = OneDown(N, boms, rel, lev[n - 1])
  <2>0. ByDepth(N, boms, rel, top, lev)
    BY <1>0, <1>1, DepthsExist
  <2>1. lev = [n \in 1..(N + 1) |-> IF n = 1 THEN top ELSE OneDown(N, boms, rel, lev[n - 1])]
    BY <2>0 DEF ByDepth
  <2>2. 1 \in 1..(N + 1) /\ \A n \in 2..(N + 1) : n \in 1..(N + 1) /\ n # 1
    OBVIOUS
  <2>3. lev[1] = top
    BY <2>1, <2>2
  <2>4. \A n \in 2..(N + 1) : lev[n] = OneDown(N, boms, rel, lev[n - 1])
    BY <2>1, <2>2
  <2> QED
    BY <2>3, <2>4
<1>3. PICK rank \in [1..N -> Nat] : \A j \in 1..N : rank[j] = Rank(N, V, boms, j)
  <2> DEFINE rank == [j \in 1..N |-> Rank(N, V, boms, j)]
  <2>1. \A j \in 1..N : Rank(N, V, boms, j) \in Nat
    BY <1>0, RankFalls
  <2>2. rank \in [1..N -> Nat] /\ \A j \in 1..N : rank[j] = Rank(N, V, boms, j)
    BY <2>1
  <2> HIDE DEF rank
  <2> QED
    BY <2>2
<1>4. /\ \A j \in 1..N : rank[j] \in Nat
      /\ rank[i] < N
      /\ \A k \in 1..N : \A j \in 1..N : Takes(V, boms, k, j) => rank[j] < rank[k]
  BY <1>0, <1>3, RankFalls
<1> DEFINE Fits(n) == /\ lev[n] \in [1..N -> Nat]
                      /\ \A j \in 1..N : lev[n][j] # 0 => rank[j] + n <= rank[i]
           Bad == {n \in 1..(N + 1) : ~Fits(n)}
<1>5. Fits(1)
  BY <1>0, <1>2, <1>4
<1>6. ASSUME NEW n \in 2..(N + 1), Fits(n - 1) PROVE Fits(n)
  <2>1. PICK l \in [1..N -> Nat] : l = lev[n - 1]
    BY <1>6
  <2>2. lev[n] = OneDown(N, boms, rel, l)
    BY <1>2, <2>1
  <2>3. /\ lev[n] \in [1..N -> Nat]
        /\ \A j \in 1..N : lev[n][j] # 0 => OverIt(N, V, boms, l, j)
    <3>1. PICK d : d = OneDown(N, boms, rel, l)
      OBVIOUS
    <3>2. d \in [1..N -> Nat]
      BY <1>0, <3>1, OneDownIsTyped
    <3>3. \A j \in 1..N : d[j] # 0 => OverIt(N, V, boms, l, j)
      BY <1>0, <3>1, OneDownIsTyped
    <3> QED
      BY <2>2, <3>1, <3>2, <3>3
  <2>4. ASSUME NEW j \in 1..N, lev[n][j] # 0 PROVE rank[j] + n <= rank[i]
    <3>1. PICK k \in 1..N : l[k] # 0 /\ Takes(V, boms, k, j)
      BY <2>3, <2>4 DEF OverIt
    <3>2. rank[k] + (n - 1) <= rank[i] /\ rank[j] < rank[k]
      BY <1>4, <1>6, <2>1, <3>1
    <3>3. rank[k] \in Nat /\ rank[j] \in Nat /\ rank[i] \in Nat
      BY <1>4
    <3>4. \A a, b, c \in Nat : \A m \in Int : b + (m - 1) <= c /\ a < b => a + m <= c
      OBVIOUS
    <3>5. n \in Int
      OBVIOUS
    <3> HIDE DEF Fits, Bad
    <3> QED
      BY <3>2, <3>3, <3>4, <3>5
  <2> QED
    BY <2>3, <2>4
<1> HIDE DEF Fits
<1>7. ASSUME Bad # {} PROVE FALSE
  <2>1. Bad \in SUBSET Nat
    OBVIOUS
  <2>2. PICK n \in Bad : \A m \in Bad : n <= m
    <3> HIDE DEF Bad
    <3> QED
      BY <1>7, <2>1, LeastOf
  <2>3. n # 1
    BY <1>5, <2>2
  <2>4. n \in 2..(N + 1) /\ n - 1 \in 1..(N + 1) /\ n - 1 \notin Bad
    BY <2>2, <2>3
  <2>5. Fits(n - 1)
    BY <2>4
  <2> QED
    BY <1>6, <2>2, <2>4, <2>5
<1>8. \A n \in 1..(N + 1) : Fits(n)
  BY <1>7
<1>9. N + 1 \in 1..(N + 1)
  OBVIOUS
<1>10. /\ lev[N + 1] \in [1..N -> Nat]
       /\ \A j \in 1..N : lev[N + 1][j] # 0 => rank[j] + (N + 1) <= rank[i]
  BY <1>8, <1>9 DEF Fits
<1>11. \A j \in 1..N : lev[N + 1][j] = 0
  <2> SUFFICES ASSUME NEW j \in 1..N, lev[N + 1][j] # 0 PROVE FALSE
    OBVIOUS
  <2>1. rank[j] + (N + 1) <= rank[i] /\ rank[j] \in Nat /\ rank[i] \in Nat /\ rank[i] < N
    BY <1>4, <1>10
  <2> QED
    BY <2>1
<1>12. lev[N + 1] = [j \in 1..N |-> 0]
  BY <1>10, <1>11
<1> QED
  BY <1>1, <1>8, <1>12 DEF Fits, Ends

==============================================================================
