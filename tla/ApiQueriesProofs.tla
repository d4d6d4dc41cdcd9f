---------------------------- MODULE ApiQueriesProofs ----------------------------
(***************************************************************************)
(* What the templates of TypeList compute for every list, how a string is  *)
(* split, and which APIs a query finds, for any modules, APIs and literals.*)
(***************************************************************************)
EXTENDS ApiQueries, FiniteSetTheorems, SequenceTheorems, WellFoundedInduction, TLAPS

-----------------------------------------------------------------------------
(* The least of a set of numbers *)

\* A well-founded relation has a minimal element in every set.
LEMMA MinimalElement ==
  ASSUME NEW R, IsWellFoundedOn(R, Nat), NEW T, T \subseteq Nat, T # {}
  PROVE  \E s \in T : \A t \in T : ~ (<<t, s>> \in R)
  BY WFMin, Zenon

\* A relation that puts the smaller number below the larger, and is well
\* founded, finds the least element of any set of numbers.
LEMMA LeastByRelation ==
  ASSUME NEW R, IsWellFoundedOn(R, Nat),
         \A t, s \in Nat : t < s => <<t, s>> \in R,
         NEW T, T \subseteq Nat, T # {}
  PROVE  \E s \in T : \A t \in T : s <= t
<1>1. \E s \in T : \A t \in T : ~ (<<t, s>> \in R)
  BY MinimalElement
<1>2. PICK s \in T : \A t \in T : ~ (<<t, s>> \in R)
  BY <1>1
<1>3. ASSUME NEW t \in T
      PROVE  s <= t
  <2>1. s \in Nat /\ t \in Nat
    BY <1>2
  <2>2. ~ (t < s)
    BY <2>1, <1>2, <1>3
  <2> QED BY <2>1, <2>2
<1> QED BY <1>2, <1>3

\* The relation is that of numbers themselves.
LEMMA LeastNumber ==
  ASSUME NEW T, T \subseteq Nat, T # {}
  PROVE  \E s \in T : \A t \in T : s <= t
<1>1. \A t, s \in Nat : t < s => <<t, s>> \in OpToRel(<, Nat)
  BY Zenon DEF OpToRel
<1> QED BY <1>1, NatLessThanWellFounded, LeastByRelation, ZenonT(30)

\* Induction on numbers, for a set of numbers instead of a predicate.
LEMMA InductiveSet ==
  ASSUME NEW T, 0 \in T, \A k \in Nat : k \in T => k + 1 \in T
  PROVE  Nat \subseteq T
<1> SUFFICES ASSUME Nat \ T # {}
             PROVE  FALSE
  OBVIOUS
<1>1. PICK k \in Nat \ T : \A l \in Nat \ T : k <= l
  BY LeastNumber
<1>2. k # 0 /\ k - 1 \in Nat
  BY <1>1
<1>3. k - 1 \in T
  BY <1>1, <1>2
<1>4. (k - 1) + 1 = k
  BY <1>2
<1> QED BY <1>1, <1>2, <1>3, <1>4

\* Induction up to a number.
LEMMA InductionUpTo ==
  ASSUME NEW N \in Nat, NEW T, 0 \in T, \A n \in 1..N : n - 1 \in T => n \in T
  PROVE  0..N \subseteq T
<1> DEFINE U == {n \in Nat : n <= N => n \in T}
<1>1. 0 \in U
  OBVIOUS
<1>2. ASSUME NEW k \in Nat, k \in U
      PROVE  k + 1 \in U
  <2>1. CASE k + 1 <= N
    <3>1. k + 1 \in 1..N /\ (k + 1) - 1 = k /\ k <= N
      BY <2>1
    <3>2. k + 1 \in T
      BY <1>2, <3>1
    <3> QED BY <3>2
  <2>2. CASE ~ (k + 1 <= N)
    BY <2>2
  <2> QED BY <2>1, <2>2
<1>3. Nat \subseteq U
  <2> HIDE DEF U
  <2> QED BY <1>1, <1>2, InductiveSet
<1> QED BY <1>3

\* Induction from behind a list to its start.
LEMMA InductionDownFrom ==
  ASSUME NEW N \in Nat, NEW T, N + 1 \in T, \A n \in 1..N : n + 1 \in T => n \in T
  PROVE  1..(N + 1) \subseteq T
<1> DEFINE U == {k \in 0..N : (N + 1) - k \in T}
<1>1. 0 \in U
  OBVIOUS
<1>2. ASSUME NEW k \in 1..N, k - 1 \in U
      PROVE  k \in U
  <2>1. /\ (N + 1) - k \in 1..N
        /\ ((N + 1) - k) + 1 = (N + 1) - (k - 1)
    OBVIOUS
  <2>2. (N + 1) - (k - 1) \in T
    BY <1>2
  <2> QED BY <2>1, <2>2
<1>3. 0..N \subseteq U
  <2> HIDE DEF U
  <2> QED BY <1>1, <1>2, InductionUpTo
<1>4. ASSUME NEW n \in 1..(N + 1)
      PROVE  n \in T
  <2>1. (N + 1) - n \in 0..N /\ (N + 1) - ((N + 1) - n) = n
    OBVIOUS
  <2>2. (N + 1) - n \in U
    BY <1>3, <2>1
  <2> QED BY <2>1, <2>2
<1> QED BY <1>4

-----------------------------------------------------------------------------
(* Recursion along a list *)

\* A function that starts with a value and goes on from what it has before.
GoesUp(f, N, a, G) == f = [n \in 0..N |-> IF n = 0 THEN a ELSE G[<<n, f[n - 1]>>]]

\* A function that is put together from behind the list.
GoesDown(f, N, a, G) == f = [n \in 1..(N + 1) |-> IF n > N THEN a ELSE G[<<n, f[n + 1]>>]]

\* There is such a function for every step.
LEMMA RecursionUpTo ==
  ASSUME NEW N \in Nat, NEW a, NEW G
  PROVE  \E f : GoesUp(f, N, a, G)
<1> DEFINE Solvable ==
      {k \in Nat : \E f : GoesUp(f, k, a, G)}
<1>1. 0 \in Solvable
  <2> DEFINE f == [n \in 0..0 |-> a]
  <2>1. f = [n \in 0..0 |-> IF n = 0 THEN a ELSE G[<<n, f[n - 1]>>]]
    OBVIOUS
  <2> HIDE DEF f
  <2> QED BY <2>1 DEF GoesUp
<1>2. ASSUME NEW k \in Nat, k \in Solvable
      PROVE  k + 1 \in Solvable
  <2>1. PICK f : f = [n \in 0..k |-> IF n = 0 THEN a ELSE G[<<n, f[n - 1]>>]]
    BY <1>2, Zenon DEF GoesUp
  <2> DEFINE g == [n \in 0..(k + 1) |-> IF n <= k THEN f[n] ELSE G[<<n, f[n - 1]>>]]
             h == [n \in 0..(k + 1) |-> IF n = 0 THEN a ELSE G[<<n, g[n - 1]>>]]
  <2>2. ASSUME NEW n \in 0..(k + 1)
        PROVE  g[n] = h[n]
    <3>1. CASE n = 0
      <4>1. f[0] = a
        BY <2>1
      <4> QED BY <3>1, <4>1
    <3>2. CASE n # 0
      <4>1. n - 1 \in 0..k /\ n - 1 <= k /\ n - 1 \in 0..(k + 1)
        BY <3>2
      <4>2. g[n - 1] = f[n - 1]
        BY <4>1
      <4>3. g[n] = G[<<n, f[n - 1]>>]
        BY <2>1, <3>2
      <4>4. h[n] = G[<<n, g[n - 1]>>]
        BY <3>2
      <4> QED BY <4>2, <4>3, <4>4
    <3> QED BY <3>1, <3>2
  <2>3. g = h
    BY <2>2
  <2>4. g = [n \in 0..(k + 1) |-> IF n = 0 THEN a ELSE G[<<n, g[n - 1]>>]]
    BY <2>3
  <2> HIDE DEF g
  <2>5. GoesUp(g, k + 1, a, G)
    BY <2>4, Zenon DEF GoesUp
  <2> QED BY <2>5
<1>3. Nat \subseteq Solvable
  <2> HIDE DEF Solvable
  <2> QED BY <1>1, <1>2, InductiveSet
<1>4. N \in Solvable
  <2> HIDE DEF Solvable
  <2> QED BY <1>3
<1> QED BY <1>4

\* The same, with all its values in a set.
LEMMA RecursionIn ==
  ASSUME NEW N \in Nat, NEW V, NEW a \in V, NEW G \in [(1..N) \X V -> V]
  PROVE  \E f \in [0..N -> V] : GoesUp(f, N, a, G)
<1>0. PICK f : GoesUp(f, N, a, G)
  BY RecursionUpTo
<1>1. f = [n \in 0..N |-> IF n = 0 THEN a ELSE G[<<n, f[n - 1]>>]]
  BY <1>0, Zenon DEF GoesUp
<1> DEFINE T == {n \in 0..N : f[n] \in V}
<1>2. 0 \in T
  BY <1>1
<1>3. ASSUME NEW n \in 1..N, n - 1 \in T
      PROVE  n \in T
  <2>1. f[n] = G[<<n, f[n - 1]>>]
    BY <1>1
  <2>2. <<n, f[n - 1]>> \in (1..N) \X V
    BY <1>3
  <2>3. G[<<n, f[n - 1]>>] \in V
    BY <2>2
  <2> QED BY <2>1, <2>3
<1>4. 0..N \subseteq T
  <2> HIDE DEF T
  <2> QED BY <1>2, <1>3, InductionUpTo
<1>5. f \in [0..N -> V]
  BY <1>1, <1>4
<1> QED BY <1>0, <1>5

\* The same from behind.
LEMMA RecursionDownFrom ==
  ASSUME NEW N \in Nat, NEW V, NEW a \in V, NEW G \in [(1..N) \X V -> V]
  PROVE  \E f \in [1..(N + 1) -> V] : GoesDown(f, N, a, G)
<1> DEFINE H == [p \in (1..N) \X V |-> G[<<(N + 1) - p[1], p[2]>>]]
<1>1. H \in [(1..N) \X V -> V]
  <2>1. ASSUME NEW p \in (1..N) \X V
        PROVE  G[<<(N + 1) - p[1], p[2]>>] \in V
    <3>1. <<(N + 1) - p[1], p[2]>> \in (1..N) \X V
      OBVIOUS
    <3> QED BY <3>1
  <2> QED BY <2>1
<1>0. PICK g \in [0..N -> V] : GoesUp(g, N, a, H)
  <2> HIDE DEF H
  <2> QED BY <1>1, RecursionIn
<1>2. /\ g \in [0..N -> V]
      /\ g = [n \in 0..N |-> IF n = 0 THEN a ELSE H[<<n, g[n - 1]>>]]
  <2> HIDE DEF H
  <2> QED BY <1>0, Zenon DEF GoesUp
<1> DEFINE f == [n \in 1..(N + 1) |-> g[(N + 1) - n]]
<1>3. f \in [1..(N + 1) -> V]
  <2>1. \A n \in 1..(N + 1) : g[(N + 1) - n] \in V
    <3>1. \A n \in 1..(N + 1) : (N + 1) - n \in 0..N
      OBVIOUS
    <3> QED BY <1>2, <3>1, Zenon
  <2> QED BY <2>1
<1>4. ASSUME NEW n \in 1..(N + 1)
      PROVE  f[n] = IF n > N THEN a ELSE G[<<n, f[n + 1]>>]
  <2>1. CASE n > N
    <3>1. (N + 1) - n = 0
      BY <2>1
    <3> QED BY <1>2, <2>1, <3>1
  <2>2. CASE ~ (n > N)
    <3> DEFINE m == (N + 1) - n
    <3>1. m \in 1..N /\ m \in 0..N /\ m # 0 /\ m - 1 \in 0..N
      BY <2>2
    <3>2. n + 1 \in 1..(N + 1) /\ (N + 1) - (n + 1) = m - 1 /\ (N + 1) - m = n
      BY <2>2
    <3>3. f[n] = g[m] /\ f[n + 1] = g[m - 1]
      BY <3>1, <3>2
    <3> HIDE DEF m, f
    <3>4. g[m] = H[<<m, g[m - 1]>>]
      BY <1>2, <3>1
    <3>5. <<m, g[m - 1]>> \in (1..N) \X V
      BY <1>2, <3>1
    <3>6. H[<<m, g[m - 1]>>] = G[<<n, g[m - 1]>>]
      BY <3>2, <3>5
    <3> QED BY <2>2, <3>3, <3>4, <3>6
  <2> QED BY <2>1, <2>2
<1>5. f = [n \in 1..(N + 1) |-> IF n > N THEN a ELSE G[<<n, f[n + 1]>>]]
  BY <1>3, <1>4
<1>6. GoesDown(f, N, a, G)
  <2> HIDE DEF f
  <2> QED BY <1>5, Zenon DEF GoesDown
<1> HIDE DEF f
<1> QED BY <1>3, <1>6

-----------------------------------------------------------------------------
(* indexOf, at and Lookup *)

\* What the templates make of the n-th type and those behind it.
IndexStep(f, L, x, n) ==
    IF n > Len(L) THEN -1
    ELSE IF x = L[n] THEN 0 ELSE IF f[n + 1] = -1 THEN -1 ELSE f[n + 1] + 1

\* indexOf is that recursion, which has a solution.
LEMMA IndexOfRecursion ==
  ASSUME NEW S, NEW L \in Seq(S), NEW x
  PROVE  \E f : /\ f = [n \in 1..(Len(L) + 1) |-> IndexStep(f, L, x, n)]
                /\ indexOf(L, x) = f[1]
<1> DEFINE N == Len(L)
           G == [p \in (1..N) \X Int |->
                   IF x = L[p[1]] THEN 0 ELSE IF p[2] = -1 THEN -1 ELSE p[2] + 1]
           from[n \in 1..(Len(L) + 1)] ==
             IF n > Len(L) THEN -1
             ELSE IF x = L[n] THEN 0
                  ELSE IF from[n + 1] = -1 THEN -1 ELSE from[n + 1] + 1
<1>1. indexOf(L, x) = from[1]
  BY Zenon DEF indexOf
<1>2. N \in Nat /\ G \in [(1..N) \X Int -> Int] /\ -1 \in Int
  OBVIOUS
<1>3. PICK f \in [1..(N + 1) -> Int] : GoesDown(f, N, -1, G)
  <2> HIDE DEF G, N
  <2> QED BY <1>2, RecursionDownFrom
<1>4. f = [n \in 1..(N + 1) |-> IF n > N THEN -1 ELSE G[<<n, f[n + 1]>>]]
  <2> HIDE DEF G, N
  <2> QED BY <1>3, Zenon DEF GoesDown
<1>5. ASSUME NEW n \in 1..(N + 1)
      PROVE  f[n] = IndexStep(f, L, x, n)
  <2>1. CASE n > N
    BY <1>4, <2>1 DEF IndexStep
  <2>2. CASE ~ (n > N)
    <3>1. <<n, f[n + 1]>> \in (1..N) \X Int
      BY <1>2, <1>3, <2>2
    <3>2. f[n] = G[<<n, f[n + 1]>>]
      BY <1>4, <2>2
    <3> QED BY <2>2, <3>1, <3>2 DEF IndexStep
  <2> QED BY <2>1, <2>2
<1>6. f = [n \in 1..(Len(L) + 1) |-> IndexStep(f, L, x, n)]
  BY <1>3, <1>5
<1>7. from = [n \in 1..(Len(L) + 1) |-> IndexStep(from, L, x, n)]
  <2>1. \E g : g = [n \in 1..(Len(L) + 1) |->
                      IF n > Len(L) THEN -1
                      ELSE IF x = L[n] THEN 0
                           ELSE IF g[n + 1] = -1 THEN -1 ELSE g[n + 1] + 1]
    BY <1>6, Zenon DEF IndexStep
  <2>2. from = [n \in 1..(Len(L) + 1) |->
                  IF n > Len(L) THEN -1
                  ELSE IF x = L[n] THEN 0
                       ELSE IF from[n + 1] = -1 THEN -1 ELSE from[n + 1] + 1]
    BY <2>1, Zenon
  <2> HIDE DEF from
  <2> QED BY <2>2, Zenon DEF IndexStep
<1> HIDE DEF from
<1> QED BY <1>1, <1>7

\* indexOf is the number of types before the first that is the same, or -1.
LEMMA IndexOfFacts ==
  ASSUME NEW S, NEW L \in Seq(S), NEW x
  PROVE  IF \E i \in 1..Len(L) : L[i] = x
         THEN /\ indexOf(L, x) \in 0..(Len(L) - 1)
              /\ L[indexOf(L, x) + 1] = x
              /\ \A i \in 1..indexOf(L, x) : L[i] # x
         ELSE indexOf(L, x) = -1
<1> DEFINE N == Len(L)
<1>1. PICK f : /\ f = [n \in 1..(Len(L) + 1) |-> IndexStep(f, L, x, n)]
               /\ indexOf(L, x) = f[1]
  BY IndexOfRecursion, Zenon
<1>2. N \in Nat
  OBVIOUS
<1> DEFINE Right(n) == IF \E i \in n..N : L[i] = x
                       THEN /\ f[n] \in 0..(N - n)
                            /\ L[n + f[n]] = x
                            /\ \A i \in n..(n + f[n] - 1) : L[i] # x
                       ELSE f[n] = -1
           T == {n \in 1..(N + 1) : Right(n)}
<1>3. N + 1 \in T
  <2>1. f[N + 1] = -1
    BY <1>1, <1>2 DEF IndexStep
  <2>2. ~ \E i \in (N + 1)..N : L[i] = x
    BY <1>2
  <2> QED BY <1>2, <2>1, <2>2
<1>4. ASSUME NEW n \in 1..N, n + 1 \in T
      PROVE  n \in T
  <2>1. f[n] = IF x = L[n] THEN 0 ELSE IF f[n + 1] = -1 THEN -1 ELSE f[n + 1] + 1
    BY <1>1, <1>2 DEF IndexStep
  <2>2. Right(n + 1) /\ n \in Nat /\ n + 1 \in Nat
    BY <1>4
  <2>3. CASE x = L[n]
    <3>1. f[n] = 0 /\ n + f[n] = n /\ n + f[n] - 1 = n - 1
      BY <2>1, <2>2, <2>3
    <3>2. n \in n..N /\ 0 \in 0..(N - n) /\ \A i \in n..(n - 1) : FALSE
      BY <1>2, <2>2
    <3> QED BY <2>3, <3>1, <3>2
  <2>4. CASE x # L[n] /\ \E i \in (n + 1)..N : L[i] = x
    <3>1. /\ f[n + 1] \in 0..(N - (n + 1)) /\ L[(n + 1) + f[n + 1]] = x
          /\ \A i \in (n + 1)..((n + 1) + f[n + 1] - 1) : L[i] # x
      BY <2>2, <2>4
    <3>2. f[n] = f[n + 1] + 1
      BY <2>1, <2>4, <3>1
    <3>3. f[n] \in 0..(N - n) /\ n + f[n] = (n + 1) + f[n + 1]
      <4>1. \A k \in 0..(N - (n + 1)) :
               k + 1 \in 0..(N - n) /\ n + (k + 1) = (n + 1) + k
        BY <1>2, <2>2
      <4> HIDE DEF N
      <4> QED BY <3>1, <3>2, <4>1
    <3>4. ASSUME NEW i \in n..(n + f[n] - 1)
          PROVE  L[i] # x
      <4>1. CASE i = n
        BY <2>4, <4>1
      <4>2. CASE i # n
        <5>1. i \in (n + 1)..((n + 1) + f[n + 1] - 1)
          BY <2>2, <3>1, <3>2, <4>2
        <5> QED BY <3>1, <5>1
      <4> QED BY <4>1, <4>2
    <3>5. \E i \in n..N : L[i] = x
      <4>1. PICK i \in (n + 1)..N : L[i] = x
        BY <2>4
      <4>2. i \in n..N
        BY <1>2, <4>1
      <4> QED BY <4>1, <4>2
    <3>6. L[n + f[n]] = x
      BY <3>1, <3>3
    <3> HIDE DEF N
    <3> QED BY <3>3, <3>4, <3>5, <3>6, <1>2
  <2>5. CASE x # L[n] /\ ~ \E i \in (n + 1)..N : L[i] = x
    <3>1. f[n] = -1
      BY <2>1, <2>2, <2>5
    <3>2. ASSUME NEW i \in n..N
          PROVE  L[i] # x
      <4>1. i = n \/ i \in (n + 1)..N
        BY <1>2
      <4> QED BY <2>5, <4>1
    <3> QED BY <3>1, <3>2
  <2> QED BY <2>3, <2>4, <2>5
<1>5. 1..(N + 1) \subseteq T
  <2> HIDE DEF T, N
  <2> QED BY <1>2, <1>3, <1>4, InductionDownFrom
<1>6. Right(1)
  <2>1. 1 \in 1..(N + 1)
    BY <1>2
  <2> QED BY <1>5, <2>1
<1>7. \A k \in Int : 1 + k = k + 1 /\ (1 + k) - 1 = k
  OBVIOUS
<1>8. CASE \E i \in 1..Len(L) : L[i] = x
  <2>1. /\ f[1] \in 0..(N - 1) /\ L[1 + f[1]] = x
        /\ \A i \in 1..(1 + f[1] - 1) : L[i] # x
    BY <1>6, <1>8
  <2>2. 1 + f[1] = f[1] + 1 /\ (1 + f[1]) - 1 = f[1]
    BY <1>7, <2>1
  <2>3. /\ indexOf(L, x) \in 0..(Len(L) - 1) /\ L[indexOf(L, x) + 1] = x
        /\ \A i \in 1..indexOf(L, x) : L[i] # x
    <3>1. indexOf(L, x) = f[1]
      BY <1>1
    <3> QED BY <2>1, <2>2, <3>1
  <2> QED BY <1>8, <2>3, Zenon
<1>9. CASE ~ \E i \in 1..Len(L) : L[i] = x
  BY <1>1, <1>6, <1>9
<1> QED BY <1>8, <1>9

\* A map is searched for the first pair with the key; without one the default
\* is found.
LEMMA LookupFacts ==
  ASSUME NEW S, NEW M \in Seq(S), NEW K, NEW D
  PROVE  /\ Contains(M, K) <=> \E i \in 1..Len(M) : Head(M[i]) = K
         /\ \A i \in 1..Len(M) :
              /\ Head(M[i]) = K
              /\ \A j \in 1..(i - 1) : Head(M[j]) # K
              => Lookup(M, K, D) = M[i][2]
         /\ ~ Contains(M, K) => Lookup(M, K, D) = D
<1> DEFINE keys == [i \in DOMAIN M |-> Head(M[i])]
           values == [i \in DOMAIN M |-> M[i][2]]
           H == {Head(M[i]) : i \in DOMAIN M}
           k == indexOf(keys, K)
<1>1. Keys(M) = keys /\ Values(M) = values
  BY DEF Keys, Values, transform
<1>2. DOMAIN M = 1..Len(M) /\ Len(M) \in Nat
  OBVIOUS
<1>3. keys \in Seq(H) /\ Len(keys) = Len(M) /\ Len(values) = Len(M)
  BY <1>2, SMTT(30)
<1>4. \A i \in 1..Len(M) : keys[i] = Head(M[i]) /\ values[i] = M[i][2]
  BY <1>2
<1> HIDE DEF keys, values, H
<1>5. IF \E i \in 1..Len(keys) : keys[i] = K
      THEN /\ k \in 0..(Len(keys) - 1)
           /\ keys[k + 1] = K
           /\ \A i \in 1..k : keys[i] # K
      ELSE k = -1
  BY <1>3, IndexOfFacts
<1>6. Contains(M, K) <=> k # -1
  BY <1>1 DEF Contains, contains
<1>7. CASE \E i \in 1..Len(M) : keys[i] = K
  <2>1. k \in 0..(Len(M) - 1) /\ keys[k + 1] = K /\ \A i \in 1..k : keys[i] # K
    BY <1>3, <1>5, <1>7
  <2>2. k # -1 /\ k + 1 \in 1..Len(M)
    BY <1>2, <2>1
  <2>3. Lookup(M, K, D) = values[k + 1]
    BY <1>1, <1>3, <1>6, <2>1, <2>2 DEF Lookup, at
  <2>4. ASSUME NEW i \in 1..Len(M), Head(M[i]) = K,
               \A j \in 1..(i - 1) : Head(M[j]) # K
        PROVE  i = k + 1
    <3>1. ~ (i <= k)
      <4>1. i <= k => i \in 1..k
        BY <2>1
      <4> QED BY <1>4, <2>1, <2>4, <4>1
    <3>2. ~ (k + 1 <= i - 1)
      <4>1. k + 1 <= i - 1 => k + 1 \in 1..(i - 1)
        BY <2>1
      <4>2. Head(M[k + 1]) = K
        BY <1>4, <2>1, <2>2
      <4> QED BY <2>4, <4>1, <4>2
    <3> QED BY <2>1, <3>1, <3>2
  <2> QED BY <1>4, <1>6, <1>7, <2>2, <2>3, <2>4
<1>8. CASE ~ \E i \in 1..Len(M) : keys[i] = K
  <2>1. ~ Contains(M, K)
    BY <1>3, <1>5, <1>6, <1>8
  <2>2. Lookup(M, K, D) = D
    BY <2>1 DEF Lookup
  <2> QED BY <1>4, <1>8, <2>1, <2>2
<1> QED BY <1>7, <1>8

-----------------------------------------------------------------------------
(* Lists that grow *)

\* What append does to a list.
LEMMA AppendFacts ==
  ASSUME NEW S, NEW L \in Seq(S), NEW x \in S
  PROVE  /\ append(L, x) \in Seq(S)
         /\ Len(append(L, x)) = Len(L) + 1
         /\ \A i \in 1..Len(L) : append(L, x)[i] = L[i]
         /\ append(L, x)[Len(L) + 1] = x
  BY DEF append, concat

\* What stands before a list moves it by one.
LEMMA PrependFacts ==
  ASSUME NEW S, NEW L \in Seq(S), NEW x \in S
  PROVE  /\ concat(<<x>>, L) \in Seq(S)
         /\ Len(concat(<<x>>, L)) = Len(L) + 1
         /\ concat(<<x>>, L)[1] = x
         /\ \A i \in 1..Len(L) : concat(<<x>>, L)[i + 1] = L[i]
  BY DEF concat

\* A list up to its n-th type, from the one before.
LEMMA UpToNext ==
  ASSUME NEW S, NEW L \in Seq(S), NEW n \in 1..Len(L)
  PROVE  append(SubSeq(L, 1, n - 1), L[n]) = SubSeq(L, 1, n)
<1> DEFINE A == SubSeq(L, 1, n - 1)
           B == SubSeq(L, 1, n)
<1>1. A \in Seq(S) /\ Len(A) = n - 1 /\ \A i \in 1..(n - 1) : A[i] = L[i]
  OBVIOUS
<1>2. B \in Seq(S) /\ Len(B) = n /\ \A i \in 1..n : B[i] = L[i]
  OBVIOUS
<1>3. L[n] \in S
  OBVIOUS
<1> HIDE DEF A, B
<1>4. /\ append(A, L[n]) \in Seq(S) /\ Len(append(A, L[n])) = n
      /\ \A i \in 1..(n - 1) : append(A, L[n])[i] = A[i]
      /\ append(A, L[n])[n] = L[n]
  <2>1. /\ append(A, L[n]) \in Seq(S) /\ Len(append(A, L[n])) = Len(A) + 1
        /\ \A i \in 1..Len(A) : append(A, L[n])[i] = A[i]
        /\ append(A, L[n])[Len(A) + 1] = L[n]
    <3> DEFINE x == L[n]
    <3>1. A \in Seq(S) /\ x \in S
      BY <1>1, <1>3
    <3> HIDE DEF x
    <3>2. /\ append(A, x) \in Seq(S) /\ Len(append(A, x)) = Len(A) + 1
          /\ \A i \in 1..Len(A) : append(A, x)[i] = A[i]
          /\ append(A, x)[Len(A) + 1] = x
      BY <3>1 DEF append, concat
    <3> QED BY <3>2 DEF x
  <2>2. Len(A) + 1 = n
    BY <1>1
  <2> QED BY <1>1, <2>1, <2>2
<1>5. ASSUME NEW i \in 1..n
      PROVE  append(A, L[n])[i] = B[i]
  <2>1. CASE i = n
    BY <1>2, <1>4, <2>1
  <2>2. CASE i # n
    <3>1. i \in 1..(n - 1)
      BY <2>2
    <3> QED BY <1>1, <1>2, <1>4, <3>1
  <2> QED BY <2>1, <2>2
<1>6. append(A, L[n]) = B
  BY <1>2, <1>4, <1>5
<1> QED BY <1>6 DEF A, B

-----------------------------------------------------------------------------
(* removeAt *)

\* What is left of the index is the list up to it.
LEMMA RemoveAtFacts ==
  ASSUME NEW S, NEW L \in Seq(S), NEW k \in 0..(Len(L) - 1)
  PROVE  removeAt(L, k) = SubSeq(L, 1, k) \o SubSeq(L, k + 2, Len(L))
<1> DEFINE N == Len(L)
           Step(f, n) == IF n = 0 THEN <<>> ELSE append(f[n - 1], L[n])
           left[n \in 0..Len(L)] == IF n = 0 THEN <<>> ELSE append(left[n - 1], L[n])
           f == [n \in 0..Len(L) |-> SubSeq(L, 1, n)]
<1>1. N \in Nat /\ SubSeq(L, 1, 0) = <<>>
  OBVIOUS
<1>2. ASSUME NEW n \in 0..N
      PROVE  f[n] = Step(f, n)
  <2>1. CASE n = 0
    BY <1>1, <2>1
  <2>2. CASE n # 0
    <3>1. n \in 1..N /\ n - 1 \in 0..N
      BY <1>1, <2>2
    <3>2. f[n - 1] = SubSeq(L, 1, n - 1) /\ f[n] = SubSeq(L, 1, n)
      BY <3>1
    <3> QED BY <2>2, <3>1, <3>2, UpToNext
  <2> QED BY <2>1, <2>2
<1>3. f = [n \in 0..Len(L) |-> Step(f, n)]
  BY <1>2
<1>4. left = [n \in 0..Len(L) |-> Step(left, n)]
  <2>1. \E g : g = [n \in 0..Len(L) |-> IF n = 0 THEN <<>> ELSE append(g[n - 1], L[n])]
    <3> HIDE DEF f
    <3> QED BY <1>3, Zenon
  <2> QED BY <2>1, Zenon
<1> DEFINE T == {n \in 0..N : left[n] = SubSeq(L, 1, n)}
<1> HIDE DEF left
<1>5. 0 \in T
  BY <1>1, <1>4
<1>6. ASSUME NEW n \in 1..N, n - 1 \in T
      PROVE  n \in T
  <2>1. left[n] = append(left[n - 1], L[n])
    BY <1>4
  <2>2. left[n - 1] = SubSeq(L, 1, n - 1)
    BY <1>6
  <2>3. append(SubSeq(L, 1, n - 1), L[n]) = SubSeq(L, 1, n)
    BY UpToNext
  <2> QED BY <1>1, <2>1, <2>2, <2>3
<1>7. 0..N \subseteq T
  <2> HIDE DEF T, N
  <2> QED BY <1>1, <1>5, <1>6, InductionUpTo
<1>8. left[k] = SubSeq(L, 1, k)
  <2>1. k \in 0..N
    BY <1>1
  <2> QED BY <1>7, <2>1
<1>9. removeAt(L, k) = left[k] \o SubSeq(L, k + 2, Len(L))
  BY Zenon DEF removeAt, left
<1> QED BY <1>8, <1>9

-----------------------------------------------------------------------------
(* makeSequence, zip and index *)

\* makeSequence counts from 0.
LEMMA MakeSequenceFacts ==
  ASSUME NEW N \in Nat
  PROVE  makeSequence(N) = [i \in 1..N |-> i - 1]
<1> DEFINE Step(f, n) == IF n = 0 THEN <<>> ELSE append(f[n - 1], n - 1)
           upTo[n \in 0..N] == IF n = 0 THEN <<>> ELSE append(upTo[n - 1], n - 1)
           Count(n) == [i \in 1..n |-> i - 1]
           f == [n \in 0..N |-> Count(n)]
<1>1. Count(0) = <<>>
  OBVIOUS
<1>2. ASSUME NEW n \in 1..N
      PROVE  append(Count(n - 1), n - 1) = Count(n)
  <2>1. /\ Count(n - 1) \in Seq(Nat) /\ Len(Count(n - 1)) = n - 1
        /\ \A i \in 1..(n - 1) : Count(n - 1)[i] = i - 1
    OBVIOUS
  <2>2. Count(n) \in Seq(Nat) /\ Len(Count(n)) = n /\ \A i \in 1..n : Count(n)[i] = i - 1
    OBVIOUS
  <2>3. n - 1 \in Nat /\ (n - 1) + 1 = n
    OBVIOUS
  <2> HIDE DEF Count
  <2> DEFINE A == append(Count(n - 1), n - 1)
  <2>4. /\ A \in Seq(Nat) /\ Len(A) = Len(Count(n - 1)) + 1
        /\ \A i \in 1..Len(Count(n - 1)) : A[i] = Count(n - 1)[i]
        /\ A[Len(Count(n - 1)) + 1] = n - 1
    <3> DEFINE c == Count(n - 1)
               k == n - 1
    <3>1. c \in Seq(Nat) /\ k \in Nat
      BY <2>1, <2>3
    <3> HIDE DEF c, k
    <3>2. /\ append(c, k) \in Seq(Nat) /\ Len(append(c, k)) = Len(c) + 1
          /\ \A i \in 1..Len(c) : append(c, k)[i] = c[i]
          /\ append(c, k)[Len(c) + 1] = k
      BY <3>1, AppendFacts
    <3> QED BY <3>2 DEF c, k
  <2> HIDE DEF A
  <2>5. Len(A) = n /\ (\A i \in 1..(n - 1) : A[i] = i - 1) /\ A[n] = n - 1
    BY <2>1, <2>3, <2>4
  <2>6. ASSUME NEW i \in 1..n
        PROVE  A[i] = Count(n)[i]
    <3>1. i = n \/ i \in 1..(n - 1)
      OBVIOUS
    <3> QED BY <2>2, <2>5, <3>1
  <2>7. A = Count(n)
    BY <2>2, <2>4, <2>5, <2>6
  <2> QED BY <2>7 DEF A
<1> HIDE DEF Count
<1>3. ASSUME NEW n \in 0..N
      PROVE  f[n] = Step(f, n)
  <2>1. CASE n = 0
    BY <1>1, <2>1
  <2>2. CASE n # 0
    <3>1. n \in 1..N /\ n - 1 \in 0..N
      BY <2>2
    <3> QED BY <1>2, <2>2, <3>1
  <2> QED BY <2>1, <2>2
<1>4. f = [n \in 0..N |-> Step(f, n)]
  BY <1>3
<1>5. upTo = [n \in 0..N |-> Step(upTo, n)]
  <2>1. \E g : g = [n \in 0..N |-> IF n = 0 THEN <<>> ELSE append(g[n - 1], n - 1)]
    <3> HIDE DEF f
    <3> QED BY <1>4, Zenon
  <2> QED BY <2>1, Zenon
<1> DEFINE T == {n \in 0..N : upTo[n] = Count(n)}
<1>6. makeSequence(N) = upTo[N]
  BY Zenon DEF makeSequence
<1> HIDE DEF upTo
<1>7. 0 \in T
  BY <1>1, <1>5
<1>8. ASSUME NEW n \in 1..N, n - 1 \in T
      PROVE  n \in T
  <2>1. upTo[n] = append(upTo[n - 1], n - 1)
    BY <1>5
  <2> QED BY <1>2, <1>8, <2>1
<1>9. 0..N \subseteq T
  <2> HIDE DEF T
  <2> QED BY <1>7, <1>8, InductionUpTo
<1>10. upTo[N] = Count(N)
  BY <1>9
<1> QED BY <1>6, <1>10 DEF Count

\* zip pairs the types of lists of one length.
LEMMA ZipFacts ==
  ASSUME NEW S, NEW R, NEW A \in Seq(S), NEW B \in Seq(R), Len(A) = Len(B)
  PROVE  zip(A, B) = [i \in 1..Len(A) |-> <<A[i], B[i]>>]
<1> DEFINE N == Len(A)
           P == S \X R
           Step(f, n) == IF n > Len(A) THEN <<>> ELSE concat(<<<<A[n], B[n]>>>>, f[n + 1])
           from[n \in 1..(Len(A) + 1)] ==
             IF n > Len(A) THEN <<>> ELSE concat(<<<<A[n], B[n]>>>>, from[n + 1])
           Pairs(n) == [i \in 1..((N + 1) - n) |-> <<A[n + i - 1], B[n + i - 1]>>]
           f == [n \in 1..(Len(A) + 1) |-> Pairs(n)]
<1>1. N \in Nat /\ Pairs(N + 1) = <<>>
  OBVIOUS
<1>2. ASSUME NEW n \in 1..N
      PROVE  concat(<<<<A[n], B[n]>>>>, Pairs(n + 1)) = Pairs(n)
  <2> DEFINE p == <<A[n], B[n]>>
  <2>1. p \in P
    OBVIOUS
  <2>2. ASSUME NEW m \in 1..(N + 1)
        PROVE  /\ Pairs(m) \in Seq(P) /\ Len(Pairs(m)) = (N + 1) - m
               /\ \A i \in 1..((N + 1) - m) : Pairs(m)[i] = <<A[m + i - 1], B[m + i - 1]>>
    <3>1. (N + 1) - m \in Nat
      BY <1>1
    <3>2. ASSUME NEW i \in 1..((N + 1) - m)
          PROVE  <<A[m + i - 1], B[m + i - 1]>> \in P
      <4>1. m + i - 1 \in 1..N
        BY <1>1
      <4> QED BY <4>1
    <3>3. Pairs(m) \in [1..((N + 1) - m) -> P]
      <4> HIDE DEF P
      <4> QED BY <3>2, Zenon
    <3>4. Pairs(m) \in Seq(P) /\ Len(Pairs(m)) = (N + 1) - m
      <4> DEFINE g == Pairs(m)
                 K == (N + 1) - m
      <4>1. K \in Nat /\ g \in [1..K -> P]
        BY <3>1, <3>3, Zenon
      <4> HIDE DEF P, g, K
      <4>2. g \in Seq(P) /\ Len(g) = K
        BY <4>1
      <4> QED BY <4>2 DEF g, K
    <3> QED BY <3>4
  <2>3. n + 1 \in 1..(N + 1) /\ n \in 1..(N + 1) /\ n \in Nat
    BY <1>1
  <2> HIDE DEF Pairs, p, P
  <2> DEFINE X == concat(<<p>>, Pairs(n + 1))
  <2>4. Pairs(n + 1) \in Seq(P) /\ Len(Pairs(n + 1)) = N - n
    BY <1>1, <2>2, <2>3
  <2>5. /\ X \in Seq(P) /\ Len(X) = (N + 1) - n /\ X[1] = p
        /\ \A i \in 2..Len(X) : X[i] = Pairs(n + 1)[i - 1]
    <3>1. /\ X \in Seq(P) /\ Len(X) = Len(Pairs(n + 1)) + 1 /\ X[1] = p
          /\ \A i \in 1..Len(Pairs(n + 1)) : X[i + 1] = Pairs(n + 1)[i]
      BY <2>1, <2>4, PrependFacts
    <3> HIDE DEF X
    <3>2. Len(X) = (N + 1) - n
      <4>1. N \in Nat /\ n \in Nat /\ (N - n) + 1 = (N + 1) - n
        BY <1>1, <2>3
      <4> QED BY <2>4, <3>1, <4>1, Zenon
    <3>3. ASSUME NEW i \in 2..Len(X)
          PROVE  X[i] = Pairs(n + 1)[i - 1]
      <4>1. i - 1 \in 1..Len(Pairs(n + 1)) /\ (i - 1) + 1 = i
        BY <1>1, <2>3, <2>4, <3>2
      <4> QED BY <3>1, <4>1
    <3> QED BY <3>1, <3>2, <3>3
  <2>6. ASSUME NEW i \in 1..((N + 1) - n)
        PROVE  X[i] = Pairs(n)[i]
    <3>1. CASE i = 1
      <4>1. Pairs(n)[1] = <<A[n + 1 - 1], B[n + 1 - 1]>> /\ n + 1 - 1 = n
        <5>1. 1 \in 1..((N + 1) - n) /\ n + 1 - 1 = n
          BY <1>1, <2>3
        <5> QED BY <2>2, <2>3, <5>1, Zenon
      <4> QED BY <2>5, <3>1, <4>1 DEF p
    <3>2. CASE i # 1
      <4>1. i \in 2..Len(X) /\ i - 1 \in 1..((N + 1) - (n + 1))
        BY <1>1, <2>3, <2>5, <3>2
      <4>2. (n + 1) + (i - 1) - 1 = n + i - 1
        BY <2>3
      <4>3. Pairs(n + 1)[i - 1] = <<A[(n + 1) + (i - 1) - 1], B[(n + 1) + (i - 1) - 1]>>
        BY <2>2, <2>3, <4>1
      <4>4. Pairs(n)[i] = <<A[n + i - 1], B[n + i - 1]>>
        BY <2>2, <2>3
      <4> HIDE DEF X
      <4> QED BY <2>5, <4>1, <4>2, <4>3, <4>4
    <3> QED BY <3>1, <3>2
  <2>7. Pairs(n) \in Seq(P) /\ Len(Pairs(n)) = (N + 1) - n
    BY <2>2, <2>3
  <2>8. X = Pairs(n)
    <3> DEFINE Y == Pairs(n)
    <3>1. /\ X \in Seq(P) /\ Y \in Seq(P) /\ Len(X) = Len(Y)
          /\ \A i \in 1..Len(X) : X[i] = Y[i]
      <4> HIDE DEF X
      <4>1. X \in Seq(P) /\ Y \in Seq(P) /\ Len(X) = (N + 1) - n /\ Len(Y) = (N + 1) - n
        BY <2>5, <2>7, Zenon
      <4> QED BY <2>6, <4>1, Zenon
    <3> HIDE DEF X, Y
    <3>2. X = Y
      BY <3>1, SeqEqual
    <3> QED BY <3>2 DEF Y
  <2> QED BY <2>8 DEF p
<1>3. ASSUME NEW n \in 1..(N + 1)
      PROVE  f[n] = Step(f, n)
  <2> HIDE DEF Pairs
  <2>1. CASE n > N
    <3>1. n = N + 1
      BY <1>1, <2>1
    <3> QED BY <1>1, <2>1, <3>1
  <2>2. CASE ~ (n > N)
    <3>1. n \in 1..N /\ n + 1 \in 1..(N + 1)
      BY <1>1, <2>2
    <3>2. f[n] = Pairs(n) /\ f[n + 1] = Pairs(n + 1)
      BY <3>1
    <3>3. Step(f, n) = concat(<<<<A[n], B[n]>>>>, Pairs(n + 1))
      <4> HIDE DEF f
      <4> QED BY <2>2, <3>2
    <3> HIDE DEF f
    <3> QED BY <1>2, <3>1, <3>2, <3>3
  <2> QED BY <2>1, <2>2
<1>4. f = [n \in 1..(Len(A) + 1) |-> Step(f, n)]
  <2> HIDE DEF Pairs
  <2> QED BY <1>3
<1>5. from = [n \in 1..(Len(A) + 1) |-> Step(from, n)]
  <2>1. \E g : g = [n \in 1..(Len(A) + 1) |->
                      IF n > Len(A) THEN <<>> ELSE concat(<<<<A[n], B[n]>>>>, g[n + 1])]
    <3> HIDE DEF f
    <3> QED BY <1>4, Zenon
  <2> QED BY <2>1, Zenon
<1>6. zip(A, B) = from[1]
  BY Zenon DEF zip
<1> DEFINE T == {n \in 1..(N + 1) : from[n] = Pairs(n)}
<1> HIDE DEF from, Pairs
<1>7. N + 1 \in T
  BY <1>1, <1>5
<1>8. ASSUME NEW n \in 1..N, n + 1 \in T
      PROVE  n \in T
  <2>1. from[n] = concat(<<<<A[n], B[n]>>>>, from[n + 1])
    BY <1>1, <1>5
  <2>2. from[n + 1] = Pairs(n + 1)
    BY <1>8
  <2> QED BY <1>1, <1>2, <2>1, <2>2
<1>9. 1..(N + 1) \subseteq T
  <2> HIDE DEF T, N
  <2> QED BY <1>1, <1>7, <1>8, InductionDownFrom
<1>10. from[1] = Pairs(1)
  <2>1. 1 \in 1..(N + 1)
    BY <1>1
  <2> QED BY <1>9, <2>1
<1>11. Pairs(1) = [i \in 1..N |-> <<A[i], B[i]>>]
  <2>1. (N + 1) - 1 = N /\ \A i \in 1..N : 1 + i - 1 = i
    BY <1>1
  <2> QED BY <2>1 DEF Pairs
<1> QED BY <1>6, <1>10, <1>11

\* index pairs every type with its index.
LEMMA IndexFacts ==
  ASSUME NEW S, NEW L \in Seq(S)
  PROVE  index(L) = [i \in 1..Len(L) |-> <<i - 1, L[i]>>]
<1> DEFINE M == [i \in 1..Len(L) |-> i - 1]
<1>1. makeSequence(length(L)) = M
  <2>1. Len(L) \in Nat
    OBVIOUS
  <2> QED BY <2>1, MakeSequenceFacts DEF length
<1>2. M \in Seq(Nat) /\ Len(M) = Len(L) /\ \A i \in 1..Len(L) : M[i] = i - 1
  OBVIOUS
<1> HIDE DEF M
<1>3. zip(M, L) = [i \in 1..Len(M) |-> <<M[i], L[i]>>]
  BY <1>2, ZipFacts
<1> QED BY <1>1, <1>2, <1>3 DEF index

-----------------------------------------------------------------------------
(* slice *)

\* The arguments of the templates once n types are off the list.
CutAt(L, start, end, n) ==
    [results |-> IF n <= start THEN <<>> ELSE SubSeq(L, start + 1, n),
     start   |-> IF n <= start THEN start - n ELSE 0,
     end     |-> end - n]

\* A sublist grows by the type behind it.
LEMMA SublistNext ==
  ASSUME NEW S, NEW L \in Seq(S), NEW s \in Nat, NEW n \in (s + 1)..Len(L)
  PROVE  append(IF n - 1 <= s THEN <<>> ELSE SubSeq(L, s + 1, n - 1), L[n])
            = SubSeq(L, s + 1, n)
<1> DEFINE A == SubSeq(L, s + 1, n - 1)
           B == SubSeq(L, s + 1, n)
<1>1. n \in Nat /\ L[n] \in S /\ n \in 1..Len(L)
  OBVIOUS
<1>2. B \in Seq(S) /\ Len(B) = n - s /\ \A i \in 1..(n - s) : B[i] = L[s + i]
  <2>1. B \in Seq(S) /\ Len(B) = n - s
    BY <1>1
  <2>2. \A i \in 1..(n - s) : B[i] = L[(s + 1) + i - 1] /\ (s + 1) + i - 1 = s + i
    BY <1>1
  <2> HIDE DEF B
  <2> QED BY <2>1, <2>2
<1>3. CASE n - 1 <= s
  <2>1. n = s + 1
    BY <1>1, <1>3
  <2>2. append(<<>>, L[n]) = <<L[n]>>
    BY <1>1 DEF append, concat
  <2>3. Len(B) = 1 /\ B[1] = L[n]
    <3>1. n - s = 1 /\ 1 \in 1..(n - s) /\ s + 1 = n
      BY <1>1, <2>1
    <3> HIDE DEF B
    <3> QED BY <1>2, <3>1
  <2>4. B = <<L[n]>>
    <3> HIDE DEF B
    <3> QED BY <1>1, <1>2, <2>3
  <2> QED BY <1>3, <2>2, <2>4
<1>4. CASE ~ (n - 1 <= s)
  <2>1. A \in Seq(S) /\ Len(A) = (n - 1) - s /\ \A i \in 1..((n - 1) - s) : A[i] = L[s + i]
    <3>1. A \in Seq(S) /\ Len(A) = (n - 1) - s
      BY <1>1, <1>4
    <3>2. \A i \in 1..((n - 1) - s) :
             A[i] = L[(s + 1) + i - 1] /\ (s + 1) + i - 1 = s + i
      BY <1>1, <1>4
    <3> HIDE DEF A
    <3> QED BY <3>1, <3>2
  <2> HIDE DEF A, B
  <2> DEFINE X == append(A, L[n])
  <2>2. /\ X \in Seq(S) /\ Len(X) = Len(A) + 1
        /\ \A i \in 1..Len(A) : X[i] = A[i]
        /\ X[Len(A) + 1] = L[n]
    <3> DEFINE y == L[n]
    <3>1. A \in Seq(S) /\ y \in S
      BY <1>1, <2>1
    <3> HIDE DEF y
    <3>2. /\ append(A, y) \in Seq(S) /\ Len(append(A, y)) = Len(A) + 1
          /\ \A i \in 1..Len(A) : append(A, y)[i] = A[i]
          /\ append(A, y)[Len(A) + 1] = y
      BY <3>1, AppendFacts
    <3> QED BY <3>2, Zenon DEF y
  <2> HIDE DEF X
  <2>3. Len(A) + 1 = n - s /\ s + (n - s) = n
    BY <1>1, <2>1
  <2>4. ASSUME NEW i \in 1..(n - s)
        PROVE  X[i] = B[i]
    <3>1. CASE i = n - s
      BY <1>2, <2>2, <2>3, <3>1
    <3>2. CASE i # n - s
      <4>1. i \in 1..((n - 1) - s)
        BY <1>1, <3>2
      <4> QED BY <1>2, <2>1, <2>2, <4>1
    <3> QED BY <3>1, <3>2
  <2>5. X = B
    BY <1>2, <2>2, <2>3, <2>4
  <2> QED BY <1>4, <2>5 DEF A, B, X
<1> QED BY <1>3, <1>4

\* slice is the sublist, and nothing where it would not be one.
LEMMA SliceFacts ==
  ASSUME NEW S, NEW L \in Seq(S), NEW start \in Nat, NEW end \in Nat
  PROVE  slice(L, start, end) =
           IF start <= end /\ (end <= Len(L) \/ start = end)
           THEN SubSeq(L, start + 1, end) ELSE IllFormed
<1> DEFINE N == Len(L)
           Taken(c, x) ==
             IF c.start = 0
             THEN [results |-> append(c.results, x), start |-> 0, end |-> c.end - 1]
             ELSE [results |-> c.results, start |-> c.start - 1, end |-> c.end - 1]
           Step(f, n) ==
             IF n = 0 THEN [results |-> <<>>, start |-> start, end |-> end]
             ELSE Taken(f[n - 1], L[n])
           cut[n \in 0..Len(L)] ==
             IF n = 0 THEN [results |-> <<>>, start |-> start, end |-> end]
             ELSE IF cut[n - 1].start = 0
                  THEN [results |-> append(cut[n - 1].results, L[n]), start |-> 0,
                        end |-> cut[n - 1].end - 1]
                  ELSE [results |-> cut[n - 1].results, start |-> cut[n - 1].start - 1,
                        end |-> cut[n - 1].end - 1]
           f == [n \in 0..Len(L) |-> CutAt(L, start, end, n)]
           Met(n) == cut[n].start = cut[n].end
<1>1. N \in Nat
  OBVIOUS
<1>2. CutAt(L, start, end, 0) = [results |-> <<>>, start |-> start, end |-> end]
  BY DEF CutAt
<1>3. ASSUME NEW n \in 1..N
      PROVE  Taken(CutAt(L, start, end, n - 1), L[n]) = CutAt(L, start, end, n)
  <2> DEFINE c == CutAt(L, start, end, n - 1)
  <2>1. /\ c.results = IF n - 1 <= start THEN <<>> ELSE SubSeq(L, start + 1, n - 1)
        /\ c.start = IF n - 1 <= start THEN start - (n - 1) ELSE 0
        /\ c.end = end - (n - 1)
    BY DEF CutAt
  <2>2. c.end - 1 = end - n
    BY <1>1, <2>1
  <2>3. CASE n <= start
    <3>1. /\ n - 1 <= start /\ start - (n - 1) # 0
          /\ (start - (n - 1)) - 1 = start - n
      BY <1>1, <2>3
    <3>2. c.start = start - (n - 1) /\ c.results = <<>>
      BY <2>1, <3>1
    <3>3. Taken(c, L[n]) = [results |-> <<>>, start |-> start - n, end |-> end - n]
      <4> HIDE DEF c
      <4> QED BY <2>2, <3>1, <3>2, Zenon
    <3> QED BY <2>3, <3>3, Zenon DEF CutAt
  <2>4. CASE ~ (n <= start)
    <3>1. n \in (start + 1)..Len(L)
      BY <1>1, <2>4
    <3>2. c.start = 0
      BY <1>1, <2>1, <2>4
    <3>3. append(c.results, L[n]) = SubSeq(L, start + 1, n)
      <4> HIDE DEF c
      <4> QED BY <2>1, <3>1, SublistNext
    <3>4. Taken(c, L[n]) = [results |-> SubSeq(L, start + 1, n), start |-> 0, end |-> end - n]
      <4> HIDE DEF c
      <4> QED BY <2>2, <3>2, <3>3, Zenon
    <3> QED BY <2>4, <3>4, Zenon DEF CutAt
  <2> QED BY <2>3, <2>4
<1>4. ASSUME NEW n \in 0..N
      PROVE  f[n] = Step(f, n)
  <2>1. CASE n = 0
    BY <1>1, <1>2, <2>1
  <2>2. CASE n # 0
    <3>1. n \in 1..N /\ n - 1 \in 0..N
      BY <1>1, <2>2
    <3>2. f[n] = CutAt(L, start, end, n) /\ f[n - 1] = CutAt(L, start, end, n - 1)
      BY <3>1
    <3>3. Step(f, n) = Taken(f[n - 1], L[n])
      <4> HIDE DEF f, Taken
      <4> QED BY <2>2
    <3> HIDE DEF f, Taken, Step
    <3> QED BY <1>3, <3>1, <3>2, <3>3
  <2> QED BY <2>1, <2>2
<1>5. f = [n \in 0..Len(L) |-> Step(f, n)]
  <2> HIDE DEF Step
  <2> QED BY <1>4
<1>6. cut = [n \in 0..Len(L) |-> Step(cut, n)]
  <2>1. \E g : g = [n \in 0..Len(L) |->
             IF n = 0 THEN [results |-> <<>>, start |-> start, end |-> end]
             ELSE IF g[n - 1].start = 0
                  THEN [results |-> append(g[n - 1].results, L[n]), start |-> 0,
                        end |-> g[n - 1].end - 1]
                  ELSE [results |-> g[n - 1].results, start |-> g[n - 1].start - 1,
                        end |-> g[n - 1].end - 1]]
    <3> HIDE DEF f
    <3> QED BY <1>5, Zenon
  <2> QED BY <2>1, Zenon
<1>7. slice(L, start, end) =
        IF \E n \in 0..Len(L) : Met(n)
        THEN cut[CHOOSE n \in 0..Len(L) : Met(n) /\ \A k \in 0..(n - 1) : ~ Met(k)].results
        ELSE IllFormed
  BY Zenon DEF slice
<1> DEFINE T == {n \in 0..N : cut[n] = CutAt(L, start, end, n)}
<1> HIDE DEF cut
<1>8. 0 \in T
  BY <1>1, <1>2, <1>6
<1>9. ASSUME NEW n \in 1..N, n - 1 \in T
      PROVE  n \in T
  <2>1. cut[n] = Taken(cut[n - 1], L[n])
    <3> HIDE DEF Taken
    <3>1. n \in 0..Len(L) /\ n # 0
      OBVIOUS
    <3> QED BY <1>6, <3>1
  <2>2. cut[n - 1] = CutAt(L, start, end, n - 1)
    BY <1>9
  <2> HIDE DEF Taken
  <2> QED BY <1>1, <1>3, <2>1, <2>2
<1>10. 0..N \subseteq T
  <2> HIDE DEF T, N
  <2> QED BY <1>1, <1>8, <1>9, InductionUpTo
<1>11. ASSUME NEW n \in 0..N
       PROVE  /\ cut[n].results = IF n <= start THEN <<>> ELSE SubSeq(L, start + 1, n)
              /\ Met(n) <=> (IF n <= start THEN start = end ELSE n = end)
  <2>1. cut[n] = CutAt(L, start, end, n)
    BY <1>10
  <2>2. /\ cut[n].results = IF n <= start THEN <<>> ELSE SubSeq(L, start + 1, n)
        /\ cut[n].start = IF n <= start THEN start - n ELSE 0
        /\ cut[n].end = end - n
    BY <2>1 DEF CutAt
  <2>3. Met(n) <=> (IF n <= start THEN start = end ELSE n = end)
    BY <1>1, <2>2
  <2> QED BY <2>2, <2>3
<1> HIDE DEF Met
<1> DEFINE Least(n) == n \in 0..N /\ Met(n) /\ \A k \in 0..(n - 1) : ~ Met(k)
<1>12. \A n, m : Least(n) /\ Least(m) => n = m
  <2> SUFFICES ASSUME NEW n, NEW m, Least(n), Least(m)
               PROVE  n = m
    OBVIOUS
  <2>1. n \in Nat /\ m \in Nat
    BY <1>1
  <2>2. ~ (n \in 0..(m - 1)) /\ ~ (m \in 0..(n - 1))
    OBVIOUS
  <2> QED BY <2>1, <2>2
<1>13. \A n : Least(n) => slice(L, start, end) = cut[n].results
  <2> SUFFICES ASSUME NEW n, Least(n)
               PROVE  slice(L, start, end) = cut[n].results
    OBVIOUS
  <2> DEFINE ch == CHOOSE i \in 0..Len(L) : Met(i) /\ \A k \in 0..(i - 1) : ~ Met(k)
  <2>1. Least(ch)
    BY Zenon
  <2> HIDE DEF ch
  <2>2. ch = n
    <3> HIDE DEF Least
    <3> QED BY <1>12, <2>1
  <2>3. \E i \in 0..Len(L) : Met(i)
    OBVIOUS
  <2>4. slice(L, start, end) = cut[ch].results
    BY <1>7, <2>3, Zenon DEF ch
  <2> QED BY <2>2, <2>4
<1>14. CASE start = end
  <2>1. Least(0)
    <3>1. Met(0)
      BY <1>1, <1>11, <1>14
    <3> QED BY <1>1, <3>1
  <2>2. cut[0].results = <<>>
    BY <1>1, <1>11
  <2>3. SubSeq(L, start + 1, end) = <<>> /\ start <= end
    BY <1>14
  <2>4. slice(L, start, end) = cut[0].results
    <3> HIDE DEF Least
    <3> QED BY <1>13, <2>1
  <2> QED BY <1>14, <2>2, <2>3, <2>4, Zenon
<1>15. CASE start < end /\ end <= N
  <2>1. Least(end)
    <3>1. end \in 0..N /\ ~ (end <= start)
      BY <1>1, <1>15
    <3>2. Met(end)
      BY <1>11, <3>1
    <3>3. ASSUME NEW k \in 0..(end - 1)
          PROVE  ~ Met(k)
      <4>1. k \in 0..N /\ k # end /\ start # end
        BY <1>1, <1>15
      <4> QED BY <1>11, <4>1
    <3> QED BY <3>1, <3>2, <3>3
  <2>2. cut[end].results = SubSeq(L, start + 1, end)
    <3>1. end \in 0..N /\ ~ (end <= start)
      BY <1>1, <1>15
    <3> QED BY <1>11, <3>1
  <2>3. start <= end
    BY <1>15
  <2> HIDE DEF Least
  <2> QED BY <1>13, <1>15, <2>1, <2>2, <2>3
<1>16. CASE start # end /\ ~ (start < end /\ end <= N)
  <2>1. ASSUME NEW n \in 0..N
        PROVE  ~ Met(n)
    <3>1. ~ (IF n <= start THEN start = end ELSE n = end)
      BY <1>1, <1>16
    <3> QED BY <1>11, <3>1
  <2>2. slice(L, start, end) = IllFormed
    BY <1>7, <2>1
  <2>3. ~ (start <= end /\ (end <= Len(L) \/ start = end))
    BY <1>1, <1>16
  <2> QED BY <2>2, <2>3
<1> QED BY <1>1, <1>14, <1>15, <1>16

-----------------------------------------------------------------------------
(* filter *)

\* Appending a type adds it to the members of a list.
LEMMA AppendMembers ==
  ASSUME NEW S, NEW L \in Seq(S), NEW x \in S
  PROVE  Seqs!ToSet(append(L, x)) = Seqs!ToSet(L) \cup {x}
<1> DEFINE A == append(L, x)
<1>0. Len(L) \in Nat
  OBVIOUS
<1>1. /\ A \in Seq(S) /\ Len(A) = Len(L) + 1 /\ Len(L) \in Nat
      /\ \A i \in 1..Len(L) : A[i] = L[i]
      /\ A[Len(L) + 1] = x
  BY <1>0 DEF append, concat
<1> HIDE DEF A
<1>2. DOMAIN A = 1..(Len(L) + 1) /\ DOMAIN L = 1..Len(L)
  BY <1>1
<1>3. \A i \in 1..(Len(L) + 1) : i \in 1..Len(L) \/ i = Len(L) + 1
  BY <1>1
<1>4. \A i \in 1..Len(L) : i \in 1..(Len(L) + 1)
  BY <1>1
<1>5. Len(L) + 1 \in 1..(Len(L) + 1)
  BY <1>1
<1>6. {A[i] : i \in 1..(Len(L) + 1)} = {L[i] : i \in 1..Len(L)} \cup {x}
  BY <1>1, <1>3, <1>4, <1>5
<1> QED BY <1>2, <1>6, Zenon DEF A, Seqs!ToSet

\* What the templates have collected from the first n types.
FilterStep(f, L, F, n) ==
    IF n = 0 THEN <<>>
    ELSE IF L[n] \in F THEN append(f[n - 1], L[n]) ELSE f[n - 1]

LEMMA FilterRecursion ==
  ASSUME NEW S, NEW L \in Seq(S), NEW F
  PROVE  \E f : /\ f = [n \in 0..Len(L) |-> FilterStep(f, L, F, n)]
                /\ filter(L, F) = f[Len(L)]
<1> DEFINE N == Len(L)
           V == Seq(S)
           G == [p \in (1..N) \X V |-> IF L[p[1]] \in F THEN append(p[2], L[p[1]]) ELSE p[2]]
           filtered[n \in 0..Len(L)] ==
             IF n = 0 THEN <<>>
             ELSE IF L[n] \in F THEN append(filtered[n - 1], L[n]) ELSE filtered[n - 1]
<1>1. filter(L, F) = filtered[Len(L)]
  BY Zenon DEF filter
<1>2. N \in Nat /\ <<>> \in V
  OBVIOUS
<1>3. G \in [(1..N) \X V -> V]
  <2>1. ASSUME NEW p \in (1..N) \X V
        PROVE  (IF L[p[1]] \in F THEN append(p[2], L[p[1]]) ELSE p[2]) \in V
    <3>1. p[2] \in Seq(S) /\ L[p[1]] \in S
      OBVIOUS
    <3>2. append(p[2], L[p[1]]) \in Seq(S)
      BY <3>1, AppendFacts
    <3> QED BY <3>1, <3>2
  <2> QED BY <2>1, Zenon
<1>4. PICK f \in [0..N -> V] : GoesUp(f, N, <<>>, G)
  <2> HIDE DEF G, N, V
  <2> QED BY <1>2, <1>3, RecursionIn
<1>5. f = [n \in 0..N |-> IF n = 0 THEN <<>> ELSE G[<<n, f[n - 1]>>]]
  <2> HIDE DEF G, N, V
  <2> QED BY <1>4, Zenon DEF GoesUp
<1>6. ASSUME NEW n \in 0..N
      PROVE  f[n] = FilterStep(f, L, F, n)
  <2>1. CASE n = 0
    BY <1>5, <2>1 DEF FilterStep
  <2>2. CASE n # 0
    <3>1. n \in 1..N /\ n - 1 \in 0..N
      BY <1>2, <2>2
    <3>2. <<n, f[n - 1]>> \in (1..N) \X V
      <4> HIDE DEF V, N
      <4> QED BY <1>4, <3>1
    <3>3. f[n] = G[<<n, f[n - 1]>>]
      <4> HIDE DEF G, V
      <4> QED BY <1>5, <2>2
    <3>4. G[<<n, f[n - 1]>>] = IF L[n] \in F THEN append(f[n - 1], L[n]) ELSE f[n - 1]
      <4> HIDE DEF V, N
      <4> QED BY <3>2
    <3> HIDE DEF G
    <3> QED BY <2>2, <3>3, <3>4 DEF FilterStep
  <2> QED BY <2>1, <2>2
<1>7. f = [n \in 0..Len(L) |-> FilterStep(f, L, F, n)]
  <2> HIDE DEF V
  <2> QED BY <1>4, <1>6
<1>8. filtered = [n \in 0..Len(L) |-> FilterStep(filtered, L, F, n)]
  <2>1. \E g : g = [n \in 0..Len(L) |->
             IF n = 0 THEN <<>>
             ELSE IF L[n] \in F THEN append(g[n - 1], L[n]) ELSE g[n - 1]]
    BY <1>7, Zenon DEF FilterStep
  <2>2. filtered = [n \in 0..Len(L) |->
             IF n = 0 THEN <<>>
             ELSE IF L[n] \in F THEN append(filtered[n - 1], L[n]) ELSE filtered[n - 1]]
    BY <2>1, Zenon
  <2> HIDE DEF filtered
  <2> QED BY <2>2, Zenon DEF FilterStep
<1> HIDE DEF filtered
<1> QED BY <1>1, <1>8

\* filter keeps the types that pass, each as often as it is there.
LEMMA FilterFacts ==
  ASSUME NEW S, NEW L \in Seq(S), NEW F
  PROVE  /\ filter(L, F) \in Seq(S)
         /\ Len(filter(L, F)) = Cardinality({i \in 1..Len(L) : L[i] \in F})
         /\ Seqs!ToSet(filter(L, F)) = Seqs!ToSet(L) \cap F
<1> DEFINE N == Len(L)
           Pass(n) == {i \in 1..n : L[i] \in F}
<1>1. PICK f : /\ f = [n \in 0..Len(L) |-> FilterStep(f, L, F, n)]
               /\ filter(L, F) = f[Len(L)]
  BY FilterRecursion, Zenon
<1>2. N \in Nat
  OBVIOUS
<1> DEFINE Right(n) == /\ f[n] \in Seq(S)
                       /\ IsFiniteSet(Pass(n)) /\ Len(f[n]) = Cardinality(Pass(n))
                       /\ Seqs!ToSet(f[n]) = {L[i] : i \in Pass(n)}
           T == {n \in 0..N : Right(n)}
<1>3. 0 \in T
  <2>1. f[0] = <<>>
    BY <1>1, <1>2 DEF FilterStep
  <2>2. Pass(0) = {}
    OBVIOUS
  <2>3. Seqs!ToSet(<<>>) = {}
    BY DEF Seqs!ToSet
  <2>4. <<>> \in Seq(S) /\ Len(<<>>) = 0
    OBVIOUS
  <2>5. IsFiniteSet({}) /\ Cardinality({}) = 0
    BY FS_EmptySet
  <2>6. {L[i] : i \in {}} = {}
    OBVIOUS
  <2> HIDE DEF Pass
  <2>7. Right(0)
    BY <2>1, <2>2, <2>3, <2>4, <2>5, <2>6, Zenon
  <2> QED BY <1>2, <2>7
<1>4. ASSUME NEW n \in 1..N, n - 1 \in T
      PROVE  n \in T
  <2>1. f[n] = IF L[n] \in F THEN append(f[n - 1], L[n]) ELSE f[n - 1]
    BY <1>1, <1>2 DEF FilterStep
  <2>2. Right(n - 1) /\ n \in 0..N /\ L[n] \in S
    BY <1>2, <1>4
  <2>3. CASE L[n] \in F
    <3>1. Pass(n) = Pass(n - 1) \cup {n} /\ n \notin Pass(n - 1)
      BY <2>3
    <3> DEFINE P == Pass(n - 1)
               x == L[n]
    <3>2. IsFiniteSet(P \cup {n}) /\ Cardinality(P \cup {n}) = Cardinality(P) + 1
      <4>1. IsFiniteSet(P) /\ n \notin P
        BY <2>2, <3>1
      <4> HIDE DEF P
      <4> QED BY <4>1, FS_AddElement
    <3>3. /\ append(f[n - 1], x) \in Seq(S)
          /\ Len(append(f[n - 1], x)) = Len(f[n - 1]) + 1
          /\ Seqs!ToSet(append(f[n - 1], x)) = Seqs!ToSet(f[n - 1]) \cup {x}
      <4>1. f[n - 1] \in Seq(S) /\ x \in S
        BY <2>2
      <4> HIDE DEF x
      <4>2. Seqs!ToSet(append(f[n - 1], x)) = Seqs!ToSet(f[n - 1]) \cup {x}
        BY <4>1, AppendMembers
      <4>3. /\ append(f[n - 1], x) \in Seq(S)
            /\ Len(append(f[n - 1], x)) = Len(f[n - 1]) + 1
        <5> DEFINE g == f[n - 1]
        <5>1. g \in Seq(S)
          BY <4>1
        <5> HIDE DEF g
        <5>2. append(g, x) \in Seq(S) /\ Len(append(g, x)) = Len(g) + 1
          BY <4>1, <5>1, AppendFacts, Zenon
        <5> QED BY <5>2 DEF g
      <4> QED BY <4>2, <4>3
    <3>4. {L[i] : i \in P \cup {n}} = {L[i] : i \in P} \cup {x}
      OBVIOUS
    <3> HIDE DEF Pass
    <3>5. Right(n)
      BY <2>1, <2>2, <2>3, <3>1, <3>2, <3>3, <3>4
    <3> QED BY <2>2, <3>5
  <2>4. CASE L[n] \notin F
    <3>1. Pass(n) = Pass(n - 1)
      BY <2>4
    <3> HIDE DEF Pass
    <3> QED BY <2>1, <2>2, <2>4, <3>1
  <2> QED BY <2>3, <2>4
<1>5. 0..N \subseteq T
  <2> HIDE DEF T, N
  <2> QED BY <1>2, <1>3, <1>4, InductionUpTo
<1>6. Right(N)
  <2>1. N \in 0..N
    BY <1>2
  <2> QED BY <1>5, <2>1, Zenon
<1>7. {L[i] : i \in Pass(N)} = Seqs!ToSet(L) \cap F
  <2>1. DOMAIN L = 1..N
    OBVIOUS
  <2> QED BY <2>1 DEF Seqs!ToSet
<1> HIDE DEF Pass
<1>8. /\ filter(L, F) \in Seq(S)
      /\ Len(filter(L, F)) = Cardinality(Pass(N))
      /\ Seqs!ToSet(filter(L, F)) = Seqs!ToSet(L) \cap F
  BY <1>1, <1>6, <1>7, Zenon
<1> QED BY <1>8, Zenon DEF Pass

-----------------------------------------------------------------------------
(* concatUnique *)

\* FirstAt is where a type is for the first time.
LEMMA FirstAtFacts ==
  ASSUME NEW S, NEW L \in Seq(S), NEW x, NEW k \in 1..Len(L), L[k] = x
  PROVE  /\ FirstAt(L, x) \in 1..k
         /\ L[FirstAt(L, x)] = x
         /\ \A i \in 1..Len(L) : L[i] = x => FirstAt(L, x) <= i
<1> DEFINE I == {i \in DOMAIN L : L[i] = x}
<1>1. I \subseteq Nat /\ I \subseteq 1..Len(L) /\ k \in I /\ k \in Nat
  OBVIOUS
<1>2. \E i \in I : \A j \in I : i <= j
  <2> HIDE DEF I
  <2> QED BY <1>1, LeastNumber
<1>3. Min(I) \in I /\ \A j \in I : Min(I) <= j
  <2> HIDE DEF I
  <2> QED BY <1>2, Zenon DEF Min
<1>4. FirstAt(L, x) = Min(I)
  BY DEF FirstAt
<1>5. \A i \in 1..Len(L) : L[i] = x => i \in I
  OBVIOUS
<1>6. L[Min(I)] = x
  BY <1>3
<1>7. Min(I) \in 1..k
  <2> HIDE DEF I
  <2>1. Min(I) \in 1..Len(L) /\ Min(I) <= k
    BY <1>1, <1>3
  <2> QED BY <1>1, <2>1
<1> HIDE DEF I
<1> QED BY <1>3, <1>4, <1>5, <1>6, <1>7

\* u has the types of the first m of L, in the order in which they are there
\* for the first time.
IsUniqueOf(u, L, m) ==
    /\ \A j \in 1..Len(u) : \E i \in 1..m : L[i] = u[j]
    /\ \A i \in 1..m : \E j \in 1..Len(u) : u[j] = L[i]
    /\ \A j, k \in 1..Len(u) : j < k => FirstAt(L, u[j]) < FirstAt(L, u[k])

\* One more type.
LEMMA UniqueNext ==
  ASSUME NEW S, NEW L \in Seq(S), NEW m \in 1..Len(L), NEW u \in Seq(S),
         IsUniqueOf(u, L, m - 1)
  PROVE  IsUniqueOf(IF contains(u, L[m]) THEN u ELSE append(u, L[m]), L, m)
<1> DEFINE x == L[m]
           N == Len(u)
<1>1. /\ Len(L) \in Nat /\ N \in Nat /\ m \in Nat /\ x \in S
      /\ \A i \in 1..(m - 1) : i \in 1..m /\ i \in 1..Len(L)
      /\ \A i \in 1..m : i = m \/ i \in 1..(m - 1)
  OBVIOUS
<1>2. contains(u, x) <=> \E j \in 1..N : u[j] = x
  <2>1. CASE \E j \in 1..N : u[j] = x
    <3>1. indexOf(u, x) \in 0..(N - 1)
      BY <2>1, IndexOfFacts
    <3>2. indexOf(u, x) # -1
      BY <1>1, <3>1
    <3> QED BY <2>1, <3>2 DEF contains
  <2>2. CASE ~ \E j \in 1..N : u[j] = x
    <3>1. indexOf(u, x) = -1
      BY <2>2, IndexOfFacts
    <3> QED BY <2>2, <3>1 DEF contains
  <2> QED BY <2>1, <2>2
<1>3. CASE contains(u, x)
  <2>1. \A j \in 1..N : \E i \in 1..m : L[i] = u[j]
    BY <1>1 DEF IsUniqueOf
  <2>2. \A i \in 1..m : \E j \in 1..N : u[j] = L[i]
    BY <1>1, <1>2, <1>3 DEF IsUniqueOf
  <2>3. IsUniqueOf(u, L, m)
    BY <2>1, <2>2 DEF IsUniqueOf
  <2> QED BY <1>3, <2>3
<1>4. CASE ~ contains(u, x)
  <2> DEFINE v == append(u, x)
  <2>1. /\ v \in Seq(S) /\ Len(v) = N + 1
        /\ \A j \in 1..N : v[j] = u[j]
        /\ v[N + 1] = x
    BY <1>1 DEF append, concat
  <2> HIDE DEF v
  <2>2. /\ \A j \in 1..(N + 1) : j = N + 1 \/ j \in 1..N
        /\ \A j \in 1..N : j \in 1..(N + 1)
        /\ N + 1 \in 1..(N + 1) /\ m \in 1..m
    BY <1>1
  <2>3. \A j \in 1..Len(v) : \E i \in 1..m : L[i] = v[j]
    BY <1>1, <2>1, <2>2 DEF IsUniqueOf
  <2>4. \A i \in 1..m : \E j \in 1..Len(v) : v[j] = L[i]
    BY <1>1, <2>1, <2>2 DEF IsUniqueOf
  <2>5. ASSUME NEW j \in 1..N
        PROVE  FirstAt(L, u[j]) \in 1..(m - 1)
    <3>1. PICK i \in 1..(m - 1) : L[i] = u[j]
      BY DEF IsUniqueOf
    <3>2. i \in 1..Len(L)
      BY <1>1, <3>1
    <3>3. FirstAt(L, u[j]) \in 1..i
      BY <3>1, <3>2, FirstAtFacts
    <3> QED BY <1>1, <3>1, <3>3
  <2>6. FirstAt(L, x) = m
    <3>1. FirstAt(L, x) \in 1..m /\ L[FirstAt(L, x)] = x
      BY <1>1, FirstAtFacts
    <3>2. ASSUME FirstAt(L, x) \in 1..(m - 1)
          PROVE  FALSE
      <4>1. PICK j \in 1..N : u[j] = L[FirstAt(L, x)]
        BY <3>2 DEF IsUniqueOf
      <4> QED BY <1>2, <1>4, <3>1, <4>1
    <3> QED BY <1>1, <3>1, <3>2
  <2>7. ASSUME NEW j \in 1..Len(v), NEW k \in 1..Len(v), j < k
        PROVE  FirstAt(L, v[j]) < FirstAt(L, v[k])
    <3>1. j \in 1..N
      BY <1>1, <2>1, <2>7
    <3>2. CASE k = N + 1
      <4>1. FirstAt(L, v[j]) \in 1..(m - 1) /\ FirstAt(L, v[k]) = m
        BY <2>1, <2>5, <2>6, <3>1, <3>2
      <4> QED BY <1>1, <4>1
    <3>3. CASE k # N + 1
      <4>1. k \in 1..N
        BY <2>1, <2>2, <3>3
      <4>2. FirstAt(L, u[j]) < FirstAt(L, u[k])
        BY <2>7, <3>1, <4>1 DEF IsUniqueOf
      <4> QED BY <2>1, <3>1, <4>1, <4>2
    <3> QED BY <3>2, <3>3
  <2>8. IsUniqueOf(v, L, m)
    BY <2>3, <2>4, <2>7 DEF IsUniqueOf
  <2> QED BY <1>4, <2>8 DEF v
<1> QED BY <1>3, <1>4

\* What is collected once n types of a list are taken.
TakeStep(f, U, L, n) ==
    IF n = 0 THEN U
    ELSE IF contains(f[n - 1], L[n]) THEN f[n - 1] ELSE append(f[n - 1], L[n])

LEMMA TakeRecursion ==
  ASSUME NEW S, NEW U \in Seq(S), NEW L \in Seq(S)
  PROVE  \E f : /\ f = [n \in 0..Len(L) |-> TakeStep(f, U, L, n)]
                /\ TakeUniques(U, L) = f[Len(L)]
<1> DEFINE N == Len(L)
           V == Seq(S)
           G == [p \in (1..N) \X V |->
                   IF contains(p[2], L[p[1]]) THEN p[2] ELSE append(p[2], L[p[1]])]
           taken[n \in 0..Len(L)] ==
             IF n = 0 THEN U
             ELSE IF contains(taken[n - 1], L[n]) THEN taken[n - 1]
                  ELSE append(taken[n - 1], L[n])
<1>1. TakeUniques(U, L) = taken[Len(L)]
  BY Zenon DEF TakeUniques
<1>2. N \in Nat /\ U \in V
  OBVIOUS
<1>3. G \in [(1..N) \X V -> V]
  <2>1. ASSUME NEW p \in (1..N) \X V
        PROVE  (IF contains(p[2], L[p[1]]) THEN p[2] ELSE append(p[2], L[p[1]])) \in V
    <3>1. p[2] \in Seq(S) /\ L[p[1]] \in S
      OBVIOUS
    <3>2. append(p[2], L[p[1]]) \in Seq(S)
      BY <3>1, AppendFacts
    <3> QED BY <3>1, <3>2
  <2> QED BY <2>1, Zenon
<1>4. PICK f \in [0..N -> V] : GoesUp(f, N, U, G)
  <2> HIDE DEF G, N, V
  <2> QED BY <1>2, <1>3, RecursionIn
<1>5. f = [n \in 0..N |-> IF n = 0 THEN U ELSE G[<<n, f[n - 1]>>]]
  <2> HIDE DEF G, N, V
  <2> QED BY <1>4, Zenon DEF GoesUp
<1>6. ASSUME NEW n \in 0..N
      PROVE  f[n] = TakeStep(f, U, L, n)
  <2>1. CASE n = 0
    BY <1>5, <2>1 DEF TakeStep
  <2>2. CASE n # 0
    <3>1. n \in 1..N /\ n - 1 \in 0..N
      BY <1>2, <2>2
    <3>2. <<n, f[n - 1]>> \in (1..N) \X V
      <4> HIDE DEF V, N
      <4> QED BY <1>4, <3>1
    <3>3. f[n] = G[<<n, f[n - 1]>>]
      <4> HIDE DEF G, V
      <4> QED BY <1>5, <2>2
    <3>4. G[<<n, f[n - 1]>>] =
            IF contains(f[n - 1], L[n]) THEN f[n - 1] ELSE append(f[n - 1], L[n])
      <4> HIDE DEF V, N
      <4> QED BY <3>2
    <3> HIDE DEF G
    <3> QED BY <2>2, <3>3, <3>4 DEF TakeStep
  <2> QED BY <2>1, <2>2
<1>7. f = [n \in 0..Len(L) |-> TakeStep(f, U, L, n)]
  <2> HIDE DEF V
  <2> QED BY <1>4, <1>6
<1>8. taken = [n \in 0..Len(L) |-> TakeStep(taken, U, L, n)]
  <2>1. \E g : g = [n \in 0..Len(L) |->
             IF n = 0 THEN U
             ELSE IF contains(g[n - 1], L[n]) THEN g[n - 1] ELSE append(g[n - 1], L[n])]
    BY <1>7, Zenon DEF TakeStep
  <2>2. taken = [n \in 0..Len(L) |->
             IF n = 0 THEN U
             ELSE IF contains(taken[n - 1], L[n]) THEN taken[n - 1]
                  ELSE append(taken[n - 1], L[n])]
    BY <2>1, Zenon
  <2> HIDE DEF taken
  <2> QED BY <2>2, Zenon DEF TakeStep
<1> HIDE DEF taken
<1> QED BY <1>1, <1>8

\* Taking a sublist goes on where the uniques collected before it end.
LEMMA TakeUniquesFacts ==
  ASSUME NEW S, NEW L \in Seq(S), NEW U \in Seq(S), NEW a \in 0..Len(L),
         IsUniqueOf(U, L, a),
         NEW X \in Seq(S), a + Len(X) <= Len(L),
         \A i \in 1..Len(X) : X[i] = L[a + i]
  PROVE  /\ TakeUniques(U, X) \in Seq(S)
         /\ IsUniqueOf(TakeUniques(U, X), L, a + Len(X))
<1> DEFINE N == Len(X)
<1>1. PICK f : /\ f = [n \in 0..Len(X) |-> TakeStep(f, U, X, n)]
               /\ TakeUniques(U, X) = f[Len(X)]
  BY TakeRecursion, Zenon
<1>2. N \in Nat /\ a \in Nat /\ Len(L) \in Nat
  OBVIOUS
<1> DEFINE T == {n \in 0..N : f[n] \in Seq(S) /\ IsUniqueOf(f[n], L, a + n)}
<1>3. 0 \in T
  <2>1. f[0] = U /\ a + 0 = a
    BY <1>1, <1>2 DEF TakeStep
  <2> QED BY <1>2, <2>1
<1>4. ASSUME NEW n \in 1..N, n - 1 \in T
      PROVE  n \in T
  <2> DEFINE u == f[n - 1]
             m == a + n
  <2>1. f[n] = IF contains(u, X[n]) THEN u ELSE append(u, X[n])
    <3>1. n \in 0..Len(X) /\ n # 0
      BY <1>2
    <3>2. f[n] = TakeStep(f, U, X, n)
      BY <1>1, <3>1, Zenon
    <3> QED BY <3>1, <3>2, Zenon DEF TakeStep
  <2>2. m \in 1..Len(L) /\ a + (n - 1) = m - 1
    BY <1>2
  <2>3. u \in Seq(S) /\ IsUniqueOf(u, L, m - 1)
    BY <1>4, <2>2
  <2>4. X[n] = L[m] /\ L[m] \in S
    BY <2>2
  <2> HIDE DEF u, m
  <2>5. IsUniqueOf(IF contains(u, L[m]) THEN u ELSE append(u, L[m]), L, m)
    BY <2>2, <2>3, UniqueNext
  <2>6. append(u, L[m]) \in Seq(S)
    BY <2>3, <2>4, AppendFacts
  <2>7. f[n] \in Seq(S) /\ IsUniqueOf(f[n], L, m)
    BY <2>1, <2>3, <2>4, <2>5, <2>6
  <2> QED BY <1>2, <2>7 DEF m
<1>5. 0..N \subseteq T
  <2> HIDE DEF T, N
  <2> QED BY <1>2, <1>3, <1>4, InductionUpTo
<1>6. f[N] \in Seq(S) /\ IsUniqueOf(f[N], L, a + N)
  <2>1. N \in 0..N
    BY <1>2
  <2> QED BY <1>5, <2>1, Zenon
<1> QED BY <1>1, <1>6, Zenon

\* concatUnique takes its lists one after the other.
LEMMA ConcatUniqueTwo ==
  ASSUME NEW A, NEW B
  PROVE  concatUnique(<<A, B>>) = TakeUniques(TakeUniques(<<>>, A), B)
<1> DEFINE Lists == <<A, B>>
           merged[n \in 0..Len(Lists)] ==
             IF n = 0 THEN <<>> ELSE TakeUniques(merged[n - 1], Lists[n])
           one == TakeUniques(<<>>, A)
           f == [n \in 0..2 |-> IF n = 0 THEN <<>> ELSE IF n = 1 THEN one ELSE TakeUniques(one, B)]
<1>1. Len(Lists) = 2 /\ Lists[1] = A /\ Lists[2] = B
  OBVIOUS
<1>2. concatUnique(Lists) = merged[Len(Lists)]
  BY Zenon DEF concatUnique
<1> HIDE DEF Lists
<1>3. ASSUME NEW n \in 0..2
      PROVE  f[n] = IF n = 0 THEN <<>> ELSE TakeUniques(f[n - 1], Lists[n])
  <2>1. f[0] = <<>> /\ f[1] = one /\ f[2] = TakeUniques(one, B)
    OBVIOUS
  <2> HIDE DEF f
  <2>2. n = 0 \/ n = 1 \/ n = 2
    OBVIOUS
  <2>3. CASE n = 0
    BY <2>1, <2>3
  <2>4. CASE n = 1
    <3>1. n - 1 = 0 /\ n # 0
      BY <2>4
    <3> QED BY <1>1, <2>1, <2>4, <3>1
  <2>5. CASE n = 2
    <3>1. n - 1 = 1 /\ n # 0
      BY <2>5
    <3> QED BY <1>1, <2>1, <2>5, <3>1
  <2> QED BY <2>2, <2>3, <2>4, <2>5
<1>4. f = [n \in 0..Len(Lists) |-> IF n = 0 THEN <<>> ELSE TakeUniques(f[n - 1], Lists[n])]
  <2> HIDE DEF one
  <2> QED BY <1>1, <1>3
<1>5. merged = [n \in 0..Len(Lists) |->
                  IF n = 0 THEN <<>> ELSE TakeUniques(merged[n - 1], Lists[n])]
  <2>1. \E g : g = [n \in 0..Len(Lists) |->
                      IF n = 0 THEN <<>> ELSE TakeUniques(g[n - 1], Lists[n])]
    <3> HIDE DEF f
    <3> QED BY <1>4, Zenon
  <2> QED BY <2>1, Zenon
<1> HIDE DEF merged
<1>6. merged[0] = <<>>
  BY <1>1, <1>5
<1>7. merged[1] = TakeUniques(merged[0], A)
  BY <1>1, <1>5
<1>8. merged[2] = TakeUniques(merged[1], B)
  BY <1>1, <1>5
<1> QED BY <1>1, <1>2, <1>6, <1>7, <1>8 DEF Lists

\* A list in two parts is merged into its types, in the order in which they
\* are there for the first time.
LEMMA ConcatUniqueFacts ==
  ASSUME NEW S, NEW L \in Seq(S), NEW c \in 0..Len(L)
  PROVE  LET u == concatUnique(<<SubSeq(L, 1, c), SubSeq(L, c + 1, Len(L))>>)
         IN  u \in Seq(S) /\ IsUniqueOf(u, L, Len(L))
<1> DEFINE A == SubSeq(L, 1, c)
           B == SubSeq(L, c + 1, Len(L))
           v == TakeUniques(<<>>, A)
<1>1. A \in Seq(S) /\ Len(A) = c /\ \A i \in 1..Len(A) : A[i] = L[0 + i]
  OBVIOUS
<1>2. B \in Seq(S) /\ Len(B) = Len(L) - c /\ \A i \in 1..Len(B) : B[i] = L[c + i]
  <2>1. B \in Seq(S) /\ Len(B) = Len(L) - c
    OBVIOUS
  <2>2. \A i \in 1..(Len(L) - c) : B[i] = L[(c + 1) + i - 1] /\ (c + 1) + i - 1 = c + i
    OBVIOUS
  <2> HIDE DEF B
  <2> QED BY <2>1, <2>2
<1>3. Len(L) \in Nat /\ c \in Nat /\ <<>> \in Seq(S)
  OBVIOUS
<1>4. IsUniqueOf(<<>>, L, 0)
  <2>1. Len(<<>>) = 0 /\ \A i \in 1..0 : FALSE
    OBVIOUS
  <2> QED BY <2>1 DEF IsUniqueOf
<1> HIDE DEF A, B
<1>5. v \in Seq(S) /\ IsUniqueOf(v, L, c)
  <2>1. 0 \in 0..Len(L) /\ 0 + Len(A) <= Len(L) /\ 0 + Len(A) = c
    BY <1>1, <1>3
  <2>2. v \in Seq(S) /\ IsUniqueOf(v, L, 0 + Len(A))
    BY <1>1, <1>3, <1>4, <2>1, TakeUniquesFacts
  <2> QED BY <2>1, <2>2
<1> HIDE DEF v
<1>6. TakeUniques(v, B) \in Seq(S) /\ IsUniqueOf(TakeUniques(v, B), L, Len(L))
  <2>1. c + Len(B) <= Len(L) /\ c + Len(B) = Len(L)
    BY <1>2, <1>3
  <2>2. TakeUniques(v, B) \in Seq(S) /\ IsUniqueOf(TakeUniques(v, B), L, c + Len(B))
    BY <1>2, <1>5, <2>1, TakeUniquesFacts
  <2> QED BY <2>1, <2>2
<1>7. concatUnique(<<A, B>>) = TakeUniques(v, B)
  BY ConcatUniqueTwo DEF v
<1> QED BY <1>6, <1>7 DEF A, B

-----------------------------------------------------------------------------
(* The lists of a program *)

\* indexOf finds the first one.
LEMMA IndexIsFirst ==
  ASSUME NEW S, NEW L \in Seq(S), NEW x
  PROVE  /\ x \in Seqs!ToSet(L) <=> \E i \in 1..Len(L) : L[i] = x
         /\ x \in Seqs!ToSet(L) => /\ FirstAt(L, x) \in 1..Len(L)
                                   /\ L[FirstAt(L, x)] = x
                                   /\ \A i \in 1..(FirstAt(L, x) - 1) : L[i] # x
         /\ indexOf(L, x) = IF x \in Seqs!ToSet(L) THEN FirstAt(L, x) - 1 ELSE -1
<1>1. x \in Seqs!ToSet(L) <=> \E i \in 1..Len(L) : L[i] = x
  <2>1. DOMAIN L = 1..Len(L)
    OBVIOUS
  <2> QED BY <2>1 DEF Seqs!ToSet
<1>2. CASE x \in Seqs!ToSet(L)
  <2> DEFINE k == indexOf(L, x)
             F == FirstAt(L, x)
  <2>1. k \in 0..(Len(L) - 1) /\ L[k + 1] = x /\ \A i \in 1..k : L[i] # x
    BY <1>1, <1>2, IndexOfFacts
  <2>2. Len(L) \in Nat /\ k + 1 \in 1..Len(L)
    <3>1. Len(L) \in Nat
      OBVIOUS
    <3> HIDE DEF k
    <3> QED BY <2>1, <3>1
  <2>3. /\ F \in 1..(k + 1) /\ L[F] = x
        /\ \A i \in 1..Len(L) : L[i] = x => F <= i
    BY <2>1, <2>2, FirstAtFacts
  <2> HIDE DEF k, F
  <2>4. F = k + 1
    <3>1. F \in 1..k => FALSE
      BY <2>1, <2>3
    <3> QED BY <2>1, <2>3, <3>1
  <2>5. F \in 1..Len(L) /\ k = F - 1
    BY <2>1, <2>2, <2>4
  <2>6. \A i \in 1..(F - 1) : L[i] # x
    BY <2>1, <2>5
  <2> QED BY <1>1, <1>2, <2>3, <2>5, <2>6 DEF k, F
<1>3. CASE x \notin Seqs!ToSet(L)
  BY <1>1, <1>3, IndexOfFacts
<1> QED BY <1>2, <1>3

\* Looking a key up among pairs finds what the first such key is paired with.
LEMMA PairLookup ==
  ASSUME NEW S, NEW R, NEW A \in Seq(S), NEW B \in Seq(R), Len(A) = Len(B),
         NEW x, NEW D
  PROVE  Lookup([i \in 1..Len(A) |-> <<A[i], B[i]>>], x, D) =
           IF x \in Seqs!ToSet(A) THEN B[FirstAt(A, x)] ELSE D
<1> DEFINE M == [i \in 1..Len(A) |-> <<A[i], B[i]>>]
           F == FirstAt(A, x)
<1>1. \A i \in 1..Len(A) : A[i] \in S /\ B[i] \in R
  OBVIOUS
<1>2. M \in Seq(S \X R) /\ Len(M) = Len(A)
  <2>1. M \in [1..Len(A) -> S \X R]
    BY <1>1
  <2>2. Len(A) \in Nat
    OBVIOUS
  <2> HIDE DEF M
  <2> QED BY <2>1, <2>2
<1>3. \A i \in 1..Len(A) : Head(M[i]) = A[i] /\ M[i][2] = B[i]
  OBVIOUS
<1> HIDE DEF M
<1>4. /\ Contains(M, x) <=> \E i \in 1..Len(M) : Head(M[i]) = x
      /\ \A i \in 1..Len(M) :
              /\ Head(M[i]) = x
              /\ \A j \in 1..(i - 1) : Head(M[j]) # x
              => Lookup(M, x, D) = M[i][2]
      /\ ~ Contains(M, x) => Lookup(M, x, D) = D
  BY <1>2, LookupFacts, Zenon
<1>5. CASE x \in Seqs!ToSet(A)
  <2>1. F \in 1..Len(A) /\ A[F] = x /\ \A i \in 1..(F - 1) : A[i] # x
    BY <1>5, IndexIsFirst
  <2> HIDE DEF F
  <2>2. \A i \in 1..(F - 1) : i \in 1..Len(A)
    BY <2>1
  <2>3. Head(M[F]) = x /\ \A i \in 1..(F - 1) : Head(M[i]) # x
    BY <1>3, <2>1, <2>2
  <2>4. Lookup(M, x, D) = M[F][2]
    BY <1>2, <1>4, <2>1, <2>3
  <2>5. M[F][2] = B[F]
    BY <1>3, <2>1
  <2> QED BY <1>5, <2>4, <2>5 DEF M, F
<1>6. CASE x \notin Seqs!ToSet(A)
  <2>1. ~ \E i \in 1..Len(A) : A[i] = x
    BY <1>6, IndexIsFirst
  <2>2. ~ Contains(M, x)
    BY <1>2, <1>3, <1>4, <2>1
  <2> QED BY <1>4, <1>6, <2>2 DEF M
<1> QED BY <1>5, <1>6

\* What ListsObeyReference asks of the literal holds for every list of
\* characters.
LEMMA ListsObey ==
  ASSUME text \in Seq(Characters)
  PROVE  ListsObeyReference
<1> DEFINE L == text
           Before(i) == SubSeq(L, 1, i)
           After(i) == SubSeq(L, i + 1, Len(L))
<1>1. L \in Seq(Characters) /\ Len(L) \in Nat
  OBVIOUS
<1>2. ASSUME NEW x \in Characters
      PROVE  /\ indexOf(L, x) = IF x \in Seqs!ToSet(L) THEN FirstAt(L, x) - 1 ELSE -1
             /\ removeElement(L, x) =
                  IF x \in Seqs!ToSet(L) THEN Before(FirstAt(L, x) - 1) \o After(FirstAt(L, x))
                  ELSE IllFormed
             /\ Lookup(zip(L, L), x, Nul) = IF x \in Seqs!ToSet(L) THEN x ELSE Nul
  <2> HIDE DEF L
  <2> DEFINE F == FirstAt(L, x)
  <2>1. /\ x \in Seqs!ToSet(L) => /\ F \in 1..Len(L)
                                  /\ L[F] = x
        /\ indexOf(L, x) = IF x \in Seqs!ToSet(L) THEN F - 1 ELSE -1
    BY <1>1, IndexIsFirst
  <2> HIDE DEF F
  <2>2. zip(L, L) = [i \in 1..Len(L) |-> <<L[i], L[i]>>]
    BY <1>1, ZipFacts
  <2>3. Lookup(zip(L, L), x, Nul) = IF x \in Seqs!ToSet(L) THEN L[F] ELSE Nul
    BY <1>1, <2>2, PairLookup DEF F
  <2>4. CASE x \in Seqs!ToSet(L)
    <3>1. F - 1 \in 0..(Len(L) - 1) /\ F - 1 # -1 /\ (F - 1) + 2 = F + 1
      BY <1>1, <2>1, <2>4
    <3>2. contains(L, x) /\ indexOf(L, x) = F - 1
      BY <2>1, <2>4, <3>1 DEF contains
    <3>3. removeAt(L, F - 1) = SubSeq(L, 1, F - 1) \o SubSeq(L, (F - 1) + 2, Len(L))
      BY <1>1, <3>1, RemoveAtFacts
    <3>4. removeElement(L, x) = Before(F - 1) \o After(F)
      BY <3>1, <3>2, <3>3 DEF removeElement
    <3> QED BY <2>1, <2>3, <2>4, <3>4, Zenon DEF F
  <2>5. CASE x \notin Seqs!ToSet(L)
    <3>1. ~ contains(L, x)
      BY <2>1, <2>5 DEF contains
    <3>2. removeElement(L, x) = IllFormed
      BY <3>1 DEF removeElement
    <3> QED BY <2>1, <2>3, <2>5, <3>2, Zenon DEF F
  <2> QED BY <2>4, <2>5
<1>3. ASSUME NEW s \in 0..(Len(L) + 1), NEW e \in 0..(Len(L) + 1)
      PROVE  slice(L, s, e) =
               IF s <= e /\ (e <= Len(L) \/ s = e) THEN SubSeq(L, s + 1, e) ELSE IllFormed
  <2>1. s \in Nat /\ e \in Nat
    BY <1>1
  <2> HIDE DEF L
  <2> QED BY <1>1, <2>1, SliceFacts
<1>4. ASSUME NEW i \in 0..Len(L)
      PROVE  LET uniques == concatUnique(<<Before(i), After(i)>>)
             IN  /\ Seqs!ToSet(uniques) = Seqs!ToSet(L)
                 /\ \A j, k \in DOMAIN uniques :
                      j < k => FirstAt(L, uniques[j]) < FirstAt(L, uniques[k])
  <2> DEFINE u == concatUnique(<<Before(i), After(i)>>)
  <2> HIDE DEF L
  <2>1. u \in Seq(Characters) /\ IsUniqueOf(u, L, Len(L))
    BY <1>1, ConcatUniqueFacts
  <2> HIDE DEF u
  <2>2. DOMAIN u = 1..Len(u) /\ DOMAIN L = 1..Len(L)
    BY <1>1, <2>1
  <2>3. Seqs!ToSet(u) = Seqs!ToSet(L)
    <3>1. ASSUME NEW j \in 1..Len(u)
          PROVE  u[j] \in {L[k] : k \in 1..Len(L)}
      BY <2>1 DEF IsUniqueOf
    <3>2. ASSUME NEW k \in 1..Len(L)
          PROVE  L[k] \in {u[j] : j \in 1..Len(u)}
      BY <2>1 DEF IsUniqueOf
    <3>3. {u[j] : j \in 1..Len(u)} = {L[k] : k \in 1..Len(L)}
      BY <3>1, <3>2, Zenon
    <3> QED BY <2>2, <3>3 DEF Seqs!ToSet
  <2>4. \A j, k \in DOMAIN u : j < k => FirstAt(L, u[j]) < FirstAt(L, u[k])
    BY <2>1, <2>2 DEF IsUniqueOf
  <2> QED BY <2>3, <2>4 DEF u
<1>5. ASSUME NEW x \in Characters
      PROVE  LET keys == transform(index(L), LAMBDA p : p[2])
                 map == transform(index(L), LAMBDA p : <<p[2], p[1]>>)
             IN  Lookup(map, x, -1) = indexOf(L, x) /\ keys = L
  <2> HIDE DEF L
  <2> DEFINE I == [i \in 1..Len(L) |-> i - 1]
             F == FirstAt(L, x)
             keys == [i \in DOMAIN index(L) |-> index(L)[i][2]]
             map == [i \in DOMAIN index(L) |-> <<index(L)[i][2], index(L)[i][1]>>]
  <2>1. index(L) = [i \in 1..Len(L) |-> <<i - 1, L[i]>>]
    BY <1>1, IndexFacts
  <2>2. keys = L
    <3>1. keys = [i \in 1..Len(L) |-> L[i]]
      BY <2>1
    <3> QED BY <1>1, <3>1
  <2>3. I \in Seq(Nat) /\ Len(I) = Len(L) /\ \A i \in 1..Len(L) : I[i] = i - 1
    BY <1>1
  <2>4. map = [i \in 1..Len(L) |-> <<L[i], I[i]>>]
    BY <2>1, <2>3
  <2> HIDE DEF I, keys, map
  <2>5. Lookup(map, x, -1) = IF x \in Seqs!ToSet(L) THEN I[F] ELSE -1
    BY <1>1, <2>3, <2>4, PairLookup
  <2>6. /\ x \in Seqs!ToSet(L) => F \in 1..Len(L)
        /\ indexOf(L, x) = IF x \in Seqs!ToSet(L) THEN F - 1 ELSE -1
    BY <1>1, IndexIsFirst
  <2> HIDE DEF F
  <2>7. Lookup(map, x, -1) = indexOf(L, x)
    BY <2>3, <2>5, <2>6
  <2> QED BY <2>2, <2>7 DEF keys, map, transform
<1> HIDE DEF L
<1>6. L = text
  BY DEF L
<1> QED BY <1>2, <1>3, <1>4, <1>5, <1>6, ZenonT(90) DEF ListsObeyReference

\* The literal is a string of the program's characters.
TextInv == text \in Seq(Characters)

LEMMA TextIsTyped == Spec => []TextInv
<1>1. Init => TextInv
  BY DEF Init, TextInv
<1>2. TextInv /\ [Next]_vars => TextInv'
  <2> SUFFICES ASSUME TextInv, [Next]_vars
               PROVE  TextInv'
    OBVIOUS
  <2>1. ASSUME NEW c \in Characters, text' = Append(text, c)
        PROVE  TextInv'
    BY <2>1 DEF TextInv
  <2>2. CASE UNCHANGED text
    BY <2>2 DEF TextInv
  <2> QED BY <2>1, <2>2 DEF Next, vars, DeclareTag, DeclareSubmodule, AdvertiseApi, WriteCharacter
<1> QED BY <1>1, <1>2, PTL DEF Spec

\* The templates of TypeList compute what their names say, for every list of
\* any length: where a type is, a list without it, the part between two
\* indexes, the merging of lists without duplicates, and the value of a key
\* (indexOf, removeElement, slice, concatUnique, zip, index, Lookup).
THEOREM ListsAlwaysObey == Spec => []ListsObeyReference
<1>1. TextInv => ListsObeyReference
  BY ListsObey DEF TextInv
<1> QED BY <1>1, TextIsTyped, PTL

-----------------------------------------------------------------------------
(* StrT *)

\* The part of a string from its n-th character on.
LEMMA FromNext ==
  ASSUME NEW S, NEW C \in Seq(S), NEW k \in 0..Len(C), NEW n \in 1..k
  PROVE  concat(<<C[n]>>, SubSeq(C, n + 1, k)) = SubSeq(C, n, k)
<1> DEFINE A == SubSeq(C, n + 1, k)
           B == SubSeq(C, n, k)
           x == C[n]
           X == concat(<<x>>, A)
<1>1. n \in Nat /\ k \in Nat /\ Len(C) \in Nat /\ x \in S
  OBVIOUS
<1>2. A \in Seq(S) /\ Len(A) = k - n /\ \A i \in 1..(k - n) : A[i] = C[n + i]
  <2>1. A \in Seq(S) /\ Len(A) = k - n
    BY <1>1
  <2>2. \A i \in 1..(k - n) : A[i] = C[(n + 1) + i - 1] /\ (n + 1) + i - 1 = n + i
    BY <1>1
  <2> HIDE DEF A
  <2> QED BY <2>1, <2>2
<1>3. /\ B \in Seq(S) /\ Len(B) = (k - n) + 1
      /\ \A i \in 1..((k - n) + 1) : B[i] = C[n + i - 1]
  <2>1. B \in Seq(S) /\ Len(B) = (k - n) + 1
    BY <1>1
  <2>2. \A i \in 1..((k - n) + 1) : B[i] = C[n + i - 1]
    BY <1>1
  <2> HIDE DEF B
  <2> QED BY <2>1, <2>2
<1> HIDE DEF A, B, x
<1>4. /\ X \in Seq(S) /\ Len(X) = Len(A) + 1 /\ X[1] = x
      /\ \A i \in 1..Len(A) : X[i + 1] = A[i]
  <2>1. A \in Seq(S) /\ x \in S
    BY <1>1, <1>2
  <2> QED BY <2>1 DEF concat
<1> HIDE DEF X
<1>5. ASSUME NEW i \in 1..((k - n) + 1)
      PROVE  X[i] = B[i]
  <2>1. CASE i = 1
    <3>1. n + 1 - 1 = n
      BY <1>1
    <3> QED BY <1>3, <1>4, <2>1, <3>1 DEF x
  <2>2. CASE i # 1
    <3>1. i - 1 \in 1..(k - n) /\ (i - 1) + 1 = i /\ n + (i - 1) = n + i - 1
      BY <1>1, <2>2
    <3>2. X[i] = A[i - 1]
      BY <1>2, <1>4, <3>1
    <3>3. A[i - 1] = C[n + i - 1]
      BY <1>2, <3>1
    <3> QED BY <1>3, <3>2, <3>3
  <2> QED BY <2>1, <2>2
<1>6. X = B
  <2>1. Len(X) = Len(B)
    BY <1>2, <1>3, <1>4
  <2> QED BY <1>3, <1>4, <1>5, <2>1
<1> QED BY <1>6 DEF A, B, x, X

PokeStep(f, C, n) == IF n > Len(C) \/ C[n] = Nul THEN <<>> ELSE concat(<<C[n]>>, f[n + 1])

LEMMA TypeekRecursion ==
  ASSUME NEW S, NEW C \in Seq(S)
  PROVE  \E f : /\ f = [n \in 1..(Len(C) + 1) |-> PokeStep(f, C, n)]
                /\ typeek(C) = f[1]
<1> DEFINE N == Len(C)
           V == Seq(S)
           G == [p \in (1..N) \X V |->
                   IF C[p[1]] = Nul THEN <<>> ELSE concat(<<C[p[1]]>>, p[2])]
           typoke[n \in 1..(Len(C) + 1)] ==
             IF n > Len(C) \/ C[n] = Nul THEN <<>> ELSE concat(<<C[n]>>, typoke[n + 1])
<1>1. typeek(C) = typoke[1]
  BY Zenon DEF typeek
<1>2. N \in Nat /\ <<>> \in V
  OBVIOUS
<1>3. G \in [(1..N) \X V -> V]
  <2>1. ASSUME NEW p \in (1..N) \X V
        PROVE  (IF C[p[1]] = Nul THEN <<>> ELSE concat(<<C[p[1]]>>, p[2])) \in V
    <3> DEFINE x == C[p[1]]
    <3>1. p[2] \in Seq(S) /\ x \in S
      OBVIOUS
    <3> HIDE DEF x
    <3>2. concat(<<x>>, p[2]) \in Seq(S)
      BY <3>1, PrependFacts
    <3> QED BY <1>2, <3>2 DEF x
  <2> QED BY <2>1, Zenon
<1>4. PICK f \in [1..(N + 1) -> V] : GoesDown(f, N, <<>>, G)
  <2> HIDE DEF G, N, V
  <2> QED BY <1>2, <1>3, RecursionDownFrom
<1>5. f = [n \in 1..(N + 1) |-> IF n > N THEN <<>> ELSE G[<<n, f[n + 1]>>]]
  <2> HIDE DEF G, N, V
  <2> QED BY <1>4, Zenon DEF GoesDown
<1>6. ASSUME NEW n \in 1..(N + 1)
      PROVE  f[n] = PokeStep(f, C, n)
  <2>1. CASE n > N
    <3> HIDE DEF G, V
    <3> QED BY <1>5, <2>1 DEF PokeStep
  <2>2. CASE ~ (n > N)
    <3>1. n \in 1..N /\ n + 1 \in 1..(N + 1)
      BY <1>2, <2>2
    <3>2. <<n, f[n + 1]>> \in (1..N) \X V
      <4> HIDE DEF V, N
      <4> QED BY <1>4, <3>1
    <3>3. f[n] = G[<<n, f[n + 1]>>]
      <4> HIDE DEF G, V
      <4> QED BY <1>5, <2>2
    <3>4. G[<<n, f[n + 1]>>] = IF C[n] = Nul THEN <<>> ELSE concat(<<C[n]>>, f[n + 1])
      <4> HIDE DEF V, N
      <4> QED BY <3>2
    <3> HIDE DEF G
    <3> QED BY <2>2, <3>3, <3>4, Zenon DEF PokeStep
  <2> QED BY <2>1, <2>2
<1>7. f = [n \in 1..(Len(C) + 1) |-> PokeStep(f, C, n)]
  <2> HIDE DEF V
  <2> QED BY <1>4, <1>6
<1>8. typoke = [n \in 1..(Len(C) + 1) |-> PokeStep(typoke, C, n)]
  <2>1. \E g : g = [n \in 1..(Len(C) + 1) |->
             IF n > Len(C) \/ C[n] = Nul THEN <<>> ELSE concat(<<C[n]>>, g[n + 1])]
    BY <1>7, Zenon DEF PokeStep
  <2>2. typoke = [n \in 1..(Len(C) + 1) |->
             IF n > Len(C) \/ C[n] = Nul THEN <<>> ELSE concat(<<C[n]>>, typoke[n + 1])]
    BY <2>1, Zenon
  <2> HIDE DEF typoke
  <2> QED BY <2>2, Zenon DEF PokeStep
<1> HIDE DEF typoke
<1> QED BY <1>1, <1>8

\* typeek stops at the first terminator.
LEMMA TypeekFacts ==
  ASSUME NEW S, NEW C \in Seq(S), NEW k \in 0..Len(C),
         \A i \in 1..k : C[i] # Nul, k = Len(C) \/ C[k + 1] = Nul
  PROVE  typeek(C) = SubSeq(C, 1, k)
<1>1. PICK f : /\ f = [n \in 1..(Len(C) + 1) |-> PokeStep(f, C, n)]
               /\ typeek(C) = f[1]
  BY TypeekRecursion, Zenon
<1>2. k \in Nat /\ Len(C) \in Nat
  OBVIOUS
<1> DEFINE T == {n \in 1..(k + 1) : f[n] = SubSeq(C, n, k)}
<1>3. k + 1 \in T
  <2>1. SubSeq(C, k + 1, k) = <<>>
    BY <1>2
  <2>2. k + 1 \in 1..(Len(C) + 1) /\ (k + 1 > Len(C) \/ C[k + 1] = Nul)
    BY <1>2
  <2>3. f[k + 1] = PokeStep(f, C, k + 1)
    BY <1>1, <2>2, Zenon
  <2>4. f[k + 1] = <<>>
    BY <2>2, <2>3, Zenon DEF PokeStep
  <2>5. k + 1 \in 1..(k + 1)
    BY <1>2
  <2> QED BY <2>1, <2>4, <2>5, Zenon
<1>4. ASSUME NEW n \in 1..k, n + 1 \in T
      PROVE  n \in T
  <2>1. n \in 1..(Len(C) + 1) /\ ~ (n > Len(C)) /\ C[n] # Nul
    BY <1>2
  <2>2. f[n] = PokeStep(f, C, n)
    BY <1>1, <2>1, Zenon
  <2>3. f[n] = concat(<<C[n]>>, f[n + 1])
    BY <2>1, <2>2, Zenon DEF PokeStep
  <2>4. f[n + 1] = SubSeq(C, n + 1, k)
    BY <1>4
  <2>5. f[n] = SubSeq(C, n, k)
    BY <2>3, <2>4, FromNext
  <2> QED BY <1>2, <2>5
<1>5. 1..(k + 1) \subseteq T
  <2> HIDE DEF T
  <2> QED BY <1>2, <1>3, <1>4, InductionDownFrom
<1>6. f[1] = SubSeq(C, 1, k)
  <2>1. 1 \in 1..(k + 1)
    BY <1>2
  <2> QED BY <1>5, <2>1
<1> QED BY <1>1, <1>6

\* The smaller of two numbers.
LEMMA MinOfTwo ==
  ASSUME NEW a \in Nat, NEW b \in Nat
  PROVE  Min({a, b}) = IF a <= b THEN a ELSE b
<1> DEFINE m == IF a <= b THEN a ELSE b
<1>1. m \in {a, b} /\ \A y \in {a, b} : m <= y
  OBVIOUS
<1>2. \A x \in {a, b} : (\A y \in {a, b} : x <= y) => x = m
  OBVIOUS
<1> HIDE DEF m
<1>3. Min({a, b}) = m
  BY <1>1, <1>2, Zenon DEF Min
<1> QED BY <1>3 DEF m

\* StrT is the literal as far as its capacity goes.
LEMMA StrTFacts ==
  ASSUME NEW S, Nul \notin S, NEW literal \in Seq(S)
  PROVE  StrT(literal) = SubSeq(literal, 1, Min({Len(literal), Capacity}))
<1> DEFINE R == S \cup {Nul}
           C == [n \in 1..Capacity |-> tygrab(literal, n - 1)]
           k == Min({Len(literal), Capacity})
<1>1. Len(literal) \in Nat /\ Capacity \in Nat
  BY ApiAssumption
<1>2. k = IF Len(literal) <= Capacity THEN Len(literal) ELSE Capacity
  BY <1>1, MinOfTwo
<1> HIDE DEF k
<1>3. k \in Nat /\ k <= Len(literal) /\ k <= Capacity /\ (k = Len(literal) \/ k = Capacity)
  BY <1>1, <1>2
<1>4. ASSUME NEW n \in 1..Capacity
      PROVE  tygrab(literal, n - 1) = IF n <= Len(literal) THEN literal[n] ELSE Nul
  <2>1. (n - 1 < Len(literal)) <=> (n <= Len(literal))
    BY <1>1
  <2>2. (n - 1) + 1 = n
    BY <1>1
  <2> QED BY <2>1, <2>2, Zenon DEF tygrab
<1>5. C \in Seq(R) /\ Len(C) = Capacity
  <2>1. ASSUME NEW n \in 1..Capacity
        PROVE  tygrab(literal, n - 1) \in R
    <3>1. CASE n <= Len(literal)
      <4>1. n \in 1..Len(literal)
        BY <1>1, <3>1
      <4>2. literal[n] \in S
        BY <4>1
      <4> QED BY <1>4, <3>1, <4>2
    <3>2. CASE ~ (n <= Len(literal))
      BY <1>4, <3>2
    <3> QED BY <3>1, <3>2
  <2>2. C \in [1..Capacity -> R]
    <3> HIDE DEF R
    <3> QED BY <2>1, Zenon
  <2> HIDE DEF C, R
  <2> QED BY <1>1, <2>2
<1>6. \A n \in 1..Capacity : C[n] = IF n <= Len(literal) THEN literal[n] ELSE Nul
  BY <1>4
<1> HIDE DEF C, R
<1>7. ASSUME NEW i \in 1..k
      PROVE  C[i] = literal[i] /\ C[i] # Nul
  <2>1. i \in 1..Capacity /\ i <= Len(literal) /\ i \in 1..Len(literal)
    BY <1>1, <1>3
  <2>2. literal[i] \in S
    BY <2>1
  <2> QED BY <1>6, <2>1, <2>2
<1>8. k = Len(C) \/ C[k + 1] = Nul
  <2>1. CASE k = Capacity
    BY <1>5, <2>1
  <2>2. CASE k # Capacity
    <3>1. k + 1 \in 1..Capacity /\ ~ (k + 1 <= Len(literal))
      BY <1>1, <1>3, <2>2
    <3> QED BY <1>6, <3>1
  <2> QED BY <2>1, <2>2
<1>9. typeek(C) = SubSeq(C, 1, k)
  <2>1. k \in 0..Len(C)
    BY <1>1, <1>3, <1>5
  <2> QED BY <1>5, <1>7, <1>8, <2>1, TypeekFacts
<1>10. SubSeq(C, 1, k) = SubSeq(literal, 1, k)
  <2>1. /\ SubSeq(C, 1, k) = [i \in 1..k |-> C[i]]
    BY <1>3, <1>5
  <2>2. /\ SubSeq(literal, 1, k) = [i \in 1..k |-> literal[i]]
    BY <1>3
  <2> QED BY <1>7, <2>1, <2>2
<1>11. StrT(literal) = typeek(C)
  BY DEF StrT, C
<1> QED BY <1>9, <1>10, <1>11 DEF k

-----------------------------------------------------------------------------
(* SplitStringT *)

\* The arguments of the templates once n characters are off the string.
SplitStep(f, str, n) ==
    IF n = 0 THEN [current |-> <<>>, result |-> <<>>]
    ELSE IF str[n] # Delimiter
    THEN [current |-> append(f[n - 1].current, str[n]), result |-> f[n - 1].result]
    ELSE [current |-> <<>>,
          result |-> IF f[n - 1].current = <<>> THEN f[n - 1].result
                     ELSE append(f[n - 1].result, f[n - 1].current)]

\* What they make of it at the end of the string.
SplitEnd(s) == IF length(s.current) # 0 THEN append(s.result, s.current) ELSE s.result

LEMMA SplitRecursion ==
  ASSUME NEW S, NEW str \in Seq(S)
  PROVE  \E f : /\ f = [n \in 0..Len(str) |-> SplitStep(f, str, n)]
                /\ SplitStringT(str) = SplitEnd(f[Len(str)])
<1> DEFINE N == Len(str)
           V == [current : Seq(S), result : Seq(Seq(S))]
           Init0 == [current |-> <<>>, result |-> <<>>]
           Go(s, x) ==
             IF x # Delimiter THEN [current |-> append(s.current, x), result |-> s.result]
             ELSE [current |-> <<>>,
                   result |-> IF s.current = <<>> THEN s.result
                              ELSE append(s.result, s.current)]
           G == [p \in (1..N) \X V |-> Go(p[2], str[p[1]])]
           impl[n \in 0..Len(str)] ==
             IF n = 0 THEN [current |-> <<>>, result |-> <<>>]
             ELSE IF str[n] # Delimiter
             THEN [current |-> append(impl[n - 1].current, str[n]), result |-> impl[n - 1].result]
             ELSE [current |-> <<>>,
                   result |-> IF impl[n - 1].current = <<>> THEN impl[n - 1].result
                              ELSE append(impl[n - 1].result, impl[n - 1].current)]
<1>1. SplitStringT(str) = SplitEnd(impl[Len(str)])
  BY Zenon DEF SplitStringT, SplitEnd
<1>2. N \in Nat /\ Init0 \in V
  OBVIOUS
<1>3. ASSUME NEW s \in V, NEW x \in S
      PROVE  Go(s, x) \in V
  <2>1. s.current \in Seq(S) /\ s.result \in Seq(Seq(S)) /\ <<>> \in Seq(S)
    OBVIOUS
  <2>2. append(s.current, x) \in Seq(S)
    BY <2>1, AppendFacts
  <2>3. append(s.result, s.current) \in Seq(Seq(S))
    <3> DEFINE Q == Seq(S)
    <3> HIDE DEF Q
    <3>1. s.current \in Q /\ s.result \in Seq(Q)
      BY <2>1 DEF Q
    <3>2. append(s.result, s.current) \in Seq(Q)
      BY <3>1, AppendFacts
    <3> QED BY <3>2 DEF Q
  <2> QED BY <2>1, <2>2, <2>3
<1> HIDE DEF Go, V
<1>4. G \in [(1..N) \X V -> V]
  <2>1. ASSUME NEW p \in (1..N) \X V
        PROVE  Go(p[2], str[p[1]]) \in V
    <3>1. p[2] \in V /\ str[p[1]] \in S
      OBVIOUS
    <3> QED BY <1>3, <3>1
  <2> QED BY <2>1, Zenon
<1>5. PICK f \in [0..N -> V] : GoesUp(f, N, Init0, G)
  <2> HIDE DEF G, N, Init0
  <2> QED BY <1>2, <1>4, RecursionIn
<1>6. f = [n \in 0..N |-> IF n = 0 THEN Init0 ELSE G[<<n, f[n - 1]>>]]
  <2> HIDE DEF G, N, Init0
  <2> QED BY <1>5, Zenon DEF GoesUp
<1>7. ASSUME NEW n \in 0..N
      PROVE  f[n] = SplitStep(f, str, n)
  <2>1. CASE n = 0
    BY <1>6, <2>1, Zenon DEF SplitStep
  <2>2. CASE n # 0
    <3>1. n \in 1..N /\ n - 1 \in 0..N
      BY <1>2, <2>2
    <3>2. <<n, f[n - 1]>> \in (1..N) \X V
      <4> HIDE DEF N
      <4> QED BY <1>5, <3>1
    <3>3. f[n] = G[<<n, f[n - 1]>>]
      <4> HIDE DEF G, Init0
      <4> QED BY <1>6, <2>2
    <3>4. G[<<n, f[n - 1]>>] = Go(f[n - 1], str[n])
      <4> HIDE DEF N
      <4> QED BY <3>2
    <3> HIDE DEF G
    <3> QED BY <2>2, <3>3, <3>4, Zenon DEF SplitStep, Go
  <2> QED BY <2>1, <2>2
<1>8. f = [n \in 0..Len(str) |-> SplitStep(f, str, n)]
  BY <1>5, <1>7
<1>9. impl = [n \in 0..Len(str) |-> SplitStep(impl, str, n)]
  <2>1. \E g : g = [n \in 0..Len(str) |->
             IF n = 0 THEN [current |-> <<>>, result |-> <<>>]
             ELSE IF str[n] # Delimiter
             THEN [current |-> append(g[n - 1].current, str[n]), result |-> g[n - 1].result]
             ELSE [current |-> <<>>,
                   result |-> IF g[n - 1].current = <<>> THEN g[n - 1].result
                              ELSE append(g[n - 1].result, g[n - 1].current)]]
    BY <1>8, Zenon DEF SplitStep
  <2>2. impl = [n \in 0..Len(str) |->
             IF n = 0 THEN [current |-> <<>>, result |-> <<>>]
             ELSE IF str[n] # Delimiter
             THEN [current |-> append(impl[n - 1].current, str[n]), result |-> impl[n - 1].result]
             ELSE [current |-> <<>>,
                   result |-> IF impl[n - 1].current = <<>> THEN impl[n - 1].result
                              ELSE append(impl[n - 1].result, impl[n - 1].current)]]
    BY <2>1, Zenon
  <2> HIDE DEF impl
  <2> QED BY <2>2, Zenon DEF SplitStep
<1> HIDE DEF impl
<1> QED BY <1>1, <1>9

\* The words of a string, from where to where.
Runs(q) == {r \in (1..Len(q)) \X (1..Len(q)) :
               /\ r[1] <= r[2]
               /\ \A i \in r[1]..r[2] : q[i] # Delimiter
               /\ r[1] = 1 \/ q[r[1] - 1] = Delimiter
               /\ r[2] = Len(q) \/ q[r[2] + 1] = Delimiter}

\* Those before the n-th character, and those up to one of them.
RunsBefore(q, n) == {r \in Runs(q) : r[2] < n}
RunsUpTo(q, r) == {p \in Runs(q) : p[1] <= r[1]}

\* Of two words one ends before the other starts.
LEMMA RunsInOrder ==
  ASSUME NEW S, NEW q \in Seq(S), NEW p \in Runs(q), NEW r \in Runs(q), p[1] <= r[1]
  PROVE  p = r \/ p[2] < r[1]
<1>1. /\ Len(q) \in Nat
      /\ p[1] \in 1..Len(q) /\ p[2] \in 1..Len(q) /\ r[1] \in 1..Len(q) /\ r[2] \in 1..Len(q)
      /\ p = <<p[1], p[2]>> /\ r = <<r[1], r[2]>>
  BY DEF Runs
<1>2. /\ p[1] <= p[2] /\ \A i \in p[1]..p[2] : q[i] # Delimiter
      /\ p[2] = Len(q) \/ q[p[2] + 1] = Delimiter
  BY DEF Runs
<1>3. /\ r[1] <= r[2] /\ \A i \in r[1]..r[2] : q[i] # Delimiter
      /\ r[1] = 1 \/ q[r[1] - 1] = Delimiter
      /\ r[2] = Len(q) \/ q[r[2] + 1] = Delimiter
  BY DEF Runs
<1>4. CASE p[1] = r[1]
  <2>1. ~ (p[2] < r[2])
    <3>1. p[2] < r[2] => p[2] + 1 \in r[1]..r[2] /\ p[2] # Len(q)
      BY <1>1, <1>2, <1>4
    <3> QED BY <1>2, <1>3, <3>1
  <2>2. ~ (r[2] < p[2])
    <3>1. r[2] < p[2] => r[2] + 1 \in p[1]..p[2] /\ r[2] # Len(q)
      BY <1>1, <1>3, <1>4
    <3> QED BY <1>2, <1>3, <3>1
  <2>3. p[2] = r[2]
    BY <1>1, <2>1, <2>2
  <2> QED BY <1>1, <1>4, <2>3
<1>5. CASE p[1] # r[1]
  <2>1. p[1] < r[1] /\ r[1] # 1
    BY <1>1, <1>5
  <2>2. q[r[1] - 1] = Delimiter
    BY <1>3, <2>1
  <2>3. r[1] - 1 \notin p[1]..p[2]
    BY <1>2, <2>2
  <2> QED BY <1>1, <2>1, <2>3
<1> QED BY <1>4, <1>5

\* There are finitely many words.
LEMMA RunsFinite ==
  ASSUME NEW S, NEW q \in Seq(S)
  PROVE  /\ IsFiniteSet(Runs(q))
         /\ \A n : IsFiniteSet(RunsBefore(q, n))
         /\ \A r : IsFiniteSet(RunsUpTo(q, r))
<1> DEFINE D == 1..Len(q)
<1>1. IsFiniteSet(D)
  BY FS_Interval
<1>2. IsFiniteSet(D \X D)
  <2> HIDE DEF D
  <2> QED BY <1>1, FS_Product
<1>3. Runs(q) \subseteq D \X D
  BY DEF Runs
<1>4. IsFiniteSet(Runs(q))
  <2> HIDE DEF D
  <2> QED BY <1>2, <1>3, FS_Subset
<1>5. \A n : RunsBefore(q, n) \subseteq Runs(q)
  BY DEF RunsBefore
<1>6. \A r : RunsUpTo(q, r) \subseteq Runs(q)
  BY DEF RunsUpTo
<1> QED BY <1>4, <1>5, <1>6, FS_Subset

\* A word's number is one of those of the words collected with it.
LEMMA RunNumber ==
  ASSUME NEW S, NEW q \in Seq(S), NEW n \in Nat, NEW r \in RunsBefore(q, n)
  PROVE  /\ Cardinality(RunsBefore(q, n)) \in Nat
         /\ Cardinality(RunsUpTo(q, r)) \in 1..Cardinality(RunsBefore(q, n))
<1> DEFINE B == RunsBefore(q, n)
           U == RunsUpTo(q, r)
<1>1. r \in Runs(q) /\ r[2] < n
  BY DEF RunsBefore
<1>2. U \subseteq B
  <2> SUFFICES ASSUME NEW p \in U
               PROVE  p \in B
    OBVIOUS
  <2>1. p \in Runs(q) /\ p[1] <= r[1]
    BY DEF RunsUpTo
  <2>2. p = r \/ p[2] < r[1]
    BY <1>1, <2>1, RunsInOrder
  <2>3. r[1] \in Nat /\ r[2] \in Nat /\ r[1] <= r[2] /\ p[2] \in Nat
    BY <1>1, <2>1 DEF Runs
  <2>4. p[2] < n
    BY <1>1, <2>2, <2>3
  <2> QED BY <2>1, <2>4 DEF RunsBefore
<1>3. IsFiniteSet(B) /\ IsFiniteSet(U)
  BY RunsFinite
<1>4. r \in U
  <2>1. r[1] \in Nat
    BY <1>1 DEF Runs
  <2> QED BY <1>1, <2>1 DEF RunsUpTo
<1> HIDE DEF B, U
<1>5. Cardinality(B) \in Nat /\ Cardinality(U) \in Nat /\ Cardinality(U) <= Cardinality(B)
  BY <1>2, <1>3, FS_Subset, FS_CardinalityType
<1>6. Cardinality(U) # 0
  BY <1>3, <1>4, FS_EmptySet
<1> QED BY <1>5, <1>6 DEF B, U

\* w are the words before the n-th character.
AreWordsBefore(w, q, n) ==
    /\ Len(w) = Cardinality(RunsBefore(q, n))
    /\ \A r \in RunsBefore(q, n) :
          w[Cardinality(RunsUpTo(q, r))] = SubSeq(q, r[1], r[2])

\* No delimiter stands after c, and one at c unless nothing does.
OpenSince(q, c, n) ==
    /\ c = 0 \/ q[c] = Delimiter
    /\ \A i \in (c + 1)..n : q[i] # Delimiter

\* Where no word ends at the n-th character, there is none to collect.
LEMMA NoWordEnds ==
  ASSUME NEW S, NEW q \in Seq(S), NEW n \in 0..Len(q),
         \/ n = 0
         \/ q[n] = Delimiter
         \/ n < Len(q) /\ q[n + 1] # Delimiter
  PROVE  RunsBefore(q, n + 1) = RunsBefore(q, n)
<1>1. Len(q) \in Nat /\ n \in Nat
  OBVIOUS
<1>2. ASSUME NEW r \in Runs(q)
      PROVE  (r[2] < n + 1) <=> (r[2] < n)
  <2>1. /\ r[1] \in 1..Len(q) /\ r[2] \in 1..Len(q) /\ r[1] <= r[2]
        /\ \A i \in r[1]..r[2] : q[i] # Delimiter
        /\ r[2] = Len(q) \/ q[r[2] + 1] = Delimiter
    BY DEF Runs
  <2>2. r[2] \in r[1]..r[2]
    BY <2>1
  <2>3. q[r[2]] # Delimiter
    BY <2>1, <2>2
  <2>4. r[2] # n
    BY <1>1, <2>1, <2>3
  <2> QED BY <1>1, <2>1, <2>4
<1> QED BY <1>2 DEF RunsBefore

\* Where one does, it comes after all others.
LEMMA WordEnds ==
  ASSUME NEW S, NEW q \in Seq(S), NEW n \in 1..Len(q), NEW c \in 0..(n - 1),
         OpenSince(q, c, n), n = Len(q) \/ q[n + 1] = Delimiter
  PROVE  /\ <<c + 1, n>> \notin RunsBefore(q, n)
         /\ RunsBefore(q, n + 1) = RunsBefore(q, n) \cup {<<c + 1, n>>}
         /\ RunsUpTo(q, <<c + 1, n>>) = RunsBefore(q, n + 1)
<1> DEFINE r == <<c + 1, n>>
<1>1. /\ Len(q) \in Nat /\ n \in Nat /\ c \in Nat /\ c < n
      /\ r[1] = c + 1 /\ r[2] = n
  OBVIOUS
<1>2. r \in Runs(q)
  <2>1. r \in (1..Len(q)) \X (1..Len(q)) /\ c + 1 <= n
    BY <1>1
  <2>2. c + 1 = 1 \/ q[(c + 1) - 1] = Delimiter
    <3>1. (c + 1) - 1 = c
      BY <1>1
    <3> QED BY <1>1, <3>1 DEF OpenSince
  <2>3. \A i \in (c + 1)..n : q[i] # Delimiter
    BY DEF OpenSince
  <2> HIDE DEF r
  <2> QED BY <1>1, <2>1, <2>2, <2>3 DEF Runs
<1> HIDE DEF r
<1>3. r \notin RunsBefore(q, n)
  BY <1>1 DEF RunsBefore
<1>4. ASSUME NEW p \in Runs(q)
      PROVE  /\ p[2] < n + 1 => p[1] <= c + 1
             /\ p[1] <= c + 1 => p = r \/ p[2] < n
             /\ p[2] < n => p[2] < n + 1
  <2>1. /\ p[1] \in 1..Len(q) /\ p[2] \in 1..Len(q) /\ p[1] <= p[2]
        /\ p[1] = 1 \/ q[p[1] - 1] = Delimiter
    BY DEF Runs
  <2>2. ASSUME p[2] < n + 1, ~ (p[1] <= c + 1)
        PROVE  FALSE
    <3>1. p[1] - 1 \in (c + 1)..n /\ p[1] # 1
      BY <1>1, <2>1, <2>2
    <3>2. q[p[1] - 1] # Delimiter
      BY <3>1 DEF OpenSince
    <3> QED BY <2>1, <3>1, <3>2
  <2>3. ASSUME p[1] <= c + 1
        PROVE  p = r \/ p[2] < n
    <3>1. p[1] <= r[1]
      BY <1>1, <2>3
    <3>2. p = r \/ p[2] < r[1]
      BY <1>2, <3>1, RunsInOrder
    <3> QED BY <1>1, <2>1, <3>2
  <2>4. p[2] < n => p[2] < n + 1
    BY <1>1, <2>1
  <2> QED BY <2>2, <2>3, <2>4
<1>5. RunsBefore(q, n + 1) = RunsBefore(q, n) \cup {r}
  <2>1. ASSUME NEW p \in RunsBefore(q, n + 1)
        PROVE  p \in RunsBefore(q, n) \cup {r}
    BY <1>4, <2>1 DEF RunsBefore
  <2>2. RunsBefore(q, n) \subseteq RunsBefore(q, n + 1)
    BY <1>4 DEF RunsBefore
  <2>3. r \in RunsBefore(q, n + 1)
    BY <1>1, <1>2 DEF RunsBefore
  <2> QED BY <2>1, <2>2, <2>3
<1>6. RunsUpTo(q, r) = RunsBefore(q, n + 1)
  <2>1. ASSUME NEW p \in RunsUpTo(q, r)
        PROVE  p \in RunsBefore(q, n + 1)
    <3>1. p \in Runs(q) /\ p[1] <= c + 1
      BY <1>1, <2>1 DEF RunsUpTo
    <3>2. p = r \/ p \in RunsBefore(q, n)
      BY <1>4, <3>1 DEF RunsBefore
    <3> QED BY <1>5, <3>2
  <2>2. ASSUME NEW p \in RunsBefore(q, n + 1)
        PROVE  p \in RunsUpTo(q, r)
    BY <1>1, <1>4, <2>2 DEF RunsBefore, RunsUpTo
  <2> QED BY <2>1, <2>2
<1> QED BY <1>3, <1>5, <1>6 DEF r

\* So it is the next word.
LEMMA WordCollected ==
  ASSUME NEW S, NEW q \in Seq(S), NEW n \in 1..Len(q), NEW c \in 0..(n - 1),
         OpenSince(q, c, n), n = Len(q) \/ q[n + 1] = Delimiter,
         NEW w \in Seq(Seq(S)), AreWordsBefore(w, q, n)
  PROVE  /\ append(w, SubSeq(q, c + 1, n)) \in Seq(Seq(S))
         /\ AreWordsBefore(append(w, SubSeq(q, c + 1, n)), q, n + 1)
<1> DEFINE r == <<c + 1, n>>
           B == RunsBefore(q, n)
           x == SubSeq(q, c + 1, n)
           v == append(w, x)
           Q == Seq(S)
<1>1. n \in Nat /\ x \in Seq(S) /\ r[1] = c + 1 /\ r[2] = n
  OBVIOUS
<1>2. r \notin B /\ RunsBefore(q, n + 1) = B \cup {r} /\ RunsUpTo(q, r) = B \cup {r}
  BY WordEnds
<1>3. IsFiniteSet(B)
  BY RunsFinite
<1>4. Len(w) = Cardinality(B)
  BY DEF AreWordsBefore
<1>5. /\ \A p \in B : w[Cardinality(RunsUpTo(q, p))] = SubSeq(q, p[1], p[2])
      /\ \A p \in B : Cardinality(RunsUpTo(q, p)) \in 1..Len(w)
  <2>1. \A p \in B : w[Cardinality(RunsUpTo(q, p))] = SubSeq(q, p[1], p[2])
    BY DEF AreWordsBefore
  <2>2. \A p \in B : Cardinality(RunsUpTo(q, p)) \in 1..Len(w)
    BY <1>1, <1>4, RunNumber
  <2> QED BY <2>1, <2>2
<1> HIDE DEF r, B, x, Q
<1>6. Cardinality(B \cup {r}) = Cardinality(B) + 1
  BY <1>2, <1>3, FS_AddElement
<1>7. /\ v \in Seq(Q) /\ Len(v) = Len(w) + 1
      /\ \A i \in 1..Len(w) : v[i] = w[i]
      /\ v[Len(w) + 1] = x
  <2>1. w \in Seq(Q) /\ x \in Q
    BY <1>1 DEF Q
  <2> QED BY <2>1 DEF append, concat
<1> HIDE DEF v
<1>8. ASSUME NEW p \in B \cup {r}
      PROVE  v[Cardinality(RunsUpTo(q, p))] = SubSeq(q, p[1], p[2])
  <2>1. CASE p = r
    <3>1. Cardinality(RunsUpTo(q, p)) = Len(w) + 1
      BY <1>2, <1>4, <1>6, <2>1
    <3>2. SubSeq(q, p[1], p[2]) = x
      BY <1>1, <2>1 DEF x
    <3> QED BY <1>7, <3>1, <3>2
  <2>2. CASE p \in B
    BY <1>5, <1>7, <2>2
  <2> QED BY <2>1, <2>2
<1>9. AreWordsBefore(v, q, n + 1)
  BY <1>2, <1>4, <1>6, <1>7, <1>8 DEF AreWordsBefore
<1> QED BY <1>7, <1>9 DEF v, x, Q


\* After n characters: the words that a delimiter ended, and the open one.
SplitRight(q, s, n) ==
    /\ s.result \in Seq(Seq(Characters \cup {Delimiter}))
    /\ AreWordsBefore(s.result, q, n)
    /\ \E c \in 0..n : OpenSince(q, c, n) /\ s.current = SubSeq(q, c + 1, n)

\* A character that is no delimiter makes the open word longer.
LEMMA SplitGoesOn ==
  ASSUME NEW q \in Seq(Characters \cup {Delimiter}), NEW n \in 1..Len(q),
         NEW s, NEW t, SplitRight(q, s, n - 1), q[n] # Delimiter,
         t.current = append(s.current, q[n]), t.result = s.result
  PROVE  SplitRight(q, t, n)
<1> DEFINE S == Characters \cup {Delimiter}
<1> HIDE DEF S
<1>0. q \in Seq(S)
  BY DEF S
<1>1. Len(q) \in Nat /\ n \in Nat /\ n - 1 \in 0..Len(q) /\ (n - 1) + 1 = n /\ n - 1 < Len(q)
  BY <1>0
<1>2. PICK c \in 0..(n - 1) : OpenSince(q, c, n - 1) /\ s.current = SubSeq(q, c + 1, n - 1)
  BY DEF SplitRight
<1>3. c \in Nat /\ c \in 0..n /\ n \in (c + 1)..Len(q)
  BY <1>1, <1>2
<1>4. OpenSince(q, c, n)
  <2>1. \A i \in (c + 1)..n : i \in (c + 1)..(n - 1) \/ i = n
    BY <1>1, <1>3
  <2> QED BY <1>2, <2>1 DEF OpenSince
<1>5. append(SubSeq(q, c + 1, n - 1), q[n]) = SubSeq(q, c + 1, n)
  <2>1. n - 1 <= c => SubSeq(q, c + 1, n - 1) = <<>>
    BY <1>0, <1>1, <1>3
  <2>2. append(IF n - 1 <= c THEN <<>> ELSE SubSeq(q, c + 1, n - 1), q[n]) = SubSeq(q, c + 1, n)
    BY <1>0, <1>3, SublistNext
  <2> QED BY <2>1, <2>2, Zenon
<1>6. RunsBefore(q, n) = RunsBefore(q, n - 1)
  <2>1. q[(n - 1) + 1] # Delimiter
    BY <1>1
  <2>2. RunsBefore(q, (n - 1) + 1) = RunsBefore(q, n - 1)
    BY <1>0, <1>1, <2>1, NoWordEnds
  <2> QED BY <1>1, <2>2
<1>7. AreWordsBefore(t.result, q, n)
  BY <1>6, Zenon DEF SplitRight, AreWordsBefore
<1> QED BY <1>2, <1>3, <1>4, <1>5, <1>7 DEF SplitRight

\* What is collected at a delimiter, or at the end: the open word, if any.
LEMMA SplitCollects ==
  ASSUME NEW q \in Seq(Characters \cup {Delimiter}), NEW n \in 0..Len(q),
         NEW s, SplitRight(q, s, n), n = Len(q) \/ q[n + 1] = Delimiter
  PROVE  /\ (length(s.current) # 0) <=> (s.current # <<>>)
         /\ SplitEnd(s) \in Seq(Seq(Characters \cup {Delimiter}))
         /\ AreWordsBefore(SplitEnd(s), q, n + 1)
<1> DEFINE S == Characters \cup {Delimiter}
<1>0. q \in Seq(S) /\ s.result \in Seq(Seq(S)) /\ AreWordsBefore(s.result, q, n)
  BY DEF SplitRight
<1> HIDE DEF S
<1>1. PICK c \in 0..n : OpenSince(q, c, n) /\ s.current = SubSeq(q, c + 1, n)
  BY DEF SplitRight
<1>2. Len(q) \in Nat /\ n \in Nat /\ c \in Nat
  BY <1>0
<1>3. s.current \in Seq(S) /\ Len(s.current) = n - c
  BY <1>0, <1>1, <1>2
<1>4. (length(s.current) # 0) <=> (s.current # <<>>)
  BY <1>3 DEF length
<1>5. CASE c = n
  <2>1. SplitEnd(s) = s.result
    <3>1. length(s.current) = 0
      BY <1>2, <1>3, <1>5 DEF length
    <3> QED BY <3>1, Zenon DEF SplitEnd
  <2>2. RunsBefore(q, n + 1) = RunsBefore(q, n)
    <3>1. n = 0 \/ q[n] = Delimiter
      BY <1>1, <1>5 DEF OpenSince
    <3> QED BY <1>0, <3>1, NoWordEnds
  <2>3. AreWordsBefore(s.result, q, n + 1)
    BY <1>0, <2>2, Zenon DEF AreWordsBefore
  <2> QED BY <1>0, <1>4, <2>1, <2>3, Zenon DEF S
<1>6. CASE c # n
  <2>1. SplitEnd(s) = append(s.result, SubSeq(q, c + 1, n))
    <3>1. length(s.current) # 0
      BY <1>2, <1>3, <1>6 DEF length
    <3> QED BY <1>1, <3>1, Zenon DEF SplitEnd
  <2>2. n \in 1..Len(q) /\ c \in 0..(n - 1)
    BY <1>1, <1>2, <1>6
  <2>3. /\ append(s.result, SubSeq(q, c + 1, n)) \in Seq(Seq(S))
        /\ AreWordsBefore(append(s.result, SubSeq(q, c + 1, n)), q, n + 1)
    BY <1>0, <1>1, <2>2, WordCollected
  <2> QED BY <1>4, <2>1, <2>3, Zenon DEF S
<1> QED BY <1>5, <1>6

\* SplitStringT finds the words of a string.
LEMMA SplitFacts ==
  ASSUME NEW q \in Seq(Characters \cup {Delimiter})
  PROVE  AreWordsBefore(SplitStringT(q), q, Len(q) + 1)
<1> DEFINE S == Characters \cup {Delimiter}
<1>1. PICK f : /\ f = [n \in 0..Len(q) |-> SplitStep(f, q, n)]
               /\ SplitStringT(q) = SplitEnd(f[Len(q)])
  BY SplitRecursion
<1>2. Len(q) \in Nat
  OBVIOUS
<1>3. \A n \in 0..Len(q) : f[n] = SplitStep(f, q, n)
  BY <1>1, Zenon
<1> DEFINE T == {n \in 0..Len(q) : SplitRight(q, f[n], n)}
<1>4. 0 \in T
  <2>1. 0 \in 0..Len(q)
    BY <1>2
  <2>2. f[0] = [current |-> <<>>, result |-> <<>>]
    BY <1>3, <2>1, Zenon DEF SplitStep
  <2>3. f[0].current = <<>> /\ f[0].result = <<>>
    BY <2>2
  <2>4. RunsBefore(q, 0) = {}
    BY DEF RunsBefore, Runs
  <2>5. AreWordsBefore(f[0].result, q, 0)
    <3>1. Len(f[0].result) = 0 /\ Cardinality({}) = 0
      BY <2>3, FS_EmptySet
    <3> QED BY <2>4, <3>1 DEF AreWordsBefore
  <2>6. OpenSince(q, 0, 0)
    BY DEF OpenSince
  <2>7. SubSeq(q, 0 + 1, 0) = <<>>
    BY <1>2
  <2>8. <<>> \in Seq(Seq(S)) /\ 0 \in 0..0
    OBVIOUS
  <2>9. SplitRight(q, f[0], 0)
    BY <2>3, <2>5, <2>6, <2>7, <2>8 DEF SplitRight
  <2> QED BY <2>1, <2>9
<1>5. ASSUME NEW n \in 1..Len(q), n - 1 \in T
      PROVE  n \in T
  <2>1. /\ n \in 0..Len(q) /\ n # 0 /\ n - 1 \in 0..Len(q) /\ (n - 1) + 1 = n
        /\ n \in Nat /\ n - 1 \in Nat
    BY <1>2
  <2>2. SplitRight(q, f[n - 1], n - 1)
    BY <1>5
  <2>3. f[n] = SplitStep(f, q, n)
    BY <1>3, <2>1
  <2>4. CASE q[n] # Delimiter
    <3>1. f[n] = [current |-> append(f[n - 1].current, q[n]), result |-> f[n - 1].result]
      BY <2>1, <2>3, <2>4, Zenon DEF SplitStep
    <3>2. f[n].current = append(f[n - 1].current, q[n]) /\ f[n].result = f[n - 1].result
      BY <3>1
    <3>3. SplitRight(q, f[n], n)
      BY <2>2, <2>4, <3>2, SplitGoesOn
    <3> QED BY <2>1, <3>3
  <2>5. CASE q[n] = Delimiter
    <3>1. q[(n - 1) + 1] = Delimiter
      BY <2>1, <2>5
    <3>2. /\ (length(f[n - 1].current) # 0) <=> (f[n - 1].current # <<>>)
          /\ SplitEnd(f[n - 1]) \in Seq(Seq(S))
          /\ AreWordsBefore(SplitEnd(f[n - 1]), q, (n - 1) + 1)
      BY <2>1, <2>2, <3>1, SplitCollects
    <3>3. f[n] = [current |-> <<>>, result |-> SplitEnd(f[n - 1])]
      BY <2>1, <2>3, <2>5, <3>2, Zenon DEF SplitStep, SplitEnd
    <3>4. f[n].current = <<>> /\ f[n].result = SplitEnd(f[n - 1])
      BY <3>3
    <3>5. OpenSince(q, n, n) /\ n \in 0..n
      BY <2>1, <2>5 DEF OpenSince
    <3>6. SubSeq(q, n + 1, n) = <<>>
      BY <1>2, <2>1
    <3>7. SplitRight(q, f[n], n)
      BY <2>1, <3>2, <3>4, <3>5, <3>6 DEF SplitRight
    <3> QED BY <2>1, <3>7
  <2> QED BY <2>4, <2>5
<1>6. 0..Len(q) \subseteq T
  <2> HIDE DEF T
  <2> QED BY <1>2, <1>4, <1>5, InductionUpTo
<1>7. Len(q) \in 0..Len(q)
  BY <1>2
<1>8. SplitRight(q, f[Len(q)], Len(q))
  BY <1>6, <1>7
<1>9. AreWordsBefore(SplitEnd(f[Len(q)]), q, Len(q) + 1)
  BY <1>7, <1>8, SplitCollects
<1> QED BY <1>1, <1>9


\* Whatever the literal, it is cut into its words.
LEMMA SplitObeys ==
  ASSUME TextInv
  PROVE  SplitFindsWords
<1> DEFINE q == StrT(text)
           w == SplitStringT(q)
           R == {r \in (DOMAIN q) \X (DOMAIN q) :
                    /\ r[1] <= r[2]
                    /\ \A i \in r[1]..r[2] : q[i] # Delimiter
                    /\ r[1] = 1 \/ q[r[1] - 1] = Delimiter
                    /\ r[2] = Len(q) \/ q[r[2] + 1] = Delimiter}
<1>1. text \in Seq(Characters) /\ Nul \notin Characters /\ Len(text) \in Nat /\ Capacity \in Nat
  BY ApiAssumption DEF TextInv
<1>2. q = SubSeq(text, 1, Min({Len(text), Capacity}))
  BY <1>1, StrTFacts
<1>3. Min({Len(text), Capacity}) \in 0..Len(text)
  <2>1. Min({Len(text), Capacity}) = IF Len(text) <= Capacity THEN Len(text) ELSE Capacity
    BY <1>1, MinOfTwo
  <2> QED BY <1>1, <2>1
<1>4. q \in Seq(Characters)
  <2> DEFINE k == Min({Len(text), Capacity})
  <2> HIDE DEF k
  <2>1. k \in 0..Len(text)
    BY <1>3 DEF k
  <2>2. SubSeq(text, 1, k) \in Seq(Characters)
    BY <1>1, <2>1
  <2> QED BY <1>2, <2>2 DEF k
<1> HIDE DEF q
<1>5. q \in Seq(Characters \cup {Delimiter})
  BY <1>4
<1>6. AreWordsBefore(w, q, Len(q) + 1)
  BY <1>5, SplitFacts
<1>7. R = Runs(q) /\ Len(q) \in Nat
  <2>1. DOMAIN q = 1..Len(q) /\ Len(q) \in Nat
    BY <1>4
  <2> QED BY <2>1 DEF Runs
<1>8. RunsBefore(q, Len(q) + 1) = Runs(q)
  <2>1. \A r \in Runs(q) : r[2] < Len(q) + 1
    BY <1>7 DEF Runs
  <2> QED BY <2>1 DEF RunsBefore
<1> HIDE DEF R, w
<1>9. /\ Len(w) = Cardinality(R)
      /\ \A r \in R : w[Cardinality({p \in R : p[1] <= r[1]})] = SubSeq(q, r[1], r[2])
  BY <1>6, <1>7, <1>8, Zenon DEF AreWordsBefore, RunsUpTo
<1> QED BY <1>2, <1>9, Zenon DEF SplitFindsWords, q, w, R

\* A query is always cut into its words, and is the literal as far as StrT's
\* capacity goes (StrT, SplitStringT).
THEOREM SplitsAlwaysFindWords == Spec => []SplitFindsWords
<1>1. TextInv => SplitFindsWords
  BY SplitObeys
<1> QED BY <1>1, TextIsTyped, PTL


-----------------------------------------------------------------------------
(* Splitting what was written *)

\* The arguments of the templates at the end of a string.
SplitsTo(str, s) == \E f : /\ f = [n \in 0..Len(str) |-> SplitStep(f, str, n)]
                           /\ s = f[Len(str)]

\* They are what SplitStringT goes by.
LEMMA SplitsToIsSplit ==
  ASSUME NEW S, NEW str \in Seq(S), NEW s, SplitsTo(str, s)
  PROVE  SplitStringT(str) = SplitEnd(s)
<1>1. PICK f : /\ f = [n \in 0..Len(str) |-> SplitStep(f, str, n)]
               /\ SplitStringT(str) = SplitEnd(f[Len(str)])
  BY SplitRecursion
<1>2. PICK g : g = [n \in 0..Len(str) |-> SplitStep(g, str, n)] /\ s = g[Len(str)]
  BY Zenon DEF SplitsTo
<1>3. \A n \in 0..Len(str) : f[n] = SplitStep(f, str, n) /\ g[n] = SplitStep(g, str, n)
  BY <1>1, <1>2, Zenon
<1>4. Len(str) \in Nat /\ 0 \in 0..Len(str) /\ Len(str) \in 0..Len(str)
  OBVIOUS
<1> DEFINE T == {n \in 0..Len(str) : f[n] = g[n]}
<1>5. 0 \in T
  BY <1>3, <1>4, Zenon DEF SplitStep
<1>6. ASSUME NEW n \in 1..Len(str), n - 1 \in T
      PROVE  n \in T
  <2>1. n \in 0..Len(str) /\ f[n - 1] = g[n - 1]
    BY <1>6
  <2>2. SplitStep(f, str, n) = SplitStep(g, str, n)
    BY <2>1, Zenon DEF SplitStep
  <2> QED BY <1>3, <2>1, <2>2
<1>7. 0..Len(str) \subseteq T
  <2> HIDE DEF T
  <2> QED BY <1>4, <1>5, <1>6, InductionUpTo
<1> QED BY <1>1, <1>2, <1>4, <1>7

\* The empty string leaves them as they were.
LEMMA SplitsEmpty == SplitsTo(<<>>, [current |-> <<>>, result |-> <<>>])
<1> DEFINE s == [current |-> <<>>, result |-> <<>>]
           f == [n \in 0..Len(<<>>) |-> s]
<1>1. Len(<<>>) = 0 /\ 0 \in 0..0 /\ \A n \in 0..0 : n = 0
  OBVIOUS
<1>2. \A n \in 0..Len(<<>>) : SplitStep(f, <<>>, n) = s
  BY <1>1, Zenon DEF SplitStep
<1>3. f = [n \in 0..Len(<<>>) |-> SplitStep(f, <<>>, n)]
  <2> HIDE DEF s
  <2> QED BY <1>2, Zenon
<1>4. f[Len(<<>>)] = s
  BY <1>1
<1> HIDE DEF f, s
<1>5. SplitsTo(<<>>, s)
  BY <1>3, <1>4, Zenon DEF SplitsTo
<1> QED BY <1>5 DEF s

\* One more character.
LEMMA SplitsNext ==
  ASSUME NEW S, NEW str \in Seq(S), NEW x \in S, NEW s, SplitsTo(str, s)
  PROVE  SplitsTo(append(str, x),
           IF x # Delimiter THEN [current |-> append(s.current, x), result |-> s.result]
           ELSE [current |-> <<>>,
                 result |-> IF s.current = <<>> THEN s.result
                            ELSE append(s.result, s.current)])
<1> DEFINE N == Len(str)
           long == append(str, x)
           t == IF x # Delimiter THEN [current |-> append(s.current, x), result |-> s.result]
                ELSE [current |-> <<>>,
                      result |-> IF s.current = <<>> THEN s.result
                                 ELSE append(s.result, s.current)]
<1>1. PICK f : f = [n \in 0..Len(str) |-> SplitStep(f, str, n)] /\ s = f[Len(str)]
  BY Zenon DEF SplitsTo
<1>2. \A n \in 0..N : f[n] = SplitStep(f, str, n)
  BY <1>1, Zenon
<1>3. N \in Nat /\ Len(long) = N + 1 /\ (\A i \in 1..N : long[i] = str[i]) /\ long[N + 1] = x
  <2>1. Len(str) \in Nat
    OBVIOUS
  <2>2. /\ Len(append(str, x)) = Len(str) + 1
        /\ \A i \in 1..Len(str) : append(str, x)[i] = str[i]
        /\ append(str, x)[Len(str) + 1] = x
    BY AppendFacts
  <2> QED BY <2>1, <2>2, Zenon
<1> DEFINE g == [n \in 0..(N + 1) |-> IF n <= N THEN f[n] ELSE t]
<1> HIDE DEF long, t
<1>4. (\A n \in 0..N : g[n] = f[n]) /\ g[N + 1] = t
  BY <1>3
<1>5. ASSUME NEW n \in 0..(N + 1)
      PROVE  g[n] = SplitStep(g, long, n)
  <2>1. CASE n = 0
    <3>1. 0 \in 0..N
      BY <1>3
    <3>2. SplitStep(f, str, 0) = SplitStep(g, long, 0)
      BY Zenon DEF SplitStep
    <3> QED BY <1>2, <1>4, <2>1, <3>1, <3>2
  <2>2. CASE n \in 1..N
    <3>1. n \in 0..N /\ n - 1 \in 0..N
      BY <1>3, <2>2
    <3>2. g[n - 1] = f[n - 1] /\ long[n] = str[n] /\ g[n] = f[n]
      BY <1>3, <1>4, <2>2, <3>1
    <3> HIDE DEF g
    <3>3. SplitStep(f, str, n) = SplitStep(g, long, n)
      BY <3>2, Zenon DEF SplitStep
    <3> QED BY <1>2, <3>1, <3>2, <3>3
  <2>3. CASE n = N + 1
    <3>1. n # 0 /\ n - 1 = N /\ N \in 0..N
      BY <1>3, <2>3
    <3>2. g[n - 1] = s /\ long[n] = x /\ g[n] = t
      BY <1>1, <1>3, <1>4, <2>3, <3>1
    <3> HIDE DEF g
    <3>3. SplitStep(g, long, n) = t
      BY <3>1, <3>2, Zenon DEF SplitStep, t
    <3> QED BY <3>2, <3>3
  <2> QED BY <1>3, <2>1, <2>2, <2>3
<1>6. g = [n \in 0..(N + 1) |-> SplitStep(g, long, n)]
  <2>1. g = [n \in 0..(N + 1) |-> g[n]]
    OBVIOUS
  <2> HIDE DEF g
  <2> QED BY <1>5, <2>1, Zenon
<1> HIDE DEF g
<1>7. SplitsTo(long, t)
  BY <1>3, <1>4, <1>6, Zenon DEF SplitsTo
<1> QED BY <1>7 DEF long, t

\* The order in which three lists are joined does not matter.
LEMMA JoinThree ==
  ASSUME NEW S, NEW a \in Seq(S), NEW b \in Seq(S), NEW c \in Seq(S)
  PROVE  concat(concat(a, b), c) = concat(a, concat(b, c))
<1> DEFINE X == (a \o b) \o c
           Y == a \o (b \o c)
<1>1. /\ a \o b \in Seq(S) /\ Len(a \o b) = Len(a) + Len(b)
      /\ b \o c \in Seq(S) /\ Len(b \o c) = Len(b) + Len(c)
  OBVIOUS
<1>2. /\ X \in Seq(S) /\ Len(X) = Len(a) + Len(b) + Len(c)
      /\ Y \in Seq(S) /\ Len(Y) = Len(a) + Len(b) + Len(c)
  BY <1>1
<1>3. ASSUME NEW i \in 1..(Len(a) + Len(b) + Len(c))
      PROVE  X[i] = Y[i]
  BY <1>1, <1>2
<1>4. X = Y
  <2> HIDE DEF X, Y
  <2> QED BY <1>2, <1>3
<1> QED BY <1>4 DEF concat

\* A string without delimiters makes the open word longer.
LEMMA SplitsWord ==
  ASSUME NEW S, NEW str \in Seq(S), NEW s, SplitsTo(str, s), s.current \in Seq(S),
         NEW w \in Seq(S), \A i \in 1..Len(w) : w[i] # Delimiter
  PROVE  SplitsTo(concat(str, w), [current |-> concat(s.current, w), result |-> s.result])
<1> DEFINE Part(m) == SubSeq(w, 1, m)
           At(m) == SplitsTo(concat(str, Part(m)),
                             [current |-> concat(s.current, Part(m)), result |-> s.result])
           T == {m \in 0..Len(w) : At(m)}
<1>1. Len(w) \in Nat /\ Len(w) \in 0..Len(w) /\ 0 \in 0..Len(w)
  OBVIOUS
<1>2. \A m \in 0..Len(w) : Part(m) \in Seq(S)
  OBVIOUS
<1>3. Part(0) = <<>> /\ Part(Len(w)) = w
  BY <1>1

<1>4. At(0)
  <2>1. concat(str, <<>>) = str /\ concat(s.current, <<>>) = s.current
    BY DEF concat
  <2>2. SplitsTo(str, [current |-> s.current, result |-> s.result])
    <3>1. PICK f : f = [n \in 0..Len(str) |-> SplitStep(f, str, n)] /\ s = f[Len(str)]
      BY Zenon DEF SplitsTo
    <3>2. s = SplitStep(f, str, Len(str))
      <4>1. Len(str) \in 0..Len(str)
        OBVIOUS
      <4> QED BY <3>1, <4>1, Zenon
    <3>3. s = [current |-> s.current, result |-> s.result]
      <4>1. \E c, r : s = [current |-> c, result |-> r]
        BY <3>2, Zenon DEF SplitStep
      <4> QED BY <4>1
    <3> QED BY <3>3, Zenon
  <2> HIDE DEF Part
  <2> QED BY <1>3, <2>1, <2>2
<1>5. ASSUME NEW m \in 1..Len(w), m - 1 \in T
      PROVE  m \in T
  <2> DEFINE P == Part(m - 1)
             Q == Part(m)
             u == concat(str, P)
             t == [current |-> concat(s.current, P), result |-> s.result]
  <2>1. /\ m \in 0..Len(w) /\ m - 1 \in 0..Len(w) /\ w[m] \in S /\ w[m] # Delimiter
        /\ P \in Seq(S) /\ Q \in Seq(S) /\ <<w[m]>> \in Seq(S)
    BY <1>1, <1>2
  <2>2. concat(P, <<w[m]>>) = Q
    <3>1. append(SubSeq(w, 1, m - 1), w[m]) = SubSeq(w, 1, m)
      BY UpToNext
    <3> QED BY <3>1 DEF append
  <2>3. SplitsTo(u, t)
    BY <1>5
  <2> DEFINE x == w[m]
  <2> HIDE DEF P, Q, x
  <2>4. u \in Seq(S)
    BY <2>1 DEF concat
  <2>5. append(u, x) = concat(str, Q)
    <3> DEFINE y == <<w[m]>>
    <3>1. y \in Seq(S)
      BY <2>1
    <3> HIDE DEF y
    <3>2. concat(concat(str, P), y) = concat(str, concat(P, y))
      BY <2>1, <3>1, JoinThree
    <3> QED BY <2>2, <3>2, Zenon DEF append, x, y
  <2>6. append(t.current, x) = concat(s.current, Q)
    <3>1. t.current = concat(s.current, P)
      OBVIOUS
    <3>2. append(concat(s.current, P), x) = concat(s.current, Q)
      <4> DEFINE y == <<w[m]>>
      <4>1. y \in Seq(S)
        BY <2>1
      <4> HIDE DEF y
      <4>2. concat(concat(s.current, P), y) = concat(s.current, concat(P, y))
        BY <2>1, <4>1, JoinThree
      <4> QED BY <2>2, <4>2, Zenon DEF append, x, y
    <3> QED BY <3>1, <3>2
  <2>7. t.result = s.result
    OBVIOUS
  <2> HIDE DEF u, t
  <2>8. x # Delimiter /\ x \in S
    BY <2>1 DEF x
  <2>9. SplitsTo(append(u, x), [current |-> append(t.current, x), result |-> t.result])
    <3>1. SplitsTo(append(u, x),
           IF x # Delimiter THEN [current |-> append(t.current, x), result |-> t.result]
           ELSE [current |-> <<>>,
                 result |-> IF t.current = <<>> THEN t.result
                            ELSE append(t.result, t.current)])
      BY <2>3, <2>4, <2>8, SplitsNext
    <3> QED BY <2>8, <3>1, Zenon
  <2>10. At(m)
    BY <2>5, <2>6, <2>7, <2>9, Zenon DEF Q
  <2> QED BY <2>1, <2>10
<1>6. 0..Len(w) \subseteq T
  <2>1. 0 \in T
    BY <1>1, <1>4
  <2> HIDE DEF T
  <2> QED BY <1>1, <1>5, <2>1, InductionUpTo
<1>7. At(Len(w))
  BY <1>1, <1>6
<1> HIDE DEF Part
<1> QED BY <1>3, <1>7


\* Written puts one word behind the other.
LEMMA WrittenRecursion ==
  ASSUME NEW S, Delimiter \in S, NEW words \in Seq(Seq(S)), words # <<>>
  PROVE  \E f : /\ f[1] = words[1]
                /\ \A n \in 2..Len(words) :
                      f[n] = concat(append(f[n - 1], Delimiter), words[n])
                /\ Written(words) = f[Len(words)]
<1> DEFINE N == Len(words) - 1
           V == Seq(S)
           G == [p \in (1..N) \X V |-> (p[2] \o <<Delimiter>>) \o words[p[1] + 1]]
           Go(f, n) == IF n = 1 THEN words[1] ELSE f[n - 1] \o <<Delimiter>> \o words[n]
           upTo[n \in 1..Len(words)] ==
             IF n = 1 THEN words[1] ELSE upTo[n - 1] \o <<Delimiter>> \o words[n]
<1>1. Written(words) = upTo[Len(words)]
  BY Zenon DEF Written
<1>2. N \in Nat /\ words[1] \in V /\ 1 \in 1..Len(words) /\ Len(words) = N + 1
  OBVIOUS
<1>3. G \in [(1..N) \X V -> V]
  <2>1. ASSUME NEW p \in (1..N) \X V
        PROVE  (p[2] \o <<Delimiter>>) \o words[p[1] + 1] \in V
    <3>1. p[1] \in 1..N /\ p[2] \in V
      OBVIOUS
    <3>2. words[p[1] + 1] \in V
      BY <1>2, <3>1
    <3> DEFINE a == p[2]
               b == words[p[1] + 1]
    <3>3. a \in Seq(S) /\ b \in Seq(S)
      BY <3>1, <3>2
    <3> HIDE DEF a, b
    <3>4. (a \o <<Delimiter>>) \o b \in Seq(S)
      BY <3>3
    <3> QED BY <3>4 DEF a, b
  <2> QED BY <2>1, Zenon
<1>4. PICK h \in [0..N -> V] : GoesUp(h, N, words[1], G)
  <2> HIDE DEF G, N, V
  <2> QED BY <1>2, <1>3, RecursionIn
<1>5. h = [n \in 0..N |-> IF n = 0 THEN words[1] ELSE G[<<n, h[n - 1]>>]]
  <2> HIDE DEF G, N, V
  <2> QED BY <1>4, Zenon DEF GoesUp
<1> DEFINE f == [n \in 1..Len(words) |-> h[n - 1]]
<1>6. ASSUME NEW n \in 1..Len(words)
      PROVE  f[n] = Go(f, n)
  <2>1. f[n] = h[n - 1] /\ n - 1 \in 0..N
    BY <1>2
  <2>2. CASE n = 1
    <3>1. h[0] = words[1]
      <4>1. 0 \in 0..N
        BY <1>2
      <4> HIDE DEF G, N
      <4> QED BY <1>5, <4>1
    <3>2. n - 1 = 0
      BY <2>2
    <3> HIDE DEF f
    <3> QED BY <2>1, <2>2, <3>1, <3>2
  <2>3. CASE n # 1
    <3>1. n - 1 \in 1..N /\ (n - 1) + 1 = n /\ (n - 1) - 1 \in 0..N /\ n - 1 # 0
          /\ n - 1 \in 1..Len(words)
      BY <1>2, <2>3
    <3>2. f[n - 1] = h[(n - 1) - 1]
      BY <3>1
    <3>3. h[n - 1] = G[<<n - 1, h[(n - 1) - 1]>>]
      <4> HIDE DEF G, N
      <4> QED BY <1>5, <2>1, <3>1
    <3>4. <<n - 1, h[(n - 1) - 1]>> \in (1..N) \X V
      <4> HIDE DEF N, V
      <4> QED BY <1>4, <3>1
    <3>5. G[<<n - 1, h[(n - 1) - 1]>>] = (h[(n - 1) - 1] \o <<Delimiter>>) \o words[(n - 1) + 1]
      <4> HIDE DEF N, V
      <4> QED BY <3>4
    <3> HIDE DEF f, G
    <3> QED BY <2>1, <2>3, <3>1, <3>2, <3>3, <3>5
  <2> QED BY <2>2, <2>3
<1>7. f = [n \in 1..Len(words) |-> Go(f, n)]
  <2>1. f = [n \in 1..Len(words) |-> f[n]]
    OBVIOUS
  <2> HIDE DEF f, Go
  <2> QED BY <1>6, <2>1, Zenon
<1>8. upTo = [n \in 1..Len(words) |->
          IF n = 1 THEN words[1] ELSE upTo[n - 1] \o <<Delimiter>> \o words[n]]
  <2>1. \E g : g = [n \in 1..Len(words) |->
          IF n = 1 THEN words[1] ELSE g[n - 1] \o <<Delimiter>> \o words[n]]
    <3> HIDE DEF f
    <3> QED BY <1>7, Zenon
  <2> QED BY <2>1, Zenon
<1> HIDE DEF upTo
<1>9. \A n \in 1..Len(words) : upTo[n] = Go(upTo, n)
  BY <1>8, Zenon
<1>10. upTo[1] = words[1]
  BY <1>2, <1>9, Zenon
<1>11. ASSUME NEW n \in 2..Len(words)
       PROVE  upTo[n] = concat(append(upTo[n - 1], Delimiter), words[n])
  <2>1. n \in 1..Len(words) /\ n # 1
    BY <1>2
  <2> QED BY <1>9, <2>1, Zenon DEF concat, append
<1> QED BY <1>1, <1>10, <1>11

\* What SplitStringT makes of a query as it is written are its words, if none
\* of them is empty or holds a delimiter.
LEMMA SplitWritten ==
  ASSUME NEW S, Delimiter \in S, NEW words \in Seq(Seq(S)), words # <<>>,
         \A i \in 1..Len(words) :
            words[i] # <<>> /\ \A j \in 1..Len(words[i]) : words[i][j] # Delimiter
  PROVE  Written(words) \in Seq(S) /\ SplitStringT(Written(words)) = words
<1> DEFINE N == Len(words)
           Before(n) == SubSeq(words, 1, n - 1)
<1>1. PICK f : /\ f[1] = words[1]
               /\ \A n \in 2..N : f[n] = concat(append(f[n - 1], Delimiter), words[n])
               /\ Written(words) = f[N]
  BY WrittenRecursion
<1>2. N \in Nat /\ N # 0 /\ N \in 1..N /\ N \in 0..N /\ 1 \in 1..N
  OBVIOUS
<1> DEFINE Right(n) == /\ f[n] \in Seq(S)
                       /\ SplitsTo(f[n], [current |-> words[n], result |-> Before(n)])
           T == {n \in 0..N : n # 0 => Right(n)}
<1>3. \A n \in 1..N : words[n] \in Seq(S)
  OBVIOUS
<1>4. Right(1)
  <2> DEFINE s == [current |-> <<>>, result |-> <<>>]
  <2>1. s.current = <<>> /\ s.result = <<>> /\ <<>> \in Seq(S) /\ Before(1) = <<>>
    BY <1>2
  <2>2. SplitsTo(<<>>, s)
    BY SplitsEmpty
  <2> HIDE DEF s, Before
  <2> DEFINE w == words[1]
  <2>3. w \in Seq(S) /\ \A i \in 1..Len(w) : w[i] # Delimiter
    BY <1>2, <1>3
  <2> HIDE DEF w
  <2>4. SplitsTo(concat(<<>>, w), [current |-> concat(s.current, w), result |-> s.result])
    BY <2>1, <2>2, <2>3, SplitsWord
  <2>5. concat(<<>>, w) = w
    BY <2>3 DEF concat
  <2> QED BY <1>1, <2>1, <2>3, <2>4, <2>5 DEF w
<1>5. 0 \in T
  BY <1>2
<1>6. ASSUME NEW n \in 1..N, n - 1 \in T
      PROVE  n \in T
  <2>0. n \in 0..N /\ n # 0
    BY <1>2
  <2>1. CASE n = 1
    BY <1>4, <2>0, <2>1
  <2>2. CASE n # 1
    <3>1. n - 1 \in 1..N /\ n - 1 # 0 /\ n \in 2..N
      BY <1>2, <2>2
    <3>2. Right(n - 1)
      BY <1>6, <3>1
    <3> DEFINE u == f[n - 1]
               v == words[n - 1]
               w == words[n]
               b == Before(n - 1)
               s == [current |-> v, result |-> b]
               t == [current |-> <<>>, result |-> append(b, v)]
    <3>3. /\ u \in Seq(S) /\ SplitsTo(u, s) /\ v \in Seq(S) /\ w \in Seq(S)
          /\ v # <<>> /\ \A i \in 1..Len(w) : w[i] # Delimiter
      BY <1>3, <3>1, <3>2
    <3>4. append(b, v) = Before(n)
      BY <3>1, UpToNext
    <3>5. s.current = v /\ s.result = b /\ t.current = <<>> /\ t.result = append(b, v)
      OBVIOUS
    <3>6. f[n] = concat(append(u, Delimiter), w)
      BY <1>1, <3>1
    <3> HIDE DEF u, v, w, b, s
    <3>7. SplitsTo(append(u, Delimiter), t)
      <4> DEFINE x == Delimiter
      <4>0. x \in S /\ x = Delimiter
        OBVIOUS
      <4> HIDE DEF x
      <4>1. SplitsTo(append(u, x),
               IF x # Delimiter THEN [current |-> append(s.current, x), result |-> s.result]
               ELSE [current |-> <<>>,
                     result |-> IF s.current = <<>> THEN s.result
                                ELSE append(s.result, s.current)])
        BY <3>3, <4>0, SplitsNext
      <4>2. SplitsTo(append(u, x), t)
        BY <3>3, <3>5, <4>0, <4>1, Zenon
      <4> QED BY <4>0, <4>2
    <3> HIDE DEF t, Before
    <3>8. append(u, Delimiter) \in Seq(S)
      BY <3>3, AppendFacts
    <3>9. <<>> \in Seq(S)
      OBVIOUS
    <3>10. SplitsTo(concat(append(u, Delimiter), w),
                    [current |-> concat(t.current, w), result |-> t.result])
      <4> DEFINE y == append(u, Delimiter)
      <4>1. y \in Seq(S) /\ SplitsTo(y, t) /\ t.current \in Seq(S)
        BY <3>5, <3>7, <3>8, <3>9
      <4> HIDE DEF y
      <4>2. SplitsTo(concat(y, w), [current |-> concat(t.current, w), result |-> t.result])
        BY <3>3, <4>1, SplitsWord
      <4> QED BY <4>2 DEF y
    <3>11. concat(t.current, w) = w
      BY <3>3, <3>5 DEF concat
    <3>12. concat(append(u, Delimiter), w) \in Seq(S)
      BY <3>3, <3>8 DEF concat
    <3>13. Right(n)
      BY <3>4, <3>5, <3>6, <3>10, <3>11, <3>12, Zenon DEF w
    <3> QED BY <2>0, <3>13
  <2> QED BY <2>1, <2>2
<1>7. 0..N \subseteq T
  <2> HIDE DEF T, N
  <2> QED BY <1>2, <1>5, <1>6, InductionUpTo
<1>8. Right(N)
  BY <1>2, <1>7
<1> DEFINE e == [current |-> words[N], result |-> Before(N)]
<1>9. SplitStringT(f[N]) = SplitEnd(e)
  <2> HIDE DEF e, N
  <2>1. f[N] \in Seq(S) /\ SplitsTo(f[N], e)
    BY <1>8 DEF e
  <2> QED BY <2>1, SplitsToIsSplit
<1>10. length(e.current) # 0
  <2>1. e.current = words[N] /\ words[N] \in Seq(S) /\ words[N] # <<>>
    BY <1>2, <1>3
  <2> HIDE DEF e
  <2>2. Len(e.current) # 0
    BY <2>1
  <2> QED BY <2>2 DEF length
<1>11. SplitEnd(e) = append(Before(N), words[N])
  <2>1. e.current = words[N] /\ e.result = Before(N)
    OBVIOUS
  <2> HIDE DEF e, Before, N
  <2> QED BY <1>10, <2>1, Zenon DEF SplitEnd
<1>12. append(Before(N), words[N]) = words
  <2>1. append(SubSeq(words, 1, N - 1), words[N]) = SubSeq(words, 1, N)
    BY <1>2, UpToNext
  <2>2. SubSeq(words, 1, Len(words)) = words
    OBVIOUS
  <2> QED BY <2>1, <2>2
<1> QED BY <1>1, <1>8, <1>9, <1>11, <1>12


\* The words before the last are written first.
LEMMA WrittenNext ==
  ASSUME NEW S, Delimiter \in S, NEW words \in Seq(Seq(S)), words # <<>>, NEW w \in Seq(S)
  PROVE  Written(append(words, w)) = concat(append(Written(words), Delimiter), w)
<1> DEFINE N == Len(words)
           Q == Seq(S)
           long == append(words, w)
<1>1. N \in Nat /\ N # 0 /\ N \in 1..N /\ N \in 0..N /\ 1 \in 1..N
  OBVIOUS
<1>2. /\ long \in Seq(Q) /\ Len(long) = N + 1 /\ long[N + 1] = w
      /\ \A i \in 1..N : long[i] = words[i]
  <2> HIDE DEF Q
  <2>1. words \in Seq(Q) /\ w \in Q
    BY DEF Q
  <2> QED BY <2>1, AppendFacts
<1>3. PICK f : /\ f[1] = words[1]
               /\ \A n \in 2..N : f[n] = concat(append(f[n - 1], Delimiter), words[n])
               /\ Written(words) = f[N]
  BY WrittenRecursion
<1> HIDE DEF long, N
<1>4. PICK g : /\ g[1] = long[1]
               /\ \A n \in 2..Len(long) : g[n] = concat(append(g[n - 1], Delimiter), long[n])
               /\ Written(long) = g[Len(long)]
  <2>1. long \in Seq(Seq(S)) /\ long # <<>>
    BY <1>1, <1>2
  <2> QED BY <2>1, WrittenRecursion
<1> DEFINE T == {n \in 0..N : n # 0 => g[n] = f[n]}
<1>5. 0 \in T
  BY <1>1
<1>6. ASSUME NEW n \in 1..N, n - 1 \in T
      PROVE  n \in T
  <2>0. n \in 0..N /\ n # 0
    BY <1>1
  <2>1. CASE n = 1
    <3>1. g[1] = f[1]
      BY <1>1, <1>2, <1>3, <1>4
    <3> QED BY <2>0, <2>1, <3>1
  <2>2. CASE n # 1
    <3>1. n \in 2..N /\ n \in 2..Len(long) /\ n - 1 # 0
      BY <1>1, <1>2, <2>2
    <3>2. g[n - 1] = f[n - 1] /\ long[n] = words[n]
      BY <1>2, <1>6, <3>1
    <3>3. g[n] = f[n]
      BY <1>3, <1>4, <3>1, <3>2
    <3> QED BY <2>0, <3>3
  <2> QED BY <2>1, <2>2
<1>7. 0..N \subseteq T
  <2> HIDE DEF T
  <2> QED BY <1>1, <1>5, <1>6, InductionUpTo
<1>8. g[N] = f[N]
  BY <1>1, <1>7
<1>9. g[N + 1] = concat(append(g[N], Delimiter), w)
  <2>1. N + 1 \in 2..Len(long) /\ (N + 1) - 1 = N
    BY <1>1, <1>2
  <2> QED BY <1>2, <1>4, <2>1
<1> QED BY <1>2, <1>3, <1>4, <1>8, <1>9 DEF long

\* One word is written as it is.
LEMMA WrittenOne ==
  ASSUME NEW S, Delimiter \in S, NEW w \in Seq(S)
  PROVE  Written(<<w>>) = w
<1> DEFINE words == <<w>>
<1>1. words \in Seq(Seq(S)) /\ words # <<>> /\ Len(words) = 1 /\ words[1] = w
  OBVIOUS
<1> HIDE DEF words
<1>2. PICK f : f[1] = words[1] /\ Written(words) = f[Len(words)]
  BY <1>1, WrittenRecursion
<1> QED BY <1>1, <1>2 DEF words

-----------------------------------------------------------------------------
(* Matching *)

\* operator== of StringTs is equality.
LEMMA SameStringIsEqual ==
  ASSUME NEW S, NEW s \in Seq(S), NEW t \in Seq(S)
  PROVE  SameString(s, t) <=> s = t
  BY DEF SameString, length

\* Categorisations match where one starts the other.
LEMMA MatchIsPrefix ==
  ASSUME NEW S, NEW C \in Seq(Seq(S)), NEW D \in Seq(Seq(S))
  PROVE  CategorizationsMatch(C, D) <=> Seqs!IsPrefix(C, D)
<1> DEFINE Q == Seq(S)
           E == slice(D, 0, Len(C))
<1>0. C \in Seq(Q) /\ D \in Seq(Q) /\ Len(C) \in Nat /\ Len(D) \in Nat
  OBVIOUS
<1>1. \A x, y \in Q : SameString(x, y) <=> x = y
  BY SameStringIsEqual
<1> HIDE DEF Q
<1>2. Len(C) <= Len(D) => E = SubSeq(D, 1, Len(C))
  <2>1. E = IF 0 <= Len(C) /\ (Len(C) <= Len(D) \/ 0 = Len(C))
            THEN SubSeq(D, 0 + 1, Len(C)) ELSE IllFormed
    BY <1>0, SliceFacts
  <2> QED BY <1>0, <2>1
<1> HIDE DEF E
<1>3. CASE Len(C) > Len(D)
  BY <1>0, <1>3 DEF CategorizationsMatch, length, Seqs!IsPrefix
<1>4. CASE Len(C) <= Len(D)
  <2> DEFINE P == SubSeq(D, 1, Len(C))
  <2>1. /\ P \in Seq(Q) /\ Len(P) = Len(C) /\ \A i \in 1..Len(C) : P[i] = D[i]
        /\ SubSeq(C, 1, Len(C)) = C /\ DOMAIN C = 1..Len(C)
    BY <1>0, <1>4
  <2>2. Len(C) = Len(D) => P = D
    BY <1>0
  <2> HIDE DEF P
  <2>3. Seqs!IsPrefix(C, D) <=> C = P
    BY <1>4, <2>1 DEF Seqs!IsPrefix, P
  <2>4. (\A i \in DOMAIN C : SameString(C[i], P[i])) <=> C = P
    <3>1. \A i \in DOMAIN C : SameString(C[i], P[i]) <=> C[i] = P[i]
      BY <1>0, <1>1, <2>1
    <3>2. ASSUME \A i \in DOMAIN C : C[i] = P[i]
          PROVE  C = P
      <4>1. \A i \in 1..Len(C) : C[i] = P[i]
        BY <2>1, <3>2
      <4> QED BY <1>0, <2>1, <4>1, SeqEqual
    <3> QED BY <3>1, <3>2
  <2>5. CASE Len(C) = Len(D)
    <3>1. CategorizationsMatch(C, D) <=> \A i \in DOMAIN C : SameString(C[i], D[i])
      <4>1. ~ (Len(C) < Len(D))
        BY <1>0, <2>5
      <4> QED BY <2>5, <4>1, Zenon DEF CategorizationsMatch, length
    <3> QED BY <2>2, <2>3, <2>4, <2>5, <3>1
  <2>6. CASE Len(C) # Len(D)
    <3>1. Len(C) < Len(D)
      BY <1>0, <1>4, <2>6
    <3>2. CategorizationsMatch(C, D) <=> \A i \in DOMAIN C : SameString(C[i], E[i])
      BY <2>6, <3>1, Zenon DEF CategorizationsMatch, length, E
    <3>3. E = P
      BY <1>2, <1>4 DEF P
    <3> QED BY <2>3, <2>4, <3>2, <3>3
  <2> QED BY <2>5, <2>6
<1> QED BY <1>0, <1>3, <1>4


\* The program's words are strings that StrT took whole, none of them empty,
\* and no delimiter stands in them.
Plain == {w \in Seq(Characters \ {Delimiter}) : w # <<>> /\ Len(w) <= Capacity}
PlainWords == Names \subseteq Plain /\ Categorizations \subseteq Seq(Plain)

\* An API under its full name, or under its name in a category.
Api == [method : Nat, arguments : {0, 1}, categorization : Categorizations, name : Names]
IsNamed(q, api) == /\ api.name = Seqs!Last(q)
                   /\ Seqs!IsPrefix(Seqs!Front(q), api.categorization)

\* The words that queries are made of.
QueryWords == Names \cup UNION {Seqs!ToSet(c) : c \in Categorizations}

LEMMA QueryWordsPlain ==
  ASSUME PlainWords
  PROVE  QueryWords \subseteq Plain
<1> SUFFICES ASSUME NEW x \in QueryWords
             PROVE  x \in Plain
  OBVIOUS
<1>1. CASE x \in Names
  BY <1>1 DEF PlainWords
<1>2. ASSUME NEW c \in Categorizations, x \in Seqs!ToSet(c)
      PROVE  x \in Plain
  <2>1. c \in Seq(Plain)
    BY DEF PlainWords
  <2>2. PICK i \in DOMAIN c : x = c[i]
    BY <1>2 DEF Seqs!ToSet
  <2> HIDE DEF Plain
  <2> QED BY <2>1, <2>2
<1> QED BY <1>1, <1>2 DEF QueryWords

\* The queries are the short lists of such words, not too long to be written.
LEMMA QueriesAre ==
  ASSUME NEW q
  PROVE  q \in Queries <=> /\ q \in Seq(QueryWords) /\ Len(q) \in 1..3
                           /\ Len(Written(q)) <= Capacity
<1> HIDE DEF QueryWords
<1>1. q \in Queries <=> /\ \E m \in 0..3 : q \in [1..m -> QueryWords]
                        /\ q # <<>> /\ Len(Written(q)) <= Capacity
  BY Zenon DEF Queries, Seqs!BoundedSeq, Seqs!SeqOf, QueryWords
<1>2. ASSUME NEW m \in 0..3, q \in [1..m -> QueryWords], q # <<>>
      PROVE  q \in Seq(QueryWords) /\ Len(q) \in 1..3
  <2>1. q \in Seq(QueryWords) /\ Len(q) = m
    BY <1>2
  <2> QED BY <1>2, <2>1
<1>3. ASSUME q \in Seq(QueryWords), Len(q) \in 1..3
      PROVE  /\ \E m \in 0..3 : q \in [1..m -> QueryWords]
             /\ q # <<>>
  <2>1. q \in [1..Len(q) -> QueryWords] /\ Len(q) \in 0..3 /\ q # <<>>
    BY <1>3
  <2> QED BY <2>1
<1> QED BY <1>1, <1>2, <1>3

\* A list of the program's words is what is found in it as it is written.
LEMMA PlainSplit ==
  ASSUME NEW q \in Seq(Plain), q # <<>>
  PROVE  /\ q \in Seq(Seq(Characters \cup {Delimiter}))
         /\ Written(q) \in Seq(Characters \cup {Delimiter})
         /\ SplitStringT(Written(q)) = q
<1> DEFINE S == Characters \cup {Delimiter}
<1>1. \A w \in Plain : w \in Seq(S) /\ w # <<>> /\ \A j \in 1..Len(w) : w[j] # Delimiter
  <2> SUFFICES ASSUME NEW w \in Plain
               PROVE  w \in Seq(S) /\ w # <<>> /\ \A j \in 1..Len(w) : w[j] # Delimiter
    OBVIOUS
  <2>1. w \in Seq(Characters \ {Delimiter}) /\ w # <<>>
    BY DEF Plain
  <2> QED BY <2>1
<1>2. Delimiter \in S
  OBVIOUS
<1> HIDE DEF S
<1>3. Plain \subseteq Seq(S)
  BY <1>1
<1>4. q \in Seq(Seq(S))
  BY <1>3
<1>5. \A i \in 1..Len(q) : q[i] # <<>> /\ \A j \in 1..Len(q[i]) : q[i][j] # Delimiter
  <2>1. \A i \in 1..Len(q) : q[i] \in Plain
    OBVIOUS
  <2> QED BY <1>1, <2>1
<1>6. Written(q) \in Seq(S) /\ SplitStringT(Written(q)) = q
  BY <1>2, <1>4, <1>5, SplitWritten
<1> QED BY <1>4, <1>6 DEF S

\* So a query's words are what FindMatchingAdvertisements goes by.
LEMMA QueryFacts ==
  ASSUME PlainWords, NEW q \in Queries
  PROVE  q \in Seq(Plain) /\ q # <<>> /\ SplitStringT(StrT(Written(q))) = q
<1> DEFINE S == Characters \cup {Delimiter}
           t == Written(q)
<1>1. q \in Seq(QueryWords) /\ q # <<>> /\ Len(t) <= Capacity
  <2>1. q \in Seq(QueryWords) /\ Len(q) \in 1..3 /\ Len(Written(q)) <= Capacity
    BY QueriesAre, Zenon
  <2>2. q # <<>>
    <3> DEFINE n == Len(q)
    <3>1. n \in 1..3
      BY <2>1, Zenon
    <3> HIDE DEF n
    <3>2. n # 0
      BY <3>1
    <3>3. Len(<<>>) = 0
      OBVIOUS
    <3> QED BY <3>2, <3>3, Zenon DEF n
  <2> QED BY <2>1, <2>2, Zenon
<1>2. q \in Seq(Plain)
  BY <1>1, QueryWordsPlain
<1>3. t \in Seq(S) /\ SplitStringT(t) = q
  BY <1>1, <1>2, PlainSplit
<1>4. Nul \notin S
  BY ApiAssumption DEF Nul, Delimiter
<1> HIDE DEF t, S
<1>5. StrT(t) = t
  <2>1. Len(t) \in Nat /\ Capacity \in Nat
    BY <1>3, ApiAssumption
  <2>2. Min({Len(t), Capacity}) = Len(t)
    BY <1>1, <2>1, MinOfTwo
  <2>3. StrT(t) = SubSeq(t, 1, Min({Len(t), Capacity}))
    BY <1>3, <1>4, StrTFacts
  <2>4. SubSeq(t, 1, Len(t)) = t
    BY <1>3
  <2> QED BY <2>2, <2>3, <2>4
<1> QED BY <1>1, <1>2, <1>3, <1>5 DEF t


\* The filters of MatchQuery choose what a reader of the query would.
LEMMA FiltersAre ==
  ASSUME PlainWords, NEW q \in Seq(Plain), q # <<>>, NEW api \in Api
  PROVE  /\ filterExact(q, api) <=> IsNamed(q, api)
         /\ filterInexact(q, api) <=> Seqs!IsPrefix(q, api.categorization)
<1> DEFINE S == Characters \cup {Delimiter}
           Q == Seq(S)
           C == api.categorization
           N == Len(q)
           F == SubSeq(q, 1, N - 1)
<1>1. Plain \subseteq Q
  <2> SUFFICES ASSUME NEW w \in Plain
               PROVE  w \in Q
    OBVIOUS
  <2>1. w \in Seq(Characters \ {Delimiter})
    BY DEF Plain
  <2> QED BY <2>1
<1>2. C \in Categorizations /\ api.name \in Names
  BY DEF Api
<1>3. C \in Seq(Plain) /\ api.name \in Plain
  BY <1>2 DEF PlainWords
<1> HIDE DEF Q, C
<1>4. C \in Seq(Q) /\ api.name \in Q /\ q \in Seq(Q)
  BY <1>1, <1>3
<1>5. /\ N \in Nat /\ N # 0 /\ N - 1 \in Nat /\ N - 1 \in 0..N
      /\ F \in Seq(Q) /\ q[N] \in Q
  BY <1>4
<1>6. filterInexact(q, api) <=> Seqs!IsPrefix(q, C)
  <2>1. CategorizationsMatch(q, C) <=> Seqs!IsPrefix(q, C)
    BY <1>4, MatchIsPrefix DEF Q
  <2> QED BY <2>1, Zenon DEF filterInexact, C
<1>7. slice(q, 0, N - 1) = F
  <2>1. slice(q, 0, N - 1) = IF 0 <= N - 1 /\ (N - 1 <= Len(q) \/ 0 = N - 1)
                             THEN SubSeq(q, 0 + 1, N - 1) ELSE IllFormed
    <3> DEFINE e == N - 1
    <3>1. e \in Nat /\ 0 \in Nat
      BY <1>5
    <3> HIDE DEF e
    <3>2. slice(q, 0, e) = IF 0 <= e /\ (e <= Len(q) \/ 0 = e)
                           THEN SubSeq(q, 0 + 1, e) ELSE IllFormed
      BY <3>1, SliceFacts
    <3> QED BY <3>2 DEF e
  <2> QED BY <1>5, <2>1
<1>8. last(q) = q[N]
  <2>1. N - 1 \in 0..(N - 1) /\ (N - 1) + 1 = N
    BY <1>5
  <2> QED BY <2>1 DEF last, at, length
<1> DEFINE l == q[N]
<1> HIDE DEF F, l
<1>9. CategorizationsMatch(F, C) <=> Seqs!IsPrefix(F, C)
  BY <1>4, <1>5, MatchIsPrefix DEF Q
<1>10. SameString(l, api.name) <=> api.name = l
  <2>1. l \in Seq(S) /\ api.name \in Seq(S)
    BY <1>4, <1>5 DEF Q, l
  <2>2. SameString(l, api.name) <=> l = api.name
    BY <2>1, SameStringIsEqual
  <2> QED BY <2>2
<1>11. filterExact(q, api) <=> CategorizationsMatch(F, C) /\ SameString(l, api.name)
  BY <1>7, <1>8, Zenon DEF filterExact, length, C, l
<1>12. IsNamed(q, api) <=> api.name = l /\ Seqs!IsPrefix(F, C)
  BY Zenon DEF IsNamed, Seqs!Last, Seqs!Front, F, C, l
<1> QED BY <1>6, <1>9, <1>10, <1>11, <1>12 DEF C

\* What FindMatchingAdvertisements finds.
LEMMA FindFacts ==
  ASSUME PlainWords, NEW apis \in Seq(Api), NEW q \in Queries
  PROVE  LET found == FindMatchingAdvertisements(apis, StrT(Written(q)))
             all == Seqs!ToSet(apis)
         IN  /\ found.exact \in Seq(Api) /\ found.inexact \in Seq(Api)
             /\ Seqs!ToSet(found.exact) = {api \in all : IsNamed(q, api)}
             /\ Len(found.exact) = Cardinality({i \in 1..Len(apis) : IsNamed(q, apis[i])})
             /\ Seqs!ToSet(found.inexact) =
                   {api \in all : Seqs!IsPrefix(q, api.categorization)}
             /\ Len(found.inexact) = Cardinality({i \in 1..Len(apis) :
                                        Seqs!IsPrefix(q, apis[i].categorization)})
<1> DEFINE t == StrT(Written(q))
           all == Seqs!ToSet(apis)
           found == FindMatchingAdvertisements(apis, t)
           E == {api \in all : filterExact(q, api)}
           I == {api \in all : filterInexact(q, api)}
<1>1. SplitStringT(t) = q /\ q \in Seq(Plain) /\ q # <<>>
  BY QueryFacts
<1>2. length(q) # 0
  BY <1>1 DEF length
<1> HIDE DEF t
<1>3. found = [exact |-> filter(apis, E), inexact |-> filter(apis, I)]
  BY <1>1, <1>2, Zenon DEF FindMatchingAdvertisements
<1>4. found.exact = filter(apis, E) /\ found.inexact = filter(apis, I)
  <2> HIDE DEF found, E, I
  <2> QED BY <1>3
<1>5. (\A i \in 1..Len(apis) : apis[i] \in Api /\ apis[i] \in all) /\ all \subseteq Api
  <2> HIDE DEF Api
  <2> QED BY DEF Seqs!ToSet
<1>6. \A api \in all : /\ filterExact(q, api) <=> IsNamed(q, api)
                       /\ filterInexact(q, api) <=> Seqs!IsPrefix(q, api.categorization)
  <2> HIDE DEF all
  <2> QED BY <1>1, <1>5, FiltersAre
<1> HIDE DEF all, found
<1>7. /\ filter(apis, E) \in Seq(Api)
      /\ Len(filter(apis, E)) = Cardinality({i \in 1..Len(apis) : apis[i] \in E})
      /\ Seqs!ToSet(filter(apis, E)) = all \cap E
  <2> HIDE DEF E
  <2> QED BY FilterFacts DEF all
<1>8. /\ filter(apis, I) \in Seq(Api)
      /\ Len(filter(apis, I)) = Cardinality({i \in 1..Len(apis) : apis[i] \in I})
      /\ Seqs!ToSet(filter(apis, I)) = all \cap I
  <2> HIDE DEF I
  <2> QED BY FilterFacts DEF all
<1>9. all \cap E = {api \in all : IsNamed(q, api)}
  BY <1>6
<1>10. all \cap I = {api \in all : Seqs!IsPrefix(q, api.categorization)}
  BY <1>6
<1>11. {i \in 1..Len(apis) : apis[i] \in E} = {i \in 1..Len(apis) : IsNamed(q, apis[i])}
  BY <1>5, <1>6
<1>12. {i \in 1..Len(apis) : apis[i] \in I} =
          {i \in 1..Len(apis) : Seqs!IsPrefix(q, apis[i].categorization)}
  BY <1>5, <1>6
<1> HIDE DEF E, I
<1>13. /\ found.exact \in Seq(Api) /\ found.inexact \in Seq(Api)
       /\ Seqs!ToSet(found.exact) = {api \in all : IsNamed(q, api)}
       /\ Len(found.exact) = Cardinality({i \in 1..Len(apis) : IsNamed(q, apis[i])})
       /\ Seqs!ToSet(found.inexact) = {api \in all : Seqs!IsPrefix(q, api.categorization)}
       /\ Len(found.inexact) = Cardinality({i \in 1..Len(apis) :
                                  Seqs!IsPrefix(q, apis[i].categorization)})
  BY <1>4, <1>7, <1>8, <1>9, <1>10, <1>11, <1>12, Zenon
<1> QED BY <1>13, Zenon DEF found, all, t


\* A further category makes a query longer.
LEMMA CategoryLengthens ==
  ASSUME NEW words \in Seq(Plain), NEW v \in Plain, NEW w \in Plain
  PROVE  Len(Written(append(words, w))) <= Len(Written(append(append(words, v), w)))
<1> DEFINE S == Characters \cup {Delimiter}
           a == append(words, v)
<1>0. Delimiter \in S /\ <<>> \in Seq(Seq(S))
  OBVIOUS
<1>1. Plain \subseteq Seq(S)
  <2> SUFFICES ASSUME NEW x \in Plain
               PROVE  x \in Seq(S)
    OBVIOUS
  <2>1. x \in Seq(Characters \ {Delimiter})
    BY DEF Plain
  <2> QED BY <2>1
<1>2. a \in Seq(Plain) /\ Len(a) = Len(words) + 1
  <2> HIDE DEF Plain
  <2> QED BY AppendFacts
<1>3. a # <<>>
  BY <1>2
<1>4. a \in Seq(Seq(S)) /\ Written(a) \in Seq(S)
  BY <1>2, <1>3, PlainSplit
<1> HIDE DEF S
<1>5. v \in Seq(S) /\ w \in Seq(S)
  BY <1>1
<1>6. Written(append(a, w)) = concat(append(Written(a), Delimiter), w)
  <2> HIDE DEF a
  <2> QED BY <1>0, <1>3, <1>4, <1>5, WrittenNext
<1>7. ASSUME NEW x \in Seq(S)
      PROVE  /\ concat(append(x, Delimiter), w) \in Seq(S)
             /\ Len(concat(append(x, Delimiter), w)) = Len(x) + 1 + Len(w)
  BY <1>0, <1>5 DEF concat, append
<1>8. CASE words = <<>>
  <2>1. append(words, w) = <<w>>
    BY <1>8 DEF append, concat
  <2>2. Written(<<w>>) = w
    BY <1>0, <1>5, WrittenOne
  <2>3. Len(Written(append(a, w))) = Len(Written(a)) + 1 + Len(w)
    BY <1>4, <1>6, <1>7
  <2>4. Len(w) \in Nat /\ Len(Written(a)) \in Nat
    BY <1>4, <1>5
  <2> QED BY <2>1, <2>2, <2>3, <2>4
<1>9. CASE words # <<>>
  <2>1. words \in Seq(Seq(S)) /\ Written(words) \in Seq(S)
    BY <1>9, PlainSplit DEF S
  <2>2. Written(append(words, w)) = concat(append(Written(words), Delimiter), w)
    BY <1>0, <1>5, <1>9, <2>1, WrittenNext
  <2>3. Written(a) = concat(append(Written(words), Delimiter), v)
    BY <1>0, <1>5, <1>9, <2>1, WrittenNext
  <2>4. Len(Written(a)) = Len(Written(words)) + 1 + Len(v)
    <3> DEFINE x == Written(words)
    <3>1. x \in Seq(S)
      BY <2>1
    <3> HIDE DEF x
    <3>2. Len(concat(append(x, Delimiter), v)) = Len(x) + 1 + Len(v)
      BY <1>0, <1>5, <3>1 DEF concat, append
    <3> QED BY <2>3, <3>2 DEF x
  <2>5. Len(Written(append(words, w))) = Len(Written(words)) + 1 + Len(w)
    BY <1>7, <2>1, <2>2
  <2>6. Len(Written(append(a, w))) = Len(Written(a)) + 1 + Len(w)
    BY <1>4, <1>6, <1>7
  <2>7. Len(v) \in Nat /\ Len(w) \in Nat /\ Len(Written(words)) \in Nat
    BY <1>5, <2>1
  <2> HIDE DEF a
  <2> QED BY <2>4, <2>5, <2>6, <2>7 DEF a
<1> QED BY <1>8, <1>9

\* An API's name after the first k of its categories.
QueryFor(api, k) == append(SubSeq(api.categorization, 1, k), api.name)

LEMMA QueryForFacts ==
  ASSUME PlainWords, NEW api \in Api, NEW k \in 0..Len(api.categorization)
  PROVE  LET q == QueryFor(api, k)
             C == api.categorization
         IN  /\ C \in Seq(Plain) /\ SubSeq(C, 1, k) \in Seq(Plain) /\ api.name \in Plain
             /\ q \in Seq(QueryWords) /\ Len(q) = k + 1
             /\ \A a : IsNamed(q, a) <=> /\ a.name = api.name
                                         /\ Seqs!IsPrefix(SubSeq(C, 1, k), a.categorization)
<1> DEFINE C == api.categorization
           q == QueryFor(api, k)
           B == SubSeq(C, 1, k)
           w == api.name
<1>1. C \in Categorizations /\ w \in Names
  BY DEF Api
<1>2. C \in Seq(Plain) /\ w \in Plain
  BY <1>1 DEF PlainWords
<1>3. Len(C) \in Nat /\ k \in 0..Len(C) /\ k \in Nat
  BY <1>2
<1>4. w \in QueryWords /\ \A i \in 1..Len(C) : C[i] \in QueryWords
  <2>1. \A i \in 1..Len(C) : C[i] \in Seqs!ToSet(C)
    BY <1>2 DEF Seqs!ToSet
  <2> HIDE DEF C
  <2> QED BY <1>1, <2>1 DEF QueryWords
<1> HIDE DEF C, w
<1>5. B \in Seq(Plain) /\ Len(B) = k /\ \A i \in 1..k : B[i] = C[i]
  BY <1>2, <1>3
<1>6. B \in Seq(QueryWords)
  <2>1. \A i \in 1..Len(B) : B[i] \in QueryWords
    BY <1>3, <1>4, <1>5
  <2> HIDE DEF B
  <2> QED BY <1>5, <2>1
<1> HIDE DEF B
<1>7. q = append(B, w)
  BY Zenon DEF QueryFor, B, C, w
<1>8. /\ q \in Seq(QueryWords) /\ Len(q) = k + 1 /\ q[k + 1] = w
      /\ \A i \in 1..k : q[i] = B[i]
  <2>1. /\ append(B, w) \in Seq(QueryWords) /\ Len(append(B, w)) = Len(B) + 1
        /\ append(B, w)[Len(B) + 1] = w
        /\ \A i \in 1..Len(B) : append(B, w)[i] = B[i]
    BY <1>4, <1>6, AppendFacts
  <2> HIDE DEF q
  <2> QED BY <1>5, <1>7, <2>1, Zenon
<1> HIDE DEF q
<1>9. Seqs!Last(q) = w
  BY <1>8 DEF Seqs!Last
<1>10. Seqs!Front(q) = B
  <2> DEFINE F == SubSeq(q, 1, k)
  <2>1. F \in Seq(QueryWords) /\ Len(F) = k /\ \A i \in 1..k : F[i] = q[i]
    BY <1>3, <1>8
  <2>2. Seqs!Front(q) = F
    <3>1. Len(q) - 1 = k
      BY <1>3, <1>8
    <3> QED BY <3>1 DEF Seqs!Front
  <2> HIDE DEF F
  <2>3. F = B
    BY <1>5, <1>6, <1>8, <2>1, SeqEqual
  <2> QED BY <2>2, <2>3
<1>11. \A a : IsNamed(q, a) <=> a.name = w /\ Seqs!IsPrefix(B, a.categorization)
  BY <1>9, <1>10, Zenon DEF IsNamed
<1> QED BY <1>2, <1>5, <1>8, <1>11, Zenon DEF q, C, B, w

\* A shorter query is one, too.
LEMMA FewerCategories ==
  ASSUME PlainWords, NEW api \in Api, NEW n \in 1..Len(api.categorization),
         QueryFor(api, n) \in Queries
  PROVE  QueryFor(api, n - 1) \in Queries
<1> DEFINE C == api.categorization
           A == SubSeq(C, 1, n - 1)
           B == SubSeq(C, 1, n)
           w == api.name
<1>0. Len(C) \in Nat /\ n \in 1..Len(C)
  BY QueryForFacts DEF Api, PlainWords
<1>1. n \in 0..Len(C) /\ n - 1 \in 0..Len(C) /\ n \in Nat
  BY <1>0
<1>2. /\ C \in Seq(Plain) /\ A \in Seq(Plain) /\ w \in Plain
      /\ QueryFor(api, n - 1) \in Seq(QueryWords) /\ Len(QueryFor(api, n - 1)) = (n - 1) + 1
      /\ Len(QueryFor(api, n)) = n + 1
  BY <1>1, QueryForFacts, Zenon
<1>3. C[n] \in Plain
  BY <1>0, <1>2
<1>4. append(A, C[n]) = B
  <2> HIDE DEF Plain, C
  <2> QED BY <1>0, <1>2, UpToNext
<1>5. QueryFor(api, n - 1) = append(A, w) /\ QueryFor(api, n) = append(append(A, C[n]), w)
  BY <1>4, Zenon DEF QueryFor
<1>6. /\ Len(QueryFor(api, n)) \in 1..3
      /\ Len(Written(QueryFor(api, n))) <= Capacity
  BY QueriesAre, Zenon
<1>7. Len(QueryFor(api, n - 1)) \in 1..3
  <2>1. n + 1 \in 1..3 => (n - 1) + 1 \in 1..3
    BY <1>0
  <2> QED BY <1>2, <1>6, <2>1, Zenon
<1>8. Len(Written(append(A, w))) <= Len(Written(append(append(A, C[n]), w)))
  BY <1>2, <1>3, CategoryLengthens, Zenon
<1>9. Written(QueryFor(api, n - 1)) \in Seq(Characters \cup {Delimiter})
  <2> DEFINE q == QueryFor(api, n - 1)
  <2>1. q \in Seq(Plain) /\ q # <<>>
    BY <1>2, <1>7, QueryWordsPlain
  <2> QED BY <2>1, PlainSplit
<1>10. Written(QueryFor(api, n)) \in Seq(Characters \cup {Delimiter})
  BY QueryFacts, PlainSplit, Zenon
<1>11. Len(Written(QueryFor(api, n - 1))) <= Capacity
  <2> DEFINE x == Len(Written(QueryFor(api, n - 1)))
             y == Len(Written(QueryFor(api, n)))
  <2>1. x \in Nat /\ y \in Nat /\ Capacity \in Nat
    BY <1>9, <1>10, ApiAssumption
  <2>2. x <= y /\ y <= Capacity
    BY <1>5, <1>6, <1>8, Zenon
  <2> HIDE DEF x, y
  <2>3. x <= Capacity
    BY <2>1, <2>2
  <2> QED BY <2>3 DEF x
<1> QED BY <1>2, <1>7, <1>11, QueriesAre, Zenon


-----------------------------------------------------------------------------
(* The DMarcs of a program *)

\* Every class declares a tag at most once; the n-th API under it is advertised
\* by the class's n-th method.
ApiLists == {l \in Seq(Api) : \A i \in 1..Len(l) : l[i].method = i}
Submodule == [module : Modules, method : Nat, by : {"pointer", "reference"},
              returns : UNION {MayContain[m] : m \in Modules}]
Entry == ({"submodules"} \X Seq(Submodule)) \cup ({"apis"} \X ApiLists)
DistinctTags(M) == \A i, j \in 1..Len(M) : M[i][1] = M[j][1] => i = j
DMarcInv == /\ dmarc \in [Modules -> Seq(Entry)]
            /\ \A m \in Modules : DistinctTags(dmarc[m])

\* An entry is a tag and a list.
LEMMA EntryFacts ==
  ASSUME NEW e \in Entry
  PROVE  /\ e = <<e[1], e[2]>> /\ Head(e) = e[1]
         /\ e[1] = "apis" => e[2] \in ApiLists
         /\ e[1] = "submodules" => e[2] \in Seq(Submodule)
         /\ e[1] \in Tags
<1> DEFINE A == ApiLists
           B == Seq(Submodule)
<1>1. e \in ({"submodules"} \X B) \cup ({"apis"} \X A)
  BY DEF Entry
<1> HIDE DEF A, B
<1>2. /\ e = <<e[1], e[2]>>
      /\ e[1] = "apis" => e[2] \in A
      /\ e[1] = "submodules" => e[2] \in B
      /\ e[1] \in Tags
  BY <1>1 DEF Tags
<1>3. Head(e) = e[1]
  <2>1. \A a, b : Head(<<a, b>>) = a
    OBVIOUS
  <2> QED BY <1>2, <2>1, Zenon
<1> QED BY <1>2, <1>3 DEF A, B

\* A tag is looked up in the one entry that has it.
LEMMA TagFacts ==
  ASSUME NEW M \in Seq(Entry), DistinctTags(M), NEW tag
  PROVE  /\ Contains(M, tag) <=> \E i \in 1..Len(M) : M[i][1] = tag
         /\ \A i \in 1..Len(M) : M[i][1] = tag => Lookup(M, tag, <<>>) = M[i][2]
         /\ ~ Contains(M, tag) => Lookup(M, tag, <<>>) = <<>>
<1>1. \A i \in 1..Len(M) : Head(M[i]) = M[i][1]
  <2>1. \A i \in 1..Len(M) : M[i] \in Entry
    <3> HIDE DEF Entry
    <3> QED OBVIOUS
  <2> QED BY <2>1, EntryFacts
<1> HIDE DEF Entry
<1>2. /\ Contains(M, tag) <=> \E i \in 1..Len(M) : Head(M[i]) = tag
      /\ \A i \in 1..Len(M) :
              /\ Head(M[i]) = tag
              /\ \A j \in 1..(i - 1) : Head(M[j]) # tag
              => Lookup(M, tag, <<>>) = M[i][2]
      /\ ~ Contains(M, tag) => Lookup(M, tag, <<>>) = <<>>
  BY LookupFacts, Zenon
<1>3. ASSUME NEW i \in 1..Len(M), M[i][1] = tag
      PROVE  Lookup(M, tag, <<>>) = M[i][2]
  <2>1. \A j \in 1..(i - 1) : j \in 1..Len(M) /\ j # i
    OBVIOUS
  <2>2. \A j \in 1..(i - 1) : M[j][1] # tag
    BY <1>3, <2>1, Zenon DEF DistinctTags
  <2> QED BY <1>1, <1>2, <1>3, <2>1, <2>2
<1> QED BY <1>1, <1>2, <1>3

\* A class's APIs.
LEMMA ApisOf ==
  ASSUME DMarcInv, NEW m \in Modules
  PROVE  DMarcTag(dmarc, m, "apis") \in ApiLists
<1> DEFINE M == dmarc[m]
<1>1. M \in Seq(Entry) /\ DistinctTags(M)
  BY DEF DMarcInv
<1> HIDE DEF M
<1>2. DMarcTag(dmarc, m, "apis") = Lookup(M, "apis", <<>>)
  BY DEF DMarcTag, M
<1>3. CASE Contains(M, "apis")
  <2>1. PICK i \in 1..Len(M) : M[i][1] = "apis"
    BY <1>1, <1>3, TagFacts, Zenon
  <2>2. Lookup(M, "apis", <<>>) = M[i][2]
    BY <1>1, <2>1, TagFacts, Zenon
  <2>3. M[i] \in Entry
    BY <1>1
  <2> QED BY <1>2, <2>1, <2>2, <2>3, EntryFacts, Zenon
<1>4. CASE ~ Contains(M, "apis")
  <2>1. Lookup(M, "apis", <<>>) = <<>>
    BY <1>1, <1>4, TagFacts, Zenon
  <2>2. <<>> \in ApiLists
    BY DEF ApiLists
  <2> QED BY <1>2, <2>1, <2>2
<1> QED BY <1>3, <1>4

\* One class's DMarc changes.
LEMMA OneChanges ==
  ASSUME DMarcInv, NEW m \in Modules, NEW M \in Seq(Entry), DistinctTags(M),
         dmarc' = [dmarc EXCEPT ![m] = M]
  PROVE  DMarcInv'
<1>1. dmarc' \in [Modules -> Seq(Entry)]
  <2> HIDE DEF Entry
  <2> QED BY DEF DMarcInv
<1>2. ASSUME NEW k \in Modules
      PROVE  DistinctTags(dmarc'[k])
  <2>1. CASE k = m
    <3>1. dmarc'[k] = M
      BY <2>1 DEF DMarcInv
    <3> QED BY <3>1
  <2>2. CASE k # m
    <3>1. dmarc'[k] = dmarc[k]
      BY <2>2 DEF DMarcInv
    <3> QED BY <3>1 DEF DMarcInv
  <2> QED BY <2>1, <2>2
<1> QED BY <1>1, <1>2 DEF DMarcInv, Entry, ApiLists, Submodule, Api

\* A tag is declared where it is not yet.
LEMMA DeclareTagKeeps ==
  ASSUME DMarcInv, NEW m \in Modules, NEW tag \in Tags, DeclareTag(m, tag)
  PROVE  DMarcInv'
<1> DEFINE M == dmarc[m]
           e == <<tag, <<>>>>
           L == append(M, e)
<1>1. M \in Seq(Entry) /\ DistinctTags(M)
  BY DEF DMarcInv
<1>2. ~ Contains(M, tag) /\ dmarc' = [dmarc EXCEPT ![m] = L]
  BY Zenon DEF DeclareTag
<1>3. e \in Entry /\ e[1] = tag
  <2>1. <<>> \in ApiLists /\ <<>> \in Seq(Submodule)
    BY DEF ApiLists
  <2> DEFINE A == ApiLists
             B == Seq(Submodule)
  <2> HIDE DEF A, B
  <2>2. <<>> \in A /\ <<>> \in B
    BY <2>1 DEF A, B
  <2>3. e \in ({"submodules"} \X B) \cup ({"apis"} \X A)
    BY <2>2 DEF Tags
  <2>4. e[1] = tag
    OBVIOUS
  <2> QED BY <2>3, <2>4 DEF Entry, A, B
<1> HIDE DEF M, e
<1>4. \A i \in 1..Len(M) : M[i][1] # tag
  BY <1>1, <1>2, TagFacts, Zenon
<1>5. /\ L \in Seq(Entry) /\ Len(L) = Len(M) + 1 /\ L[Len(M) + 1] = e
      /\ \A i \in 1..Len(M) : L[i] = M[i]
  <2> HIDE DEF Entry
  <2> QED BY <1>1, <1>3, AppendFacts
<1> HIDE DEF L
<1>6. DistinctTags(L)
  <2> SUFFICES ASSUME NEW i \in 1..Len(L), NEW j \in 1..Len(L), L[i][1] = L[j][1]
               PROVE  i = j
    BY DEF DistinctTags
  <2>1. Len(M) \in Nat
    BY <1>1
  <2>2. \A k \in 1..Len(L) : k \in 1..Len(M) \/ k = Len(M) + 1
    BY <1>5, <2>1
  <2>3. \A k \in 1..Len(M) : L[k][1] = M[k][1] /\ M[k][1] # tag
    BY <1>4, <1>5
  <2>4. L[Len(M) + 1][1] = tag
    BY <1>3, <1>5
  <2> QED BY <1>1, <2>2, <2>3, <2>4, Zenon DEF DistinctTags
<1> QED BY <1>2, <1>5, <1>6, OneChanges

\* An item is put behind the list of its tag.
LEMMA ExtendedKeeps ==
  ASSUME DMarcInv, NEW m \in Modules, NEW tag, NEW item,
         \A i \in 1..Len(dmarc[m]) :
            dmarc[m][i][1] = tag => <<tag, append(dmarc[m][i][2], item)>> \in Entry,
         dmarc' = Extended(m, tag, item)
  PROVE  DMarcInv'
<1> DEFINE M == dmarc[m]
           L == [i \in 1..Len(M) |->
                   IF M[i][1] = tag THEN <<tag, append(M[i][2], item)>> ELSE M[i]]
<1>1. M \in Seq(Entry) /\ DistinctTags(M) /\ DOMAIN M = 1..Len(M) /\ Len(M) \in Nat
  <2> HIDE DEF Entry
  <2> QED BY DEF DMarcInv
<1>2. dmarc' = [dmarc EXCEPT ![m] = L]
  <2>1. dmarc' = [dmarc EXCEPT ![m] = [i \in DOMAIN M |->
                   IF M[i][1] = tag THEN <<tag, append(M[i][2], item)>> ELSE M[i]]]
    BY Zenon DEF Extended, transform
  <2> QED BY <1>1, <2>1, Zenon
<1>3. ASSUME NEW i \in 1..Len(M)
      PROVE  L[i] \in Entry /\ L[i][1] = M[i][1]
  <2>1. CASE M[i][1] = tag
    <3>1. L[i] = <<tag, append(M[i][2], item)>>
      BY <2>1
    <3>2. <<tag, append(M[i][2], item)>> \in Entry
      BY <2>1
    <3> DEFINE e == <<tag, append(M[i][2], item)>>
    <3>3. e[1] = tag
      OBVIOUS
    <3>4. L[i] = e /\ e \in Entry
      BY <3>1, <3>2
    <3> HIDE DEF L, e, Entry
    <3> QED BY <2>1, <3>3, <3>4
  <2>2. CASE M[i][1] # tag
    <3>1. L[i] = M[i]
      BY <2>2
    <3>2. M[i] \in Entry
      <4> HIDE DEF Entry, M
      <4> QED BY <1>1
    <3> QED BY <3>1, <3>2
  <2> QED BY <2>1, <2>2
<1>4. L \in Seq(Entry) /\ Len(L) = Len(M)
  <2>1. L = [i \in 1..Len(M) |-> L[i]]
    OBVIOUS
  <2> HIDE DEF L, Entry, M
  <2>2. L \in [1..Len(M) -> Entry]
    BY <1>3, <2>1
  <2> QED BY <1>1, <2>2
<1> HIDE DEF L, M
<1>5. DistinctTags(L)
  BY <1>1, <1>3, <1>4, Zenon DEF DistinctTags
<1> QED BY <1>2, <1>4, <1>5, OneChanges


\* A list gets longer by a submodule.
LEMMA DeclareSubmoduleKeeps ==
  ASSUME DMarcInv, NEW m \in Modules, NEW s \in MayContain[m],
         NEW by \in {"pointer", "reference"}, DeclareSubmodule(m, s, by)
  PROVE  DMarcInv'
<1> DEFINE M == dmarc[m]
           l == DMarcTag(dmarc, m, "submodules")
           item == [module |-> m, method |-> Len(l) + 1, returns |-> s, by |-> by]
<1>1. M \in Seq(Entry) /\ DistinctTags(M)
  BY DEF DMarcInv
<1>2. dmarc' = Extended(m, "submodules", item)
  BY Zenon DEF DeclareSubmodule
<1>3. ASSUME NEW i \in 1..Len(M), M[i][1] = "submodules"
      PROVE  <<"submodules", append(M[i][2], item)>> \in Entry
  <2>1. l = M[i][2]
    <3>1. Lookup(M, "submodules", <<>>) = M[i][2]
      <4> HIDE DEF M
      <4> QED BY <1>1, <1>3, TagFacts, Zenon
    <3> QED BY <3>1 DEF DMarcTag
  <2>2. M[i] \in Entry
    <3> HIDE DEF Entry, M
    <3> QED BY <1>1
  <2>3. l \in Seq(Submodule)
    BY <1>3, <2>1, <2>2, EntryFacts, Zenon
  <2> HIDE DEF l, M
  <2>4. Len(l) + 1 \in Nat /\ s \in UNION {MayContain[k] : k \in Modules}
    BY <2>3
  <2>5. item \in Submodule
    BY <2>4 DEF Submodule
  <2> HIDE DEF item
  <2>6. append(l, item) \in Seq(Submodule)
    <3> HIDE DEF Submodule
    <3> QED BY <2>3, <2>5, AppendFacts
  <2> DEFINE a == append(l, item)
             B == Seq(Submodule)
  <2> HIDE DEF a, B
  <2>7. <<"submodules", a>> \in {"submodules"} \X B
    BY <2>6 DEF a, B
  <2>8. <<"submodules", a>> \in Entry
    BY <2>7 DEF Entry, B
  <2> QED BY <2>1, <2>8 DEF a
<1> HIDE DEF item
<1> QED BY <1>2, <1>3, ExtendedKeeps

\* A list gets longer by an API, which the next method advertises.
LEMMA AdvertiseApiKeeps ==
  ASSUME DMarcInv, NEW m \in Modules, NEW c \in Categorizations, NEW n \in Names,
         NEW args \in {0, 1}, AdvertiseApi(m, c, n, args)
  PROVE  DMarcInv'
<1> DEFINE M == dmarc[m]
           l == DMarcTag(dmarc, m, "apis")
           item == [method |-> Len(l) + 1, arguments |-> args,
                    categorization |-> c, name |-> n]
<1>1. M \in Seq(Entry) /\ DistinctTags(M)
  BY DEF DMarcInv
<1>2. dmarc' = Extended(m, "apis", item)
  BY Zenon DEF AdvertiseApi
<1>3. ASSUME NEW i \in 1..Len(M), M[i][1] = "apis"
      PROVE  <<"apis", append(M[i][2], item)>> \in Entry
  <2>1. l = M[i][2]
    <3>1. Lookup(M, "apis", <<>>) = M[i][2]
      <4> HIDE DEF M
      <4> QED BY <1>1, <1>3, TagFacts, Zenon
    <3> QED BY <3>1 DEF DMarcTag
  <2>2. M[i] \in Entry
    <3> HIDE DEF Entry, M
    <3> QED BY <1>1
  <2>3. l \in ApiLists
    BY <1>3, <2>1, <2>2, EntryFacts, Zenon
  <2> HIDE DEF l, M
  <2>4. l \in Seq(Api) /\ \A k \in 1..Len(l) : l[k].method = k
    BY <2>3 DEF ApiLists
  <2>5. Len(l) \in Nat
    BY <2>4
  <2>6. item \in Api /\ item.method = Len(l) + 1
    BY <2>5 DEF Api
  <2> HIDE DEF item
  <2> DEFINE a == append(l, item)
  <2>7. /\ a \in Seq(Api) /\ Len(a) = Len(l) + 1 /\ a[Len(l) + 1] = item
        /\ \A k \in 1..Len(l) : a[k] = l[k]
    <3> HIDE DEF Api
    <3> QED BY <2>4, <2>6, AppendFacts
  <2> HIDE DEF a
  <2>8. \A k \in 1..Len(a) : a[k].method = k
    <3>1. \A k \in 1..Len(a) : k \in 1..Len(l) \/ k = Len(l) + 1
      BY <2>5, <2>7
    <3> QED BY <2>4, <2>6, <2>7, <3>1
  <2>9. a \in ApiLists
    BY <2>7, <2>8 DEF ApiLists
  <2> DEFINE A == ApiLists
  <2> HIDE DEF A
  <2>10. <<"apis", a>> \in {"apis"} \X A
    BY <2>9 DEF A
  <2>11. <<"apis", a>> \in Entry
    BY <2>10 DEF Entry, A
  <2> QED BY <2>1, <2>11 DEF a
<1> HIDE DEF item
<1> QED BY <1>2, <1>3, ExtendedKeeps

LEMMA DMarcsAreTyped == Spec => []DMarcInv
<1>1. Init => DMarcInv
  <2> SUFFICES ASSUME Init
               PROVE  DMarcInv
    OBVIOUS
  <2>1. dmarc = [m \in Modules |-> <<>>] /\ <<>> \in Seq(Entry)
    BY DEF Init
  <2>2. dmarc \in [Modules -> Seq(Entry)] /\ \A m \in Modules : dmarc[m] = <<>>
    <3> HIDE DEF Entry
    <3> QED BY <2>1
  <2>3. \A m \in Modules : DistinctTags(dmarc[m])
    <3>1. DistinctTags(<<>>)
      BY DEF DistinctTags
    <3> QED BY <2>2, <3>1
  <2> QED BY <2>2, <2>3 DEF DMarcInv
<1>2. DMarcInv /\ [Next]_vars => DMarcInv'
  <2> SUFFICES ASSUME DMarcInv, [Next]_vars
               PROVE  DMarcInv'
    OBVIOUS
  <2>1. CASE UNCHANGED dmarc
    BY <2>1 DEF DMarcInv, Entry, ApiLists, Submodule, Api, DistinctTags
  <2>2. CASE UNCHANGED vars
    BY <2>1, <2>2 DEF vars
  <2>3. CASE Next
    <3>1. ASSUME NEW m \in Modules, NEW tag \in Tags, DeclareTag(m, tag)
          PROVE  DMarcInv'
      BY <3>1, DeclareTagKeeps
    <3>2. ASSUME NEW m \in Modules, NEW s \in MayContain[m],
                 NEW by \in {"pointer", "reference"}, DeclareSubmodule(m, s, by)
          PROVE  DMarcInv'
      BY <3>2, DeclareSubmoduleKeeps
    <3>3. ASSUME NEW m \in Modules, NEW c \in Categorizations, NEW n \in Names,
                 NEW a \in {0, 1}, AdvertiseApi(m, c, n, a)
          PROVE  DMarcInv'
      BY <3>3, AdvertiseApiKeeps
    <3>4. ASSUME NEW c \in Characters, WriteCharacter(c)
          PROVE  DMarcInv'
      BY <2>1, <3>4 DEF WriteCharacter
    <3> QED BY <2>3, <3>1, <3>2, <3>3, <3>4, Zenon DEF Next
  <2> QED BY <2>2, <2>3
<1> QED BY <1>1, <1>2, PTL DEF Spec


-----------------------------------------------------------------------------
(* What queries find and allocate *)

LEMMA SpecificObeys ==
  ASSUME PlainWords, RootApis \in Seq(Api)
  PROVE  MoreSpecificMatchesLess
<1> DEFINE all == Seqs!ToSet(RootApis)
           Exact(q) == Seqs!ToSet(Find(q).exact)
<1>0. all \subseteq Api
  <2> DEFINE l == RootApis
  <2>1. l \in Seq(Api)
    OBVIOUS
  <2> HIDE DEF l, Api
  <2> QED BY <2>1 DEF Seqs!ToSet, l
<1>1. \A q \in Queries : Exact(q) = {a \in all : IsNamed(q, a)}
  <2> DEFINE l == RootApis
  <2>1. l \in Seq(Api)
    OBVIOUS
  <2> HIDE DEF l, Api
  <2> QED BY <2>1, FindFacts, Zenon DEF Find, l
<1> HIDE DEF all, Exact
<1>2. ASSUME NEW api \in all, NEW n \in 0..Len(api.categorization),
             QueryFor(api, n) \in Queries
      PROVE  /\ api \in Exact(QueryFor(api, n))
             /\ n > 0 => Exact(QueryFor(api, n)) \subseteq Exact(QueryFor(api, n - 1))
  <2> DEFINE C == api.categorization
  <2>1. api \in Api
    BY <1>0
  <2>2. /\ C \in Seq(Plain)
        /\ \A a : IsNamed(QueryFor(api, n), a) <=>
                     a.name = api.name /\ Seqs!IsPrefix(SubSeq(C, 1, n), a.categorization)
    BY <2>1, QueryForFacts, Zenon
  <2>3. Len(C) \in Nat /\ n \in 0..Len(C)
    BY <2>2
  <2>4. IsNamed(QueryFor(api, n), api)
    <3> HIDE DEF C
    <3> DEFINE B == SubSeq(C, 1, n)
    <3>1. B \in Seq(Plain) /\ Len(B) = n
      BY <2>2, <2>3
    <3>2. SubSeq(B, 1, n) = B
      <4> HIDE DEF B
      <4> QED BY <3>1
    <3>3. Seqs!IsPrefix(B, C)
      <4>1. n <= Len(C)
        BY <2>3
      <4>2. SubSeq(B, 1, Len(B)) = SubSeq(C, 1, Len(B))
        BY <3>1, <3>2
      <4> HIDE DEF B
      <4> QED BY <3>1, <4>1, <4>2 DEF Seqs!IsPrefix
    <3> QED BY <2>2, <3>3 DEF C
  <2>5. ASSUME n > 0
        PROVE  Exact(QueryFor(api, n)) \subseteq Exact(QueryFor(api, n - 1))
    <3>1. n \in 1..Len(C) /\ n - 1 \in 0..Len(C)
      BY <2>3, <2>5
    <3>2. QueryFor(api, n - 1) \in Queries
      BY <1>2, <2>1, <3>1, FewerCategories
    <3>3. \A a : IsNamed(QueryFor(api, n - 1), a) <=>
                     a.name = api.name /\ Seqs!IsPrefix(SubSeq(C, 1, n - 1), a.categorization)
      BY <2>1, <3>1, QueryForFacts, Zenon
    <3>4. ASSUME NEW a \in all, IsNamed(QueryFor(api, n), a)
          PROVE  IsNamed(QueryFor(api, n - 1), a)
      <4> DEFINE D == a.categorization
                 A == SubSeq(C, 1, n - 1)
                 B == SubSeq(C, 1, n)
      <4>1. D \in Categorizations
        BY <1>0, <3>4 DEF Api
      <4>2. D \in Seq(Plain)
        BY <4>1 DEF PlainWords
      <4>3. a.name = api.name /\ Seqs!IsPrefix(B, D)
        BY <2>2, <3>4
      <4> HIDE DEF C, D
      <4>4. /\ B \in Seq(Plain) /\ Len(B) = n /\ \A i \in 1..n : B[i] = C[i]
            /\ A \in Seq(Plain) /\ Len(A) = n - 1 /\ \A i \in 1..(n - 1) : A[i] = C[i]
        BY <2>2, <2>3, <3>1
      <4> HIDE DEF A, B
      <4>5. n <= Len(D) /\ Len(D) \in Nat /\ SubSeq(B, 1, n) = SubSeq(D, 1, n)
        BY <4>2, <4>3, <4>4 DEF Seqs!IsPrefix
      <4>6. \A i \in 1..n : B[i] = D[i]
        <5>1. SubSeq(B, 1, n) = [i \in 1..n |-> B[i]] /\ SubSeq(D, 1, n) = [i \in 1..n |-> D[i]]
          BY <2>3, <4>2, <4>4, <4>5
        <5> QED BY <4>5, <5>1
      <4>7. SubSeq(A, 1, n - 1) = SubSeq(D, 1, n - 1)
        <5>1. /\ SubSeq(A, 1, n - 1) = [i \in 1..(n - 1) |-> A[i]]
              /\ SubSeq(D, 1, n - 1) = [i \in 1..(n - 1) |-> D[i]]
          BY <2>3, <3>1, <4>2, <4>4, <4>5
        <5>2. \A i \in 1..(n - 1) : i \in 1..n
          BY <2>3
        <5>3. \A i \in 1..(n - 1) : A[i] = D[i]
          BY <4>4, <4>6, <5>2
        <5> QED BY <5>1, <5>3
      <4>8. n - 1 <= Len(D)
        BY <2>3, <4>5
      <4>9. Seqs!IsPrefix(A, D)
        BY <4>4, <4>7, <4>8 DEF Seqs!IsPrefix
      <4> QED BY <3>3, <4>3, <4>9 DEF A, D
    <3> QED BY <1>1, <1>2, <3>2, <3>4
  <2>6. api \in Exact(QueryFor(api, n))
    BY <1>1, <1>2, <2>4
  <2> QED BY <2>5, <2>6
<1>3. \A api, k : QueryFor(api, k) = SubSeq(api.categorization, 1, k) \o <<api.name>>
  BY Zenon DEF QueryFor, append, concat
<1>4. \A api \in all : \A n \in 0..Len(api.categorization) :
        QueryFor(api, n) \in Queries =>
            /\ api \in Exact(QueryFor(api, n))
            /\ n > 0 => Exact(QueryFor(api, n)) \subseteq Exact(QueryFor(api, n - 1))
  BY <1>2, Zenon
<1> QED BY <1>3, <1>4, Zenon DEF MoreSpecificMatchesLess, all, Exact

\* An API is always among the exact matches of its name after any part of its
\* categorisation that starts it, and every further category leaves fewer
\* (FindMatchingAdvertisements).
THEOREM MoreSpecificAlwaysLess ==
  ASSUME PlainWords
  PROVE  Spec => []MoreSpecificMatchesLess
<1>1. DMarcInv => MoreSpecificMatchesLess
  <2> SUFFICES ASSUME DMarcInv
               PROVE  MoreSpecificMatchesLess
    OBVIOUS
  <2>1. RootApis \in ApiLists
    BY ApisOf, ApiAssumption, Zenon DEF RootApis
  <2>2. RootApis \in Seq(Api)
    BY <2>1 DEF ApiLists
  <2> QED BY <2>2, SpecificObeys
<1> QED BY <1>1, DMarcsAreTyped, PTL

\* What is allocated is what the query names, and no category is named so.
LEMMA AllocatedIsNamed ==
  ASSUME PlainWords, RootApis \in Seq(Api), NEW q \in Queries,
         allocateApi(RootApis, StrT(Written(q))) # IllFormed
  PROVE  /\ {api \in Seqs!ToSet(RootApis) : IsNamed(q, api)} =
               {allocateApi(RootApis, StrT(Written(q)))}
         /\ \A api \in Seqs!ToSet(RootApis) : ~ Seqs!IsPrefix(q, api.categorization)
<1> DEFINE l == RootApis
           t == StrT(Written(q))
           found == FindMatchingAdvertisements(l, t)
           E == found.exact
           I == found.inexact
<1>1. /\ E \in Seq(Api) /\ I \in Seq(Api)
      /\ Seqs!ToSet(E) = {api \in Seqs!ToSet(l) : IsNamed(q, api)}
      /\ Seqs!ToSet(I) = {api \in Seqs!ToSet(l) : Seqs!IsPrefix(q, api.categorization)}
  <2>1. l \in Seq(Api)
    OBVIOUS
  <2> HIDE DEF l, Api
  <2> QED BY <2>1, FindFacts, Zenon
<1>2. /\ length(E) = 1 /\ length(I) = 0
      /\ allocateApi(l, t) = first(E)
  <2>1. allocateApi(l, t) = IF /\ length(E) = 1
                               /\ length(I) = 0
                               /\ first(E).arguments = 0
                            THEN first(E) ELSE IllFormed
    BY Zenon DEF allocateApi
  <2> QED BY <2>1, Zenon
<1> HIDE DEF E, I, l, t, Api
<1>3. first(E) = E[1] /\ Seqs!ToSet(E) = {E[1]}
  <2>1. Len(E) = 1 /\ DOMAIN E = 1..1
    BY <1>1, <1>2 DEF length
  <2>2. first(E) = E[1]
    BY <2>1 DEF first, at
  <2>3. Seqs!ToSet(E) = {E[1]}
    <3>1. \A i \in DOMAIN E : i = 1
      BY <2>1
    <3>2. 1 \in DOMAIN E
      BY <2>1
    <3>3. Seqs!ToSet(E) = {E[i] : i \in DOMAIN E}
      BY Zenon DEF Seqs!ToSet
    <3> QED BY <3>1, <3>2, <3>3
  <2> QED BY <2>2, <2>3
<1>4. Seqs!ToSet(I) = {}
  <2>1. DOMAIN I = {}
    BY <1>1, <1>2 DEF length
  <2> QED BY <2>1, Zenon DEF Seqs!ToSet
<1> QED BY <1>1, <1>2, <1>3, <1>4, Zenon DEF l, t


\* A name that is unique, and no category's, allocates its API.
LEMMA NameAllocates ==
  ASSUME PlainWords, RootApis \in ApiLists, NEW api \in Seqs!ToSet(RootApis),
         api.arguments = 0,
         \A other \in Seqs!ToSet(RootApis) :
            /\ other.name = api.name => other = api
            /\ api.name \notin Seqs!ToSet(other.categorization)
  PROVE  allocateApi(RootApis, StrT(Written(<<api.name>>))) = api
<1> DEFINE l == RootApis
           w == api.name
           q == <<w>>
           t == StrT(Written(q))
           found == FindMatchingAdvertisements(l, t)
           E == found.exact
           I == found.inexact
           Named == {i \in 1..Len(l) : IsNamed(q, l[i])}
           Under == {i \in 1..Len(l) : Seqs!IsPrefix(q, l[i].categorization)}
<1>1. l \in Seq(Api) /\ \A i \in 1..Len(l) : l[i].method = i
  BY DEF ApiLists
<1>2. (\A i \in 1..Len(l) : l[i] \in Seqs!ToSet(l) /\ l[i] \in Api) /\ api \in Api
  <2> HIDE DEF l, Api
  <2>1. \A i \in 1..Len(l) : l[i] \in Seqs!ToSet(l) /\ l[i] \in Api
    BY <1>1 DEF Seqs!ToSet
  <2>2. PICK i \in 1..Len(l) : api = l[i]
    BY <1>1 DEF Seqs!ToSet, l
  <2> QED BY <2>1, <2>2
<1>3. w \in Names /\ w \in Plain
  BY <1>2 DEF Api, PlainWords
<1>4. \A o \in Api : o.categorization \in Seq(Plain)
  BY DEF Api, PlainWords
<1>5. q \in Queries
  <2>1. w \in QueryWords
    BY <1>3 DEF QueryWords
  <2>2. q \in Seq(QueryWords) /\ Len(q) \in 1..3
    BY <2>1
  <2>3. w \in Seq(Characters \ {Delimiter}) /\ Len(w) <= Capacity
    BY <1>3 DEF Plain
  <2>4. Written(q) = w
    <3> HIDE DEF w
    <3>1. w \in Seq(Characters \cup {Delimiter}) /\ Delimiter \in Characters \cup {Delimiter}
      BY <2>3
    <3> QED BY <3>1, WrittenOne
  <2> HIDE DEF q
  <2> QED BY <2>2, <2>3, <2>4, QueriesAre
<1>6. /\ E \in Seq(Api) /\ I \in Seq(Api)
      /\ Seqs!ToSet(E) = {a \in Seqs!ToSet(l) : IsNamed(q, a)}
      /\ Len(E) = Cardinality(Named)
      /\ Len(I) = Cardinality(Under)
  <2> HIDE DEF l, Api, q
  <2> QED BY <1>1, <1>5, FindFacts, Zenon
<1>7. ASSUME NEW a \in Api
      PROVE  IsNamed(q, a) <=> a.name = w
  <2> DEFINE C == a.categorization
  <2>1. C \in Seq(Plain)
    BY <1>4
  <2>2. Seqs!Last(q) = w /\ Seqs!Front(q) = <<>>
    BY DEF Seqs!Last, Seqs!Front
  <2> HIDE DEF C, q, w, Plain
  <2>3. Seqs!IsPrefix(<<>>, C)
    <3>1. Len(<<>>) = 0 /\ 0 <= Len(C) /\ SubSeq(<<>>, 1, 0) = <<>> /\ SubSeq(C, 1, 0) = <<>>
      BY <2>1
    <3> QED BY <3>1 DEF Seqs!IsPrefix
  <2> QED BY <2>2, <2>3 DEF IsNamed, C
<1> HIDE DEF E, I, t, found
<1>8. PICK j \in 1..Len(l) : l[j] = api
  <2> HIDE DEF Api
  <2> QED BY <1>1 DEF Seqs!ToSet
<1>9. Named = {j}
  <2>1. \A i \in 1..Len(l) : IsNamed(q, l[i]) <=> i = j
    <3> SUFFICES ASSUME NEW i \in 1..Len(l)
                 PROVE  IsNamed(q, l[i]) <=> i = j
      OBVIOUS
    <3>1. IsNamed(q, l[i]) <=> l[i].name = w
      BY <1>2, <1>7
    <3>2. l[i].name = w => l[i] = api
      BY <1>2
    <3>3. l[i] = api => i = j
      BY <1>1, <1>8, Zenon
    <3>4. i = j => l[i].name = w
      BY <1>8
    <3> HIDE DEF l, w, q
    <3> QED BY <3>1, <3>2, <3>3, <3>4
  <2> HIDE DEF l, q
  <2> QED BY <2>1
<1>10. Under = {}
  <2> SUFFICES ASSUME NEW i \in 1..Len(l), Seqs!IsPrefix(q, l[i].categorization)
               PROVE  FALSE
    BY Zenon
  <2> DEFINE C == l[i].categorization
  <2>1. C \in Seq(Plain) /\ w \notin Seqs!ToSet(C)
    BY <1>2, <1>4
  <2>2. Len(q) = 1 /\ q[1] = w /\ SubSeq(q, 1, 1) = q
    <3>1. q \in Seq({w}) /\ Len(q) = 1 /\ q[1] = w
      OBVIOUS
    <3> HIDE DEF q
    <3>2. SubSeq(q, 1, Len(q)) = q
      BY <3>1
    <3> QED BY <3>1, <3>2
  <2>3. 1 <= Len(C) /\ q = SubSeq(C, 1, 1)
    <3> HIDE DEF q, C
    <3>1. Seqs!IsPrefix(q, C)
      BY DEF C
    <3> QED BY <2>2, <3>1 DEF Seqs!IsPrefix
  <2> HIDE DEF q, C, Plain, w
  <2>4. 1 \in 1..Len(C) /\ SubSeq(C, 1, 1)[1] = C[1] /\ DOMAIN C = 1..Len(C)
    BY <2>1, <2>3
  <2>5. C[1] = w
    BY <2>2, <2>3, <2>4
  <2> QED BY <2>1, <2>4, <2>5 DEF Seqs!ToSet
<1> HIDE DEF Named, Under
<1>11. Len(E) = 1 /\ Len(I) = 0
  BY <1>6, <1>9, <1>10, FS_Singleton, FS_EmptySet
<1>12. first(E) = api
  <2>1. first(E) = E[1] /\ 1 \in DOMAIN E
    BY <1>6, <1>11 DEF first, at
  <2>2. E[1] \in Seqs!ToSet(E)
    BY <2>1, Zenon DEF Seqs!ToSet
  <2>3. E[1] \in Seqs!ToSet(l) /\ IsNamed(q, E[1])
    BY <1>6, <2>2, Zenon
  <2>4. E[1] \in Api
    <3> HIDE DEF Api
    <3> QED BY <1>6, <2>1
  <2>5. E[1].name = w
    BY <1>7, <2>3, <2>4, Zenon
  <2> QED BY <2>1, <2>3, <2>5
<1>13. allocateApi(l, t) = IF /\ length(E) = 1
                              /\ length(I) = 0
                              /\ first(E).arguments = 0
                           THEN first(E) ELSE IllFormed
  BY Zenon DEF allocateApi, E, I, found
<1>14. length(E) = 1 /\ length(I) = 0 /\ first(E).arguments = 0
  BY <1>11, <1>12 DEF length
<1>15. allocateApi(l, t) = api
  BY <1>12, <1>13, <1>14, Zenon
<1> QED BY <1>15 DEF t

LEMMA AllocationObeys ==
  ASSUME PlainWords, RootApis \in ApiLists
  PROVE  AllocatesTheOneNamed
<1> DEFINE apis == Seqs!ToSet(RootApis)
           Allocated(q) == allocateApi(RootApis, StrT(Written(q)))
<1>0. RootApis \in Seq(Api)
  BY DEF ApiLists
<1>1. \A q \in Queries : Allocated(q) # IllFormed =>
        /\ {api \in apis : /\ api.name = Seqs!Last(q)
                           /\ Seqs!IsPrefix(Seqs!Front(q), api.categorization)} = {Allocated(q)}
        /\ \A api \in apis : ~ Seqs!IsPrefix(q, api.categorization)
  BY <1>0, AllocatedIsNamed, Zenon DEF IsNamed
<1>2. \A api \in apis :
        /\ api.arguments = 0
        /\ \A other \in apis :
              /\ other.name = api.name => other = api
              /\ api.name \notin Seqs!ToSet(other.categorization)
        => Allocated(<<api.name>>) = api
  BY NameAllocates, Zenon
<1> QED BY <1>1, <1>2, Zenon DEF AllocatesTheOneNamed

\* A query only ever allocates the one API that it names, and the name alone
\* allocates an API without arguments that is alone in having it (allocateApi,
\* FindMatchingAdvertisements).
THEOREM AlwaysAllocatesTheOneNamed ==
  ASSUME PlainWords
  PROVE  Spec => []AllocatesTheOneNamed
<1>1. DMarcInv => AllocatesTheOneNamed
  <2> SUFFICES ASSUME DMarcInv
               PROVE  AllocatesTheOneNamed
    OBVIOUS
  <2>1. RootApis \in ApiLists
    BY ApisOf, ApiAssumption, Zenon DEF RootApis
  <2> QED BY <2>1, AllocationObeys
<1> QED BY <1>1, DMarcsAreTyped, PTL
================================================================================
