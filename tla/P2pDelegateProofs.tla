--------------------------- MODULE P2pDelegateProofs ---------------------------
(***************************************************************************)
(* What the delegate's operators return, for every chain: lemmas that the  *)
(* proofs about DelegateCalls and ChainSync cite.                          *)
(***************************************************************************)
EXTENDS P2pDelegate, SequenceTheorems, WellFoundedInduction, TLAPS

-----------------------------------------------------------------------------
(* The least of a set of numbers *)

\* A well-founded relation has a minimal element in every set.
LEMMA MinimalElement ==
  ASSUME NEW R, IsWellFoundedOn(R, Nat), NEW T, T \subseteq Nat, T # {}
  PROVE  \E s \in T : \A t \in T : ~ (<<t, s>> \in R)
  BY WFMin, Zenon

\* A relation that puts the smaller number below the larger, and is well
\* founded, finds the least element of any set of numbers.
LEMMA LeastByRelation ==
  ASSUME NEW R, IsWellFoundedOn(R, Nat),
         \A t, s \in Nat : t < s => <<t, s>> \in R,
         NEW T, T \subseteq Nat, T # {}
  PROVE  \E s \in T : \A t \in T : s <= t
<1>1. \E s \in T : \A t \in T : ~ (<<t, s>> \in R)
  BY MinimalElement
<1>2. PICK s \in T : \A t \in T : ~ (<<t, s>> \in R)
  BY <1>1
<1>3. ASSUME NEW t \in T
      PROVE  s <= t
  <2>1. s \in Nat /\ t \in Nat
    BY <1>2
  <2>2. ~ (t < s)
    BY <2>1, <1>2, <1>3
  <2> QED BY <2>1, <2>2
<1> QED BY <1>2, <1>3

\* The relation is that of numbers themselves.
LEMMA LeastNumber ==
  ASSUME NEW T, T \subseteq Nat, T # {}
  PROVE  \E s \in T : \A t \in T : s <= t
<1>1. \A t, s \in Nat : t < s => <<t, s>> \in OpToRel(<, Nat)
  BY Zenon DEF OpToRel
<1> QED BY <1>1, NatLessThanWellFounded, LeastByRelation, ZenonT(30)

\* Induction on numbers, for a set of numbers instead of a predicate.
LEMMA InductiveSet ==
  ASSUME NEW T, 0 \in T, \A k \in Nat : k \in T => k + 1 \in T
  PROVE  Nat \subseteq T
<1> SUFFICES ASSUME Nat \ T # {}
             PROVE  FALSE
  OBVIOUS
<1>1. PICK k \in Nat \ T : \A l \in Nat \ T : k <= l
  BY LeastNumber
<1>2. k # 0 /\ k - 1 \in Nat
  BY <1>1
<1>3. k - 1 \in T
  BY <1>1, <1>2
<1>4. (k - 1) + 1 = k
  BY <1>2
<1> QED BY <1>1, <1>2, <1>3, <1>4

\* A bounded set of numbers has a greatest element.
LEMMA GreatestNumber ==
  ASSUME NEW n \in Nat, NEW T, T \subseteq 0..n, T # {}
  PROVE  \E s \in T : \A t \in T : t <= s
<1> DEFINE U == {k \in Nat : n - k \in T}
<1>1. U # {}
  <2>1. PICK t \in T : TRUE
    OBVIOUS
  <2>2. n - t \in Nat /\ n - (n - t) = t
    BY <2>1
  <2> QED BY <2>1, <2>2
<1>2. PICK k \in U : \A l \in U : k <= l
  <2> HIDE DEF U
  <2>1. U \subseteq Nat
    BY DEF U
  <2> QED BY <1>1, <2>1, LeastNumber
<1>3. ASSUME NEW t \in T
      PROVE  t <= n - k
  <2>1. n - t \in Nat /\ n - (n - t) = t /\ t \in Nat
    OBVIOUS
  <2>2. k <= n - t
    BY <1>2, <2>1
  <2> QED BY <1>2, <2>1, <2>2
<1> QED BY <1>2, <1>3

-----------------------------------------------------------------------------
(* The numbers of a synopsis *)

\* The number after n, half of the way to trueHigh.
Stride(trueHigh, n) == n + (trueHigh - n + 2) \div 2

\* A stride ends at most one number past the last.
LEMMA StrideFacts ==
  ASSUME NEW t \in Nat, NEW n \in Nat, n <= t
  PROVE  /\ Stride(t, n) \in (n + 1)..(t + 1)
         /\ 2 * (t - Stride(t, n)) + 1 <= t - n
         /\ n < t => Stride(t, n) <= t
  BY DEF Stride

\* What one element of the recursion is.
Strided(f, high, t, n) == IF n > high THEN <<>> ELSE <<n>> \o f[Stride(t, n)]

\* The recursion of SynopsisNums has a solution on every final segment, as each
\* number is defined from later ones.
LEMMA StridesDefined ==
  ASSUME NEW low \in Nat, NEW high \in Nat, NEW t \in Nat, high <= t, low <= t
  PROVE  \E f : f = [n \in low..(t + 1) |-> Strided(f, high, t, n)]
<1> DEFINE Segment(k) == {n \in Nat : n <= t + 1 /\ t + 1 <= n + k}
           Solvable == {k \in Nat : \E f : f = [n \in Segment(k) |-> Strided(f, high, t, n)]}
<1>1. 0 \in Solvable
  <2> DEFINE f == [n \in Segment(0) |-> <<>>]
  <2>1. \A n \in Segment(0) : n > high
    OBVIOUS
  <2>2. \A n \in Segment(0) : Strided(f, high, t, n) = <<>>
    BY <2>1 DEF Strided
  <2>3. f = [n \in Segment(0) |-> Strided(f, high, t, n)]
    BY <2>2
  <2> QED BY <2>3
<1>2. ASSUME NEW k \in Nat, k \in Solvable
      PROVE  k + 1 \in Solvable
  <2>1. PICK f : f = [n \in Segment(k) |-> Strided(f, high, t, n)]
    BY <1>2
  <2> DEFINE g == [n \in Segment(k + 1) |->
                     IF n \in Segment(k) THEN f[n] ELSE Strided(f, high, t, n)]
  <2>2. ASSUME NEW n \in Segment(k + 1)
        PROVE  g[n] = Strided(f, high, t, n)
    BY <2>1
  <2>3. ASSUME NEW n \in Segment(k + 1)
        PROVE  Strided(g, high, t, n) = Strided(f, high, t, n)
    <3>1. CASE n > high
      BY <3>1 DEF Strided
    <3>2. CASE n <= high
      <4>1. n \in Nat /\ n <= t /\ t + 1 <= n + (k + 1)
        BY <3>2
      <4>2. Stride(t, n) \in (n + 1)..(t + 1)
        BY <4>1, StrideFacts
      <4>3. Stride(t, n) \in Segment(k) /\ Stride(t, n) \in Segment(k + 1)
        BY <4>1, <4>2
      <4>4. g[Stride(t, n)] = f[Stride(t, n)]
        BY <4>3
      <4> HIDE DEF g
      <4> QED BY <4>4 DEF Strided
    <3> QED BY <3>1, <3>2
  <2>4. g = [n \in Segment(k + 1) |-> Strided(g, high, t, n)]
    BY <2>2, <2>3
  <2>5. \E h : h = [n \in Segment(k + 1) |-> Strided(h, high, t, n)]
    <3> HIDE DEF g, Segment
    <3> QED BY <2>4
  <2> QED BY <2>5
<1>3. (t + 1) - low \in Solvable
  <2> HIDE DEF Solvable
  <2>1. Nat \subseteq Solvable
    BY <1>1, <1>2, InductiveSet
  <2> QED BY <2>1
<1>4. Segment((t + 1) - low) = low..(t + 1)
  OBVIOUS
<1> QED BY <1>3, <1>4

\* SynopsisNums starts that recursion at low.
LEMMA SynopsisNumsRecursion ==
  ASSUME NEW low \in Nat, NEW high \in Nat, NEW t \in Nat, high <= t, low <= t
  PROVE  \E f : /\ f = [n \in low..(t + 1) |-> Strided(f, high, t, n)]
                /\ SynopsisNums(low, high, t) = f[low]
<1> DEFINE from[n \in low..(t + 1)] ==
             IF n > high THEN <<>> ELSE <<n>> \o from[n + (t - n + 2) \div 2]
<1>1. SynopsisNums(low, high, t) = from[low]
  BY Zenon DEF SynopsisNums
<1>2. \E f : f = [n \in low..(t + 1) |->
                    IF n > high THEN <<>> ELSE <<n>> \o f[n + (t - n + 2) \div 2]]
  BY StridesDefined, Zenon DEF Strided, Stride
<1>3. from = [n \in low..(t + 1) |->
                IF n > high THEN <<>> ELSE <<n>> \o from[n + (t - n + 2) \div 2]]
  BY <1>2, Zenon
<1>4. from = [n \in low..(t + 1) |-> Strided(from, high, t, n)]
  <2> HIDE DEF from
  <2> QED BY <1>3, Zenon DEF Strided, Stride
<1> HIDE DEF from
<1> QED BY <1>1, <1>4

\* What the sequence from low is: strides from low, as far as they stay at or
\* below high.
IsStrided(s, low, high, t) ==
    /\ s \in Seq(Nat) /\ s # <<>>
    /\ s[1] = low
    /\ \A i \in DOMAIN s : s[i] \in low..high
    /\ \A i \in 2..Len(s) : s[i] = Stride(t, s[i - 1])
    /\ Stride(t, s[Len(s)]) > high

\* A number alone, from which the stride leads too far.
LEMMA StridedAlone ==
  ASSUME NEW high \in Nat, NEW t \in Nat, high <= t, NEW n \in 0..high,
         Stride(t, n) > high
  PROVE  IsStrided(<<n>> \o <<>>, n, high, t)
<1>1. <<n>> \o <<>> = <<n>>
  OBVIOUS
<1>2. <<n>> \in Seq(Nat) /\ Len(<<n>>) = 1 /\ <<n>>[1] = n /\ <<n>> # <<>>
  OBVIOUS
<1> HIDE DEF Stride
<1> QED BY <1>1, <1>2 DEF IsStrided

\* A number before strides that go on from it.
LEMMA StridedBefore ==
  ASSUME NEW high \in Nat, NEW t \in Nat, high <= t, NEW n \in 0..high, NEW s,
         IsStrided(s, Stride(t, n), high, t)
  PROVE  IsStrided(<<n>> \o s, n, high, t)
<1> DEFINE r == <<n>> \o s
<1>1. s \in Seq(Nat) /\ Len(s) \in Nat \ {0} /\ DOMAIN s = 1..Len(s)
  BY DEF IsStrided
<1>2. /\ r \in Seq(Nat) /\ Len(r) = Len(s) + 1 /\ r[1] = n
      /\ \A i \in 2..Len(r) : r[i] = s[i - 1]
  BY <1>1
<1>3. Stride(t, n) > n
  <2>1. n \in Nat /\ n <= t
    OBVIOUS
  <2>2. Stride(t, n) \in (n + 1)..(t + 1)
    BY <2>1, StrideFacts
  <2> QED BY <2>1, <2>2
<1> HIDE DEF r
<1>4. r # <<>>
  BY <1>1, <1>2
<1>5. ASSUME NEW i \in DOMAIN r
      PROVE  r[i] \in n..high
  <2>1. CASE i = 1
    BY <1>2, <2>1
  <2>2. CASE i # 1
    <3>1. i \in 2..Len(r) /\ i - 1 \in DOMAIN s
      BY <1>1, <1>2, <2>2, SMTT(30)
    <3>2. r[i] \in Stride(t, n)..high
      BY <1>2, <3>1 DEF IsStrided
    <3> QED BY <1>3, <3>2 DEF Stride
  <2> QED BY <2>1, <2>2
<1>6. ASSUME NEW i \in 2..Len(r)
      PROVE  r[i] = Stride(t, r[i - 1])
  <2>1. CASE i = 2
    BY <1>1, <1>2, <2>1 DEF IsStrided
  <2>2. CASE i # 2
    <3>1. i - 1 \in 2..Len(s) /\ i - 1 \in 2..Len(r) /\ (i - 1) - 1 = i - 2
      BY <1>1, <1>2, <2>2
    <3>2. r[i] = s[i - 1] /\ r[i - 1] = s[(i - 1) - 1]
      BY <1>2, <3>1
    <3> QED BY <3>1, <3>2 DEF IsStrided
  <2> QED BY <2>1, <2>2
<1>7. r[Len(r)] = s[Len(s)]
  BY <1>1, <1>2
<1> QED BY <1>2, <1>4, <1>5, <1>6, <1>7 DEF IsStrided, r

\* So are the numbers of a synopsis.
LEMMA SynopsisNumsFacts ==
  ASSUME NEW low \in Nat, NEW high \in Nat, NEW t \in Nat, low <= high, high <= t
  PROVE  IsStrided(SynopsisNums(low, high, t), low, high, t)
<1>1. PICK f : /\ f = [n \in low..(t + 1) |-> Strided(f, high, t, n)]
               /\ SynopsisNums(low, high, t) = f[low]
  <2>1. low <= t
    OBVIOUS
  <2> QED BY <2>1, SynopsisNumsRecursion, Zenon
<1> DEFINE Right(n) == IF n > high THEN f[n] = <<>> ELSE IsStrided(f[n], n, high, t)
           Done == {k \in Nat : \A n \in low..(t + 1) : t + 1 <= n + k => Right(n)}
<1>2. 0 \in Done
  <2>1. \A n \in low..(t + 1) : t + 1 <= n + 0 => n > high
    OBVIOUS
  <2>2. \A n \in low..(t + 1) : n > high => f[n] = <<>>
    BY <1>1 DEF Strided
  <2> QED BY <2>1, <2>2
<1>3. ASSUME NEW k \in Nat, k \in Done
      PROVE  k + 1 \in Done
  <2>1. ASSUME NEW n \in low..(t + 1), t + 1 <= n + (k + 1)
        PROVE  Right(n)
    <3>1. CASE n > high
      BY <1>1, <3>1 DEF Strided
    <3>2. CASE n <= high
      <4> DEFINE m == Stride(t, n)
      <4>1. m \in (n + 1)..(t + 1)
        <5>1. n \in Nat /\ n <= t
          BY <3>2
        <5> QED BY <5>1, StrideFacts
      <4>2. m \in low..(t + 1) /\ t + 1 <= m + k
        BY <2>1, <4>1
      <4> HIDE DEF m
      <4>3. Right(m)
        BY <1>3, <4>2
      <4>4. f[n] = <<n>> \o f[m]
        <5>1. f[n] = Strided(f, high, t, n)
          BY <1>1
        <5>2. ~ (n > high)
          BY <3>2
        <5> QED BY <5>1, <5>2, Zenon DEF Strided, m
      <4>5. CASE m > high
        <5>1. f[m] = <<>>
          BY <4>3, <4>5
        <5>2. IsStrided(f[n], n, high, t)
          BY <3>2, <4>4, <4>5, <5>1, StridedAlone DEF m
        <5> QED BY <3>2, <5>2
      <4>6. CASE m <= high
        <5>1. IsStrided(f[m], m, high, t)
          BY <4>2, <4>3, <4>6
        <5>2. IsStrided(f[n], n, high, t)
          BY <3>2, <4>4, <5>1, StridedBefore DEF m
        <5> QED BY <3>2, <5>2
      <4> QED BY <4>2, <4>5, <4>6
    <3> QED BY <3>1, <3>2
  <2> QED BY <2>1
<1>4. (t + 1) - low \in Done
  <2> HIDE DEF Done
  <2>1. Nat \subseteq Done
    BY <1>2, <1>3, InductiveSet
  <2> QED BY <2>1
<1>5. Right(low)
  BY <1>4
<1> QED BY <1>1, <1>5

\* They grow, each halves what is left, and none but the last is followed by
\* too long a stride.
LEMMA StridedGrows ==
  ASSUME NEW low \in Nat, NEW high \in Nat, NEW t \in Nat, high <= t,
         NEW s, IsStrided(s, low, high, t)
  PROVE  /\ \A i, j \in DOMAIN s : i < j => s[i] < s[j]
         /\ \A i \in 2..Len(s) : 2 * (t - s[i]) + 1 <= t - s[i - 1]
         /\ high = t => s[Len(s)] = t
<1>1. s \in Seq(Nat) /\ Len(s) \in Nat \ {0} /\ DOMAIN s = 1..Len(s)
  BY DEF IsStrided
<1>2. \A i \in DOMAIN s : s[i] \in Nat /\ s[i] <= high /\ s[i] <= t
  BY <1>1 DEF IsStrided
<1>3. ASSUME NEW i \in 2..Len(s)
      PROVE  s[i - 1] < s[i] /\ 2 * (t - s[i]) + 1 <= t - s[i - 1]
  <2>1. i - 1 \in DOMAIN s /\ i \in DOMAIN s
    BY <1>1
  <2>2. s[i] = Stride(t, s[i - 1])
    BY DEF IsStrided
  <2>3. s[i - 1] \in Nat /\ s[i - 1] <= t
    BY <1>2, <2>1
  <2>4. s[i] \in (s[i - 1] + 1)..(t + 1) /\ 2 * (t - s[i]) + 1 <= t - s[i - 1]
    BY <2>2, <2>3, StrideFacts
  <2> QED BY <2>3, <2>4, SMTT(30)
<1> DEFINE Later == {k \in Nat : \A i, j \in DOMAIN s : j = i + 1 + k => s[i] < s[j]}
<1>4. 0 \in Later
  <2>1. ASSUME NEW i \in DOMAIN s, NEW j \in DOMAIN s, j = i + 1 + 0
        PROVE  s[i] < s[j]
    <3>1. j \in 2..Len(s) /\ j - 1 = i
      BY <1>1, <2>1
    <3> QED BY <1>3, <3>1
  <2> QED BY <2>1
<1>5. ASSUME NEW k \in Nat, k \in Later
      PROVE  k + 1 \in Later
  <2>1. ASSUME NEW i \in DOMAIN s, NEW j \in DOMAIN s, j = i + 1 + (k + 1)
        PROVE  s[i] < s[j]
    <3>1. j \in 2..Len(s) /\ j - 1 \in DOMAIN s /\ j - 1 = i + 1 + k
      <4>1. i \in 1..Len(s) /\ j \in 1..Len(s) /\ Len(s) \in Nat
        BY <1>1
      <4>2. j - 1 = i + 1 + k /\ j \in 2..Len(s) /\ j - 1 \in 1..Len(s)
        BY <2>1, <4>1, SMTT(30)
      <4> QED BY <1>1, <4>2
    <3>2. s[i] < s[j - 1] /\ s[j - 1] < s[j]
      BY <1>3, <1>5, <3>1
    <3> QED BY <1>2, <3>1, <3>2, SMTT(30)
  <2> QED BY <2>1
<1>6. Nat \subseteq Later
  <2> HIDE DEF Later
  <2> QED BY <1>4, <1>5, InductiveSet
<1>7. ASSUME NEW i \in DOMAIN s, NEW j \in DOMAIN s, i < j
      PROVE  s[i] < s[j]
  <2>1. j - i - 1 \in Nat /\ j = i + 1 + (j - i - 1)
    BY <1>1, <1>7, SMTT(30)
  <2>2. j - i - 1 \in Later
    BY <1>6, <2>1
  <2> QED BY <2>1, <2>2
<1>8. ASSUME high = t
      PROVE  s[Len(s)] = t
  <2>1. Len(s) \in DOMAIN s
    BY <1>1
  <2>2. s[Len(s)] \in Nat /\ s[Len(s)] <= t
    BY <1>2, <2>1
  <2>3. Stride(t, s[Len(s)]) > t
    BY <1>8 DEF IsStrided
  <2>4. ~ (s[Len(s)] < t)
    <3>1. s[Len(s)] < t => Stride(t, s[Len(s)]) <= t
      BY <2>2, StrideFacts
    <3> QED BY <2>2, <2>3, <3>1 DEF Stride
  <2> QED BY <2>2, <2>4
<1> QED BY <1>3, <1>7, <1>8

\* Strides that stop at high are the first ones of those that go on to the end.
LEMMA StridedContinues ==
  ASSUME NEW low \in Nat, NEW high \in Nat, NEW t \in Nat, high <= t,
         NEW s, IsStrided(s, low, high, t), NEW r, IsStrided(r, low, t, t)
  PROVE  /\ Len(s) <= Len(r)
         /\ \A i \in DOMAIN s : s[i] = r[i]
         /\ \A i \in (Len(s) + 1)..Len(r) : r[i] > high
<1>1. s \in Seq(Nat) /\ Len(s) \in Nat \ {0} /\ DOMAIN s = 1..Len(s)
  BY DEF IsStrided
<1>2. r \in Seq(Nat) /\ Len(r) \in Nat \ {0} /\ DOMAIN r = 1..Len(r)
  BY DEF IsStrided
<1> DEFINE Same == {k \in Nat : k + 1 \in DOMAIN s =>
                                  k + 1 \in DOMAIN r /\ s[k + 1] = r[k + 1]}
<1>3. 0 \in Same
  BY <1>1, <1>2 DEF IsStrided
<1>4. ASSUME NEW k \in Nat, k \in Same
      PROVE  k + 1 \in Same
  <2>1. ASSUME k + 2 \in DOMAIN s
        PROVE  k + 2 \in DOMAIN r /\ s[k + 2] = r[k + 2]
    <3>1. /\ k + 1 \in DOMAIN s /\ k + 1 \in DOMAIN r /\ s[k + 1] = r[k + 1]
          /\ k + 2 \in 2..Len(s) /\ (k + 2) - 1 = k + 1
      BY <1>1, <1>4, <2>1
    <3>2. s[k + 2] = Stride(t, r[k + 1])
      BY <3>1 DEF IsStrided
    <3>3. s[k + 2] \in Nat /\ s[k + 2] <= t
      <4>1. s[k + 2] \in low..high
        BY <2>1, Zenon DEF IsStrided
      <4> QED BY <4>1
    <3>4. k + 1 # Len(r)
      BY <3>2, <3>3, SMTT(30) DEF IsStrided
    <3>5. k + 2 \in 2..Len(r)
      <4>1. k + 1 \in 1..Len(r)
        BY <1>2, <3>1
      <4>2. ASSUME NEW n \in Nat, n # k + 1, k + 1 \in 1..n
            PROVE  k + 2 \in 2..n
        BY <4>2
      <4> QED BY <1>2, <3>4, <4>1, <4>2
    <3> QED BY <1>2, <3>1, <3>2, <3>5 DEF IsStrided
  <2>2. (k + 1) + 1 = k + 2
    OBVIOUS
  <2> QED BY <2>1, <2>2
<1>5. Nat \subseteq Same
  <2> HIDE DEF Same
  <2> QED BY <1>3, <1>4, InductiveSet
<1>6. ASSUME NEW i \in DOMAIN s
      PROVE  i \in DOMAIN r /\ s[i] = r[i]
  <2>1. i - 1 \in Nat /\ (i - 1) + 1 = i
    BY <1>1
  <2>2. i - 1 \in Same
    BY <1>5, <2>1
  <2> QED BY <2>1, <2>2
<1>7. Len(s) <= Len(r)
  BY <1>1, <1>2, <1>6, SMTT(30)
<1>8. ASSUME NEW i \in (Len(s) + 1)..Len(r)
      PROVE  r[i] > high
  <2> DEFINE n == Len(s) + 1
  <2>1. n \in 2..Len(r) /\ n \in DOMAIN r /\ i \in DOMAIN r /\ n - 1 = Len(s)
    BY <1>1, <1>2, SMTT(30)
  <2>2. r[Len(s)] = s[Len(s)]
    BY <1>1, <1>6
  <2>3. r[n] = Stride(t, s[Len(s)])
    BY <2>1, <2>2 DEF IsStrided
  <2>4. r[n] > high
    BY <2>3 DEF IsStrided
  <2>5. n < i => r[n] < r[i]
    <3> HIDE DEF n
    <3> QED BY <2>1, StridedGrows, SMTT(30)
  <2>6. r[n] \in Nat /\ r[i] \in Nat
    BY <1>2, <2>1
  <2>7. n = i \/ n < i
    BY <1>1
  <2> HIDE DEF n
  <2> QED BY <2>4, <2>5, <2>6, <2>7
<1> QED BY <1>6, <1>7, <1>8

-----------------------------------------------------------------------------
(* Paths *)

\* The blocks, and the id of none.
Paths == Blocks \cup {Zero}

\* A prefix, element by element.
LEMMA PrefixFacts ==
  ASSUME NEW S, NEW a \in Seq(S), NEW b \in Seq(S)
  PROVE  /\ IsPrefix(a, b) <=> Len(a) <= Len(b) /\ \A i \in 1..Len(a) : a[i] = b[i]
         /\ IsPrefix(a, b) <=> Len(a) <= Len(b) /\ a = SubSeq(b, 1, Len(a))
<1>1. SubSeq(a, 1, Len(a)) = a
  OBVIOUS
<1>2. ASSUME Len(a) <= Len(b)
      PROVE  (a = SubSeq(b, 1, Len(a))) <=> \A i \in 1..Len(a) : a[i] = b[i]
  <2>1. /\ SubSeq(b, 1, Len(a)) \in Seq(S) /\ Len(SubSeq(b, 1, Len(a))) = Len(a)
        /\ \A i \in 1..Len(a) : SubSeq(b, 1, Len(a))[i] = b[i]
    BY <1>2
  <2> QED BY <2>1, SeqEqual
<1> QED BY <1>1, <1>2 DEF IsPrefix

\* The beginning of a path.
LEMMA InitialFacts ==
  ASSUME NEW S, NEW b \in Seq(S), NEW n \in 0..Len(b)
  PROVE  /\ SubSeq(b, 1, n) \in Seq(S)
         /\ Len(SubSeq(b, 1, n)) = n
         /\ \A i \in 1..n : SubSeq(b, 1, n)[i] = b[i]
         /\ IsPrefix(SubSeq(b, 1, n), b)
<1>1. /\ SubSeq(b, 1, n) \in Seq(S)
      /\ Len(SubSeq(b, 1, n)) = n
      /\ \A i \in 1..n : SubSeq(b, 1, n)[i] = b[i]
  OBVIOUS
<1>2. IsPrefix(SubSeq(b, 1, n), b)
  <2> DEFINE a == SubSeq(b, 1, n)
  <2>1. a \in Seq(S) /\ Len(a) <= Len(b) /\ \A i \in 1..Len(a) : a[i] = b[i]
    BY <1>1
  <2> HIDE DEF a
  <2>2. IsPrefix(a, b)
    BY <2>1, PrefixFacts
  <2> QED BY <2>2 DEF a
<1> QED BY <1>1, <1>2

\* Prefixes of prefixes, of the same path, and of the same length.
LEMMA PrefixOrder ==
  ASSUME NEW S, NEW a \in Seq(S), NEW b \in Seq(S), NEW c \in Seq(S)
  PROVE  /\ IsPrefix(a, a) /\ IsPrefix(<<>>, a)
         /\ IsPrefix(a, b) => Len(a) <= Len(b)
         /\ IsPrefix(a, b) /\ IsPrefix(b, c) => IsPrefix(a, c)
         /\ IsPrefix(a, c) /\ IsPrefix(b, c) /\ Len(a) <= Len(b) => IsPrefix(a, b)
         /\ IsPrefix(a, b) /\ Len(b) <= Len(a) => a = b
<1>1. <<>> \in Seq(S) /\ Len(<<>>) = 0
  OBVIOUS
<1>2. IsPrefix(<<>>, a) /\ IsPrefix(a, a)
  <2>1. ASSUME NEW z \in Seq(S), Len(z) = 0
        PROVE  IsPrefix(z, a)
    <3>1. Len(z) <= Len(a) /\ \A i \in 1..Len(z) : z[i] = a[i]
      BY <2>1
    <3> QED BY <3>1, PrefixFacts
  <2>2. IsPrefix(a, a)
    BY PrefixFacts
  <2> QED BY <1>1, <2>1, <2>2
<1>3. IsPrefix(a, b) => Len(a) <= Len(b)
  BY DEF IsPrefix
<1>4. ASSUME IsPrefix(a, b), IsPrefix(b, c)
      PROVE  IsPrefix(a, c)
  <2>1. /\ Len(a) <= Len(b) /\ \A i \in 1..Len(a) : a[i] = b[i]
        /\ Len(b) <= Len(c) /\ \A i \in 1..Len(b) : b[i] = c[i]
    BY <1>4, PrefixFacts
  <2>2. Len(a) <= Len(c) /\ \A i \in 1..Len(a) : a[i] = c[i]
    BY <2>1
  <2> QED BY <2>2, PrefixFacts
<1>5. ASSUME IsPrefix(a, c), IsPrefix(b, c), Len(a) <= Len(b)
      PROVE  IsPrefix(a, b)
  <2>1. /\ \A i \in 1..Len(a) : a[i] = c[i]
        /\ \A i \in 1..Len(b) : b[i] = c[i]
    BY <1>5, PrefixFacts
  <2>2. \A i \in 1..Len(a) : a[i] = b[i]
    BY <1>5, <2>1
  <2> QED BY <1>5, <2>2, PrefixFacts
<1>6. ASSUME IsPrefix(a, b), Len(b) <= Len(a)
      PROVE  a = b
  <2>1. Len(a) = Len(b) /\ \A i \in 1..Len(a) : a[i] = b[i]
    BY <1>6, PrefixFacts
  <2> QED BY <2>1, SeqEqual
<1> QED BY <1>2, <1>3, <1>4, <1>5, <1>6

\* Every path is a sequence of steps, and Zero the only empty one.
LEMMA PathFacts ==
  /\ Paths \subseteq Seq(Steps)
  /\ \A b \in Paths : Len(b) \in Nat /\ (Len(b) = 0 <=> b = Zero)
  /\ Zero \in Paths /\ Len(Zero) = 0
  /\ \A b \in Blocks : Len(b) > 0 /\ Previous(b) \in Paths /\ b \in Paths
<1>1. Paths \subseteq Seq(Steps)
  <2>1. Blocks \subseteq Seq(Steps)
    BY BlocksAssumption
  <2>2. <<>> \in Seq(Steps)
    OBVIOUS
  <2> QED BY <2>1, <2>2 DEF Paths, Zero
<1> QED BY <1>1, BlocksAssumption DEF Paths, Zero

\* What comes before a block.
LEMMA PreviousFacts ==
  ASSUME NEW b \in Blocks
  PROVE  /\ Previous(b) = SubSeq(b, 1, Len(b) - 1)
         /\ Len(Previous(b)) = Len(b) - 1
         /\ IsPrefix(Previous(b), b)
<1>1. b \in Seq(Steps) /\ Len(b) - 1 \in 0..Len(b)
  BY PathFacts
<1> QED BY <1>1, InitialFacts DEF Previous, Front

\* Every beginning of a path is a path.
LEMMA InitialIsPath ==
  ASSUME NEW b \in Paths, NEW n \in 0..Len(b)
  PROVE  SubSeq(b, 1, n) \in Paths /\ (n > 0 => SubSeq(b, 1, n) \in Blocks)
<1>1. b \in Seq(Steps) /\ Len(b) \in Nat
  BY PathFacts
<1> DEFINE Down == {k \in Nat : k <= Len(b) => SubSeq(b, 1, Len(b) - k) \in Paths}
<1>2. 0 \in Down
  <2>1. Len(b) - 0 = Len(b) /\ SubSeq(b, 1, Len(b)) = b
    BY <1>1
  <2> QED BY <2>1
<1>3. ASSUME NEW k \in Nat, k \in Down
      PROVE  k + 1 \in Down
  <2>1. ASSUME k + 1 <= Len(b)
        PROVE  SubSeq(b, 1, Len(b) - (k + 1)) \in Paths
    <3> DEFINE c == SubSeq(b, 1, Len(b) - k)
               d == SubSeq(b, 1, Len(b) - (k + 1))
    <3>1. Len(b) - k \in 1..Len(b) /\ Len(b) - (k + 1) \in 0..Len(b)
      BY <1>1, <2>1
    <3>2. c \in Paths /\ Len(c) = Len(b) - k
      BY <1>1, <1>3, <2>1, <3>1, InitialFacts
    <3>3. c \in Blocks
      <4> HIDE DEF c
      <4>1. Len(c) # 0
        BY <1>1, <3>1, <3>2
      <4> QED BY <3>2, <4>1, PathFacts DEF Paths
    <3>4. /\ d \in Seq(Steps) /\ Len(d) = Len(b) - (k + 1) /\ IsPrefix(d, b)
          /\ c \in Seq(Steps) /\ IsPrefix(c, b)
      BY <1>1, <3>1, InitialFacts
    <3> HIDE DEF c, d
    <3>5. Len(d) <= Len(c) /\ Len(d) = Len(c) - 1
      BY <1>1, <3>2, <3>4
    <3>6. IsPrefix(d, c)
      BY <1>1, <3>4, <3>5, PrefixOrder
    <3>7. d = Previous(c)
      BY <3>3, <3>4, <3>5, <3>6, PrefixFacts, PreviousFacts
    <3>8. d \in Paths
      BY <3>3, <3>7, PathFacts
    <3> QED BY <3>8 DEF d
  <2> QED BY <2>1
<1>4. Len(b) - n \in Down
  <2> HIDE DEF Down
  <2>1. Nat \subseteq Down
    BY <1>2, <1>3, InductiveSet
  <2> QED BY <1>1, <2>1
<1>5. SubSeq(b, 1, n) \in Paths
  <2>1. Len(b) - n <= Len(b) /\ Len(b) - (Len(b) - n) = n
    BY <1>1
  <2> QED BY <1>4, <2>1
<1>6. Len(SubSeq(b, 1, n)) = n
  BY <1>1, InitialFacts
<1> QED BY <1>5, <1>6, PathFacts DEF Paths

\* The blocks that lead to a path are its prefixes, and blocks themselves.
LEMMA AncestryFacts ==
  ASSUME NEW b \in Paths
  PROVE  /\ Ancestry(b) \subseteq Blocks
         /\ \A a \in Paths : a \in Ancestry(b) <=> a # Zero /\ IsPrefix(a, b)
<1>1. b \in Seq(Steps) /\ Len(b) \in Nat
  BY PathFacts
<1>2. \A n \in 1..Len(b) : n \in 0..Len(b) /\ n > 0
  BY <1>1
<1>3. Ancestry(b) \subseteq Blocks
  BY <1>2, InitialIsPath DEF Ancestry
<1>4. ASSUME NEW a \in Paths, a \in Ancestry(b)
      PROVE  a # Zero /\ IsPrefix(a, b)
  <2>1. PICK n \in 1..Len(b) : a = SubSeq(b, 1, n)
    BY <1>4 DEF Ancestry
  <2>2. Len(a) = n /\ IsPrefix(a, b)
    BY <1>1, <1>2, <2>1, InitialFacts
  <2> QED BY <2>2, PathFacts
<1>5. ASSUME NEW a \in Paths, a # Zero, IsPrefix(a, b)
      PROVE  a \in Ancestry(b)
  <2>1. a \in Seq(Steps) /\ Len(a) \in Nat /\ Len(a) # 0
    BY <1>5, PathFacts
  <2>2. Len(a) \in 1..Len(b) /\ a = SubSeq(b, 1, Len(a))
    BY <1>1, <1>5, <2>1, PrefixFacts
  <2> QED BY <2>2 DEF Ancestry
<1> QED BY <1>3, <1>4, <1>5

\* A block of a chain, by its number.
LEMMA InChainFacts ==
  ASSUME NEW a \in Paths, NEW b \in Paths, Len(a) <= Len(b)
  PROVE  IsPrefix(a, b) <=> a = SubSeq(b, 1, Len(a))
<1>1. a \in Seq(Steps) /\ b \in Seq(Steps)
  BY PathFacts
<1> QED BY <1>1, PrefixFacts

\* Chains agree up to a common prefix.
LEMMA SamePrefix ==
  ASSUME NEW a \in Paths, NEW b \in Paths, IsPrefix(a, b), NEW n \in 0..Len(a)
  PROVE  SubSeq(a, 1, n) = SubSeq(b, 1, n) /\ IsPrefix(SubSeq(b, 1, n), b)
         /\ n \in 0..Len(b)
<1>1. a \in Seq(Steps) /\ b \in Seq(Steps) /\ Len(a) \in Nat /\ Len(b) \in Nat
  BY PathFacts
<1>2. Len(a) <= Len(b) /\ \A i \in 1..Len(a) : a[i] = b[i]
  BY <1>1, PrefixFacts
<1>3. n \in 0..Len(b)
  BY <1>1, <1>2
<1>4. /\ SubSeq(a, 1, n) \in Seq(Steps) /\ Len(SubSeq(a, 1, n)) = n
      /\ \A i \in 1..n : SubSeq(a, 1, n)[i] = a[i]
  BY <1>1, InitialFacts
<1>5. /\ SubSeq(b, 1, n) \in Seq(Steps) /\ Len(SubSeq(b, 1, n)) = n
      /\ \A i \in 1..n : SubSeq(b, 1, n)[i] = b[i]
  BY <1>1, <1>3, InitialFacts
<1>6. \A i \in 1..n : SubSeq(a, 1, n)[i] = SubSeq(b, 1, n)[i]
  BY <1>1, <1>2, <1>4, <1>5
<1>7. SubSeq(a, 1, n) = SubSeq(b, 1, n)
  BY <1>4, <1>5, <1>6, SeqEqual
<1>8. IsPrefix(SubSeq(b, 1, n), b)
  BY <1>1, <1>3, InitialFacts
<1> QED BY <1>3, <1>7, <1>8

\* There is a last common ancestor, and it is in both chains.
LEMMA CommonAncestorFacts ==
  ASSUME NEW a \in Paths, NEW b \in Paths
  PROVE  /\ CommonAncestor(a, b) \in Paths
         /\ IsPrefix(CommonAncestor(a, b), a)
         /\ IsPrefix(CommonAncestor(a, b), b)
         /\ \A d \in Paths : IsPrefix(d, a) /\ IsPrefix(d, b)
                               => Len(d) <= Len(CommonAncestor(a, b))
<1>1. a \in Seq(Steps) /\ b \in Seq(Steps) /\ Len(a) \in Nat /\ Zero \in Paths
  BY PathFacts
<1> DEFINE Shared == {d \in Ancestry(a) \cup {Zero} : IsPrefix(d, b)}
           Nums == {n \in 0..Len(a) : \E d \in Shared : Len(d) = n}
           Is(c) == /\ IsPrefix(c, b)
                    /\ \A d \in Ancestry(a) : IsPrefix(d, b) => Len(d) <= Len(c)
<1>2. ASSUME NEW d \in Ancestry(a) \cup {Zero}
      PROVE  d \in Paths /\ IsPrefix(d, a) /\ Len(d) \in 0..Len(a)
  <2>1. d \in Paths
    BY AncestryFacts, PathFacts DEF Paths
  <2>2. IsPrefix(d, a)
    <3>1. CASE d = Zero
      BY <1>1, <3>1, PrefixOrder DEF Zero
    <3>2. CASE d \in Ancestry(a)
      BY <2>1, <3>2, AncestryFacts
    <3> QED BY <3>1, <3>2
  <2>3. d \in Seq(Steps) /\ Len(d) \in Nat
    BY <2>1, PathFacts
  <2> QED BY <1>1, <2>1, <2>2, <2>3, PrefixOrder
<1>3. Zero \in Shared /\ Len(Zero) = 0
  BY <1>1, PrefixOrder, PathFacts DEF Zero
<1>4. PICK n \in Nums : \A m \in Nums : m <= n
  <2>1. Nums # {}
    BY <1>1, <1>3
  <2>2. Nums \subseteq 0..Len(a)
    OBVIOUS
  <2> HIDE DEF Nums
  <2> QED BY <1>1, <2>1, <2>2, GreatestNumber
<1>5. PICK c \in Shared : Len(c) = n
  BY <1>4
<1>6. Is(c)
  <2>1. \A d \in Ancestry(a) : IsPrefix(d, b) => Len(d) \in Nums
    BY <1>2
  <2> QED BY <1>4, <1>5, <2>1
<1>7. CommonAncestor(a, b) = CHOOSE e \in Ancestry(a) \cup {Zero} : Is(e)
  BY DEF CommonAncestor
<1>8. CommonAncestor(a, b) \in Ancestry(a) \cup {Zero} /\ Is(CommonAncestor(a, b))
  <2>1. c \in Ancestry(a) \cup {Zero}
    BY <1>5
  <2> HIDE DEF Is
  <2> QED BY <1>6, <1>7, <2>1
<1>9. CommonAncestor(a, b) \in Paths /\ IsPrefix(CommonAncestor(a, b), a)
  BY <1>2, <1>8
<1>10. ASSUME NEW d \in Paths, IsPrefix(d, a), IsPrefix(d, b)
       PROVE  Len(d) <= Len(CommonAncestor(a, b))
  <2>1. CASE d = Zero
    BY <1>9, <2>1, PathFacts
  <2>2. CASE d # Zero
    BY <1>8, <1>10, <2>2, AncestryFacts
  <2> QED BY <2>1, <2>2
<1> QED BY <1>8, <1>9, <1>10

-----------------------------------------------------------------------------
(* get_blockchain_synopsis *)

\* What chain::database keeps to: the chain is known, and no known block has a
\* number beyond the head.
IsDatabase(db) ==
    /\ db.head \in Paths
    /\ db.known \subseteq Blocks
    /\ Ancestry(db.head) \subseteq db.known
    /\ \A b \in db.known : Len(b) <= Len(db.head)
    /\ db.undo \in 0..Len(db.head)

\* The last block a synopsis is about.
TipOf(db, reference) == IF reference = Zero THEN db.head ELSE reference

\* The blocks with those numbers on the way to the tip.
Named(nums, tip) == [i \in DOMAIN nums |-> SubSeq(tip, 1, nums[i])]

\* A synopsis names blocks on the way to the tip, whether that is in the chain
\* or on a fork, with numbers in strides from one that cannot be undone.
LEMMA SynopsisFacts ==
  ASSUME NEW db, IsDatabase(db), NEW reference \in Paths, NEW after \in Nat,
         ~ SynopsisThrows(db, reference), TipOf(db, reference) # Zero
  PROVE  LET tip == TipOf(db, reference)
         IN  \E low \in 1..Len(tip), nums \in Seq(Nat) :
                /\ low <= db.undo \/ low = 1
                /\ IsStrided(nums, low, Len(tip), Len(tip) + after)
                /\ get_blockchain_synopsis(db, reference, after) = Named(nums, tip)
<1> DEFINE tip  == TipOf(db, reference)
           c    == Covered(db, reference)
           low  == IF c.low = 0 THEN 1 ELSE c.low
           nums == SynopsisNums(low, c.high, c.high + after)
           entry(n) == IF n <= c.nonFork THEN get_block_id_for_num(db, n)
                       ELSE c.fork[n - c.nonFork]
<1>1. /\ tip \in Paths /\ Len(tip) \in Nat /\ Len(tip) # 0
      /\ db.head \in Paths /\ Len(db.head) \in Nat
      /\ db.undo \in Nat /\ db.undo <= Len(db.head)
  <2>1. tip \in Paths /\ tip # Zero /\ db.head \in Paths
    BY DEF IsDatabase, TipOf
  <2>2. Len(tip) \in Nat /\ Len(tip) # 0 /\ Len(db.head) \in Nat
    BY <2>1, PathFacts
  <2> QED BY <2>1, <2>2 DEF IsDatabase
<1>2. get_blockchain_synopsis(db, reference, after) = [i \in DOMAIN nums |-> entry(nums[i])]
  <2>1. ~ (reference = Zero /\ Len(db.head) = 0)
    BY <1>1 DEF TipOf
  <2> QED BY <2>1, Zenon DEF get_blockchain_synopsis
<1>3. /\ c.high = Len(tip)
      /\ c.low \in Nat /\ c.low <= db.undo /\ c.low <= Len(tip)
      /\ \A n \in 1..Len(tip) : entry(n) = SubSeq(tip, 1, n)
  <2>1. CASE reference = Zero
    <3>1. c = WholeChain(db) /\ tip = db.head
      BY <2>1 DEF Covered, TipOf
    <3> QED BY <1>1, <3>1 DEF WholeChain, get_block_id_for_num
  <2>2. CASE reference # Zero /\ blockIsInOurChain(db, reference)
    <3>1. c = UpToOurBlock(db, reference) /\ tip = reference
      BY <2>2 DEF Covered, TipOf
    <3>2. Len(tip) <= Len(db.head)
      BY <1>1, <2>2, <3>1 DEF SynopsisThrows, LookUpThrows, HasNum, num_from_id
    <3>3. tip = SubSeq(db.head, 1, Len(tip))
      BY <2>2, <3>1 DEF blockIsInOurChain, get_block_id_for_num, num_from_id
    <3>4. IsPrefix(tip, db.head)
      BY <1>1, <3>2, <3>3, InChainFacts
    <3>5. \A n \in 1..Len(tip) : n \in 0..Len(tip)
      OBVIOUS
    <3>6. \A n \in 1..Len(tip) : SubSeq(db.head, 1, n) = SubSeq(tip, 1, n)
      BY <1>1, <3>4, <3>5, SamePrefix
    <3>7. /\ c.high = Len(tip) /\ c.nonFork = Len(tip)
          /\ c.low = IF Len(tip) < db.undo THEN Len(tip) ELSE db.undo
      BY <3>1 DEF UpToOurBlock, num_from_id
    <3> HIDE DEF c, tip
    <3> QED BY <1>1, <3>6, <3>7 DEF get_block_id_for_num
  <2>3. CASE reference # Zero /\ ~ blockIsInOurChain(db, reference)
    <3> DEFINE a == CommonAncestor(reference, db.head)
    <3>1. c = UpToForkBlock(db, reference) /\ tip = reference
      BY <2>3 DEF Covered, TipOf
    <3>2. a \in Paths /\ IsPrefix(a, tip) /\ IsPrefix(a, db.head) /\ Len(a) \in Nat
      BY <1>1, <3>1, CommonAncestorFacts, PathFacts
    <3>3. Len(a) <= Len(tip)
      BY <3>2 DEF IsPrefix
    <3>4. /\ c.low = db.undo /\ c.nonFork = Len(a)
          /\ c.high = Len(a) + Len(ForkHistory(db, reference))
          /\ c.fork = ForkHistory(db, reference)
      BY <3>1 DEF UpToForkBlock
    <3>5. ForkHistory(db, reference) =
            [i \in 1..(Len(tip) - Len(a)) |-> SubSeq(tip, 1, Len(a) + i)]
      BY <3>1 DEF ForkHistory
    <3> HIDE DEF a, c, tip
    <3>6. Len(ForkHistory(db, reference)) = Len(tip) - Len(a)
      BY <1>1, <3>2, <3>3, <3>5
    <3>7. db.undo <= Len(a)
      <4>1. ~ (UpToForkBlock(db, reference).nonFork < db.undo)
        BY <2>3 DEF SynopsisThrows
      <4> QED BY <1>1, <3>1, <3>2, <3>4, <4>1
    <3>8. ASSUME NEW n \in 1..Len(tip)
          PROVE  entry(n) = SubSeq(tip, 1, n)
      <4>1. CASE n <= Len(a)
        <5>1. n \in 0..Len(a)
          BY <3>2, <4>1
        <5>2. SubSeq(a, 1, n) = SubSeq(tip, 1, n) /\ SubSeq(a, 1, n) = SubSeq(db.head, 1, n)
          BY <1>1, <3>2, <5>1, SamePrefix
        <5> QED BY <3>4, <4>1, <5>2 DEF get_block_id_for_num
      <4>2. CASE ~ (n <= Len(a))
        <5>1. n - Len(a) \in 1..(Len(tip) - Len(a)) /\ Len(a) + (n - Len(a)) = n
          BY <1>1, <3>2, <4>2
        <5>2. c.fork[n - Len(a)] = SubSeq(tip, 1, n)
          BY <3>4, <3>5, <5>1
        <5> QED BY <3>4, <4>2, <5>2
      <4> QED BY <4>1, <4>2
    <3> HIDE DEF entry
    <3> QED BY <1>1, <3>2, <3>3, <3>4, <3>6, <3>7, <3>8
  <2> QED BY <2>1, <2>2, <2>3
<1> HIDE DEF entry, c, tip
<1>4. low \in 1..Len(tip) /\ (low <= db.undo \/ low = 1)
  BY <1>1, <1>3
<1>5. IsStrided(nums, low, Len(tip), Len(tip) + after)
  <2>1. low \in Nat /\ low <= Len(tip) /\ Len(tip) + after \in Nat /\ Len(tip) <= Len(tip) + after
    BY <1>1, <1>4
  <2> HIDE DEF low
  <2> QED BY <1>1, <1>3, <2>1, SynopsisNumsFacts
<1> HIDE DEF low, nums
<1>6. nums \in Seq(Nat) /\ \A i \in DOMAIN nums : nums[i] \in 1..Len(tip)
  <2>1. nums \in Seq(Nat) /\ \A i \in DOMAIN nums : nums[i] \in low..Len(tip)
    BY <1>5 DEF IsStrided
  <2> QED BY <1>1, <1>4, <2>1
<1>7. [i \in DOMAIN nums |-> entry(nums[i])] = Named(nums, tip)
  BY <1>3, <1>6 DEF Named
<1>8. get_blockchain_synopsis(db, reference, after) = Named(nums, tip)
  BY <1>2, <1>7
<1> QED BY <1>4, <1>5, <1>6, <1>8 DEF tip

\* The blocks of a synopsis are in order, and the tip is the last if net::node
\* has none to append.
LEMMA NamedFacts ==
  ASSUME NEW tip \in Paths, NEW low \in 1..Len(tip), NEW high \in Nat, high <= Len(tip),
         NEW t \in Nat, high <= t, NEW nums, IsStrided(nums, low, high, t)
  PROVE  LET s == Named(nums, tip)
         IN  /\ s \in Seq(Blocks) /\ Len(s) = Len(nums) /\ Len(s) \in Nat \ {0}
             /\ \A i \in DOMAIN s : /\ s[i] = SubSeq(tip, 1, nums[i])
                                    /\ Len(s[i]) = nums[i]
                                    /\ IsPrefix(s[i], tip)
             /\ \A i, j \in DOMAIN s : i < j => Len(s[i]) < Len(s[j])
             /\ Len(s[1]) = low
<1> DEFINE s == Named(nums, tip)
<1>1. tip \in Seq(Steps) /\ Len(tip) \in Nat /\ low \in Nat
  BY PathFacts
<1>2. /\ nums \in Seq(Nat) /\ Len(nums) \in Nat \ {0} /\ DOMAIN nums = 1..Len(nums)
      /\ nums[1] = low
      /\ \A i \in DOMAIN nums : nums[i] \in low..high
  BY DEF IsStrided
<1>3. \A i \in DOMAIN nums : nums[i] \in 0..Len(tip) /\ nums[i] > 0
  BY <1>1, <1>2
<1>4. \A i \in DOMAIN nums : SubSeq(tip, 1, nums[i]) \in Blocks
  BY <1>3, InitialIsPath
<1>5. /\ DOMAIN s = 1..Len(nums) /\ s \in Seq(Blocks) /\ Len(s) = Len(nums)
      /\ \A i \in DOMAIN s : s[i] = SubSeq(tip, 1, nums[i])
  BY <1>2, <1>4 DEF Named
<1> HIDE DEF s
<1>6. \A i \in DOMAIN s : Len(s[i]) = nums[i] /\ IsPrefix(s[i], tip)
  <2>1. \A i \in DOMAIN nums : /\ Len(SubSeq(tip, 1, nums[i])) = nums[i]
                              /\ IsPrefix(SubSeq(tip, 1, nums[i]), tip)
    BY <1>1, <1>3, InitialFacts
  <2> QED BY <1>2, <1>5, <2>1
<1>7. \A i, j \in DOMAIN nums : i < j => nums[i] < nums[j]
  BY <1>1, StridedGrows
<1>8. Len(s[1]) = low
  BY <1>2, <1>5, <1>6
<1>9. \A i, j \in DOMAIN s : i < j => Len(s[i]) < Len(s[j])
  BY <1>2, <1>5, <1>6, <1>7
<1> QED BY <1>2, <1>5, <1>6, <1>8, <1>9 DEF s

-----------------------------------------------------------------------------
(* get_block_ids *)

\* Up to limit blocks of a chain from a number on, and how many are left.
Batch(head, first, limit) ==
    LET last == IF first + limit - 1 < Len(head) THEN first + limit - 1 ELSE Len(head)
    IN  [ids       |-> [i \in 1..(last + 1 - first) |-> SubSeq(head, 1, first + i - 1)],
         remaining |-> Len(head) - last]

\* A batch is a piece of the chain without a gap, and what it leaves is left
\* because the limit was reached.
LEMMA BatchFacts ==
  ASSUME NEW head \in Paths, NEW first \in 1..Len(head), NEW limit \in Nat \ {0}
  PROVE  LET r == Batch(head, first, limit)
         IN  /\ r.ids \in Seq(Blocks) /\ Len(r.ids) \in Nat \ {0}
             /\ \A i \in DOMAIN r.ids : /\ r.ids[i] = SubSeq(head, 1, first + i - 1)
                                        /\ Len(r.ids[i]) = first + i - 1
                                        /\ IsPrefix(r.ids[i], head)
             /\ \A i \in 2..Len(r.ids) : Previous(r.ids[i]) = r.ids[i - 1]
             /\ r.remaining \in Nat
             /\ Len(Last(r.ids)) + r.remaining = Len(head)
             /\ r.remaining > 0 => Len(r.ids) = limit
<1> DEFINE last == IF first + limit - 1 < Len(head) THEN first + limit - 1 ELSE Len(head)
           count == last + 1 - first
           ids == [i \in 1..count |-> SubSeq(head, 1, first + i - 1)]
           r == Batch(head, first, limit)
<1>1. head \in Seq(Steps) /\ Len(head) \in Nat
  BY PathFacts
<1>2. /\ last \in Nat /\ last <= Len(head) /\ first <= last /\ count \in Nat \ {0}
      /\ Len(head) - last > 0 => count = limit
  BY <1>1
<1>3. r.ids = ids /\ r.remaining = Len(head) - last
  BY DEF Batch
<1>4. \A i \in 1..count : first + i - 1 \in 0..Len(head) /\ first + i - 1 > 0
  BY <1>1, <1>2
<1> HIDE DEF last, r
<1>5. \A i \in 1..count : SubSeq(head, 1, first + i - 1) \in Blocks
  <2> HIDE DEF count
  <2> QED BY <1>4, InitialIsPath
<1>6. \A i \in 1..count : /\ Len(SubSeq(head, 1, first + i - 1)) = first + i - 1
                          /\ IsPrefix(SubSeq(head, 1, first + i - 1), head)
  <2> HIDE DEF count
  <2> QED BY <1>1, <1>4, InitialFacts
<1>7. ids \in Seq(Blocks) /\ Len(ids) = count /\ DOMAIN ids = 1..count
      /\ \A i \in 1..count : ids[i] = SubSeq(head, 1, first + i - 1)
  <2> HIDE DEF count
  <2> QED BY <1>2, <1>5
<1> HIDE DEF ids
<1>8. ASSUME NEW i \in 2..count
      PROVE  Previous(ids[i]) = ids[i - 1]
  <2>1. /\ i \in 1..count /\ i - 1 \in 1..count /\ first + (i - 1) - 1 = (first + i - 1) - 1
        /\ ids[i] \in Blocks
    BY <1>2, <1>5, <1>7
  <2>2. /\ Len(ids[i]) = first + i - 1 /\ IsPrefix(ids[i], head)
        /\ Len(ids[i - 1]) = (first + i - 1) - 1
        /\ ids[i - 1] = SubSeq(head, 1, (first + i - 1) - 1)
    BY <1>6, <1>7, <2>1
  <2>3. Previous(ids[i]) = SubSeq(ids[i], 1, (first + i - 1) - 1)
    BY <2>1, <2>2, PreviousFacts
  <2>4. (first + i - 1) - 1 \in 0..Len(ids[i]) /\ ids[i] \in Paths
    BY <2>1, <2>2 DEF Paths
  <2>5. PICK n \in 0..Len(ids[i]) : n = (first + i - 1) - 1
    BY <2>4
  <2>6. SubSeq(ids[i], 1, n) = SubSeq(head, 1, n)
    BY <2>2, <2>4, SamePrefix
  <2> QED BY <2>2, <2>3, <2>5, <2>6
<1>9. Len(Last(ids)) = last
  <2>1. count \in 1..count /\ first + count - 1 = last
    BY <1>2
  <2>2. Last(ids) = SubSeq(head, 1, last) /\ Len(SubSeq(head, 1, last)) = last
    <3> HIDE DEF count
    <3> QED BY <1>6, <1>7, <2>1 DEF Last
  <2> QED BY <2>2
<1> HIDE DEF count
<1>10. /\ r.remaining \in Nat /\ Len(Last(r.ids)) + r.remaining = Len(head)
       /\ r.remaining > 0 => Len(r.ids) = limit
  BY <1>1, <1>2, <1>3, <1>7, <1>9
<1> QED BY <1>2, <1>3, <1>6, <1>7, <1>8, <1>10 DEF r

\* The answer to a synopsis is the batch from the last of its blocks that the
\* chain has, from the first block if it is empty, or none is found and the
\* call throws.
LEMMA BlockIdsFacts ==
  ASSUME NEW db, IsDatabase(db), db.head # Zero, NEW s \in Seq(Blocks),
         NEW limit \in Nat \ {0}
  PROVE  LET r == get_block_ids(db, s, limit)
         IN  \/ s = <<>> /\ r = Batch(db.head, 1, limit)
             \/ /\ s # <<>> /\ r = Threw
                /\ \A i \in DOMAIN s : ~ IsPrefix(s[i], db.head)
             \/ \E i \in DOMAIN s :
                   /\ IsPrefix(s[i], db.head) /\ Len(s[i]) \in 1..Len(db.head)
                   /\ \A j \in DOMAIN s : IsPrefix(s[j], db.head) => j <= i
                   /\ r = Batch(db.head, Len(s[i]), limit)
<1> DEFINE matches == {i \in DOMAIN s :
                         \/ s[i] = Zero
                         \/ /\ is_known_block(db, s[i])
                            /\ blockIsInOurChain(db, s[i])}
           anchor == LastKnown(db, s)
           first == IF anchor = Zero THEN 1 ELSE num_from_id(anchor)
           r == get_block_ids(db, s, limit)
<1>1. db.head \in Paths /\ Len(db.head) \in Nat \ {0}
  BY PathFacts DEF IsDatabase
<1>2. ASSUME NEW i \in DOMAIN s
      PROVE  /\ s[i] \in Blocks /\ s[i] # Zero /\ s[i] \in Paths
             /\ i \in matches <=> IsPrefix(s[i], db.head)
  <2>1. s[i] \in Blocks /\ s[i] \in Paths /\ s[i] # Zero
    <3>1. s[i] \in Blocks
      OBVIOUS
    <3> QED BY <3>1, BlocksAssumption DEF Paths
  <2>2. ASSUME i \in matches
        PROVE  IsPrefix(s[i], db.head)
    <3>1. Len(s[i]) <= Len(db.head) /\ s[i] = SubSeq(db.head, 1, Len(s[i]))
      BY <2>1, <2>2 DEF IsDatabase, is_known_block, blockIsInOurChain,
                        get_block_id_for_num, num_from_id
    <3> QED BY <1>1, <2>1, <3>1, InChainFacts
  <2>3. ASSUME IsPrefix(s[i], db.head)
        PROVE  i \in matches
    <3>1. s[i] \in db.known
      BY <1>1, <2>1, <2>3, AncestryFacts DEF IsDatabase
    <3>2. Len(s[i]) <= Len(db.head)
      BY <3>1 DEF IsDatabase
    <3>3. s[i] = SubSeq(db.head, 1, Len(s[i]))
      BY <1>1, <2>1, <2>3, <3>2, InChainFacts
    <3> QED BY <3>1, <3>3 DEF is_known_block, blockIsInOurChain,
                              get_block_id_for_num, num_from_id
  <2> QED BY <2>1, <2>2, <2>3
<1>3. ASSUME anchor # Threw, first \in 1..Len(db.head)
      PROVE  r = Batch(db.head, first, limit)
  <2> DEFINE last == IF first + limit - 1 < Len(db.head) THEN first + limit - 1
                     ELSE Len(db.head)
             ids == [i \in 1..(last + 1 - first) |->
                       get_block_id_for_num(db, first + i - 1)]
  <2>1. r = [ids |-> ids, remaining |-> Remaining(db, ids)]
    BY <1>1, <1>3 DEF get_block_ids
  <2>2. ids = Batch(db.head, first, limit).ids
    BY DEF Batch, get_block_id_for_num
  <2> HIDE DEF first, anchor
  <2>3. /\ Batch(db.head, first, limit).ids \in Seq(Blocks)
        /\ Len(Batch(db.head, first, limit).ids) \in Nat \ {0}
        /\ Batch(db.head, first, limit).remaining \in Nat
        /\ Len(Last(Batch(db.head, first, limit).ids))
             + Batch(db.head, first, limit).remaining = Len(db.head)
    BY <1>1, <1>3, BatchFacts
  <2> HIDE DEF ids
  <2>4. Last(ids) \in Blocks
    BY <2>2, <2>3 DEF Last
  <2>5. Len(Last(ids)) \in Nat /\ ids # <<>>
    BY <2>2, <2>3, <2>4, PathFacts DEF Paths
  <2>6. Remaining(db, ids) = Batch(db.head, first, limit).remaining
    <3>1. Remaining(db, ids) = Len(db.head) - Len(Last(ids))
      BY <2>5 DEF Remaining, num_from_id
    <3>2. /\ Batch(db.head, first, limit).remaining \in Nat
          /\ Len(Last(ids)) + Batch(db.head, first, limit).remaining = Len(db.head)
      BY <2>2, <2>3
    <3> QED BY <2>5, <3>1, <3>2
  <2>7. Batch(db.head, first, limit) = [ids       |-> Batch(db.head, first, limit).ids,
                                        remaining |-> Batch(db.head, first, limit).remaining]
    BY DEF Batch
  <2> QED BY <2>1, <2>2, <2>6, <2>7
<1>4. CASE s = <<>>
  <2>1. anchor = Zero
    BY <1>4 DEF LastKnown
  <2>2. first = 1 /\ anchor # Threw
    BY <2>1, ThrewAssumption
  <2>3. r = Batch(db.head, first, limit)
    BY <1>1, <1>3, <2>2
  <2> HIDE DEF r, first, anchor
  <2> QED BY <1>4, <2>2, <2>3 DEF r
<1>5. CASE s # <<>> /\ matches = {}
  <2>1. anchor = Threw
    BY <1>5 DEF LastKnown
  <2>2. r = Threw
    BY <1>1, <2>1 DEF get_block_ids
  <2>3. \A i \in DOMAIN s : ~ IsPrefix(s[i], db.head)
    BY <1>2, <1>5
  <2> QED BY <1>5, <2>2, <2>3
<1>6. CASE s # <<>> /\ matches # {}
  <2> DEFINE m == CHOOSE i \in matches : \A j \in matches : j <= i
  <2>1. anchor = s[m]
    BY <1>6 DEF LastKnown
  <2>2. matches \subseteq 0..Len(s) /\ Len(s) \in Nat
    OBVIOUS
  <2>3. m \in matches /\ \A j \in matches : j <= m
    <3> HIDE DEF matches
    <3>1. \E i \in matches : \A j \in matches : j <= i
      BY <1>6, <2>2, GreatestNumber
    <3> QED BY <3>1
  <2>4. m \in DOMAIN s
    BY <2>3
  <2> HIDE DEF m, matches
  <2>5. s[m] \in Blocks /\ s[m] # Zero /\ s[m] \in Paths /\ IsPrefix(s[m], db.head)
    BY <1>2, <2>3, <2>4
  <2>6. Len(s[m]) \in Nat \ {0} /\ Len(s[m]) <= Len(db.head)
    BY <2>5, PathFacts DEF IsPrefix
  <2>7. first = Len(s[m]) /\ anchor # Threw
    BY <2>1, <2>5, ThrewAssumption DEF num_from_id
  <2>8. first \in 1..Len(db.head)
    BY <1>1, <2>6, <2>7
  <2>9. r = Batch(db.head, Len(s[m]), limit)
    BY <1>3, <2>7, <2>8
  <2>10. \A j \in DOMAIN s : IsPrefix(s[j], db.head) => j <= m
    BY <1>2, <2>3
  <2> HIDE DEF first, anchor, r
  <2>11. Len(s[m]) \in 1..Len(db.head)
    BY <1>1, <2>6
  <2> QED BY <2>4, <2>5, <2>9, <2>10, <2>11 DEF r
<1> QED BY <1>4, <1>5, <1>6

================================================================================
