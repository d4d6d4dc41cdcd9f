-------------------------- MODULE DelegateCallsProofs --------------------------
(***************************************************************************)
(* Proofs that the delegate's answers fit each other, over every state of  *)
(* a chain database and chains of any length.                              *)
(***************************************************************************)
EXTENDS DelegateCalls, P2pDelegateProofs

-----------------------------------------------------------------------------
(* The database *)

\* What a database keeps to, with the predecessors of all blocks it knows.
DatabaseInv ==
    /\ db \in [head : Paths, known : SUBSET Blocks, undo : Nat]
    /\ IsDatabase(db)
    /\ \A b \in db.known : Ancestry(b) \subseteq db.known

\* A block adds only itself to what leads to it.
LEMMA AncestryOfBlock ==
  ASSUME NEW b \in Blocks
  PROVE  Ancestry(b) = Ancestry(Previous(b)) \cup {b}
<1>1. b \in Paths /\ Previous(b) \in Paths /\ b \in Seq(Steps) /\ Previous(b) \in Seq(Steps)
  BY PathFacts DEF Paths
<1>2. IsPrefix(Previous(b), b) /\ Len(Previous(b)) = Len(b) - 1 /\ b # Zero /\ Len(b) \in Nat
  BY <1>1, PreviousFacts, BlocksAssumption, PathFacts
<1>3. ASSUME NEW a \in Blocks
      PROVE  a \in Ancestry(b) <=> a \in Ancestry(Previous(b)) \cup {b}
  <2>1. a \in Paths /\ a \in Seq(Steps) /\ a # Zero /\ Len(a) \in Nat
    BY PathFacts, BlocksAssumption DEF Paths
  <2>2. (a \in Ancestry(b) <=> IsPrefix(a, b))
        /\ (a \in Ancestry(Previous(b)) <=> IsPrefix(a, Previous(b)))
    BY <1>1, <2>1, AncestryFacts
  <2>3. ASSUME IsPrefix(a, b), a # b
        PROVE  IsPrefix(a, Previous(b))
    <3>1. Len(a) <= Len(Previous(b))
      BY <1>1, <1>2, <2>1, <2>3, PrefixOrder
    <3> QED BY <1>1, <1>2, <2>1, <2>3, <3>1, PrefixOrder
  <2>4. IsPrefix(a, Previous(b)) => IsPrefix(a, b)
    BY <1>1, <1>2, <2>1, PrefixOrder
  <2>5. IsPrefix(b, b)
    BY <1>1, PrefixOrder
  <2> QED BY <2>2, <2>3, <2>4, <2>5
<1>4. Ancestry(b) \subseteq Blocks /\ Ancestry(Previous(b)) \subseteq Blocks
  BY <1>1, AncestryFacts
<1> QED BY <1>3, <1>4

\* Nothing leads to Zero.
LEMMA AncestryOfZero == Ancestry(Zero) = {}
  BY PathFacts DEF Ancestry

\* A block on top of a known one, or of none, keeps a database one, whether it
\* becomes the head or not.
LEMMA BlockAdded ==
  ASSUME DatabaseInv, NEW b \in Blocks, Previous(b) \in db.known \cup {Zero},
         NEW head, head \in {b, db.head}, Len(b) <= Len(head),
         Len(db.head) <= Len(head),
         db' = [db EXCEPT !.known = @ \cup {b}, !.head = head]
  PROVE  DatabaseInv'
<1>1. /\ db'.known = db.known \cup {b} /\ db'.head = head /\ db'.undo = db.undo
      /\ db' \in [head : Paths, known : SUBSET Blocks, undo : Nat]
  BY DEF DatabaseInv, Paths
<1>2. Ancestry(b) \subseteq db.known \cup {b}
  <2>1. Ancestry(Previous(b)) \subseteq db.known
    BY AncestryOfZero DEF DatabaseInv
  <2> QED BY <2>1, AncestryOfBlock
<1>3. \A c \in db'.known : Ancestry(c) \subseteq db'.known
  BY <1>1, <1>2 DEF DatabaseInv
<1>4. Ancestry(head) \subseteq db'.known
  BY <1>1, <1>2 DEF DatabaseInv, IsDatabase
<1>5. head \in Paths /\ db.head \in Paths /\ Len(head) \in Nat /\ Len(db.head) \in Nat
  BY PathFacts DEF DatabaseInv, IsDatabase, Paths
<1>6. \A c \in db'.known : Len(c) <= Len(head)
  <2>1. \A c \in db.known : Len(c) <= Len(db.head) /\ Len(c) \in Nat
    BY PathFacts DEF DatabaseInv, IsDatabase
  <2> QED BY <1>1, <1>5, <2>1
<1>7. db.undo \in 0..Len(head)
  BY <1>5 DEF DatabaseInv, IsDatabase
<1> QED BY <1>1, <1>3, <1>4, <1>5, <1>6, <1>7 DEF DatabaseInv, IsDatabase

\* Every step keeps a database one.
LEMMA DatabaseStep ==
  ASSUME DatabaseInv, [Next]_db
  PROVE  DatabaseInv'
<1>1. ASSUME NEW b \in Blocks, PushBlock(b)
      PROVE  DatabaseInv'
  <2>1. db.head \in db.known \cup {Zero}
    <3>1. db.head \in Paths /\ db.head \in Seq(Steps)
      BY PathFacts DEF DatabaseInv, IsDatabase
    <3>2. db.head # Zero => db.head \in Ancestry(db.head)
      BY <3>1, AncestryFacts, PrefixOrder
    <3> QED BY <3>2 DEF DatabaseInv, IsDatabase
  <2>2. Len(db.head) <= Len(b) /\ Len(b) <= Len(b)
    BY <1>1, PreviousFacts, PathFacts DEF PushBlock
  <2>3. db' = [db EXCEPT !.known = @ \cup {b}, !.head = b]
    BY <1>1 DEF PushBlock, DatabaseInv
  <2> QED BY <1>1, <2>1, <2>2, <2>3, BlockAdded DEF PushBlock
<1>2. ASSUME NEW b \in Blocks, PushForkBlock(b)
      PROVE  DatabaseInv'
  <2> DEFINE head == IF Len(b) > Len(db.head) THEN b ELSE db.head
  <2>1. Len(b) \in Nat /\ Len(db.head) \in Nat
    BY PathFacts DEF DatabaseInv, IsDatabase
  <2>2. head \in {b, db.head} /\ Len(b) <= Len(head) /\ Len(db.head) <= Len(head)
    BY <2>1
  <2>3. db' = [db EXCEPT !.known = @ \cup {b}, !.head = head]
    BY <1>2 DEF PushForkBlock, DatabaseInv
  <2>4. Previous(b) \in db.known \cup {Zero}
    BY <1>2 DEF PushForkBlock
  <2> HIDE DEF head
  <2> QED BY <2>2, <2>3, <2>4, BlockAdded
<1>3. CASE AdvanceUndo
  <2>1. Len(db.head) \in Nat
    BY PathFacts DEF DatabaseInv, IsDatabase
  <2>2. /\ db'.head = db.head /\ db'.known = db.known /\ db'.undo = db.undo + 1
        /\ db' \in [head : Paths, known : SUBSET Blocks, undo : Nat]
    BY <1>3 DEF AdvanceUndo, DatabaseInv
  <2> QED BY <1>3, <2>1, <2>2 DEF AdvanceUndo, DatabaseInv, IsDatabase
<1>4. CASE UNCHANGED db
  BY <1>4 DEF DatabaseInv, IsDatabase
<1> QED BY <1>1, <1>2, <1>3, <1>4 DEF Next

\* A database is one after any blocks.
LEMMA DatabaseHolds == Spec => []DatabaseInv
<1>1. Init => DatabaseInv
  BY AncestryOfZero, PathFacts DEF Init, DatabaseInv, IsDatabase
<1>2. DatabaseInv /\ [Next]_db => DatabaseInv'
  BY DatabaseStep
<1> QED BY <1>1, <1>2, PTL DEF Spec

-----------------------------------------------------------------------------
(* Synopses *)

\* The synopses that SynopsisSummarises and SynopsisIsShort are about.
LEMMA AnswerFacts ==
  ASSUME DatabaseInv, NEW reference \in db.known \cup {Zero}, NEW after \in 0..MaxAfter,
         NEW s \in Answers(reference, after)
  PROVE  LET tip == TipOf(db, reference)
         IN  /\ tip \in Paths /\ Len(tip) \in Nat /\ after \in Nat
             /\ \E low \in 1..Len(tip), nums \in Seq(Nat) :
                  /\ low <= db.undo \/ low = 1
                  /\ IsStrided(nums, low, Len(tip), Len(tip) + after)
                  /\ s = Named(nums, tip)
<1>1. /\ s = get_blockchain_synopsis(db, reference, after)
      /\ s # Threw /\ s # <<>>
  BY DEF Answers
<1>2. reference \in Paths /\ after \in Nat
  BY BoundsAssumption, PathFacts DEF DatabaseInv, IsDatabase, Paths
<1>3. ~ SynopsisThrows(db, reference)
  BY <1>1 DEF get_blockchain_synopsis
<1>4. TipOf(db, reference) # Zero
  <2>1. ~ (reference = Zero /\ Len(db.head) = 0)
    BY <1>1, <1>3 DEF get_blockchain_synopsis
  <2> QED BY <2>1, PathFacts DEF TipOf
<1>5. TipOf(db, reference) \in Paths
  BY <1>2 DEF TipOf, DatabaseInv, IsDatabase
<1>6. IsDatabase(db)
  BY DEF DatabaseInv
<1> DEFINE tip == TipOf(db, reference)
           Is(x) == \E low \in 1..Len(tip), nums \in Seq(Nat) :
                      /\ low <= db.undo \/ low = 1
                      /\ IsStrided(nums, low, Len(tip), Len(tip) + after)
                      /\ x = Named(nums, tip)
<1>7. Is(get_blockchain_synopsis(db, reference, after))
  BY <1>2, <1>3, <1>4, <1>6, SynopsisFacts
<1>8. Is(s)
  <2> HIDE DEF Is
  <2> QED BY <1>1, <1>7
<1>9. Len(tip) \in Nat
  BY <1>5, PathFacts
<1> QED BY <1>2, <1>5, <1>8, <1>9

\* For chains and forks of any length: a synopsis names blocks of the branch
\* that ends in the reference, in order, from one that cannot be undone up to
\* the reference itself (get_blockchain_synopsis).
THEOREM SynopsesSummarise == Spec => []SynopsisSummarises
<1>1. DatabaseInv => SynopsisSummarises
  <2> SUFFICES ASSUME DatabaseInv, NEW reference \in db.known \cup {Zero},
                      NEW after \in 0..MaxAfter, NEW s \in Answers(reference, after)
               PROVE  LET tip == IF reference = Zero THEN db.head ELSE reference
                      IN  /\ \A i \in DOMAIN s : IsPrefix(s[i], tip) /\ s[i] # Zero
                          /\ \A i, j \in DOMAIN s : i < j => Len(s[i]) < Len(s[j])
                          /\ after = 0 => Last(s) = tip
                          /\ Len(s[1]) <= db.undo \/ Len(s[1]) = 1
    BY DEF SynopsisSummarises
  <2> DEFINE tip == TipOf(db, reference)
  <2>1. PICK low \in 1..Len(tip), nums \in Seq(Nat) :
          /\ low <= db.undo \/ low = 1
          /\ IsStrided(nums, low, Len(tip), Len(tip) + after)
          /\ s = Named(nums, tip)
    BY AnswerFacts
  <2>2. tip \in Paths /\ tip \in Seq(Steps) /\ Len(tip) \in Nat /\ after \in Nat
    BY AnswerFacts, PathFacts
  <2> HIDE DEF tip
  <2>3. Len(tip) <= Len(tip) /\ Len(tip) <= Len(tip) + after /\ Len(tip) + after \in Nat
    BY <2>2
  <2>4. /\ s \in Seq(Blocks) /\ Len(s) = Len(nums) /\ Len(s) \in Nat \ {0}
        /\ \A i \in DOMAIN s : /\ s[i] = SubSeq(tip, 1, nums[i])
                               /\ Len(s[i]) = nums[i]
                               /\ IsPrefix(s[i], tip)
        /\ \A i, j \in DOMAIN s : i < j => Len(s[i]) < Len(s[j])
        /\ Len(s[1]) = low
    BY <2>1, <2>2, <2>3, NamedFacts, SMTT(30)
  <2>5. \A i \in DOMAIN s : s[i] # Zero
    <3>1. \A i \in DOMAIN s : s[i] \in Blocks
      BY <2>4
    <3> QED BY <3>1, BlocksAssumption
  <2>6. ASSUME after = 0
        PROVE  Last(s) = tip
    <3>1. nums[Len(nums)] = Len(tip)
      BY <2>1, <2>2, <2>3, <2>6, StridedGrows
    <3>2. Last(s) = SubSeq(tip, 1, Len(tip))
      BY <2>4, <3>1 DEF Last
    <3> QED BY <2>2, <3>2
  <2> QED BY <2>1, <2>4, <2>5, <2>6 DEF tip, TipOf
<1> QED BY <1>1, DatabaseHolds, PTL

-----------------------------------------------------------------------------
(* The length of a synopsis *)

\* The recursion of PowerOfTwo has a solution.
LEMMA PowersDefined ==
  ASSUME NEW k \in Nat
  PROVE  \E f : f = [n \in 0..k |-> IF n = 0 THEN 1 ELSE 2 * f[n - 1]]
<1> DEFINE Solvable == {m \in Nat : \E f : f = [n \in 0..m |-> IF n = 0 THEN 1 ELSE 2 * f[n - 1]]}
<1>1. 0 \in Solvable
  <2> DEFINE f == [n \in 0..0 |-> 1]
  <2>1. f = [n \in 0..0 |-> IF n = 0 THEN 1 ELSE 2 * f[n - 1]]
    OBVIOUS
  <2> HIDE DEF f
  <2> QED BY <2>1
<1>2. ASSUME NEW m \in Nat, m \in Solvable
      PROVE  m + 1 \in Solvable
  <2>1. PICK f : f = [n \in 0..m |-> IF n = 0 THEN 1 ELSE 2 * f[n - 1]]
    BY <1>2
  <2> DEFINE g == [n \in 0..(m + 1) |-> IF n = 0 THEN 1 ELSE 2 * f[n - 1]]
  <2>2. \A n \in 0..m : g[n] = f[n]
    BY <2>1
  <2>3. \A n \in 0..(m + 1) : n # 0 => n - 1 \in 0..m
    OBVIOUS
  <2>4. \A n \in 0..(m + 1) : n # 0 => g[n - 1] = f[n - 1]
    BY <2>2, <2>3
  <2>5. g = [n \in 0..(m + 1) |-> IF n = 0 THEN 1 ELSE 2 * g[n - 1]]
    BY <2>4
  <2>6. \E h : h = [n \in 0..(m + 1) |-> IF n = 0 THEN 1 ELSE 2 * h[n - 1]]
    <3> HIDE DEF g
    <3> QED BY <2>5
  <2>7. m + 1 \in Nat
    OBVIOUS
  <2> QED BY <2>6, <2>7, Zenon
<1>3. Nat \subseteq Solvable
  <2> HIDE DEF Solvable
  <2> QED BY <1>1, <1>2, InductiveSet
<1> QED BY <1>3

\* Numbers that each leave less than half of what was left are few.
LEMMA HalvingIsShort ==
  ASSUME NEW d, NEW k \in Nat, \A n \in 0..k : d[n] \in Nat,
         \A n \in 1..k : 2 * d[n - 1] + 1 <= d[n]
  PROVE  PowerOfTwo(k) <= d[k] + 1
<1> DEFINE power[n \in 0..k] == IF n = 0 THEN 1 ELSE 2 * power[n - 1]
<1>1. PowerOfTwo(k) = power[k]
  BY Zenon DEF PowerOfTwo
<1>2. \E f : f = [n \in 0..k |-> IF n = 0 THEN 1 ELSE 2 * f[n - 1]]
  BY PowersDefined
<1>3. power = [n \in 0..k |-> IF n = 0 THEN 1 ELSE 2 * power[n - 1]]
  BY <1>2, Zenon
<1> HIDE DEF power
<1> DEFINE Small == {n \in Nat : n <= k => power[n] \in Nat /\ power[n] <= d[n] + 1}
<1>4. 0 \in Small
  BY <1>3
<1>5. ASSUME NEW n \in Nat, n \in Small
      PROVE  n + 1 \in Small
  <2>1. ASSUME n + 1 <= k
        PROVE  power[n + 1] \in Nat /\ power[n + 1] <= d[n + 1] + 1
    <3>1. n \in 0..k /\ n + 1 \in 0..k /\ n + 1 \in 1..k /\ (n + 1) - 1 = n /\ n <= k
      BY <2>1
    <3>2. power[n + 1] = 2 * power[n]
      BY <1>3, <3>1
    <3>3. 2 * d[n] + 1 <= d[n + 1] /\ d[n] \in Nat /\ d[n + 1] \in Nat
      BY <3>1
    <3>4. power[n] \in Nat /\ power[n] <= d[n] + 1
      BY <1>5, <3>1
    <3> QED BY <3>2, <3>3, <3>4
  <2> QED BY <2>1
<1>6. k \in Small
  <2> HIDE DEF Small
  <2>1. Nat \subseteq Small
    BY <1>4, <1>5, InductiveSet
  <2> QED BY <2>1
<1> QED BY <1>1, <1>6

\* For chains of any length: the entries of a synopsis are logarithmic in the
\* blocks it covers, so that the 30 reserved are enough for 2^29 blocks.
THEOREM SynopsesAreShort == Spec => []SynopsisIsShort
<1>1. DatabaseInv => SynopsisIsShort
  <2> SUFFICES ASSUME DatabaseInv, NEW reference \in db.known \cup {Zero},
                      NEW after \in 0..MaxAfter, NEW s \in Answers(reference, after)
               PROVE  LET tip == IF reference = Zero THEN db.head ELSE reference
                      IN  PowerOfTwo(Len(s) - 1) <= Len(tip) + after + 1 - Len(s[1])
    BY DEF SynopsisIsShort
  <2> DEFINE tip == TipOf(db, reference)
             t == Len(tip) + after
  <2>1. PICK low \in 1..Len(tip), nums \in Seq(Nat) :
          /\ low <= db.undo \/ low = 1
          /\ IsStrided(nums, low, Len(tip), t)
          /\ s = Named(nums, tip)
    BY AnswerFacts
  <2>2. tip \in Paths /\ Len(tip) \in Nat /\ after \in Nat
    BY AnswerFacts
  <2> HIDE DEF tip
  <2>3. Len(tip) <= Len(tip) /\ Len(tip) <= t /\ t \in Nat /\ low \in Nat
    BY <2>2
  <2>4. Len(s) = Len(nums) /\ Len(s) \in Nat \ {0} /\ Len(s[1]) = low
    BY <2>1, <2>2, <2>3, NamedFacts, SMTT(30)
  <2> DEFINE k == Len(nums) - 1
             d == [n \in 0..k |-> t - nums[Len(nums) - n]]
  <2> HIDE DEF t
  <2>5. k \in Nat /\ \A n \in 0..k : Len(nums) - n \in DOMAIN nums
    BY <2>4
  <2>6. \A n \in 0..k : d[n] \in Nat
    <3>1. \A i \in DOMAIN nums : nums[i] \in Nat /\ nums[i] <= t
      BY <2>1, <2>2, <2>3 DEF IsStrided
    <3> QED BY <2>3, <2>5, <3>1, SMTT(30)
  <2>7. ASSUME NEW n \in 1..k
        PROVE  2 * d[n - 1] + 1 <= d[n]
    <3> DEFINE i == Len(nums) - (n - 1)
    <3>1. i \in 2..Len(nums) /\ i - 1 = Len(nums) - n /\ n - 1 \in 0..k /\ n \in 0..k
      BY <2>4, <2>5
    <3>2. d[n - 1] = t - nums[i] /\ d[n] = t - nums[i - 1]
      BY <3>1
    <3>3. 2 * (t - nums[i]) + 1 <= t - nums[i - 1]
      <4> HIDE DEF i
      <4> QED BY <2>1, <2>2, <2>3, <3>1, StridedGrows
    <3> QED BY <3>2, <3>3
  <2>8. d[k] = t - low
    <3>1. k \in 0..k /\ Len(nums) - k = 1
      BY <2>4, <2>5
    <3>2. nums[1] = low
      BY <2>1 DEF IsStrided
    <3> QED BY <3>1, <3>2
  <2> HIDE DEF d, k
  <2>9. PowerOfTwo(k) <= d[k] + 1
    BY <2>5, <2>6, <2>7, HalvingIsShort
  <2>10. PowerOfTwo(Len(s) - 1) <= t - low + 1
    BY <2>4, <2>8, <2>9 DEF k
  <2>11. t - low + 1 = Len(tip) + after + 1 - Len(s[1])
    BY <2>2, <2>3, <2>4 DEF t
  <2> QED BY <2>10, <2>11 DEF tip, TipOf
<1> QED BY <1>1, DatabaseHolds, PTL

-----------------------------------------------------------------------------
(* Answers to synopses *)

\* A peer without forks has a database too, and makes a synopsis of its chain.
LEMMA PeerSynopsis ==
  ASSUME NEW p \in Blocks, NEW undo \in 0..Len(p)
  PROVE  LET s == get_blockchain_synopsis(PeerDb(p, undo), Zero, 0)
         IN  /\ IsDatabase(PeerDb(p, undo))
             /\ s \in Seq(Blocks) /\ Len(s) \in Nat \ {0}
             /\ \A i \in DOMAIN s : IsPrefix(s[i], p)
             /\ Len(s[1]) <= undo \/ Len(s[1]) = 1
<1> DEFINE pdb == PeerDb(p, undo)
           s == get_blockchain_synopsis(pdb, Zero, 0)
<1>1. pdb.head = p /\ pdb.known = Ancestry(p) /\ pdb.undo = undo
  BY DEF PeerDb
<1>2. p \in Paths /\ p \in Seq(Steps) /\ p # Zero /\ Len(p) \in Nat
  BY BlocksAssumption, PathFacts DEF Paths
<1>3. \A b \in Ancestry(p) : Len(b) <= Len(p)
  <2>1. \A b \in Ancestry(p) : b \in Paths /\ IsPrefix(b, p)
    BY <1>2, AncestryFacts DEF Paths
  <2> QED BY <2>1 DEF IsPrefix
<1> HIDE DEF pdb
<1>4. IsDatabase(pdb)
  BY <1>1, <1>2, <1>3, AncestryFacts DEF IsDatabase
<1>5. ~ SynopsisThrows(pdb, Zero) /\ TipOf(pdb, Zero) = p
  BY <1>1 DEF SynopsisThrows, TipOf
<1>6. PICK low \in 1..Len(p), nums \in Seq(Nat) :
        /\ low <= undo \/ low = 1
        /\ IsStrided(nums, low, Len(p), Len(p) + 0)
        /\ s = Named(nums, p)
  <2>1. Zero \in Paths /\ 0 \in Nat /\ TipOf(pdb, Zero) # Zero
    BY <1>2, <1>5, PathFacts
  <2>2. \E low \in 1..Len(TipOf(pdb, Zero)), nums \in Seq(Nat) :
          /\ low <= pdb.undo \/ low = 1
          /\ IsStrided(nums, low, Len(TipOf(pdb, Zero)), Len(TipOf(pdb, Zero)) + 0)
          /\ s = Named(nums, TipOf(pdb, Zero))
    BY <1>4, <1>5, <2>1, SynopsisFacts, Zenon
  <2> QED BY <1>1, <1>5, <2>2
<1>7. Len(p) + 0 = Len(p) /\ Len(p) <= Len(p)
  BY <1>2
<1>8. /\ s \in Seq(Blocks) /\ Len(s) \in Nat \ {0}
      /\ \A i \in DOMAIN s : IsPrefix(s[i], p)
      /\ Len(s[1]) = low
  BY <1>2, <1>6, <1>7, NamedFacts
<1> QED BY <1>4, <1>6, <1>8 DEF pdb

\* An answer is no exception.
LEMMA BatchIsNotThrew ==
  ASSUME NEW head \in Paths, NEW first \in 1..Len(head), NEW limit \in Nat \ {0}
  PROVE  Batch(head, first, limit) # Threw
<1> DEFINE r == Batch(head, first, limit)
<1>1. r.ids \in Seq(Blocks) /\ r.remaining \in Nat
  BY BatchFacts
<1>2. r = [ids |-> r.ids, remaining |-> r.remaining]
  BY DEF Batch
<1>3. r \in [ids : Seq(Blocks), remaining : Nat]
  BY <1>1, <1>2
<1> QED BY <1>3, ThrewAssumption

\* For chains of any length: the ids that a peer is told start at the last
\* block of its synopsis that this chain has too, go on without a gap, are
\* counted right, and name blocks that it gets (get_block_ids, get_item).
THEOREM RepliesContinueSynopses == Spec => []ReplyContinuesSynopsis
<1>1. DatabaseInv => ReplyContinuesSynopsis
  <2> SUFFICES ASSUME DatabaseInv, NEW p \in Blocks, NEW limit \in Limits,
                      NEW undo \in 0..Len(p), db.head # Zero
               PROVE  LET s == get_blockchain_synopsis(PeerDb(p, undo), Zero, 0)
                          r == get_block_ids(db, s, limit)
                          shared == {i \in DOMAIN s : IsPrefix(s[i], db.head)}
                      IN  IF r = Threw THEN shared = {}
                          ELSE /\ r.ids[1] = s[CHOOSE i \in shared : \A j \in shared : j <= i]
                               /\ \A i \in 2..Len(r.ids) : Previous(r.ids[i]) = r.ids[i - 1]
                               /\ IsPrefix(Last(r.ids), db.head)
                               /\ \A i \in DOMAIN r.ids : get_item(db, r.ids[i]) = r.ids[i]
                               /\ Len(Last(r.ids)) + r.remaining = Len(db.head)
                               /\ r.remaining > 0 => Len(r.ids) = limit
    BY DEF ReplyContinuesSynopsis
  <2> DEFINE s == get_blockchain_synopsis(PeerDb(p, undo), Zero, 0)
             r == get_block_ids(db, s, limit)
             shared == {i \in DOMAIN s : IsPrefix(s[i], db.head)}
  <2>1. s \in Seq(Blocks) /\ s # <<>> /\ limit \in Nat \ {0} /\ IsDatabase(db)
        /\ db.head \in Paths
    <3>1. s \in Seq(Blocks) /\ Len(s) \in Nat \ {0}
      BY PeerSynopsis
    <3> HIDE DEF s
    <3> QED BY <3>1, BoundsAssumption DEF DatabaseInv, IsDatabase
  <2> HIDE DEF s
  <2>2. CASE r = Threw /\ \A i \in DOMAIN s : ~ IsPrefix(s[i], db.head)
    BY <2>2 DEF s
  <2>3. ASSUME NEW m \in DOMAIN s, IsPrefix(s[m], db.head), Len(s[m]) \in 1..Len(db.head),
               \A j \in DOMAIN s : IsPrefix(s[j], db.head) => j <= m,
               r = Batch(db.head, Len(s[m]), limit)
        PROVE  /\ r # Threw
               /\ r.ids[1] = s[CHOOSE i \in shared : \A j \in shared : j <= i]
               /\ \A i \in 2..Len(r.ids) : Previous(r.ids[i]) = r.ids[i - 1]
               /\ IsPrefix(Last(r.ids), db.head)
               /\ \A i \in DOMAIN r.ids : get_item(db, r.ids[i]) = r.ids[i]
               /\ Len(Last(r.ids)) + r.remaining = Len(db.head)
               /\ r.remaining > 0 => Len(r.ids) = limit
    <3> DEFINE first == Len(s[m])
    <3>1. /\ r.ids \in Seq(Blocks) /\ Len(r.ids) \in Nat \ {0}
          /\ \A i \in DOMAIN r.ids : /\ r.ids[i] = SubSeq(db.head, 1, first + i - 1)
                                     /\ IsPrefix(r.ids[i], db.head)
          /\ \A i \in 2..Len(r.ids) : Previous(r.ids[i]) = r.ids[i - 1]
          /\ Len(Last(r.ids)) + r.remaining = Len(db.head)
          /\ r.remaining > 0 => Len(r.ids) = limit
      <4>1. first \in 1..Len(db.head) /\ r = Batch(db.head, first, limit)
        BY <2>3
      <4> HIDE DEF r, first
      <4>2. LET b == Batch(db.head, first, limit)
            IN  /\ b.ids \in Seq(Blocks) /\ Len(b.ids) \in Nat \ {0}
                /\ \A i \in DOMAIN b.ids : /\ b.ids[i] = SubSeq(db.head, 1, first + i - 1)
                                           /\ Len(b.ids[i]) = first + i - 1
                                           /\ IsPrefix(b.ids[i], db.head)
                /\ \A i \in 2..Len(b.ids) : Previous(b.ids[i]) = b.ids[i - 1]
                /\ b.remaining \in Nat
                /\ Len(Last(b.ids)) + b.remaining = Len(db.head)
                /\ b.remaining > 0 => Len(b.ids) = limit
        BY <2>1, <4>1, BatchFacts, Zenon
      <4> QED BY <4>1, <4>2, Zenon
    <3>2. r # Threw
      BY <2>1, <2>3, BatchIsNotThrew
    <3> HIDE DEF r
    <3>3. r.ids[1] = s[m]
      <4>1. s[m] \in Blocks /\ s[m] \in Paths /\ first + 1 - 1 = first
        BY <2>1, <2>3 DEF Paths
      <4>2. s[m] = SubSeq(db.head, 1, first)
        <5>1. Len(s[m]) <= Len(db.head)
          BY <2>3 DEF IsPrefix
        <5> QED BY <2>1, <2>3, <4>1, <5>1, InChainFacts
      <4>3. 1 \in DOMAIN r.ids
        BY <3>1
      <4> QED BY <3>1, <4>1, <4>2, <4>3
    <3>4. (CHOOSE i \in shared : \A j \in shared : j <= i) = m
      <4>1. m \in shared /\ (\A j \in shared : j <= m) /\ shared \subseteq Nat
        BY <2>1, <2>3
      <4> HIDE DEF shared
      <4>2. ASSUME NEW i \in shared, \A j \in shared : j <= i
            PROVE  i = m
        <5>1. i <= m /\ m <= i /\ i \in Nat /\ m \in Nat
          BY <4>1, <4>2
        <5> QED BY <5>1
      <4>3. \E i \in shared : \A j \in shared : j <= i
        BY <4>1
      <4> QED BY <4>2, <4>3
    <3>5. IsPrefix(Last(r.ids), db.head)
      BY <3>1 DEF Last
    <3>6. ASSUME NEW i \in DOMAIN r.ids
          PROVE  get_item(db, r.ids[i]) = r.ids[i]
      <4>1. r.ids[i] \in Blocks /\ IsPrefix(r.ids[i], db.head)
        BY <3>1
      <4>2. r.ids[i] \in Paths /\ r.ids[i] # Zero
        BY <4>1, BlocksAssumption DEF Paths
      <4>3. r.ids[i] \in db.known
        BY <2>1, <4>1, <4>2, AncestryFacts DEF IsDatabase
      <4> QED BY <4>3 DEF get_item, is_known_block
    <3> HIDE DEF shared
    <3> QED BY <3>1, <3>2, <3>3, <3>4, <3>5, <3>6
  <2>4. \/ r = Threw /\ \A i \in DOMAIN s : ~ IsPrefix(s[i], db.head)
        \/ \E m \in DOMAIN s :
              /\ IsPrefix(s[m], db.head) /\ Len(s[m]) \in 1..Len(db.head)
              /\ \A j \in DOMAIN s : IsPrefix(s[j], db.head) => j <= m
              /\ r = Batch(db.head, Len(s[m]), limit)
    BY <2>1, BlockIdsFacts
  <2>5. CASE \E m \in DOMAIN s :
              /\ IsPrefix(s[m], db.head) /\ Len(s[m]) \in 1..Len(db.head)
              /\ \A j \in DOMAIN s : IsPrefix(s[j], db.head) => j <= m
              /\ r = Batch(db.head, Len(s[m]), limit)
    <3> HIDE DEF r, shared
    <3>1. /\ r # Threw
          /\ r.ids[1] = s[CHOOSE i \in shared : \A j \in shared : j <= i]
          /\ \A i \in 2..Len(r.ids) : Previous(r.ids[i]) = r.ids[i - 1]
          /\ IsPrefix(Last(r.ids), db.head)
          /\ \A i \in DOMAIN r.ids : get_item(db, r.ids[i]) = r.ids[i]
          /\ Len(Last(r.ids)) + r.remaining = Len(db.head)
          /\ r.remaining > 0 => Len(r.ids) = limit
      BY <2>3, <2>5
    <3> QED BY <3>1, Zenon DEF r, s, shared
  <2> QED BY <2>2, <2>4, <2>5
<1> QED BY <1>1, DatabaseHolds, PTL

\* For chains of any length: two nodes whose chains part no earlier than the
\* asking one can undo find a block to go on from (get_block_ids does not throw
\* peer_is_on_an_unreachable_fork).
THEOREM ForksMeet == Spec => []ReachableForksMeet
<1>1. DatabaseInv => ReachableForksMeet
  <2> SUFFICES ASSUME DatabaseInv, NEW p \in Blocks, db.head # Zero,
                      Len(CommonAncestor(db.head, p)) >= db.undo,
                      CommonAncestor(db.head, p) # Zero
               PROVE  get_block_ids(PeerDb(p, 0), get_blockchain_synopsis(db, Zero, 0), 2) # Threw
    BY DEF ReachableForksMeet
  <2> DEFINE s == get_blockchain_synopsis(db, Zero, 0)
             a == CommonAncestor(db.head, p)
             pdb == PeerDb(p, 0)
  <2>1. /\ db.head \in Paths /\ db.head \in Seq(Steps) /\ Len(db.head) \in Nat
        /\ p \in Paths /\ p \in Seq(Steps) /\ p # Zero /\ Len(p) \in Nat
        /\ db.undo \in Nat
    BY PathFacts, BlocksAssumption DEF DatabaseInv, IsDatabase, Paths
  <2>2. /\ a \in Paths /\ a \in Seq(Steps) /\ IsPrefix(a, db.head) /\ IsPrefix(a, p)
        /\ Len(a) \in Nat /\ Len(a) # 0
    <3>1. a \in Paths /\ IsPrefix(a, db.head) /\ IsPrefix(a, p)
      BY <2>1, CommonAncestorFacts
    <3> QED BY <3>1, PathFacts
  <2> HIDE DEF a
  <2>3. s \in Seq(Blocks) /\ Len(s) \in Nat \ {0}
        /\ IsPrefix(s[1], db.head) /\ (Len(s[1]) <= db.undo \/ Len(s[1]) = 1)
    <3>1. ~ SynopsisThrows(db, Zero) /\ TipOf(db, Zero) = db.head /\ Zero \in Paths
      BY PathFacts DEF SynopsisThrows, TipOf
    <3>2. PICK low \in 1..Len(db.head), nums \in Seq(Nat) :
            /\ low <= db.undo \/ low = 1
            /\ IsStrided(nums, low, Len(db.head), Len(db.head) + 0)
            /\ s = Named(nums, db.head)
      BY <3>1, SynopsisFacts DEF DatabaseInv
    <3>3. Len(db.head) + 0 = Len(db.head) /\ Len(db.head) <= Len(db.head)
      BY <2>1
    <3> HIDE DEF s
    <3>4. /\ s \in Seq(Blocks) /\ Len(s) \in Nat \ {0}
          /\ \A i \in DOMAIN s : IsPrefix(s[i], db.head)
          /\ Len(s[1]) = low
      <4>1. PICK h \in Nat : h = Len(db.head)
        BY <2>1
      <4>2. IsStrided(nums, low, h, h) /\ h <= Len(db.head) /\ h <= h
        BY <3>2, <3>3, <4>1
      <4> QED BY <2>1, <3>2, <4>2, NamedFacts
    <3> QED BY <3>2, <3>4
  <2> HIDE DEF s
  <2>4. IsPrefix(s[1], p)
    <3>1. s[1] \in Seq(Steps) /\ Len(s[1]) \in Nat
      BY <2>3, PathFacts DEF Paths
    <3>2. Len(s[1]) <= Len(a)
      BY <2>1, <2>2, <2>3, <3>1 DEF a
    <3>3. IsPrefix(s[1], a)
      BY <2>1, <2>2, <2>3, <3>1, <3>2, PrefixOrder
    <3> QED BY <2>1, <2>2, <3>1, <3>3, PrefixOrder
  <2>5. IsDatabase(pdb) /\ pdb.head = p
    BY <2>1, PeerSynopsis DEF PeerDb
  <2> HIDE DEF pdb
  <2>6. 1 \in DOMAIN s /\ s # <<>> /\ 2 \in Nat \ {0}
    BY <2>3
  <2>7. PICK m \in DOMAIN s : /\ Len(s[m]) \in 1..Len(p)
                              /\ get_block_ids(pdb, s, 2) = Batch(p, Len(s[m]), 2)
    BY <2>1, <2>3, <2>4, <2>5, <2>6, BlockIdsFacts
  <2> QED BY <2>1, <2>7, BatchIsNotThrew DEF pdb, s
<1> QED BY <1>1, DatabaseHolds, PTL

================================================================================
