---------------------------- MODULE ChainSyncProofs ----------------------------
(***************************************************************************)
(* Proofs about ChainSync for blocks and forks of any number and length:   *)
(* what a request and an answer name while blocks of earlier batches are   *)
(* handled, and what the chain does meanwhile.                             *)
(***************************************************************************)
EXTENDS ChainSync, P2pDelegateProofs

-----------------------------------------------------------------------------
(* The inductive invariant *)

\* Was the last block that was handled not added to our chain?
Away == seen # Zero /\ ~ IsPrefix(seen, head)

\* Where a block that net::node asked about can be.
IsKnown(id) == IsPrefix(id, head) \/ id \in ToSet(toGet) \/ Away

\* Each block follows the one before it.
Linked(s) == \A i \in 2..Len(s) : Previous(s[i]) = s[i - 1]

\* The blocks to fetch follow each other, and the one handled last, unless that
\* one is away, when no synopsis can be made.
SessionInv ==
    /\ Len(peerAside) <= Len(peerHead)
    /\ inSync => toGet = <<>> /\ request = None
    /\ reply # None => request # None
    /\ Linked(toGet)
    /\ toGet # <<>> => Previous(toGet[1]) = seen \/ (request = None /\ Away)
    /\ toGet # <<>> /\ seen = Zero => head = Zero

\* A request names, in order, blocks we have or still fetch, and first one that
\* we cannot undo.
RequestInv ==
    request # None =>
      /\ request = <<>> => head = Zero /\ seen = Zero /\ toGet = <<>>
      /\ \A i \in DOMAIN request : IsKnown(request[i])
      /\ \A i, j \in DOMAIN request : i < j => Len(request[i]) < Len(request[j])
      /\ request # <<>> =>
            /\ Len(request[1]) <= undo \/ Len(request[1]) = 1
            /\ \/ IsPrefix(request[1], head)
               \/ head = Zero /\ (Away \/ (toGet # <<>> /\ request[1] = toGet[1]))

\* An answer is a piece of a chain that begins in the request.
ReplyInv ==
    reply \notin {None, Threw} =>
      /\ Linked(reply.ids)
      /\ reply.ids # <<>> =>
            IF request = <<>> THEN Len(reply.ids[1]) = 1
            ELSE reply.ids[1] \in ToSet(request)

Inv == TypeOK /\ SessionInv /\ RequestInv /\ ReplyInv /\ AsksFromTip

-----------------------------------------------------------------------------
(* Blocks and databases *)

\* Each block of a piece of a chain is one longer than the one before it.
LEMMA LinkedLengths ==
  ASSUME NEW s \in Seq(Blocks), s # <<>>, Linked(s)
  PROVE  \A i \in DOMAIN s : Len(s[i]) = Len(s[1]) + i - 1
<1>1. Len(s) \in Nat \ {0} /\ DOMAIN s = 1..Len(s) /\ \A i \in DOMAIN s : s[i] \in Blocks
  OBVIOUS
<1>2. \A i \in DOMAIN s : Len(s[i]) \in Nat
  BY <1>1, PathFacts DEF Paths
<1> DEFINE Right == {k \in Nat : k + 1 \in DOMAIN s => Len(s[k + 1]) = Len(s[1]) + k}
<1>3. 0 \in Right
  BY <1>1, <1>2
<1>4. ASSUME NEW k \in Nat, k \in Right
      PROVE  k + 1 \in Right
  <2>1. ASSUME k + 2 \in DOMAIN s
        PROVE  Len(s[k + 2]) = Len(s[1]) + (k + 1)
    <3>1. k + 1 \in DOMAIN s /\ k + 2 \in 2..Len(s) /\ (k + 2) - 1 = k + 1
      BY <1>1, <2>1
    <3>2. Previous(s[k + 2]) = s[k + 1]
      BY <3>1 DEF Linked
    <3>3. Len(s[k + 1]) = Len(s[k + 2]) - 1
      BY <1>1, <2>1, <3>2, PreviousFacts
    <3>4. Len(s[k + 1]) = Len(s[1]) + k
      BY <1>4, <3>1
    <3>5. Len(s[1]) \in Nat /\ Len(s[k + 2]) \in Nat
      BY <1>1, <1>2, <2>1
    <3>6. \A a, b, c \in Nat : c = b - 1 /\ c = a + k => b = a + (k + 1)
      OBVIOUS
    <3> QED BY <1>1, <1>2, <3>1, <3>3, <3>4, <3>5, <3>6
  <2>2. (k + 1) + 1 = k + 2 /\ k + 1 \in Nat
    OBVIOUS
  <2>3. (k + 1) + 1 \in DOMAIN s => Len(s[(k + 1) + 1]) = Len(s[1]) + (k + 1)
    BY <2>1, <2>2, Zenon
  <2> QED BY <2>2, <2>3, Zenon
<1>5. Nat \subseteq Right
  <2> HIDE DEF Right
  <2> QED BY <1>3, <1>4, InductiveSet
<1>6. ASSUME NEW i \in DOMAIN s
      PROVE  Len(s[i]) = Len(s[1]) + i - 1
  <2>1. i - 1 \in Nat /\ (i - 1) + 1 = i
    BY <1>1
  <2>2. i - 1 \in Right
    BY <1>5, <2>1
  <2>3. Len(s[i]) = Len(s[1]) + (i - 1)
    BY <2>1, <2>2
  <2> QED BY <1>1, <1>2, <2>1, <2>3
<1> QED BY <1>6

\* Our database, and that of the peer, are databases.
LEMMA Databases ==
  ASSUME TypeOK, Len(peerAside) <= Len(peerHead)
  PROVE  IsDatabase(OurDb) /\ IsDatabase(PeerDb)
         /\ OurDb.head = head /\ OurDb.undo = undo /\ OurDb.known = Ancestry(head)
         /\ PeerDb.head = peerHead
<1>1. head \in Paths /\ peerHead \in Paths /\ peerAside \in Paths
  BY DEF TypeOK, Paths
<1>2. Len(head) \in Nat /\ Len(peerHead) \in Nat /\ Len(peerAside) \in Nat
  BY <1>1, PathFacts
<1>3. ASSUME NEW p \in Paths
      PROVE  Ancestry(p) \subseteq Blocks /\ \A b \in Ancestry(p) : Len(b) <= Len(p) /\ Len(b) \in Nat
  <2>1. \A b \in Ancestry(p) : b \in Paths /\ IsPrefix(b, p)
    BY AncestryFacts DEF Paths
  <2> QED BY <2>1, AncestryFacts, PathFacts DEF IsPrefix
<1>4. IsDatabase(OurDb)
  BY <1>1, <1>3 DEF IsDatabase, OurDb, TypeOK
<1>5. \A b \in Ancestry(peerHead) \cup Ancestry(peerAside) : b \in Blocks /\ Len(b) <= Len(peerHead)
  BY <1>1, <1>2, <1>3
<1>6. IsDatabase(PeerDb)
  BY <1>1, <1>2, <1>5 DEF IsDatabase, PeerDb
<1> QED BY <1>4, <1>6 DEF OurDb, PeerDb

\* The delegate makes a synopsis only up to a block of our chain.
LEMMA SynopsisIsOfOurChain ==
  ASSUME TypeOK, ~ SynopsisThrows(OurDb, seen)
  PROVE  IsPrefix(seen, head)
<1>1. head \in Paths /\ seen \in Paths /\ head \in Seq(Steps)
  BY PathFacts DEF TypeOK, Paths
<1>2. CASE seen = Zero
  BY <1>1, <1>2, PrefixOrder DEF Zero
<1>3. CASE seen # Zero
  <2>1. HasNum(OurDb, Len(seen)) /\ (blockIsInOurChain(OurDb, seen) \/ is_known_block(OurDb, seen))
    BY <1>3 DEF SynopsisThrows, LookUpThrows, num_from_id
  <2>2. CASE blockIsInOurChain(OurDb, seen)
    <3>1. Len(seen) <= Len(head) /\ seen = SubSeq(head, 1, Len(seen))
      BY <1>1, <2>1, <2>2, PathFacts
         DEF HasNum, OurDb, blockIsInOurChain, get_block_id_for_num, num_from_id
    <3> QED BY <1>1, <3>1, InChainFacts
  <2>3. CASE is_known_block(OurDb, seen)
    BY <1>1, <2>3, AncestryFacts DEF is_known_block, OurDb
  <2> QED BY <2>1, <2>2, <2>3
<1> QED BY <1>2, <1>3

-----------------------------------------------------------------------------
(* A request *)

\* The block of a number on the way to the tip, through the blocks to fetch.
Entry(base, n) == IF n <= Len(base) THEN SubSeq(base, 1, n) ELSE toGet[n - Len(base)]

\* The numbers of the whole synopsis, of which the delegate has named those up
\* to its last block.
Continues(synopsis, base, low, nums) ==
    /\ toGet # <<>> /\ base \in Paths /\ Len(toGet[1]) = Len(base) + 1
    /\ synopsis \in Seq(Blocks)
    /\ low = IF synopsis = <<>> THEN 1 ELSE Len(synopsis[1])
    /\ nums \in Seq(Nat)
    /\ nums = SynopsisNums(low, Len(base) + Len(toGet), Len(base) + Len(toGet))
    /\ Len(synopsis) <= Len(nums)
    /\ \A i \in 1..Len(synopsis) : nums[i] <= Len(base)
    /\ \A i \in (Len(synopsis) + 1)..Len(nums) : nums[i] > Len(base)

\* net::node goes on exactly where the delegate has ended.
LEMMA AppendedFacts ==
  ASSUME TypeOK, NEW synopsis, NEW base, NEW low, NEW nums,
         Continues(synopsis, base, low, nums)
  PROVE  Appended(synopsis) =
           [i \in 1..(Len(nums) - Len(synopsis)) |-> toGet[nums[Len(synopsis) + i] - Len(base)]]
<1> DEFINE first == num_from_id(Head(toGet))
           last == first + Len(toGet) - 1
           k == Len(synopsis)
           Is(j) == /\ \A i \in 1..j : nums[i] < first
                    /\ \A i \in (j + 1)..Len(nums) : nums[i] >= first
           early == CHOOSE j \in 0..Len(nums) : Is(j)
<1>0. /\ toGet # <<>> /\ base \in Paths /\ Len(toGet[1]) = Len(base) + 1
      /\ synopsis \in Seq(Blocks) /\ low = IF synopsis = <<>> THEN 1 ELSE Len(synopsis[1])
      /\ nums \in Seq(Nat)
      /\ nums = SynopsisNums(low, Len(base) + Len(toGet), Len(base) + Len(toGet))
      /\ Len(synopsis) <= Len(nums)
      /\ \A i \in 1..Len(synopsis) : nums[i] <= Len(base)
      /\ \A i \in (Len(synopsis) + 1)..Len(nums) : nums[i] > Len(base)
  BY DEF Continues
<1>1. /\ Len(base) \in Nat /\ toGet \in Seq(Blocks) /\ Len(toGet) \in Nat \ {0}
      /\ k \in 0..Len(nums) /\ Len(nums) \in Nat
      /\ \A i \in 1..Len(nums) : nums[i] \in Nat
  <2>1. Len(base) \in Nat /\ toGet \in Seq(Blocks)
    BY <1>0, PathFacts DEF TypeOK
  <2>2. Len(toGet) \in Nat \ {0}
    BY <1>0, <2>1
  <2>3. Len(nums) \in Nat /\ \A i \in 1..Len(nums) : nums[i] \in Nat
    BY <1>0, SMTT(30)
  <2>4. k \in 0..Len(nums)
    BY <1>0, <2>3
  <2> QED BY <2>1, <2>2, <2>3, <2>4
<1>2. first = Len(base) + 1
  BY <1>0, <1>1 DEF num_from_id
<1>3. last = Len(base) + Len(toGet)
  BY <1>1, <1>2
<1>4. (IF synopsis = <<>> THEN 1 ELSE num_from_id(Head(synopsis))) = low
  BY <1>0 DEF num_from_id
<1>5. Appended(synopsis) =
        [i \in 1..(Len(nums) - early) |-> toGet[nums[early + i] - first + 1]]
  <2> DEFINE ns == SynopsisNums(IF synopsis = <<>> THEN 1 ELSE num_from_id(Head(synopsis)),
                                last, last)
             e(n) == CHOOSE j \in 0..Len(n) : /\ \A i \in 1..j : n[i] < first
                                              /\ \A i \in (j + 1)..Len(n) : n[i] >= first
             Rest(n) == [i \in 1..(Len(n) - e(n)) |-> toGet[n[e(n) + i] - first + 1]]
  <2>1. nums = ns
    <3> HIDE DEF last
    <3> QED BY <1>0, <1>3, <1>4
  <2>2. Appended(synopsis) = Rest(ns)
    BY Zenon DEF Appended
  <2>3. Rest(nums) = [i \in 1..(Len(nums) - early) |-> toGet[nums[early + i] - first + 1]]
    BY Zenon
  <2> HIDE DEF ns, Rest, early, first
  <2>4. Rest(ns) = Rest(nums)
    BY <2>1
  <2> QED BY <2>2, <2>3, <2>4
<1> HIDE DEF first, last
<1>6. early = k
  <2>1. Is(k)
    <3>1. ASSUME NEW i \in 1..k
          PROVE  nums[i] < first
      <4>1. nums[i] <= Len(base)
        BY <1>0
      <4>2. nums[i] \in Nat
        BY <1>1
      <4> QED BY <1>1, <1>2, <4>1, <4>2
    <3>2. ASSUME NEW i \in (k + 1)..Len(nums)
          PROVE  nums[i] >= first
      <4>1. nums[i] > Len(base)
        BY <1>0
      <4>2. nums[i] \in Nat
        BY <1>1
      <4> QED BY <1>1, <1>2, <4>1, <4>2
    <3> QED BY <3>1, <3>2
  <2>2. ASSUME NEW j \in 0..Len(nums), Is(j)
        PROVE  j = k
    <3>1. ~ (j < k)
      <4>1. j < k => j + 1 \in 1..k /\ j + 1 \in (j + 1)..Len(nums)
        BY <1>1
      <4> QED BY <1>1, <1>2, <2>1, <2>2, <4>1
    <3>2. ~ (k < j)
      <4>1. k < j => k + 1 \in 1..j /\ k + 1 \in (k + 1)..Len(nums)
        BY <1>1
      <4> QED BY <1>1, <1>2, <2>1, <2>2, <4>1
    <3> QED BY <1>1, <3>1, <3>2
  <2> HIDE DEF Is
  <2> QED BY <1>1, <2>1, <2>2
<1> HIDE DEF early
<1>7. \A i \in 1..(Len(nums) - k) : nums[k + i] - first + 1 = nums[k + i] - Len(base)
  <2>1. \A i \in 1..(Len(nums) - k) : k + i \in 1..Len(nums)
    BY <1>1
  <2>2. \A i \in 1..(Len(nums) - k) : nums[k + i] \in Nat
    BY <1>1, <2>1
  <2> QED BY <1>1, <1>2, <2>2
<1> HIDE DEF k
<1>8. Appended(synopsis) = [i \in 1..(Len(nums) - k) |-> toGet[nums[k + i] - Len(base)]]
  BY <1>5, <1>6, <1>7
<1> QED BY <1>8 DEF k

\* Delegate and net::node make one synopsis together, with strides from a block
\* that cannot be undone to the last block known.
LEMMA AskFacts ==
  ASSUME TypeOK, SessionInv, Ask
  PROVE  LET base == TipOf(OurDb, seen)
             t == Len(base) + Len(toGet)
         IN  /\ base \in Paths /\ IsPrefix(base, head) /\ IsPrefix(seen, head)
             /\ toGet # <<>> => Previous(toGet[1]) = base /\ base = seen
             /\ \/ t = 0 /\ request' = <<>>
                \/ \E low \in Nat \ {0}, nums \in Seq(Nat) :
                     /\ IsStrided(nums, low, t, t)
                     /\ low <= undo \/ low = 1
                     /\ low <= Len(base) \/ (base = Zero /\ low = 1)
                     /\ request' = [i \in DOMAIN nums |-> Entry(base, nums[i])]
<1> DEFINE base == TipOf(OurDb, seen)
           t == Len(base) + Len(toGet)
           synopsis == get_blockchain_synopsis(OurDb, seen, Len(toGet))
           Result(low, nums) ==
             /\ IsStrided(nums, low, t, t)
             /\ low <= undo \/ low = 1
             /\ low <= Len(base) \/ (base = Zero /\ low = 1)
             /\ request' = [i \in DOMAIN nums |-> Entry(base, nums[i])]
<1>1. /\ head \in Paths /\ seen \in Paths /\ toGet \in Seq(Blocks) /\ Len(toGet) \in Nat
      /\ undo \in Nat /\ Len(head) \in Nat /\ head \in Seq(Steps)
  BY PathFacts DEF TypeOK, Paths
<1>2. IsDatabase(OurDb) /\ OurDb.head = head /\ OurDb.undo = undo
  BY Databases DEF SessionInv
<1>3. request' = synopsis \o (IF toGet = <<>> THEN <<>> ELSE Appended(synopsis))
  BY DEF Ask
<1>4. ~ SynopsisThrows(OurDb, seen)
  BY DEF Ask, get_blockchain_synopsis
<1>5. IsPrefix(seen, head)
  BY <1>4, SynopsisIsOfOurChain
<1>6. base \in Paths /\ IsPrefix(base, head) /\ Len(base) \in Nat /\ base \in Seq(Steps)
  <2>1. base \in {head, seen}
    BY <1>2 DEF TipOf
  <2> HIDE DEF base
  <2> QED BY <1>1, <1>5, <2>1, PrefixOrder, PathFacts
<1>7. toGet # <<>> => Previous(toGet[1]) = base /\ base = seen
  <2>1. toGet # <<>> => base = seen
    BY <1>2 DEF TipOf, SessionInv
  <2> QED BY <1>5, <2>1 DEF SessionInv, Away
<1>8. ASSUME base = Zero
      PROVE  synopsis = <<>>
  <2>1. seen = Zero /\ Len(head) = 0
    BY <1>2, <1>8, PathFacts DEF TipOf
  <2> QED BY <1>2, <1>4, <2>1 DEF get_blockchain_synopsis
<1>9. ASSUME base # Zero
      PROVE  \E low \in 1..Len(base), ps \in Seq(Nat) :
               /\ low <= undo \/ low = 1
               /\ IsStrided(ps, low, Len(base), t)
               /\ synopsis = Named(ps, base)
  BY <1>1, <1>2, <1>4, <1>9, SynopsisFacts
<1> HIDE DEF base, synopsis
<1>10. ASSUME toGet = <<>>, base = Zero
       PROVE  t = 0 /\ request' = <<>>
  BY <1>3, <1>8, <1>10, PathFacts
<1>11. ASSUME toGet = <<>>, base # Zero
       PROVE  \E low \in Nat \ {0}, nums \in Seq(Nat) : Result(low, nums)
  <2>1. PICK low \in 1..Len(base), ps \in Seq(Nat) :
               /\ low <= undo \/ low = 1
               /\ IsStrided(ps, low, Len(base), t)
               /\ synopsis = Named(ps, base)
    BY <1>9, <1>11
  <2>2. t = Len(base) /\ low \in Nat \ {0} /\ low <= Len(base)
    BY <1>6, <1>11
  <2>3. synopsis \in Seq(Blocks)
    BY <1>6, <2>1, <2>2, NamedFacts
  <2>4. request' = Named(ps, base)
    BY <1>3, <1>11, <2>1, <2>3
  <2>5. \A i \in DOMAIN ps : ps[i] <= Len(base)
    BY <1>6, <2>1 DEF IsStrided
  <2>6. Named(ps, base) = [i \in DOMAIN ps |-> Entry(base, ps[i])]
    BY <2>5 DEF Named, Entry
  <2>7. Result(low, ps)
    BY <2>1, <2>2, <2>4, <2>6
  <2> QED BY <2>1, <2>2, <2>7
<1>12. ASSUME toGet # <<>>, NEW low \in Nat \ {0}, NEW ps \in Seq(Nat),
              low <= Len(base) \/ (base = Zero /\ low = 1), low <= undo \/ low = 1,
              synopsis = Named(ps, base), synopsis \in Seq(Blocks), Len(synopsis) = Len(ps),
              low = IF synopsis = <<>> THEN 1 ELSE Len(synopsis[1]),
              ps = <<>> \/ IsStrided(ps, low, Len(base), t), ps = <<>> => base = Zero
       PROVE  \E lo \in Nat \ {0}, nums \in Seq(Nat) : Result(lo, nums)
  <2> DEFINE nums == SynopsisNums(low, t, t)
             rest == [i \in 1..(Len(nums) - Len(synopsis)) |->
                        toGet[nums[Len(synopsis) + i] - Len(base)]]
  <2>1. /\ Len(toGet) \in Nat \ {0} /\ t \in Nat /\ low <= t /\ Len(base) <= t /\ t <= t
        /\ Len(ps) \in Nat /\ DOMAIN ps = 1..Len(ps)
    <3>1. Len(toGet) \in Nat \ {0}
      BY <1>1, <1>12
    <3>2. low <= Len(base) \/ (Len(base) = 0 /\ low = 1)
      BY <1>12, PathFacts
    <3>3. t \in Nat /\ low <= t /\ Len(base) <= t /\ t <= t
      BY <1>6, <3>1, <3>2
    <3>4. Len(ps) \in Nat /\ DOMAIN ps = 1..Len(ps)
      BY <1>12
    <3> QED BY <3>1, <3>3, <3>4
  <2>2. IsStrided(nums, low, t, t)
    <3> HIDE DEF t
    <3> QED BY <2>1, SynopsisNumsFacts
  <2> HIDE DEF t, nums
  <2>3. /\ nums \in Seq(Nat) /\ Len(nums) \in Nat /\ DOMAIN nums = 1..Len(nums)
        /\ \A i \in DOMAIN nums : nums[i] \in low..t
    BY <2>2 DEF IsStrided
  <2>4. /\ Len(ps) <= Len(nums)
        /\ \A i \in DOMAIN ps : ps[i] = nums[i] /\ nums[i] <= Len(base)
        /\ \A i \in (Len(ps) + 1)..Len(nums) : nums[i] > Len(base)
    <3>1. CASE ps = <<>>
      <4>1. Len(base) = 0 /\ Len(ps) = 0
        BY <1>12, <3>1, PathFacts
      <4>2. \A i \in 1..Len(nums) : nums[i] > 0
        <5>1. \A n \in low..t : n > 0
          BY <1>12, <2>1
        <5> QED BY <2>3, <5>1
      <4> QED BY <2>1, <2>3, <4>1, <4>2
    <3>2. CASE ps # <<>>
      <4>1. IsStrided(ps, low, Len(base), t)
        BY <1>12, <3>2
      <4>2. /\ Len(ps) <= Len(nums)
            /\ \A i \in DOMAIN ps : ps[i] = nums[i]
            /\ \A i \in (Len(ps) + 1)..Len(nums) : nums[i] > Len(base)
        BY <1>6, <2>1, <2>2, <4>1, StridedContinues
      <4>3. \A i \in DOMAIN ps : ps[i] <= Len(base)
        BY <1>6, <4>1 DEF IsStrided
      <4> QED BY <4>2, <4>3
    <3> QED BY <3>1, <3>2
  <2>5. Appended(synopsis) = rest
    <3>1. Len(toGet[1]) = Len(base) + 1
      <4>1. toGet[1] \in Blocks /\ Previous(toGet[1]) = base
        BY <1>1, <1>7, <1>12, <2>1
      <4>2. Len(base) = Len(toGet[1]) - 1 /\ Len(toGet[1]) \in Nat
        BY <4>1, PreviousFacts, PathFacts
      <4> QED BY <1>6, <4>2
    <3>2. \A i \in 1..Len(synopsis) : nums[i] <= Len(base)
      BY <1>12, <2>1, <2>4
    <3>3. /\ Len(synopsis) <= Len(nums)
          /\ \A i \in (Len(synopsis) + 1)..Len(nums) : nums[i] > Len(base)
      BY <1>12, <2>4
    <3>4. nums = SynopsisNums(low, Len(base) + Len(toGet), Len(base) + Len(toGet))
      BY Zenon DEF nums, t
    <3>5. TypeOK /\ toGet # <<>> /\ synopsis \in Seq(Blocks)
          /\ low = IF synopsis = <<>> THEN 1 ELSE Len(synopsis[1])
      BY <1>12
    <3>6. Continues(synopsis, base, low, nums)
      BY <1>6, <2>3, <3>1, <3>2, <3>3, <3>4, <3>5 DEF Continues
    <3> QED BY <3>6, AppendedFacts
  <2>6. request' = synopsis \o rest
    BY <1>3, <1>12, <2>5
  <2> DEFINE whole == [i \in DOMAIN nums |-> Entry(base, nums[i])]
  <2>7. ASSUME NEW i \in 1..Len(ps)
        PROVE  synopsis[i] = Entry(base, nums[i])
    BY <1>12, <2>1, <2>4 DEF Named, Entry
  <2>8. ASSUME NEW i \in (Len(ps) + 1)..Len(nums)
        PROVE  rest[i - Len(ps)] = Entry(base, nums[i])
    <3>1. i - Len(ps) \in 1..(Len(nums) - Len(ps)) /\ Len(ps) + (i - Len(ps)) = i
      BY <2>1, <2>3
    <3>2. nums[i] > Len(base) /\ nums[i] \in Nat
      BY <2>1, <2>3, <2>4
    <3>3. ~ (nums[i] <= Len(base))
      BY <1>6, <3>2
    <3>4. rest[i - Len(ps)] = toGet[nums[i] - Len(base)]
      BY <1>12, <3>1
    <3> QED BY <3>3, <3>4 DEF Entry
  <2>9. rest \in Seq(Blocks) /\ Len(rest) = Len(nums) - Len(ps)
    <3>1. \A i \in 1..(Len(nums) - Len(ps)) : nums[Len(ps) + i] - Len(base) \in 1..Len(toGet)
      <4>1. \A i \in 1..(Len(nums) - Len(ps)) : Len(ps) + i \in (Len(ps) + 1)..Len(nums)
        BY <2>1, <2>3
      <4>2. \A i \in (Len(ps) + 1)..Len(nums) : nums[i] \in low..t /\ nums[i] > Len(base)
        <5>1. \A i \in (Len(ps) + 1)..Len(nums) : i \in 1..Len(nums)
          BY <2>1, <2>3
        <5> QED BY <2>3, <2>4, <5>1
      <4>3. \A n \in low..t : n > Len(base) => n - Len(base) \in 1..Len(toGet)
        BY <1>6, <2>1 DEF t
      <4> QED BY <4>1, <4>2, <4>3
    <3>2. \A i \in 1..Len(toGet) : toGet[i] \in Blocks
      BY <1>1
    <3>3. \A i \in 1..(Len(nums) - Len(ps)) : toGet[nums[Len(ps) + i] - Len(base)] \in Blocks
      BY <3>1, <3>2
    <3>4. Len(nums) - Len(ps) \in Nat
      BY <2>1, <2>3, <2>4
    <3>5. Len(synopsis) = Len(ps)
      BY <1>12
    <3> QED BY <3>3, <3>4, <3>5
  <2> HIDE DEF rest
  <2>10. synopsis \o rest = whole
    <3>1. /\ DOMAIN (synopsis \o rest) = 1..Len(nums)
          /\ \A i \in 1..Len(ps) : (synopsis \o rest)[i] = synopsis[i]
          /\ \A i \in (Len(ps) + 1)..Len(nums) : (synopsis \o rest)[i] = rest[i - Len(ps)]
      <4>1. /\ Len(synopsis \o rest) = Len(synopsis) + Len(rest)
            /\ synopsis \o rest \in Seq(Blocks)
            /\ \A i \in 1..(Len(synopsis) + Len(rest)) :
                  (synopsis \o rest)[i] = IF i <= Len(synopsis) THEN synopsis[i]
                                          ELSE rest[i - Len(synopsis)]
        <5>1. synopsis \in Seq(Blocks) /\ rest \in Seq(Blocks)
          BY <1>12, <2>9
        <5> QED BY <5>1, ConcatProperties
      <4>2. Len(synopsis) = Len(ps) /\ Len(synopsis) + Len(rest) = Len(nums)
        BY <1>12, <2>1, <2>3, <2>9
      <4>3. DOMAIN (synopsis \o rest) = 1..Len(nums)
        BY <4>1, <4>2
      <4>4. \A i \in 1..Len(ps) : i \in 1..Len(nums) /\ i <= Len(ps)
        BY <2>1, <2>3, <2>4
      <4>5. \A i \in (Len(ps) + 1)..Len(nums) : i \in 1..Len(nums) /\ ~ (i <= Len(ps))
        BY <2>1, <2>3
      <4> QED BY <4>1, <4>2, <4>3, <4>4, <4>5
    <3>2. \A i \in 1..Len(nums) : (synopsis \o rest)[i] = Entry(base, nums[i])
      <4>1. \A i \in 1..Len(nums) : i \in 1..Len(ps) \/ i \in (Len(ps) + 1)..Len(nums)
        BY <2>1, <2>3
      <4> QED BY <2>7, <2>8, <3>1, <4>1
    <3>3. synopsis \o rest = [i \in 1..Len(nums) |-> (synopsis \o rest)[i]]
      <4>1. synopsis \o rest \in Seq(Blocks)
        BY <1>12, <2>9
      <4>2. Len(synopsis \o rest) = Len(nums)
        BY <3>1, <4>1, LenProperties
      <4>3. synopsis \o rest \in [1..Len(nums) -> Blocks]
        BY <4>1, <4>2, LenProperties
      <4> QED BY <4>3
    <3> QED BY <2>3, <3>2, <3>3
  <2>11. Result(low, nums)
    BY <1>12, <2>2, <2>6, <2>10 DEF t
  <2> QED BY <2>3, <2>11
<1>13. ASSUME toGet # <<>>
       PROVE  \E low \in Nat \ {0}, nums \in Seq(Nat) : Result(low, nums)
  <2>1. CASE base = Zero
    <3>1. Named(<<>>, base) = <<>> /\ <<>> \in Seq(Nat) /\ <<>> \in Seq(Blocks) /\ 1 \in Nat \ {0}
      BY DEF Named
    <3> HIDE DEF Result
    <3> QED BY <1>8, <1>12, <1>13, <2>1, <3>1
  <2>2. CASE base # Zero
    <3>1. PICK low \in 1..Len(base), ps \in Seq(Nat) :
               /\ low <= undo \/ low = 1
               /\ IsStrided(ps, low, Len(base), t)
               /\ synopsis = Named(ps, base)
      BY <1>9, <2>2
    <3>2. low \in Nat \ {0} /\ low <= Len(base) /\ Len(base) <= t /\ t \in Nat /\ Len(base) <= Len(base)
      BY <1>1, <1>6
    <3>3. synopsis \in Seq(Blocks) /\ Len(synopsis) = Len(ps) /\ Len(synopsis) \in Nat \ {0}
          /\ Len(synopsis[1]) = low
      <4> HIDE DEF t
      <4> QED BY <1>6, <3>1, <3>2, NamedFacts
    <3>4. synopsis # <<>> /\ ps # <<>>
      BY <3>3
    <3> HIDE DEF Result, t
    <3> QED BY <1>12, <1>13, <3>1, <3>2, <3>3, <3>4
  <2> QED BY <2>1, <2>2
<1>14. \/ t = 0 /\ request' = <<>>
       \/ \E low \in Nat \ {0}, nums \in Seq(Nat) : Result(low, nums)
  BY <1>10, <1>11, <1>13
<1> QED BY <1>5, <1>6, <1>7, <1>14 DEF base

\* What an entry is: a block with that number, of our chain or still to fetch.
LEMMA EntryFacts ==
  ASSUME TypeOK, Linked(toGet), NEW base \in Paths, IsPrefix(base, head),
         toGet # <<>> => Previous(toGet[1]) = base,
         NEW n \in 1..(Len(base) + Len(toGet))
  PROVE  /\ Entry(base, n) \in Blocks
         /\ Len(Entry(base, n)) = n
         /\ IsPrefix(Entry(base, n), head) \/ Entry(base, n) \in ToSet(toGet)
         /\ n <= Len(base) => IsPrefix(Entry(base, n), head)
<1>1. /\ head \in Paths /\ head \in Seq(Steps) /\ base \in Seq(Steps) /\ Len(base) \in Nat
      /\ toGet \in Seq(Blocks) /\ Len(toGet) \in Nat
  BY PathFacts DEF TypeOK, Paths
<1>2. CASE n <= Len(base)
  <2>1. Entry(base, n) = SubSeq(base, 1, n)
    BY <1>2 DEF Entry
  <2>2. n \in 0..Len(base) /\ n > 0
    BY <1>1, <1>2
  <2>3. SubSeq(base, 1, n) \in Blocks /\ Len(SubSeq(base, 1, n)) = n
    BY <1>1, <2>2, InitialFacts, InitialIsPath
  <2>4. IsPrefix(SubSeq(base, 1, n), head)
    <3>1. SubSeq(base, 1, n) \in Seq(Steps) /\ IsPrefix(SubSeq(base, 1, n), base)
      BY <1>1, <2>2, InitialFacts
    <3> QED BY <1>1, <3>1, PrefixOrder
  <2> QED BY <2>1, <2>3, <2>4
<1>3. CASE ~ (n <= Len(base))
  <2>1. n - Len(base) \in 1..Len(toGet) /\ toGet # <<>>
    BY <1>1, <1>3
  <2>2. Entry(base, n) = toGet[n - Len(base)]
    BY <1>3 DEF Entry
  <2>3. toGet[n - Len(base)] \in Blocks /\ toGet[n - Len(base)] \in ToSet(toGet)
    BY <1>1, <2>1 DEF ToSet
  <2>4. toGet[1] \in Blocks
    BY <1>1, <2>1
  <2>5. Len(base) = Len(toGet[1]) - 1 /\ Len(toGet[1]) \in Nat
    BY <2>1, <2>4, PreviousFacts, PathFacts
  <2>6. Len(toGet[n - Len(base)]) = Len(toGet[1]) + (n - Len(base)) - 1
    <3>1. n - Len(base) \in DOMAIN toGet
      BY <1>1, <2>1
    <3> QED BY <1>1, <2>1, <3>1, LinkedLengths
  <2>7. Len(toGet[n - Len(base)]) = n
    BY <1>1, <2>5, <2>6
  <2> QED BY <1>3, <2>2, <2>3, <2>7
<1> QED BY <1>2, <1>3

\* Asking keeps the invariant.
LEMMA AskStep ==
  ASSUME Inv, Ask
  PROVE  Inv'
<1> DEFINE base == TipOf(OurDb, seen)
           t == Len(base) + Len(toGet)
<1>1. /\ TypeOK /\ SessionInv
      /\ UNCHANGED <<ours, peer, seen, toGet, more, reply, inSync, announcing, announced>>
      /\ ~ inSync /\ reply = None
  BY DEF Inv, Ask
<1>2. /\ head' = head /\ undo' = undo /\ syncing' = syncing /\ mainFiber' = mainFiber
      /\ peerHead' = peerHead /\ peerAside' = peerAside /\ seen' = seen /\ toGet' = toGet
      /\ more' = more /\ reply' = None /\ inSync' = FALSE /\ announcing' = announcing
      /\ announced' = announced
  BY <1>1 DEF ours, peer, TypeOK
<1>3. /\ base \in Paths /\ IsPrefix(base, head) /\ IsPrefix(seen, head)
      /\ toGet # <<>> => Previous(toGet[1]) = base /\ base = seen
      /\ \/ t = 0 /\ request' = <<>>
         \/ \E low \in Nat \ {0}, nums \in Seq(Nat) :
              /\ IsStrided(nums, low, t, t)
              /\ low <= undo \/ low = 1
              /\ low <= Len(base) \/ (base = Zero /\ low = 1)
              /\ request' = [i \in DOMAIN nums |-> Entry(base, nums[i])]
  BY <1>1, AskFacts
<1>4. /\ head \in Paths /\ seen \in Paths /\ toGet \in Seq(Blocks) /\ Len(toGet) \in Nat
      /\ Len(base) \in Nat /\ base \in Seq(Steps) /\ undo \in Nat
  BY <1>1, <1>3, PathFacts DEF TypeOK, Paths
<1>5. base = IF seen = Zero THEN head ELSE seen
  BY DEF TipOf, OurDb
<1>6. SessionInv'
  <2>1. toGet # <<>> => Previous(toGet[1]) = seen
    BY <1>3
  <2> QED BY <1>1, <1>2, <2>1 DEF SessionInv, Linked, Away
<1>7. ReplyInv'
  BY <1>2 DEF ReplyInv
<1>8. ASSUME request' \in Seq(Blocks)
      PROVE  TypeOK'
  BY <1>1, <1>2, <1>8 DEF TypeOK
<1> HIDE DEF base
<1>9. CASE t = 0 /\ request' = <<>>
  <2>1. base = Zero /\ Len(toGet) = 0
    BY <1>3, <1>4, <1>9, PathFacts
  <2>2. seen = Zero /\ head = Zero /\ toGet = <<>>
    BY <1>4, <1>5, <2>1
  <2>3. RequestInv'
    BY <1>2, <1>9, <2>2 DEF RequestInv
  <2>4. AsksFromTip'
    BY <1>2, <1>9, <2>2 DEF AsksFromTip, Tip
  <2> QED BY <1>6, <1>7, <1>8, <1>9, <2>3, <2>4 DEF Inv
<1>10. ASSUME NEW low \in Nat \ {0}, NEW nums \in Seq(Nat),
              IsStrided(nums, low, t, t), low <= undo \/ low = 1,
              low <= Len(base) \/ (base = Zero /\ low = 1),
              request' = [i \in DOMAIN nums |-> Entry(base, nums[i])]
       PROVE  Inv'
  <2>1. t \in Nat /\ t <= t
    BY <1>4
  <2>2. /\ Len(nums) \in Nat \ {0} /\ DOMAIN nums = 1..Len(nums) /\ nums[1] = low
        /\ \A i \in DOMAIN nums : nums[i] \in 1..t
    <3>1. nums # <<>> /\ nums[1] = low /\ \A i \in DOMAIN nums : nums[i] \in low..t
      BY <1>10, Zenon DEF IsStrided
    <3>2. \A n \in low..t : n \in 1..t
      BY <2>1
    <3> QED BY <3>1, <3>2
  <2>3. \A n \in 1..t : /\ Entry(base, n) \in Blocks
                        /\ Len(Entry(base, n)) = n
                        /\ IsPrefix(Entry(base, n), head) \/ Entry(base, n) \in ToSet(toGet)
                        /\ n <= Len(base) => IsPrefix(Entry(base, n), head)
    BY <1>1, <1>3, EntryFacts DEF SessionInv
  <2>4. /\ request' \in Seq(Blocks) /\ Len(request') = Len(nums) /\ DOMAIN request' = 1..Len(nums)
        /\ \A i \in DOMAIN request' : request'[i] = Entry(base, nums[i]) /\ nums[i] \in 1..t
    <3> HIDE DEF t
    <3> QED BY <1>10, <2>2, <2>3
  <2>5. \A i \in DOMAIN request' : /\ Len(request'[i]) = nums[i]
                                   /\ IsPrefix(request'[i], head) \/ request'[i] \in ToSet(toGet)
    BY <2>3, <2>4
  <2>6. /\ \A i, j \in DOMAIN nums : i < j => nums[i] < nums[j]
        /\ \A i \in 2..Len(nums) : 2 * (t - nums[i]) + 1 <= t - nums[i - 1]
        /\ nums[Len(nums)] = t
    <3> HIDE DEF t
    <3> QED BY <1>10, <2>1, StridedGrows
  <2>7. 1 \in DOMAIN request' /\ Len(request'[1]) = low /\ request'[1] = Entry(base, low)
        /\ request' # None /\ request' # <<>>
    BY <2>2, <2>4, <2>5, SyncAssumption
  <2>8. Last(request') = Tip /\ Len(Tip) = t
    <3>1. Len(nums) \in DOMAIN request' /\ Last(request') = Entry(base, t)
      BY <2>2, <2>4, <2>6 DEF Last
    <3>2. Len(Last(request')) = t
      <4>1. Last(request') = request'[Len(nums)] /\ Len(request'[Len(nums)]) = nums[Len(nums)]
        BY <2>4, <2>5, <3>1 DEF Last
      <4> QED BY <2>6, <4>1
    <3>3. CASE toGet = <<>>
      <4>1. t = Len(base) /\ Len(toGet) = 0
        BY <1>4, <3>3
      <4>2. Entry(base, t) = base
        BY <1>4, <4>1 DEF Entry
      <4> QED BY <1>5, <3>1, <3>2, <3>3, <4>2 DEF Tip
    <3>4. CASE toGet # <<>>
      <4>1. ~ (t <= Len(base)) /\ t - Len(base) = Len(toGet)
        BY <1>4, <3>4
      <4>2. Entry(base, t) = Last(toGet)
        BY <4>1 DEF Entry, Last
      <4> QED BY <3>1, <3>2, <3>4, <4>2 DEF Tip
    <3> QED BY <3>3, <3>4
  <2> HIDE DEF t
  <2>9. AsksFromTip'
    <3>1. Tip' = Tip
      BY <1>2 DEF Tip
    <3>2. ASSUME NEW i \in 2..Len(request')
          PROVE  2 * (t - Len(request'[i])) <= t - Len(request'[i - 1])
      <4>1. i \in DOMAIN request' /\ i - 1 \in DOMAIN request' /\ i \in 2..Len(nums)
        BY <2>2, <2>4
      <4>2. Len(request'[i]) = nums[i] /\ Len(request'[i - 1]) = nums[i - 1]
        BY <2>5, <4>1
      <4>3. nums[i] \in Nat /\ nums[i - 1] \in Nat
        BY <2>2, <2>4, <4>1
      <4>4. 2 * (t - nums[i]) + 1 <= t - nums[i - 1]
        BY <2>6, <4>1
      <4>5. 2 * (t - nums[i]) <= t - nums[i - 1]
        <5>1. \A x, y \in Int : 2 * x + 1 <= y => 2 * x <= y
          OBVIOUS
        <5>2. t - nums[i] \in Int /\ t - nums[i - 1] \in Int
          BY <2>1, <4>3
        <5> QED BY <4>4, <5>1, <5>2
      <4> QED BY <4>2, <4>5
    <3> QED BY <2>7, <2>8, <3>1, <3>2 DEF AsksFromTip
  <2>10. RequestInv'
    <3>1. (\A i \in DOMAIN request : IsKnown(request[i]))'
      BY <1>2, <2>5 DEF IsKnown
    <3>2. \A i, j \in DOMAIN request' : i < j => Len(request'[i]) < Len(request'[j])
      BY <2>2, <2>4, <2>5, <2>6
    <3>3. \/ IsPrefix(request'[1], head)
          \/ head = Zero /\ toGet # <<>> /\ request'[1] = toGet[1]
      <4>1. CASE low <= Len(base)
        <5>1. low \in 1..t
          BY <2>2
        <5> QED BY <2>3, <2>7, <4>1, <5>1
      <4>2. CASE base = Zero /\ low = 1
        <5>1. Len(base) = 0 /\ t \in Nat \ {0}
          BY <2>1, <2>2, <4>2, PathFacts
        <5>2. toGet # <<>>
          BY <5>1 DEF t
        <5>3. seen = Zero /\ head = Zero
          BY <1>1, <1>3, <4>2, <5>2 DEF SessionInv
        <5>4. ~ (1 <= Len(base)) /\ 1 - Len(base) = 1
          BY <5>1
        <5> QED BY <2>7, <4>2, <5>2, <5>3, <5>4 DEF Entry
      <4> QED BY <1>10, <4>1, <4>2
    <3>4. Len(request'[1]) <= undo \/ Len(request'[1]) = 1
      BY <1>10, <2>7
    <3> QED BY <1>2, <2>7, <3>1, <3>2, <3>3, <3>4 DEF RequestInv
  <2> QED BY <1>6, <1>7, <1>8, <2>4, <2>9, <2>10 DEF Inv
<1> QED BY <1>3, <1>9, <1>10

-----------------------------------------------------------------------------
(* An answer *)

\* The peer answers from the last block of the request that its chain has.
LEMMA AnswerFacts ==
  ASSUME TypeOK, SessionInv, Answer
  PROVE  /\ request \in Seq(Blocks)
         /\ \/ peerHead = Zero /\ reply' = [ids |-> <<>>, remaining |-> 0]
            \/ /\ peerHead # Zero
               /\ \/ request = <<>> /\ reply' = Batch(peerHead, 1, Limit)
                  \/ /\ request # <<>> /\ reply' = Threw
                     /\ \A i \in DOMAIN request : ~ IsPrefix(request[i], peerHead)
                  \/ \E i \in DOMAIN request :
                        /\ IsPrefix(request[i], peerHead) /\ Len(request[i]) \in 1..Len(peerHead)
                        /\ \A j \in DOMAIN request : IsPrefix(request[j], peerHead) => j <= i
                        /\ reply' = Batch(peerHead, Len(request[i]), Limit)
<1>1. request \in Seq(Blocks) /\ peerHead \in Paths /\ Limit \in Nat \ {0}
  BY SyncAssumption DEF TypeOK, Answer, Paths
<1>2. IsDatabase(PeerDb) /\ PeerDb.head = peerHead
  BY Databases DEF SessionInv
<1>3. reply' = get_block_ids(PeerDb, request, Limit)
  BY DEF Answer
<1>4. CASE peerHead = Zero
  <2>1. Len(PeerDb.head) = 0
    BY <1>2, <1>4, PathFacts
  <2>2. reply' = [ids |-> <<>>, remaining |-> 0]
    BY <1>3, <2>1 DEF get_block_ids
  <2> QED BY <1>1, <1>4, <2>2
<1>5. CASE peerHead # Zero
  <2>1. \/ request = <<>> /\ reply' = Batch(peerHead, 1, Limit)
        \/ /\ request # <<>> /\ reply' = Threw
           /\ \A i \in DOMAIN request : ~ IsPrefix(request[i], peerHead)
        \/ \E i \in DOMAIN request :
              /\ IsPrefix(request[i], peerHead) /\ Len(request[i]) \in 1..Len(peerHead)
              /\ \A j \in DOMAIN request : IsPrefix(request[j], peerHead) => j <= i
              /\ reply' = Batch(peerHead, Len(request[i]), Limit)
    BY <1>1, <1>2, <1>3, <1>5, BlockIdsFacts
  <2> QED BY <1>1, <1>5, <2>1
<1> QED BY <1>4, <1>5

\* A batch that starts in a block of the chain.
LEMMA BatchAsReply ==
  ASSUME TypeOK, NEW first \in 1..Len(peerHead)
  PROVE  LET r == Batch(peerHead, first, Limit)
         IN  /\ r \in [ids : Seq(Blocks), remaining : Nat]
             /\ r.ids # <<>> /\ Linked(r.ids)
             /\ \A i \in DOMAIN r.ids : IsPrefix(r.ids[i], peerHead)
             /\ Len(r.ids[1]) = first
             /\ \A b \in Paths : IsPrefix(b, peerHead) /\ Len(b) = first => r.ids[1] = b
<1> DEFINE r == Batch(peerHead, first, Limit)
<1>1. peerHead \in Paths /\ Limit \in Nat \ {0} /\ Len(peerHead) \in Nat
  BY SyncAssumption, PathFacts DEF TypeOK, Paths
<1>2. /\ r.ids \in Seq(Blocks) /\ Len(r.ids) \in Nat \ {0}
      /\ \A i \in DOMAIN r.ids : /\ r.ids[i] = SubSeq(peerHead, 1, first + i - 1)
                                 /\ Len(r.ids[i]) = first + i - 1
                                 /\ IsPrefix(r.ids[i], peerHead)
      /\ \A i \in 2..Len(r.ids) : Previous(r.ids[i]) = r.ids[i - 1]
      /\ r.remaining \in Nat
  BY <1>1, BatchFacts
<1>3. r = [ids |-> r.ids, remaining |-> r.remaining]
  BY DEF Batch
<1> HIDE DEF r
<1>4. r \in [ids : Seq(Blocks), remaining : Nat]
  BY <1>2, <1>3
<1>5. 1 \in DOMAIN r.ids /\ r.ids # <<>> /\ first + 1 - 1 = first
  BY <1>2
<1>6. r.ids[1] = SubSeq(peerHead, 1, first) /\ Len(r.ids[1]) = first
  BY <1>2, <1>5
<1>7. ASSUME NEW b \in Paths, IsPrefix(b, peerHead), Len(b) = first
      PROVE  r.ids[1] = b
  <2>1. Len(b) <= Len(peerHead)
    BY <1>7
  <2> QED BY <1>1, <1>6, <1>7, <2>1, InChainFacts
<1>8. Linked(r.ids)
  BY <1>2 DEF Linked
<1>9. \A i \in DOMAIN r.ids : IsPrefix(r.ids[i], peerHead)
  BY <1>2
<1> QED BY <1>4, <1>5, <1>6, <1>7, <1>8, <1>9 DEF r

\* Answering keeps the invariant.
LEMMA AnswerStep ==
  ASSUME Inv, Answer
  PROVE  Inv'
<1>1. /\ TypeOK /\ SessionInv /\ RequestInv /\ AsksFromTip
      /\ request # None
      /\ head' = head /\ undo' = undo /\ syncing' = syncing /\ mainFiber' = mainFiber
      /\ peerHead' = peerHead /\ peerAside' = peerAside /\ seen' = seen /\ toGet' = toGet
      /\ more' = more /\ request' = request /\ inSync' = inSync /\ announced' = announced
  BY DEF Inv, Answer, ours, peer
<1>2. announcing' \in BOOLEAN
  BY Zenon DEF Answer
<1>3. SessionInv'
  BY <1>1 DEF SessionInv, Linked, Away
<1>4. RequestInv'
  BY <1>1 DEF RequestInv, IsKnown, Away
<1>5. AsksFromTip'
  BY <1>1 DEF AsksFromTip, Tip
<1>6. ASSUME reply' = Threw \/ reply' \in [ids : Seq(Blocks), remaining : Nat], ReplyInv'
      PROVE  Inv'
  <2>1. TypeOK'
    BY <1>1, <1>2, <1>6 DEF TypeOK
  <2> QED BY <1>3, <1>4, <1>5, <1>6, <2>1 DEF Inv
<1>7. CASE reply' = [ids |-> <<>>, remaining |-> 0]
  <2>1. reply' \in [ids : Seq(Blocks), remaining : Nat] /\ reply'.ids = <<>>
    BY <1>7
  <2>2. ReplyInv'
    BY <2>1 DEF ReplyInv, Linked
  <2> QED BY <1>6, <2>1, <2>2
<1>8. CASE reply' = Threw
  BY <1>6, <1>8 DEF ReplyInv
<1>9. peerHead # Zero => Len(peerHead) \in Nat \ {0}
  BY <1>1, PathFacts DEF TypeOK, Paths
<1>10. CASE peerHead # Zero /\ request = <<>> /\ reply' = Batch(peerHead, 1, Limit)
  <2>1. 1 \in 1..Len(peerHead)
    BY <1>9, <1>10
  <2>2. /\ reply' \in [ids : Seq(Blocks), remaining : Nat] /\ Linked(reply'.ids)
        /\ Len(reply'.ids[1]) = 1
    BY <1>1, <1>10, <2>1, BatchAsReply
  <2>3. ReplyInv'
    BY <1>1, <1>10, <2>2 DEF ReplyInv, Linked
  <2> QED BY <1>6, <2>2, <2>3
<1>11. ASSUME NEW i \in DOMAIN request, IsPrefix(request[i], peerHead),
              Len(request[i]) \in 1..Len(peerHead), request \in Seq(Blocks),
              reply' = Batch(peerHead, Len(request[i]), Limit)
       PROVE  Inv'
  <2>1. request[i] \in Paths /\ request[i] \in ToSet(request) /\ request # <<>>
    BY <1>11 DEF ToSet, Paths
  <2>2. /\ reply' \in [ids : Seq(Blocks), remaining : Nat] /\ Linked(reply'.ids)
        /\ reply'.ids[1] = request[i]
    BY <1>1, <1>11, <2>1, BatchAsReply
  <2>3. ReplyInv'
    BY <1>1, <2>1, <2>2 DEF ReplyInv, Linked
  <2> QED BY <1>6, <2>2, <2>3
<1> QED BY <1>1, <1>7, <1>8, <1>10, <1>11, AnswerFacts

-----------------------------------------------------------------------------
(* An answer is handled *)

\* Ids to fetch are kept up to the one that the answer goes on from.
LEMMA KeptFacts ==
  ASSUME TypeOK, NEW id
  PROVE  \/ Kept(id) = <<>> /\ id \notin ToSet(toGet)
         \/ \E k \in DOMAIN toGet : toGet[k] = id /\ Kept(id) = SubSeq(toGet, 1, k)
<1>1. CASE \E i \in DOMAIN toGet : toGet[i] = id
  <2> DEFINE k == CHOOSE i \in DOMAIN toGet : toGet[i] = id
  <2>1. k \in DOMAIN toGet /\ toGet[k] = id
    BY <1>1
  <2>2. Kept(id) = SubSeq(toGet, 1, k)
    BY <1>1 DEF Kept
  <2> HIDE DEF k
  <2> QED BY <2>1, <2>2
<1>2. CASE ~ \E i \in DOMAIN toGet : toGet[i] = id
  BY <1>2 DEF Kept, ToSet
<1> QED BY <1>1, <1>2

\* The ids in front that we have, up to the first that we have not.
LEMMA HadFacts ==
  ASSUME TypeOK, NEW ids \in Seq(Blocks)
  PROVE  /\ HadInFront(ids) \in 0..Len(ids)
         /\ \A i \in 1..HadInFront(ids) : IsPrefix(ids[i], head)
         /\ HadInFront(ids) < Len(ids) => ~ IsPrefix(ids[HadInFront(ids) + 1], head)
<1> DEFINE Is(n) == /\ \A i \in 1..n : has_item(OurDb, ids[i])
                    /\ n < Len(ids) => ~ has_item(OurDb, ids[n + 1])
           Stops == {n \in 0..Len(ids) : n < Len(ids) => ~ has_item(OurDb, ids[n + 1])}
           had == HadInFront(ids)
<1>1. Len(ids) \in Nat /\ \A i \in 1..Len(ids) : ids[i] \in Blocks
  OBVIOUS
<1>2. PICK n \in Stops : \A m \in Stops : n <= m
  <2>1. Len(ids) \in Stops /\ Stops \subseteq Nat
    BY <1>1
  <2> HIDE DEF Stops
  <2> QED BY <2>1, LeastNumber
<1>3. Is(n)
  <2>1. ASSUME NEW i \in 1..n
        PROVE  has_item(OurDb, ids[i])
    <3>1. i - 1 \in 0..Len(ids) /\ i - 1 < Len(ids) /\ ~ (n <= i - 1) /\ (i - 1) + 1 = i
      BY <1>1, <1>2
    <3>2. i - 1 \notin Stops
      <4> HIDE DEF Stops
      <4> QED BY <1>2, <3>1
    <3> QED BY <3>1, <3>2
  <2> QED BY <1>2, <2>1
<1>4. had \in 0..Len(ids) /\ Is(had)
  <2>1. had = CHOOSE m \in 0..Len(ids) : Is(m)
    BY DEF HadInFront
  <2>2. n \in 0..Len(ids)
    BY <1>2
  <2> HIDE DEF Is, had
  <2> QED BY <1>3, <2>1, <2>2
<1> HIDE DEF had
<1>5. \A i \in 1..Len(ids) : has_item(OurDb, ids[i]) <=> IsPrefix(ids[i], head)
  <2>1. head \in Paths
    BY DEF TypeOK, Paths
  <2>2. \A b \in Blocks : b \in Paths /\ b # Zero
    BY BlocksAssumption DEF Paths
  <2>3. \A b \in Blocks : b \in Ancestry(head) <=> IsPrefix(b, head)
    BY <2>1, <2>2, AncestryFacts
  <2> QED BY <1>1, <2>3 DEF has_item, is_known_block, OurDb
<1>6. \A i \in 1..had : i \in 1..Len(ids)
  BY <1>1, <1>4
<1>7. had < Len(ids) => had + 1 \in 1..Len(ids)
  BY <1>1, <1>4
<1> QED BY <1>4, <1>5, <1>6, <1>7 DEF had

\* Ids that go on from the last one kept are linked to it.
LEMMA LinkedConcat ==
  ASSUME NEW s \in Seq(Blocks), Linked(s), NEW k \in DOMAIN s,
         NEW ids \in Seq(Blocks), ids # <<>>, Linked(ids), ids[1] = s[k]
  PROVE  LET c == SubSeq(s, 1, k) \o Tail(ids)
         IN  c \in Seq(Blocks) /\ c # <<>> /\ Linked(c) /\ c[1] = s[1]
             /\ \A i \in DOMAIN c : c[i] \in ToSet(s) \cup ToSet(ids)
<1> DEFINE a == SubSeq(s, 1, k)
           b == Tail(ids)
           c == a \o b
<1>1. Len(s) \in Nat /\ k \in 1..Len(s) /\ Len(ids) \in Nat \ {0}
  OBVIOUS
<1>2. /\ a \in Seq(Blocks) /\ Len(a) = k
      /\ \A i \in 1..k : a[i] = s[i] /\ s[i] \in ToSet(s)
  BY <1>1 DEF ToSet
<1>3. /\ b \in Seq(Blocks) /\ Len(b) = Len(ids) - 1
      /\ \A i \in 1..(Len(ids) - 1) : b[i] = ids[i + 1] /\ ids[i + 1] \in ToSet(ids)
  BY <1>1 DEF ToSet
<1> HIDE DEF a, b
<1>4. /\ c \in Seq(Blocks) /\ Len(c) = k + (Len(ids) - 1)
      /\ \A i \in 1..Len(c) : c[i] = IF i <= k THEN a[i] ELSE b[i - k]
  <2>1. /\ c \in Seq(Blocks) /\ Len(c) = Len(a) + Len(b)
        /\ \A i \in 1..(Len(a) + Len(b)) : c[i] = IF i <= Len(a) THEN a[i] ELSE b[i - Len(a)]
    BY <1>2, <1>3, ConcatProperties
  <2> QED BY <1>2, <1>3, <2>1
<1> HIDE DEF c
<1>5. \A i \in 1..Len(c) : i <= k => c[i] = s[i]
  BY <1>1, <1>2, <1>4
<1>6. \A i \in 1..Len(c) : i >= k => c[i] = ids[i - k + 1]
  <2>1. ASSUME NEW i \in 1..Len(c), i > k
        PROVE  c[i] = ids[i - k + 1]
    <3>1. i - k \in 1..(Len(ids) - 1) /\ ~ (i <= k)
      BY <1>1, <1>4, <2>1
    <3> QED BY <1>3, <1>4, <3>1
  <2>2. k \in 1..Len(c) /\ c[k] = ids[1] /\ k - k + 1 = 1
    BY <1>1, <1>4, <1>5
  <2>3. \A i \in 1..Len(c) : i >= k => i > k \/ i = k
    BY <1>1, <1>4
  <2> QED BY <2>1, <2>2, <2>3
<1>7. ASSUME NEW i \in 2..Len(c)
      PROVE  Previous(c[i]) = c[i - 1]
  <2>1. i \in 1..Len(c) /\ i - 1 \in 1..Len(c)
    BY <1>1, <1>4
  <2>2. CASE i <= k
    <3>1. i \in 2..Len(s) /\ i - 1 <= k
      BY <1>1, <2>1, <2>2
    <3> QED BY <1>5, <2>1, <2>2, <3>1 DEF Linked
  <2>3. CASE i > k
    <3>1. /\ i >= k /\ i - 1 >= k /\ i - k + 1 \in 2..Len(ids)
          /\ (i - k + 1) - 1 = (i - 1) - k + 1
      <4>1. i \in Nat /\ k \in Nat /\ i <= k + (Len(ids) - 1) /\ Len(ids) \in Nat
        BY <1>1, <1>4, <2>1
      <4> QED BY <2>3, <4>1
    <3>2. c[i] = ids[i - k + 1] /\ c[i - 1] = ids[(i - 1) - k + 1]
      BY <1>6, <2>1, <3>1
    <3> QED BY <3>1, <3>2 DEF Linked
  <2> QED BY <1>1, <1>4, <2>2, <2>3
<1>8. c # <<>> /\ c[1] = s[1]
  <2>1. 1 \in 1..Len(c) /\ 1 <= k
    BY <1>1, <1>4
  <2> QED BY <1>4, <1>5, <2>1
<1>9. \A i \in DOMAIN c : c[i] \in ToSet(s) \cup ToSet(ids)
  <2>1. \A i \in 1..Len(c) : ~ (i <= k) => i - k \in 1..(Len(ids) - 1)
    BY <1>1, <1>4
  <2>2. \A i \in 1..Len(c) : i <= k => i \in 1..k
    BY <1>1, <1>4
  <2>3. DOMAIN c = 1..Len(c)
    BY <1>4
  <2>4. \A i \in 1..Len(c) : i <= k => c[i] \in ToSet(s)
    BY <1>2, <1>4, <2>2
  <2>5. \A i \in 1..Len(c) : ~ (i <= k) => c[i] \in ToSet(ids)
    BY <1>3, <1>4, <2>1
  <2> QED BY <2>3, <2>4, <2>5
<1> QED BY <1>4, <1>7, <1>8, <1>9 DEF Linked, c, a, b

\* So are the ids after some of them.
LEMMA LinkedRest ==
  ASSUME NEW ids \in Seq(Blocks), Linked(ids), NEW n \in 0..Len(ids)
  PROVE  LET r == SubSeq(ids, n + 1, Len(ids))
         IN  /\ r \in Seq(Blocks) /\ Len(r) = Len(ids) - n /\ Linked(r)
             /\ \A i \in 1..Len(r) : r[i] = ids[n + i]
             /\ r # <<>> => n < Len(ids) /\ r[1] = ids[n + 1]
<1> DEFINE r == SubSeq(ids, n + 1, Len(ids))
<1>1. Len(ids) \in Nat
  OBVIOUS
<1>2. r \in Seq(Blocks) /\ Len(r) = Len(ids) - n /\ \A i \in 1..Len(r) : r[i] = ids[n + i]
  BY <1>1
<1> HIDE DEF r
<1>3. ASSUME NEW i \in 2..Len(r)
      PROVE  Previous(r[i]) = r[i - 1]
  <2>1. /\ i \in 1..Len(r) /\ i - 1 \in 1..Len(r) /\ n + i \in 2..Len(ids)
        /\ n + (i - 1) = (n + i) - 1
    BY <1>1, <1>2
  <2> QED BY <1>2, <2>1 DEF Linked
<1>4. r # <<>> => n < Len(ids) /\ r[1] = ids[n + 1]
  <2>1. r # <<>> => 1 \in 1..Len(r)
    BY <1>2
  <2> QED BY <1>1, <1>2, <2>1
<1> QED BY <1>2, <1>3, <1>4 DEF r, Linked

\* What handling an answer leaves to fetch, and where it takes net::node to be.
LEMMA ReplyFacts ==
  ASSUME Inv, HandleReply
  PROVE  LET ids == reply.ids
         IN  /\ ids \in Seq(Blocks) /\ Linked(ids) /\ reply \in [ids : Seq(Blocks), remaining : Nat]
             /\ toGet' \in Seq(Blocks) /\ Linked(toGet')
             /\ \A i \in DOMAIN toGet' : toGet'[i] \in ToSet(toGet) \cup ToSet(ids)
             /\ \/ ids = <<>> /\ toGet' = toGet /\ seen' = seen
                \/ /\ ids # <<>> /\ toGet # <<>> /\ toGet' # <<>>
                   /\ toGet'[1] = toGet[1] /\ seen' = seen
                \/ /\ ids # <<>> /\ ids[1] \notin ToSet(toGet)
                   /\ ~ IsPrefix(ids[1], head)
                   /\ toGet' # <<>> /\ toGet'[1] = ids[1] /\ seen' = seen
                \/ \E n \in 1..Len(ids) :
                      /\ ids[1] \notin ToSet(toGet)
                      /\ \A i \in 1..n : IsPrefix(ids[i], head)
                      /\ n < Len(ids) => ~ IsPrefix(ids[n + 1], head)
                      /\ seen' = ids[n] /\ Len(toGet') = Len(ids) - n
                      /\ toGet' # <<>> => n < Len(ids) /\ toGet'[1] = ids[n + 1]
<1> DEFINE ids == reply.ids
           kept == IF ids = <<>> THEN toGet ELSE Kept(Head(ids))
           had == HadInFront(ids)
<1>1. /\ TypeOK /\ toGet \in Seq(Blocks) /\ Linked(toGet)
      /\ reply \in [ids : Seq(Blocks), remaining : Nat]
      /\ ids \in Seq(Blocks) /\ Linked(ids)
  BY DEF Inv, HandleReply, TypeOK, SessionInv, ReplyInv
<1>2. /\ kept # <<>> => /\ toGet' = kept \o (IF ids = <<>> THEN <<>> ELSE Tail(ids))
                        /\ seen' = seen
      /\ kept = <<>> => /\ toGet' = SubSeq(ids, had + 1, Len(ids))
                        /\ seen' = IF had = 0 THEN seen ELSE ids[had]
  BY DEF HandleReply
<1> HIDE DEF ids, had
<1>3. /\ had \in 0..Len(ids)
      /\ \A i \in 1..had : IsPrefix(ids[i], head)
      /\ had < Len(ids) => ~ IsPrefix(ids[had + 1], head)
  BY <1>1, HadFacts DEF had
<1>4. \A i \in DOMAIN toGet : toGet[i] \in ToSet(toGet)
  BY DEF ToSet
<1>5. CASE ids = <<>>
  <2>1. CASE toGet # <<>>
    <3>1. toGet' = toGet \o <<>> /\ seen' = seen
      BY <1>2, <1>5, <2>1
    <3>2. toGet' = toGet
      BY <1>1, <3>1
    <3> QED BY <1>1, <1>4, <1>5, <3>1, <3>2 DEF ids
  <2>2. CASE toGet = <<>>
    <3>1. had = 0 /\ Len(ids) = 0
      BY <1>3, <1>5
    <3>2. toGet' = SubSeq(ids, 1, 0) /\ seen' = seen
      BY <1>2, <1>5, <2>2, <3>1
    <3>3. toGet' = toGet
      BY <1>5, <2>2, <3>2
    <3> QED BY <1>1, <1>4, <1>5, <3>2, <3>3 DEF ids
  <2> QED BY <2>1, <2>2
<1>6. CASE ids # <<>> /\ kept # <<>>
  <2>1. kept = Kept(ids[1])
    BY <1>1, <1>6
  <2>2. PICK k \in DOMAIN toGet : toGet[k] = ids[1] /\ Kept(ids[1]) = SubSeq(toGet, 1, k)
    BY <1>1, <1>6, <2>1, KeptFacts
  <2>3. toGet' = SubSeq(toGet, 1, k) \o Tail(ids) /\ seen' = seen
    BY <1>2, <1>6, <2>1, <2>2
  <2>4. /\ toGet' \in Seq(Blocks) /\ toGet' # <<>> /\ Linked(toGet') /\ toGet'[1] = toGet[1]
        /\ \A i \in DOMAIN toGet' : toGet'[i] \in ToSet(toGet) \cup ToSet(ids)
    BY <1>1, <1>6, <2>2, <2>3, LinkedConcat
  <2>5. toGet # <<>>
    BY <2>2
  <2> QED BY <1>1, <1>6, <2>3, <2>4, <2>5 DEF ids
<1>7. CASE ids # <<>> /\ kept = <<>>
  <2>1. kept = Kept(ids[1]) /\ Len(ids) \in Nat \ {0}
    BY <1>1, <1>7
  <2>2. ids[1] \notin ToSet(toGet)
    <3>1. ASSUME NEW k \in DOMAIN toGet
          PROVE  SubSeq(toGet, 1, k) # <<>>
      <4>1. Len(SubSeq(toGet, 1, k)) = k /\ k # 0
        BY <1>1
      <4> QED BY <4>1
    <3> QED BY <1>1, <1>7, <2>1, <3>1, KeptFacts
  <2>3. toGet' = SubSeq(ids, had + 1, Len(ids)) /\ seen' = IF had = 0 THEN seen ELSE ids[had]
    BY <1>2, <1>7
  <2>4. /\ toGet' \in Seq(Blocks) /\ Len(toGet') = Len(ids) - had /\ Linked(toGet')
        /\ \A i \in 1..Len(toGet') : toGet'[i] = ids[had + i]
        /\ toGet' # <<>> => had < Len(ids) /\ toGet'[1] = ids[had + 1]
    BY <1>1, <1>3, <2>3, LinkedRest
  <2>5. \A i \in DOMAIN toGet' : toGet'[i] \in ToSet(toGet) \cup ToSet(ids)
    <3>1. \A i \in 1..Len(toGet') : had + i \in 1..Len(ids)
      BY <1>3, <2>1, <2>4
    <3>2. \A i \in 1..Len(ids) : ids[i] \in ToSet(ids)
      BY <1>1 DEF ToSet
    <3>3. DOMAIN toGet' = 1..Len(toGet')
      BY <2>4
    <3> QED BY <2>4, <3>1, <3>2, <3>3
  <2>6. CASE had = 0
    <3>1. had < Len(ids) /\ Len(toGet') # 0
      BY <2>1, <2>4, <2>6
    <3>2. ~ IsPrefix(ids[1], head) /\ toGet' # <<>> /\ toGet'[1] = ids[1] /\ seen' = seen
      BY <1>3, <2>3, <2>4, <2>6, <3>1
    <3> QED BY <1>1, <1>7, <2>2, <2>4, <2>5, <3>2 DEF ids
  <2>7. CASE had # 0
    <3>1. had \in 1..Len(ids) /\ seen' = ids[had]
      BY <1>3, <2>1, <2>3, <2>7
    <3> QED BY <1>1, <1>3, <2>2, <2>4, <2>5, <3>1 DEF ids
  <2> QED BY <2>6, <2>7
<1> QED BY <1>5, <1>6, <1>7

\* Handling an answer keeps the invariant.
LEMMA HandleReplyStep ==
  ASSUME Inv, HandleReply
  PROVE  Inv'
<1> DEFINE ids == reply.ids
<1>1. /\ TypeOK /\ SessionInv /\ RequestInv /\ ReplyInv
      /\ reply \notin {None, Threw} /\ request # None
      /\ head' = head /\ undo' = undo /\ syncing' = syncing /\ mainFiber' = mainFiber
      /\ peerHead' = peerHead /\ peerAside' = peerAside /\ announcing' = announcing
      /\ announced' = announced /\ request' = None /\ reply' = None
  BY DEF Inv, HandleReply, ours, peer, SessionInv
<1>2. more' \in BOOLEAN /\ inSync' \in BOOLEAN
  <2>1. /\ more' = (reply.remaining > 0)
        /\ inSync' = (toGet' = <<>> /\ Len(reply.ids) <= 1 /\ reply.remaining = 0)
    BY DEF HandleReply
  <2>2. reply.remaining \in Nat
    BY <1>1 DEF TypeOK
  <2>3. (reply.remaining > 0) \in BOOLEAN
    BY <2>2
  <2>4. (toGet' = <<>> /\ Len(reply.ids) <= 1 /\ reply.remaining = 0) \in BOOLEAN
    BY Zenon
  <2> QED BY <2>1, <2>3, <2>4, Zenon
<1>3. inSync' => toGet' = <<>>
  BY DEF HandleReply
<1>4. RequestInv' /\ ReplyInv' /\ AsksFromTip'
  BY <1>1 DEF RequestInv, ReplyInv, AsksFromTip
<1>5. ASSUME toGet' \in Seq(Blocks), seen' \in Blocks \cup {Zero}, Linked(toGet'),
             toGet' # <<>> => Previous(toGet'[1]) = seen' \/ Away',
             toGet' # <<>> /\ seen' = Zero => head = Zero
      PROVE  Inv'
  <2>1. TypeOK'
    BY <1>1, <1>2, <1>5 DEF TypeOK
  <2>2. SessionInv'
    BY <1>1, <1>3, <1>5 DEF SessionInv, Linked
  <2> QED BY <1>4, <2>1, <2>2 DEF Inv
<1>6. /\ ids \in Seq(Blocks) /\ Linked(ids)
      /\ toGet' \in Seq(Blocks) /\ Linked(toGet')
      /\ \/ ids = <<>> /\ toGet' = toGet /\ seen' = seen
         \/ /\ ids # <<>> /\ toGet # <<>> /\ toGet' # <<>>
            /\ toGet'[1] = toGet[1] /\ seen' = seen
         \/ /\ ids # <<>> /\ ids[1] \notin ToSet(toGet)
            /\ ~ IsPrefix(ids[1], head)
            /\ toGet' # <<>> /\ toGet'[1] = ids[1] /\ seen' = seen
         \/ \E n \in 1..Len(ids) :
               /\ seen' = ids[n]
               /\ toGet' # <<>> => n < Len(ids) /\ toGet'[1] = ids[n + 1]
  BY ReplyFacts
<1>7. seen \in Blocks \cup {Zero} /\ (toGet # <<>> => Previous(toGet[1]) = seen)
      /\ (toGet # <<>> /\ seen = Zero => head = Zero)
  BY <1>1 DEF TypeOK, SessionInv
<1> HIDE DEF ids
<1>8. CASE \/ ids = <<>> /\ toGet' = toGet /\ seen' = seen
           \/ /\ ids # <<>> /\ toGet # <<>> /\ toGet' # <<>>
              /\ toGet'[1] = toGet[1] /\ seen' = seen
  BY <1>5, <1>6, <1>7, <1>8
<1>9. CASE /\ ids # <<>> /\ ids[1] \notin ToSet(toGet)
           /\ ~ IsPrefix(ids[1], head)
           /\ toGet' # <<>> /\ toGet'[1] = ids[1] /\ seen' = seen
  <2>1. CASE request = <<>>
    <3>1. head = Zero /\ seen = Zero /\ Len(ids[1]) = 1 /\ ids[1] \in Blocks
      BY <1>1, <1>6, <1>9, <2>1 DEF RequestInv, ReplyInv, ids
    <3>2. Previous(ids[1]) \in Paths /\ Len(Previous(ids[1])) = 0
      BY <3>1, PreviousFacts, PathFacts
    <3>3. Previous(ids[1]) = Zero
      BY <3>2, PathFacts
    <3> QED BY <1>5, <1>6, <1>7, <1>9, <3>1, <3>3
  <2>2. CASE request # <<>>
    <3>1. ids[1] \in ToSet(request)
      BY <1>1, <1>9, <2>2 DEF ReplyInv, ids
    <3>2. PICK i \in DOMAIN request : request[i] = ids[1]
      BY <3>1 DEF ToSet
    <3>3. IsKnown(ids[1])
      BY <1>1, <3>2 DEF RequestInv
    <3>4. Away
      BY <1>9, <3>3 DEF IsKnown
    <3>5. Away' /\ seen' # Zero
      BY <1>1, <1>9, <3>4 DEF Away
    <3> QED BY <1>5, <1>6, <1>7, <1>9, <3>5
  <2> QED BY <2>1, <2>2
<1>10. CASE \E n \in 1..Len(ids) :
               /\ seen' = ids[n]
               /\ toGet' # <<>> => n < Len(ids) /\ toGet'[1] = ids[n + 1]
  <2>1. PICK n \in 1..Len(ids) :
               /\ seen' = ids[n]
               /\ toGet' # <<>> => n < Len(ids) /\ toGet'[1] = ids[n + 1]
    BY <1>10
  <2>2. seen' \in Blocks /\ seen' # Zero
    <3>1. ids[n] \in Blocks
      BY <1>6
    <3> QED BY <2>1, <3>1, BlocksAssumption
  <2>3. toGet' # <<>> => Previous(toGet'[1]) = seen'
    <3>1. n < Len(ids) => n + 1 \in 2..Len(ids) /\ (n + 1) - 1 = n
      BY <1>6
    <3> QED BY <1>6, <2>1, <3>1 DEF Linked
  <2> QED BY <1>5, <1>6, <2>2, <2>3
<1> QED BY <1>6, <1>8, <1>9, <1>10

-----------------------------------------------------------------------------
(* Blocks are handled *)

\* Our chain stays or grows by the block handled.
LEMMA ReceivedFacts ==
  ASSUME TypeOK, NEW b \in Blocks, BlockReceived(b)
  PROVE  /\ head' \in Paths /\ Len(head) <= Len(head') /\ IsPrefix(head, head')
         /\ \A c \in Paths : IsPrefix(c, head) => IsPrefix(c, head')
         /\ \/ head' = head
            \/ head' = b /\ Previous(b) = head
<1>1. head \in Paths /\ b \in Paths /\ (head' = head \/ (head' = b /\ Previous(b) = head))
  BY DEF TypeOK, BlockReceived, Paths
<1>2. head \in Seq(Steps) /\ b \in Seq(Steps) /\ head' \in Seq(Steps) /\ Paths \subseteq Seq(Steps)
  BY <1>1, PathFacts
<1>3. IsPrefix(head, head')
  BY <1>1, <1>2, PrefixOrder, PreviousFacts
<1> QED BY <1>1, <1>2, <1>3, PrefixOrder

\* Handling a block of the sync keeps the invariant: the tip stays the same, and
\* what net::node asked about is still known.
LEMMA HandleSyncBlockStep ==
  ASSUME Inv, HandleSyncBlock
  PROVE  Inv'
<1> DEFINE b == toGet[1]
<1>1. /\ TypeOK /\ SessionInv /\ RequestInv /\ ReplyInv /\ AsksFromTip
      /\ toGet # <<>> /\ toGet \in Seq(Blocks)
      /\ toGet' = Tail(toGet) /\ seen' = b /\ syncing' = (syncing /\ TRUE)
      /\ undo' = undo /\ mainFiber' = mainFiber /\ peerHead' = peerHead
      /\ peerAside' = peerAside /\ more' = more /\ request' = request /\ reply' = reply
      /\ inSync' = inSync /\ announcing' = announcing /\ announced' = announced
      /\ BlockReceived(b)
  BY DEF Inv, HandleSyncBlock, handle_block, TypeOK, peer
<1>2. syncing' \in BOOLEAN
  BY <1>1, Zenon
<1>3. b \in Blocks /\ b # Zero /\ b \in Paths /\ Len(toGet) \in Nat \ {0}
  <2>1. Len(toGet) \in Nat \ {0} /\ b \in Blocks
    BY <1>1
  <2> QED BY <2>1, BlocksAssumption DEF Paths
<1>4. /\ toGet' \in Seq(Blocks) /\ Len(toGet') = Len(toGet) - 1
      /\ \A i \in 1..Len(toGet') : toGet'[i] = toGet[i + 1]
  BY <1>1, <1>3
<1> HIDE DEF b
<1>5. /\ head' \in Paths /\ Len(head) <= Len(head') /\ IsPrefix(head, head')
      /\ \A c \in Paths : IsPrefix(c, head) => IsPrefix(c, head')
      /\ \/ head' = head
         \/ head' = b /\ Previous(b) = head
  BY <1>1, <1>3, ReceivedFacts
<1>6. head \in Paths /\ seen \in Paths /\ Len(head) \in Nat /\ Len(head') \in Nat
  BY <1>1, <1>5, PathFacts DEF TypeOK, Paths
<1>7. TypeOK'
  <2>1. undo \in 0..Len(head')
    BY <1>1, <1>5, <1>6 DEF TypeOK
  <2> QED BY <1>1, <1>2, <1>3, <1>4, <1>5, <2>1 DEF TypeOK, Paths
<1>8. SessionInv'
  <2>1. ASSUME NEW i \in 2..Len(toGet')
        PROVE  Previous(toGet'[i]) = toGet'[i - 1]
    <3>1. i \in 1..Len(toGet') /\ i - 1 \in 1..Len(toGet') /\ i + 1 \in 2..Len(toGet)
          /\ (i - 1) + 1 = (i + 1) - 1
      BY <1>3, <1>4
    <3> QED BY <1>1, <1>4, <3>1 DEF SessionInv, Linked
  <2>2. toGet' # <<>> => Previous(toGet'[1]) = b
    <3>1. toGet' # <<>> => 1 \in 1..Len(toGet') /\ 1 + 1 = 2 /\ 2 \in 2..Len(toGet) /\ 2 - 1 = 1
      BY <1>3, <1>4
    <3> QED BY <1>1, <1>4, <3>1 DEF SessionInv, Linked, b
  <2> QED BY <1>1, <1>3, <2>1, <2>2 DEF SessionInv, Linked
<1>9. ReplyInv'
  BY <1>1 DEF ReplyInv, Linked
<1>10. AsksFromTip'
  <2>1. Tip' = Tip
    <3>1. CASE toGet' # <<>>
      <4>1. Len(toGet') \in 1..Len(toGet') /\ Len(toGet') + 1 = Len(toGet)
        BY <1>4, <3>1
      <4>2. Last(toGet') = Last(toGet)
        BY <1>4, <4>1 DEF Last
      <4> QED BY <1>1, <3>1, <4>2 DEF Tip
    <3>2. CASE toGet' = <<>>
      <4>1. Len(toGet) = 1
        BY <1>3, <1>4, <3>2
      <4>2. Last(toGet) = b
        BY <4>1 DEF Last, b
      <4> QED BY <1>1, <1>3, <3>2, <4>2 DEF Tip
    <3> QED BY <3>1, <3>2
  <2> QED BY <1>1, <2>1 DEF AsksFromTip
<1>11. ASSUME request # None
       PROVE  RequestInv'
  <2>1. Previous(b) = seen /\ request \in Seq(Blocks)
    BY <1>1, <1>11 DEF SessionInv, b, TypeOK
  <2>2. /\ request # <<>>
        /\ \A i \in DOMAIN request : IsKnown(request[i])
        /\ \A i, j \in DOMAIN request : i < j => Len(request[i]) < Len(request[j])
        /\ Len(request[1]) <= undo \/ Len(request[1]) = 1
        /\ \/ IsPrefix(request[1], head)
           \/ head = Zero /\ (Away \/ request[1] = b)
    BY <1>1, <1>11 DEF RequestInv, b
  <2>3. Away' <=> ~ IsPrefix(b, head')
    BY <1>1, <1>3 DEF Away
  <2>4. Away => Away' /\ head' = head
    <3>1. ASSUME Away, IsPrefix(b, head)
          PROVE  FALSE
      <4>1. IsPrefix(seen, b)
        BY <1>3, <2>1, PreviousFacts
      <4>2. IsPrefix(seen, head)
        BY <1>3, <1>6, <3>1, <4>1, PathFacts, PrefixOrder
      <4> QED BY <3>1, <4>2 DEF Away
    <3>2. Away => seen # head
      BY <1>6, PathFacts, PrefixOrder DEF Away
    <3> QED BY <1>5, <2>1, <2>3, <3>1, <3>2
  <2>5. ASSUME NEW id \in Blocks, IsKnown(id)
        PROVE  IsPrefix(id, head') \/ id \in ToSet(toGet') \/ Away'
    <3>1. CASE IsPrefix(id, head)
      BY <1>5, <3>1 DEF Paths
    <3>2. CASE Away
      BY <2>4, <3>2
    <3>3. CASE id \in ToSet(toGet)
      <4>1. PICK i \in DOMAIN toGet : toGet[i] = id
        BY <3>3 DEF ToSet
      <4>2. CASE i = 1
        BY <2>3, <4>1, <4>2 DEF b
      <4>3. CASE i # 1
        <5>1. i - 1 \in 1..Len(toGet') /\ (i - 1) + 1 = i /\ i - 1 \in DOMAIN toGet'
          BY <1>1, <1>3, <1>4, <4>1, <4>3
        <5>2. toGet'[i - 1] = id
          BY <1>4, <4>1, <5>1
        <5> QED BY <5>1, <5>2 DEF ToSet
      <4> QED BY <4>2, <4>3
    <3> QED BY <2>5, <3>1, <3>2, <3>3 DEF IsKnown
  <2>6. (\A i \in DOMAIN request : IsKnown(request[i]))'
    <3>1. \A i \in DOMAIN request : request[i] \in Blocks
      BY <2>1
    <3> QED BY <1>1, <2>2, <2>5, <3>1 DEF IsKnown
  <2>7. \/ IsPrefix(request[1], head')
        \/ head' = Zero /\ Away'
    <3>1. CASE IsPrefix(request[1], head)
      <4>1. request[1] \in Paths
        BY <2>1, <2>2 DEF Paths
      <4> QED BY <1>5, <3>1, <4>1
    <3>2. CASE head = Zero /\ Away
      BY <2>4, <3>2
    <3>3. CASE head = Zero /\ request[1] = b
      <4>1. CASE IsPrefix(b, head')
        BY <3>3, <4>1
      <4>2. CASE ~ IsPrefix(b, head')
        <5>1. head' # b
          BY <1>3, <4>2, PathFacts, PrefixOrder
        <5> QED BY <1>5, <2>3, <3>3, <4>2, <5>1
      <4> QED BY <4>1, <4>2
    <3> QED BY <2>2, <3>1, <3>2, <3>3
  <2> QED BY <1>1, <2>2, <2>6, <2>7 DEF RequestInv
<1>12. RequestInv'
  BY <1>1, <1>11 DEF RequestInv
<1> QED BY <1>7, <1>8, <1>9, <1>10, <1>12 DEF Inv

\* Handling an announced block keeps the invariant: nothing is asked then.
LEMMA HandleAnnouncedStep ==
  ASSUME Inv, NEW b \in Blocks, HandleAnnounced(b)
  PROVE  Inv'
<1>1. /\ TypeOK /\ SessionInv /\ inSync /\ toGet = <<>> /\ request = None /\ reply = None
      /\ BlockReceived(b) /\ seen' = b /\ syncing' = (syncing /\ FALSE)
      /\ undo' = undo /\ mainFiber' = mainFiber /\ peerHead' = peerHead
      /\ peerAside' = peerAside /\ more' = more /\ request' = request /\ reply' = reply
      /\ inSync' = inSync /\ announcing' = announcing /\ toGet' = toGet
      /\ announced' = announced \ {b}
  BY DEF Inv, HandleAnnounced, handle_block, SessionInv, peer
<1>2. syncing' = FALSE
  BY <1>1
<1>3. head' \in Paths /\ Len(head) <= Len(head')
  BY <1>1, ReceivedFacts
<1>4. undo \in 0..Len(head')
  <2>1. head \in Paths /\ Len(head) \in Nat /\ Len(head') \in Nat /\ undo \in 0..Len(head)
    BY <1>1, <1>3, PathFacts DEF TypeOK, Paths
  <2> QED BY <1>3, <2>1
<1>5. TypeOK'
  BY <1>1, <1>2, <1>3, <1>4 DEF TypeOK, Paths
<1>6. SessionInv'
  BY <1>1 DEF SessionInv, Linked
<1>7. RequestInv' /\ ReplyInv' /\ AsksFromTip'
  BY <1>1 DEF RequestInv, ReplyInv, AsksFromTip
<1> QED BY <1>5, <1>6, <1>7 DEF Inv

-----------------------------------------------------------------------------
(* Everything else *)

\* What the peer does on its own keeps the invariant.
LEMMA PeerStep ==
  ASSUME Inv, NEW b \in Blocks, PeerPushes(b) \/ PeerSwitches(b)
  PROVE  Inv'
<1>1. /\ TypeOK /\ SessionInv /\ RequestInv /\ ReplyInv /\ AsksFromTip
      /\ head' = head /\ undo' = undo /\ syncing' = syncing /\ mainFiber' = mainFiber
      /\ peerHead' = b /\ seen' = seen /\ toGet' = toGet
      /\ more' = more /\ request' = request /\ reply' = reply /\ inSync' = inSync
      /\ announcing' = announcing
  BY DEF Inv, PeerPushes, PeerSwitches, ours
<1>2. b \in Paths /\ peerHead \in Paths /\ peerAside \in Paths
      /\ Len(b) \in Nat /\ Len(peerHead) \in Nat /\ Len(peerAside) \in Nat
  BY <1>1, PathFacts DEF TypeOK, Paths
<1>3. peerAside' \in Paths /\ Len(peerAside') <= Len(b)
  <2>1. CASE PeerPushes(b)
    <3>1. peerAside' = peerAside /\ Len(peerHead) = Len(b) - 1
      BY <2>1, PreviousFacts DEF PeerPushes
    <3> QED BY <1>1, <1>2, <3>1 DEF SessionInv
  <2>2. CASE PeerSwitches(b)
    BY <1>2, <2>2 DEF PeerSwitches
  <2> QED BY <2>1, <2>2
<1>4. announced' \subseteq Blocks
  <2>1. Ancestry(b) \subseteq Blocks /\ announced \subseteq Blocks
    BY <1>1, <1>2, AncestryFacts DEF TypeOK
  <2> QED BY <2>1 DEF PeerPushes, PeerSwitches, Announce
<1>5. TypeOK'
  BY <1>1, <1>3, <1>4 DEF TypeOK, Paths
<1>6. SessionInv'
  BY <1>1, <1>3 DEF SessionInv, Linked, Away
<1>7. RequestInv' /\ ReplyInv'
  BY <1>1 DEF RequestInv, ReplyInv, IsKnown, Away, Linked
<1>8. AsksFromTip'
  BY <1>1 DEF AsksFromTip, Tip
<1> QED BY <1>5, <1>6, <1>7, <1>8 DEF Inv

\* The main fiber and the undo history do not touch the session.
LEMMA OurOwnStep ==
  ASSUME Inv, SyncFromReturns \/ AdvanceUndo \/ UNCHANGED vars
  PROVE  Inv'
<1>1. /\ TypeOK /\ SessionInv /\ RequestInv /\ ReplyInv /\ AsksFromTip
      /\ head' = head /\ peerHead' = peerHead /\ peerAside' = peerAside
      /\ seen' = seen /\ toGet' = toGet /\ more' = more /\ request' = request
      /\ reply' = reply /\ inSync' = inSync /\ announcing' = announcing
      /\ announced' = announced
  BY DEF Inv, SyncFromReturns, AdvanceUndo, vars, ours, peer, session
<1>2. syncing' \in BOOLEAN /\ mainFiber' \in {"starting", "stable"}
  BY <1>1 DEF TypeOK, SyncFromReturns, AdvanceUndo, vars, ours
<1>3. undo' \in 0..Len(head) /\ undo <= undo' /\ undo \in Nat
  <2>1. undo \in 0..Len(head) /\ Len(head) \in Nat /\ (undo' = undo \/ (undo < Len(head) /\ undo' = undo + 1))
    BY <1>1, PathFacts DEF TypeOK, SyncFromReturns, AdvanceUndo, vars, ours, Paths
  <2> QED BY <2>1
<1>4. TypeOK'
  BY <1>1, <1>2, <1>3 DEF TypeOK
<1>5. SessionInv' /\ ReplyInv'
  BY <1>1 DEF SessionInv, ReplyInv, Linked, Away
<1>6. RequestInv'
  <2>1. ASSUME request # None, request # <<>>
        PROVE  Len(request[1]) <= undo' \/ Len(request[1]) = 1
    <3>1. request[1] \in Blocks
      BY <1>1, <2>1 DEF TypeOK
    <3>2. Len(request[1]) \in Nat
      BY <3>1, PathFacts
    <3>3. Len(request[1]) <= undo \/ Len(request[1]) = 1
      BY <1>1, <2>1 DEF RequestInv
    <3> QED BY <1>3, <3>2, <3>3
  <2>2. (\A i \in DOMAIN request : IsKnown(request[i])) => (\A i \in DOMAIN request : IsKnown(request[i]))'
    BY <1>1 DEF IsKnown, Away
  <2>3. Away' = Away
    BY <1>1 DEF Away
  <2> QED BY <1>1, <2>1, <2>2, <2>3 DEF RequestInv
<1>7. AsksFromTip'
  BY <1>1 DEF AsksFromTip, Tip
<1> QED BY <1>4, <1>5, <1>6, <1>7 DEF Inv

\* A new connection starts over.
LEMMA ReconnectStep ==
  ASSUME Inv, Reconnect
  PROVE  Inv'
<1>1. /\ TypeOK /\ SessionInv
      /\ head' = head /\ undo' = undo /\ syncing' = syncing /\ mainFiber' = mainFiber
      /\ peerHead' = peerHead /\ peerAside' = peerAside /\ seen' = Zero
      /\ toGet' = <<>> /\ more' = TRUE /\ request' = None /\ reply' = None
      /\ inSync' = FALSE /\ announcing' = FALSE /\ announced' = {}
  BY DEF Inv, Reconnect, NewSession, ours, peer
<1>2. TypeOK'
  <2>1. Zero \in Blocks \cup {Zero} /\ <<>> \in Seq(Blocks) /\ {} \subseteq Blocks
    OBVIOUS
  <2>2. {syncing, TRUE, FALSE} \subseteq BOOLEAN
    BY <1>1 DEF TypeOK
  <2> QED BY <1>1, <2>1, <2>2 DEF TypeOK
<1>3. SessionInv'
  BY <1>1 DEF SessionInv, Linked
<1>4. RequestInv' /\ ReplyInv' /\ AsksFromTip'
  BY <1>1 DEF RequestInv, ReplyInv, AsksFromTip
<1> QED BY <1>2, <1>3, <1>4 DEF Inv

\* At first nothing has been said.
LEMMA InitInv ==
  ASSUME Init
  PROVE  Inv
<1>1. TypeOK
  <2>1. Zero \in Blocks \cup {Zero} /\ <<>> \in Seq(Blocks) /\ {} \subseteq Blocks
        /\ {TRUE, FALSE} \subseteq BOOLEAN
    OBVIOUS
  <2> QED BY <2>1 DEF Init, TypeOK
<1>2. SessionInv
  <2>1. peerHead \in Paths /\ Len(peerHead) \in Nat /\ Len(peerAside) = 0
    BY PathFacts DEF Init, Paths
  <2> QED BY <2>1 DEF Init, SessionInv, Linked
<1>3. RequestInv /\ ReplyInv /\ AsksFromTip
  BY DEF Init, RequestInv, ReplyInv, AsksFromTip
<1> QED BY <1>1, <1>2, <1>3 DEF Inv

LEMMA NextInv ==
  ASSUME Inv, [Next]_vars
  PROVE  Inv'
  BY AskStep, AnswerStep, HandleReplyStep, HandleSyncBlockStep, HandleAnnouncedStep,
     PeerStep, OurOwnStep, ReconnectStep DEF Next

LEMMA Invariance == Spec => []Inv
  BY InitInv, NextInv, PTL DEF Spec

-----------------------------------------------------------------------------
(* What follows from the invariant *)

\* Chains, sessions and messages are what they should be.
THEOREM TypeCorrect == Spec => []TypeOK
<1>1. Inv => TypeOK
  BY DEF Inv
<1> QED BY <1>1, Invariance, PTL

\* Whatever forks there are, whichever blocks push_block refuses and however
\* often the connection is made again, the synopsis that the delegate and
\* net::node make together halves the distance to the last block known and
\* ends in it.
THEOREM RequestsEndInTheTip == Spec => []AsksFromTip
<1>1. Inv => AsksFromTip
  BY DEF Inv
<1> QED BY <1>1, Invariance, PTL

\* Whatever forks there are, whichever blocks push_block refuses, and although
\* answers are handled after blocks that were asked for before, a sync has no
\* gap but behind a block that handle_block was given and the slot dropped.
THEOREM SyncsLeaveNoGap == Spec => []SyncLeavesNoGap
<1>1. Inv => SyncLeavesNoGap
  <2> SUFFICES ASSUME Inv
               PROVE  SyncLeavesNoGap
    OBVIOUS
  <2>1. toGet \in Seq(Blocks) /\ Linked(toGet)
    BY DEF Inv, TypeOK, SessionInv
  <2>2. ASSUME toGet # <<>>, IsPrefix(seen, head)
        PROVE  Previous(Head(toGet)) = seen
    <3>1. Head(toGet) = toGet[1]
      BY <2>1, <2>2
    <3>2. ~ Away
      BY <2>2 DEF Away
    <3> QED BY <2>2, <3>1, <3>2 DEF Inv, SessionInv
  <2> QED BY <2>1, <2>2 DEF SyncLeavesNoGap, Linked
<1> QED BY <1>1, Invariance, PTL

\* Only the peer writes an answer.
LEMMA OnlyTheAnswerReplies ==
  ASSUME [Next]_vars, reply' # reply, reply' # None
  PROVE  Answer
  BY DEF Next, vars, ours, peer, session, PeerPushes, PeerSwitches, Ask,
         HandleReply, HandleSyncBlock, HandleAnnounced, SyncFromReturns, AdvanceUndo,
         Reconnect, NewSession

\* An answer goes on from the last block of the request that the peer's chain
\* has, although our chain has moved since the request was made.
THEOREM AnswersContinue == Spec => RepliesContinue
<1> DEFINE Continuing ==
             reply' \notin {None, Threw} /\ reply'.ids # <<>> /\ request # <<>> =>
               /\ Head(reply'.ids) \in ToSet(request)
               /\ \A id \in ToSet(request) :
                     IsPrefix(id, peerHead) => Len(id) <= Len(Head(reply'.ids))
<1>1. ASSUME Inv, [Next]_vars
      PROVE  [Continuing]_reply
  <2> SUFFICES ASSUME reply' # reply, reply' \notin {None, Threw}, reply'.ids # <<>>,
                      request # <<>>
               PROVE  /\ Head(reply'.ids) \in ToSet(request)
                      /\ \A id \in ToSet(request) :
                            IsPrefix(id, peerHead) => Len(id) <= Len(Head(reply'.ids))
    OBVIOUS
  <2>1. Answer /\ TypeOK /\ SessionInv /\ RequestInv
    BY <1>1, OnlyTheAnswerReplies DEF Inv
  <2>2. request \in Seq(Blocks) /\ request # None
    BY <2>1, AnswerFacts DEF Answer
  <2>3. PICK i \in DOMAIN request :
           /\ IsPrefix(request[i], peerHead) /\ Len(request[i]) \in 1..Len(peerHead)
           /\ \A j \in DOMAIN request : IsPrefix(request[j], peerHead) => j <= i
           /\ reply' = Batch(peerHead, Len(request[i]), Limit)
    <3>1. reply' # [ids |-> <<>>, remaining |-> 0]
      OBVIOUS
    <3> QED BY <2>1, <3>1, AnswerFacts
  <2>4. request[i] \in Paths /\ request[i] \in ToSet(request)
    BY <2>2 DEF Paths, ToSet
  <2>5. reply'.ids[1] = request[i] /\ reply'.ids \in Seq(Blocks)
    BY <2>1, <2>3, <2>4, BatchAsReply
  <2>6. Head(reply'.ids) = request[i]
    BY <2>5
  <2>7. ASSUME NEW j \in DOMAIN request, IsPrefix(request[j], peerHead)
        PROVE  Len(request[j]) <= Len(request[i])
    <3>1. j <= i /\ i \in 1..Len(request) /\ j \in 1..Len(request) /\ Len(request) \in Nat
      BY <2>2, <2>3, <2>7
    <3>2. request[i] \in Blocks /\ request[j] \in Blocks
      BY <2>2
    <3>3. Len(request[i]) \in Nat /\ Len(request[j]) \in Nat
      BY <3>2, PathFacts
    <3>4. j < i => Len(request[j]) < Len(request[i])
      BY <2>1, <2>2 DEF RequestInv
    <3>5. j < i \/ j = i
      BY <3>1
    <3> QED BY <3>3, <3>4, <3>5
  <2>8. \A id \in ToSet(request) : IsPrefix(id, peerHead) => Len(id) <= Len(request[i])
    BY <2>7 DEF ToSet
  <2> QED BY <2>4, <2>6, <2>8
<1> QED BY <1>1, Invariance, PTL DEF Spec, RepliesContinue

\* A peer that has the last block we cannot undo never refuses us: the synopsis
\* begins no later than that block, whatever has been pushed since.
THEOREM RefusalsAreBeyondUndo == Spec => RefusedOnlyBeyondUndo
<1> DEFINE Refusing == reply' = Threw /\ head # Zero =>
                         ~ IsPrefix(SubSeq(head, 1, IF undo = 0 THEN 1 ELSE undo), peerHead)
<1>1. ASSUME Inv, [Next]_vars
      PROVE  [Refusing]_reply
  <2> SUFFICES ASSUME reply' # reply, reply' = Threw, head # Zero,
                      IsPrefix(SubSeq(head, 1, IF undo = 0 THEN 1 ELSE undo), peerHead)
               PROVE  FALSE
    OBVIOUS
  <2>1. Answer /\ TypeOK /\ SessionInv /\ RequestInv
    BY <1>1, SyncAssumption, OnlyTheAnswerReplies DEF Inv
  <2>2. request \in Seq(Blocks) /\ request # None
    BY <2>1, AnswerFacts DEF Answer
  <2>3. /\ head \in Paths /\ peerHead \in Paths /\ Len(head) \in Nat \ {0} /\ undo \in 0..Len(head)
        /\ Paths \subseteq Seq(Steps) /\ Len(peerHead) \in Nat
    BY <2>1, PathFacts DEF TypeOK, Paths
  <2>4. PICK u \in 1..Len(head) : u = IF undo = 0 THEN 1 ELSE undo
    BY <2>3
  <2>5. \A i \in DOMAIN request : ~ IsPrefix(request[i], peerHead)
    <3>1. reply' \notin [ids : Seq(Blocks), remaining : Nat]
      BY ThrewAssumption
    <3>2. [ids |-> <<>>, remaining |-> 0] \in [ids : Seq(Blocks), remaining : Nat]
      OBVIOUS
    <3>3. \A n \in 1..Len(peerHead) : reply' # Batch(peerHead, n, Limit)
      BY <2>1, <3>1, BatchAsReply
    <3>4. peerHead # Zero => 1 \in 1..Len(peerHead)
      BY <2>3, PathFacts
    <3> QED BY <2>1, <3>1, <3>2, <3>3, <3>4, AnswerFacts
  <2>6. request # <<>> /\ IsPrefix(request[1], head)
        /\ (Len(request[1]) <= undo \/ Len(request[1]) = 1)
    BY <2>1, <2>2 DEF RequestInv
  <2>7. 1 \in DOMAIN request /\ request[1] \in Blocks
    BY <2>2, <2>6
  <2>8. request[1] \in Paths /\ Len(request[1]) \in Nat
    BY <2>7, PathFacts
  <2>9. Len(request[1]) <= u
    <3>1. \A n, v, w \in Nat : (n <= v \/ n = 1) /\ w = (IF v = 0 THEN 1 ELSE v) => n <= w
      OBVIOUS
    <3>2. undo \in Nat /\ u \in Nat
      BY <2>3
    <3> QED BY <2>4, <2>6, <2>8, <3>1, <3>2
  <2>10. PICK p \in Seq(Steps) : p = SubSeq(head, 1, u) /\ Len(p) = u /\ IsPrefix(p, head)
    <3>1. u \in 0..Len(head) /\ head \in Seq(Steps)
      BY <2>3
    <3> QED BY <3>1, InitialFacts
  <2>11. IsPrefix(p, peerHead)
    BY <2>4, <2>10
  <2>12. PICK r \in Seq(Steps) : r = request[1]
    BY <2>3, <2>8
  <2>13. IsPrefix(r, head) /\ Len(r) <= Len(p) /\ head \in Seq(Steps) /\ peerHead \in Seq(Steps)
    BY <2>3, <2>6, <2>9, <2>10, <2>12
  <2>14. IsPrefix(r, p)
    <3>1. \A a, b, c \in Seq(Steps) :
            IsPrefix(a, c) /\ IsPrefix(b, c) /\ Len(a) <= Len(b) => IsPrefix(a, b)
      BY PrefixOrder
    <3> QED BY <2>10, <2>12, <2>13, <3>1, Zenon
  <2>15. IsPrefix(r, peerHead)
    BY <2>11, <2>13, <2>14, PrefixOrder
  <2> QED BY <2>5, <2>7, <2>12, <2>15
<1> QED BY <1>1, Invariance, PTL DEF Spec, RefusedOnlyBeyondUndo

-----------------------------------------------------------------------------
(* Following a peer on our chain *)

\* The peer is ahead of us on the same chain, and everything it named is on it;
\* while ids are fetched the last block handled is our head, and an answer
\* begins in the last block of the request.
FollowInv ==
    /\ IsPrefix(head, peerHead)
    /\ \A b \in announced \cup ToSet(toGet) : IsPrefix(b, peerHead)
    /\ ~ inSync => seen \in {Zero, head}
    /\ toGet # <<>> => seen = head
    /\ reply \notin {None, Threw} =>
          /\ \A i \in DOMAIN reply.ids : IsPrefix(reply.ids[i], peerHead)
          /\ reply.ids # <<>> /\ request # <<>> => reply.ids[1] = Last(request)

\* The block to fetch next is then the next one of our chain.
LEMMA NextBlockLinks ==
  ASSUME Inv, FollowInv
  PROVE  SyncBlocksLink
<1>1. head \in Paths /\ head \in Seq(Steps)
  BY PathFacts DEF Inv, TypeOK, Paths
<1>2. seen = head => ~ Away
  BY <1>1, PrefixOrder DEF Away
<1>3. toGet # <<>> => Previous(toGet[1]) = head
  BY <1>2 DEF Inv, SessionInv, FollowInv
<1>4. toGet # <<>> => Head(toGet) = toGet[1]
  BY DEF Inv, TypeOK
<1> QED BY <1>3, <1>4 DEF Inv, SessionInv, Linked, SyncBlocksLink

\* What is on the peer's chain stays on it when that grows.
LEMMA FollowPeerPushes ==
  ASSUME Inv, FollowInv, NEW b \in Blocks, PeerPushes(b)
  PROVE  FollowInv'
<1>1. /\ TypeOK /\ Previous(b) = peerHead /\ peerHead' = b
      /\ head' = head /\ seen' = seen /\ toGet' = toGet /\ request' = request
      /\ reply' = reply /\ inSync' = inSync
      /\ announced' \subseteq announced \cup {b}
  BY DEF Inv, PeerPushes, Announce, ours
<1>2. peerHead \in Paths /\ b \in Paths /\ head \in Paths /\ Paths \subseteq Seq(Steps)
  BY <1>1, PathFacts DEF TypeOK, Paths
<1>3. IsPrefix(peerHead, b) /\ IsPrefix(b, b)
  BY <1>1, <1>2, PreviousFacts, PrefixOrder
<1>4. \A c \in Paths : IsPrefix(c, peerHead) => IsPrefix(c, b)
  BY <1>2, <1>3, PrefixOrder
<1>5. announced \cup ToSet(toGet) \subseteq Paths
  BY <1>1 DEF TypeOK, ToSet, Paths
<1>6. reply \notin {None, Threw} => \A i \in DOMAIN reply.ids : reply.ids[i] \in Paths
  BY <1>1 DEF TypeOK, Paths
<1>7. \A c \in announced' \cup ToSet(toGet) : IsPrefix(c, b)
  BY <1>1, <1>3, <1>4, <1>5 DEF FollowInv
<1>8. IsPrefix(head, b)
  BY <1>2, <1>4 DEF FollowInv
<1>9. reply \notin {None, Threw} =>
          /\ \A i \in DOMAIN reply.ids : IsPrefix(reply.ids[i], b)
          /\ reply.ids # <<>> /\ request # <<>> => reply.ids[1] = Last(request)
  BY <1>4, <1>6 DEF FollowInv
<1>10. (~ inSync => seen \in {Zero, head}) /\ (toGet # <<>> => seen = head)
  BY DEF FollowInv
<1> QED BY <1>1, <1>7, <1>8, <1>9, <1>10 DEF FollowInv

\* Everything in the request is on the peer's chain, so the answer begins in its
\* last block.
LEMMA FollowAnswer ==
  ASSUME Inv, FollowInv, Answer
  PROVE  FollowInv'
<1>1. /\ TypeOK /\ SessionInv /\ RequestInv /\ request # None
      /\ head' = head /\ peerHead' = peerHead /\ seen' = seen /\ toGet' = toGet
      /\ request' = request /\ inSync' = inSync /\ announced' = announced
  BY DEF Inv, Answer, ours, peer
<1>2. /\ head \in Paths /\ peerHead \in Paths /\ Paths \subseteq Seq(Steps)
      /\ request \in Seq(Blocks) /\ Len(peerHead) \in Nat
  BY <1>1, PathFacts DEF TypeOK, Paths
<1>3. ASSUME NEW i \in DOMAIN request
      PROVE  IsPrefix(request[i], peerHead)
  <2>1. ~ Away
    <3>1. seen \in {Zero, head}
      BY <1>1 DEF FollowInv, SessionInv
    <3> QED BY <1>2, <3>1, PrefixOrder DEF Away
  <2>2. IsPrefix(request[i], head) \/ request[i] \in ToSet(toGet)
    BY <1>1, <2>1 DEF RequestInv, IsKnown
  <2>3. request[i] \in Seq(Steps) /\ head \in Seq(Steps) /\ peerHead \in Seq(Steps)
    BY <1>2 DEF Paths
  <2>4. IsPrefix(request[i], head) => IsPrefix(request[i], peerHead)
    BY <2>3, PrefixOrder DEF FollowInv
  <2> QED BY <2>2, <2>4 DEF FollowInv
<1>4. ASSUME reply' \notin {None, Threw} =>
                /\ \A i \in DOMAIN reply'.ids : IsPrefix(reply'.ids[i], peerHead)
                /\ reply'.ids # <<>> /\ request # <<>> => reply'.ids[1] = Last(request)
      PROVE  FollowInv'
  BY <1>1, <1>4 DEF FollowInv
<1>5. CASE reply' = [ids |-> <<>>, remaining |-> 0]
  <2>1. reply'.ids = <<>>
    BY <1>5
  <2> QED BY <1>4, <2>1
<1>6. CASE reply' = Threw
  BY <1>4, <1>6
<1>7. CASE peerHead # Zero /\ request = <<>> /\ reply' = Batch(peerHead, 1, Limit)
  <2>1. 1 \in 1..Len(peerHead)
    BY <1>2, <1>7, PathFacts
  <2> QED BY <1>1, <1>4, <1>7, <2>1, BatchAsReply
<1>8. ASSUME NEW i \in DOMAIN request, Len(request[i]) \in 1..Len(peerHead),
             \A j \in DOMAIN request : IsPrefix(request[j], peerHead) => j <= i,
             reply' = Batch(peerHead, Len(request[i]), Limit)
      PROVE  FollowInv'
  <2>1. Len(request) \in DOMAIN request /\ i <= Len(request) /\ i \in Nat /\ Len(request) \in Nat
    BY <1>2
  <2>2. i = Len(request)
    BY <1>3, <1>8, <2>1
  <2>3. request[i] \in Paths /\ request[i] = Last(request)
    BY <1>2, <2>2 DEF Paths, Last
  <2>4. IsPrefix(request[i], peerHead)
    BY <1>3
  <2>5. /\ \A k \in DOMAIN reply'.ids : IsPrefix(reply'.ids[k], peerHead)
        /\ reply'.ids[1] = request[i]
    BY <1>1, <1>8, <2>3, <2>4, BatchAsReply
  <2> QED BY <1>4, <2>3, <2>5
<1> QED BY <1>1, <1>5, <1>6, <1>7, <1>8, AnswerFacts

\* The answer goes on from the last block to fetch or, when there is none, from
\* our head.
LEMMA FollowHandleReply ==
  ASSUME Inv, FollowInv, HandleReply
  PROVE  FollowInv'
<1> DEFINE ids == reply.ids
<1>1. /\ TypeOK /\ SessionInv /\ RequestInv /\ ReplyInv /\ AsksFromTip
      /\ reply \notin {None, Threw} /\ request # None /\ ~ inSync
      /\ head' = head /\ peerHead' = peerHead /\ announced' = announced
      /\ request' = None /\ reply' = None
  BY DEF Inv, HandleReply, ours, peer, SessionInv
<1>2. /\ ids \in Seq(Blocks) /\ Linked(ids)
      /\ toGet' \in Seq(Blocks)
      /\ \A i \in DOMAIN toGet' : toGet'[i] \in ToSet(toGet) \cup ToSet(ids)
      /\ \/ ids = <<>> /\ toGet' = toGet /\ seen' = seen
         \/ ids # <<>> /\ toGet # <<>> /\ seen' = seen
         \/ /\ ids # <<>> /\ ids[1] \notin ToSet(toGet)
            /\ ~ IsPrefix(ids[1], head) /\ seen' = seen
         \/ \E n \in 1..Len(ids) :
               /\ ids[1] \notin ToSet(toGet)
               /\ \A i \in 1..n : IsPrefix(ids[i], head)
               /\ seen' = ids[n]
  BY ReplyFacts
<1> HIDE DEF ids
<1>3. head \in Paths /\ Len(head) \in Nat /\ Paths \subseteq Seq(Steps) /\ IsPrefix(head, head)
  <2>1. head \in Paths /\ Len(head) \in Nat /\ Paths \subseteq Seq(Steps)
    BY <1>1, PathFacts DEF TypeOK, Paths
  <2> QED BY <2>1, PrefixOrder
<1>4. seen \in {Zero, head} /\ (toGet # <<>> => seen = head)
  BY <1>1 DEF FollowInv
<1>5. \A c \in announced' \cup ToSet(toGet') : IsPrefix(c, peerHead)
  <2>1. \A c \in ToSet(ids) : IsPrefix(c, peerHead)
    BY <1>1 DEF FollowInv, ToSet, ids
  <2>2. ToSet(toGet') \subseteq ToSet(toGet) \cup ToSet(ids)
    BY <1>2 DEF ToSet
  <2> QED BY <1>1, <2>1, <2>2 DEF FollowInv
<1>6. ASSUME seen' \in {Zero, head}, toGet' # <<>> => seen' = head
      PROVE  FollowInv'
  BY <1>1, <1>5, <1>6 DEF FollowInv
<1>7. ASSUME ids # <<>>, ids[1] \notin ToSet(toGet)
      PROVE  IF request = <<>> THEN head = Zero ELSE ids[1] = head
  <2>1. CASE request = <<>>
    BY <1>1, <2>1 DEF RequestInv
  <2>2. CASE request # <<>>
    <3>1. ids[1] = Tip
      BY <1>1, <1>7, <2>2 DEF FollowInv, AsksFromTip, ids
    <3>2. toGet # <<>> => Last(toGet) \in ToSet(toGet)
      <4>1. toGet # <<>> => Len(toGet) \in DOMAIN toGet
        BY <1>1 DEF TypeOK
      <4> QED BY <4>1 DEF Last, ToSet
    <3>3. toGet = <<>>
      BY <1>7, <3>1, <3>2 DEF Tip
    <3> QED BY <1>4, <2>2, <3>1, <3>3 DEF Tip
  <2> QED BY <2>1, <2>2
<1>8. CASE ids = <<>> /\ toGet' = toGet /\ seen' = seen
  BY <1>4, <1>6, <1>8
<1>9. CASE ids # <<>> /\ toGet # <<>> /\ seen' = seen
  BY <1>4, <1>6, <1>9
<1>10. CASE /\ ids # <<>> /\ ids[1] \notin ToSet(toGet)
            /\ ~ IsPrefix(ids[1], head) /\ seen' = seen
  <2>1. head = Zero
    BY <1>3, <1>7, <1>10
  <2> QED BY <1>4, <1>6, <1>10, <2>1
<1>11. ASSUME NEW n \in 1..Len(ids), ids[1] \notin ToSet(toGet),
              \A i \in 1..n : IsPrefix(ids[i], head), seen' = ids[n]
       PROVE  FollowInv'
  <2>1. ids # <<>> /\ 1 \in DOMAIN ids /\ n \in DOMAIN ids /\ 1 \in 1..n /\ n \in 1..n
    BY <1>2
  <2>2. /\ ids[1] \in Seq(Steps) /\ ids[n] \in Seq(Steps) /\ head \in Seq(Steps)
        /\ Len(ids[1]) \in Nat \ {0} /\ Len(ids[n]) \in Nat
    <3>1. ids[1] \in Blocks /\ ids[n] \in Blocks
      BY <1>2, <2>1
    <3> QED BY <1>3, <3>1, PathFacts
  <2>3. IsPrefix(ids[1], head) /\ IsPrefix(ids[n], head)
    BY <1>11, <2>1
  <2>4. Len(ids[1]) <= Len(head) /\ Len(ids[n]) <= Len(head)
    BY <2>2, <2>3, PrefixOrder
  <2>5. ids[1] = head
    <3>1. head # Zero
      BY <1>3, <2>2, <2>4, PathFacts
    <3> QED BY <1>7, <1>11, <2>1, <3>1
  <2>6. Len(ids[n]) = Len(ids[1]) + n - 1
    BY <1>2, <2>1, LinkedLengths
  <2>7. n = 1
    <3>1. n \in Nat \ {0} /\ Len(ids[n]) = Len(head) + n - 1
      BY <1>2, <2>5, <2>6
    <3> QED BY <1>3, <2>4, <3>1
  <2> QED BY <1>6, <1>11, <2>5, <2>7
<1> QED BY <1>2, <1>8, <1>9, <1>10, <1>11

\* Blocks that are handled are blocks of the peer's chain, and those of a sync
\* are pushed.
LEMMA FollowBlocks ==
  ASSUME Inv, FollowInv, PushMayFail = FALSE,
         HandleSyncBlock \/ \E b \in Blocks : HandleAnnounced(b)
  PROVE  FollowInv'
<1>1. CASE HandleSyncBlock
  <2> DEFINE b == toGet[1]
  <2>1. /\ toGet \in Seq(Blocks) /\ toGet # <<>> /\ Previous(b) = head
    <3>1. toGet \in Seq(Blocks) /\ toGet # <<>> /\ Previous(Head(toGet)) = head
      BY <1>1, NextBlockLinks DEF Inv, TypeOK, HandleSyncBlock, SyncBlocksLink
    <3> QED BY <3>1
  <2>2. /\ head' = b /\ seen' = b /\ toGet' = Tail(toGet) /\ peerHead' = peerHead
        /\ request' = request /\ reply' = reply /\ inSync' = inSync /\ announced' = announced
    BY <1>1, <2>1 DEF HandleSyncBlock, handle_block, BlockReceived, peer
  <2>3. b \in ToSet(toGet) /\ ToSet(toGet') \subseteq ToSet(toGet)
    <3>1. \A i \in DOMAIN toGet' : i + 1 \in DOMAIN toGet /\ toGet'[i] = toGet[i + 1]
      BY <2>1, <2>2
    <3>2. 1 \in DOMAIN toGet
      BY <2>1
    <3> QED BY <3>1, <3>2 DEF ToSet
  <2> HIDE DEF b
  <2> QED BY <2>2, <2>3 DEF FollowInv
<1>2. ASSUME NEW b \in Blocks, HandleAnnounced(b)
      PROVE  FollowInv'
  <2>1. /\ inSync' = TRUE /\ toGet' = <<>> /\ reply' = None /\ b \in announced
        /\ announced' \subseteq announced /\ peerHead' = peerHead
        /\ head' = head \/ head' = b
    BY <1>2 DEF Inv, SessionInv, TypeOK, HandleAnnounced, handle_block, BlockReceived, peer
  <2>2. ToSet(<<>>) = {}
    BY DEF ToSet
  <2> QED BY <2>1, <2>2 DEF FollowInv
<1> QED BY <1>1, <1>2

\* The other steps leave all of it alone.
LEMMA FollowOther ==
  ASSUME Inv, FollowInv,
         Ask \/ SyncFromReturns \/ AdvanceUndo \/ Reconnect \/ UNCHANGED vars
  PROVE  FollowInv'
<1>1. CASE Reconnect
  <2>1. /\ head' = head /\ peerHead' = peerHead /\ seen' = Zero /\ toGet' = <<>>
        /\ reply' = None /\ announced' = {}
    BY <1>1 DEF Reconnect, NewSession, ours, peer
  <2>2. ToSet(<<>>) = {}
    BY DEF ToSet
  <2> QED BY <2>1, <2>2 DEF FollowInv
<1>2. CASE Ask
  BY <1>2 DEF Ask, FollowInv, ours, peer
<1>3. CASE SyncFromReturns \/ AdvanceUndo \/ UNCHANGED vars
  BY <1>3 DEF SyncFromReturns, AdvanceUndo, FollowInv, vars, ours, peer, session
<1> QED BY <1>1, <1>2, <1>3

\* As long as the peer is on our chain and blocks are valid, every block that a
\* sync brings is the next one when it arrives, however requests, batches,
\* blocks, new blocks of the peer and connections interleave.
THEOREM SyncedBlocksAreNext ==
  ASSUME PeerMayFork = FALSE, PushMayFail = FALSE
  PROVE  Spec => []SyncBlocksLink
<1>1. Init => FollowInv
  <2>1. ToSet(<<>>) = {}
    BY DEF ToSet
  <2> QED BY <2>1 DEF Init, FollowInv
<1>2. Inv /\ FollowInv /\ [Next]_vars => FollowInv'
  <2>1. \A b \in Blocks : ~ PeerSwitches(b)
    BY DEF PeerSwitches
  <2> QED BY <2>1, FollowPeerPushes, FollowAnswer, FollowHandleReply, FollowBlocks,
             FollowOther DEF Next
<1>3. Inv /\ FollowInv => SyncBlocksLink
  BY NextBlockLinks
<1> QED BY <1>1, <1>2, <1>3, Invariance, PTL DEF Spec

================================================================================
