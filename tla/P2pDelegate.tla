------------------------------ MODULE P2pDelegate ------------------------------
(***************************************************************************)
(* What P2pHandler::NodeInterface answers net::node about the blockchain.  *)
(*                                                                         *)
(* A block is named by the path that leads to it from genesis: its number  *)
(* is the length of the path, its predecessor is the path without the last *)
(* step, and Zero, the empty path, is the id block_id_type() of no block.  *)
(* A database, as the delegate reads it, is a record: head, the last block *)
(* of the preferred chain; known, the blocks of that chain and of its fork *)
(* database; undo, last_non_undoable_block_num().                          *)
(***************************************************************************)
EXTENDS Naturals, Sequences, SequencesExt

CONSTANTS
    Blocks,  \* ids of the blocks that exist, with all their predecessors
    Threw    \* what a call returns that throws

Zero == <<>>
num_from_id(id) == Len(id)
Previous(id) == Front(id)

\* What paths are made of.
Steps == UNION {ToSet(b) : b \in Blocks}

ASSUME BlocksAssumption ==
    /\ Blocks \subseteq Seq(Steps)
    /\ \A b \in Blocks : b # Zero /\ Previous(b) \in Blocks \cup {Zero}

\* Neither a block nor an answer.
ASSUME ThrewAssumption ==
    /\ Threw \notin Blocks \cup {Zero}
    /\ Threw \notin Seq(Blocks)
    /\ Threw \notin [ids : Seq(Blocks), remaining : Nat]

Ancestry(id) == {SubSeq(id, 1, n) : n \in 1..Len(id)}

\* The most recent block of both chains.
CommonAncestor(a, b) ==
    CHOOSE c \in Ancestry(a) \cup {Zero} :
        /\ IsPrefix(c, b)
        /\ \A d \in Ancestry(a) : IsPrefix(d, b) => Len(d) <= Len(c)

-----------------------------------------------------------------------------
(* chain::database *)

\* The block of that number in the preferred chain; throws when there is none.
HasNum(db, num) == num \in 1..Len(db.head)
get_block_id_for_num(db, num) == SubSeq(db.head, 1, num)

is_known_block(db, id) == id \in db.known

\* The blocks from after the common ancestor up to the one on a fork; the
\* caller takes off the ancestor and reverses what the database returns.
ForkHistory(db, id) ==
    LET fork == Len(CommonAncestor(id, db.head))
    IN  [i \in 1..(Len(id) - fork) |-> SubSeq(id, 1, fork + i)]

-----------------------------------------------------------------------------
(* Where a block is *)

\* Mutant: numbers are compared, not the blocks.
MutantSameNumber(db, id) == HasNum(db, num_from_id(id))

\* Looks the number up, which throws for one beyond the head.
LookUpThrows(db, id) == ~ HasNum(db, num_from_id(id))
blockIsInOurChain(db, id) == id = get_block_id_for_num(db, num_from_id(id))

\* has_item, asked about a block.
has_item(db, id) == is_known_block(db, id)

\* get_item, asked for a block: the block, or the assertion throws.
get_item(db, id) == IF is_known_block(db, id) THEN id ELSE Threw

-----------------------------------------------------------------------------
(* get_blockchain_synopsis *)

\* What the synopsis up to a reference covers: numbers from low to high, on
\* the preferred chain up to nonFork and in the fork's history after it.
WholeChain(db) ==
    [low |-> db.undo, nonFork |-> Len(db.head), high |-> Len(db.head),
     fork |-> <<>>]

UpToOurBlock(db, id) ==
    [low     |-> IF num_from_id(id) < db.undo THEN num_from_id(id) ELSE db.undo,
     nonFork |-> num_from_id(id),
     high    |-> num_from_id(id),
     fork    |-> <<>>]

UpToForkBlock(db, id) ==
    LET nonFork == Len(CommonAncestor(id, db.head))
    IN  [low |-> db.undo, nonFork |-> nonFork,
         high |-> nonFork + Len(ForkHistory(db, id)),
         fork |-> ForkHistory(db, id)]

\* An unknown number, a fork the database does not know, or one that leaves
\* the chain before the blocks that can be undone (block_older_than_undo_history).
SynopsisThrows(db, reference) ==
    /\ reference # Zero
    /\ \/ LookUpThrows(db, reference)
       \/ /\ ~ blockIsInOurChain(db, reference)
          /\ \/ ~ is_known_block(db, reference)
             \/ UpToForkBlock(db, reference).nonFork < db.undo

Covered(db, reference) ==
    IF reference = Zero THEN WholeChain(db)
    ELSE IF blockIsInOurChain(db, reference) THEN UpToOurBlock(db, reference)
    ELSE UpToForkBlock(db, reference)

\* Mutant: the blocks that net::node will append are not counted.
MutantNothingAfter(low, high, trueHigh) ==
    LET from[n \in low..(trueHigh + 1)] ==
            IF n > high THEN <<>> ELSE <<n>> \o from[n + (high - n + 2) \div 2]
    IN  from[low]

\* Mutant: the stride is rounded up, past the last block.
MutantLongStride(low, high, trueHigh) ==
    LET from[n \in low..(trueHigh + 2)] ==
            IF n > high THEN <<>> ELSE <<n>> \o from[n + (trueHigh - n + 3) \div 2]
    IN  from[low]

\* Mutant: one block after the other.
MutantStrideOne(low, high, trueHigh) == [i \in 1..(high - low + 1) |-> low + i - 1]

\* The numbers a synopsis holds, closer to each other towards trueHigh.
SynopsisNums(low, high, trueHigh) ==
    LET from[n \in low..(trueHigh + 1)] ==
            IF n > high THEN <<>> ELSE <<n>> \o from[n + (trueHigh - n + 2) \div 2]
    IN  from[low]

\* Mutant: the oldest block that can be undone comes first, not its predecessor.
MutantStartsAfterUndo(db, reference, after) ==
    IF SynopsisThrows(db, reference) THEN Threw
    ELSE IF reference = Zero /\ Len(db.head) = 0 THEN <<>>
    ELSE LET c    == Covered(db, reference)
             low  == IF c.low < c.high THEN c.low + 1 ELSE c.high
             nums == SynopsisNums(low, c.high, c.high + after)
         IN  [i \in DOMAIN nums |->
                IF nums[i] <= c.nonFork THEN get_block_id_for_num(db, nums[i])
                ELSE c.fork[nums[i] - c.nonFork]]

get_blockchain_synopsis(db, reference, after) ==
    IF SynopsisThrows(db, reference) THEN Threw
    ELSE IF reference = Zero /\ Len(db.head) = 0 THEN <<>>
    ELSE LET c    == Covered(db, reference)
             low  == IF c.low = 0 THEN 1 ELSE c.low
             nums == SynopsisNums(low, c.high, c.high + after)
         IN  [i \in DOMAIN nums |->
                IF nums[i] <= c.nonFork THEN get_block_id_for_num(db, nums[i])
                ELSE c.fork[nums[i] - c.nonFork]]

-----------------------------------------------------------------------------
(* get_block_ids *)

\* Mutant: the synopsis is searched from its start.
MutantFirstMatch(db, synopsis) ==
    LET matches == {i \in DOMAIN synopsis :
                      is_known_block(db, synopsis[i]) /\ blockIsInOurChain(db, synopsis[i])}
    IN  IF synopsis = <<>> THEN Zero
        ELSE IF matches = {} THEN Threw
        ELSE synopsis[CHOOSE i \in matches : \A j \in matches : i <= j]

\* Mutant: a block of the fork database will do.
MutantAnyKnown(db, synopsis) ==
    LET matches == {i \in DOMAIN synopsis : is_known_block(db, synopsis[i])}
    IN  IF synopsis = <<>> THEN Zero
        ELSE IF matches = {} THEN Threw
        ELSE synopsis[CHOOSE i \in matches : \A j \in matches : j <= i]

\* The last block of the synopsis that is Zero or in the preferred chain; an
\* empty synopsis, or one of Zero alone, comes from a peer without blocks.
LastKnown(db, synopsis) ==
    LET matches == {i \in DOMAIN synopsis :
                      \/ synopsis[i] = Zero
                      \/ /\ is_known_block(db, synopsis[i])
                         /\ blockIsInOurChain(db, synopsis[i])}
    IN  IF synopsis = <<>> THEN Zero
        ELSE IF matches = {} THEN Threw
        ELSE synopsis[CHOOSE i \in matches : \A j \in matches : j <= i]

\* Mutant: the count includes the last block that is named.
MutantCountsLast(db, ids) ==
    IF ids = <<>> THEN 0 ELSE Len(db.head) + 1 - num_from_id(Last(ids))

\* Mutant: the operands are swapped.
MutantCountsBackwards(db, ids) ==
    IF ids = <<>> THEN 0 ELSE num_from_id(Last(ids)) - Len(db.head)

\* remaining_item_count, beyond the ids that are returned.
Remaining(db, ids) ==
    IF ids = <<>> THEN 0 ELSE Len(db.head) - num_from_id(Last(ids))

\* Mutant: the ids begin after the last known block, not with it.
MutantSkipsLastKnown(db, synopsis, limit) ==
    LET anchor == LastKnown(db, synopsis)
        first  == IF anchor = Zero THEN 1 ELSE num_from_id(anchor) + 1
        last   == IF first + limit - 1 < Len(db.head) THEN first + limit - 1
                  ELSE Len(db.head)
        ids    == [i \in 1..(last + 1 - first) |->
                     get_block_id_for_num(db, first + i - 1)]
    IN  IF anchor = Threw THEN Threw
        ELSE [ids |-> ids, remaining |-> Remaining(db, ids)]

\* Up to limit ids, from the last known block (or block 1) on.
get_block_ids(db, synopsis, limit) ==
    LET anchor == LastKnown(db, synopsis)
        first  == IF anchor = Zero THEN 1 ELSE num_from_id(anchor)
        last   == IF first + limit - 1 < Len(db.head) THEN first + limit - 1
                  ELSE Len(db.head)
        ids    == [i \in 1..(last + 1 - first) |->
                     get_block_id_for_num(db, first + i - 1)]
    IN  IF Len(db.head) = 0 THEN [ids |-> <<>>, remaining |-> 0]
        ELSE IF anchor = Threw THEN Threw
        ELSE [ids |-> ids, remaining |-> Remaining(db, ids)]
================================================================================
