----------------------------- MODULE DelegateCalls -----------------------------
(***************************************************************************)
(* The delegate's answers over every state of a chain database: one that   *)
(* grows, learns forks, switches to longer ones and lets go of blocks it   *)
(* could have undone.  The database is external; P2pHandler reads it       *)
(* through a const reference and makes no assumption about its forks.      *)
(***************************************************************************)
EXTENDS P2pDelegate

CONSTANTS MaxAfter,  \* bound: blocks net::node may append to a synopsis
          Limits     \* limits that peers may ask with

ASSUME BoundsAssumption == MaxAfter \in Nat /\ Limits \subseteq Nat \ {0}

VARIABLE db          \* a chain::database, as P2pDelegate describes it

Init == db = [head |-> Zero, known |-> {}, undo |-> 0]

\* A block on top of the head.
PushBlock(b) ==
    /\ Previous(b) = db.head
    /\ db' = [db EXCEPT !.head = b, !.known = @ \cup {b}]

\* A block on a fork that can still be switched to; a fork longer than the
\* chain becomes the chain.
PushForkBlock(b) ==
    /\ b \notin db.known
    /\ Previous(b) \in (db.known \cup {Zero}) \ {db.head}
    /\ Len(CommonAncestor(b, db.head)) >= db.undo
    /\ db' = [db EXCEPT !.known = @ \cup {b},
                        !.head = IF Len(b) > Len(db.head) THEN b ELSE @]

\* The undo history moves on.
AdvanceUndo ==
    /\ db.undo < Len(db.head)
    /\ db' = [db EXCEPT !.undo = @ + 1]

Next ==
    \/ \E b \in Blocks : PushBlock(b)
    \/ \E b \in Blocks : PushForkBlock(b)
    \/ AdvanceUndo

Spec == Init /\ [][Next]_db

-----------------------------------------------------------------------------
(* Properties *)

\* The databases of peers that are on some chain and keep no forks.
PeerDb(head, undo) == [head |-> head, known |-> Ancestry(head), undo |-> undo]

Answers(reference, after) ==
    LET s == get_blockchain_synopsis(db, reference, after)
    IN  IF s = Threw THEN {} ELSE {s} \ {<<>>}

\* A synopsis names, in order, blocks of the branch that ends in the reference,
\* from one that cannot be undone up to, unless net::node has more to append,
\* the reference itself (get_blockchain_synopsis; what peers build on).
SynopsisSummarises ==
    \A reference \in db.known \cup {Zero}, after \in 0..MaxAfter :
       \A s \in Answers(reference, after) :
          LET tip == IF reference = Zero THEN db.head ELSE reference
          IN  /\ \A i \in DOMAIN s : IsPrefix(s[i], tip) /\ s[i] # Zero
              /\ \A i, j \in DOMAIN s : i < j => Len(s[i]) < Len(s[j])
              /\ after = 0 => Last(s) = tip
              /\ Len(s[1]) <= db.undo \/ Len(s[1]) = 1

PowerOfTwo(k) ==
    LET power[n \in 0..k] == IF n = 0 THEN 1 ELSE 2 * power[n - 1]
    IN  power[k]

\* A synopsis stays short: each stride leaves at most half of the blocks, so
\* that the 30 entries reserved for it are enough for any chain.
SynopsisIsShort ==
    \A reference \in db.known \cup {Zero}, after \in 0..MaxAfter :
       \A s \in Answers(reference, after) :
          LET tip == IF reference = Zero THEN db.head ELSE reference
          IN  PowerOfTwo(Len(s) - 1) <= Len(tip) + after + 1 - Len(s[1])

\* What a peer on any other chain is told starts at the last block of its
\* synopsis that this chain has too, goes on without a gap, says how many
\* blocks follow, and names only blocks that the peer gets when it asks for
\* them (get_block_ids, get_item).
ReplyContinuesSynopsis ==
    \A p \in Blocks, limit \in Limits :
       \A undo \in 0..Len(p) :
          LET s == get_blockchain_synopsis(PeerDb(p, undo), Zero, 0)
              r == get_block_ids(db, s, limit)
              shared == {i \in DOMAIN s : IsPrefix(s[i], db.head)}
          IN  db.head # Zero =>
                IF r = Threw THEN shared = {}
                ELSE /\ r.ids[1] = s[CHOOSE i \in shared : \A j \in shared : j <= i]
                     /\ \A i \in 2..Len(r.ids) : Previous(r.ids[i]) = r.ids[i - 1]
                     /\ IsPrefix(Last(r.ids), db.head)
                     /\ \A i \in DOMAIN r.ids : get_item(db, r.ids[i]) = r.ids[i]
                     /\ Len(Last(r.ids)) + r.remaining = Len(db.head)
                     /\ r.remaining > 0 => Len(r.ids) = limit

\* Two nodes whose chains part no earlier than the asking one can undo always
\* find a block to go on from: it is told of no unreachable fork.
ReachableForksMeet ==
    \A p \in Blocks :
       LET s == get_blockchain_synopsis(db, Zero, 0)
           r == get_block_ids(PeerDb(p, 0), s, 2)
       IN  /\ db.head # Zero
           /\ Len(CommonAncestor(db.head, p)) >= db.undo
           /\ CommonAncestor(db.head, p) # Zero
           => r # Threw
================================================================================
