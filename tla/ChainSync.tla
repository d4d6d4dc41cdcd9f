------------------------------- MODULE ChainSync -------------------------------
(***************************************************************************)
(* The node follows a peer: net::node asks the delegate for a synopsis,    *)
(* the peer answers with the ids that follow, net::node fetches the blocks *)
(* and passes them to handle_block, and ContractNode's slot pushes those   *)
(* that are next in the chain.                                             *)
(*                                                                         *)
(* The delegate runs on the main thread, one call at a time.  net::node is *)
(* external and modelled as the delegate sees it.  The peer answers with   *)
(* the same get_block_ids, on a database that may switch forks.            *)
(***************************************************************************)
EXTENDS P2pDelegate, FiniteSets

CONSTANTS
    Limit,        \* bound: ids that a peer sends at a time
    PeerMayFork,  \* may the peer be on another fork, or switch to one?
    PushMayFail,  \* may push_block throw?
    InOrder,      \* do announced blocks arrive in the order of their numbers?
    MayReconnect, \* may the connection be lost and made again?
    None          \* no message

VARIABLES
    head,       \* head of our chain
    undo,       \* last_non_undoable_block_num of our chain
    syncing,    \* P2pHandler::syncing
    mainFiber,  \* "starting" or, once sync_from has returned, "stable"
    peerHead,   \* head of the peer's chain
    peerAside,  \* head of the fork that the peer left
    seen,       \* the block net::node last passed to the delegate, or Zero
    toGet,      \* ids that net::node has yet to fetch, in order
    more,       \* did the peer say there are more?
    request,    \* synopsis the peer has to answer, or None
    reply,      \* its answer, or None
    inSync,     \* has net::node all the ids the peer had?
    announcing, \* does the peer take us to be in sync, and announce its blocks?
    announced   \* new blocks of the peer that have not been passed on

ours == <<head, undo, syncing, mainFiber>>
peer == <<peerHead, peerAside>>
session == <<seen, toGet, more, request, reply, inSync, announcing, announced>>
vars == <<ours, peer, session>>

OurDb == [head |-> head, known |-> Ancestry(head), undo |-> undo]
PeerDb == [head |-> peerHead, known |-> Ancestry(peerHead) \cup Ancestry(peerAside),
           undo |-> 0]

ASSUME SyncAssumption ==
    /\ Limit \in Nat \ {0, 1}
    /\ {PeerMayFork, PushMayFail, InOrder, MayReconnect} \subseteq BOOLEAN
    /\ None # Threw
    /\ None \notin Seq(Blocks)
    /\ None \notin [ids : Seq(Blocks), remaining : Nat]

\* A connection on which nothing has been said yet.
NewSession ==
    /\ seen' = Zero
    /\ toGet' = <<>>
    /\ more' = TRUE
    /\ request' = None
    /\ reply' = None
    /\ inSync' = FALSE
    /\ announcing' = FALSE
    /\ announced' = {}

Init ==
    /\ head \in Blocks \cup {Zero}
    /\ undo \in 0..Len(head)
    /\ syncing = FALSE
    /\ mainFiber = "starting"
    /\ peerHead \in Blocks \cup {Zero}
    /\ PeerMayFork \/ IsPrefix(head, peerHead)
    /\ peerAside = Zero
    /\ seen = Zero
    /\ toGet = <<>>
    /\ more = TRUE
    /\ request = None
    /\ reply = None
    /\ inSync = FALSE
    /\ announcing = FALSE
    /\ announced = {}

-----------------------------------------------------------------------------
(* The peer *)

\* It announces its new blocks once it takes us to be in sync.
Announce(blocks) ==
    announced' = IF announcing THEN announced \cup blocks ELSE announced

PeerPushes(b) ==
    /\ Previous(b) = peerHead
    /\ peerHead' = b
    /\ Announce({b})
    /\ UNCHANGED <<ours, peerAside, seen, toGet, more, request, reply, inSync,
                   announcing>>

\* A fork of the peer's becomes longer than its chain.
PeerSwitches(b) ==
    /\ PeerMayFork
    /\ peerAside = Zero
    /\ Len(b) > Len(peerHead)
    /\ ~ IsPrefix(peerHead, b)
    /\ peerAside' = peerHead
    /\ peerHead' = b
    /\ Announce(Ancestry(b) \ Ancestry(peerHead))
    /\ UNCHANGED <<ours, seen, toGet, more, request, reply, inSync, announcing>>

-----------------------------------------------------------------------------
(* net::node asks for ids *)

\* The ids that net::node itself appends to a synopsis: those it knows already,
\* at the stride that goes on from where the delegate's ended.
Appended(synopsis) ==
    LET first == num_from_id(Head(toGet))
        low   == IF synopsis = <<>> THEN 1 ELSE num_from_id(Head(synopsis))
        nums  == SynopsisNums(low, first + Len(toGet) - 1, first + Len(toGet) - 1)
        early == CHOOSE k \in 0..Len(nums) :
                    /\ \A i \in 1..k : nums[i] < first
                    /\ \A i \in (k + 1)..Len(nums) : nums[i] >= first
    IN  [i \in 1..(Len(nums) - early) |-> toGet[nums[early + i] - first + 1]]

\* It asks for more when the peer has more, and once everything was fetched.
\* While the delegate throws it cannot ask.
Ask ==
    /\ ~ inSync /\ request = None /\ reply = None
    /\ more \/ toGet = <<>>
    /\ LET synopsis == get_blockchain_synopsis(OurDb, seen, Len(toGet))
       IN  /\ synopsis # Threw
           /\ request' = synopsis \o (IF toGet = <<>> THEN <<>> ELSE Appended(synopsis))
    /\ UNCHANGED <<ours, peer, seen, toGet, more, reply, inSync, announcing,
                   announced>>

\* The peer's delegate answers, or throws peer_is_on_an_unreachable_fork.
Answer ==
    /\ request # None /\ reply = None
    /\ reply' = get_block_ids(PeerDb, request, Limit)
    /\ announcing' = /\ reply' # Threw
                     /\ reply'.remaining = 0
                     /\ \/ reply'.ids = <<>>
                        \/ Len(reply'.ids) = 1 /\ Head(reply'.ids) \in ToSet(request)
    /\ UNCHANGED <<ours, peer, seen, toGet, more, request, inSync, announced>>

\* What is left of the ids still to fetch when the answer goes on from one.
Kept(id) ==
    IF \E i \in DOMAIN toGet : toGet[i] = id
    THEN SubSeq(toGet, 1, CHOOSE i \in DOMAIN toGet : toGet[i] = id)
    ELSE <<>>

\* How many ids at the front of an answer we have already.
HadInFront(ids) ==
    CHOOSE n \in 0..Len(ids) :
        /\ \A i \in 1..n : has_item(OurDb, ids[i])
        /\ n < Len(ids) => ~ has_item(OurDb, ids[n + 1])

HandleReply ==
    /\ reply \notin {None, Threw}
    /\ LET ids  == reply.ids
           kept == IF ids = <<>> THEN toGet ELSE Kept(Head(ids))
           had  == HadInFront(ids)
       IN  IF kept # <<>>
           THEN /\ toGet' = kept \o (IF ids = <<>> THEN <<>> ELSE Tail(ids))
                /\ seen' = seen
           ELSE /\ toGet' = SubSeq(ids, had + 1, Len(ids))
                /\ seen' = IF had = 0 THEN seen ELSE ids[had]
    /\ more' = (reply.remaining > 0)
    /\ inSync' = (toGet' = <<>> /\ Len(reply.ids) <= 1 /\ reply.remaining = 0)
    /\ request' = None
    /\ reply' = None
    /\ UNCHANGED <<ours, peer, announcing, announced>>

-----------------------------------------------------------------------------
(* Blocks *)

\* ContractNode's slot: a block that is next in the chain is pushed, and what
\* push_block throws is logged; any other block is ignored.
BlockReceived(b) ==
    \/ /\ Previous(b) = head
       /\ head' = b
    \/ /\ Previous(b) = head
       /\ PushMayFail
       /\ head' = head
    \/ /\ Previous(b) # head
       /\ head' = head

\* handle_block: the slot, then the end of a sync when this is no sync block.
\* It returns as if the block had been accepted, so net::node has it as seen.
handle_block(b, sync_mode) ==
    /\ BlockReceived(b)
    /\ syncing' = (syncing /\ sync_mode)
    /\ seen' = b

\* The next block of the sync arrives.
HandleSyncBlock ==
    /\ toGet # <<>>
    /\ handle_block(Head(toGet), TRUE)
    /\ toGet' = Tail(toGet)
    /\ UNCHANGED <<undo, mainFiber, peer, more, request, reply, inSync,
                   announcing, announced>>

\* An announced block arrives.
HandleAnnounced(b) ==
    /\ inSync
    /\ b \in announced
    /\ InOrder => \A c \in announced : Len(b) <= Len(c)
    /\ handle_block(b, FALSE)
    /\ announced' = announced \ {b}
    /\ UNCHANGED <<undo, mainFiber, peer, toGet, more, request, reply, inSync,
                   announcing>>

\* node.sync_from() has returned to syncFrom, which only then notes the sync.
SyncFromReturns ==
    /\ mainFiber = "starting"
    /\ mainFiber' = "stable"
    /\ syncing' = TRUE
    /\ UNCHANGED <<head, undo, peer, session>>

\* The database's undo history moves on.
AdvanceUndo ==
    /\ undo < Len(head)
    /\ undo' = undo + 1
    /\ UNCHANGED <<head, syncing, mainFiber, peer, session>>

\* The connection ends and another one is made.
Reconnect ==
    /\ MayReconnect
    /\ NewSession
    /\ UNCHANGED <<ours, peer>>

Next ==
    \/ \E b \in Blocks : PeerPushes(b)
    \/ \E b \in Blocks : PeerSwitches(b)
    \/ Ask
    \/ Answer
    \/ HandleReply
    \/ HandleSyncBlock
    \/ \E b \in Blocks : HandleAnnounced(b)
    \/ SyncFromReturns
    \/ AdvanceUndo
    \/ Reconnect

Spec == Init /\ [][Next]_vars

\* Messages between the nodes are answered and blocks that were asked for
\* arrive: what net::node does on its own thread, and the delegate on the main
\* thread, which never waits for anything while it serves a call.
FairSpec ==
    /\ Spec
    /\ WF_vars(Ask)
    /\ WF_vars(Answer)
    /\ WF_vars(HandleReply)
    /\ WF_vars(HandleSyncBlock)
    /\ WF_vars(\E b \in Blocks : HandleAnnounced(b))

-----------------------------------------------------------------------------
(* Properties *)

TypeOK ==
    /\ {head, peerHead, peerAside, seen} \subseteq Blocks \cup {Zero}
    /\ undo \in 0..Len(head)
    /\ {syncing, more, inSync, announcing} \subseteq BOOLEAN
    /\ mainFiber \in {"starting", "stable"}
    /\ toGet \in Seq(Blocks)
    /\ announced \subseteq Blocks
    /\ request = None \/ request \in Seq(Blocks)
    /\ reply \in {None, Threw} \/ reply \in [ids : Seq(Blocks), remaining : Nat]

\* A sync leaves out no block, over batches, forks, blocks that fail and new
\* connections: the ids to fetch follow each other, and the first one follows
\* the block that handle_block was given last, unless the slot did not add that
\* one to the chain, of which net::node is not told: only behind a block that was
\* handled and dropped can there be a gap.
SyncLeavesNoGap ==
    /\ toGet # <<>> => Previous(Head(toGet)) = seen \/ ~ IsPrefix(seen, head)
    /\ \A i \in 2..Len(toGet) : Previous(toGet[i]) = toGet[i - 1]

\* The last block that net::node knows of.
Tip == IF toGet # <<>> THEN Last(toGet) ELSE IF seen # Zero THEN seen ELSE head

\* The synopsis, made by the delegate up to the last block handled and by
\* net::node from there on, reads like one made in one go: each entry halves
\* the distance to the last block known, and the last entry is that block, so
\* that the answer goes on from it (get_blockchain_synopsis must count the
\* blocks after the reference point).
AsksFromTip ==
    request # None =>
        IF request = <<>> THEN Tip = Zero
        ELSE /\ Last(request) = Tip
             /\ \A i \in 2..Len(request) :
                   2 * (Len(Tip) - Len(request[i])) <= Len(Tip) - Len(request[i - 1])

\* An answer starts in the last block of the synopsis that the peer has in its
\* chain, unless there is none because the synopsis is empty.
RepliesContinue ==
    [][reply' \notin {None, Threw} /\ reply'.ids # <<>> /\ request # <<>> =>
          /\ Head(reply'.ids) \in ToSet(request)
          /\ \A id \in ToSet(request) :
                IsPrefix(id, peerHead) => Len(id) <= Len(Head(reply'.ids))]_reply

\* A peer refuses us (peer_is_on_an_unreachable_fork) only when its chain has
\* not even the last block that we cannot undo.
RefusedOnlyBeyondUndo ==
    [][reply' = Threw /\ head # Zero =>
          ~ IsPrefix(SubSeq(head, 1, IF undo = 0 THEN 1 ELSE undo), peerHead)]_reply

\* As long as the peer stays on our chain and blocks are valid, the block that
\* a sync brings is always the next one: none of them is ignored by the slot,
\* although batches are asked for while blocks of earlier ones are pushed.
SyncBlocksLink ==
    /\ toGet # <<>> => Previous(Head(toGet)) = head
    /\ \A i \in 2..Len(toGet) : Previous(toGet[i]) = toGet[i - 1]

\* Then the node also catches up with the peer and stays with it.
CatchesUp == <>[](head = peerHead)
================================================================================
