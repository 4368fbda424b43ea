----------------------------- MODULE PeerChain ------------------------------
(***************************************************************************)
(* The block chain of the bitcoin peer manager (bitcoin/BRPeerManager.c):   *)
(* the blocks it holds, those that wait as orphans, its choice of the tip,  *)
(* the heights it gives the wallet's transactions, the bloom filter that    *)
(* makes it drop blocks, the blocks it saves, and what becomes of all that  *)
(* when peers come and go, the chain is rescanned or the program restarts.  *)
(*                                                                          *)
(* A peer's callbacks run on the peer's own thread and hold manager->lock   *)
(* while they change anything; the orphan that a block releases is handled  *)
(* by the same thread after it has let go of the lock, so that the other    *)
(* peers get in between (next).  Peers relay the blocks they like in any    *)
(* order, at most ReorgDepth below the tip.  What peers are asked for       *)
(* (locators, pings, timeouts), the difficulty and false positive checks    *)
(* and transactions that are not in a block are left out.                   *)
(*                                                                          *)
(* An operator X_Y is X with the mistake Y in it; no specification uses it. *)
(***************************************************************************)
EXTENDS Integers, FiniteSets, FiniteSetsExt, ManagedPeers

CONSTANTS
    Block,        \* every block anybody ever mines
    Prev,         \* [Block -> Block \cup {None}]: block->prevBlock
    Height,       \* [Block -> Nat]: block->height
    Txs,          \* [Block -> SUBSET Tx]: those of the wallet in a block
    Tx,           \* the wallet's transactions that are in some block
    Checkpoints,  \* params->checkpoints
    Start,        \* the checkpoint that suits earliestKeyTime
    Interval,     \* BLOCK_DIFFICULTY_INTERVAL
    SaveAhead,    \* the 100 blocks of "block->height + 100"
    NotSynced,    \* the 10 blocks of "BRPeerLastBlock(peer) + 10"
    Lasts,        \* the heights that peers report when they connect
    ReorgDepth,   \* bound: how far below the tip peers still relay
    MaxOrphans,   \* bound: orphans at a time
    MaxRewinds,   \* bound: rescans and restarts
    None

Ahead(b, c) == Height[b] > Height[c]
IsTransition(b) == Height[b] % Interval = 0

\* The blocks on the way back from b as long as held has them, b included.
Line(held, zero, b) ==
    LET back[c \in Block] ==
            IF c \in zero \/ Prev[c] \notin held THEN {c} ELSE {c} \cup back[Prev[c]]
    IN  back[b]

\* All of them, whether they are held or not.
Ancestry(b) == Line(Block, {}, b)

\* A chain has a transaction in one block.  Start is from before the wallet's
\* first key.
ASSUME PeerChainAssumption ==
    /\ Interval \in Nat \ {0} /\ SaveAhead \in Nat /\ NotSynced \in Nat
    /\ ReorgDepth \in Nat /\ ReorgDepth + 1 < Interval
    /\ MaxOrphans \in Nat /\ MaxRewinds \in Nat
    /\ None \notin Block /\ None \notin Peers /\ Lasts \subseteq Nat
    /\ Prev \in [Block -> Block \cup {None}] /\ Height \in [Block -> Nat]
    /\ Txs \in [Block -> SUBSET Tx]
    /\ Checkpoints \subseteq Block /\ IsFiniteSet(Checkpoints) /\ Start \in Checkpoints
    /\ \A c \in Checkpoints : IsTransition(c)
    /\ \E genesis \in Checkpoints : Height[genesis] = 0
    /\ \A b \in Block : Prev[b] # None => Height[b] = Height[Prev[b]] + 1
    /\ \A b \in Block : \A c \in Ancestry(b) \ {b} : Txs[b] \cap Txs[c] = {}
    /\ \A c \in Ancestry(Start) : Txs[c] = {}

VARIABLES
    blocks,           \* manager->blocks
    stubs,            \* the checkpoints in blocks whose prevBlock is zero
    orphans,          \* manager->orphans, at most one for each prevBlock
    lastBlock,        \* manager->lastBlock
    bloomFilter,      \* manager->bloomFilter # NULL
    peerLast,         \* BRPeerLastBlock of the connected peers, else None
    next,             \* what a peer's thread handles next, else None
    file,             \* the blocks that saveBlocks has written
    txHeight,         \* tx->blockHeight, 0 for TX_UNCONFIRMED
    failed,           \* _peerRelayedBlockFailed, with the lock held
    ahead,            \* history: blocks at or above the tip when it was last
                      \* set back, and not reached since
    rewound,          \* history: the tip was set where the heights do not fit
    synced,           \* history: the height of the last complete download
    rewinds           \* the bounded rescans and restarts

lineVars == <<blocks, stubs, lastBlock, txHeight>>
peerVars == <<downloadPeer, peerLast, next>>
histVars == <<ahead, rewound, synced, rewinds>>
chainVars == <<lineVars, orphans, estimatedHeight, bloomFilter, peerVars, file,
               failed, histVars>>

PeersUp == {p \in Peers : peerLast[p] # None}

MainLine == Line(blocks, stubs, lastBlock)

-----------------------------------------------------------------------------
(* Loading                                                                  *)

\* The chain on file: from its last transition block upwards.
LastTransitions ==
    {t \in file : IsTransition(t) /\ \A c \in file : IsTransition(c) => ~Ahead(c, t)}
LoadedFrom(t) == {c \in file : t \in Line(file, {}, c)}
Highest(held) == CHOOSE b \in held : \A c \in held : ~Ahead(c, b)

\* BRPeerManagerNew, with the blocks read back from file.
Loads(loaded) ==
    /\ blocks' = Checkpoints \cup loaded
    /\ stubs' = Checkpoints \ loaded
    /\ lastBlock' = IF loaded = {} THEN Start ELSE Highest(loaded)

\* Exactly the transactions in the blocks on the way back from b have the
\* heights of these blocks, and none is above b.
HeightsFit(b) ==
    /\ \A t \in Tx, c \in Ancestry(b) :
            Height[c] > 0 => (txHeight[t] = Height[c] <=> t \in Txs[c])
    /\ \A t \in Tx : txHeight[t] <= Height[b]

\* The history of a tip that is set back to b while held is known.
SetBack(b, held) ==
    /\ ahead' = {c \in held : ~Ahead(b, c)}
    /\ rewound' = (rewound \/ ~HeightsFit(b))
    /\ rewinds' = rewinds + 1

ChainInit ==
    /\ blocks = Checkpoints /\ stubs = Checkpoints /\ lastBlock = Start
    /\ orphans = {} /\ estimatedHeight = 0 /\ bloomFilter = FALSE
    /\ downloadPeer = None /\ peerLast = [p \in Peers |-> None]
    /\ next = [p \in Peers |-> None]
    /\ file = {} /\ txHeight = [t \in Tx |-> 0] /\ failed = FALSE
    /\ ahead = {c \in Checkpoints : ~Ahead(Start, c)}
    /\ rewound = FALSE /\ synced = 0 /\ rewinds = 0

\* The program ends at any point and starts again from its files.
Restart ==
    /\ rewinds < MaxRewinds
    /\ IF LastTransitions = {} THEN Loads({})
       ELSE \E t \in LastTransitions : Loads(LoadedFrom(t))
    /\ orphans' = {} /\ estimatedHeight' = 0 /\ bloomFilter' = FALSE
    /\ downloadPeer' = None /\ peerLast' = [p \in Peers |-> None]
    /\ next' = [p \in Peers |-> None] /\ failed' = FALSE
    /\ SetBack(lastBlock', blocks')
    /\ UNCHANGED <<file, txHeight, synced>>

-----------------------------------------------------------------------------
(* Peers and the bloom filter                                               *)

\* Where lastBlock has been freed or the lock is lost, only a restart helps.
Usable == ~failed /\ lastBlock \in blocks

LoadBloomFilter == bloomFilter' = TRUE /\ orphans' = {}

\* The connected peers _peerConnected may prefer to p: none reports more.
Best(p, h) ==
    {q \in PeersUp \cup {p} :
        /\ q = p \/ peerLast[q] >= h
        /\ \A r \in PeersUp \ {p} : peerLast[r] <= IF q = p THEN h ELSE peerLast[q]}

\* _peerConnected, for a peer whose version message said h.
PeerConnectedAt(p, h) ==
    /\ Usable
    /\ peerLast[p] = None
    /\ h + NotSynced >= Height[lastBlock]
    /\ peerLast' = [peerLast EXCEPT ![p] = h]
    /\ \/ /\ downloadPeer # None
          /\ peerLast[downloadPeer] >= h \/ Height[lastBlock] >= h
          /\ IF Height[lastBlock] >= h THEN LoadBloomFilter
             ELSE UNCHANGED <<bloomFilter, orphans>>
          /\ UNCHANGED <<downloadPeer, estimatedHeight>>
       \/ /\ downloadPeer # None
                => peerLast[downloadPeer] < h /\ Height[lastBlock] < h
          /\ downloadPeer' \in Best(p, h)
          /\ estimatedHeight' = peerLast'[downloadPeer']
          /\ LoadBloomFilter
    /\ UNCHANGED <<lineVars, next, file, failed, histVars>>

\* _peerDisconnected: the last callback of the peer's thread.
PeerLost(p) ==
    /\ Usable
    /\ p \in PeersUp /\ next[p] = None
    /\ peerLast' = [peerLast EXCEPT ![p] = None]
    /\ downloadPeer' = IF downloadPeer = p THEN None ELSE downloadPeer
    /\ UNCHANGED <<lineVars, orphans, estimatedHeight, bloomFilter, next, file,
                   failed, histVars>>

\* _peerRelayedTx: a transaction has used up addresses of the filter.
FilterReset(p) ==
    /\ Usable
    /\ p \in PeersUp /\ next[p] = None
    /\ bloomFilter /\ bloomFilter' = FALSE
    /\ UNCHANGED <<lineVars, orphans, estimatedHeight, peerVars, file, failed,
                   histVars>>

\* _updateFilterPingDone: the pong p answers when the filter has to be new.
FilterUpdate(p) ==
    /\ Usable
    /\ p \in PeersUp /\ next[p] = None
    /\ IF Height[lastBlock] < estimatedHeight /\ downloadPeer = None
       THEN bloomFilter' = FALSE /\ UNCHANGED orphans
       ELSE LoadBloomFilter
    /\ UNCHANGED <<lineVars, estimatedHeight, peerVars, file, failed, histVars>>

-----------------------------------------------------------------------------
(* A relayed block                                                          *)

\* The block an interval below b, from where the difficulty is checked.
Previous(b) ==
    {c \in Line(blocks, stubs, Prev[b]) : Height[c] = Height[b] - Interval}

Verifies(b) ==
    /\ IsTransition(b) => Previous(b) # {}
    /\ \A c \in Checkpoints : Height[c] = Height[b] => c = b

\* What _BRPeerManagerVerifyBlock frees as it checks b.
Purged_FromTop(b) ==
    IF IsTransition(b)
    THEN {d \in Line(blocks, stubs, Prev[b]) \ {Prev[b]} : ~IsTransition(d)} ELSE {}
Purged(b) ==
    IF IsTransition(b)
    THEN UNION {{d \in Line(blocks, stubs, c) \ {c} : ~IsTransition(d)} : c \in Previous(b)}
    ELSE {}

Held(b) == blocks \ Purged(b)

\* BRSetAdd(manager->orphans): it takes the place of one with its prevBlock.
WithOrphan(b) == {o \in orphans : Prev[o] # Prev[b]} \cup {b}

\* BRSetAdd(manager->blocks): a checkpoint gets its prevBlock.
AddBlock(b) == blocks' = Held(b) \cup {b} /\ stubs' = stubs \ {b}

\* BRWalletUpdateTransactions for each of the blocks of a line.
Confirmed(old, line) ==
    [t \in Tx |-> IF \E c \in line : t \in Txs[c]
                  THEN Height[CHOOSE c \in line : t \in Txs[c]] ELSE old[t]]

\* BRWalletSetTxUnconfirmedAfter
Unconfirmed_OffByOne(old, h) == [t \in Tx |-> IF old[t] > h + 1 THEN 0 ELSE old[t]]
Unconfirmed(old, h) == [t \in Tx |-> IF old[t] > h THEN 0 ELSE old[t]]

\* The blocks to save: count blocks down from b, from a transition block on.
SavedLine(b, count) ==
    LET line == {c \in Line(blocks', stubs', b) : Height[b] - Height[c] < count}
    IN  {c \in line : \E t \in line : IsTransition(t) /\ ~Ahead(t, c)}

CompleteCount_Remainder(b) == Height[b] % Interval
CompleteCount(b) == (Height[b] % Interval) + Interval + 1

\* saveBlocks, which replaces what is on file when it is given a line.
Save(saves) == file' = IF Cardinality(saves) > 1 THEN saves ELSE file \cup saves

SaveComplete(b) ==
    Save(SavedLine(b, CompleteCount(b))) /\ synced' = Height[b]

\* The height of b is known: the estimate, and the orphan that waits for b.
Release_NoOrphan(p, b, waiting) ==
    /\ estimatedHeight' = IF Height[b] > estimatedHeight THEN Height[b] ELSE estimatedHeight
    /\ orphans' = waiting /\ next' = [next EXCEPT ![p] = None]
Release(p, b, waiting) ==
    /\ estimatedHeight' = IF Height[b] > estimatedHeight THEN Height[b] ELSE estimatedHeight
    /\ orphans' = {o \in waiting : Prev[o] # b}
    /\ next' = [next EXCEPT ![p] =
                    IF orphans' = waiting THEN None ELSE CHOOSE o \in waiting \ orphans' : TRUE]

\* The thread is done with its block and has no other.
Free(p) ==
    next' = [next EXCEPT ![p] = None] /\ UNCHANGED <<orphans, estimatedHeight>>

\* Ignored: a filter update is pending.
Ignored(p) == Free(p) /\ UNCHANGED <<lineVars, file, failed, ahead, synced>>

\* Invalid, or a fork older than the last checkpoint.
Dropped(p, b) ==
    /\ blocks' = Held(b)
    /\ Free(p) /\ UNCHANGED <<stubs, lastBlock, txHeight, file, failed, ahead, synced>>

\* No block before it: it waits, unless it is older than a week.
Orphaned(p, b) ==
    /\ \/ Free(p)
       \/ /\ orphans' = WithOrphan(b)
          /\ next' = [next EXCEPT ![p] = None]
          /\ UNCHANGED estimatedHeight
    /\ UNCHANGED <<lineVars, file, failed, ahead, synced>>

Extends(p, b) ==
    /\ AddBlock(b) /\ lastBlock' = b
    /\ txHeight' = Confirmed(txHeight, {b})
    /\ ahead' = {c \in ahead : Ahead(c, b)}
    /\ IF Height[b] = estimatedHeight THEN SaveComplete(b)
       ELSE /\ Save({c \in {b} : IsTransition(c) /\ Height[c] + SaveAhead < estimatedHeight})
            /\ UNCHANGED synced
    /\ Release(p, b, orphans)
    /\ UNCHANGED failed

\* Only a block on the main chain confirms its transactions again; the walk
\* to find that out fails where the chain is cut above the block.
AlreadyHeld(p, b) ==
    /\ \E main \in {Line(Held(b), stubs, lastBlock)} :
        IF \A c \in main : Ahead(c, b)
        THEN /\ failed' = TRUE /\ blocks' = Held(b)
             /\ Free(p) /\ UNCHANGED <<stubs, txHeight>>
        ELSE /\ txHeight' = IF b \in main THEN Confirmed(txHeight, {b}) ELSE txHeight
             /\ AddBlock(b) /\ Release(p, b, orphans)
             /\ UNCHANGED failed
    /\ UNCHANGED <<lastBlock, file, ahead, synced>>

\* What a new block that does not follow the tip is taken for.
Apart(b) == Prev[b] # lastBlock /\ b \notin blocks
FarAhead(p, b) == Height[lastBlock] < peerLast[p] /\ Height[b] > Height[lastBlock] + 1
OldFork(b) == \E c \in Checkpoints : ~Ahead(b, c)
Forks(p, b) == Apart(b) /\ ~FarAhead(p, b) /\ ~OldFork(b)
Longer_ByTwo(b) == Height[b] > Height[lastBlock] + 1
Longer(b) == Ahead(b, lastBlock)

\* "special case, new block mined durring rescan"
Postponed(p, b) ==
    /\ Release(p, b, WithOrphan(b))
    /\ blocks' = Held(b)
    /\ UNCHANGED <<stubs, lastBlock, txHeight, file, failed, ahead, synced>>

\* A fork that is not longer than the main chain.
Branches(p, b) ==
    /\ AddBlock(b)
    /\ Release(p, b, orphans)
    /\ UNCHANGED <<lastBlock, txHeight, file, failed, ahead, synced>>

\* The fork is now longer: back to where it joins the main chain, and up again.
\* (failed also stands for a main chain that is cut above that place.)
Reorganizes(p, b) ==
    /\ AddBlock(b)
    /\ \E main \in {Line(Held(b), stubs, lastBlock)}, fork \in {Line(blocks', stubs', b)} :
        IF main \cap fork = {}
        THEN /\ failed' = TRUE
             /\ Free(p) /\ UNCHANGED <<lastBlock, txHeight, file, ahead, synced>>
        ELSE /\ txHeight' = Confirmed(Unconfirmed(txHeight, Height[Highest(main \cap fork)]),
                                      fork \ main)
             /\ lastBlock' = b
             /\ ahead' = {c \in ahead : Ahead(c, b)}
             /\ IF Height[b] = estimatedHeight THEN SaveComplete(b)
                ELSE UNCHANGED <<file, synced>>
             /\ Release(p, b, orphans)
             /\ UNCHANGED failed

HandlesBlock(p, b) ==
    /\ \/ ~bloomFilter /\ Ignored(p)
       \/ bloomFilter /\ Prev[b] \notin blocks /\ Orphaned(p, b)
       \/ bloomFilter /\ Prev[b] \in blocks /\ ~Verifies(b) /\ Dropped(p, b)
       \/ /\ bloomFilter /\ Prev[b] \in blocks /\ Verifies(b)
          /\ \/ Prev[b] = lastBlock /\ Extends(p, b)
             \/ Prev[b] # lastBlock /\ b \in blocks /\ AlreadyHeld(p, b)
             \/ Apart(b) /\ FarAhead(p, b) /\ Postponed(p, b)
             \/ Apart(b) /\ ~FarAhead(p, b) /\ OldFork(b) /\ Dropped(p, b)
             \/ Forks(p, b) /\ Longer(b) /\ Reorganizes(p, b)
             \/ Forks(p, b) /\ ~Longer(b) /\ Branches(p, b)
    /\ UNCHANGED <<bloomFilter, downloadPeer, peerLast, rewound, rewinds>>

\* _peerRelayedBlock, for a block from the network.  Without a download peer
\* it is freed (a debug build stops in the assertion).
Relay(p, b) ==
    /\ Usable
    /\ p \in PeersUp /\ next[p] = None
    /\ Prev[b] # None /\ Height[b] + ReorgDepth >= Height[lastBlock]
    /\ downloadPeer # None
    /\ HandlesBlock(p, b)
    /\ Cardinality(orphans') <= MaxOrphans

\* The same for the orphan that the last block released.
RelayNext(p) ==
    /\ Usable
    /\ next[p] # None
    /\ IF downloadPeer # None THEN HandlesBlock(p, next[p])
       ELSE /\ Free(p)
            /\ UNCHANGED <<lineVars, bloomFilter, downloadPeer, peerLast, file,
                           failed, histVars>>

-----------------------------------------------------------------------------
(* Rescans                                                                  *)

\* _BRPeerManagerRescan.  The download peer disconnects in its own time.
RescanTo(b) ==
    /\ Usable /\ downloadPeer # None /\ rewinds < MaxRewinds
    /\ lastBlock' = b
    /\ SetBack(b, blocks)
    /\ UNCHANGED <<blocks, stubs, txHeight, orphans, estimatedHeight, bloomFilter,
                   peerVars, file, failed, synced>>

\* BRPeerManagerRescan
RescanFromStart == RescanTo(Start)

\* BRPeerManagerRescanFromLastHardcodedCheckpoint
RescanFromLastHardcodedCheckpoint == RescanTo(Highest(Checkpoints))

\* BRPeerManagerRescanFromBlockNumber: the block of the main chain, a
\* checkpoint of that height, or else the last checkpoint below it.
LookupBlock(n) ==
    LET main == {b \in MainLine : Height[b] = n}
        same == {c \in Checkpoints : Height[c] = n}
        lower == {c \in Checkpoints : Height[c] < n}
    IN  IF main # {} THEN main ELSE IF same # {} THEN same ELSE {Highest(lower)}

RescanFromBlockNumber ==
    \E n \in {Height[b] : b \in Block} : \E b \in LookupBlock(n) : RescanTo(b)

ChainNext ==
    \/ \E p \in Peers, h \in Lasts : PeerConnectedAt(p, h)
    \/ \E p \in Peers : PeerLost(p)
    \/ \E p \in Peers : FilterReset(p)
    \/ \E p \in Peers : FilterUpdate(p)
    \/ \E p \in Peers, b \in Block : Relay(p, b)
    \/ \E p \in Peers : RelayNext(p)
    \/ RescanFromStart
    \/ RescanFromLastHardcodedCheckpoint
    \/ RescanFromBlockNumber
    \/ Restart

ChainSpec == ChainInit /\ [][ChainNext]_chainVars

-----------------------------------------------------------------------------
(* Correctness                                                              *)

\* The block the tip points to is one that the manager still holds: nothing
\* that frees blocks takes it away.
LastBlockKept == lastBlock \in blocks

\* The walks over the chain find the block they look for, so that
\* _peerRelayedBlockFailed is not called with the lock held, but where a rescan
\* has put the tip on a checkpoint whose prevBlock is not known yet.
WalksEnd == failed => \E c \in stubs \ {Start} : c \in MainLine

\* The tip is the highest block held, but for those known from before the
\* chain was set back, as long as the lock is not lost in a reorganization.
TipIsHighest == ~failed => \A b \in blocks \ ahead : ~Ahead(b, lastBlock)

\* No orphan stays behind that follows the tip: the block it waited for
\* released it.
NoOrphanOnTip == lastBlock \notin ahead => \A o \in orphans : Prev[o] # lastBlock

\* Whichever forks were the main chain before, and in whatever order the blocks
\* came: exactly the transactions of the tip's chain are confirmed, at their
\* heights, and none above the tip, unless a rescan or a restart has set the
\* tip where the heights did not fit.
HeightsOnChain == ~rewound => HeightsFit(lastBlock)

\* A restart does not go back below the last complete download.
RestartResumes == [][Restart => Height[lastBlock'] >= synced]_chainVars
=============================================================================
