---------------------------- MODULE BlockChainSlice ----------------------------
(***************************************************************************)
(* The Ethereum block chain slice (src/ethereum/bcs/BREthereumBCS.c): it   *)
(* keeps the last blocks of the chain, the orphans beside it, and the      *)
(* account's transactions and logs, from headers, bodies, receipts,        *)
(* accounts, proofs and statuses that the light client delivers.           *)
(*                                                                         *)
(* Every handler runs to its end on one event thread, so each is one       *)
(* action; what is open is the order in which the answers of many nodes    *)
(* come.  A transfer is a transaction of the account's, found in a body,   *)
(* or a log, found in the receipts.  The chain is the sequence of blocks   *)
(* from chainTail to chain; it is empty once the process has aborted.      *)
(***************************************************************************)
EXTENDS Integers, Sequences, FiniteSets, SequencesExt, FiniteSetsExt, Functions

CONSTANTS
    Block, Genesis,      \* the blocks the nodes may speak of
    NoParent,            \* the parent of Genesis
    parent, number,      \* the block a header names, its height
    rank,                \* difficulty, then age: which of two orphans is preferred
    Inconsistent,      \* the headers that do not fit their parent
    Saved,               \* what a start may find: the blocks saved, those of them that
                         \* waited for answers, and the statuses of transfers
    Transfer,            \* the account's transactions and logs
    inBody, inReceipts,  \* the transfers of a block
    Matches,             \* the blocks whose logs bloom matches the account
    Roots,               \* the blocks that need a proof (CHT roots)
    Own,                 \* the transactions submitted by this wallet
    OrphanAge,           \* BCS_ORPHAN_AGE_OFFSET
    SaveCount,           \* BCS_SAVE_BLOCKS_COUNT
    ReorgLimit,          \* BCS_REORG_LIMIT
    Heads,               \* the heights nodes report of their chains
    Depths,              \* the heights a rescan starts from
    MaxSignals           \* the bound on transactions signalled and not handled

None == "none"
Part == {"bodies", "receipts", "account", "proof"}

ASSUME BlockAssumption ==
    /\ IsFiniteSet(Block) /\ Genesis \in Block
    /\ Saved \subseteq [blocks : (SUBSET Block) \ {{}}, waiting : SUBSET Block,
                        status : [Transfer -> {None, "unknown", "waiting", "errored"} \cup Block]]
    /\ NoParent \notin Block /\ parent[Genesis] = NoParent
    /\ number \in [Block -> Nat] /\ rank \in [Block -> Nat]
    /\ \A b \in Block \ {Genesis} : parent[b] \in Block /\ number[parent[b]] = number[b] - 1
    /\ \A b, c \in Block : rank[b] = rank[c] => b = c
    /\ inBody \in [Block -> SUBSET Transfer] /\ inReceipts \in [Block -> SUBSET Transfer]
    /\ Heads \subseteq Nat /\ Depths \subseteq Nat
    /\ {OrphanAge, ReorgLimit, MaxSignals} \subseteq Nat /\ SaveCount \in Nat \ {0}
    /\ None \notin Block

VARIABLES
    chain,      \* from bcs->chainTail to bcs->chain; <<>> once the process aborted
    orphans,    \* bcs->orphans
    known,      \* bcs->blocks
    strays,     \* blocks off the chain that still have a `next`
    request,    \* the status of a block's four requests
    held,       \* the account's transfers a block's status holds
    status,     \* of bcs->transactions and bcs->logs: None if not there
    pending,    \* bcs->pendingTransactions and pendingLogs
    queried,    \* the transactions nodes were asked the status of
    signals,    \* the transactions signalled to the handler's own queue
    account,    \* bcs->accountStateBlockNumber
    sync        \* bcs->sync: the heights it has still to report

vars == <<chain, orphans, known, strays, request, held, status, pending, queried,
          signals, account, sync>>
blocks == <<chain, orphans, known, strays, request, held>>
transfers == <<status, pending, queried, signals>>

NoRequest == [p \in Part |-> "not needed"]
Unasked == [NoRequest EXCEPT !["bodies"] = "unasked"]
NoSync == [now |-> 1, to |-> 0]

\* bcsCreateInitializeBlocks: the chains that the saved blocks may make.  They are
\* put on it in the order of their hashes, that is in any order, each on the one
\* before whether that is its parent or not; one is left out if the next in this
\* order has its height.
Restored(saved) ==
    {c \in UNION {[1..n -> saved] : n \in 1..Cardinality(saved)} :
        /\ IsInjective(c)
        /\ \A i \in DOMAIN c \ {1} : number[c[i]] # number[c[i - 1]]
        /\ \A b \in saved : \E i \in DOMAIN c : number[c[i]] = number[b]}

\* bcsCreate.  What a saved block waited for is not asked for again.
Init ==
    /\ \E saved \in Saved :
          /\ chain \in Restored(saved.blocks)
          /\ request = [b \in Block |-> IF b \in saved.waiting THEN Unasked ELSE NoRequest]
          /\ status = saved.status
    /\ known = {Genesis} \cup Range(chain)
    /\ orphans = {} /\ strays = {}
    /\ held = [b \in Block |-> {}]
    /\ pending = {t \in Transfer : status[t] \in {"unknown", "waiting"}}
    /\ queried = {} /\ signals = <<>>
    /\ account = 0
    /\ sync = NoSync

Running == chain # <<>>
Height == number[Last(chain)]
Syncing == sync # NoSync

\* blockHasStatusComplete: none of the requests waits for its answer.
Answers(r) == \A p \in Part : r[p] \notin {"pending", "unasked"}
Complete(b) == Answers(request[b])

\* bcsIsBlockValid: the block has a total difficulty.  Of the blocks that are asked
\* for anything, those have one whose proof has come.
Valid(r) == r["proof"] = "complete"

-------------------------------------------------------------------------------
(* The chain and its orphans. *)

\* bcsSelectPreferredBlock, over all the orphans that share a parent.
Preferred(bs) == CHOOSE b \in bs : \A c \in bs : rank[b] >= rank[c]

\* An orphan is taken for its height alone.
Follow_ByHeight(c, o) ==
    LET next == {b \in o : number[b] = number[Last(c)] + 1}
    IN  IF next = {} THEN c ELSE Append(c, Preferred(next))

\* bcsChainOrphans: the chain c with every orphan of o that can follow it.
Follow(c, o) ==
    LET next == {b \in o : parent[b] = Last(c)}
    IN  IF next = {} THEN c ELSE Append(c, Preferred(next))

ChainOrphans(c, o) ==
    LET after[n \in 0..Cardinality(o)] == IF n = 0 THEN c ELSE Follow(after[n - 1], o)
    IN  after[Cardinality(o)]

\* bcsPurgeOrphans: the orphans that stay when n is the height of the chain.
PurgeOrphans(o, n) ==
    IF n <= OrphanAge THEN o
    ELSE {b \in o : number[b] >= n - OrphanAge \/ ~Complete(b)}

\* The logs are forgotten.
PendOrphaned_NoLogs(st, o) == {t \in Own : st[t] \in o}

\* bcsPendOrphanedTransactionsAndLogs, for the orphans o.
PendOrphaned(st, o) == {t \in Transfer : st[t] \in o}

\* bcsSyncRange: a sync runs already, or there is nothing between the heights.
SyncRange(s, start, stop) ==
    IF s # NoSync \/ stop <= start THEN s ELSE [now |-> start, to |-> stop]

\* bcsReclaimAndSaveBlocksIfAppropriate: the chain is longer than it may be.  The
\* difference is unsigned, so that it is huge when the head is below the tail.
Long(c) ==
    \/ number[Last(c)] < number[c[1]]
    \/ number[Last(c)] - number[c[1]] >= 2 * SaveCount

\* The walk from the head makes the last block it finds of height Cut the tail and
\* reclaims every block below that height.
Cut(c) == number[Last(c)] - SaveCount

\* bcsSaveBlocks fills an array that is as long as the heights differ, so that the
\* new tail has to be at that distance.
Saves(c, n) ==
    /\ n \in DOMAIN c /\ number[c[n]] = Cut(c)
    /\ \A i \in 1..(n - 1) : number[c[i]] # Cut(c)
    /\ \A i \in n..Len(c) : number[c[i]] >= Cut(c)

\* What is left of the chain c; the process ends if the blocks cannot be saved.
Trim(c) ==
    IF ~Long(c) THEN c
    ELSE IF Saves(c, Len(c) - SaveCount) THEN SubSeq(c, Len(c) - SaveCount, Len(c))
    ELSE <<>>

\* The blocks that the walk reclaims, and those below the new tail that it leaves
\* with their `next`, because they are too high.
Reclaimed(c) == {b \in Range(c) \ Range(Trim(c)) : number[b] < Cut(c)}
LeftBehind(c) == (Range(c) \ {c[1]}) \ (Range(Trim(c)) \cup Reclaimed(c))

\* The end of bcsExtendChainIfPossible: chain the orphans and purge, hand out
\* what complete blocks hold, pend what was orphaned, reclaim and save.
Settle(c, o, s, k) ==
    LET c1   == ChainOrphans(c, o)
        o1   == PurgeOrphans(o \ Range(c1), number[Last(c1)])
        done == {b \in Range(c1) : Complete(b) /\ Valid(request[b]) /\ held[b] # {}}
        st   == [t \in Transfer |->
                   IF \E b \in done : t \in held[b]
                   THEN CHOOSE b \in done : t \in held[b] ELSE status[t]]
        gone == Reclaimed(c1)
    IN  /\ chain' = Trim(c1)
        /\ orphans' = o1 \ gone
        /\ strays' = s \cup LeftBehind(c1)
        /\ known' = k \ gone
        /\ held' = [b \in Block |-> IF b \in done \cup gone THEN {} ELSE held[b]]
        /\ status' = st
        /\ pending' = pending \cup PendOrphaned(st, o1)

-------------------------------------------------------------------------------
(* Headers. *)

\* bcsHandleBlockHeaderInternal: what a new block asks for.
Asks(b) == [p \in Part |->
    IF \/ p = "bodies"
       \/ p = "receipts" /\ b \in Matches
       \/ p = "proof" /\ b \in Roots
    THEN "pending" ELSE "not needed"]

Learn(b) ==
    /\ Running /\ b \in Block \ known
    /\ request' = [request EXCEPT ![b] = Asks(b)]
    /\ UNCHANGED <<queried, signals, account>>

ParentKnown(b) == parent[b] \in known
Unlinked(b) == ~ParentKnown(b) \/ parent[b] \in orphans

\* The parent is known and the header does not fit it: the block is kept.
HeaderInconsistent(b) ==
    /\ ParentKnown(b) /\ b \in Inconsistent
    /\ known' = known \cup {b}
    /\ UNCHANGED <<chain, orphans, strays, held, status, pending>>

\* Not from a sync and no parent on the chain: an orphan, and perhaps a sync.
HeaderOrphaned(b) ==
    LET c == ChainOrphans(chain, orphans)
        o == PurgeOrphans(orphans \ Range(c), number[Last(c)]) \cup {b}
    IN  /\ Unlinked(b)
        /\ chain' = c /\ orphans' = o
        /\ known' = known \cup {b}
        /\ sync' = SyncRange(sync, number[Last(c)], Min({number[x] : x \in o}))
        /\ UNCHANGED <<strays, held, status, pending>>

\* From a sync, above the chain: the complete blocks of the old chain are
\* released and the block alone is the chain.
HeaderAdopted(b) ==
    LET old == {x \in Range(chain) : Complete(x)} IN
    /\ Unlinked(b) /\ number[b] > Height
    /\ Settle(<<b>>, orphans \ old, (strays \cup (Range(chain) \ {chain[1]})) \ old,
              (known \ old) \cup {b})

\* From a sync, not above the chain: known, on no chain.
HeaderAside(b) ==
    /\ Unlinked(b) /\ number[b] <= Height
    /\ Settle(chain, orphans, strays, known \cup {b})

\* The parent is on the chain: what is above it is orphaned.
HeaderChained(b) ==
    /\ ~Unlinked(b) /\ b \notin Inconsistent
    /\ \E i \in DOMAIN chain :
          /\ chain[i] = parent[b]
          /\ Settle(Append(SubSeq(chain, 1, i), b),
                    orphans \cup Range(SubSeq(chain, i + 1, Len(chain))),
                    strays, known \cup {b})

\* The parent is known and no orphan, and not on the chain: the whole chain is
\* orphaned, and assert (NULL != bcs->chain) ends the process.
HeaderAborts(b) ==
    /\ ~Unlinked(b) /\ b \notin Inconsistent
    /\ parent[b] \notin Range(chain)
    /\ chain' = <<>>
    /\ orphans' = orphans \cup Range(chain)
    /\ known' = known \cup {b}
    /\ UNCHANGED <<strays, held, status, pending>>

Linked(b) == HeaderInconsistent(b) \/ HeaderChained(b) \/ HeaderAborts(b)

\* A header that was asked for by height, after an announcement or for a transfer.
HandleBlockHeader(b) ==
    /\ Learn(b)
    /\ \/ Linked(b) /\ UNCHANGED sync
       \/ HeaderOrphaned(b)

\* A header the sync reports; one that is known is ignored.
HandleSyncHeader(b) ==
    /\ Running /\ Syncing
    /\ number[b] \in sync.now..sync.to
    /\ sync' = [sync EXCEPT !.now = number[b] + 1]
    /\ \/ b \in known /\ UNCHANGED <<blocks, transfers, account>>
       \/ Learn(b) /\ (Linked(b) \/ HeaderAdopted(b) \/ HeaderAside(b))

-------------------------------------------------------------------------------
(* The answers that fill a block. *)

\* bcsExtendTransactionsAndLogsForBlockIfAppropriate, for block b with its
\* requests r and its transfers h: a complete block that is valid hands out its
\* transfers, and goes if it has no `next`, is not the tail and no orphan.
ExtendTransfers(b, r, h) ==
    LET done == Answers(r) /\ Valid(r)
    IN  /\ request' = [request EXCEPT ![b] = r]
        /\ held' = [held EXCEPT ![b] = IF done THEN {} ELSE h]
        /\ status' = [t \in Transfer |-> IF done /\ t \in h THEN b ELSE status[t]]
        /\ known' = IF done /\ b \notin Range(chain) \cup strays \cup orphans
                    THEN known \ {b} ELSE known
        /\ UNCHANGED <<chain, orphans, strays, pending, queried, signals, sync>>

Answered(r, p, more) ==
    [q \in Part |-> IF q = p THEN "complete"
                    ELSE IF q \in more /\ r[q] = "not needed" THEN "pending"
                    ELSE r[q]]

Awaits(b, p) == Running /\ b \in known /\ request[b][p] = "pending"

\* bcsHandleBlockBody: an own transaction needs receipts, a proof and the account.
HandleBlockBody(b) ==
    /\ Awaits(b, "bodies")
    /\ ExtendTransfers(b,
         Answered(request[b], "bodies",
                  IF inBody[b] = {} THEN {} ELSE {"receipts", "proof", "account"}),
         held[b] \cup inBody[b])
    /\ UNCHANGED account

\* bcsHandleTransactionReceipts: an own log needs the bodies and a proof.
HandleTransactionReceipts(b) ==
    /\ Awaits(b, "receipts")
    /\ ExtendTransfers(b,
         Answered(request[b], "receipts",
                  IF inReceipts[b] = {} THEN {} ELSE {"bodies", "proof"}),
         held[b] \cup inReceipts[b])
    /\ UNCHANGED account

\* bcsHandleAccountState: the account of a higher block is told.
HandleAccountState(b) ==
    /\ Awaits(b, "account")
    /\ account' = Max({account, number[b]})
    /\ ExtendTransfers(b, Answered(request[b], "account", {}), held[b])

\* The proof is noted; whether the block is complete now is not asked.
HandleBlockProof_Noted(b) ==
    /\ Awaits(b, "proof")
    /\ request' = [request EXCEPT ![b]["proof"] = "complete"]
    /\ UNCHANGED <<chain, orphans, known, strays, held, transfers, account, sync>>

\* bcsHandleBlockProof; a proof that failed leaves the block as it is.
HandleBlockProof(b) ==
    /\ Awaits(b, "proof")
    /\ ExtendTransfers(b, Answered(request[b], "proof", {}), held[b])
    /\ UNCHANGED account

-------------------------------------------------------------------------------
(* Announcements and syncs. *)

\* bcsUnwindChain: from the head down, at most depth blocks and never the tail, until
\* one is below head - depth.  These are the places it stops at.
Stops(head, depth) ==
    {i \in DOMAIN chain :
        i = 1 \/ i <= Len(chain) - depth \/ number[chain[i]] < head - depth}

\* bcsHandleAnnounce: what is above the first of them becomes orphans.
HandleAnnounce(head, depth) ==
    /\ Running /\ ~Syncing
    /\ depth \in 1..(ReorgLimit - 1) /\ depth <= head
    /\ \E n \in Stops(head, depth) :
          /\ \A i \in Stops(head, depth) : i <= n
          /\ chain' = SubSeq(chain, 1, n)
          /\ orphans' = orphans \cup Range(SubSeq(chain, n + 1, Len(chain)))
          /\ pending' = pending \cup PendOrphaned(status, orphans')
    /\ UNCHANGED <<known, strays, request, held, status, queried, signals,
                   account, sync>>

\* bcsHandleStatus: a node's head, if it is above the chain's and no sync runs.
HandleStatus(head) ==
    /\ Running /\ ~Syncing /\ head > Height
    /\ sync' = SyncRange(sync, Height, head)
    /\ UNCHANGED <<blocks, transfers, account>>

\* bcsSync: a sync that runs is stopped and one up to the head begun, if a node
\* is there.
StartSync(from) ==
    /\ Running /\ (Syncing \/ Height > from)
    /\ sync' \in {NoSync, SyncRange(NoSync, from, Height)}
    /\ UNCHANGED <<blocks, transfers, account>>

\* The sync has reported its last range, or a provision failed.
SyncEnds ==
    /\ Running /\ Syncing
    /\ sync' = NoSync
    /\ UNCHANGED <<blocks, transfers, account>>

-------------------------------------------------------------------------------
(* Transactions. *)

Submittable == {t \in Own : status[t] = None /\ t \notin pending}

\* bcsHandleSubmitTransaction: pending, and signalled to the own queue.
HandleSubmitTransaction(t) ==
    /\ Running /\ t \in Submittable /\ Len(signals) < MaxSignals
    /\ pending' = pending \cup {t}
    /\ signals' = Append(signals, <<t, "unknown">>)
    /\ UNCHANGED <<blocks, status, queried, account, sync>>

\* bcsHandleTransaction, for the transaction at the head of the own queue.
HandleTransaction ==
    /\ Running /\ signals # <<>>
    /\ LET t == Head(signals)[1]  s == Head(signals)[2] IN
          /\ status' = [status EXCEPT ![t] = s]
          /\ pending' = IF s \in {"unknown", "waiting"} THEN pending \cup {t} ELSE pending
    /\ signals' = Tail(signals)
    /\ UNCHANGED <<blocks, queried, account, sync>>

\* bcsPeriodicDispatcher: every node is asked for what is pending.
PeriodicDispatcher ==
    /\ Running /\ ~(pending \subseteq queried)
    /\ queried' = queried \cup pending
    /\ UNCHANGED <<blocks, status, pending, signals, account, sync>>

\* The statuses a node may report of t: queued or pending, refused, in a block.
\* The transactions that carry the logs are other accounts': nothing is kept of
\* their status.
Reports(t) ==
    IF t \in Own \cup UNION {inBody[b] : b \in Block}
    THEN {"waiting", "errored"} \cup {b \in Block : t \in inBody[b]} ELSE {}

Again(t, s) == \/ s \in Block /\ status[t] \in Block
               \/ s = "errored" /\ status[t] = "errored"

\* bcsHandleTransactionStatus: the second of two reports alike ends the
\* queries, the first one is taken and signalled.
HandleTransactionStatus(t, s) ==
    /\ Running /\ t \in queried /\ status[t] # None /\ s \in Reports(t)
    /\ \/ /\ Again(t, s)
          /\ pending' = pending \ {t}
          /\ UNCHANGED <<status, signals>>
       \/ /\ ~Again(t, s) /\ s # status[t]
          /\ Len(signals) < MaxSignals
          /\ status' = [status EXCEPT ![t] = s]
          /\ signals' = Append(signals, <<t, s>>)
          /\ UNCHANGED pending
    /\ UNCHANGED <<blocks, queried, account, sync>>

-------------------------------------------------------------------------------
Next ==
    \/ \E b \in Block :
          \/ HandleBlockHeader(b) \/ HandleSyncHeader(b)
          \/ HandleBlockBody(b) \/ HandleTransactionReceipts(b)
          \/ HandleAccountState(b) \/ HandleBlockProof(b)
    \/ \E head \in Heads : HandleStatus(head)
    \/ \E from \in Depths : StartSync(from)
    \/ \E head \in Heads, depth \in 1..(ReorgLimit - 1) : HandleAnnounce(head, depth)
    \/ SyncEnds \/ HandleTransaction \/ PeriodicDispatcher
    \/ \E t \in Transfer :
          \/ HandleSubmitTransaction(t)
          \/ \E s \in Reports(t) : HandleTransactionStatus(t, s)

Spec == Init /\ [][Next]_vars

-------------------------------------------------------------------------------
(* Properties. *)

\* Whatever order headers come in, through reorganisations, syncs, reclaimed
\* blocks and restarts: the chain is made of known blocks, none of them an orphan or
\* a stray, and no step puts a block on another that is not its parent.  Blocks that
\* are not each the child of the one before are only those that bcsCreate chained.
ChainGrowsByChildren ==
    /\ [](Running => /\ Range(chain) \cup orphans \cup strays \subseteq known
                    /\ Range(chain) \cap (orphans \cup strays) = {})
    /\ [][\A i \in 2..Len(chain') :
             \/ parent[chain'[i]] = chain'[i - 1]
             \/ \E j \in 2..Len(chain) : /\ chain[j] = chain'[i]
                                         /\ chain[j - 1] = chain'[i - 1]]_vars

\* In whatever order bodies, receipts, proof and account of a block come, the
\* last of them hands out the block's transfers: a block that waits for nothing
\* holds none.
NothingWithheld == \A b \in known : Complete(b) => held[b] = {}

\* A transfer whose block leaves the chain for the orphans is pending after the
\* step, so that its status is asked for again.
OrphanedIsPending ==
    [][\A t \in Transfer :
         status[t] \in Range(chain) /\ status[t] \in orphans' /\ Running'
           => t \in pending']_vars
================================================================================
