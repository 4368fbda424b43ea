# Verification of breadwallet-core

breadwallet-core is the C library under a mobile wallet: it follows the bitcoin
network as a light client (SPV), an Ethereum light client (LES) or a web service
on behalf of an account, keeps the account's transactions and reports balances,
transfers and sync progress to the application. This directory holds TLA+
modules of its concurrent and stateful parts, TLC configurations that check them
on small instances, and TLAPS proofs for all values of the constants.

Run a check with `tlc -config <name>.cfg <MC module>`, the proofs with
`tlapm <...>Proofs.tla`.

| module | models | checked by |
|---|---|---|
| `EventHandler` | event queue, handler thread, start/stop/clear/release | `MCEventHandler` with `EventHandlerSafe.cfg`, `EventHandlerLive.cfg` |
| `EventDelivery` | abstract: what a handler promises | refined by `EventHandler` in `EventHandlerSafe.cfg` |
| `EventHandlerProofs` | the handler's invariants, that its events are each in one place, and that it implements `EventDelivery`, for any number of threads and events | tlapm |
| `AlarmClock` | the shared clock behind periodic events | `MCAlarmClock` with `AlarmClock.cfg` |
| `AlarmClockProofs` | the clock's invariants, for any number of alarms and threads | tlapm |
| `Wallet` | the bitcoin wallet's transactions and balance | `MCWallet` with `Wallet.cfg` |
| `WalletProofs` | order, conflicts, balance, reorganisation and removal, for any transactions | tlapm |
| `ManagedPeers` | the peers, download peer and estimated height that the next two declare in common | part of their runs |
| `PeerChain` | the bitcoin peer manager's block chain | `MCPeerChain` with `PeerChain.cfg`, `PeerChainFreed.cfg` |
| `PeerManager` | the peer manager's peers, their threads, and publishing | part of `PeerSync`'s run |
| `PeerManagerProofs` | no pointer to a freed peer and one report of each submission, for any number of peers and submissions, with any owner; `PeerChain`'s tip, orphans, heights and restarts, for any tree of blocks | tlapm |
| `PeerSync` | the sync manager over the peer manager (extends `PeerManager`) | `MCPeerSync` with `PeerSync.cfg` |
| `SyncEvents` | what the events of a sync manager may tell its owner | part of the next one |
| `ClientSync` | the sync manager over a block chain service, with its wallet manager and its client | `MCClientSync` with `ClientSync.cfg` |
| `ClientSyncProofs` | events, request numbers and coverage of `ClientSync`, for any chain and wallet | tlapm |
| `BlockChainSlice` | the Ethereum block chain slice | `MCBlockChainSlice` with `BlockChainSlice.cfg` |
| `BlockChainSliceProofs` | how the chain grows, what is handed out and asked for again, for any tree of blocks and any restart | tlapm |
| `EthereumSync` | the Ethereum wallet manager's scans of a service | `MCEthereumSync` with `EthereumSync.cfg` |
| `EthereumSyncProofs` | what those scans miss and tell, for any chain and number of calls | tlapm |
| `WalletManager` | a bitcoin transaction from the wallet over the wallet manager's record to the application's transfer, and its submission | `MCWalletManager` with `WalletManager.cfg`, `WalletManagerSubmit.cfg` |
| `WalletManagerProofs` | that the records follow the wallet and the transfers the records, and that the handlers' assertions on them hold, for any number of transactions and events | tlapm |

## 1. Inventory

**Event handler and queue** (`ethereum/event/BREvent.c`, `BREventQueue.c`).
State: pending list, abort flag, thread id, scratch event, timeout alarm, two
locks. Operations: signal (in band, out of band), the thread's wait and
dispatch, start, stop, clear, destroy. Every wallet manager runs on one and
hands it the manager's own lock. Hard: start and stop from several threads,
lost wake-ups, stop while the thread waits for the manager's lock, release.
Right when: one thread at a time, no event lost or handled twice, every call
returns, nothing runs after a release.

**Alarm clock** (`BREventAlarm.c`). State: sorted alarms, sleeping thread, quit
flag. Handlers and managers add periodic alarms from any thread. Hard: the
alarm slept for is removed or overtaken; stop right after start. Right when:
alarms fire neither early nor late nor after their removal.

**Bitcoin wallet** (`bitcoin/BRWallet.c`). State: all known transactions, the
sorted list of the wallet's own, balance, unspent outputs, invalid and pending
sets, two address chains. Fed by the peer or sync manager: register, remove,
set heights, undo heights on a reorganisation. Reports through callbacks that
save each transaction. Hard: conflicting and dependent transactions in any
order, reorganisations, reload from file in an arbitrary order. Right when: the
list stays sorted, the balance is the sum of what is unspent, conflicts are
never both counted.

**Bitcoin peer manager** (`bitcoin/BRPeerManager.c`). State: blocks, orphans,
tip, estimated height, bloom filter, connected peers, download peer, published
transactions and their callbacks, relay counts. One thread per peer
(`BRPeer.c`) calls back under the manager's lock. Writes blocks, peers and
transaction heights through the sync manager to file. Hard: blocks in any order
from several peers, forks, rescans, restarts, filter updates, timeouts and
retries of publishing. Right when: the tip is the best block known, the
transactions confirmed are those of the main chain, a restart resumes where a
sync ended, each publish reports exactly once, a sync ends.

**Bitcoin sync manager** (`bitcoin/BRSyncManager.c`). Two implementations of one
interface: over the peer manager, and over a client (web service) with request
ids, a window of blocks and a scan that advances. Hard: late client answers,
disconnect, rescan and a change of mode during a scan. Right when: events tell
the owner how things stand, a stale answer changes nothing, a scan covers every
block for every address it found.

**Bitcoin wallet manager** (`bitcoin/BRWalletManager.c`). Owns wallet, sync
manager, file service and event handler; turns callbacks into wallet, transfer
and manager events. Hard: a transaction's record outlives its wallet entry;
mode switches; release. Right when: the records and the application's transfers
follow the wallet, and each event finds what its handler asserts.

**Ethereum block chain slice** (`ethereum/bcs/`). Headers, bodies, receipts and
account states arrive separately for a chain that is extended, reorganised,
truncated and saved. Hard: orphans, pending log and transaction status across
reorganisations. **Ethereum light client** (`ethereum/les/`): nodes, discovery
and provisions reassigned on failure.

**Ethereum wallet manager** (`ethereum/ewm/`). State: the connection, the block
height, the scan in progress with the numbers of its two requests, wallets and their
transfers, nonces. Its client announces transactions, logs, block numbers and nonces
and completes requests. Hard: completions that are late, failed or in any order, and
disconnects, syncs to a depth and reorganisations in between. Right when: the scans
leave out no block whose items were not announced, no scan lasts forever, and each
change of state the owner is told of follows the one before.

**Generic, Ripple and Hedera wallets** (`generic/`, `ripple/`, `hedera/`):
sequential wallets fed by one client. **Crypto facade** (`crypto/`): reference
counted wrappers. **Support** (`support/`): keys, sets, file service over SQLite.
Encodings, hashes, curve arithmetic, bindings and vendored code are functions on
bytes with reference vectors, or not this library's logic: not modelled.

`PROJECT.json` lists all of these with their status, and the hazards with the
line at which each bites.

## 2. Correspondence to the code

Names follow the source. Each module says at its head what one action is;
`PROJECT.json` maps each definition to its lines. An operator `X_Y` is `X` with
the plausible mistake `Y`; no specification uses it. It shows that a property
notices the mistake.

**EventHandler.** Queue operations are atomic: the queue's mutex is a leaf lock.
What blocks or spans locks is a program counter: `tpc` for handler threads,
`cpc` for a controller inside start, stop, clear or release. `Controllers` are
any threads; a `Client` takes the lock on dispatch as the manager's own calls
do; the alarm's callback is external to the handler and may fire whenever its
alarm is registered. Release is that of `BRWalletManagerFree`: a stop, then, with
the manager's lock, a destroy that stops again. `Create` and `Assign` are apart,
because the new thread runs before `pthread_create` has stored its id.
Dispatchers are opaque and end (they are not stuck forever). A controller does
not call a handler after some thread has begun to release it: that is the
caller's obligation in the code.

**AlarmClock.** One action is what the thread does from holding the lock until
it waits or releases it, callback included (the code calls back under the lock).
Starting and stopping are program counters. Spurious wake-ups are the same steps
as signals.

**Wallet.** A call is one action, for it holds `wallet->lock`; the callbacks it
makes are part of it. `saved` is the file, with the heights last reported.
`ledger` is what `_BRWalletUpdateBalance` computes: it is recomputed where the
code recomputes it, and only there. `Restart` reads the file in any of
`ReadOrders`. Abstractions: an outpoint is a pair, an output an address position
and an amount; `Replaceable` stands for every cause of "pending" (replaceable by
fee, dust, size, lock time), so timestamps and `wallet->blockHeight` are left out;
transactions are signed; removing a transaction with its dependents is one action
(the code's recursion lets go of the lock between them); amounts sent and
received, fees and making transactions are left out; a wallet that could not be
opened stays closed until the next restart, and so does one whose list has a
transaction that a confirmation freed (1037): what it would read is undefined.
`Without` is a list without some of its transactions. `GapExtended` is the address gap
`SEQUENCE_GAP_LIMIT_*_EXTENDED`, which is ten and more times the usual gap.

**PeerChain.** `Relay` is `_peerRelayedBlock` from taking the lock to releasing
it; its branches are operators of their own in the order of the code's else-ifs.
`next` is the orphan the same thread handles after the unlock. `Line` is a walk
over `prevBlock`; `stubs` are checkpoints that were built without one. `Purged`
is what the difficulty check frees. `file` is what `saveBlocks` has written. A
freed `lastBlock` or a lock that was not released leaves only `Restart`
(`Usable`). In the release build a block without a download peer is dropped; the
model takes that. Abstractions: the tree of blocks is a constant, difficulty is
valid, a block carries the wallet's transactions it has; locators, pings,
timeouts and the false positive rate are left out, so that a peer relays what it
likes; a filter update may be due at any time; a peer whose height is too low is
disconnected at once and does not appear.

**PeerManager.** A step is what is done under `manager->lock`. After the unlock a
thread calls its owner and may connect anew: `todo` is what it still has to do, in
the order of the code, for each peer's thread and for the caller. A peer is a place:
`thread` is where its thread is, `status` what others see, `awaited` the callbacks
that wait for its pong or mempool (and "asked", for `sentMempool`), `timer` a
scheduled timeout. `BRPeerDisconnect` closes a socket, if there is one; the thread
sees it and ends. `End` offers the errors that the place allows: a timeout only
while connecting or when a timer is set. `"LookedUp"` is the time in which addresses
are looked up without the lock. Callers hold the sync manager's or wallet manager's
lock, so there is one; callbacks do not take it (`BRWalletManager.c`, 1600-1612), so
a disconnect that waits for threads cannot block them. Abstractions: a chain is a
height, orphans and forks are `PeerChain`'s; one transaction, submitted up to
`Submissions` times; what other peers' transactions do to the filter is left out;
creating a thread does not fail.

**PeerSync** adds `isConnected` and `isFullScan`, which its events follow, to
`PeerManager`, which calls its `Started` and `Stopped`. Progress, height and
recommendation events are left out: they change nothing.

**ClientSync.** Every operation runs under the wallet manager's lock, whether the
application calls it or an event of the client is handled, so each is one action,
with the events it sends. `m` is the manager; `requests` are what the client was
asked for and has not completed. The client is external: it may answer as of any
height the service may have, announce in any order, fail, or not answer; an answer
is delivered once. `SyncEvents!After` is the owner's view (`told`): an event that
contradicts it gives `Confused`; the pairs are those that
`BRWalletManagerEventTypeIsValidPair` allows. `Update` is the block height request
and the start of a scan, which connect, rescan and tick share. The number of a request is `rid` of its
manager; a scan that asks again for new addresses keeps its number. Abstractions: one
chain of addresses, one address for each transaction; the height of the chain is
what block number announcements tell, at once or later; `wallet` keeps what it has
(nothing is removed); a submission does not fail midway. `skipped` is history: a scan
began above a block that the service, up to `Lag` behind, may not have known when the
height was set. `Mine` puts a transaction
into a block only if a wallet with the same seed could have handed out its address.

**BlockChainSlice.** Each handler runs on the slice's event thread to its end: an
action. `chain` is the list from tail to head, `strays` what still has a `next`
although it is off the list, so that it is not freed. `request` is the state of a
block's four questions, `held` the account's transfers that wait for the block to
be complete. `HeaderOrphaned`, `HeaderAdopted`, `HeaderAside`, `HeaderChained` and
`HeaderAborts` are the branches of `bcsExtendChainIfPossible` in their order,
`Settle` its common end. When the last block of the chain is orphaned, the assertion
ends the process (`chain` is empty and nothing more happens). A sync is the range
of heights it still has to report; it reports some header of it at a time and may
end at any time.

A start (`Restored`) puts every saved block on the chain in the order of a hash set, so in
any order, each on the one before whether that is its parent or not, and leaves out a block
that is followed by one of its height, as `bcsCreateInitializeBlocks` does; a chain that is
not linked is thus an initial state. `Trim` follows `bcsReclaimAndSaveBlocksIfAppropriate`
on such chains too: the unsigned difference of the heights (`Long`), the blocks it reclaims
wherever they are (`Reclaimed`) and those it loses without (`LeftBehind`). Where
`bcsSaveBlocks` would run past its array or fail its assertion, the process ends (`Saves`).
The validity gate of `bcsExtendTransactionsAndLogsForBlockIfAppropriate` is `Valid`: an
ordinary complete block without transfers has no total difficulty and stays known, even
off the chain, so that a header of its child finds it (`HeaderAborts`).

Abstractions: a header comes alone (the code handles a message's
headers one after the other); a log belongs to a transaction of somebody else's;
answers for blocks that were reclaimed meanwhile are ignored, as in the code; gas
prices and the release of memory are left out; nodes are not told apart.

**WalletManager.** `wallet` is the BRWallet as its callbacks see it: `known` is
`allTx`, `listed` the transactions it counts, `saved` the file. `record` is the
`BRTransactionWithState` that is found by hash (a deleted one is not found any more),
`queue` the event handler's, with the wallet's events (`TxAdded`, `TxUpdated`,
`TxDeleted`), the client's answers and the transfer and submission events that their
handlers signal; `transfer` is what the facade shows. A call of the wallet is one
step with its callbacks, which save and signal. What a peer's thread does after the
unlock, the callback of a publication, is a step of its own (`answers`,
`TxPublished`). `Dispatch` is the event thread: it takes the first event, and what its
handler signals goes to the end. A failed assertion names itself in `failed` and ends
the process; `Restart` makes a manager from what is saved. Abstractions: what `Wallet`
and `PeerManager` decide is chosen here (a peer has, relays or asks for a
transaction, a publication is given up, an unconfirmed one is removed, a chain is
reorganised); a removal is not that of a transaction whose relaying peer is about to
call back; a timestamp is 0 when a height is 0 or none; a request is current or not;
the user signs once and submits again only after an error; `BRWalletManagerFree` and
failures of the file service are left out.

**EthereumSync.** What holds `ewm->lock` is one step: the application's calls and what
the event handler dispatches. `brdSync` is the struct of that name, with the two numbers
as `rid` and the two flags as `completed`. `HandleSyncAPI` is what the timer, the event
that a connect signals and `SyncToDepth` share. `shown` is the owner's view: an event
that does not begin with the state told last makes it "Torn". `requests`, `answers` and
`numbers` are at the client and in the queue; each request is answered once, at any time.
`told` are the blocks whose items were announced; a reorganisation of up to `Offset`
blocks takes the replaced ones away. `past` is history: whether an answer failed or the
scan was ended (`bad`), whether the scan advanced in spite of it (`slipped`), and whether
a scan that a disconnect had ended was completed (`late`). Abstractions: the mode is
`CRYPTO_SYNC_MODE_API_ONLY`; what is announced is in the queue before its completion, so
both are one step; ids are as good as new once nothing carries them, and other requests
(balances, nonces, tokens) have none here; the depth of a sync is any block.

## 3. Runs

| run | question | result |
|---|---|---|
| `EventHandlerSafe` | safety, refinement of `EventDelivery` | holds |
| `EventHandlerLive` | calls return, events are consumed | holds |
| `AlarmClock` | early, never, lost, after removal | holds |
| `Wallet` | order, balance, conflicts, reorganisation, removal | holds |
| `PeerChain` | tip, orphans, confirmations, saved blocks | holds |
| `PeerChainFreed` | is the tip a block that is held? | no: a transition mined during a rescan |
| `PeerSync` | does a pointer outlive its peer, is a publication reported twice, does a disconnect return, is a lost connection noticed? | holds |
| `ClientSync` | events, numbers, coverage and end of scans | holds |
| `BlockChainSlice` | blocks put on their parents only, transfers handed out, pended again | holds |
| `EthereumSync` | what is missed, what the owner is told, do scans catch up? | holds, but for late and failed answers |
| `WalletManager` | do records and transfers follow the wallet, and events find what they need? | holds |
| `WalletManagerSubmit` | is a success reported before it shows? | no: the wallet's events can overtake it |

The runs with a "no" each check one property that a comment, an assertion or a
test of the code states; `PROJECT.json` quotes it with the counterexample.

**Divergences met and described only.** The models follow the code in these
orders too; no run is kept for them.
- `alarmClockThread` resets `threadQuit` when it first has the lock
  (`BREventAlarm.c`, 275). Start, stop until the quit flag is set, then the first
  step of the new thread: the stop joins a thread that never ends.
- A transaction that was removed stays in `allTx`; registered again it is reported
  as the wallet's and is not listed (`BRWallet.c`, 787). The outputs spent by a
  pending transaction stay in `utxos` when no later one is in effect (216). A
  change-spending child, registered again through `allTx` after its parent was
  removed, is alone on file after a restart; its confirmation frees it while it is
  listed (1037): in `Wallet`, `open` turns false.
- A tip set back by a rescan or a restart is no reorganisation: if another chain
  comes, the transactions of the old one stay confirmed (`BRPeerManager.c`, 1270).
  The same where a restart finds another chain on file. `HeightsOnChain` is stated of
  tips that were never set where the heights did not fit (`rewound`); going back on
  the tip's own chain and not below a confirmed transaction never sets it
  (`FitsBackOnTheChain`). `WalksEnd` excepts a tip that a rescan
  put on a checkpoint whose parent is not known (the code stops in its assertion,
  or keeps its lock in a release build).
- A scan begins at `MIN (syncedBlockHeight, endBlockNumber - offset)`
  (`BRSyncManager.c`, 1487), to "request the last X blocks, regardless" (1485), where X
  covers "the maximum number of days that the blockchain DB could be behind" (182). When
  the chain grew by more than X while nothing was scanned, the minimum is the height
  synced, and the blocks below it that the service had not stored then are never asked
  for again. `skipped` records it and `NothingMissed` is stated up to there; with
  `Lag = Offset = 2` a transaction is missed in 13 steps without it. With a service that
  is at most one block behind it cannot happen (`NoneSkipped`).
- A change of mode and back makes a sync manager that numbers its requests from 1
  again (`BRWalletManager.c`, 1311). A late answer to the old one can complete or
  fail a scan of the new one. `crossed` records it; `NothingMissed` and
  `OneAnswerDue` are stated up to there, `OwnerAgrees` and `ScansEnd` are not.
- A peer's thread that was not waited for, because it had no socket yet, calls back
  after a change of mode has freed the manager it calls (`BRPeerManager.c`, 1748),
  although the change is to "kill the sync manager to prevent any additional
  callbacks" (`BRWalletManager.c`, 1290). `PeerManager` lets the thread run on and
  does not free the manager.
- A disconnect sets `connectFailureCount` to its maximum (`BRPeerManager.c`, 1746)
  while a peer's thread has no socket yet; that peer's later failure makes it one more
  (820). Neither the test for giving up (842, an equality) nor the one for connecting
  anew (851) holds: `syncStopped` is not called and `syncStartHeight` stays set. The
  next connect then starts no sync, and the owner can be told DISCONNECTED twice, a
  pair that `BRWalletManagerEventTypeIsValidPair` does not allow.
- A block that a sync of the slice reports below its chain stays known, on no chain
  and no orphan. A header of its child has `bcsExtendChainIfPossible` orphan the whole
  chain in search of the parent ("Must be there; right?", `BREthereumBCS.c`, 1222),
  and its assertion fails (`HeaderAborts`).
- `bcsCreateInitializeBlocks` promises to "sort `blocks` ascending by {blockNumber,
  timestamp}" and to chain them "while ignoring any duplicates/orphans"
  (`BREthereumBCS.c`, 108), and does neither ("TODO: Sort", 115; "TODO: Check for orpahns",
  125). After a restart from more than one block the chain is in general not linked, and its
  head may be below its tail. The difference of their heights (741) is then huge, so that
  the first header that extends the chain reclaims and saves it, which frees the tail itself
  or runs past the array of `bcsSaveBlocks`. No property here says that a restarted chain is
  linked, since it is not: `ChainGrowsByChildren` says that no step after the start puts a
  block on another that is not its parent, and `Straightness` (section 4) that a start
  which happens to find the blocks in line has none of these consequences.
- A transaction that was removed stays in `allTx`. When it is relayed by all peers,
  mined or announced later, its update is signalled and finds no record: the
  assertion of `bwmHandleTxUpdated` fails (`BRWalletManager.c`, 1727), and a release
  build follows a null pointer. In `WalletManager` this is `failed = "recorded"`,
  which `AssertionsKept` leaves out.
- A publication that was given up can still be taken by a peer and be removed again
  before its callback is made: the failure then finds no transfer
  (`BRCryptoWalletManagerClient.c`, 453). This is `failed = "answered"`.
- A late success of a submission sets a transfer back from INCLUDED to SUBMITTED, a
  late failure to ERRORED (`BRCryptoWalletManagerClient.c`, 428 and 460), until the next
  change of height. `TransfersAgree` is stated of transactions not submitted.
- A reorganisation reports timestamp 0 but leaves the block's timestamp in the wallet
  and on file (`BRWallet.c`, 1063). A client may announce height 0 for what is not in a
  block (`System.java`, `BRCryptoSystem.swift`); the wallet does not take 0 for
  `TX_UNCONFIRMED`, so it counts as confirmed there and as submitted for the
  application.
- A submission of a transaction that is in `publishedTx` already (after an error, or
  relayed before) drops its callback (`BRPeerManager.c`, 228) and is never reported.
- A rescan forgets a sync that is on without `syncStopped` (1784), and the end of a
  download peer before its filter's pong stops the sync without an error (584).
- A scan of the Ethereum wallet manager advances if the answer that completes it
  succeeded, whatever the other one did (`BREthereumEWM.c`, 2352: "On success, advance
  the begBlockNumber"): when the transactions' request fails and the logs' succeeds
  after it, up to all blocks but the last three days' are not asked for again. A
  disconnect sets the beginning back to 0 but keeps the request numbers (698), unlike
  `ewmSyncToDepth`, which says why it does not (952); an answer that comes after it,
  in either state, moves the beginning on. "so that we don't have a situation where we
  miss transfers" (979) is `NothingMissed`, which these two orders violate, and no
  others: that is `MissedOnlyBySlip`. The same late answer tells the owner of a second
  end of the sync, from a state it is not in (`TornOnlyByLateAnswer`). A sync from the
  beginning asks for such blocks again.
- The comment on `blockHeight` calls it the largest number seen
  (`BREthereumEWMPrivate.h`, 107); `ewmUpdateBlockHeight` takes a lower one too.

**Bounds and why they suffice.**
- *EventHandler*: two controllers, for every conflict is between two calls; three
  events, so that out of band, in band and timeout events overtake each other; two
  threads created in a row for safety, so a flag left by the first life can harm
  the second. The liveness run has two events and one life: a second one would
  start from the state of the first. `clear` is left to the safety run.
- *AlarmClock*: two alarms (head and follower), periodic or one shot, three ticks
  with a period of two, so that a period can be missed.
- *Wallet*: a receipt, two conflicting spends of it of which one is replaceable,
  and a child of one: the least with parent, conflict and dependent. Two heights
  and blocks of up to two transactions in both orders.
- *PeerChain*: seven heights with three blocks an interval, so that the second
  transition frees blocks; a fork of two blocks across that transition; a block
  that contradicts a checkpoint; two peers, one of which may have less of the
  chain; two orphans at a time; one rescan or restart. Peers relay at most
  `ReorgDepth` below the tip, which with one block more is less than an interval,
  as with 2016 blocks an interval it always is.
- *PeerSync* (with `PeerManager`): one peer at a time, `MaxFailures` 2 of the code's
  20, one block, and five calls: a disconnect, a connect, a publication and what
  interferes. Two peers, of which one replaces the other, are too many for liveness;
  what they do to each other is left to the proofs of `PeersLive` and `ReportedOnce`,
  which hold for any number of them. Checked without symmetry.
- *ClientSync*: two transactions in a row of addresses with a gap of one, so that
  the first brings the address of the second to light; three blocks, of which the
  service may lack two, with an offset of two, so that scans begin below, at and above
  what was lacking; four numbers a manager, two managers, two requests due, so
  that a late one meets a scan of another number and of its own.
- *BlockChainSlice*: a line of four blocks above the genesis block and a rival of the second
  of them; that second one has a transaction and a log, and does not fit its parent, so that
  it is refused when it follows it and chained when it was an orphan before. Four starts: at
  a checkpoint with a transaction that failed, and three from two blocks, the upper of which
  waited for its body or not, with the transfers' block the upper or the lower; each of these
  in both orders. `SaveCount`
  (500 in the code) is 2, orphans age at once; one announcement depth and head, one height a
  rescan starts from and one transaction signalled. These are enough for a save that
  succeeds and one that ends the process, for a reorganisation by a header after a restart
  (the premise of `OrphanedIsPending`, which announcements meet as well), and for an orphan
  with a child. As in the code (`BCS_SAVE_BLOCKS_COUNT`, `BCS_ORPHAN_AGE_OFFSET`),
  orphans age sooner than blocks are reclaimed.
- *EthereumSync*: an offset of one and three blocks, so that a scan can be an ongoing
  one or not, begin at 0 or past it, and end behind its beginning; two disturbances
  (disconnects, syncs to a depth, failed answers, blocks, reorganisations), which reach
  both ways to slip; the proofs are for any number.
- *WalletManager*: a transaction the user makes and one of others; two blocks, so that
  a reorganisation takes back one of them or both; two submissions, so that one is
  repeated after an error; one restart. Others than the event thread signal while
  fewer than two events wait (the handlers themselves signal without a bound), which
  is enough for the wallet's and a submission's events to meet in both orders.

**Fairness.** Only what a scheduler gives. `EventHandler!Fairness`: a runnable
handler thread and a call in progress run (weak), a mutex that becomes free
again and again is eventually obtained (strong, on each lock step), a client
lets go of the lock on dispatch. Nobody has to signal, to call or to let an
alarm expire. `AlarmClock!FairSpec`: the clock's thread and calls in progress
run; time need not pass. `PeerSync!Fairness`: each thread goes on with what it has
begun, and one whose socket was closed sees it (weak); the tick, a periodic event
that needs the lock, comes some time while the connection is lost (strong). No
peer has to answer, no timeout has to fire. `ClientSync!Fairness`: some request
that waits for the client gets on (weak); the client may fail each. No owner has
to call anything. `EthereumSync!Fairness`: the timer's dispatch and the handling of
what was announced go on, and the client answers each request, if only with a failure
(weak): the code has no other end of a scan. `WalletManager`: the event thread goes on (weak), nobody else has
to. `Wallet`, `PeerChain` and `BlockChainSlice` are
checked for safety only: their steps are caused by others.

**Deadlock** is not checked: every component really may stop (released, closed,
disconnected, bound reached); that calls return is checked as liveness instead.

## 4. Proofs

`EventHandlerProofs` proves, for any set of controllers, any subset of calls,
with or without a timeout and a lock on dispatch, and for any bounds on events and
threads: `TypeCorrect`, `OneThread`, `WakeupsArrive`, `StopsTimeouts`,
`AbortIsLocal`, `ReleaseIsQuiet`, each of the form `Spec => []P`, and `Invariance`
of the inductive invariant they follow from. The only assumption is
`HandlerAssumption`: the constants have their types, and controllers, thread
numbers, events and `None` differ.

None of the properties is inductive: that a second start finds no thread depends
on who is inside the lock. `IInv` adds
- `LockInv`: exactly the calls at a place between lock and unlock hold the lock;
- `ThreadInv`: a live thread is `handler->thread`, or was created by a start that
  has yet to store it; places after the join imply there is none;
- `AlarmInv`: between which places an alarm and a timeout event can exist;
- `ReleaseInv`: a release excludes other calls and, once it has the manager's
  lock, any thread.

One lemma per part proves that each action keeps it, with a step per action.

`EventsAreKept` adds `EachEventOnce`. Its invariant `InOnePlace` says of the
numbers of events, as sets, that those pending, in dispatch, dispatched and
destroyed have no number in common and are together all that were given out.
It needs the invariant above: it is because one thread lives at most, which has
nothing in hand when it takes an event, that taking one loses none.

`Delivers` is the refinement, `Spec => ImplementsDelivery`. The queue up to the first
event signalled at its tail (`Ahead`) is the abstract queue of urgent events, the rest is
the other. That the urgent ones are all ahead is one more invariant (`UrgentFirst`). A
signal is an abstract signal because its number is in no place (`InOnePlace`); a thread
that takes an event finds none being served (`OneThread`); a clear and a destroy drop
what waits in both queues; every other step is a stutter (`OthersMoveNothing`). Whether an
event of the abstract specification is urgent is fixed by its kind, so an out of
band event that is queued at the tail is no abstract step.

`AlarmClockProofs` proves of `AlarmClock`, for any number of alarms, threads,
periods and times, `NeverOversleeps`, `NeverEarly`, `NoAlarmLost` and
`SilentOnceRemoved`. `IInv` adds that the list is sorted and its identifiers differ
(`Kept`), and that a thread that timed out did so after the time it waited for.
Sorted insertion keeps `Kept` because the place found is the first past all
alarms that are due no later; that there is one is an induction over the list's
places. `SilentOnceRemoved` follows from `NoAlarmLost`: the thread calls
only an alarm that is on the list.

`PeerManagerProofs` proves `PeersLive` of `PeerManager`, for any number of peers,
failures, blocks, calls and submissions. It is not inductive: a peer is freed by its
own thread some steps after the manager let go of it, and what the thread still has
to do in between decides. `IInv` adds the order of that work (`InOrder`): a
thread that ends has the disconnection or, once the manager has let go, the cleanup
as the last thing to do, and one that has not started yet or has a socket
belongs to a peer in `connectedPeers`. `SyncImplements` (`SyncSpec => Spec`) shows
that the sync manager of `PeerSync` only restricts and observes the peer manager,
so the theorem holds of that composition. The proofs assume of the constants what
`ConstantsAssumption` says; that a submission is none of the names of a thread's
steps is a matter of notation.

`ReportsOnce` adds `ReportedOnce`. `InOnePlace` says of a submission that it is
not made yet, the callback of what is published, in what one thread has to do, once,
or reported. Each action moves it from one place to the next or drops it; the proof
needs from the invariant above only what the threads' work looks like.

The same module extends `PeerChain` too and proves of it, for any tree of blocks,
transactions, checkpoints, peers, bounds, rescans and restarts, `TipIsTheHighest`,
`NoOrphanFollowsTheTip` and `HeightsAreOnTheChain`, under `PeerChainAssumption`. They
speak of `ChainSpec`, the ones before of `Spec`; no theorem assumes both. Of what is
assumed of the blocks the heights need two facts: a transaction is in one block of a
chain, and none of the wallet's is in the block it starts from or below it. `ChainInv`
is the conjunction of the three with the types, that what is held is finite and that
checkpoints are never freed. Nothing is known of which blocks are held: the transitions'
freeing cuts lines anywhere. What carries the proof is that a walk that got to a block has
passed every ancestor above that block (`LineOfAncestors`). So when a reorganisation
finds the join, the fork above it is complete, what is below it is common to both
chains, and undoing above it and confirming along the fork fits the whole ancestry of the
new tip (`FitsFork`). A walk is a recursive function; `LineIsLeast` shows that it has
a value, the least set that has the block and goes back. `NoOrphanOnTip` is inductive
as it stands, thread by thread: a block whose parent is the tip is never queued, and one
that becomes the tip takes what waits for it along.

`RestartGoesOn` proves `RestartResumes` from two conditions that the proof brought to
light and that not every tree and peer meets: when a download completes, the tip's line
still reaches a transition (`ReachesTransition`), and no two chains have left transitions
of one height on file (`OneTransition`). Without the first `saveBlocks` is given nothing:
a rescan moves the tip to another fork, a transition of the old one frees what they share,
and a download peer that reports less than the one before lets the new one complete.
Without the second, after a rescan that followed another fork across a transition, a
restart may start from either. Both hold throughout the run's instance. The invariant is
`Resumes`: no transition lies between the highest on file and the height of the last
complete download, and from that transition the file leads as high (`Brings`). A complete
save is a gapless piece of the tip's ancestry with a transition in it (`SavesSegment`),
from which a restart gets back to the top (`SegmentBrings`).

`WalletManagerProofs` proves `RecordsAgree` of `WalletManager`, for any number of
transactions, heights, submissions and restarts and any length of the queue. The
property speaks of an idle moment, so `IInv` says what waits (`Recorded`): of the
events about a transaction the addition is the first and the only one of its kind;
the last one about a listed transaction carries the height the wallet has; a removed
one has its removal in the queue or in its record. The lemmas say how this changes
when one event is appended (`AdditionTold`, `UpdateTold`, `DeletionTold`) and when the
first is handled (`OwnHandled`); every action appends events that fit what it does to
the wallet. A handler that asserts in vain ends the process, and the claim with it.

`AssertionsHold` and `TransfersFollow` prove `AssertionsKept` and `TransfersAgree` from a
second invariant, `TInv`, which is inductive beside `IInv` (`Delivery`). It says of the
events of a transfer that wait (`Shown`): they come in an order (`Before`), of which only
updates are repeated; the first finds the transfer as its handler asserts (`Ready`), and
each leaves it as any event that may follow demands; the record bounds which may wait
(`Within`), and the last is the one that shows it (`Closes`), so that when none waits the
transfer is the record's (`Settled`). That needs, of what is signalled: an addition
finds a record that is not referenced and an update one that is, which is `IInv`. Answers
to submissions break the order, so the state of a transfer is only claimed while it was not
submitted; that no answer can then be on its way, as a request, a callback or an event, is
`Unasked`.

`ClientSyncProofs` proves of `ClientSync`, for any wallet, addresses, gap, offset,
lag and bounds, `OwnerKnows` (`Spec => []OwnerAgrees`), `AnswersOnce`
(`Spec => []OneAnswerDue`) and `NoTransactionMissed`. `OwnerAgrees` is not inductive: after a completed scan
the owner's state is right only if a scan that is not in progress is not a full one,
and only if nothing is scanned without a connection. `OneAnswerDue` needs that
numbers are given out in order. `IInv` is their conjunction with
- `Manager`: the manager's fields; no full scan without a number or a connection; the
  number of a scan was given out;
- in the bitcoin network's mode the manager is not connected;
- `NumbersGrow`: a request has an epoch and, in the current one, a number given out.

The lemmas on `Update`, on ending a scan and on replacing a request are shared by
the actions; `OwnsIInv` and `AnswersIInv` have a step per action.

`NoTransactionMissed` (`Spec => []NothingMissed`) takes an invariant of its own, `CInv`,
for any transactions and addresses with any gap. `Coverage` is its heart: each transaction
that the scan in progress must find (`InScan`: between its beginning and its end less the
lag, at an address it knows) is in the wallet or with a request that will bring it. `Scan`
says that the scan begins where it may and knows only derived addresses, `Ledger` that a
transaction is mined at an address that could be derived from those before it. When a scan
completes because nothing new was derived, suppose it left transactions out; the first of
them, by block and then by address, uses an address that was derived from what is in the
wallet, so the scan had to find it (`NoneLeft`). `NoneSkipped` is its companion: with
`Lag <= 1` no scan skips a block, so the guard of `NothingMissed` costs nothing there.

`EthereumSyncProofs` proves of `EthereumSync`, for any offset, chain and number of
disturbances, `MissesOnlyBySlip` and `OwnerFollows`. That nothing was missed is not
inductive: when a scan completes, both its answers have to have covered what the next
one will leave out, and reorganisations must not have taken it back. `Due` are those
blocks; the invariant says that, while no answer failed and the scan was not ended,
every request of the scan asks for them (`Asked`), every answer that succeeded has them
(`Answered`) and every kind that completed has announced them (`Taken`). A disconnect
breaks this, and sets the beginning to 0, where nothing can be missed. What is due is
`Offset` blocks below the head, out of a reorganisation's reach (`Placed`).
`OwnerFollows` needs that a scan is in progress only while the manager is connected;
then what the owner was told is a function of the state and the scan (`Shows`).

`BlockChainSliceProofs` proves of `BlockChainSlice`, for any tree of blocks, heights,
transfers and saved blocks, `Linkage`, `HandsOut`, `AsksAgain` and `Straightness`, from
`BlockAssumption`. `IInv` holds of every chain that a start may make: it says that no block
is on the chain twice, that chain, orphans and strays are apart and known while the slice
runs, that a block which holds transfers has been asked for its proof (without this the
validity gate could withhold them), and that what is not known holds nothing, so that it
cannot withhold anything when it comes again. Linkage is not part of it, because a restart
may break it; instead each lemma of a step concludes `Allowed`: every link of the new chain is
from a block to its parent or was a link before (`LinkedFrom`), and a chain in line is lost to
`HeaderAborts` only. `Straightness` follows: if the start found its blocks in line, the chain
stays so, its heights rise by one (`HeightsRise`), so that each save finds its blocks
(`TrimInLine`). The orphans that follow a new block are a loop (`ChainOrphans`), whose every
step adds a child of the last block, above all that it added before (`OrphansFollow`);
reclaiming and purging leave a piece of the chain or of the orphans (`TrimLeaves`,
`PurgeLeaves`). `Settle` and the branches of a header have a lemma each. It follows from
`NothingWithheld` that the set `done` of `Settle`, what the end of `bcsExtendChainIfPossible`
hands out, is always empty: the check there (`BREthereumBCS.c`, 1229-1249) is a precaution.

`WalletProofs` proves all six properties of `Wallet`, for any transactions, scripts,
amounts, gap limits and heights: `Sorting`, `Conflicts`, `Confirmation`, `Balance`,
`Reorganisation` and `Removal`. The inductive invariant has the types, with a list that is
sorted and has nothing twice; that what is listed is known (`Known`); and `Fair`, what the
ledger says of the list. `Fair` is not about the code's loop but about its result:
- only unconfirmed transactions are invalid or pending (so a confirmation that does not
  compute the balance again changes nothing: `Confirmation`);
- of two listed transactions in conflict that are not invalid both are confirmed;
- the balance is the sum of the unspent outputs, and nothing in effect spends these.

While `_BRWalletUpdateBalance` goes through the list, `Counts` holds of the part it has
seen: what a transaction that is not invalid spends is in `spentOutputs`. Therefore the
second of a conflicting pair is found invalid, in whatever order the list has them. The balance is
a running sum in the code and the sum over a set in the property; that they agree is
three lemmas on sums that do not depend on the order (`SumRemove`, `SumUnion`,
`SumChange`). Sorted insertion (`InsertKeeps`) does not need the order by parents and chain
positions, which is not transitive, but only that it respects heights; for it
`TxIsAscending`, a recursion over parents, has to have a value at all (`Ascends`). That
a removal's loop finds dependents of dependents is a count: each round that adds one
uses up a place of the list (`DependentsAre`). A reorganisation reads the list from its
end until a height is low enough, which is right because the list is sorted (`TxAfterIs`).

Recursion over lists is written with recursive functions, and facts about them are proved
by the least counterexample (`LeastOf`, `CountUp`) and by the existence of a function
that iterates a step (`Iteration`): no induction theorem with an operator parameter is used.

Only model-checked:
- liveness (`CallsReturn`, `EventsConsumed`, `DueAlarmsFire`, `DisconnectEnds`,
  `LossIsTold`, `ScansEnd`, `CatchesUp`, `EveryTxIsTold`): out of the prover's reach;
- `WalksEnd` of `PeerChain`. It speaks of how many blocks lie between a fork, a
  transition and the tip. It holds for chains shaped as in the run and not for every
  tree: a fork as long as an interval loses its join when the tip's chain passes a
  transition, a released orphan can lag by an interval, and a peer that is behind a
  rescan's tip can relay a block on top of the old chain. A theorem would have to assume
  away what the model leaves to peers;
- that the two conditions of `RestartGoesOn` hold: TLC checks `RestartResumes` itself.

## 5. Plan

Done: the handler with the proof that it implements `EventDelivery`, the clock, the wallet, both sync managers, the peer manager and the
Ethereum slice with proofs of their safety; the record and transfer of a bitcoin transaction with
the proof that they follow the wallet, the scans of the Ethereum wallet manager with theirs;
the peer manager's chain with the proof of its tip, orphans, heights and restarts. Left, in this order:
1. Proofs: the walks of `PeerChain`, for forks shorter than an interval.
2. Composition: `ClientSync` and `PeerSync` under one wallet manager whose event
   handler is `EventHandler`; `PeerChain` with `Wallet` in place of `txHeight`; two
   handlers on one clock.
3. The Ethereum wallet manager's transfers and nonces: submission against announcements
   (`BREthereumEWMClient.c`, `BREthereumTransfer.c`), and the light client's provisions, which are reassigned when
   a node fails.

## Not modelled

Of the program's code the larger part is not state that several actors change.
Wire formats and their parsers (`BRTransaction.c`, `BRMerkleBlock.c`, RLP, LES
messages, protobuf), hashes and curves, 256 bit arithmetic and addresses are
functions on bytes, for which the repository has vectors; a model would repeat
them. The facade under `crypto/` forwards calls under reference counts, but for the
transfers' states (of which the bitcoin ones are in `WalletManager`), and the
generic, Ripple and Hedera wallets take one client's answers in one thread. Bindings,
generated and vendored code are not this program's logic. The light client and the
Ethereum transfers are worth models and have none yet (see the plan).

Of modelled components: relay counts, fee filters, the choice of addresses and the
bloom filter's false positives of the peer manager; how a sync of the slice divides
its range (`BREthereumBCSSync.c`) and asks for accounts; the modes of the Ethereum
wallet manager with a light client, its change of mode and its nonces; amounts, fees and signing of
the wallet; the creation of the clock. What unsynchronised accesses produce is not
modelled either: the clock's recovery edits the alarms without their lock
(`BREventAlarm.c`, 362), and a peer's arrays of callbacks are read by its thread while
others add to them (`BRPeer.c`, 1611).
