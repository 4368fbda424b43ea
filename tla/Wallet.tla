------------------------------- MODULE Wallet -------------------------------
(***************************************************************************)
(* The bitcoin wallet (bitcoin/BRWallet.c): the transactions it knows, the  *)
(* sorted list of those that are its own, the balance and unspent outputs   *)
(* computed from that list, and the address chains that decide what is its  *)
(* own.  Around it: the peer or sync manager that registers transactions,   *)
(* announces blocks and reorganisations and gives up on transactions nobody *)
(* relays, and the files from which the wallet is rebuilt.                  *)
(*                                                                          *)
(* Each call holds wallet->lock for all it changes and is one action; the   *)
(* callbacks that save a transaction belong to the call that makes them.    *)
(* Scripts, amounts, signatures and hashes are constants of a transaction.  *)
(* wallet->blockHeight, which only the lockTime of a transaction is         *)
(* compared with, and timestamps are left out.                              *)
(*                                                                          *)
(* An operator X_Y is X with the mistake Y in it; no specification uses it. *)
(***************************************************************************)
EXTENDS Integers, FiniteSets, FiniteSetsExt, Sequences, SequencesExt, Functions

CONSTANTS
    Tx,            \* the transactions anybody ever makes
    Ins,           \* [Tx -> sets of outpoints <<transaction, index>>]
    Outs,          \* [Tx -> sequences of outputs [addr, amount]]
    Replaceable,   \* transactions that wait when unconfirmed: replaceable
                   \* by fee, dust, too large, or locked
    Gap,           \* SEQUENCE_GAP_LIMIT_EXTERNAL and _INTERNAL
    GapExtended,   \* the same at creation (.._EXTENDED)
    MaxAddr,       \* bound: the highest address position an output pays
    ReadOrders,    \* the orders in which BRSetAll may list what is on file
    MaxBlock,      \* bound: the transactions of a block
    MaxHeight      \* bound: the highest block

Chains == {"internal", "external"}

ASSUME WalletAssumption ==
    /\ Gap \in Nat \ {0} /\ GapExtended \in Nat \ {0} /\ MaxAddr \in Nat
    /\ MaxBlock \in Nat /\ MaxHeight \in Nat
    /\ Replaceable \subseteq Tx
    /\ \A order \in ReadOrders : order \in Seq(Tx) /\ Range(order) = Tx /\ IsInjective(order)
    /\ DOMAIN Ins = Tx /\ DOMAIN Outs = Tx
    /\ \A t \in Tx : Outs[t] \in Seq([addr : (Chains \cup {"foreign"}) \X (0..MaxAddr),
                                     amount : Nat])

Unconfirmed == MaxHeight + 1       \* TX_UNCONFIRMED: above every height

VARIABLES
    allTx,      \* wallet->allTx
    list,       \* wallet->transactions
    height,     \* tx->blockHeight of the transactions in allTx
    derived,    \* the lengths of the internal and external chain
    ledger,     \* what _BRWalletUpdateBalance computes: see UpdateBalance
    saved,      \* the transactions on file, with the height of height
    open,       \* BRWalletNew did not return NULL, and no transaction of the
                \* list was freed
    mined       \* the block chain the wallet is told of: a transaction's
                \* block, 0 for none

walletVars == <<allTx, list, height, derived, ledger>>
vars == <<walletVars, saved, open, mined>>

Parents(t) == {o[1] : o \in Ins[t]}
Conflict(t, u) == t # u /\ Ins[t] \cap Ins[u] # {}
Listed == Range(list)
Outputs(t) == {<<t, n>> : n \in DOMAIN Outs[t]}
Amount(o) == Outs[o[1]][o[2]].amount
PKH(o) == Outs[o[1]][o[2]].addr
AllPKH(o, d) == PKH(o)[1] \in Chains /\ PKH(o)[2] <= d[PKH(o)[1]]   \* wallet->allPKH

(* SelectSeq in a form that can be reasoned about: s without what is gone.  *)
Without(s, gone) ==
    LET kept[n \in 0..Len(s)] ==
            IF n = 0 THEN <<>>
            ELSE IF s[n] \in gone THEN kept[n - 1] ELSE Append(kept[n - 1], s[n])
    IN  kept[Len(s)]
-----------------------------------------------------------------------------
(***************************************************************************)
(* The order of the list: by height, then parents first, then by the chain  *)
(* position of an address both pay.                                         *)
(***************************************************************************)
TxIsAscending(tx1, tx2, known, h) ==
    LET asc[t \in Tx] ==
            \/ h[t] > h[tx2]
            \/ /\ h[t] = h[tx2]
               /\ \/ tx2 \in Parents(t)
                  \/ t \notin Parents(tx2) /\ \E p \in Parents(t) \cap known : asc[p]
    IN  asc[tx1]

(* Chain position of the tx output that is furthest down the chain.         *)
TxChainIndex(t, c, d) ==
    LET pos == {PKH(o)[2] : o \in {o \in Outputs(t) : AllPKH(o, d) /\ PKH(o)[1] = c}}
    IN  IF pos = {} THEN 0 ELSE Max(pos)

TxComesAfter(tx1, tx2, known, h, d) ==
    \/ TxIsAscending(tx1, tx2, known, h)
    \/ /\ ~TxIsAscending(tx2, tx1, known, h)
       /\ LET i(c) == TxChainIndex(tx1, c, d)
              j(c) == TxChainIndex(tx2, c, d)
              c == IF i("internal") # 0 /\ j("internal") # 0 THEN "internal" ELSE "external"
          IN  i(c) > j(c) /\ j(c) # 0

InsertTx_AtEnd(txs, t, known, h, d) == Append(txs, t)

InsertTx(txs, t, known, h, d) ==
    LET place[i \in 0..Len(txs)] ==
            IF i > 0 /\ TxComesAfter(txs[i], t, known, h, d) THEN place[i - 1] ELSE i
    IN  InsertAt(txs, place[Len(txs)] + 1, t)

(* Pays a wallet address, or spends an output that does.                    *)
ContainsTx(t, known, d) ==
    \/ \E o \in Outputs(t) : AllPKH(o, d)
    \/ \E o \in Ins[t] : /\ o[1] \in known
                         /\ o \in Outputs(o[1]) /\ AllPKH(o, d)
-----------------------------------------------------------------------------
(***************************************************************************)
(* _BRWalletUpdateBalance: everything is computed again from the list.      *)
(***************************************************************************)
NoLedger == [invalid |-> {}, pending |-> {}, spent |-> {}, used |-> {},
             utxos |-> {}, balance |-> 0, balanceHist |-> <<>>]

(* An unconfirmed transaction spends what is spent or depends on such a one.*)
IsInvalid(l, t) == Ins[t] \cap l.spent # {} \/ Parents(t) \cap l.invalid # {}

IsPending(l, t) == t \in Replaceable \/ Parents(t) \cap l.pending # {}

Skip(l) == [l EXCEPT !.balanceHist = Append(@, l.balance)]

(* The spent outputs leave again: a spender may stand before its parent.    *)
AddOutputs_KeepSpent(l, t, d) ==
    LET mine == {o \in Outputs(t) : AllPKH(o, d)}
        gone == l.utxos \cap l.spent
        b == l.balance + MapThenSumSet(Amount, mine) - MapThenSumSet(Amount, gone)
    IN  [l EXCEPT !.used = @ \cup {PKH(o) : o \in mine},
                  !.utxos = (@ \cup mine) \ gone,
                  !.balance = b, !.balanceHist = Append(@, b)]

AddOutputs(l, t, d) ==
    LET mine == {o \in Outputs(t) : AllPKH(o, d)}
        gone == (l.utxos \cup mine) \cap l.spent
        b == l.balance + MapThenSumSet(Amount, mine) - MapThenSumSet(Amount, gone)
    IN  [l EXCEPT !.used = @ \cup {PKH(o) : o \in mine},
                  !.utxos = (@ \cup mine) \ gone,
                  !.balance = b, !.balanceHist = Append(@, b)]

AddTx_PendingSpendsNothing(l, t, h, d) ==
    LET spending == [l EXCEPT !.spent = @ \cup Ins[t]]
    IN  IF h[t] = Unconfirmed /\ IsInvalid(l, t)
          THEN Skip([l EXCEPT !.invalid = @ \cup {t}])
        ELSE IF h[t] = Unconfirmed /\ IsPending(l, t)
          THEN Skip([l EXCEPT !.pending = @ \cup {t}])
        ELSE AddOutputs(spending, t, d)

AddTx(l, t, h, d) ==
    LET spending == [l EXCEPT !.spent = @ \cup Ins[t]]
    IN  IF h[t] = Unconfirmed /\ IsInvalid(l, t)
          THEN Skip([l EXCEPT !.invalid = @ \cup {t}])
        ELSE IF h[t] = Unconfirmed /\ IsPending(l, t)
          THEN Skip([spending EXCEPT !.pending = @ \cup {t}])
        ELSE AddOutputs(spending, t, d)

UpdateBalance(txs, h, d) ==
    LET after[n \in 0..Len(txs)] ==
            IF n = 0 THEN NoLedger
            ELSE CHOOSE l \in {AddTx(m, txs[n], h, d) : m \in {after[n - 1]}} : TRUE
    IN  after[Len(txs)]

(* BRWalletUnusedAddrs: the chain grows until its last gap addresses are    *)
(* not used.                                                                *)
UnusedAddrs(d, used, gap) ==
    LET lastUsed(c, n) == CHOOSE k \in 0..n : /\ k = 0 \/ <<c, k>> \in used
                                              /\ \A m \in (k + 1)..n : <<c, m>> \notin used
    IN  [c \in Chains |->
            CHOOSE n \in d[c]..(d[c] + MaxAddr + gap) :
                /\ lastUsed(c, n) + gap <= n
                /\ \A m \in d[c]..(n - 1) : lastUsed(c, m) + gap > m]
-----------------------------------------------------------------------------
(***************************************************************************)
(* BRWalletNew on the transactions on file, in the order they are read.     *)
(* A wallet that does not contain the first of them is not opened.          *)
(***************************************************************************)
New(order, h) ==
    LET none == [c \in Chains |-> 0]
        used == {PKH(o) : o \in UNION {Outputs(t) : t \in Range(order)}}
        txs[n \in 0..Len(order)] ==
            IF n = 0 THEN <<>>
            ELSE InsertTx(txs[n - 1], order[n], {order[i] : i \in 1..n}, h, none)
    IN  /\ allTx' = Range(order)
        /\ list' = txs[Len(order)]
        /\ derived' = UnusedAddrs(none, used, GapExtended)
        /\ ledger' = UpdateBalance(list', h, derived')
        /\ height' = h

Opens(order, d) == order = <<>> \/ ContainsTx(order[1], Range(order), d)

Init ==
    /\ allTx = {} /\ list = <<>> /\ ledger = NoLedger
    /\ derived = UnusedAddrs([c \in Chains |-> 0], {}, GapExtended)
    /\ height = [t \in Tx |-> Unconfirmed]
    /\ saved = {} /\ open = TRUE
    /\ mined = [t \in Tx |-> 0]

(***************************************************************************)
(* The process ends and starts again: only the files remain.                *)
(***************************************************************************)
Restart ==
    \E all \in ReadOrders :
        LET order == Without(all, Tx \ saved)
            onFile == [t \in Tx |-> IF t \in saved THEN height[t] ELSE Unconfirmed]
        IN  /\ New(order, onFile)
            /\ open' = Opens(order, derived')
            /\ UNCHANGED <<saved, mined>>
-----------------------------------------------------------------------------
(***************************************************************************)
(* BRWalletRegisterTransaction: a transaction arrives, unconfirmed.  What   *)
(* is not the wallet's own is kept too, for the sake of later ones.         *)
(***************************************************************************)
RegisterTransaction(t) ==
    /\ open
    /\ allTx' = allTx \cup {t}
    /\ IF t \notin allTx /\ ContainsTx(t, allTx, derived)
         THEN /\ list' = InsertTx(list, t, allTx', height, derived)
              /\ ledger' = UpdateBalance(list', height, derived)
              /\ derived' = UnusedAddrs(derived, ledger'.used, Gap)
              /\ saved' = saved \cup {t}
         ELSE UNCHANGED <<list, ledger, derived, saved>>
    /\ UNCHANGED <<height, open, mined>>

(***************************************************************************)
(* BRWalletRemoveTransaction: the transaction and the listed ones that      *)
(* depend on it leave the list and the files; allTx keeps them.  The peer   *)
(* manager calls it for unconfirmed transactions of the list.               *)
(***************************************************************************)
Dependents_Alone(t) == {t}

Dependents(t) ==
    LET reach[n \in 0..Len(list)] ==
            IF n = 0 THEN {t}
            ELSE reach[n - 1] \cup {u \in Listed : /\ height[u] >= height[t]
                                                   /\ Parents(u) \cap reach[n - 1] # {}}
    IN  reach[Len(list)]

RemoveTransaction(t) ==
    /\ open /\ t \in Listed /\ height[t] = Unconfirmed
    /\ \E gone \in {Dependents(t)} :
          /\ list' = Without(list, gone)
          /\ saved' = saved \ gone
    /\ ledger' = UpdateBalance(list', height, derived)
    /\ UNCHANGED <<allTx, height, derived, open, mined>>
-----------------------------------------------------------------------------
(***************************************************************************)
(* BRWalletUpdateTransactions: the height of each hash in turn.  An own     *)
(* transaction is sorted in again if the list has it, and reported (saved); *)
(* a confirmed one of others is forgotten, and freed: if the list has it,   *)
(* only a restart helps.  Only a transaction that was invalid or pending    *)
(* makes the balance be computed again.                                     *)
(***************************************************************************)
NeedsUpdate_PendingOnly(t) == t \in ledger.pending

NeedsUpdate(t) == t \in ledger.pending \/ t \in ledger.invalid

Resort(txs, t, known, h) ==
    IF t \in Range(txs) THEN InsertTx(Without(txs, {t}), t, known, h, derived) ELSE txs

UpdateTransaction(r, t, h) ==
    LET heights == [r.height EXCEPT ![t] = h]
    IN  IF t \notin r.allTx \/ (r.height[t] = h /\ h # Unconfirmed)
          THEN r
        ELSE IF ContainsTx(t, r.allTx, derived)
          THEN [r EXCEPT !.height = heights, !.list = Resort(@, t, r.allTx, heights),
                         !.saved = @ \cup {t}, !.needs = @ \/ NeedsUpdate(t)]
        ELSE IF h # Unconfirmed
          THEN [r EXCEPT !.allTx = @ \ {t}]
        ELSE r

UpdateTransactions(hashes, h) ==
    LET now == [allTx |-> allTx, list |-> list, height |-> height, saved |-> saved,
                needs |-> FALSE]
        after[n \in 0..Len(hashes)] ==
            IF n = 0 THEN now
            ELSE CHOOSE r \in {UpdateTransaction(m, hashes[n], h) : m \in {after[n - 1]}} : TRUE
    IN  /\ open
        /\ \E r \in {after[Len(hashes)]} :
              /\ allTx' = r.allTx /\ list' = r.list
              /\ height' = r.height /\ saved' = r.saved
              /\ open' = (Range(r.list) \subseteq r.allTx)
              /\ ledger' = IF r.needs THEN UpdateBalance(r.list, r.height, derived) ELSE ledger
        /\ UNCHANGED derived

Tip == Max({0} \cup Range(mined))

(* A block no transaction of which is in conflict with the chain.           *)
BlockRelayed(hashes) ==
    LET block == Range(hashes)
        chain == {t \in Tx : mined[t] # 0} \cup block
    IN  /\ Tip < MaxHeight /\ IsInjective(hashes)
        /\ \A t \in block : /\ mined[t] = 0
                            /\ Parents(t) \cap Tx \subseteq chain
                            /\ \A u \in chain : ~Conflict(t, u)
        /\ mined' = [t \in Tx |-> IF t \in block THEN Tip + 1 ELSE mined[t]]
        /\ UpdateTransactions(hashes, Tip + 1)

(* A rescan relays a block again, to a wallet that did not know t then.     *)
BlockRepeated(t) ==
    /\ mined[t] # 0 /\ height[t] # mined[t]
    /\ UpdateTransactions(<<t>>, mined[t])
    /\ UNCHANGED mined

(* Peers relay or reject an unconfirmed transaction: its timestamp changes. *)
RelayCounted(t) ==
    /\ t \in allTx /\ height[t] = Unconfirmed
    /\ UpdateTransactions(<<t>>, Unconfirmed)
    /\ UNCHANGED mined

(***************************************************************************)
(* BRWalletSetTxUnconfirmedAfter, on a reorganisation down to h.            *)
(***************************************************************************)

(* From the end of the list as far as the heights are above h.              *)
TxAfter_OffByOne(h) ==
    LET first[i \in 0..Len(list)] ==
            IF i > 0 /\ height[list[i]] > h + 1 THEN first[i - 1] ELSE i
    IN  {list[i] : i \in (first[Len(list)] + 1)..Len(list)}

TxAfter(h) ==
    LET first[i \in 0..Len(list)] ==
            IF i > 0 /\ height[list[i]] > h THEN first[i - 1] ELSE i
    IN  {list[i] : i \in (first[Len(list)] + 1)..Len(list)}

SetTxUnconfirmedAfter(h) ==
    /\ open /\ h < Tip
    /\ mined' = [t \in Tx |-> IF mined[t] > h THEN 0 ELSE mined[t]]
    /\ height' = [t \in Tx |-> IF t \in TxAfter(h) THEN Unconfirmed ELSE height[t]]
    /\ ledger' = IF TxAfter(h) = {} THEN ledger ELSE UpdateBalance(list, height', derived)
    /\ saved' = saved \cup TxAfter(h)
    /\ UNCHANGED <<allTx, list, derived, open>>

Next ==
    \/ \E t \in Tx : RegisterTransaction(t)
    \/ \E t \in Tx : RemoveTransaction(t)
    \/ \E n \in 1..MaxBlock : \E hashes \in [1..n -> Tx] : BlockRelayed(hashes)
    \/ \E t \in Tx : BlockRepeated(t)
    \/ \E t \in Tx : RelayCounted(t)
    \/ \E h \in 0..MaxHeight : SetTxUnconfirmedAfter(h)
    \/ Restart

Spec == Init /\ [][Next]_vars
-----------------------------------------------------------------------------
(* The list has no transaction twice and is sorted by height through every  *)
(* insertion, confirmation and reorganisation, which searches for confirmed *)
(* transactions from its end.                                               *)
SortedByHeight ==
    \A i, j \in DOMAIN list :
        i < j => list[i] # list[j] /\ height[list[i]] <= height[list[j]]

(* Two listed transactions that spend the same output are not both taken    *)
(* into account as long as one of them is unconfirmed.                      *)
NoDoubleSpend ==
    \A t, u \in Listed \ ledger.invalid :
        Conflict(t, u) => height[t] # Unconfirmed /\ height[u] # Unconfirmed

(* A confirmed transaction counts, whatever it was before its block came.   *)
ConfirmedCounts ==
    \A t \in Listed : height[t] # Unconfirmed =>
        t \notin ledger.invalid \cup ledger.pending

(* The balance is the sum of the unspent outputs; these are own outputs of  *)
(* listed transactions in effect that no other one in effect spends.        *)
InEffect == Listed \ (ledger.invalid \cup ledger.pending)

BalanceIsUnspent ==
    /\ ledger.balance = MapThenSumSet(Amount, ledger.utxos)
    /\ \A o \in ledger.utxos :
          /\ o[1] \in InEffect /\ AllPKH(o, derived)
          /\ \A t \in InEffect : o \notin Ins[t]

(* After a reorganisation down to h no listed transaction is still          *)
(* confirmed in a block above h.                                            *)
ReorgUnconfirms ==
    [][\A h \in 0..MaxHeight : SetTxUnconfirmedAfter(h) =>
          \A t \in Listed : height'[t] \notin (h + 1)..MaxHeight]_vars

(* A removal takes along every unconfirmed transaction that depends on what *)
(* it takes, directly or through others.                                    *)
RemovalTakesDependents ==
    [][\A t \in Listed \ Listed' : RemoveTransaction(t) =>
          \A u \in Listed' : height[u] = Unconfirmed =>
              Parents(u) \cap (Listed \ Listed') = {}]_vars
=============================================================================
