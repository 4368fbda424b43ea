--------------------------- MODULE MCBlockChainSlice ---------------------------
(* Four blocks above the genesis block, enough for blocks to be reclaimed, and *)
(* a rival of the second of them.  That one holds a transaction and a log and   *)
(* does not fit its parent: it is refused if it comes after it, and chained if  *)
(* it was an orphan before.                                                     *)
EXTENDS BlockChainSlice, TLC

CONSTANTS g, b1, a2, b2, b3, b4, root, tx, log

MCBlock == {g, b1, a2, b2, b3, b4}
MCParent == g :> root @@ b1 :> g @@ a2 :> b1 @@ b2 :> b1 @@ b3 :> b2 @@ b4 :> b3
MCNumber == g :> 0 @@ b1 :> 1 @@ a2 :> 2 @@ b2 :> 2 @@ b3 :> 3 @@ b4 :> 4
MCRank == g :> 0 @@ b1 :> 1 @@ b2 :> 2 @@ a2 :> 3 @@ b3 :> 4 @@ b4 :> 5
MCInBody == [b \in MCBlock |-> IF b = b2 THEN {tx} ELSE {}]
MCInReceipts == [b \in MCBlock |-> IF b = b2 THEN {log} ELSE {}]

\* A first start, at a checkpoint, and restarts with the two blocks that are saved.
\* The first of them found one of the blocks without its body.
Fresh == [blocks |-> {g}, waiting |-> {}, status |-> tx :> "errored" @@ log :> None]
Unfilled == [blocks |-> {b1, b2}, waiting |-> {b2}, status |-> tx :> None @@ log :> None]
Filled == [blocks |-> {b1, b2}, waiting |-> {}, status |-> tx :> b2 @@ log :> b2]
Later == [blocks |-> {b2, b3}, waiting |-> {b3}, status |-> tx :> b2 @@ log :> b2]
MCSaved == {Fresh, Unfilled, Filled, Later}
================================================================================
