--------------------------- MODULE MCWalletManager ---------------------------
(***************************************************************************)
(* WalletManager for TLC: a transaction of the user's and one that others   *)
(* make.                                                                    *)
(***************************************************************************)
EXTENDS WalletManager

CONSTANTS own, other

MCTx == {own, other}
MCMade == {own}
=============================================================================
