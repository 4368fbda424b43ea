------------------------------ MODULE MCWallet ------------------------------
(***************************************************************************)
(* Wallet for TLC.  Four transactions: a payment to the wallet's first      *)
(* address, a spend of it with change, another spend of it that conflicts   *)
(* with the first and is replaceable, and a spend of the change.            *)
(***************************************************************************)
EXTENDS Wallet, TLC

CONSTANTS receipt, spend, double, child

Out(c, k, a) == [addr |-> <<c, k>>, amount |-> a]
Foreign(a) == Out("foreign", 0, a)

MCIns ==
    [t \in Tx |->
        CASE t = receipt -> {<<"coin1", 1>>}
          [] t \in {spend, double} -> {<<receipt, 1>>}
          [] t = child -> {<<spend, 2>>}]

MCOuts ==
    [t \in Tx |->
        CASE t = receipt -> <<Out("external", 1, 8)>>
          [] t = spend -> <<Foreign(3), Out("internal", 1, 4)>>
          [] t = double -> <<Out("internal", 1, 2)>>
          [] t = child -> <<Out("external", 2, 1)>>]

(* An order in which the file service's set lists transactions: children    *)
(* between their parents and their conflicts; and the opposite one.         *)
MCReadOrders ==
    LET order == <<child, receipt, double, spend>> IN {order, Reverse(order)}
=============================================================================
