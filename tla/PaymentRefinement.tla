--------------------------- MODULE PaymentRefinement ---------------------------
(***************************************************************************)
(* Payments implements PaymentOrder: an order is charged when the gateway   *)
(* has settled it, and has arrived when log rows are tagged with it.        *)
(***************************************************************************)
EXTENDS Payments

Promise == INSTANCE PaymentOrder WITH
    price <- [o \in Order |-> order[o].amount],
    charged <- {o \in Order : gateway[o] = Settled},
    arrived <- {o \in Order : credited[o] # 0},
    total <- SumFunction(balance)

(***************************************************************************)
(* Whatever is charged arrives in the wallets in the end, once and in full, *)
(* although handlers race and die and the order may show another status.    *)
(***************************************************************************)
ImplementsOrder == Promise!OrderSpec
=============================================================================
