----------------------------- MODULE PaymentOrder -----------------------------
(***************************************************************************)
(* What a payer is promised of an order: its price is fixed when it is      *)
(* made, and once charged, that price arrives in the wallets, exactly once. *)
(***************************************************************************)
EXTENDS Integers

CONSTANT Order
VARIABLES
    price,      \* [Order -> Nat], 0 until the order is made
    charged,    \* the orders the payer has paid
    arrived,    \* those of them whose money is in the wallets
    total       \* the money in the wallets

orderVars == <<price, charged, arrived, total>>

Make(o) ==
    /\ price[o] = 0 /\ price'[o] > 0
    /\ price' = [price EXCEPT ![o] = price'[o]]
    /\ UNCHANGED <<charged, arrived, total>>

Charge(o) ==
    /\ price[o] > 0 /\ o \notin charged
    /\ charged' = charged \cup {o}
    /\ UNCHANGED <<price, arrived, total>>

Arrive(o) ==
    /\ o \in charged \ arrived
    /\ arrived' = arrived \cup {o}
    /\ total' = total + price[o]
    /\ UNCHANGED <<price, charged>>

OrderInit ==
    /\ price = [o \in Order |-> 0]
    /\ charged = {} /\ arrived = {}
    /\ total \in Int

OrderNext == \E o \in Order : Make(o) \/ Charge(o) \/ Arrive(o)

OrderSpec ==
    /\ OrderInit /\ [][OrderNext]_orderVars
    /\ \A o \in Order : WF_orderVars(Arrive(o))
=============================================================================
