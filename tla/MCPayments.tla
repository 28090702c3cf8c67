------------------------------ MODULE MCPayments ------------------------------
(* One RT under one RW, the RT's treasurer and one resident; and the mapping *)
(* of the orders to PaymentOrder.                                            *)
EXTENDS PaymentRefinement, TLC

CONSTANTS rt, rw, rtTreasurer, resident, s1, s2

MCParentOf == rt :> rw @@ rw :> NoGroup
MCGroupOf == [u \in User |-> rt]
MCRoleOf == rtTreasurer :> "TREASURER" @@ resident :> "RESIDENT"
MCOpening == rt :> 30 @@ rw :> 15
MCJoined == [u \in User |-> 1]
MCRate == rt :> 3 @@ rw :> 2
=============================================================================
