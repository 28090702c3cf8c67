------------------------------ MODULE MCPaymentPage -----------------------------
(* Two RTs under one RW.  The first has a treasurer and two residents, one of *)
(* whom came later; the second has nobody and no rate.                       *)
EXTENDS PaymentPage, TLC

CONSTANTS rt, rt2, rw, rtTreasurer, resident, neighbour, s1

MCParentOf == rt :> rw @@ rt2 :> rw @@ rw :> NoGroup
MCGroupOf == [u \in User |-> rt]
MCRoleOf == [u \in User |-> IF u = rtTreasurer THEN "TREASURER" ELSE "RESIDENT"]
MCOpening == rt :> 30 @@ rt2 :> 0 @@ rw :> 15
MCJoined == [u \in User |-> IF u = neighbour THEN 2 ELSE 1]
MCRate == rt :> 2 @@ rt2 :> 0 @@ rw :> 1
=============================================================================
