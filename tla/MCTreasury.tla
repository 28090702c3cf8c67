------------------------------ MODULE MCTreasury ------------------------------
(* One RT under one RW, and their officers; the leader's reports include the  *)
(* one a resident may ask for.                                                *)
EXTENDS Treasury, TLC

CONSTANTS rt, rw, rtTreasurer, rwLeader, rwTreasurer, s1, s2

MCParentOf == rt :> rw @@ rw :> NoGroup
MCGroupOf == [u \in User |-> IF u = rtTreasurer THEN rt ELSE rw]
MCRoleOf == [u \in User |-> IF u = rwLeader THEN "LEADER" ELSE "TREASURER"]
MCOpening == rt :> 1 @@ rw :> 2
Slots == Permutations(Slot)

\* Short, high, and short with a name that needs more.
MCTransactionTable ==
    [space |-> 11, title |-> 0, header |-> 3, total |-> 4,
     cells |-> {[measured |-> 3, name |-> 2], [measured |-> 6, name |-> 6],
                [measured |-> 3, name |-> 5]}]
MCSummaryTable ==
    [space |-> 12, title |-> 2, header |-> 3, total |-> 3,
     cells |-> {[measured |-> 3, name |-> 3], [measured |-> 3, name |-> 4]}]
=============================================================================
