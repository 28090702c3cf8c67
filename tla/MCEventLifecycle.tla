--------------------------- MODULE MCEventLifecycle ---------------------------
(* One RT under one RW, the five people the handlers care about. *)
EXTENDS EventLifecycle, TLC

CONSTANTS rt, rw, e1, e2, rtAdmin, rtTreasurer, rwLeader, rwTreasurer, resident, s1, s2, s3

MCParentOf == rt :> rw @@ rw :> NoGroup
MCGroupOf == [u \in User |-> IF u \in {rtAdmin, rtTreasurer, resident} THEN rt ELSE rw]
MCRoleOf == [u \in User |-> CASE u = rtAdmin -> "ADMIN" [] u = rwLeader -> "LEADER"
                              [] u = resident -> "RESIDENT"
                              [] OTHER -> "TREASURER"]
MCOpening == rt :> 30 @@ rw :> 15
MCRemaining == {0, 9, 10}
=============================================================================
