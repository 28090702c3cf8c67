----------------------------- MODULE MCCommunity -----------------------------
(* The seed: an RW with its leader and treasurer, an RT with its              *)
(* administrator; room for a treasurer and a group more.                      *)
EXTENDS Community, TLC

CONSTANTS rw, rt, new, leader, admin, treasurer, other, s1, s2, e1

MCGroup == rw :> [type |-> "RW", parent |-> NoGroup]
        @@ rt :> [type |-> "RT", parent |-> rw]
        @@ new :> [type |-> "ABSENT", parent |-> NoGroup]
MCUser == leader :> [status |-> "active", role |-> "LEADER", group |-> rw]
       @@ admin :> [status |-> "active", role |-> "ADMIN", group |-> rt]
       @@ treasurer :> [status |-> "active", role |-> "TREASURER", group |-> rw]
       @@ other :> [status |-> "absent", role |-> "RESIDENT", group |-> rt]
Slots == Permutations(Slot)
=============================================================================
