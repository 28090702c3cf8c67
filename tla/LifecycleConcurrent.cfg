\* Any two handlers at once, also of one user, one death half-way; every call ends.
SPECIFICATION FairSpec
CONSTANTS
    rt = rt  rw = rw
    rtAdmin = rtAdmin  rtTreasurer = rtTreasurer
    rwLeader = rwLeader  rwTreasurer = rwTreasurer  resident = resident
    s1 = s1  s2 = s2  s3 = s3  e1 = e1  e2 = e2
    Group = {rt, rw}
    NoGroup = NoGroup
    User = {rtAdmin, rtTreasurer, rwLeader, rwTreasurer}
    NoUser = NoUser
    Event = {e1}
    NoEvent = NoEvent
    Slot = {s1, s2}
    ParentOf <- MCParentOf
    GroupOf <- MCGroupOf
    RoleOf <- MCRoleOf
    Opening <- MCOpening
    Op = {"create", "update", "delete", "submit", "approve", "cancel"}
    Budget = {20}
    Spending = {1, 10, 11, 20}
    Remaining <- MCRemaining
    Threshold = 10
    Tolerance = 1
    OnePerUser = FALSE
    MaxAborts = 1
    MaxBalance = 40
    MaxExpenses = 20
PROPERTIES
    DeletedIsFinal
    CallsEnd
CHECK_DEADLOCK FALSE
