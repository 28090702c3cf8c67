\* Fund requests beside deletions, several calls of a user at the same time, deaths.
SPECIFICATION FundingSpec
CONSTANTS
    rt = rt  rw = rw
    rtAdmin = rtAdmin  rtTreasurer = rtTreasurer
    rwLeader = rwLeader  rwTreasurer = rwTreasurer  resident = resident
    s1 = s1  s2 = s2  s3 = s3  e1 = e1  e2 = e2  f1 = f1  f2 = f2
    Group = {rt, rw}
    NoGroup = NoGroup
    User = {rtAdmin, rwTreasurer}
    NoUser = NoUser
    Event = {e1}
    NoEvent = NoEvent
    Slot = {s1, s2}
    ParentOf <- MCParentOf
    GroupOf <- MCGroupOf
    RoleOf <- MCRoleOf
    Opening <- MCOpening
    Op = {"create", "delete"}
    Budget = {10}
    Spending = {1, 10, 11, 20}
    Remaining <- MCRemaining
    Threshold = 10
    Tolerance = 1
    OnePerUser = FALSE
    MaxAborts = 1
    MaxBalance = 40
    MaxExpenses = 20
    FundRequest = {f1, f2}
    NoRequest = NoRequest
    FundOp = {"createfund", "approvefund", "rejectfund"}
    FundAmount = {5, 10}
    Scheduler = FALSE
    Overlap = FALSE
INVARIANTS
    ApprovedIsPaid
CHECK_DEADLOCK FALSE
