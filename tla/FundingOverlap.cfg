\* Every operation, with the job at the same time and one death half-way.
SPECIFICATION FundingFairSpec
CONSTANTS
    rt = rt  rw = rw
    rtAdmin = rtAdmin  rtTreasurer = rtTreasurer
    rwLeader = rwLeader  rwTreasurer = rwTreasurer  resident = resident
    s1 = s1  s2 = s2  s3 = s3  e1 = e1  e2 = e2  f1 = f1  f2 = f2
    Group = {rt, rw}
    NoGroup = NoGroup
    User = {rtAdmin, rtTreasurer, rwLeader, rwTreasurer}
    NoUser = NoUser
    Event = {e1}
    NoEvent = NoEvent
    Slot = {s1}
    ParentOf <- MCParentOf
    GroupOf <- MCGroupOf
    RoleOf <- MCRoleOf
    Opening <- MCOpening
    Op = {"create", "delete", "submit", "approve", "cancel", "expense"}
    Budget = {20}
    Spending = {10, 20}
    Remaining <- MCRemaining
    Threshold = 10
    Tolerance = 1
    OnePerUser = TRUE
    MaxAborts = 1
    MaxBalance = 40
    MaxExpenses = 20
    FundRequest = {f1}
    NoRequest = NoRequest
    FundOp = {"createfund", "approvefund", "rejectfund", "askfund", "review"}
    FundAmount = {5}
    Scheduler = TRUE
    Overlap = TRUE
INVARIANTS
PROPERTIES
    ExpiredIsClosed
CHECK_DEADLOCK FALSE
