\* Handlers one at a time, up to two of them dying half-way.
SPECIFICATION Spec
CONSTANTS
    rt = rt  rw = rw
    rtAdmin = rtAdmin  rtTreasurer = rtTreasurer
    rwLeader = rwLeader  rwTreasurer = rwTreasurer  resident = resident
    s1 = s1  s2 = s2  s3 = s3  e1 = e1  e2 = e2
    Group = {rt, rw}
    NoGroup = NoGroup
    User = {rtAdmin, rtTreasurer, rwLeader, rwTreasurer}
    NoUser = NoUser
    Event = {e1}
    NoEvent = NoEvent
    Slot = {s1}
    ParentOf <- MCParentOf
    GroupOf <- MCGroupOf
    RoleOf <- MCRoleOf
    Opening <- MCOpening
    Op = {"create", "update", "delete", "submit", "approve", "cancel", "expense", "extend", "settle", "view"}
    Budget = {10, 20}
    Spending = {10, 20}
    Remaining <- MCRemaining
    Threshold = 10
    Tolerance = 1
    OnePerUser = TRUE
    MaxAborts = 2
    MaxBalance = 40
    MaxExpenses = 20
INVARIANTS
    TypeOK
    FundedIsApproved
    SubmittedHasReviewer
PROPERTIES
    HistoryIsContinuous
    DecisionsAreKept
CHECK_DEADLOCK FALSE
