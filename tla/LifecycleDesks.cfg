\* An administrator, a treasurer and a reader at the same time, without cancellations.
SPECIFICATION Spec
CONSTANTS
    rt = rt  rw = rw
    rtAdmin = rtAdmin  rtTreasurer = rtTreasurer
    rwLeader = rwLeader  rwTreasurer = rwTreasurer  resident = resident
    s1 = s1  s2 = s2  s3 = s3  e1 = e1  e2 = e2
    Group = {rt, rw}
    NoGroup = NoGroup
    User = {rtAdmin, rtTreasurer, resident}
    NoUser = NoUser
    Event = {e1, e2}
    NoEvent = NoEvent
    Slot = {s1, s2}
    ParentOf <- MCParentOf
    GroupOf <- MCGroupOf
    RoleOf <- MCRoleOf
    Opening <- MCOpening
    Op = {"create", "update", "delete", "submit", "approve", "expense", "extend", "settle", "view"}
    Budget = {10, 20}
    Spending = {10, 20}
    Remaining = {0, 9, 11}
    Threshold = 20
    Tolerance = 1
    OnePerUser = TRUE
    MaxAborts = 0
    MaxBalance = 40
    MaxExpenses = 20
INVARIANTS
    MoneyFollowsStatus
    RefundsWithinPayments
    ReportSettlesMoney
CHECK_DEADLOCK FALSE
