\* Two events with additional funds, handlers and the job one at a time.
SPECIFICATION FundingSpec
CONSTANTS
    rt = rt  rw = rw
    rtAdmin = rtAdmin  rtTreasurer = rtTreasurer
    rwLeader = rwLeader  rwTreasurer = rwTreasurer  resident = resident
    s1 = s1  s2 = s2  s3 = s3  e1 = e1  e2 = e2  f1 = f1  f2 = f2
    Group = {rt, rw}
    NoGroup = NoGroup
    User = {rtAdmin, rtTreasurer, rwLeader, rwTreasurer}
    NoUser = NoUser
    Event = {e1, e2}
    NoEvent = NoEvent
    Slot = {s1}
    ParentOf <- MCParentOf
    GroupOf <- MCGroupOf
    RoleOf <- MCRoleOf
    Opening <- MCOpening
    Op = {"create", "update", "delete", "submit", "approve", "cancel", "expense", "extend", "settle", "view"}
    Budget = {10, 20}
    Spending = {10, 20}
    Remaining <- MCRemaining
    Threshold = 10
    Tolerance = 1
    OnePerUser = TRUE
    MaxAborts = 0
    MaxBalance = 40
    MaxExpenses = 20
    FundRequest = {f1, f2}
    NoRequest = NoRequest
    FundOp = {"askfund", "review"}
    FundAmount = {3, 5}
    Scheduler = TRUE
    Overlap = FALSE
SYMMETRY Ids
INVARIANTS
    BudgetIsCovered
    UnderReviewIsAnswerable
    CancelledReturnsMoney
    OffersAreAccepted
    EveryEventIsOffered
    FinalReportIsTrue
PROPERTIES
    ImplementsFlow
CHECK_DEADLOCK FALSE
