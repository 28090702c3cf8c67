\* The rate may rise above what an order was billed at.
SPECIFICATION Spec
CONSTANTS
    rt = rt  rw = rw  rtTreasurer = rtTreasurer  resident = resident  s1 = s1  s2 = s2
    Group = {rt, rw}
    NoGroup = NoGroup
    User = {rtTreasurer, resident}
    Event = {}
    Slot = {s1}
    ParentOf <- MCParentOf
    GroupOf <- MCGroupOf
    RoleOf <- MCRoleOf
    Opening <- MCOpening
    Order = {1, 2}
    Joined <- MCJoined
    Rupiah = 1
    InitialRate <- MCRate
    NewRate = {8}
    StartMonth = 2
    LastMonth = 2
    MonthCount = {1}
    OtherAmount = {}
    Refusal = {"expire", "deny"}
INVARIANTS
    CreditedOnce
CHECK_DEADLOCK FALSE
