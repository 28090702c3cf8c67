\* Two orders of one resident, for dues or not, and the RT's rate may fall: two
\* handlers that may die at any await, and the gateway's notifications.
SPECIFICATION FairSpec
CONSTANTS
    rt = rt  rw = rw  rtTreasurer = rtTreasurer  resident = resident  s1 = s1  s2 = s2
    Group = {rt, rw}
    NoGroup = NoGroup
    User = {rtTreasurer, resident}
    Event = {}
    Slot = {s1, s2}
    ParentOf <- MCParentOf
    GroupOf <- MCGroupOf
    RoleOf <- MCRoleOf
    Opening <- MCOpening
    Order = {1, 2}
    Joined <- MCJoined
    Rupiah = 4
    InitialRate <- MCRate
    NewRate = {2}
    StartMonth = 2
    LastMonth = 2
    MonthCount = {2}
    OtherAmount = {9}
    Refusal = {"expire"}
INVARIANTS
    PaymentsTypeOK
    PaidIsCredited
    CreditedOnce
    EveryMonthOnce
    MonthsArePaidFor
    MonthsAreGiven
PROPERTIES
    ImplementsOrder
CHECK_DEADLOCK FALSE
