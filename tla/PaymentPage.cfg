\* The payment page of one resident, the payments of another, and the
\* notifications of the gateway.
SPECIFICATION FairPageSpec
CONSTANTS
    rt = rt  rw = rw  rt2 = rt2  rtTreasurer = rtTreasurer
    resident = resident  neighbour = neighbour  s1 = s1
    Group = {rt, rt2, rw}
    NoGroup = NoGroup
    User = {rtTreasurer, resident, neighbour}
    Event = {}
    Slot = {s1}
    ParentOf <- MCParentOf
    GroupOf <- MCGroupOf
    RoleOf <- MCRoleOf
    Opening <- MCOpening
    Order = {1, 2}
    Joined <- MCJoined
    Rupiah = 1
    InitialRate <- MCRate
    NewRate = {1}
    StartMonth = 2
    LastMonth = 3
    MonthCount = {2}
    OtherAmount = {}
    Refusal = {"expire", "deny"}
    Visitor = resident
    YearLength = 2
INVARIANTS
    PopupIsTrue
    RecapMatchesBills
PROPERTIES
    PageFollowsOrder
CHECK_DEADLOCK FALSE
