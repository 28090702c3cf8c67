\* Two handlers at once, bookings or reports; a page holds two short rows.
SPECIFICATION Spec
CONSTANTS
    rt = rt  rw = rw
    rtTreasurer = rtTreasurer  rwLeader = rwLeader  rwTreasurer = rwTreasurer
    s1 = s1  s2 = s2
    Group = {rt, rw}
    NoGroup = NoGroup
    User = {rtTreasurer, rwLeader, rwTreasurer}
    Event = {}
    Slot = {s1, s2}
    ParentOf <- MCParentOf
    GroupOf <- MCGroupOf
    RoleOf <- MCRoleOf
    Opening <- MCOpening
    Amount = {1}
    MaxAmount = 1
    MaxRows = 3
    LastDay = 2
    PageTop = 0
    PageBottom = 13
    Slack = 1
    TableStart = {0, 2, 3, 4, 13}
    TransactionTable <- MCTransactionTable
    SummaryTable <- MCSummaryTable
SYMMETRY Slots
INVARIANTS
    OverdraftIsBounded
    BalancesAreExplained
    TablesAreWhole
CHECK_DEADLOCK FALSE
