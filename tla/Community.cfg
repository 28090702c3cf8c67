\* Two officers, whose requests may overlap.
SPECIFICATION Spec
CONSTANTS
    rw = rw  rt = rt  new = new
    leader = leader  admin = admin  treasurer = treasurer  other = other
    s1 = s1  s2 = s2  e1 = e1
    Group = {rw, rt, new}
    NoGroup = NoGroup
    User = {leader, admin, treasurer, other}
    NoUser = NoUser
    Event = {e1}
    Slot = {s1, s2}
    NewRole = {"TREASURER"}
    InitialGroup <- MCGroup
    InitialUser <- MCUser
    MaxRequests = 4
SYMMETRY Slots
INVARIANTS
    CommunityTypeOK
    OneTreasurer
    ApproverExists
PROPERTIES
    FixRepairsAll
CHECK_DEADLOCK FALSE
