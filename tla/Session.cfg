SPECIFICATION FairSpec
CONSTANTS
    Account = {a}
    Stranger = Stranger
    rw = rw
    rt = rt
    rt2 = rt2
    NoGroup = NoGroup
    Group <- Groups
    ParentOf <- Parents
    Home = {rw, rt}
    Nobody = Nobody
    MaxInFlight = 1
INVARIANT NothingIsRefused
PROPERTY SessionEnds
