SPECIFICATION FairSpec
CONSTANTS
    Mains = {m1, m2, m3}
    Nobody = Nobody
    Gone = Gone
    Ttl = 2
    MaxFaults = 2
    MaxRestarts = 1
INVARIANTS
    TypeOK
    FreshLeaderHoldsKey
PROPERTIES
    EventuallyOneLeader
