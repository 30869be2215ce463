SPECIFICATION FairSpec
CONSTANTS
    Tabs = {t1, t2}
    Users = {u1}
    Patient = {t1}
    None = None
    Stale = Stale
    TTL = 1
    FlowAge = 1
    MaxRestarts = 1
INVARIANTS
    TypeOK
    OnlyDisturbedAreBadRequests
    GoneWithinTTL
    LandsWhereItAsked
PROPERTIES
    ImplementsGate
    LoneTabGetsIn
