SPECIFICATION Spec
CONSTANTS
    c1 = c1
    c2 = c2
    e1 = e1
    o1 = o1
    v1 = v1
    v2 = v2
    NoClient = NoClient
    NoValue = NoValue
    NoSnapshot = NoSnapshot
    Live = Live
    Absent = Absent
    PastEnd = PastEnd
    Clients <- MCClients
    Keys <- MCKeys
    Values <- MCValues
    Enumerators <- MCEnumerators
    Observers <- MCObservers
    WatchedKeys <- MCWatchedKeys
    Offers <- MCOffers
CONSTRAINT Focus
SYMMETRY MCSymmetry
INVARIANTS
    WaitersAreWoken
    QueriesAgree
    ObserversFollow
PROPERTIES
    SnapshotsStay
    ImplementsStore
