SPECIFICATION Spec
CONSTANTS
    None = None
    Waiters = {w1, w2}
    Watchers = {v1}
    Throwers = {v1}
    Passes = {p1, p2}
    MaxDisposals = 2
INVARIANTS
    TypeOK
    PendingIsReachable
    NothingLeaks
    SettledAsStored
    EndIsOnItsWay
PROPERTIES
    AnnouncedEndIsHeard
