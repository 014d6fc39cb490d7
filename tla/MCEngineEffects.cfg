SPECIFICATION Spec
CONSTANTS
    None = None
    e1 = e1
    e2 = e2
    p1 = p1
    p2 = p2
    p3 = p3
    Owners = {e1, e2}
    Passes = {p1, p3}
    OwnerOf <- MCOwnerOf
    Policies <- MCPolicies
    HoldReasons = {}
    ContractVersions = {"v1"}
    LeaseDuration = 2
    LeaseLead = 1
    MaxTime = 2
    MaxReschedules = 1
    Jitters = {0}
    ClockJumps = TRUE
    StorageMayFail = TRUE
    AbsenceCloses = TRUE
INVARIANTS
    TypeOK
    AtMostOneEffect
    OutcomeIsTrue
    SnapshotIsRow
PROPERTIES
    DeadLeasesRunOut
