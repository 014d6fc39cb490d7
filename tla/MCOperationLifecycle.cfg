SPECIFICATION Spec
CONSTANTS
    None = None
    o1 = o1
    o2 = o2
    Owners = {o1, o2}
    HoldReasons = {"CREDENTIALS"}
    ContractVersions = {"v1", "v2"}
    Policies <- MCPolicies
    Readinesses <- MCReadinesses
    MaxTime = 2
    MaxReschedules = 2
    LeaseDurations = {2}
    Jitters = {0, 2}
    AttemptIds = {1, 2}
SYMMETRY OwnerSymmetry
INVARIANTS
    TypeOK
    OperationInvariants
    ScheduledWorkHasBudget
    RetryAfterKept
PROPERTIES
    UncertaintyEndsByBackend
    StepsAreFenced
    WorkRunsOut
    RetriesAreInRange
    KeepsPromise
