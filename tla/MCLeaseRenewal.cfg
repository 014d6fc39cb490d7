SPECIFICATION Spec
CONSTANTS
    None = None
    Operations = {o1, o2}
    Activations = {a1, a2, a3}
    LeaseDuration = 2
    Lead = 1
    MaxExecutions = 2
    MaxVerifications = 1
INVARIANTS
    TypeOK
PROPERTIES
    DeadOwnersWorkComesFree
    WorkComesToRest
CHECK_DEADLOCK FALSE
