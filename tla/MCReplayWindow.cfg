SPECIFICATION Spec
CONSTANTS
    None = None
    v1 = v1
    ContractVersions = {v1}
    Guarantee <- MCGuarantee
    MaxExecutions = 4
    MaxDelay = 2
    Skews = {0, 3}
    BaseIsTrusted = TRUE
    MaxTime = 14
INVARIANTS
    TypeOK
    EffectOnce
    ReplayIsCovered
