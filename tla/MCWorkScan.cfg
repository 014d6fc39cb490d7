SPECIFICATION Spec
CONSTANTS
    Size = 3
    Passes = {p1, p2}
    Limit = 2
    MaxMishaps = 1
INVARIANTS
    TypeOK
    PassReachesAll
PROPERTIES
    DueWorkIsTaken
