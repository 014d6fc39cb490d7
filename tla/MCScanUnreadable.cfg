SPECIFICATION Spec
CONSTANTS
    Size = 2
    Passes = {p1}
    Limit = 2
    MaxMishaps = 1
PROPERTIES
    UnreadableIsIsolated
