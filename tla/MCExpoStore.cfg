SPECIFICATION Spec
CONSTANTS
    None = None
    keyed = keyed
    plain = plain
    key = key
    Ids = {i1, i2}
    Intents = {keyed, plain}
    Keys = {key}
    KeyOf <- MCKeyOf
    MutationIds = {m1, m2}
    MaxExpected = 0
    Calls = {c1, c2}
SYMMETRY Interchangeable
INVARIANTS
    TypeOK
    KeysAreUnique
PROPERTY
    ImplementsLedger
