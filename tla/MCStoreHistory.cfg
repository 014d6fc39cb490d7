SPECIFICATION Spec
CONSTANTS
    None = None
    keyed = keyed
    plain = plain
    key = key
    Ids = {i1}
    Intents = {keyed, plain}
    Keys = {key}
    KeyOf <- MCKeyOf
    MutationIds = {m1, m2, m3}
    MaxExpected = 1
    Stores = {s1, s2}
SYMMETRY Interchangeable
INVARIANTS
    TypeOK
    LedgerIsComplete
    JournalMatchesLedger
    AnswersAreDurable
PROPERTY
    ImplementsLedger
