\* The journal with three records and two keys.
CONSTANTS
    k1 = k1
    k2 = k2
    m1 = m1
    m2 = m2
    bad = bad
    None = None
    Key <- MCKey
    Message <- MCMessage
    Malformed <- MCMalformed
    Capacity = 3
SYMMETRY Symmetry
SPECIFICATION Spec
INVARIANTS
    TypeOK
    AckedIsDurable
    OneRecordPerKey
    AlwaysMountable
    IndexMatchesMedia
PROPERTY ImplementsDurableOutbox
