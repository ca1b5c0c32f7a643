SPECIFICATION Spec
CONSTANTS
    Message <- MCMessage
    Extents = 3
    IndexCapacity = 2
    PayloadSize = 2
    FooterSize = 1
    None = None
INVARIANTS
    OneRecordPerMessage
    AlwaysMountable
    SpanIsOurs
    IndexMatchesMedia
PROPERTY
    ImplementsDurableInbox
