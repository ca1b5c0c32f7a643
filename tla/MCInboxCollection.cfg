SPECIFICATION FairCollect
CONSTANTS
    Receipt <- MCReceipt
    Ids = {m1, m2, m3}
    HandleNumbers = {1, 2, 3}
    None = None
    MaxFaults = 3
    MaxRequests = 2
INVARIANTS
    ToldIsDurable
    AlwaysMountable
    CursorInInbox
    CollectedIsImported
    ScanIsImported
PROPERTIES
    EventuallyCollected
