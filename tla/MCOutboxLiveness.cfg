SPECIFICATION FairReconcile
CONSTANTS
    Key <- MCKey
    Message <- MCMessage
    Capacity = 4
    None = None
    MaxKeys = 3
    MaxRows = 3
    Reports = {"Queued"}
    ChatYieldTurns = 1
    MaxFaults = 1
PROPERTIES
    EventuallyCaughtUp
    LanesServed
