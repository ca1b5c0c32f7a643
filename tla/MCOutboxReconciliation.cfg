SPECIFICATION ReconcileSpec
CONSTANTS
    Key <- MCKey
    Message <- MCMessage
    Capacity = 3
    None = None
    MaxKeys = 3
    MaxRows = 2
    Reports = {"Queued", "Preparing", "Failed"}
    ChatYieldTurns = 1
    MaxFaults = 2
INVARIANTS
    SubmittedOnce
    ShownIsTrue
PROPERTIES
    StatusAdvances
