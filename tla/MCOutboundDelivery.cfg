\* Two records, two faults.
CONSTANTS
    k1 = k1
    k2 = k2
    m1 = m1
    c1 = c1
    c2 = c2
    None = None
    Key <- MCKey
    Message <- MCMessage
    Malformed = {}
    Capacity = 2
    CommandId <- MCCommandId
    MaxFaults = 2
SPECIFICATION FairDelivery
INVARIANTS
    MarkedOnlyWhenProven
    DeliveredInOrder
    OneCommandAwaited
PROPERTY AckedIsDelivered
