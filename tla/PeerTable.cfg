CONSTANTS
    Peer = {p}
    LOST_UNANSWERED = 1
    LOST_AFTER = 2
    Leases = {1}
    GRACE = 2
    DEBOUNCE = 1
    FAILURES = 1
    MaxMoves = 3
    MaxCalls = 1
SPECIFICATION Spec
 
PROPERTIES VouchedStays AdvertisingFollows 
CHECK_DEADLOCK FALSE
