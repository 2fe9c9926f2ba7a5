CONSTANTS
    Conns = {c1, c2}
    MaxId = 3
SPECIFICATION FairSpec
INVARIANTS GrantIsApproved SlotIsOwn
PROPERTY RefusedFrees
CHECK_DEADLOCK FALSE
