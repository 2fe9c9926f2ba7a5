CONSTANTS
    Clients = {a, b}
    Strikes = 2
    MaxGen = 2
SPECIFICATION FairSpec
INVARIANTS ExemptHasCloser
PROPERTIES WindowCloses
CHECK_DEADLOCK FALSE
