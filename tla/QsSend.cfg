CONSTANTS
    Files = {f1, f2}
    Empty = {f2}
    Slow = TRUE
    Safe = TRUE
    DeferCap = 2
    MaxOut = 2
SPECIFICATION FairSpec
INVARIANTS PayloadAfterAcceptance StoppedMeansTold OutcomeIsState
PROPERTIES EndsWithoutPeer AcceptanceNotLost
CHECK_DEADLOCK FALSE
