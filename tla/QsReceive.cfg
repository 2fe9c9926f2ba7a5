CONSTANTS
    Files = {f1}
    Texts = {t}
    Slow = TRUE
    DeferCap = 1
    MaxDeferred = 2
    MaxOut = 1
SPECIFICATION FairSpec
INVARIANTS Consent OutcomeIsState
PROPERTIES EndsWithoutPeer CancelEndsMoved HandoversEnd
CHECK_DEADLOCK FALSE
