SPECIFICATION Spec
CONSTANTS
    MAX_UPGRADE_ATTEMPTS = 1
    MaxAsk = 1
    MaxSay = 2
CHECK_DEADLOCK FALSE
INVARIANTS CleanMove
PROPERTIES InOrder Delivered
