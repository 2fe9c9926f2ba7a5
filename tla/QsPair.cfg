CONSTANTS
    Files = {f1, f2}
SPECIFICATION PairSpec
INVARIANTS Agreement
PROPERTIES BothEnd
CHECK_DEADLOCK FALSE
