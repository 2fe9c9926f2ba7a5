SPECIFICATION Spec
CONSTANTS
    MaxIf = 2
    Cap = 1
    InTurn = TRUE
    KernelFreqs = {2412, 5180, 6215}
    PropFreqs = {5745}
INVARIANTS RuleIsCurrent WifiKept
PROPERTIES WindowIsWithdrawn KillSwitchReported DeadLinkReleased FollowsWanted
