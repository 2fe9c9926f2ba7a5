SPECIFICATION GateSpec
CONSTANTS
    MaxFail = 1
    MaxMeddle = 1
INVARIANTS NotTakenFromUse
PROPERTIES RadioFreed UseKeepsRadio
