SPECIFICATION GasSpec
CONSTANTS
    WORD <- Word
    TargetGas <- Targets
    GasLeft <- Gas
    Costs = {100}
INVARIANTS
    TargetGetsItsGas
CHECK_DEADLOCK FALSE
