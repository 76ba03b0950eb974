SPECIFICATION Spec
CONSTANTS
    Chains <- SomeChains
    Modules <- TwoModules
    Fee = 2
    Costs = {1, 2}
    MaxFaults = 2
    MaxNonce = 2
INVARIANTS
    Wired
    StakedOnce
PROPERTIES
    HandedOverStaked
    Completes
