SPECIFICATION Spec
CONSTANTS
    Ids <- TwoIds
    Signers <- OneSigner
    Forger = Forger
    Limits = {1}
    Prices = {1, 2}
    PostGas = {1}
    Overheads = {2}
    None = None
    Fail = Fail
    Amounts = {6}
    MaxFunds = 10
    MaxDepth = 4
    MaxOps = 2
    dapp1 = dapp1
    dapp2 = dapp2
    s1 = s1
SYMMETRY SymmIds
INVARIANTS
    TypeOK
    Solvent
    GuardFollowsCalls
PROPERTIES
    EveryOpPays
    ImplementsTank
