SPECIFICATION ClientSpec
CONSTANTS
    w1 = w1
    w2 = w2
    vault = vault
    ecdsa = ecdsa
    contract = contract
    token = token
    r1 = r1
    Wallets = {w1, w2}
    Vaults = {vault}
    Passkeys = {}
    HalfZero = {}
    CurveValues = {}
    EcdsaRegistries = {ecdsa}
    ContractRegistries = {}
    PasskeyRegistries = {}
    SessionKeyManager = SessionKeyManager
    ForwardFlow = ForwardFlow
    Account = Account
    Zero = Zero
    None = None
    Unset = Unset
    Roots = {}
    Leaves <- LeavesOfR
    Windows = {}
    Births <- BornEither
    Tried <- TriedCalls
    Templates <- TwoTemplates
    SignerSets <- SomeSigners
    Rank <- RankOf
    MaxTime = 0
    MaxOps = 1
    MaxBundle = 1
    MaxNonce = 2
    MaxSigned = 2
INVARIANT
    OncePerFlow
CHECK_DEADLOCK FALSE
