SPECIFICATION Spec
CONSTANTS
    w1 = w1
    w2 = w2
    vault = vault
    k = k
    half = half
    ecdsa = ecdsa
    contract = contract
    passkey = passkey
    token = token
    r1 = r1
    r2 = r2
    rcurve = rcurve
    Wallets = {w1, w2}
    Vaults = {vault}
    Passkeys = {}
    HalfZero = {}
    CurveValues = {rcurve}
    EcdsaRegistries = {ecdsa}
    ContractRegistries = {contract}
    PasskeyRegistries = {}
    SessionKeyManager = SessionKeyManager
    ForwardFlow = ForwardFlow
    Account = Account
    Zero = Zero
    None = None
    Roots <- TwoRoots
    Leaves <- LeavesOfR
    Windows <- OneWindow
    Births <- BornEither
    Tried <- TriedCalls
    MaxTime = 1
    MaxOps = 3
    MaxBundle = 2
INVARIANTS
    TypeOK
    OnlyGranted
PROPERTIES
    SessionsOnlyPay
    RenouncedForGood
CHECK_DEADLOCK FALSE
