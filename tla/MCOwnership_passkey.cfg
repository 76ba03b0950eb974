SPECIFICATION Spec
CONSTANTS
    w1 = w1
    w2 = w2
    vault = vault
    k = k
    half = half
    ecdsa = ecdsa
    contract = contract
    passkey = passkey
    token = token
    r1 = r1
    r2 = r2
    rcurve = rcurve
    Wallets = {w1, w2}
    Vaults = {vault}
    Passkeys = {k, half}
    HalfZero = {half}
    CurveValues = {rcurve}
    EcdsaRegistries = {ecdsa}
    ContractRegistries = {contract}
    PasskeyRegistries = {passkey}
    SessionKeyManager = SessionKeyManager
    ForwardFlow = ForwardFlow
    Account = Account
    Zero = Zero
    None = None
    Roots <- TwoRoots
    Leaves <- LeavesOfR
    Windows <- OneWindow
    Births <- BornWithPasskey
    Tried <- TriedCalls
    MaxTime = 1
    MaxOps = 3
    MaxBundle = 2
INVARIANT
    PasskeyHolderCanAct
CHECK_DEADLOCK FALSE
