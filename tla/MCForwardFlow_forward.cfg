SPECIFICATION Spec
CONSTANTS
    Accounts <- TwoAccounts
    Terms <- EtherTerms
    Ether = Ether
    Liars = {}
    GasPrices = {1}
    GasUsed = {1}
    OK = OK
    None = None
    Fail = Fail
    MaxFunds = 1
    MaxNonce = 2
    MaxDepth = 5
    a1 = a1
    a2 = a2
SYMMETRY Symm
INVARIANTS
    TypeOK
    EachNonceOnce
    DrawnIsOwed
PROPERTIES
    NoneEscapesTheRefund
