SPECIFICATION Spec
CONSTANTS
    Queues <- TwoQueues
    Accounts <- TwoAccounts
    IDLE_TIME = 1
    BUNDLE_SIZE_IMMEDIATE = 3
    Undefined = Undefined
    NaN = NaN
    MaxWaiting = 2
    q1 = q1
    q2 = q2
    a1 = a1
    a2 = a2
INVARIANTS
    TypeOK
    OneBundle
    InOrder
PROPERTIES
    EverythingIsSent
