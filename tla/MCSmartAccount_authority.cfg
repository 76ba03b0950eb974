SPECIFICATION Spec
CONSTANTS
    Zero = Zero
    Sentinel = Sentinel
    Account = Account
    EntryPoint = EntryPoint
    CodeLess = CodeLess
    None = None
    Fail = Fail
    m1 = m1
    m2 = m2
    impl = impl
    impl2 = impl2
    Addr <- AddrOneTwo
    Contracts <- OneContract
    Candidates <- WithAccount
    Handlers <- WithAccount
    Implementations <- TwoImpls
    MaxDepth = 4
    MaxBatch = 1
    MaxOps = 2
PROPERTIES
    ChangesMandated
    StartedForGood
    ImplementsRegistry
