SPECIFICATION Spec
CONSTANTS
    Zero = Zero
    Sentinel = Sentinel
    Account = Account
    EntryPoint = EntryPoint
    CodeLess = CodeLess
    None = None
    Fail = Fail
    m1 = m1
    m2 = m2
    impl = impl
    impl2 = impl2
    Addr <- AddrTwo
    Contracts <- TwoModules
    Candidates <- TwoModules
    Handlers = {EntryPoint}
    Implementations <- OneImpl
    MaxDepth = 5
    MaxBatch = 2
    MaxOps = 1
SYMMETRY SymmTwo
INVARIANTS
    TypeOK
    ListIntact
    InitAlone
    InitIsolated
    StartedHasHandler
    PageShowsAll
