CONSTANTS
    read = read
    pay = pay
    bank = bank
    h1 = h1
    agent = agent
    r0 = r0
    Scopes = {read, pay}
    Tools = {bank}
    Intents = {h1}
    NoTool = NoTool
    DimensionOrder <- MCDimensionOrder
    Paths = {}
    NoTime = NoTime
    Quoted = {}
    Unlisted = {}
    Dates = {0, 9}
    TooLong <- Never
    Resplit <- AsRendered
    BUDGET_SCALE = 2
    Second = 1
    MAX_STATEMENTS_PER_BLOCK = 16
    AcceptedKeys = {"k1"}
    Agents = {agent}
    HARD_SIZE_LIMIT = 16
    Unavailable = Unavailable
    NoScore = NoScore
    NoText = NoText
    WordsOf <- MCWordsOf
    Orthogonal = {}
    _CACHE_MAX = 1
    PolicyKey = "pk"
    NoSigner = NoSigner
    SpendDimension = "spend"
    DEFAULT_ROLE = "agent"
    Segments <- Whole
    Bundles <- MCBundles
    NoBundle = NoBundle
    CacheTools <- MCCacheTools
    TestCases <- MCTestCases
    MaxStaleness = 1
    Samples <- MCSamples
    MaxCandidates = 5
    MaxTime = 4
SPECIFICATION Spec
INVARIANTS OnlyFreshVouched
PROPERTIES ServedOnlyAdvances
