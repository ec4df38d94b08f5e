CONSTANTS
    read = read
    pay = pay
    bank = bank
    h1 = h1
    h2 = h2
    amount = amount
    note = note
    agent = agent
    other = other
    both = both
    t1 = t1
    t2 = t2
    t3 = t3
    v1 = v1
    r0 = r0
    r1 = r1
    r2 = r2
    Scopes = {read, pay}
    Tools = {bank}
    Intents = {h1, h2}
    NoTool = NoTool
    DimensionOrder <- MCDimensionOrder
    Paths = {amount, note}
    NoTime = NoTime
    Quoted = {}
    Unlisted = {}
    Dates = {0, 1}
    TooLong <- Never
    Resplit <- AsRendered
    BUDGET_SCALE = 2
    Second = 1
    MAX_STATEMENTS_PER_BLOCK = 16
    AcceptedKeys = {"k1"}
    Agents = {agent, other, both}
    HARD_SIZE_LIMIT = 16
    Unavailable = Unavailable
    NoScore = NoScore
    NoText = NoText
    WordsOf <- MCWordsOf
    Orthogonal <- MCOrthogonal
    _CACHE_MAX = 1
    PolicyKey = "pk"
    NoSigner = NoSigner
    SpendDimension = "spend"
    DEFAULT_ROLE = "agent"
    Segments <- MCSegments
    Routes <- MCRoutes
    NFC <- MCText
    Unquote <- MCText
    NotANumber = NotANumber
    NotFinite = NotFinite
    Rounded <- MCRounded
    Absent = Absent
    Requests <- MCRequests
    Credentials <- MCCredentials
    Worlds <- MCWorlds
    Assemblies <- MCAssemblies
    IntentHash <- MCIntentHash
    AmountPath = amount
    BufferSize = 1
    Grants = {2}
    MaxRequests = 2
    MaxLeases = 2
    MaxRevoked = 1
    MaxTime = 1
SPECIFICATION Spec
INVARIANTS ToldIsRecorded MissingWasForwarded HeldAsRead
PROPERTIES DecisionsSound
CHECK_DEADLOCK FALSE
