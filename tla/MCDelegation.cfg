\* Second = 2: half of the instants fall between two Datalog dates.
CONSTANTS
    read = read
    pay = pay
    bank = bank
    mail = mail
    h1 = h1
    h2 = h2
    amount = amount
    rob = rob
    good = good
    bad = bad
    quote = quote
    comma = comma
    Scopes = {read, pay}
    Tools = {bank, mail, quote, comma}
    Quoted = {quote}
    Unlisted = {comma}
    Intents = {h1, h2}
    NoTool = NoTool
    DimensionOrder <- MCDimensionOrder
    Paths = {amount, rob}
    Dates = {0, 1, 2, 3, 4}
    NoTime = NoTime
    BUDGET_SCALE = 2
    Second = 2
    MAX_STATEMENTS_PER_BLOCK = 16
    TooLong <- MCTooLong
    Resplit <- MCResplit
    AcceptedKeys = {k1}
    RootKey = k1
    Agents = {a1, a2}
    HARD_SIZE_LIMIT = 16
    Tasks <- MCTasks
    CaveatMenu <- MCMenu
    ForeignBlocks <- MCForeign
    Ceilings = {1}
    SpendDimension = "spend"
    Slack = 1
    DEFAULT_TTL = 2
    DEFAULT_MAX_DEPTH = 2
    Contexts <- MCContexts
    MaxTokens = 3
    MaxTime = 2
SPECIFICATION Spec
INVARIANTS WithinMandate NoWidening VerdictsAgree BoundIsExact HolderSeesUpperBound DeclaredIsEffective
SYMMETRY AgentSymmetry
CHECK_DEADLOCK FALSE
