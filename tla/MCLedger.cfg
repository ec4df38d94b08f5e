SPECIFICATION FairSpec
CONSTANTS
    Budgets = {pool, c1, c2}
    Pool = pool
    NoBudget = NoBudget
    Leases = {l1, l2}
    NoLease = NoLease
    Reservations = {r1, r2}
    PoolTotal = 2
    Requests = {1, 2}
    Reports = {1, 2}
    TTL = 0
    SKEW_ALLOWANCE = 1
    BatchMax = 2
    MaxTime = 2
INVARIANTS PoolInvariant BooksBalance TreeWithinPool
PROPERTIES HistoryIsFinal LeasesEnd
CHECK_DEADLOCK FALSE
