\* Three requests of one unit, each settled at its amount, against a pool of two.
CONSTANTS
    Budgets = {pool}
    Pool = pool
    NoBudget = NoBudget
    Leases = {l1, l2, l3}
    NoLease = NoLease
    Reservations = {r1, r2, r3}
    PoolTotal = 2
    Requests = {1}
    Reports = {1}
    Amounts = {1}
    Actuals = {}
    LeaseSize = 1
    TTL = 1
    SKEW_ALLOWANCE = 0
    SKEW = 0
    LowWater = 25
    BatchMax = 1
    Capacity = 2
    Topup = topup
    Aclose = aclose
    Run = run
    MaxTime = 2
SPECIFICATION ProtocolSpec
SYMMETRY ProtocolSymmetry
INVARIANT SpendWithinPool
CHECK_DEADLOCK FALSE
