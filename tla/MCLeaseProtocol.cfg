\* Clocks two ticks apart, slow and lost calls, crashes, the reaper and another
\* PEP, over two leases of a pool of three units.
CONSTANTS
    Budgets = {pool}
    Pool = pool
    NoBudget = NoBudget
    Leases = {l1, l2}
    NoLease = NoLease
    Reservations = {r1}
    PoolTotal = 3
    Requests = {2}
    Reports = {1, 2}
    Amounts = {1, 2}
    Actuals = {}
    LeaseSize = 2
    TTL = 3
    SKEW_ALLOWANCE = 1
    SKEW = 1
    LowWater = 25
    BatchMax = 2
    Capacity = 2
    Topup = topup
    Aclose = aclose
    Run = run
    MaxTime = 6
SPECIFICATION ProtocolSpec
SYMMETRY ProtocolSymmetry
INVARIANTS SpendableIsActive ChargedAtMostOnce
PROPERTY ImplementsCharging
CHECK_DEADLOCK FALSE
