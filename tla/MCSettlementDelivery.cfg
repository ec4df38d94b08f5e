\* Two drain() callers and the background task over a queue that can be full.
CONSTANTS
    s1 = s1
    s2 = s2
    s3 = s3
    s4 = s4
    l1 = l1
    l2 = l2
    Settlements <- MCSettlements
    Drainers = {topup, aclose}
    Closer = aclose
    Runner = run
    Capacity = 3
    BatchMax = 2
SPECIFICATION FairDeliverySpec
INVARIANTS NothingLost
PROPERTIES SettlementsArrive DrainsEnd
CHECK_DEADLOCK FALSE
