\* Two requests at a time over leases of up to 4 units that live 3 ticks; a tool
\* may charge more than was reserved.
CONSTANTS
    Leases = {l1, l2, l3, l4}
    NoLease = NoLease
    Reservations = {r1, r2}
    Amounts = {1, 3}
    Actuals = {4}
    LeaseSize = 4
    TTL = 3
    SKEW = 1
    LowWater = 25
SPECIFICATION FairPoolSpec
INVARIANTS InHandWithinGrant
PROPERTIES DryLeaseIsRefilled AgedLeaseIsRenewed
