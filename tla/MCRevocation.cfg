\* One REVOKE call at a time: rows commit in the order of their seq.
CONSTANTS
    Blocks = {b1, b2}
    NoBlock = NoBlock
    Revokers = {t1}
    StalenessLimit = 3
    CallTimeout = 1
    MaxSeq = 3
SPECIFICATION FairRevocationSpec
INVARIANTS RevokedWithinWindow NoResurrection
PROPERTY PullConverges
