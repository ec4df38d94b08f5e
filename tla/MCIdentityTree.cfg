\* Two rows altered or deleted in a chain of four, batches of one and two, retried.
CONSTANTS
    d1 = d1
    d2 = d2
    d3 = d3
    d4 = d4
    payer = payer
    reader = reader
    g1 = g1
    g2 = g2
    x1 = x1
    x2 = x2
    y1 = y1
    pay = pay
    read = read
    Records = {d1, d2, d3, d4}
    Forged = Forged
    NoRecord = NoRecord
    BatchMax = 2
    MaxSeq = 4
    MaxDamage = 2
    Told <- MCTold
    AgentNames = {payer, reader}
    Askers = {reader}
    Revocable = {x1}
SPECIFICATION TreeSpec
INVARIANTS OneIntactChain VerdictIsRight
PROPERTIES DiffIsExact PageCatchesUp
CHECK_DEADLOCK FALSE
