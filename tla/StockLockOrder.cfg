SPECIFICATION TxSpec
CONSTANTS
    o1 = o1
    o2 = o2
    p1 = p1
    p2 = p2
    s1 = s1
    r1 = r1
    Orders = {o1, o2}
    Products = {p1, p2}
    Attempts = {1, 2}
    Sweepers = {s1}
    Returns = {r1}
    Demand <- MCDemand
    MaxQuantity = 2
    InitialStock <- MCInitialStock
    ReturnItems <- MCReturnItems
    Rank <- MCRank
    BatchSize = 2
    Deltas <- MCDeltas
    MaxReceived = 2
    MaxRunning = 3
    MaxFailures = 0
CHECK_DEADLOCK FALSE
INVARIANTS NoLockCycle
