SPECIFICATION SagaSpec
CONSTANTS
    o1 = o1
    o2 = o2
    p1 = p1
    y1 = y1
    Orders = {o1}
    Products = {p1}
    Attempts = {1, 2}
    Payments = {y1}
    Reported = {"approved", "cancelled"}
    Returns = {}
    Demand <- MCDemand
    MaxQuantity = 1
    InitialStock <- MCStock
    ReturnItems <- MCReturnItems
    BatchSize = 2
    Deltas = {}
    MaxReceived = 1
    OrderOf <- MCOneOrder
    MaxFaults = 1
CHECK_DEADLOCK FALSE
PROPERTIES EveryEventIsProcessed
