SPECIFICATION CaptureSpec
CONSTANTS
    y1 = y1
    Payments = {y1}
    Reported = {"pending", "approved", "rejected", "cancelled"}
    EventType <- MCEventType
    MaxInHand = 2
    MaxFaults = 1
    ServiceYears = 40
CHECK_DEADLOCK FALSE
INVARIANTS ConfirmedEventWasApproved
