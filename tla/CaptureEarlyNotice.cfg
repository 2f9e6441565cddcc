SPECIFICATION CaptureSpec
CONSTANTS
    y1 = y1
    Payments = {y1}
    Reported = {"pending", "approved"}
    EventType <- MCEventType
    MaxInHand = 2
    MaxFaults = 1
    ServiceYears = 40
CHECK_DEADLOCK FALSE
PROPERTIES EarlyNoticeResolves
