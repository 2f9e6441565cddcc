SPECIFICATION CaptureSpec
CONSTANTS
    y1 = y1
    Payments = {y1}
    Reported = {"pending", "approved", "cancelled"}
    EventType <- MCEventType
    MaxInHand = 1
    MaxFaults = 1
    ServiceYears = 40
CHECK_DEADLOCK FALSE
INVARIANTS ConfirmedWasApproved WrongAmountGoesNowhere
PROPERTIES ImplementsPaymentEvents NoticesAreProcessed
