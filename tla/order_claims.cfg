SPECIFICATION FairSpec
CONSTANTS
    None = None
    first = first
    retry = retry
    again = again
    keyA = keyA
    Request = {first, retry}
    KeyOf <- OneKey
    ReportsUnknown = FALSE
    Faults = {"crash", "expiry", "claimFails", "historyFails", "answerLost", "storeFails", "releaseFails"}
PROPERTY ClaimsEnd
CHECK_DEADLOCK FALSE
