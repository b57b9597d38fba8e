SPECIFICATION Spec
CONSTANTS
    None = None
    first = first
    retry = retry
    again = again
    keyA = keyA
    Request = {first, retry, again}
    KeyOf <- OneKey
    ReportsUnknown = TRUE
    Faults = {"crash", "claimFails", "historyFails", "answerLost", "releaseFails"}
INVARIANT TypeOK
INVARIANT FailedMeansNotPlaced
PROPERTY NeverResubmitted
PROPERTY KeepsPromise
CHECK_DEADLOCK FALSE
SYMMETRY Requests
