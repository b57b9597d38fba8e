SPECIFICATION Spec
CONSTANTS
    None = None
    first = first
    retry = retry
    again = again
    keyA = keyA
    Request = {first, retry}
    KeyOf <- OneKey
    ReportsUnknown = TRUE
    Faults = {"storeFails"}
PROPERTY NeverResubmitted
CHECK_DEADLOCK FALSE
