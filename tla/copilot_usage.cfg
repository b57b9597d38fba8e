SPECIFICATION Spec
CONSTANTS
    None = None
    small = small
    large = large
    pay = pay
    payAgain = payAgain
    cancel = cancel
    answerA = answerA
    Reserve = {small, large}
    Commit = {pay, payAgain}
    Release = {cancel}
    Of <- ReservationOf
    Completion <- OneCompletion
    Amount <- Amounts
    Limit = 2
    Faults = {"crash", "expiry", "billFails", "markFails", "unlockFails"}
INVARIANT TypeOK
INVARIANT NoReservationLost
INVARIANT CommitReleases
INVARIANT RebilledOnlyUnmarked
PROPERTY GrantsCovered
CHECK_DEADLOCK FALSE
