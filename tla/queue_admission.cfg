SPECIFICATION Spec
CONSTANTS
    None = None
    par = par
    kid = kid
    solo = solo
    api1 = api1
    api2 = api2
    Exec = {par, solo}
    Client = {api1}
    Parent <- NoParents
    OrderingKey <- SameKey
    ConcurrencyLimit = 1
    MaxPendingCount = 1
    Cancellable = {}
    Faults = {"refused", "expiry", "rejected", "gaveUp", "resubmission", "clientCrash"}
INVARIANT OrderingKeyExclusive
