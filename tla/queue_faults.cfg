SPECIFICATION Spec
CONSTANTS
    None = None
    par = par
    kid = kid
    solo = solo
    api1 = api1
    api2 = api2
    Exec = {par, solo}
    Client = {api1, api2}
    Parent <- NoParents
    OrderingKey <- NoKeys
    ConcurrencyLimit = 1
    MaxPendingCount = 1
    Cancellable = {par}
    Faults = {"jobKilled", "workerCrash", "ambiguous", "cancelFails"}
INVARIANT RunningHoldsRow
INVARIANT RootCapacityRespected
PROPERTY ImplementsLifecycle
CHECK_DEADLOCK FALSE
SYMMETRY Clients
