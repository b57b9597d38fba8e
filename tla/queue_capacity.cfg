SPECIFICATION Spec
CONSTANTS
    None = None
    par = par
    kid = kid
    solo = solo
    api1 = api1
    api2 = api2
    Exec = {par, kid, solo}
    Client = {api1}
    Parent <- KidOfPar
    OrderingKey <- NoKeys
    ConcurrencyLimit = 1
    MaxPendingCount = None
    Cancellable = {solo}
    Faults = {}
INVARIANT TypeOK
INVARIANT CapacityRespected
INVARIANT NoLostWakeup
PROPERTY ParentOutlivesChildren
CHECK_DEADLOCK FALSE
