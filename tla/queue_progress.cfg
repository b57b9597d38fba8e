SPECIFICATION FairSpecInUse
CONSTANTS
    None = None
    par = par
    kid = kid
    solo = solo
    api1 = api1
    api2 = api2
    Exec = {par, kid}
    Client = {api1}
    Parent <- KidOfPar
    OrderingKey <- NoKeys
    ConcurrencyLimit = 1
    MaxPendingCount = None
    Cancellable = {}
    Faults = {"jobKilled", "settleKilled", "resubmission"}
PROPERTY EveryExecutionSettles
