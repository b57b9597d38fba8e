SPECIFICATION Spec
CONSTANTS
    None = None
    par = par
    kid = kid
    user = user
    ask = ask
    confirm = confirm
    Exec = {par}
    User = {user}
    Parent <- KidOfPar
    Review <- AskTwice
    MaxRevision = 2
    Fragile <- AnyMachine
    Faults = {"supervisorCrash", "accessLost", "cancelFails"}
INVARIANT TypeOK
INVARIANT OneSegmentRuns
PROPERTY ImplementsReview
PROPERTY NoPauseAfterCancel
