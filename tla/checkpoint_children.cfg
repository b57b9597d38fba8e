SPECIFICATION FairSpec
CONSTANTS
    None = None
    par = par
    kid = kid
    user = user
    ask = ask
    confirm = confirm
    Exec = {par, kid}
    User = {}
    Parent <- KidOfPar
    Review <- KidAsks
    MaxRevision = 1
    Fragile <- KidsAndPauser
    Faults = {}
INVARIANT AnsweredIsQueued
PROPERTY ImplementsReview
PROPERTY ChildEndArrives
PROPERTY WithdrawnEnds
