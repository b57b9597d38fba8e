SPECIFICATION Spec
CONSTANTS
    None = None
    ann = ann
    bob = bob
    annTab = annTab
    bobTab = bobTab
    bobTab2 = bobTab2
    service = service
    Conn = {annTab, bobTab}
    Mutation = {service}
    User = {ann, bob}
    UserOf <- Users
    Leaver = {ann}
    DrainAttempts = 3
    MaxPosts = 2
    Budgets <- Troubles
INVARIANT TypeOK
INVARIANT RevokedStaysOut
INVARIANT EditsReachStore
INVARIANT MutationOnce
PROPERTY RevokedWritesNothing
PROPERTY SavedEditsKept
CHECK_DEADLOCK FALSE
