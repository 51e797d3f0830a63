SPECIFICATION HSpec
CONSTANTS
    c1 = c1  c2 = c2  a1 = a1  h1 = h1  h2 = h2
    None = None
    Clients <- TwoClients
    Accounts <- OneAccount
    User <- SameUser
    Handlers <- TwoHandlers
    AccessLife = 2
    RefreshLife = 2
    MaxTime = 2
    MaxCopies = 2
CHECK_DEADLOCK FALSE
SYMMETRY SlotSymmetry
INVARIANTS TypeOK HoldersCanRefresh HoldersAreAccepted LoggedOutStaysOut
