SPECIFICATION HSpec
CONSTANTS
    c1 = c1  s1 = s1  n1 = n1  n2 = n2  x1 = x1  x2 = x2  h1 = h1  h2 = h2
    None = None
    Customers <- OneCustomer
    Staff <- OneStaff
    RoleCodes <- OneRole
    Usernames <- TwoNames
    Addresses <- TwoAddresses
    Handlers <- TwoHandlers
    Revisited <- Nobody
SYMMETRY SlotSymmetry
INVARIANTS RegisteredTypeOK OneAccountPerStaff OneOwnAccount CustomersHaveAccounts AccountsHaveRoles DefaultsAsChosen OwnersHaveRoles
