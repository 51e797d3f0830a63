SPECIFICATION HSpec
CONSTANTS
    u1 = u1  o1 = o1  p1 = p1  p2 = p2  d1 = d1  d2 = d2
    h1 = h1  h2 = h2  None = None
    Customers <- OneCustomer
    Orders <- OneOrder
    Products <- TwoProducts
    Details <- TwoDetails
    Handlers <- TwoHandlers
    Price <- Prices
    InitStock <- Stock
    MaxTotal = 2
    Revisited <- NoOrder
CHECK_DEADLOCK FALSE
SYMMETRY SlotSymmetry
INVARIANTS TypeOK TotalsMatch LinesWithinStock OneLinePerProduct LinesHaveUnits
