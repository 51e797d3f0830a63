SPECIFICATION ShopSpec
CONSTANTS
    u1 = u1  o1 = o1  o2 = o2  p1 = p1  d1 = d1  d2 = d2
    h1 = h1  None = None
    Customers <- OneCustomer
    Orders <- TwoOrders
    Products <- OneProduct
    Details <- TwoDetails
    Handlers <- OneHandler
    Price <- Prices
    MaxTotal = 2
    InitLine <- NoDetailYet
    InitStock <- OneUnit
    OnlineOrders <- OneOrder
    Expiring <- NoOrder
    Revisited <- NoOrder
    Targets <- Straight
    PayArgs <- KeepPayment
    Totals <- NoTotal
    Visitors <- OneHandler
    MaxStock = 1
    StockFloor = 0
CHECK_DEADLOCK FALSE
SYMMETRY DetailSymmetry
INVARIANTS ShopTypeOK GoodsTaken RevenueIsWorth PaidForGoods OneCart
PROPERTIES PackingCovered
