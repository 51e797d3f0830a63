SPECIFICATION HSpec
CONSTANTS
    o1 = o1  p1 = p1  d1 = d1
    h1 = h1  h2 = h2  None = None
    Orders <- OneOrder
    Products <- NoProduct
    Handlers <- OneHandler
    Details <- NoDetail
    InitLine <- OneUnit
    InitStock <- NoStock
    OnlineOrders <- OneOrder
    Totals <- NoTotal
    Visitors <- OneHandler
    Expiring <- OneOrder
    Targets <- ShortCut
    PayArgs <- KeepPayment
    MaxStock = 0
    StockFloor <- Floor
CHECK_DEADLOCK FALSE
PROPERTY AlreadyUpdatedIsTrue
