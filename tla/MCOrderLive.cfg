SPECIFICATION FairHSpec
CONSTANTS
    o1 = o1  h1 = h1  h2 = h2  None = None
    Orders <- OneOrder
    Products <- NoProduct
    Handlers <- TwoHandlers
    Details <- NoDetail
    InitLine <- NoneListed
    InitStock <- NoStock
    OnlineOrders <- OneOrder
    Totals <- TwoTotals
    Visitors <- OneHandler
    Expiring <- OneOrder
    Targets <- PendAndUndo
    PayArgs <- Reopen
    MaxStock = 0
    StockFloor = 0
CHECK_DEADLOCK FALSE
PROPERTIES PaymentAcknowledged MovesAtOnce
