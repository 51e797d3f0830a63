SPECIFICATION HSpec
CONSTANTS
    r1 = r1  p1 = p1  p2 = p2  h1 = h1  h2 = h2  None = None
    Receipts <- OneReceipt
    Products <- OneProduct
    Handlers <- OneHandler
    Contents <- Amounts
    MaxStock = 1
CHECK_DEADLOCK FALSE
INVARIANT NeverCreditedTwice
