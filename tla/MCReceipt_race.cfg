SPECIFICATION HSpec
CONSTANTS
    r1 = r1  p1 = p1  p2 = p2  h1 = h1  h2 = h2  None = None
    Receipts <- OneReceipt
    Products <- TwoProducts
    Handlers <- TwoHandlers
    Contents <- Lists
    MaxStock = 0
CHECK_DEADLOCK FALSE
SYMMETRY HandlerSymmetry
INVARIANTS TypeOK CreditedOnce AuditAgrees TotalsAreSums
