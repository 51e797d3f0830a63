SPECIFICATION CHSpec
CONSTANTS
    c0 = c0  c1 = c1  c2 = c2  c3 = c3  c4 = c4  p1 = p1  p2 = p2
    g1 = g1  h1 = h1  h2 = h2  None = None
    Categories <- Tree
    Root = c0  MaxRight = 8
    Handlers <- TwoHandlers
    Products <- TwoProducts
    Listers <- OneLister
    Limit = 1  MaxPage = 2  MaxDepth = 2
CHECK_DEADLOCK FALSE
CONSTRAINT UnspoiltAndUnanswered
SYMMETRY SlotSymmetry
INVARIANTS  NumbersUsedOnce ChildrenAreDescendants ListedWithin NoneLeftOut PagesFilled
