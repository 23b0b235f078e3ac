SPECIFICATION StockSpec
CONSTANTS
    o1 = o1
    p1 = p1
    Workers = {w1, w2}
    Orders = {o1}
    Ingredients = {1, 2}
    MaxBatches = 3
    MaxJobs = 3
    Opening <- TwoUnits
    Need <- OnePlan
    Loose = {1, 3}
    Counts <- Corrections
    Lot = {2}
    Purchases = {p1}
    Ordered <- TwoOfFirst
    None = None
CHECK_DEADLOCK FALSE
INVARIANT StockIsItsMovements
