SPECIFICATION JobsSpec
CONSTANTS
    o1 = o1
    p1 = p1
    Workers = {w1, w2}
    Orders = {o1}
    Ingredients = {1, 2}
    MaxBatches = 4
    MaxJobs = 3
    Opening <- TwoUnits
    Need <- OnePlan
    Loose = {3}
    Counts <- Corrections
    Lot = {1, 2}
    Purchases = {p1}
    Ordered <- TwoOfFirst
    None = None
    s1 = s1
    s2 = s2
    r1 = r1
    NoDocument = NoDocument
    Tills = {t1, t2}
    Documents = {s1, s2, r1}
    SeriesOf <- ThreeSeries
    BranchOf <- TwoBranches
    Corrects <- OneRefund
    Batch = 2
    Faults = 1
    Presses = 1
    Events = {1, 2}
    Ticks = {k1, k2}
    HookBatch = 1
    MAX_ATTEMPTS = 2
    HookFaults = 1
    Toggles = 1
    Slow = FALSE
CHECK_DEADLOCK FALSE
INVARIANTS BatchIsItsMovements OrderMovesStockOnce CountsOnlyDeliveries ChainUnbroken ReportedInOrder SentAgainOnlyAfterMishap
PROPERTIES EveryJobEnds EveryRecordIsAnswered EveryEventEnds
