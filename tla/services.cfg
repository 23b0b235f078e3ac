SPECIFICATION ServicesSpec
CONSTANTS
    ann = ann
    bob = bob
    b1 = b1
    b2 = b2
    Cashiers = {n1, n2}
    Bills = {b1, b2}
    Subtotal <- Four
    Buyer <- Both
    Customers = {ann, bob}
    Friend = bob
    OpeningPoints <- Three
    CardValue = 3
    CouponOff = 1
    CouponLimit = 1
    EarnPer = 2
    RewardPoints = 1
    MinPurchase = 3
    Asked = {0, 2}
    Cash = {0, 2, 4}
    PartPayments = {TRUE, FALSE}
    RequestIds = {1}
    MaxAttempts = 3
    NoJob = NoJob
    MaxTaps = 3
    MaxNotices = 1
    LastStep = 1
    Kills = 1
    Invoices = {i1}
    Bookkeepers = {n1, n2}
    MaxAmount = 3
    Posts = {n1, n2}
    Staff = {n1, n2}
    MaxPosts = 4
    MaxNumber = 5
    Attempts = 3
    Backups = {1, 2, 3}
    Buckets = {k1}
    NoBucket = NoBucket
    Retain = 1
    MaxRuns = 2
    MaxTurns = 2
    Tills = {n1, n2}
    Places = {p1, p2}
    TableBills = {x1, x2}
    Bookings = {v1}
    Parties = {y1}
    Nowhere = Nowhere
SYMMETRY ServicesSymmetry
CHECK_DEADLOCK FALSE
INVARIANTS PointsAddUp SharedFundsHold RewardPaidOnce RefundsWithinBill RequestTakesMoneyOnce NoTapVanishes OnlyKnownWaysHideABill PaidIsBacked PlatformIsToldTheTruth KeptUntilReplaced
