SPECIFICATION PaySpec
CONSTANTS
    Invoices = {i1}
    Bookkeepers = {c1, c2}
    MaxAmount = 2
INVARIANT AmountIsItsPayments
CHECK_DEADLOCK FALSE
