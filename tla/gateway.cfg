SPECIFICATION PolledSpec
CONSTANTS
    Payments = {p1}
    Refunds = {r1, r2}
    Workers = {w1, w2}
    Bill = 2
    Failures = {"lookup", "database", "timeout", "error", "crash"}
    None = None
CHECK_DEADLOCK FALSE
INVARIANTS RefundsWithinPayment RowMatchesBooks RefundsTracked
PROPERTIES ChargeIsSettledOrFlagged ImplementsLedger
