SPECIFICATION WebhookSpec
CONSTANTS
    Payments = {p1}
    Refunds = {r1}
    Workers = {w1, w2}
    Bill = 1
    Failures = {"lookup"}
    None = None
CHECK_DEADLOCK FALSE
PROPERTY WebhookSettlesOrFlags
