SPECIFICATION CronSpec
CONSTANTS
    Orders = {o1}
    Tables = {}
    OutOfService = {}
    Lines = {l1, l2}
    Kots = {k1, k2, k3}
    Stations = {s1, s2}
    StationOf <- EachStation
    MaxQty = 1
    Workers = {w1, w2}
    Crons = {c1}
    Ops = {"acceptOrder", "rejectOrder", "cancelOrder", "removeOrderItem", "checkout", "updateKotStatus", "rejectKot"}
    None = None
CHECK_DEADLOCK FALSE
INVARIANTS UnacceptedNeverSettled LineTicketedOnce
PROPERTIES KitchenMovesForward ClosedBillTakesNoMoney DecisionIsFinal ScheduledReachesKitchen
