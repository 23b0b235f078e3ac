SPECIFICATION Spec
CONSTANTS
    Orders = {o1, o2}
    Tables = {t1, t2}
    OutOfService = {}
    Lines = {l1, l2}
    Kots = {k1, k2}
    Stations = {s1}
    StationOf <- OneStation
    MaxQty = 2
    Workers = {w1}
    Crons = {}
    Ops = {"addItems", "acceptOrder", "rejectOrder", "cancelOrder", "updateOrder", "updateOrderItem", "removeOrderItem", "mergeOrders", "checkout", "updateKotStatus", "rejectKot"}
    None = None
SYMMETRY Symmetry
CHECK_DEADLOCK FALSE
INVARIANTS TotalIsSumOfLines TablesMatchBills RefusedOrderIsWithdrawn
PROPERTIES PartPaidBillIsFixed
