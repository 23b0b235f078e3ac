------------------------------- MODULE Orders -------------------------------
(***************************************************************************)
(* The life of an order on the floor: OrdersService                        *)
(* (apps/backend/src/modules/orders/orders.service.ts).                    *)
(*                                                                         *)
(* Rows of five database tables (orders, order_items, kots with their      *)
(* kot_items, tables, payments) and the requests in flight.  A handler of  *)
(* the service reads what it needs OUTSIDE a transaction, checks it, and   *)
(* then runs a transaction; other requests commit in between.  So a        *)
(* handler is two actions: <Handler>Reads stores in req[w] what the code   *)
(* keeps of its reads, <Handler>Commits is the transaction.  A transaction *)
(* that frees a table (releaseTableIfIdle) counts the open bills of that   *)
(* table in one statement and frees it in a later one, and the isolation   *)
(* level is READ COMMITTED: CountOpenBills is that first statement.        *)
(*                                                                         *)
(* Abstractions: every unit costs 1, so a bill is a number of units;       *)
(* discounts, gift cards, points, stock, fiscal records, audit rows,       *)
(* notifications and sockets are left out.                                 *)
(***************************************************************************)
EXTENDS Integers, FiniteSets

CONSTANTS
    Orders,         \* ids an order row can get
    Tables,         \* dining tables of the branch
    OutOfService,   \* tables taken out of service
    Lines,          \* ids an order_items row can get
    Kots,           \* ids a kots row (kitchen ticket) can get
    Stations,       \* kitchen stations
    StationOf,      \* the station that cooks a line's menu item
    MaxQty,         \* bound: units on one line
    Workers,        \* HTTP requests in flight
    Crons,          \* runs of the scheduled-orders job in flight
    Ops,            \* handlers exercised (all of AllOps, or a part of them)
    None            \* SQL NULL

AllOps == {"addItems", "acceptOrder", "rejectOrder", "cancelOrder",
           "updateOrder", "updateOrderItem", "removeOrderItem", "mergeOrders",
           "checkout", "updateKotStatus", "rejectKot"}

ASSUME OrdersAssumption ==
    /\ IsFiniteSet(Lines)
    /\ MaxQty \in Nat \ {0}
    /\ StationOf \in [Lines -> Stations]
    /\ OutOfService \subseteq Tables
    /\ Ops \subseteq AllOps
    /\ None \notin Orders \cup Tables \cup Lines \cup Kots
    /\ Workers \cap Crons = {}

VARIABLES
    order,  \* orders, with the sum of their payments rows in "paid"
    line,   \* order_items
    kot,    \* kots and the lines their kot_items point at
    table,  \* tables.status
    req     \* what each request in flight remembers of its reads

vars == <<order, line, kot, table, req>>
rows == <<order, line, kot, table>>

OrderStatus == {"NONE", "OPEN", "PAID", "CANCELLED"}
Acceptance  == {"NOT_REQUIRED", "PENDING", "ACCEPTED", "REJECTED"}

\* Kitchen ticket state machine (packages/types/src/order-lifecycle.ts).
KotStatus == {"NONE", "NEW", "ACCEPTED", "PREPARING", "READY", "SERVED",
              "CANCELLED", "REJECTED"}
KOT_NEXT_STATUS == [NEW |-> "ACCEPTED", ACCEPTED |-> "PREPARING",
                    PREPARING |-> "READY", READY |-> "SERVED"]
KOT_STARTED_STATUSES == {"PREPARING", "READY", "SERVED"}
KOT_VOID_STATUSES    == {"CANCELLED", "REJECTED"}
KOT_REJECTABLE       == {"NEW", "ACCEPTED", "PREPARING"}

OrderRow ==
    [status: OrderStatus, acceptance: Acceptance, table: Tables \cup {None},
     \* scheduledFor: not set, further away than the lead time, within it
     sched: {"now", "later", "due"},
     total: Nat, paid: Nat]
LineRow == [state: {"FREE", "ON_BILL", "DELETED"},
            order: Orders \cup {None}, qty: 0 .. MaxQty]
KotRow  == [status: KotStatus, order: Orders \cup {None}, lines: SUBSET Lines]
TableStatus == {"AVAILABLE", "OCCUPIED", "OUT_OF_SERVICE"}

\* One shape for every handler; a field a handler does not use keeps the
\* value it has in Idle.
Request ==
    [op: AllOps \cup {"idle", "release"},
     order: Orders \cup {None}, source: Orders \cup {None},
     table: Tables \cup {None}, to: Tables \cup {None},
     idle: {"unknown", "yes", "no"},
     line: Lines \cup {None}, lines: SUBSET Lines,
     kot: Kots \cup {None}, seen: KotStatus,
     amount: Nat, due: Nat, flag: BOOLEAN, locked: BOOLEAN,
     queue: SUBSET (Orders \X SUBSET Lines)]

Idle == [op |-> "idle", order |-> None, source |-> None, table |-> None,
         to |-> None, idle |-> "unknown", line |-> None, lines |-> {},
         kot |-> None, seen |-> "NONE", amount |-> 0, due |-> 0,
         flag |-> FALSE, locked |-> FALSE, queue |-> {}]

TypeOK ==
    /\ order \in [Orders -> OrderRow]
    /\ line \in [Lines -> LineRow]
    /\ kot \in [Kots -> KotRow]
    /\ table \in [Tables -> TableStatus]
    /\ req \in [Workers \cup Crons -> Request]

-----------------------------------------------------------------------------
(* Reads *)

LinesOf(o) == {l \in Lines : line[l].order = o}
KotsOf(o)  == {k \in Kots : kot[k].order = o}
OnBill(ls) == \A l \in ls : line[l].state = "ON_BILL"

\* computeOrderTotals over the lines of an order, each unit costing 1.
UnitsOf(rowsOfLines, o) ==
    {u \in Lines \X (1 .. MaxQty) :
        /\ rowsOfLines[u[1]].order = o
        /\ u[2] <= rowsOfLines[u[1]].qty}
Subtotal(rowsOfLines, o) == Cardinality(UnitsOf(rowsOfLines, o))

\* The count of releaseTableIfIdle.
OtherOpenBill_unchecked(t, except) == FALSE
OtherOpenBill(t, except) ==
    \E o \in Orders \ {except} : order[o].status = "OPEN" /\ order[o].table = t

\* assertNoPayments.
NoPayments_unchecked(o) == TRUE
NoPayments(o) == order[o].paid = 0

\* editableOrder, and the same checks at the head of addItems and mergeOrders.
Editable(o) == order[o].status = "OPEN" /\ NoPayments(o)

\* recomputeTotals, after the lines became lineRows.
RecomputeTotals_skipped(lineRows, o) == order
RecomputeTotals(lineRows, o) ==
    [order EXCEPT ![o].total = Subtotal(lineRows, o)]

\* generateKots: one ticket per station, numbered after those already there.
\* It links kot_items to the lines, so it fails if one was deleted meanwhile.
GenerateKots(o, ls) ==
    LET stations == {StationOf[l] : l \in ls}
    IN  \E f \in [stations -> {k \in Kots : kot[k].status = "NONE"}] :
          /\ \A s, t \in stations : f[s] = f[t] => s = t
          /\ kot' = [k \in Kots |->
                IF \E s \in stations : f[s] = k
                THEN [status |-> "NEW", order |-> o,
                      lines |-> {l \in ls : f[StationOf[l]] = k}]
                ELSE kot[k]]

Start(w, r) == /\ req[w] = Idle
               /\ r.op \in Ops
               /\ req' = [req EXCEPT ![w] = r]
               /\ UNCHANGED rows
Finish(w)   == req' = [req EXCEPT ![w] = Idle]

\* The transaction throws (a compare-and-set matched no row, a foreign key
\* is gone): everything it wrote is rolled back.
Rollback(w) == UNCHANGED rows /\ Finish(w)

\* The transaction has its count, or has no table to free.
Counted(w) == req[w].table = None \/ req[w].idle # "unknown"
Released(w, t) ==
    IF req[w].table # None /\ req[w].idle = "yes"
    THEN [t EXCEPT ![req[w].table] = "AVAILABLE"]
    ELSE t

-----------------------------------------------------------------------------
(* createOrder and addItems *)

\* New order_items rows for order o, q units each.
AddLines(o, ls, q) ==
    [l \in Lines |-> IF l \in ls
                     THEN [state |-> "ON_BILL", order |-> o, qty |-> q]
                     ELSE line[l]]
FreshLines == (SUBSET {l \in Lines : line[l].state = "FREE"}) \ {{}}

\* createOrder reads only the menu and the table's existence outside its
\* transaction, so its request w is one action.  A past (historical) sale
\* takes no table and no ticket.
CreateOrder(w, o, t, acc, sch, past, ls, q) ==
    /\ req[w] = Idle
    /\ order[o].status = "NONE"
    /\ past => t = None /\ acc = "NOT_REQUIRED" /\ sch = "now"
    /\ line' = AddLines(o, ls, q)
    /\ order' = [order EXCEPT ![o] =
                    [status |-> "OPEN", acceptance |-> acc, table |-> t,
                     sched |-> sch, total |-> Subtotal(line', o), paid |-> 0]]
    /\ table' = IF t = None THEN table ELSE [table EXCEPT ![t] = "OCCUPIED"]
    /\ IF acc = "PENDING" \/ sch = "later" \/ past
       THEN UNCHANGED kot
       ELSE GenerateKots(o, ls)
    /\ UNCHANGED req

AddItemsReads(w, o) ==
    /\ Editable(o)
    /\ Start(w, [Idle EXCEPT !.op = "addItems", !.order = o,
                             !.amount = Subtotal(line, o)])

\* The total is that of the lines read before the transaction plus the new
\* ones, and neither the status nor the payments are looked at again.
AddItemsCommits(w, ls, q) ==
    /\ req[w].op = "addItems"
    /\ line' = AddLines(req[w].order, ls, q)
    /\ order' = [order EXCEPT ![req[w].order].total =
                                 req[w].amount + q * Cardinality(ls)]
    /\ GenerateKots(req[w].order, ls)
    /\ Finish(w)
    /\ UNCHANGED table

-----------------------------------------------------------------------------
(* acceptOrder, rejectOrder, cancelOrder *)

WaitingForAnswer_openOnly(o) == order[o].status = "OPEN"
WaitingForAnswer(o) ==
    order[o].status = "OPEN" /\ order[o].acceptance = "PENDING"

AcceptOrderReads(w, o) ==
    /\ WaitingForAnswer(o)
    /\ Start(w, [Idle EXCEPT !.op = "acceptOrder", !.order = o,
                             !.lines = LinesOf(o)])

AcceptOrderCommits(w) ==
    LET o == req[w].order
        deferred == order[o].sched = "later"
    IN  /\ req[w].op = "acceptOrder"
        /\ IF WaitingForAnswer(o) /\ (deferred \/ OnBill(req[w].lines))
           THEN /\ order' = [order EXCEPT ![o].acceptance = "ACCEPTED"]
                /\ IF deferred THEN UNCHANGED kot
                               ELSE GenerateKots(o, req[w].lines)
                /\ Finish(w)
                /\ UNCHANGED <<line, table>>
           ELSE Rollback(w)

\* withdrawOrder with declineIncoming (rejectOrder) or without (cancelOrder);
\* the caller confirms when the kitchen has started, and gives a reason.
Withdrawable_anyAnswer(o, decline) == order[o].status = "OPEN"
Withdrawable(o, decline) ==
    IF decline THEN WaitingForAnswer(o) ELSE order[o].status = "OPEN"

WithdrawOrderReads(w, o, decline) ==
    /\ Withdrawable(o, decline)
    /\ NoPayments(o)
    /\ \A k \in KotsOf(o) : kot[k].status # "SERVED"
    /\ Start(w, [Idle EXCEPT
            !.op = IF decline THEN "rejectOrder" ELSE "cancelOrder",
            !.order = o, !.table = order[o].table])

WithdrawOrderCommits(w) ==
    LET o == req[w].order
        decline == req[w].op = "rejectOrder"
    IN  /\ req[w].op \in {"rejectOrder", "cancelOrder"}
        /\ Counted(w)
        /\ IF Withdrawable(o, decline)
           THEN /\ order' = [order EXCEPT
                        ![o].status = "CANCELLED",
                        ![o].acceptance = IF decline THEN "REJECTED" ELSE @]
                /\ kot' = [k \in Kots |->
                        IF /\ kot[k].order = o
                           /\ kot[k].status \notin KOT_VOID_STATUSES \cup {"SERVED"}
                        THEN [kot[k] EXCEPT !.status = "CANCELLED"]
                        ELSE kot[k]]
                /\ table' = Released(w, table)
                /\ Finish(w)
                /\ UNCHANGED line
           ELSE Rollback(w)

-----------------------------------------------------------------------------
(* updateOrder (to another table), updateOrderItem, removeOrderItem, merge *)

UpdateOrderReads(w, o, t) ==
    /\ Editable(o)
    /\ t # order[o].table
    /\ table[t] # "OUT_OF_SERVICE"
    /\ ~ OtherOpenBill(t, o)
    /\ Start(w, [Idle EXCEPT !.op = "updateOrder", !.order = o,
                             !.table = order[o].table, !.to = t])

UpdateOrderCommits(w) ==
    /\ req[w].op = "updateOrder"
    /\ Counted(w)
    /\ order' = [order EXCEPT ![req[w].order].table = req[w].to]
    /\ table' = Released(w, [table EXCEPT ![req[w].to] = "OCCUPIED"])
    /\ Finish(w)
    /\ UNCHANGED <<line, kot>>

\* assertLineNotStarted, inside the transaction.
LineNotStarted(l) ==
    \A k \in Kots : l \in kot[k].lines =>
                        kot[k].status \notin KOT_STARTED_STATUSES

\* Only a smaller quantity is taken.
UpdateOrderItemReads(w, o, l, q) ==
    /\ Editable(o)
    /\ l \in LinesOf(o)
    /\ q < line[l].qty
    /\ Start(w, [Idle EXCEPT !.op = "updateOrderItem", !.order = o,
                             !.line = l, !.amount = q])

UpdateOrderItemCommits(w) ==
    LET o == req[w].order
        l == req[w].line
    IN  /\ req[w].op = "updateOrderItem"
        /\ IF OnBill({l}) /\ LineNotStarted(l)
           THEN /\ line' = [line EXCEPT ![l].qty = req[w].amount]
                /\ order' = RecomputeTotals(line', o)
                /\ Finish(w)
                /\ UNCHANGED <<kot, table>>
           ELSE Rollback(w)

DeleteLines(ls) ==
    [l \in Lines |-> IF l \in ls
                     THEN [state |-> "DELETED", order |-> None, qty |-> 0]
                     ELSE line[l]]

RemoveOrderItemReads(w, o, l) ==
    /\ Editable(o)
    /\ l \in LinesOf(o)
    /\ LinesOf(o) # {l}
    /\ Start(w, [Idle EXCEPT !.op = "removeOrderItem", !.order = o,
                             !.line = l])

\* The kot_items of a deleted line go with it (ON DELETE CASCADE), and every
\* ticket of the order left with nothing on it is cancelled.
RemoveOrderItemCommits(w) ==
    LET o == req[w].order
        l == req[w].line
    IN  /\ req[w].op = "removeOrderItem"
        /\ IF OnBill({l}) /\ LineNotStarted(l)
           THEN /\ line' = DeleteLines({l})
                /\ order' = RecomputeTotals(line', o)
                /\ kot' = [k \in Kots |->
                     [kot[k] EXCEPT
                        !.lines = @ \ {l},
                        !.status = IF /\ kot[k].order = o
                                      /\ kot[k].lines \ {l} = {}
                                   THEN "CANCELLED" ELSE @]]
                /\ Finish(w)
                /\ UNCHANGED table
           ELSE Rollback(w)

MergeOrdersReads(w, o, source) ==
    /\ o # source
    /\ Editable(o) /\ Editable(source)
    /\ Start(w, [Idle EXCEPT
            !.op = "mergeOrders", !.order = o, !.source = source,
            !.table = IF order[source].table = order[o].table THEN None
                      ELSE order[source].table])

\* Neither of the two orders is looked at again.
MergeOrdersCommits(w) ==
    LET o == req[w].order
        source == req[w].source
    IN  /\ req[w].op = "mergeOrders"
        /\ Counted(w)
        /\ line' = [l \in Lines |-> IF line[l].order = source
                                    THEN [line[l] EXCEPT !.order = o]
                                    ELSE line[l]]
        /\ kot' = [k \in Kots |-> IF kot[k].order = source
                                  THEN [kot[k] EXCEPT !.order = o]
                                  ELSE kot[k]]
        /\ order' = [RecomputeTotals(line', o)
                        EXCEPT ![source].status = "CANCELLED"]
        /\ table' = Released(w, table)
        /\ Finish(w)

-----------------------------------------------------------------------------
(* checkout *)

\* resolveBill: the first payment fixes the figures.
AmountDue(o) == IF NoPayments(o) THEN Subtotal(line, o) ELSE order[o].total
Balance(o) == AmountDue(o) - order[o].paid

Settleable_unaccepted(o) == order[o].status = "OPEN"
Settleable(o) == order[o].status = "OPEN" /\ order[o].acceptance # "PENDING"

\* The guard of the updates of checkout.
StillOpen_unchecked(o) == TRUE
StillOpen(o) == order[o].status = "OPEN"

\* settlePayments applies at most the balance, and refuses to apply nothing
\* to a balance.  table: the one to free, if the payments settle the bill.
CheckoutReads(w, o, amount) ==
    LET balance == Balance(o)
    IN  /\ Settleable(o)
        /\ amount <= balance
        /\ amount = 0 => balance = 0
        /\ Start(w, [Idle EXCEPT
                !.op = "checkout", !.order = o, !.amount = amount,
                !.due = AmountDue(o), !.flag = amount = balance,
                !.locked = ~ NoPayments(o),
                !.table = IF amount = balance THEN order[o].table ELSE None])

CheckoutCommits(w) ==
    LET o == req[w].order
        fullyPaid == req[w].flag
    IN  /\ req[w].op = "checkout"
        /\ Counted(w)
        /\ IF StillOpen(o)
           THEN /\ order' = [order EXCEPT
                        ![o].paid = @ + req[w].amount,
                        ![o].total = IF req[w].locked THEN @ ELSE req[w].due,
                        ![o].status = IF fullyPaid THEN "PAID" ELSE @]
                /\ table' = Released(w, table)
                /\ Finish(w)
                /\ UNCHANGED <<line, kot>>
           ELSE Rollback(w)

-----------------------------------------------------------------------------
(* Kitchen: updateKotStatus, rejectKot *)

\* The compare-and-set on the ticket status the caller saw.
KotAsSeen_unchecked(w) == TRUE
KotAsSeen(w) == kot[req[w].kot].status = req[w].seen

UpdateKotStatusReads(w, k) ==
    /\ kot[k].status \in DOMAIN KOT_NEXT_STATUS
    /\ Start(w, [Idle EXCEPT !.op = "updateKotStatus", !.kot = k,
                             !.seen = kot[k].status])

UpdateKotStatusCommits(w) ==
    LET k == req[w].kot
    IN  /\ req[w].op = "updateKotStatus"
        /\ IF KotAsSeen(w)
           THEN /\ kot' = [kot EXCEPT ![k].status = KOT_NEXT_STATUS[req[w].seen]]
                /\ Finish(w)
                /\ UNCHANGED <<order, line, table>>
           ELSE Rollback(w)

OtherLiveTicket_anyOther(o, k) == KotsOf(o) \ {k} # {}
OtherLiveTicket(o, k) ==
    \E j \in KotsOf(o) \ {k} : kot[j].status \notin KOT_VOID_STATUSES

\* flag: another ticket of the order was live when the kitchen looked.
RejectKotReads(w, k) ==
    LET o == kot[k].order
        otherLive == OtherLiveTicket(o, k)
    IN  /\ kot[k].status \in KOT_REJECTABLE
        /\ Editable(o)
        /\ Start(w, [Idle EXCEPT
                !.op = "rejectKot", !.order = o, !.kot = k,
                !.seen = kot[k].status, !.flag = otherLive,
                !.lines = kot[k].lines,
                !.table = IF otherLive THEN None ELSE order[o].table])

RejectKotCommits(w) ==
    LET o == req[w].order
        k == req[w].kot
        otherLive == req[w].flag
    IN  /\ req[w].op = "rejectKot"
        /\ Counted(w)
        /\ IF /\ KotAsSeen(w)
              /\ otherLive \/ order[o].status = "OPEN"
           THEN /\ line' = IF otherLive THEN DeleteLines(req[w].lines) ELSE line
                /\ kot' = [j \in Kots |->
                     [kot[j] EXCEPT
                        !.status = IF j = k THEN "REJECTED" ELSE @,
                        !.lines = IF otherLive THEN @ \ req[w].lines ELSE @]]
                /\ order' = IF ~ otherLive
                            THEN [order EXCEPT ![o].status = "CANCELLED"]
                            ELSE IF req[w].lines # {}
                            THEN RecomputeTotals(line', o) ELSE order
                /\ table' = Released(w, table)
                /\ Finish(w)
           ELSE Rollback(w)

-----------------------------------------------------------------------------
(* The scheduled-orders job (scheduled-orders.service.ts) and time *)

Due_neverAccepted(o) == /\ order[o].status = "OPEN"
                        /\ order[o].acceptance = "NOT_REQUIRED"
                        /\ order[o].sched = "due"
                        /\ KotsOf(o) = {}
Due(o) == /\ order[o].status = "OPEN"
          /\ order[o].acceptance \in {"NOT_REQUIRED", "ACCEPTED"}
          /\ order[o].sched = "due"
          /\ KotsOf(o) = {}

ReleaseReads(c) ==
    /\ req[c] = Idle
    /\ \E o \in Orders : Due(o)
    /\ req' = [req EXCEPT ![c].op = "release",
                          ![c].queue = {<<o, LinesOf(o)>> : o \in {x \in Orders : Due(x)}}]
    /\ UNCHANGED rows

\* One transaction per order read as due, with no second look at the order.
\* One that throws ends the run.
ReleaseCommits(c) ==
    /\ req[c].op = "release"
    /\ \E e \in req[c].queue :
          IF OnBill(e[2])
          THEN /\ GenerateKots(e[1], e[2])
               /\ IF req[c].queue = {e}
                  THEN Finish(c)
                  ELSE req' = [req EXCEPT ![c].queue = @ \ {e}]
               /\ UNCHANGED <<order, line, table>>
          ELSE Rollback(c)

\* The scheduled time comes within the lead time (SCHEDULE_LEAD_MS).
TimePasses(o) ==
    /\ order[o].sched = "later"
    /\ order' = [order EXCEPT ![o].sched = "due"]
    /\ UNCHANGED <<line, kot, table, req>>

\* The count of releaseTableIfIdle.  A merge excepts the source order.
CountOpenBills(w) ==
    LET except == IF req[w].op = "mergeOrders" THEN req[w].source
                  ELSE req[w].order
    IN  /\ ~ Counted(w)
        /\ req' = [req EXCEPT ![w].idle =
                      IF OtherOpenBill(req[w].table, except) THEN "no" ELSE "yes"]
        /\ UNCHANGED rows

-----------------------------------------------------------------------------

Init ==
    /\ order = [o \in Orders |->
                    [status |-> "NONE", acceptance |-> "NOT_REQUIRED",
                     table |-> None, sched |-> "now", total |-> 0, paid |-> 0]]
    /\ line = [l \in Lines |-> [state |-> "FREE", order |-> None, qty |-> 0]]
    /\ kot = [k \in Kots |-> [status |-> "NONE", order |-> None, lines |-> {}]]
    /\ table = [t \in Tables |-> IF t \in OutOfService THEN "OUT_OF_SERVICE"
                                 ELSE "AVAILABLE"]
    /\ req = [w \in Workers \cup Crons |-> Idle]

Reads(w) ==
    \/ \E o \in Orders :
        \/ AddItemsReads(w, o)
        \/ AcceptOrderReads(w, o)
        \/ \E decline \in BOOLEAN : WithdrawOrderReads(w, o, decline)
        \/ \E t \in Tables : UpdateOrderReads(w, o, t)
        \/ \E l \in Lines, q \in 1 .. MaxQty : UpdateOrderItemReads(w, o, l, q)
        \/ \E l \in Lines : RemoveOrderItemReads(w, o, l)
        \/ \E source \in Orders : MergeOrdersReads(w, o, source)
        \/ \E amount \in 0 .. MaxQty * Cardinality(Lines) :
                CheckoutReads(w, o, amount)
    \/ \E k \in Kots : UpdateKotStatusReads(w, k) \/ RejectKotReads(w, k)

Commits(w) ==
    \/ \E ls \in FreshLines, q \in 1 .. MaxQty : AddItemsCommits(w, ls, q)
    \/ AcceptOrderCommits(w)
    \/ WithdrawOrderCommits(w)
    \/ UpdateOrderCommits(w)
    \/ UpdateOrderItemCommits(w)
    \/ RemoveOrderItemCommits(w)
    \/ MergeOrdersCommits(w)
    \/ CheckoutCommits(w)
    \/ UpdateKotStatusCommits(w)
    \/ RejectKotCommits(w)

Next ==
    \/ \E w \in Workers, o \in Orders, t \in Tables \cup {None},
          acc \in {"NOT_REQUIRED", "PENDING", "ACCEPTED"},
          sch \in {"now", "later", "due"}, past \in BOOLEAN,
          ls \in FreshLines, q \in 1 .. MaxQty :
            CreateOrder(w, o, t, acc, sch, past, ls, q)
    \/ \E w \in Workers : Reads(w) \/ CountOpenBills(w) \/ Commits(w)
    \/ \E c \in Crons : ReleaseReads(c) \/ ReleaseCommits(c)
    \/ \E o \in Orders : TimePasses(o)

Spec == Init /\ [][Next]_vars

\* The job runs every minute (CronExpression.EVERY_MINUTE) and a run reaches
\* the end of its list.
CronSpec == Spec /\ \A c \in Crons : WF_vars(ReleaseReads(c) \/ ReleaseCommits(c))

-----------------------------------------------------------------------------
(* Properties *)

\* Accepting is a separate decision from paying: money is only ever taken on
\* an order that needed no acceptance or was accepted, whatever decline or
\* accept ran while the checkout was in flight (checkout reads the acceptance
\* outside its transaction and never again).
UnacceptedNeverSettled ==
    \A o \in Orders :
        order[o].paid > 0 \/ order[o].status = "PAID"
            => order[o].acceptance \in {"NOT_REQUIRED", "ACCEPTED"}

\* Two staff answering an online order at once: the first answer stands.
DecisionIsFinal ==
    [][\A o \in Orders :
        order[o].acceptance \in {"ACCEPTED", "REJECTED"}
            => order'[o].acceptance = order[o].acceptance]_vars

\* A settled bill, or one taken off the floor, takes no further money: the
\* OPEN guard of checkout against a second checkout, a cancel and a merge.
ClosedBillTakesNoMoney ==
    [][\A o \in Orders :
        order[o].status \in {"PAID", "CANCELLED"}
            => order'[o].paid = order[o].paid]_vars

\* The kitchen is never sent a line twice: two staff tapping Accept, an
\* accept racing the scheduled-orders job, lines removed in between.
LineTicketedOnce ==
    \A j, k \in Kots : j # k => kot[j].lines \cap kot[k].lines = {}

\* A ticket only moves along the state machine of order-lifecycle.ts, whatever
\* stale screens ask for, and a served or cancelled one never moves again.
\* (A rejected one may still become cancelled: see RejectedTicketIsKept.)
KitchenMovesForward ==
    [][\A k \in Kots :
        LET from == kot[k].status
            to == kot'[k].status
        IN  from # to =>
              \/ from = "NONE" /\ to = "NEW"
              \/ from \in DOMAIN KOT_NEXT_STATUS /\ to = KOT_NEXT_STATUS[from]
              \/ from \in KOT_REJECTABLE /\ to = "REJECTED"
              \/ from \notin {"NONE", "SERVED"} /\ to = "CANCELLED"]_vars

\* The total stored on a bill no payment has fixed is the sum of its lines,
\* after any sequence of added rounds, removals, refused tickets and merges.
TotalIsSumOfLines ==
    \A o \in Orders :
        order[o].status = "OPEN" /\ order[o].paid = 0
            => order[o].total = Subtotal(line, o)

\* A table with an open bill is shown occupied: finishing one bill must not
\* blank the table out from under another one.
OpenBillHoldsItsTable ==
    \A o \in Orders :
        order[o].status = "OPEN" /\ order[o].table # None
            => table[order[o].table] = "OCCUPIED"

\* No table stays occupied once its last bill is settled, cancelled, moved or
\* merged away.
OccupiedTableHasOpenBill ==
    \A t \in Tables :
        table[t] = "OCCUPIED" /\ (\A w \in Workers : req[w] = Idle)
            => OtherOpenBill(t, None)

\* The floor plan and the open bills agree, after any sequence of requests.
TablesMatchBills == OpenBillHoldsItsTable /\ OccupiedTableHasOpenBill

\* Once a part-payment is on a bill its lines and its total are fixed.
PartPaidBillIsFixed ==
    [][\A o \in Orders :
        order[o].status = "OPEN" /\ order[o].paid > 0
            => order'[o].total = order[o].total
               /\ UnitsOf(line', o) = UnitsOf(line, o)]_vars

\* An order the kitchen refused in full stops showing as open.
RefusedOrderIsWithdrawn ==
    \A o \in Orders :
        order[o].status = "OPEN" /\ KotsOf(o) # {}
            => \E k \in KotsOf(o) : kot[k].status # "REJECTED"

Ticketed(l) == \E k \in Kots : l \in kot[k].lines

\* A line of a scheduled order that is open, accepted and due is sent to the
\* kitchen, unless the order is closed or the line removed first, whatever
\* else touches the order between the reads and the transactions of the job.
ScheduledReachesKitchen ==
    \A o \in Orders, l \in Lines :
        /\ order[o].status = "OPEN" /\ order[o].sched = "due"
        /\ order[o].acceptance \in {"NOT_REQUIRED", "ACCEPTED"}
        /\ line[l].order = o
        ~> \/ order[o].status # "OPEN"
           \/ line[l].order # o
           \/ Ticketed(l)

-----------------------------------------------------------------------------
(* What the code does not guarantee.  The first two are the violation runs;  *)
(* README.md gives the shortest trace to each of the others.                 *)

\* A scheduled order the guest settled in advance is cooked as well: an order
\* may be paid before it is served (order-lifecycle.ts).
PrepaidReachesKitchen ==
    \A o \in Orders, l \in Lines :
        order[o].status = "PAID" /\ order[o].sched = "due" /\ line[l].order = o
            ~> Ticketed(l)

\* Payments never add up to more than the bill (settlePayments: "never a
\* silent overpayment").
NeverOverpaid ==
    \A o \in Orders :
        order[o].paid > 0 => order[o].paid <= order[o].total

\* Money taken is never on a cancelled order (withdrawOrder: "neither has
\* moved before payment"): a part-payment between its reads and its
\* transaction breaks it.
CancelledHasNoMoney ==
    \A o \in Orders : order[o].status = "CANCELLED" => order[o].paid = 0

\* Paid orders go through refund(), never through a cancellation: a merge that
\* read the source while it was open breaks it.
PaidIsNeverCancelled ==
    [][\A o \in Orders : order[o].status = "PAID" => order'[o].status = "PAID"]_vars

\* An online order reaches the kitchen only once accepted: addItems breaks it.
PendingStaysOutOfKitchen ==
    \A o \in Orders : order[o].acceptance = "PENDING" => KotsOf(o) = {}

\* A ticket the kitchen refused is kept as REJECTED: removing the line of
\* another ticket cancels every ticket with no line left, refused ones too.
RejectedTicketIsKept ==
    [][\A k \in Kots :
        kot[k].status = "REJECTED" => kot'[k].status = "REJECTED"]_vars

=============================================================================
