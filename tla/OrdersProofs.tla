---------------------------- MODULE OrdersProofs ----------------------------
(***************************************************************************)
(* Proofs about module Orders, for any number of orders, lines, tickets,   *)
(* tables, requests and job runs and any choice of handlers.               *)
(*                                                                         *)
(* The invariant Inv adds to the types what a request in flight may rely   *)
(* on: a checkout that passed its reads is for an order whose acceptance   *)
(* can no longer change, because it only ever leaves PENDING.  Three parts *)
(* follow that need more of the schedule.  PlanInv (tables) and BillInv    *)
(* (bills) are about requests that do not overlap: what such a request     *)
(* remembers is still so at its transaction.  KitchenInv (tickets) lets    *)
(* requests overlap, but has one job run at a time and leaves lines on the *)
(* order they were entered on.                                             *)
(***************************************************************************)
EXTENDS Orders, FiniteSetTheorems, TLAPS

\* What the reads of a handler established and no other handler can undo, for
\* a request r over the order rows ord.
Justified(r, ord) ==
    /\ r.op \notin {"idle", "release", "updateKotStatus"} => r.order \in Orders
    /\ r.op = "updateKotStatus" => r.seen \in DOMAIN KOT_NEXT_STATUS
    /\ r.op = "rejectKot" => r.seen # "NONE"
    /\ r.op = "updateOrderItem" => r.amount \in 1 .. MaxQty
    /\ r.op = "checkout" =>
          /\ ord[r.order].status # "NONE"
          /\ ord[r.order].acceptance \in {"NOT_REQUIRED", "ACCEPTED"}

RequestsOK == \A w \in Workers \cup Crons : Justified(req[w], order)

DeclinedIsCancelled ==
    \A o \in Orders :
        order[o].acceptance = "REJECTED" => order[o].status = "CANCELLED"

BlankRows ==
    \A o \in Orders :
        order[o].status = "NONE" =>
            order[o].acceptance = "NOT_REQUIRED" /\ order[o].paid = 0

TicketsHaveOrders ==
    \A k \in Kots : kot[k].status # "NONE" => kot[k].order \in Orders

Inv == /\ TypeOK
       /\ RequestsOK
       /\ TicketsHaveOrders
       /\ DeclinedIsCancelled
       /\ BlankRows
       /\ UnacceptedNeverSettled

-----------------------------------------------------------------------------
(* Lemmas about the operators *)

\* A bill has finitely many units, so its subtotal is a number.
LEMMA SubtotalType ==
    ASSUME NEW f, NEW o
    PROVE  Subtotal(f, o) \in Nat
<1>1. IsFiniteSet(Lines) /\ IsFiniteSet(1 .. MaxQty)
  BY OrdersAssumption, FS_Interval
<1>2. IsFiniteSet(Lines \X (1 .. MaxQty))
  BY <1>1, FS_Product
<1>3. IsFiniteSet(UnitsOf(f, o))
  BY <1>2, FS_Subset DEF UnitsOf
<1> QED
  BY <1>3, FS_CardinalityType DEF Subtotal

LEMMA FreshLinesFinite ==
    ASSUME NEW ls \in FreshLines
    PROVE  ls \subseteq Lines /\ Cardinality(ls) \in Nat
<1>1. ls \subseteq Lines
  BY DEF FreshLines
<1> QED
  BY <1>1, OrdersAssumption, FS_Subset, FS_CardinalityType

LEMMA IdleType == Idle \in Request
  BY DEF Idle, Request, AllOps, KotStatus

LEMMA AddLinesType ==
    ASSUME TypeOK, NEW o \in Orders \cup {None}, NEW ls \in SUBSET Lines,
           NEW q \in 1 .. MaxQty
    PROVE  AddLines(o, ls, q) \in [Lines -> LineRow]
  BY OrdersAssumption DEF TypeOK, AddLines, LineRow

LEMMA DeleteLinesType ==
    ASSUME TypeOK, NEW ls
    PROVE  DeleteLines(ls) \in [Lines -> LineRow]
  BY OrdersAssumption DEF TypeOK, DeleteLines, LineRow

LEMMA RecomputeTotalsType ==
    ASSUME TypeOK, NEW f, NEW o
    PROVE  /\ RecomputeTotals(f, o) \in [Orders -> OrderRow]
           /\ \A x \in Orders :
                 /\ RecomputeTotals(f, o)[x].status = order[x].status
                 /\ RecomputeTotals(f, o)[x].acceptance = order[x].acceptance
                 /\ RecomputeTotals(f, o)[x].paid = order[x].paid
  BY SubtotalType DEF TypeOK, RecomputeTotals, OrderRow

LEMMA GenerateKotsType ==
    ASSUME TypeOK, TicketsHaveOrders, NEW o \in Orders,
           NEW ls \in SUBSET Lines, GenerateKots(o, ls)
    PROVE  kot' \in [Kots -> KotRow] /\ TicketsHaveOrders'
  BY DEF TypeOK, GenerateKots, KotRow, KotStatus, TicketsHaveOrders

LEMMA ReleasedType ==
    ASSUME TypeOK, NEW w, NEW t \in [Tables -> TableStatus]
    PROVE  Released(w, t) \in [Tables -> TableStatus]
  BY DEF Released, TableStatus
-----------------------------------------------------------------------------
(* What a step may do to an order row *)

Kept(o) == /\ order'[o].status = order[o].status
           /\ order'[o].acceptance = order[o].acceptance
           /\ order'[o].paid = order[o].paid
Created(o) == /\ order[o].status = "NONE" /\ order'[o].status = "OPEN"
              /\ order'[o].acceptance # "REJECTED"
              /\ order'[o].paid = 0
Answered(o) == /\ order[o].status = "OPEN" /\ order[o].acceptance = "PENDING"
               /\ order'[o].paid = order[o].paid
               /\ \/ /\ order'[o].status = "OPEN"
                     /\ order'[o].acceptance = "ACCEPTED"
                  \/ /\ order'[o].status = "CANCELLED"
                     /\ order'[o].acceptance = "REJECTED"
Cancelled(o) == /\ order'[o].status = "CANCELLED"
                /\ order'[o].acceptance = order[o].acceptance
                /\ order'[o].paid = order[o].paid
Paid(o) == /\ order[o].status = "OPEN"
           /\ order[o].acceptance \in {"NOT_REQUIRED", "ACCEPTED"}
           /\ order'[o].status \in {"OPEN", "PAID"}
           /\ order'[o].acceptance = order[o].acceptance

OrderStep == \A o \in Orders :
                Kept(o) \/ Created(o) \/ Answered(o) \/ Cancelled(o) \/ Paid(o)

\* A step is sound: it keeps the types, changes each order row in one of the
\* ways above, and every request in flight after it was justified before it.
SoundStep == /\ TypeOK'
             /\ TicketsHaveOrders'
             /\ OrderStep
             /\ \A w \in Workers \cup Crons : Justified(req'[w], order)

\* A handler's reads change nothing but its own request.
LEMMA StartIsSound ==
    ASSUME Inv, NEW w \in Workers, NEW r \in Request, Justified(r, order),
           Start(w, r)
    PROVE  SoundStep
<1>1. /\ UNCHANGED rows
      /\ req' = [req EXCEPT ![w] = r]
  BY DEF Start
<1>2. TypeOK' /\ TicketsHaveOrders'
  BY <1>1 DEF Inv, TypeOK, rows, TicketsHaveOrders
<1>3. \A v \in Workers \cup Crons : Justified(req'[v], order)
  BY <1>1 DEF Inv, TypeOK, RequestsOK
<1> QED
  BY <1>1, <1>2, <1>3 DEF SoundStep, OrderStep, Kept, rows

LEMMA IdleIsJustified == Justified(Idle, order)
  BY DEF Justified, Idle

LEMMA FinishType ==
    ASSUME Inv, NEW w \in Workers \cup Crons, Finish(w)
    PROVE  /\ req' \in [Workers \cup Crons -> Request]
           /\ \A v \in Workers \cup Crons : Justified(req'[v], order)
  BY IdleType, IdleIsJustified DEF Inv, TypeOK, RequestsOK, Finish

LEMMA RollbackIsSound ==
    ASSUME Inv, NEW w \in Workers \cup Crons, Rollback(w)
    PROVE  SoundStep
<1>1. UNCHANGED rows /\ Finish(w)
  BY DEF Rollback
<1>2. TypeOK' /\ TicketsHaveOrders'
  BY <1>1, FinishType DEF Inv, TypeOK, rows, TicketsHaveOrders
<1> QED
  BY <1>1, <1>2, FinishType DEF SoundStep, OrderStep, Kept, rows

\* The two requests that carry the most.
CheckoutReq(o, amount, due, full, locked, t) ==
    [Idle EXCEPT !.op = "checkout", !.order = o, !.amount = amount,
                 !.due = due, !.flag = full, !.locked = locked, !.table = t]
RejectReq(o, k, seen, live, ls, t) ==
    [Idle EXCEPT !.op = "rejectKot", !.order = o, !.kot = k, !.seen = seen,
                 !.flag = live, !.lines = ls, !.table = t]

LEMMA CheckoutRequest ==
    ASSUME NEW o, o \in Orders, NEW amount, amount \in Nat,
           NEW due, due \in Nat, NEW full, full \in BOOLEAN, NEW locked, locked \in BOOLEAN,
           NEW t, t \in Tables \cup {None}
    PROVE  CheckoutReq(o, amount, due, full, locked, t) \in Request
  BY DEF Request, Idle, AllOps, KotStatus, CheckoutReq

LEMMA RejectRequest ==
    ASSUME NEW o, o \in Orders, NEW k, k \in Kots,
           NEW seen, seen \in KotStatus, NEW live \in BOOLEAN,
           NEW ls, ls \in SUBSET Lines, NEW t, t \in Tables \cup {None}
    PROVE  LET r == RejectReq(o, k, seen, live, ls, t)
           IN  /\ r \in Request
               /\ r.op = "rejectKot" /\ r.order = o /\ r.seen = seen
  BY ZenonT(60) DEF Request, Idle, AllOps, KotStatus, RejectReq

LEMMA ReadsAreSound ==
    ASSUME Inv, NEW w \in Workers, Reads(w)
    PROVE  SoundStep
<1> USE OrdersAssumption, IdleType
<1>1. ASSUME NEW o \in Orders, AddItemsReads(w, o)
      PROVE  SoundStep
  <2> DEFINE r == [Idle EXCEPT !.op = "addItems", !.order = o,
                               !.amount = Subtotal(line, o)]
  <2>1. r \in Request /\ Justified(r, order)
    BY SubtotalType, ZenonT(60) DEF Request, Idle, AllOps, KotStatus, Justified
  <2> QED
    BY <1>1, <2>1, StartIsSound DEF AddItemsReads
<1>2. ASSUME NEW o \in Orders, AcceptOrderReads(w, o)
      PROVE  SoundStep
  <2> DEFINE r == [Idle EXCEPT !.op = "acceptOrder", !.order = o,
                               !.lines = LinesOf(o)]
  <2>1. r \in Request /\ Justified(r, order)
    BY ZenonT(60) DEF Request, Idle, AllOps, KotStatus, Justified, LinesOf
  <2> QED
    BY <1>2, <2>1, StartIsSound DEF AcceptOrderReads
<1>3. ASSUME NEW o \in Orders, NEW decline \in BOOLEAN,
             WithdrawOrderReads(w, o, decline)
      PROVE  SoundStep
  <2> DEFINE r == [Idle EXCEPT
                     !.op = IF decline THEN "rejectOrder" ELSE "cancelOrder",
                     !.order = o, !.table = order[o].table]
  <2>1. order[o].table \in Tables \cup {None}
    BY DEF Inv, TypeOK, OrderRow
  <2>2. r \in Request /\ Justified(r, order)
    BY <2>1, ZenonT(60) DEF Request, Idle, AllOps, KotStatus, Justified
  <2> QED
    BY <1>3, <2>2, StartIsSound DEF WithdrawOrderReads
<1>4. ASSUME NEW o \in Orders, NEW t \in Tables, UpdateOrderReads(w, o, t)
      PROVE  SoundStep
  <2> DEFINE r == [Idle EXCEPT !.op = "updateOrder", !.order = o,
                               !.table = order[o].table, !.to = t]
  <2>1. order[o].table \in Tables \cup {None}
    BY DEF Inv, TypeOK, OrderRow
  <2>2. r \in Request /\ Justified(r, order)
    BY <2>1, ZenonT(60) DEF Request, Idle, AllOps, KotStatus, Justified
  <2> QED
    BY <1>4, <2>2, StartIsSound DEF UpdateOrderReads
<1>5. ASSUME NEW o \in Orders, NEW l \in Lines, NEW q \in 1 .. MaxQty,
             UpdateOrderItemReads(w, o, l, q)
      PROVE  SoundStep
  <2> DEFINE r == [Idle EXCEPT !.op = "updateOrderItem", !.order = o,
                               !.line = l, !.amount = q]
  <2>1. q \in Nat
    OBVIOUS
  <2>2. r \in Request
    BY <2>1 DEF Request, Idle, AllOps, KotStatus
  <2>3. Justified(r, order)
    BY DEF Justified, Idle
  <2> QED
    BY <1>5, <2>2, <2>3, StartIsSound DEF UpdateOrderItemReads
<1>6. ASSUME NEW o \in Orders, NEW l \in Lines, RemoveOrderItemReads(w, o, l)
      PROVE  SoundStep
  <2> DEFINE r == [Idle EXCEPT !.op = "removeOrderItem", !.order = o,
                               !.line = l]
  <2>1. r \in Request /\ Justified(r, order)
    BY ZenonT(60) DEF Request, Idle, AllOps, KotStatus, Justified
  <2> QED
    BY <1>6, <2>1, StartIsSound DEF RemoveOrderItemReads
<1>7. ASSUME NEW o \in Orders, NEW source \in Orders,
             MergeOrdersReads(w, o, source)
      PROVE  SoundStep
  <2> DEFINE t == IF order[source].table = order[o].table THEN None
                  ELSE order[source].table
             r == [Idle EXCEPT !.op = "mergeOrders", !.order = o,
                               !.source = source, !.table = t]
  <2>1. t \in Tables \cup {None}
    BY DEF Inv, TypeOK, OrderRow
  <2>2. r \in Request /\ Justified(r, order)
    BY <2>1, ZenonT(60) DEF Request, Idle, AllOps, KotStatus, Justified
  <2> QED
    BY <1>7, <2>2, StartIsSound DEF MergeOrdersReads
<1>8. ASSUME NEW o \in Orders,
             NEW amount \in 0 .. MaxQty * Cardinality(Lines),
             CheckoutReads(w, o, amount)
      PROVE  SoundStep
  <2> DEFINE t == IF amount = Balance(o) THEN order[o].table ELSE None
             full == amount = Balance(o)
             locked == ~ NoPayments(o)
             due == AmountDue(o)
             r == CheckoutReq(o, amount, due, full, locked, t)
  <2>1. order[o].total \in Nat /\ order[o].table \in Tables \cup {None}
    BY DEF Inv, TypeOK, OrderRow
  <2>2. due \in Nat
    BY <2>1, SubtotalType DEF AmountDue
  <2>3. amount \in Nat
    BY FS_CardinalityType
  <2>4. /\ t \in Tables \cup {None}
        /\ full \in BOOLEAN /\ locked \in BOOLEAN
    BY <2>1 DEF NoPayments
  <2>5. r \in Request /\ r.op = "checkout" /\ r.order = o
    <3>1. o \in Orders
      OBVIOUS
    <3>2. full \in BOOLEAN
      OBVIOUS
    <3>3. locked \in BOOLEAN
      BY <2>4
    <3>4. t \in Tables \cup {None}
      BY <2>4
    <3> HIDE DEF due, t, full, locked
    <3>5. \A f, g \in BOOLEAN : CheckoutReq(o, amount, due, f, g, t) \in Request
      BY <3>1, <3>4, <2>2, <2>3, CheckoutRequest
    <3>6. r.op = "checkout" /\ r.order = o
      BY DEF CheckoutReq, Idle
    <3> QED
      BY <3>2, <3>3, <3>5, <3>6
  <2>6. /\ order[o].status = "OPEN"
        /\ order[o].acceptance \in {"NOT_REQUIRED", "ACCEPTED"}
    BY <1>8 DEF CheckoutReads, Settleable, Inv, DeclinedIsCancelled, TypeOK,
                OrderRow, Acceptance
  <2>7. Justified(r, order)
    <3> HIDE DEF r
    <3> QED
      BY <2>5, <2>6 DEF Justified
  <2>8. Start(w, r)
    BY <1>8 DEF CheckoutReads, CheckoutReq
  <2> QED
    BY <2>5, <2>7, <2>8, StartIsSound
<1>9. ASSUME NEW k \in Kots, UpdateKotStatusReads(w, k)
      PROVE  SoundStep
  <2> DEFINE r == [Idle EXCEPT !.op = "updateKotStatus", !.kot = k,
                               !.seen = kot[k].status]
  <2>1. kot[k].status \in KotStatus
    BY DEF Inv, TypeOK, KotRow
  <2>2. r \in Request /\ Justified(r, order)
    BY <1>9, <2>1, ZenonT(60) DEF Request, Idle, AllOps, KotStatus, Justified,
                      UpdateKotStatusReads
  <2> QED
    BY <1>9, <2>2, StartIsSound DEF UpdateKotStatusReads
<1>10. ASSUME NEW k \in Kots, RejectKotReads(w, k)
       PROVE  SoundStep
  <2> DEFINE o == kot[k].order
             live == OtherLiveTicket(o, k)
             t == IF live THEN None ELSE order[o].table
             r == RejectReq(o, k, kot[k].status, live, kot[k].lines, t)
  <2>1. kot[k].status \in KotStatus /\ kot[k].lines \in SUBSET Lines
    BY DEF Inv, TypeOK, KotRow
  <2>2. o \in Orders \cup {None} /\ live \in BOOLEAN
    BY DEF Inv, TypeOK, KotRow, OtherLiveTicket
  <2>3. Start(w, r) /\ Editable(o)
    BY <1>10 DEF RejectKotReads, RejectReq
  <2>4. o \in Orders
    BY <1>10 DEF Inv, TicketsHaveOrders, RejectKotReads, KOT_REJECTABLE
  <2>5. kot[k].status # "NONE"
    BY <1>10 DEF RejectKotReads, KOT_REJECTABLE
  <2>6. t \in Tables \cup {None}
    BY <2>4 DEF Inv, TypeOK, OrderRow
  <2>7. /\ r \in Request
        /\ r.op = "rejectKot" /\ r.order = o /\ r.seen = kot[k].status
    <3> HIDE DEF o, live, t
    <3> QED
      BY <2>1, <2>2, <2>4, <2>6, RejectRequest
  <2>8. Justified(r, order)
    <3> HIDE DEF r
    <3> QED
      BY <2>4, <2>7, <2>5 DEF Justified
  <2> QED
    BY <2>3, <2>7, <2>8, StartIsSound
<1> QED
  BY <1>1, <1>2, <1>3, <1>4, <1>5, <1>6, <1>7, <1>8, <1>9, <1>10 DEF Reads

-----------------------------------------------------------------------------
(* The transactions *)

\* The facts every transaction of request w starts from.
LEMMA RequestFacts ==
    ASSUME Inv, NEW w \in Workers \cup Crons
    PROVE  /\ req[w] \in Request
           /\ Justified(req[w], order)
           /\ order \in [Orders -> OrderRow]
           /\ line \in [Lines -> LineRow]
           /\ kot \in [Kots -> KotRow]
           /\ table \in [Tables -> TableStatus]
  BY DEF Inv, TypeOK, RequestsOK

LEMMA AddItemsIsSound ==
    ASSUME Inv, NEW w \in Workers, NEW ls \in FreshLines,
           NEW q \in 1 .. MaxQty, AddItemsCommits(w, ls, q)
    PROVE  SoundStep
<1> DEFINE o == req[w].order
           newTotal == req[w].amount + q * Cardinality(ls)
<1>1. o \in Orders /\ req[w].amount \in Nat
  BY RequestFacts DEF AddItemsCommits, Justified, Request
<1>2. newTotal \in Nat
  BY <1>1, FreshLinesFinite, OrdersAssumption
<1>3. order' = [order EXCEPT ![o].total = newTotal]
  BY DEF AddItemsCommits
<1>4. /\ order' \in [Orders -> OrderRow]
      /\ OrderStep
  <2> HIDE DEF o, newTotal
  <2> QED
    BY <1>1, <1>2, <1>3, RequestFacts DEF OrderRow, OrderStep, Kept
<1>5. line' \in [Lines -> LineRow]
  BY <1>1, FreshLinesFinite, AddLinesType DEF AddItemsCommits, Inv
<1>6. kot' \in [Kots -> KotRow] /\ TicketsHaveOrders'
  BY <1>1, FreshLinesFinite, GenerateKotsType DEF AddItemsCommits, Inv
<1>7. table' = table /\ Finish(w)
  BY DEF AddItemsCommits
<1> QED
  BY <1>4, <1>5, <1>6, <1>7, FinishType, RequestFacts DEF SoundStep, TypeOK

LEMMA AcceptOrderIsSound ==
    ASSUME Inv, NEW w \in Workers, AcceptOrderCommits(w)
    PROVE  SoundStep
<1> DEFINE o == req[w].order
<1>1. o \in Orders /\ req[w].lines \in SUBSET Lines
  BY RequestFacts DEF AcceptOrderCommits, Justified, Request
<1>2. CASE Rollback(w)
  BY <1>2, RollbackIsSound
<1>3. CASE /\ WaitingForAnswer(o)
           /\ order' = [order EXCEPT ![o].acceptance = "ACCEPTED"]
           /\ UNCHANGED kot \/ GenerateKots(o, req[w].lines)
           /\ Finish(w)
           /\ UNCHANGED <<line, table>>
  <2>1. order' \in [Orders -> OrderRow] /\ OrderStep
    BY <1>1, <1>3, RequestFacts
       DEF OrderRow, Acceptance, OrderStep, Kept, Answered, WaitingForAnswer
  <2>2. kot' \in [Kots -> KotRow] /\ TicketsHaveOrders'
    BY <1>1, <1>3, GenerateKotsType, RequestFacts DEF Inv, TicketsHaveOrders
  <2> QED
    BY <1>3, <2>1, <2>2, FinishType, RequestFacts DEF SoundStep, TypeOK
<1> QED
  BY <1>2, <1>3 DEF AcceptOrderCommits

LEMMA WithdrawOrderIsSound ==
    ASSUME Inv, NEW w \in Workers, WithdrawOrderCommits(w)
    PROVE  SoundStep
<1> DEFINE o == req[w].order
           decline == req[w].op = "rejectOrder"
<1>1. o \in Orders
  BY RequestFacts DEF WithdrawOrderCommits, Justified
<1>2. CASE Rollback(w)
  BY <1>2, RollbackIsSound
<1>3. CASE ~ Rollback(w)
  <2>1. /\ Withdrawable(o, decline)
        /\ order' = [order EXCEPT
                        ![o].status = "CANCELLED",
                        ![o].acceptance = IF decline THEN "REJECTED" ELSE @]
        /\ kot' = [k \in Kots |->
                    IF /\ kot[k].order = o
                       /\ kot[k].status \notin KOT_VOID_STATUSES \cup {"SERVED"}
                    THEN [kot[k] EXCEPT !.status = "CANCELLED"]
                    ELSE kot[k]]
        /\ table' = Released(w, table)
        /\ Finish(w)
        /\ UNCHANGED line
    BY <1>3 DEF WithdrawOrderCommits
  <2>2. order' \in [Orders -> OrderRow]
    BY <1>1, <2>1, RequestFacts DEF OrderRow, OrderStatus, Acceptance
  <2>3. OrderStep
    BY <1>1, <2>1, RequestFacts DEF OrderRow, OrderStep, Kept, Answered,
                                    Cancelled, Withdrawable, WaitingForAnswer
  <2>4. kot' \in [Kots -> KotRow] /\ TicketsHaveOrders'
    BY <1>1, <2>1, RequestFacts DEF KotRow, KotStatus, Inv, TicketsHaveOrders
  <2>5. table' \in [Tables -> TableStatus]
    BY <2>1, ReleasedType, RequestFacts DEF Inv
  <2> QED
    BY <2>1, <2>2, <2>3, <2>4, <2>5, FinishType, RequestFacts
       DEF SoundStep, TypeOK
<1> QED
  BY <1>2, <1>3

LEMMA UpdateOrderIsSound ==
    ASSUME Inv, NEW w \in Workers, UpdateOrderCommits(w)
    PROVE  SoundStep
<1> DEFINE o == req[w].order
           to == req[w].to
           occupied == [table EXCEPT ![to] = "OCCUPIED"]
<1>1. o \in Orders /\ to \in Tables \cup {None}
  BY RequestFacts DEF UpdateOrderCommits, Justified, Request
<1>2. /\ order' = [order EXCEPT ![o].table = to]
      /\ table' = Released(w, occupied)
      /\ Finish(w)
      /\ UNCHANGED <<line, kot>>
  BY DEF UpdateOrderCommits
<1>3. order' \in [Orders -> OrderRow] /\ OrderStep
  <2> HIDE DEF o, to
  <2> QED
    BY <1>1, <1>2, RequestFacts DEF OrderRow, OrderStep, Kept
<1>4. occupied \in [Tables -> TableStatus]
  BY RequestFacts DEF TableStatus
<1>5. table' \in [Tables -> TableStatus]
  <2> HIDE DEF occupied
  <2> QED
    BY <1>2, <1>4, ReleasedType DEF Inv
<1> QED
  BY <1>2, <1>3, <1>5, FinishType, RequestFacts
     DEF SoundStep, TypeOK, Inv, TicketsHaveOrders

LEMMA UpdateOrderItemIsSound ==
    ASSUME Inv, NEW w \in Workers, UpdateOrderItemCommits(w)
    PROVE  SoundStep
<1> DEFINE o == req[w].order
           l == req[w].line
<1>1. req[w].amount \in 1 .. MaxQty
  BY RequestFacts DEF UpdateOrderItemCommits, Justified
<1>2. CASE Rollback(w)
  BY <1>2, RollbackIsSound
<1>3. CASE ~ Rollback(w)
  <2>1. /\ line' = [line EXCEPT ![l].qty = req[w].amount]
        /\ order' = RecomputeTotals(line', o)
        /\ Finish(w)
        /\ UNCHANGED <<kot, table>>
    BY <1>3 DEF UpdateOrderItemCommits
  <2>2. req[w].amount \in 0 .. MaxQty
    BY <1>1, OrdersAssumption
  <2>3. line' \in [Lines -> LineRow]
    BY <2>1, <2>2, RequestFacts DEF LineRow
  <2>4. order' \in [Orders -> OrderRow] /\ OrderStep
    BY <2>1, RecomputeTotalsType DEF Inv, OrderStep, Kept
  <2> QED
    BY <2>1, <2>3, <2>4, FinishType, RequestFacts
       DEF SoundStep, TypeOK, Inv, TicketsHaveOrders
<1> QED
  BY <1>2, <1>3

LEMMA RemoveOrderItemIsSound ==
    ASSUME Inv, NEW w \in Workers, RemoveOrderItemCommits(w)
    PROVE  SoundStep
<1> DEFINE o == req[w].order
           l == req[w].line
<1>1. CASE Rollback(w)
  BY <1>1, RollbackIsSound
<1>2. CASE ~ Rollback(w)
  <2>1. /\ line' = DeleteLines({l})
        /\ order' = RecomputeTotals(line', o)
        /\ kot' = [k \in Kots |->
                     [kot[k] EXCEPT
                        !.lines = @ \ {l},
                        !.status = IF /\ kot[k].order = o
                                      /\ kot[k].lines \ {l} = {}
                                   THEN "CANCELLED" ELSE @]]
        /\ Finish(w)
        /\ UNCHANGED table
    BY <1>2 DEF RemoveOrderItemCommits
  <2>2. line' \in [Lines -> LineRow]
    BY <2>1, DeleteLinesType DEF Inv
  <2>3. order' \in [Orders -> OrderRow] /\ OrderStep
    <3> HIDE DEF o
    <3> QED
      BY <2>1, RecomputeTotalsType, ZenonT(60) DEF Inv, OrderStep, Kept
  <2>4. o \in Orders
    BY RequestFacts DEF RemoveOrderItemCommits, Justified
  <2>5. kot' \in [Kots -> KotRow]
    BY <2>1, RequestFacts DEF KotRow, KotStatus
  <2>6. TicketsHaveOrders'
    BY <2>1, <2>4, RequestFacts DEF KotRow, Inv, TicketsHaveOrders
  <2> QED
    BY <2>1, <2>2, <2>3, <2>5, <2>6, FinishType, RequestFacts
       DEF SoundStep, TypeOK
<1> QED
  BY <1>1, <1>2

LEMMA MergeOrdersIsSound ==
    ASSUME Inv, NEW w \in Workers, MergeOrdersCommits(w)
    PROVE  SoundStep
<1> DEFINE o == req[w].order
           source == req[w].source
           merged == RecomputeTotals(line', o)
<1>1. o \in Orders
  BY RequestFacts DEF MergeOrdersCommits, Justified
<1>2. /\ line' = [l \in Lines |-> IF line[l].order = source
                                  THEN [line[l] EXCEPT !.order = o]
                                  ELSE line[l]]
      /\ kot' = [k \in Kots |-> IF kot[k].order = source
                                THEN [kot[k] EXCEPT !.order = o]
                                ELSE kot[k]]
      /\ order' = [merged EXCEPT ![source].status = "CANCELLED"]
      /\ table' = Released(w, table)
      /\ Finish(w)
  BY DEF MergeOrdersCommits
<1>3. line' \in [Lines -> LineRow]
  BY <1>1, <1>2, RequestFacts DEF LineRow
<1>4. order' \in [Orders -> OrderRow] /\ OrderStep
  <2>1. /\ merged \in [Orders -> OrderRow]
        /\ \A x \in Orders : /\ merged[x].status = order[x].status
                             /\ merged[x].acceptance = order[x].acceptance
                             /\ merged[x].paid = order[x].paid
    BY RecomputeTotalsType DEF Inv
  <2> HIDE DEF merged
  <2>2. order' = [merged EXCEPT ![source].status = "CANCELLED"]
    BY <1>2
  <2> HIDE DEF source
  <2>3. order' \in [Orders -> OrderRow]
    BY <2>1, <2>2 DEF OrderRow, OrderStatus
  <2>4. \A x \in Orders :
            /\ order'[x].acceptance = order[x].acceptance
            /\ order'[x].paid = order[x].paid
            /\ order'[x].status \in {order[x].status, "CANCELLED"}
    BY <2>1, <2>2 DEF OrderRow
  <2> QED
    BY <2>3, <2>4 DEF OrderStep, Kept, Cancelled
<1>5. kot' \in [Kots -> KotRow] /\ TicketsHaveOrders'
  BY <1>1, <1>2, RequestFacts DEF KotRow, Inv, TicketsHaveOrders
<1>6. table' \in [Tables -> TableStatus]
  BY <1>2, ReleasedType, RequestFacts DEF Inv
<1> QED
  BY <1>2, <1>3, <1>4, <1>5, <1>6, FinishType DEF SoundStep, TypeOK

LEMMA CheckoutIsSound ==
    ASSUME Inv, NEW w \in Workers, CheckoutCommits(w)
    PROVE  SoundStep
<1> DEFINE o == req[w].order
<1>1. CASE Rollback(w)
  BY <1>1, RollbackIsSound
<1>2. CASE ~ Rollback(w)
  <2>1. /\ StillOpen(o)
        /\ order' = [order EXCEPT
                        ![o].paid = @ + req[w].amount,
                        ![o].total = IF req[w].locked THEN @ ELSE req[w].due,
                        ![o].status = IF req[w].flag THEN "PAID" ELSE @]
        /\ table' = Released(w, table)
        /\ Finish(w)
        /\ UNCHANGED <<line, kot>>
    BY <1>2 DEF CheckoutCommits
  <2>2. /\ o \in Orders
        /\ order[o].acceptance \in {"NOT_REQUIRED", "ACCEPTED"}
    BY RequestFacts DEF CheckoutCommits, Justified
  <2>3. req[w].amount \in Nat /\ req[w].due \in Nat
    BY RequestFacts DEF Request
  <2>4. PICK n \in Nat, d \in Nat, st \in {"OPEN", "PAID"} :
            order' = [order EXCEPT ![o].paid = n, ![o].total = d,
                                   ![o].status = st]
    <3>1. order[o].paid + req[w].amount \in Nat /\ order[o].total \in Nat
      BY <2>2, <2>3, RequestFacts DEF OrderRow
    <3> HIDE DEF o
    <3>2. CASE req[w].locked /\ req[w].flag
      BY <2>1, <2>3, <3>1, <3>2
    <3>3. CASE ~ req[w].locked /\ req[w].flag
      BY <2>1, <2>3, <3>1, <3>3
    <3>4. CASE ~ req[w].flag
      BY <2>1, <2>3, <3>1, <3>4 DEF StillOpen
    <3> QED
      BY <3>2, <3>3, <3>4
  <2>5. order' \in [Orders -> OrderRow]
    BY <2>2, <2>4, RequestFacts DEF OrderRow, OrderStatus
  <2>6. /\ \A x \in Orders \ {o} : order'[x] = order[x]
        /\ order'[o].status = st
        /\ order'[o].acceptance = order[o].acceptance
    BY <2>2, <2>4, RequestFacts DEF OrderRow
  <2>7. OrderStep
    BY <2>1, <2>2, <2>6 DEF OrderStep, Kept, Paid, StillOpen
  <2>8. table' \in [Tables -> TableStatus]
    BY <2>1, ReleasedType, RequestFacts DEF Inv
  <2> QED
    BY <2>1, <2>5, <2>7, <2>8, FinishType, RequestFacts
       DEF SoundStep, TypeOK, Inv, TicketsHaveOrders
<1> QED
  BY <1>1, <1>2

LEMMA UpdateKotStatusIsSound ==
    ASSUME Inv, NEW w \in Workers, UpdateKotStatusCommits(w)
    PROVE  SoundStep
<1> DEFINE k == req[w].kot
           next == KOT_NEXT_STATUS[req[w].seen]
<1>1. CASE Rollback(w)
  BY <1>1, RollbackIsSound
<1>2. CASE ~ Rollback(w)
  <2>1. /\ KotAsSeen(w)
        /\ kot' = [kot EXCEPT ![k].status = next]
        /\ Finish(w)
        /\ UNCHANGED <<order, line, table>>
    BY <1>2 DEF UpdateKotStatusCommits
  <2>2. req[w].seen \in DOMAIN KOT_NEXT_STATUS
    BY RequestFacts DEF UpdateKotStatusCommits, Justified
  <2>3. req[w].seen # "NONE" /\ next \in KotStatus
    BY <2>2 DEF KOT_NEXT_STATUS, KotStatus
  <2>4. kot' \in [Kots -> KotRow] /\ TicketsHaveOrders'
    <3> HIDE DEF next
    <3> QED
      BY <2>1, <2>3, RequestFacts DEF KotRow, KotAsSeen, Inv, TicketsHaveOrders
  <2> QED
    BY <2>1, <2>4, FinishType, RequestFacts
       DEF SoundStep, TypeOK, OrderStep, Kept
<1> QED
  BY <1>1, <1>2

LEMMA RejectKotIsSound ==
    ASSUME Inv, NEW w \in Workers, RejectKotCommits(w)
    PROVE  SoundStep
<1> DEFINE o == req[w].order
           k == req[w].kot
           otherLive == req[w].flag
<1>1. CASE Rollback(w)
  BY <1>1, RollbackIsSound
<1>2. CASE ~ Rollback(w)
  <2>1. /\ KotAsSeen(w)
        /\ line' = IF otherLive THEN DeleteLines(req[w].lines) ELSE line
        /\ kot' = [j \in Kots |->
                     [kot[j] EXCEPT
                        !.status = IF j = k THEN "REJECTED" ELSE @,
                        !.lines = IF otherLive THEN @ \ req[w].lines ELSE @]]
        /\ order' = IF ~ otherLive
                    THEN [order EXCEPT ![o].status = "CANCELLED"]
                    ELSE IF req[w].lines # {}
                    THEN RecomputeTotals(line', o) ELSE order
        /\ table' = Released(w, table)
        /\ Finish(w)
    BY <1>2 DEF RejectKotCommits
  <2>2. line' \in [Lines -> LineRow]
    BY <2>1, DeleteLinesType, RequestFacts DEF Inv
  <2>3. order' \in [Orders -> OrderRow] /\ OrderStep
    <3>1. CASE order' = [order EXCEPT ![o].status = "CANCELLED"]
      BY <3>1, RequestFacts, ZenonT(60)
         DEF OrderRow, OrderStatus, OrderStep, Kept, Cancelled
    <3>2. CASE order' = RecomputeTotals(line', o)
      <4> HIDE DEF o
      <4> QED
        BY <3>2, RecomputeTotalsType DEF Inv, OrderStep, Kept
    <3>3. CASE order' = order
      BY <3>3, RequestFacts DEF OrderStep, Kept
    <3> QED
      BY <2>1, <3>1, <3>2, <3>3
  <2>4. kot' \in [Kots -> KotRow]
    BY <2>1, RequestFacts DEF KotRow, KotStatus
  <2>5. kot[k].status # "NONE"
    BY <2>1, RequestFacts DEF RejectKotCommits, Justified, KotAsSeen
  <2>6. TicketsHaveOrders'
    BY <2>1, <2>5, RequestFacts DEF KotRow, Inv, TicketsHaveOrders
  <2>7. table' \in [Tables -> TableStatus]
    BY <2>1, ReleasedType, RequestFacts DEF Inv
  <2> QED
    BY <2>1, <2>2, <2>3, <2>4, <2>6, <2>7, FinishType DEF SoundStep, TypeOK
<1> QED
  BY <1>1, <1>2

LEMMA CommitsAreSound ==
    ASSUME Inv, NEW w \in Workers, Commits(w)
    PROVE  SoundStep
  BY AddItemsIsSound, AcceptOrderIsSound, WithdrawOrderIsSound,
     UpdateOrderIsSound, UpdateOrderItemIsSound, RemoveOrderItemIsSound,
     MergeOrdersIsSound, CheckoutIsSound, UpdateKotStatusIsSound,
     RejectKotIsSound DEF Commits

LEMMA CreateOrderIsSound ==
    ASSUME Inv, NEW w \in Workers, NEW o \in Orders,
           NEW t \in Tables \cup {None},
           NEW acc \in {"NOT_REQUIRED", "PENDING", "ACCEPTED"},
           NEW sch \in {"now", "later", "due"}, NEW past \in BOOLEAN,
           NEW ls \in FreshLines, NEW q \in 1 .. MaxQty,
           CreateOrder(w, o, t, acc, sch, past, ls, q)
    PROVE  SoundStep
<1>1. line' \in [Lines -> LineRow]
  BY FreshLinesFinite, AddLinesType DEF CreateOrder, Inv
<1> DEFINE sum == Subtotal(line', o)
           row == [status |-> "OPEN", acceptance |-> acc, table |-> t,
                   sched |-> sch, total |-> sum, paid |-> 0]
<1>2. sum \in Nat
  BY SubtotalType
<1>3. /\ order[o].status = "NONE"
      /\ order' = [order EXCEPT ![o] = row]
      /\ table' = IF t = None THEN table ELSE [table EXCEPT ![t] = "OCCUPIED"]
      /\ req' = req
  BY DEF CreateOrder
<1>4. order' \in [Orders -> OrderRow] /\ OrderStep
  <2> HIDE DEF sum
  <2>1. row \in OrderRow
    BY <1>2 DEF OrderRow, OrderStatus, Acceptance
  <2> QED
    BY <1>3, <2>1, RequestFacts DEF OrderStep, Kept, Created, Inv, TypeOK
<1>5. kot' \in [Kots -> KotRow] /\ TicketsHaveOrders'
  <2>1. kot' = kot \/ GenerateKots(o, ls)
    BY DEF CreateOrder
  <2> QED
    BY <2>1, FreshLinesFinite, GenerateKotsType DEF Inv, TypeOK, TicketsHaveOrders
<1>6. table' \in [Tables -> TableStatus]
  BY <1>3 DEF Inv, TypeOK, TableStatus
<1> QED
  BY <1>1, <1>3, <1>4, <1>5, <1>6 DEF SoundStep, TypeOK, Inv, RequestsOK

LEMMA CountIsSound ==
    ASSUME Inv, NEW w \in Workers, CountOpenBills(w)
    PROVE  SoundStep
<1>1. PICK answer \in {"yes", "no"} :
         req' = [req EXCEPT ![w].idle = answer]
  BY DEF CountOpenBills
<1>2. req' \in [Workers \cup Crons -> Request]
  BY <1>1 DEF Inv, TypeOK, Request
<1>3. \A v \in Workers \cup Crons : Justified(req'[v], order)
  BY <1>1 DEF Inv, TypeOK, RequestsOK, Justified, Request
<1>4. UNCHANGED rows
  BY DEF CountOpenBills
<1> QED
  BY <1>2, <1>3, <1>4
     DEF SoundStep, Inv, TypeOK, OrderStep, Kept, rows, TicketsHaveOrders

LEMMA TimeIsSound ==
    ASSUME Inv, NEW o \in Orders, TimePasses(o)
    PROVE  SoundStep
<1>1. /\ order' = [order EXCEPT ![o].sched = "due"]
      /\ UNCHANGED <<line, kot, table, req>>
  BY DEF TimePasses
<1>2. order' \in [Orders -> OrderRow] /\ OrderStep
  BY <1>1 DEF Inv, TypeOK, OrderRow, OrderStep, Kept
<1> QED
  BY <1>1, <1>2 DEF SoundStep, Inv, TypeOK, RequestsOK, TicketsHaveOrders

\* The job works on the orders it read as due, and touches their tickets only.
LEMMA ReleaseIsSound ==
    ASSUME Inv, NEW c \in Crons, ReleaseReads(c) \/ ReleaseCommits(c)
    PROVE  SoundStep
<1>1. CASE ReleaseReads(c)
  <2> DEFINE due == {<<o, LinesOf(o)>> : o \in {x \in Orders : Due(x)}}
  <2>1. due \in SUBSET (Orders \X SUBSET Lines)
    BY DEF LinesOf
  <2>2. /\ req' = [req EXCEPT ![c].op = "release", ![c].queue = due]
        /\ UNCHANGED rows
    BY <1>1 DEF ReleaseReads
  <2>3. req' \in [Workers \cup Crons -> Request]
    <3> HIDE DEF due
    <3> DEFINE r == [req[c] EXCEPT !.op = "release", !.queue = due]
    <3>1. r \in Request
      BY <2>1, RequestFacts, ZenonT(60) DEF Request
    <3>2. req' = [req EXCEPT ![c] = r]
      BY <2>2 DEF Inv, TypeOK
    <3> HIDE DEF r
    <3> QED
      BY <3>1, <3>2 DEF Inv, TypeOK
  <2>4. \A v \in Workers \cup Crons : Justified(req'[v], order)
    <3> HIDE DEF due
    <3> QED
      BY <2>2 DEF Inv, TypeOK, RequestsOK, Justified, Request
  <2> QED
    BY <2>2, <2>3, <2>4
       DEF SoundStep, Inv, TypeOK, OrderStep, Kept, rows, TicketsHaveOrders
<1>2. CASE Rollback(c)
  BY <1>2, RollbackIsSound
<1>3. CASE ReleaseCommits(c) /\ ~ Rollback(c)
  <2>1. PICK e \in req[c].queue :
          /\ GenerateKots(e[1], e[2])
          /\ \/ Finish(c)
             \/ req' = [req EXCEPT ![c].queue = @ \ {e}]
          /\ UNCHANGED <<order, line, table>>
    BY <1>3 DEF ReleaseCommits
  <2>2. e[1] \in Orders /\ e[2] \in SUBSET Lines
    BY RequestFacts DEF Request
  <2>3. kot' \in [Kots -> KotRow] /\ TicketsHaveOrders'
    BY <2>1, <2>2, GenerateKotsType DEF Inv
  <2>4. /\ req' \in [Workers \cup Crons -> Request]
        /\ \A v \in Workers \cup Crons : Justified(req'[v], order)
    <3> DEFINE r == [req[c] EXCEPT !.queue = @ \ {e}]
    <3>1. r \in Request /\ Justified(r, order)
      BY RequestFacts DEF Request, Justified
    <3>2. CASE req' = [req EXCEPT ![c].queue = @ \ {e}]
      <4>1. req' = [req EXCEPT ![c] = r]
        BY <3>2 DEF Inv, TypeOK
      <4> HIDE DEF r
      <4> QED
        BY <3>1, <4>1 DEF Inv, TypeOK, RequestsOK
    <3> QED
      BY <2>1, <3>2, FinishType
  <2> QED
    BY <2>1, <2>3, <2>4, RequestFacts DEF SoundStep, TypeOK, OrderStep, Kept
<1> QED
  BY <1>1, <1>2, <1>3

-----------------------------------------------------------------------------
(* The theorems *)

LEMMA NextIsSound == Inv /\ Next => SoundStep
  BY CreateOrderIsSound, ReadsAreSound, CountIsSound, CommitsAreSound,
     ReleaseIsSound, TimeIsSound DEF Next

\* Acceptance leaves PENDING once and never comes back, so what a checkout
\* knew when it read stays true until its transaction.
LEMMA JustificationLasts ==
    ASSUME Inv, OrderStep, NEW r \in Request, Justified(r, order)
    PROVE  Justified(r, order')
<1>1. CASE r.op # "checkout"
  BY <1>1 DEF Justified
<1>2. CASE r.op = "checkout"
  <2>1. /\ r.order \in Orders
        /\ order[r.order].status # "NONE"
        /\ order[r.order].acceptance \in {"NOT_REQUIRED", "ACCEPTED"}
    BY <1>2 DEF Justified
  <2>2. /\ order'[r.order].status # "NONE"
        /\ order'[r.order].acceptance \in {"NOT_REQUIRED", "ACCEPTED"}
    BY <2>1 DEF OrderStep, Kept, Created, Answered, Cancelled, Paid
  <2> QED
    BY <1>2, <2>1, <2>2 DEF Justified
<1> QED
  BY <1>1, <1>2

LEMMA InvHolds == Spec => []Inv
<1>1. Init => Inv
  <2> SUFFICES ASSUME Init PROVE Inv
    OBVIOUS
  <2>1. TypeOK
    BY IdleType, OrdersAssumption
       DEF Init, TypeOK, OrderRow, OrderStatus, Acceptance, LineRow, KotRow,
           KotStatus, TableStatus
  <2>2. RequestsOK
    BY IdleIsJustified DEF Init, RequestsOK
  <2> QED
    BY <2>1, <2>2 DEF Init, Inv, TicketsHaveOrders, DeclinedIsCancelled,
                      BlankRows, UnacceptedNeverSettled
<1>2. Inv /\ [Next]_vars => Inv'
  <2>1. ASSUME Inv, Next PROVE Inv'
    <3>1. SoundStep
      BY <2>1, NextIsSound
    <3>2. RequestsOK'
      BY <2>1, <3>1, JustificationLasts DEF SoundStep, TypeOK, RequestsOK
    <3>3. DeclinedIsCancelled'
      BY <2>1, <3>1 DEF SoundStep, Inv, DeclinedIsCancelled, OrderStep, Kept,
                        Created, Answered, Cancelled, Paid
    <3>4. BlankRows'
      BY <2>1, <3>1 DEF SoundStep, Inv, BlankRows, OrderStep, Kept, Created,
                        Answered, Cancelled, Paid
    <3>5. UnacceptedNeverSettled'
      <4>1. TypeOK /\ UnacceptedNeverSettled /\ BlankRows
        BY <2>1 DEF Inv
      <4> QED
        BY <3>1, <4>1 DEF SoundStep, UnacceptedNeverSettled, BlankRows,
              OrderStep, Kept, Created, Answered, Cancelled, Paid, TypeOK, OrderRow
    <3> QED
      BY <3>1, <3>2, <3>3, <3>4, <3>5 DEF SoundStep, Inv
  <2>2. ASSUME Inv, UNCHANGED vars PROVE Inv'
    BY <2>2 DEF vars, Inv, TypeOK, RequestsOK, Justified, TicketsHaveOrders,
                DeclinedIsCancelled, BlankRows, UnacceptedNeverSettled
  <2> QED
    BY <2>1, <2>2
<1> QED
  BY <1>1, <1>2, PTL DEF Spec

\* Every row and every request in flight keeps its type: no handler, however
\* stale its reads, writes a status or an amount out of range.
THEOREM TypeCorrect == Spec => []TypeOK
  BY InvHolds, PTL DEF Inv

\* Money is only taken on an order that needed no acceptance or was accepted,
\* although checkout never looks at the acceptance inside its transaction.
THEOREM UnacceptedSafe == Spec => []UnacceptedNeverSettled
  BY InvHolds, PTL DEF Inv

\* The first answer to an online order is the one that stands.
THEOREM DecisionStands == Spec => DecisionIsFinal
<1>1. Inv /\ [Next]_vars =>
        [\A o \in Orders :
            order[o].acceptance \in {"ACCEPTED", "REJECTED"}
                => order'[o].acceptance = order[o].acceptance]_vars
  <2>1. ASSUME Inv, Next, NEW o \in Orders,
               order[o].acceptance \in {"ACCEPTED", "REJECTED"}
        PROVE  order'[o].acceptance = order[o].acceptance
    <3>1. SoundStep
      BY <2>1, NextIsSound
    <3> QED
      BY <2>1, <3>1 DEF SoundStep, OrderStep, Kept, Created, Answered,
                        Cancelled, Paid, Inv, BlankRows
  <2> QED
    BY <2>1
<1> QED
  BY <1>1, InvHolds, PTL DEF Spec, DecisionIsFinal

\* No payment reaches a bill that was settled, cancelled or merged away.
THEOREM ClosedBillSafe == Spec => ClosedBillTakesNoMoney
<1>1. Inv /\ [Next]_vars =>
        [\A o \in Orders :
            order[o].status \in {"PAID", "CANCELLED"}
                => order'[o].paid = order[o].paid]_vars
  <2>1. ASSUME Inv, Next, NEW o \in Orders,
               order[o].status \in {"PAID", "CANCELLED"}
        PROVE  order'[o].paid = order[o].paid
    <3>1. SoundStep
      BY <2>1, NextIsSound
    <3> QED
      BY <2>1, <3>1 DEF SoundStep, OrderStep, Kept, Created, Answered,
                        Cancelled, Paid
  <2> QED
    BY <2>1
<1> QED
  BY <1>1, InvHolds, PTL DEF Spec, ClosedBillTakesNoMoney

-----------------------------------------------------------------------------
(* The floor plan, when requests do not overlap.  What the theorem needs is  *)
(* that a request finds at its transaction what it read before it.           *)

OneAtATime == \A v, w \in Workers : v = w

\* The tables of tab that are shown occupied are those with an open bill.
FloorPlan(ord, tab) ==
    \A t \in Tables :
        tab[t] = "OCCUPIED" <=> \E o \in Orders : ord[o].status = "OPEN" /\ ord[o].table = t

OthersAt(ord, t, x) ==
    \E o \in Orders \ {x} : ord[o].status = "OPEN" /\ ord[o].table = t

\* The handlers that may free a table, and the bill that leaves it.
Freeing == {"updateOrder", "mergeOrders", "checkout", "rejectOrder", "cancelOrder", "rejectKot"}
Leaving(r) == IF r.op = "mergeOrders" THEN r.source ELSE r.order

\* The table a request r that frees one has to remember.
TableToFree(r, ord) ==
    LET t == ord[Leaving(r)].table
    IN  CASE r.op = "checkout"    -> IF r.flag THEN t ELSE None
          [] r.op = "rejectKot"   -> IF r.flag THEN None ELSE t
          [] r.op = "mergeOrders" -> IF t = ord[r.order].table THEN None ELSE t
          [] OTHER                -> t

\* What request r remembers is still so.
Timely(r, ord) ==
    /\ r.op \in Freeing => /\ Leaving(r) \in Orders
                           /\ ord[Leaving(r)].status = "OPEN"
                           /\ r.table = TableToFree(r, ord)
    /\ r.op = "mergeOrders" => /\ r.order \in Orders \ {r.source}
                               /\ ord[r.order].status = "OPEN"
    /\ r.op = "updateOrder" => r.to \in Tables /\ r.to # r.table
    /\ r.op \notin Freeing => r.table = None
    /\ r.table # None /\ r.idle # "unknown" =>
          (r.idle = "yes" <=> ~ OthersAt(ord, r.table, Leaving(r)))

PlanInv == FloorPlan(order, table) /\ \A w \in Workers : Timely(req[w], order)

\* The rows of new are those of ord for what concerns the floor plan.
SamePlaces(ord, new) ==
    \A o \in Orders : new[o].status = ord[o].status /\ new[o].table = ord[o].table

LEMMA SameFloorPlan ==
    ASSUME NEW ord, NEW new, NEW tab, FloorPlan(ord, tab), SamePlaces(ord, new)
    PROVE  FloorPlan(new, tab)
  BY DEF FloorPlan, SamePlaces

LEMMA StillTimely ==
    ASSUME NEW ord, NEW new, NEW r, Timely(r, ord), SamePlaces(ord, new)
    PROVE  Timely(r, new)
<1>1. r.op \in Freeing => r.table = TableToFree(r, new)
  BY DEF Timely, SamePlaces, TableToFree, Leaving
<1>2. OthersAt(new, r.table, Leaving(r)) <=> OthersAt(ord, r.table, Leaving(r))
  BY DEF OthersAt, SamePlaces
<1> QED
  BY <1>1, <1>2 DEF Timely, SamePlaces

LEMMA NothingToFree ==
    ASSUME NEW ord, NEW r, r.op \notin Freeing, r.table = None
    PROVE  Timely(r, ord)
  BY DEF Timely, Freeing

\* A bill leaves its table, which is freed unless another is open there.
LEMMA BillLeaves ==
    ASSUME NEW ord, NEW new, NEW tab \in [Tables -> TableStatus], FloorPlan(ord, tab),
           NEW x \in Orders, new[x].status # "OPEN",
           \A o \in Orders \ {x} : new[o].status = ord[o].status /\ new[o].table = ord[o].table,
           NEW t \in Tables \cup {None}, ord[x].table = t,
           NEW after, after = IF t # None /\ ~ OthersAt(ord, t, x)
                              THEN [tab EXCEPT ![t] = "AVAILABLE"] ELSE tab
    PROVE  FloorPlan(new, after)
<1> SUFFICES ASSUME NEW y \in Tables
             PROVE  after[y] = "OCCUPIED" <=> \E o \in Orders : new[o].status = "OPEN" /\ new[o].table = y
  BY DEF FloorPlan
<1>1. (\E o \in Orders : new[o].status = "OPEN" /\ new[o].table = y) <=> OthersAt(ord, y, x)
  BY DEF OthersAt
<1>2. y # t => (tab[y] = "OCCUPIED" <=> OthersAt(ord, y, x))
  BY DEF FloorPlan, OthersAt
<1>3. OthersAt(ord, y, x) => tab[y] = "OCCUPIED"
  BY DEF FloorPlan, OthersAt
<1>4. CASE y # t
  <2>1. after[y] = tab[y]
    BY <1>4
  <2> QED
    BY <1>1, <1>2, <1>4, <2>1
<1>5. CASE y = t
  BY <1>1, <1>3, <1>5, OrdersAssumption
<1> QED
  BY <1>4, <1>5

\* What the transaction of w does to the floor plan tab, after its count.
LEMMA ReleasedWhenEmpty ==
    ASSUME NEW w \in Workers, Timely(req[w], order), Counted(w), req[w].table # None, NEW tab
    PROVE  Released(w, tab) = IF ~ OthersAt(order, req[w].table, Leaving(req[w]))
                              THEN [tab EXCEPT ![req[w].table] = "AVAILABLE"] ELSE tab
  BY DEF Timely, Counted, Released

\* The request is over and the floor plan right.
LEMMA EndsWell ==
    ASSUME OneAtATime, Inv, NEW w \in Workers, Finish(w), FloorPlan(order', table')
    PROVE  PlanInv'
<1>1. \A v \in Workers : req'[v] = Idle
  BY DEF Finish, Inv, TypeOK, OneAtATime
<1>2. Timely(Idle, order')
  BY NothingToFree DEF Idle, Freeing
<1> QED
  BY <1>1, <1>2 DEF PlanInv

LEMMA EndsQuietly ==
    ASSUME OneAtATime, Inv, PlanInv, NEW w \in Workers, Finish(w), SamePlaces(order, order'),
           UNCHANGED table
    PROVE  PlanInv'
  BY EndsWell, SameFloorPlan DEF PlanInv

LEMMA RollsBack ==
    ASSUME OneAtATime, Inv, PlanInv, NEW w \in Workers, Rollback(w)
    PROVE  PlanInv'
  BY EndsQuietly DEF Rollback, rows, SamePlaces

\* The bill of request w is closed.
LEMMA ClosesBill ==
    ASSUME OneAtATime, Inv, PlanInv, NEW w \in Workers, Finish(w), Counted(w),
           NEW x \in Orders, x = Leaving(req[w]), order'[x].status # "OPEN",
           \A o \in Orders \ {x} : order'[o].status = order[o].status /\ order'[o].table = order[o].table,
           \/ req[w].table = order[x].table
           \/ req[w].table = None /\ order[x].table # None /\ OthersAt(order, order[x].table, x),
           table' = Released(w, table)
    PROVE  PlanInv'
<1>1. PICK t \in Tables \cup {None} : t = order[x].table
  BY DEF Inv, TypeOK, OrderRow
<1>2. Timely(req[w], order) /\ FloorPlan(order, table) /\ table \in [Tables -> TableStatus]
  BY DEF PlanInv, Inv, TypeOK
<1>3. table' = IF t # None /\ ~ OthersAt(order, t, x)
               THEN [table EXCEPT ![t] = "AVAILABLE"] ELSE table
  <2>1. CASE req[w].table # None
    BY <1>1, <1>2, <2>1, ReleasedWhenEmpty
  <2>2. CASE req[w].table = None
    BY <1>1, <2>2 DEF Released
  <2> QED
    BY <2>1, <2>2
<1>4. FloorPlan(order', table')
  BY <1>1, <1>2, <1>3, BillLeaves
<1> QED
  BY <1>4, EndsWell

-----------------------------------------------------------------------------
(* The handlers, one at a time *)

LEMMA StartsTimely ==
    ASSUME OneAtATime, Inv, PlanInv, NEW w \in Workers, NEW r, Start(w, r), Timely(r, order)
    PROVE  PlanInv'
<1>1. \A v \in Workers : req'[v] = r
  BY DEF Start, Inv, TypeOK, OneAtATime
<1> QED
  BY <1>1 DEF PlanInv, Start, rows

LEMMA ReadsKeepPlan ==
    ASSUME OneAtATime, Inv, PlanInv, NEW w \in Workers, Reads(w)
    PROVE  PlanInv'
<1>1. ASSUME NEW r, Start(w, r), r.op \notin Freeing, r.table = None
      PROVE  PlanInv'
  BY <1>1, StartsTimely, NothingToFree
<1>2. ASSUME NEW o \in Orders, AddItemsReads(w, o)
      PROVE  PlanInv'
  <2> DEFINE r == [Idle EXCEPT !.op = "addItems", !.order = o, !.amount = Subtotal(line, o)]
  <2>1. r.op \notin Freeing /\ r.table = None
    BY DEF Idle, Freeing
  <2> HIDE DEF r
  <2> QED
    BY <1>1, <1>2, <2>1 DEF AddItemsReads, r
<1>3. ASSUME NEW o \in Orders, AcceptOrderReads(w, o)
      PROVE  PlanInv'
  <2> DEFINE r == [Idle EXCEPT !.op = "acceptOrder", !.order = o, !.lines = LinesOf(o)]
  <2>1. r.op \notin Freeing /\ r.table = None
    BY DEF Idle, Freeing
  <2> QED
    BY <1>1, <1>3, <2>1 DEF AcceptOrderReads
<1>4. ASSUME NEW o \in Orders, NEW l \in Lines, NEW q \in 1 .. MaxQty,
             UpdateOrderItemReads(w, o, l, q)
      PROVE  PlanInv'
  <2> DEFINE r == [Idle EXCEPT !.op = "updateOrderItem", !.order = o, !.line = l, !.amount = q]
  <2>1. r.op \notin Freeing /\ r.table = None
    BY DEF Idle, Freeing
  <2> QED
    BY <1>1, <1>4, <2>1 DEF UpdateOrderItemReads
<1>5. ASSUME NEW o \in Orders, NEW l \in Lines, RemoveOrderItemReads(w, o, l)
      PROVE  PlanInv'
  <2> DEFINE r == [Idle EXCEPT !.op = "removeOrderItem", !.order = o, !.line = l]
  <2>1. r.op \notin Freeing /\ r.table = None
    BY DEF Idle, Freeing
  <2> QED
    BY <1>1, <1>5, <2>1 DEF RemoveOrderItemReads
<1>6. ASSUME NEW k \in Kots, UpdateKotStatusReads(w, k)
      PROVE  PlanInv'
  <2> DEFINE r == [Idle EXCEPT !.op = "updateKotStatus", !.kot = k, !.seen = kot[k].status]
  <2>1. r.op \notin Freeing /\ r.table = None
    BY DEF Idle, Freeing
  <2> QED
    BY <1>1, <1>6, <2>1 DEF UpdateKotStatusReads
<1>7. ASSUME NEW r, Start(w, r), r.op \in Freeing, r.idle = "unknown", Leaving(r) \in Orders,
             order[Leaving(r)].status = "OPEN", r.table = TableToFree(r, order),
             r.op = "mergeOrders" => r.order \in Orders \ {r.source} /\ order[r.order].status = "OPEN",
             r.op = "updateOrder" => r.to \in Tables /\ r.to # r.table
      PROVE  PlanInv'
  <2>1. Timely(r, order)
    BY <1>7 DEF Timely
  <2> QED
    BY <1>7, <2>1, StartsTimely
<1>8. ASSUME NEW o \in Orders, NEW decline \in BOOLEAN, WithdrawOrderReads(w, o, decline)
      PROVE  PlanInv'
  <2> DEFINE r == [Idle EXCEPT !.op = IF decline THEN "rejectOrder" ELSE "cancelOrder",
                               !.order = o, !.table = order[o].table]
  <2>1. /\ r.op \in {"rejectOrder", "cancelOrder"} /\ r.order = o
        /\ r.table = order[o].table /\ r.idle = "unknown"
    BY DEF Idle
  <2>2. Start(w, r) /\ order[o].status = "OPEN"
    BY <1>8 DEF WithdrawOrderReads, Withdrawable, WaitingForAnswer
  <2> HIDE DEF r
  <2>3. r.op \in Freeing /\ Leaving(r) = o /\ r.table = TableToFree(r, order)
    BY <2>1 DEF Freeing, Leaving, TableToFree
  <2> QED
    BY <1>7, <2>1, <2>2, <2>3
<1>9. ASSUME NEW o \in Orders, NEW t \in Tables, UpdateOrderReads(w, o, t)
      PROVE  PlanInv'
  <2> DEFINE r == [Idle EXCEPT !.op = "updateOrder", !.order = o, !.table = order[o].table, !.to = t]
  <2>1. /\ r.op = "updateOrder" /\ r.order = o /\ r.to = t
        /\ r.table = order[o].table /\ r.idle = "unknown"
    BY DEF Idle
  <2>2. Start(w, r) /\ order[o].status = "OPEN" /\ t # order[o].table
    BY <1>9 DEF UpdateOrderReads, Editable
  <2> HIDE DEF r
  <2>3. r.op \in Freeing /\ Leaving(r) = o /\ r.table = TableToFree(r, order)
    BY <2>1 DEF Freeing, Leaving, TableToFree
  <2> QED
    BY <1>7, <2>1, <2>2, <2>3
<1>10. ASSUME NEW o \in Orders, NEW source \in Orders, MergeOrdersReads(w, o, source)
       PROVE  PlanInv'
  <2> DEFINE t == IF order[source].table = order[o].table THEN None ELSE order[source].table
             r == [Idle EXCEPT !.op = "mergeOrders", !.order = o, !.source = source, !.table = t]
  <2>1. /\ r.op = "mergeOrders" /\ r.order = o /\ r.source = source
        /\ r.table = t /\ r.idle = "unknown"
    BY DEF Idle
  <2>2. Start(w, r) /\ order[o].status = "OPEN" /\ order[source].status = "OPEN" /\ o # source
    BY <1>10 DEF MergeOrdersReads, Editable
  <2> HIDE DEF r
  <2>3. r.op \in Freeing /\ Leaving(r) = source /\ r.table = TableToFree(r, order)
    BY <2>1 DEF Freeing, Leaving, TableToFree
  <2> QED
    BY <1>7, <2>1, <2>2, <2>3
<1>11. ASSUME NEW o \in Orders, NEW amount, CheckoutReads(w, o, amount)
       PROVE  PlanInv'
  <2> DEFINE full == amount = Balance(o)
             t == IF full THEN order[o].table ELSE None
             r == CheckoutReq(o, amount, AmountDue(o), full, ~ NoPayments(o), t)
  <2>1. /\ r.op = "checkout" /\ r.order = o /\ r.flag = full
        /\ r.table = t /\ r.idle = "unknown"
    BY DEF CheckoutReq, Idle
  <2>2. Start(w, r) /\ order[o].status = "OPEN"
    BY <1>11 DEF CheckoutReads, CheckoutReq, Settleable
  <2> HIDE DEF r, full
  <2>3. r.op \in Freeing /\ Leaving(r) = o /\ r.table = TableToFree(r, order)
    BY <2>1 DEF Freeing, Leaving, TableToFree
  <2> QED
    BY <1>7, <2>1, <2>2, <2>3
<1>12. ASSUME NEW k \in Kots, RejectKotReads(w, k)
       PROVE  PlanInv'
  <2>1. PICK o \in Orders : o = kot[k].order
    BY <1>12 DEF RejectKotReads, KOT_REJECTABLE, Inv, TicketsHaveOrders
  <2> DEFINE live == OtherLiveTicket(o, k)
             t == IF live THEN None ELSE order[o].table
             r == RejectReq(o, k, kot[k].status, live, kot[k].lines, t)
  <2>2. /\ r.op = "rejectKot" /\ r.order = o /\ r.flag = live
        /\ r.table = t /\ r.idle = "unknown"
    BY DEF RejectReq, Idle
  <2>3. Start(w, r) /\ order[o].status = "OPEN"
    BY <1>12, <2>1 DEF RejectKotReads, RejectReq, Editable
  <2> HIDE DEF r, live
  <2>4. r.op \in Freeing /\ Leaving(r) = o /\ r.table = TableToFree(r, order)
    BY <2>2 DEF Freeing, Leaving, TableToFree
  <2> QED
    BY <1>7, <2>2, <2>3, <2>4
<1> QED
  BY <1>2, <1>3, <1>4, <1>5, <1>6, <1>8, <1>9, <1>10, <1>11, <1>12 DEF Reads

\* An order is opened on a table, which is then shown occupied.
LEMMA CreateKeepsPlan ==
    ASSUME OneAtATime, Inv, PlanInv, NEW w \in Workers, NEW o \in Orders,
           NEW t \in Tables \cup {None}, NEW acc, NEW sch, NEW past, NEW ls, NEW q,
           CreateOrder(w, o, t, acc, sch, past, ls, q)
    PROVE  PlanInv'
<1>1. /\ order[o].status = "NONE"
      /\ order'[o].status = "OPEN" /\ order'[o].table = t
      /\ \A x \in Orders \ {o} : order'[x] = order[x]
      /\ table' = IF t = None THEN table ELSE [table EXCEPT ![t] = "OCCUPIED"]
      /\ UNCHANGED req /\ req[w] = Idle
  BY DEF CreateOrder, Inv, TypeOK
<1>2. FloorPlan(order', table')
  <2>1. ASSUME NEW y \in Tables
        PROVE  table'[y] = "OCCUPIED" <=> \E x \in Orders : order'[x].status = "OPEN" /\ order'[x].table = y
    <3>1. table[y] = "OCCUPIED" <=> \E x \in Orders : order[x].status = "OPEN" /\ order[x].table = y
      BY DEF PlanInv, FloorPlan
    <3>2. table'[y] = "OCCUPIED" <=> (table[y] = "OCCUPIED" \/ y = t)
      BY <1>1, OrdersAssumption DEF Inv, TypeOK
    <3> QED
      BY <1>1, <3>1, <3>2
  <2> QED
    BY <2>1 DEF FloorPlan
<1>3. \A v \in Workers : req'[v] = Idle
  BY <1>1 DEF OneAtATime
<1>4. Timely(Idle, order')
  BY NothingToFree DEF Idle, Freeing
<1> QED
  BY <1>2, <1>3, <1>4 DEF PlanInv

LEMMA RecomputeKeepsPlaces ==
    ASSUME Inv, NEW f, NEW o
    PROVE  SamePlaces(order, RecomputeTotals(f, o))
  BY DEF SamePlaces, RecomputeTotals, Inv, TypeOK, OrderRow

\* A handler that touches neither the tables nor which bills are open.
LEMMA QuietCommits ==
    ASSUME OneAtATime, Inv, PlanInv, NEW w \in Workers,
           \/ \E ls \in FreshLines, q \in 1 .. MaxQty : AddItemsCommits(w, ls, q)
           \/ AcceptOrderCommits(w) \/ UpdateOrderItemCommits(w)
           \/ RemoveOrderItemCommits(w) \/ UpdateKotStatusCommits(w)
    PROVE  PlanInv'
<1>1. CASE Rollback(w)
  BY <1>1, RollsBack
<1>2. CASE ~ Rollback(w)
  <2>1. Finish(w) /\ UNCHANGED table
    BY <1>2 DEF AddItemsCommits, AcceptOrderCommits, UpdateOrderItemCommits, RemoveOrderItemCommits,
                UpdateKotStatusCommits
  <2>2. SamePlaces(order, order')
    <3>1. ASSUME NEW ls \in FreshLines, NEW q \in 1 .. MaxQty, AddItemsCommits(w, ls, q)
          PROVE  SamePlaces(order, order')
      BY <3>1 DEF AddItemsCommits, SamePlaces, Inv, TypeOK, OrderRow
    <3>2. CASE AcceptOrderCommits(w)
      BY <1>2, <3>2 DEF AcceptOrderCommits, SamePlaces, Inv, TypeOK, OrderRow
    <3>3. CASE UpdateOrderItemCommits(w) \/ RemoveOrderItemCommits(w)
      <4>1. order' = RecomputeTotals(line', req[w].order)
        BY <1>2, <3>3, Zenon DEF UpdateOrderItemCommits, RemoveOrderItemCommits
      <4> QED
        BY <4>1, RecomputeKeepsPlaces
    <3>4. CASE UpdateKotStatusCommits(w)
      BY <1>2, <3>4 DEF UpdateKotStatusCommits, SamePlaces
    <3> QED
      BY <3>1, <3>2, <3>3, <3>4
  <2> QED
    BY <2>1, <2>2, EndsQuietly
<1> QED
  BY <1>1, <1>2

LEMMA WithdrawKeepsPlan ==
    ASSUME OneAtATime, Inv, PlanInv, NEW w \in Workers, WithdrawOrderCommits(w)
    PROVE  PlanInv'
<1>1. CASE Rollback(w)
  BY <1>1, RollsBack
<1>2. CASE ~ Rollback(w)
  <2>1. req[w].op \in {"rejectOrder", "cancelOrder"} /\ Timely(req[w], order)
    BY DEF WithdrawOrderCommits, PlanInv
  <2>2. PICK x \in Orders : x = req[w].order /\ x = Leaving(req[w])
    BY <2>1 DEF Timely, Freeing, Leaving
  <2>3. req[w].table = order[x].table
    BY <2>1, <2>2 DEF Timely, Freeing, TableToFree
  <2>4. /\ order'[x].status = "CANCELLED"
        /\ \A o \in Orders \ {x} : order'[o] = order[o]
        /\ table' = Released(w, table) /\ Finish(w) /\ Counted(w)
    BY <1>2, <2>2 DEF WithdrawOrderCommits, Inv, TypeOK, OrderRow
  <2> QED
    BY <2>2, <2>3, <2>4, ClosesBill
<1> QED
  BY <1>1, <1>2

LEMMA MergeKeepsPlan ==
    ASSUME OneAtATime, Inv, PlanInv, NEW w \in Workers, MergeOrdersCommits(w)
    PROVE  PlanInv'
<1>1. req[w].op = "mergeOrders" /\ Timely(req[w], order)
  BY DEF MergeOrdersCommits, PlanInv
<1>2. PICK x \in Orders, o \in Orders :
          /\ o # x
          /\ x = req[w].source /\ x = Leaving(req[w]) /\ o = req[w].order
          /\ order[o].status = "OPEN"
  BY <1>1 DEF Timely, Freeing, Leaving
<1>3. \/ req[w].table = order[x].table
      \/ req[w].table = None /\ order[x].table # None /\ OthersAt(order, order[x].table, x)
  <2>1. req[w].table = IF order[x].table = order[o].table THEN None ELSE order[x].table
    BY <1>1, <1>2 DEF Timely, Freeing, TableToFree
  <2> QED
    BY <1>2, <2>1 DEF OthersAt
<1>4. /\ order'[x].status = "CANCELLED"
      /\ \A y \in Orders \ {x} : order'[y].status = order[y].status /\ order'[y].table = order[y].table
  <2>1. order' = [RecomputeTotals(line', o) EXCEPT ![x].status = "CANCELLED"]
    BY <1>2 DEF MergeOrdersCommits
  <2>2. /\ RecomputeTotals(line', o) \in [Orders -> OrderRow]
        /\ SamePlaces(order, RecomputeTotals(line', o))
    <3>1. RecomputeTotals(line', o) \in [Orders -> OrderRow]
      BY RecomputeTotalsType DEF Inv
    <3> QED
      BY <3>1 DEF SamePlaces, RecomputeTotals, Inv, TypeOK, OrderRow
  <2> QED
    BY <2>1, <2>2 DEF SamePlaces, OrderRow
<1>5. table' = Released(w, table) /\ Finish(w) /\ Counted(w)
  BY DEF MergeOrdersCommits
<1> QED
  BY <1>2, <1>3, <1>4, <1>5, ClosesBill

LEMMA CheckoutKeepsPlan ==
    ASSUME OneAtATime, Inv, PlanInv, NEW w \in Workers, CheckoutCommits(w)
    PROVE  PlanInv'
<1>1. CASE Rollback(w)
  BY <1>1, RollsBack
<1>2. CASE ~ Rollback(w)
  <2>1. req[w].op = "checkout" /\ Timely(req[w], order)
    BY DEF CheckoutCommits, PlanInv
  <2>2. PICK x \in Orders : x = req[w].order /\ x = Leaving(req[w])
    BY <2>1 DEF Timely, Freeing, Leaving
  <2>3. req[w].table = IF req[w].flag THEN order[x].table ELSE None
    BY <2>1, <2>2 DEF Timely, Freeing, TableToFree
  <2>4. /\ order'[x].table = order[x].table
        /\ order'[x].status = IF req[w].flag THEN "PAID" ELSE order[x].status
        /\ \A o \in Orders \ {x} : order'[o] = order[o]
        /\ table' = Released(w, table) /\ Finish(w) /\ Counted(w)
    <3>1. /\ order' = [order EXCEPT
                          ![x].paid = @ + req[w].amount,
                          ![x].total = IF req[w].locked THEN @ ELSE req[w].due,
                          ![x].status = IF req[w].flag THEN "PAID" ELSE @]
          /\ table' = Released(w, table) /\ Finish(w) /\ Counted(w)
      BY <1>2, <2>2 DEF CheckoutCommits
    <3>2. PICK n, d, st :
              /\ order' = [order EXCEPT ![x].paid = n, ![x].total = d, ![x].status = st]
              /\ st = IF req[w].flag THEN "PAID" ELSE order[x].status
      <4>1. CASE req[w].flag
        BY <3>1, <4>1
      <4>2. CASE ~ req[w].flag
        BY <3>1, <4>2
      <4> QED
        BY <4>1, <4>2
    <3> QED
      BY <2>2, <3>1, <3>2 DEF Inv, TypeOK, OrderRow
  <2>5. CASE req[w].flag
    BY <2>2, <2>3, <2>4, <2>5, ClosesBill
  <2>6. CASE ~ req[w].flag
    BY <2>2, <2>3, <2>4, <2>6, EndsQuietly DEF Released, SamePlaces
  <2> QED
    BY <2>5, <2>6
<1> QED
  BY <1>1, <1>2

LEMMA RejectKotKeepsPlan ==
    ASSUME OneAtATime, Inv, PlanInv, NEW w \in Workers, RejectKotCommits(w)
    PROVE  PlanInv'
<1>1. CASE Rollback(w)
  BY <1>1, RollsBack
<1>2. CASE ~ Rollback(w)
  <2>1. req[w].op = "rejectKot" /\ Timely(req[w], order)
    BY DEF RejectKotCommits, PlanInv
  <2>2. PICK x \in Orders : x = req[w].order /\ x = Leaving(req[w])
    BY <2>1 DEF Timely, Freeing, Leaving
  <2>3. req[w].table = IF req[w].flag THEN None ELSE order[x].table
    BY <2>1, <2>2 DEF Timely, Freeing, TableToFree
  <2>4. table' = Released(w, table) /\ Finish(w) /\ Counted(w)
    BY <1>2 DEF RejectKotCommits
  <2>5. CASE ~ req[w].flag
    <3>1. /\ order'[x].status = "CANCELLED"
          /\ \A o \in Orders \ {x} : order'[o] = order[o]
      BY <1>2, <2>2, <2>5 DEF RejectKotCommits, Inv, TypeOK, OrderRow
    <3> QED
      BY <2>2, <2>3, <2>4, <2>5, <3>1, ClosesBill
  <2>6. CASE req[w].flag
    <3>1. SamePlaces(order, order')
      <4>1. order' = order \/ order' = RecomputeTotals(line', x)
        BY <1>2, <2>2, <2>6 DEF RejectKotCommits
      <4> QED
        BY <4>1, RecomputeKeepsPlaces DEF SamePlaces
    <3> QED
      BY <2>3, <2>4, <2>6, <3>1, EndsQuietly DEF Released
  <2> QED
    BY <2>5, <2>6
<1> QED
  BY <1>1, <1>2

\* A bill goes to another table: that one is occupied, the one it left is
\* freed unless another bill is open there.
LEMMA UpdateKeepsPlan ==
    ASSUME OneAtATime, Inv, PlanInv, NEW w \in Workers, UpdateOrderCommits(w)
    PROVE  PlanInv'
<1>1. req[w].op = "updateOrder" /\ Timely(req[w], order)
  BY DEF UpdateOrderCommits, PlanInv
<1>2. PICK x \in Orders, to \in Tables :
          /\ x = req[w].order /\ x = Leaving(req[w]) /\ to = req[w].to
          /\ order[x].status = "OPEN" /\ to # req[w].table
  BY <1>1 DEF Timely, Freeing, Leaving
<1>3. PICK from \in Tables \cup {None} : from = order[x].table /\ from = req[w].table
  BY <1>1, <1>2 DEF Timely, Freeing, TableToFree, Inv, TypeOK, OrderRow
<1>4. PICK moved : moved = [table EXCEPT ![to] = "OCCUPIED"]
  OBVIOUS
<1>5. /\ order'[x].table = to /\ order'[x].status = "OPEN"
      /\ \A o \in Orders \ {x} : order'[o] = order[o]
      /\ table' = Released(w, moved) /\ Finish(w) /\ Counted(w)
  BY <1>2, <1>4 DEF UpdateOrderCommits, Inv, TypeOK, OrderRow
<1>6. /\ from = None => table' = moved
      /\ from # None => table' = IF ~ OthersAt(order, from, x)
                                 THEN [moved EXCEPT ![from] = "AVAILABLE"] ELSE moved
  <2>1. CASE from = None
    BY <1>3, <1>5, <2>1 DEF Released
  <2>2. CASE from # None
    BY <1>1, <1>2, <1>3, <1>5, <2>2, ReleasedWhenEmpty
  <2> QED
    BY <2>1, <2>2
<1>7. FloorPlan(order', table')
  <2>1. ASSUME NEW y \in Tables
        PROVE  table'[y] = "OCCUPIED" <=> \E o \in Orders : order'[o].status = "OPEN" /\ order'[o].table = y
    <3>1. table[y] = "OCCUPIED" <=> \E o \in Orders : order[o].status = "OPEN" /\ order[o].table = y
      BY DEF PlanInv, FloorPlan
    <3>2. (\E o \in Orders : order'[o].status = "OPEN" /\ order'[o].table = y)
              <=> y = to \/ OthersAt(order, y, x)
      BY <1>2, <1>5 DEF OthersAt
    <3>3. table \in [Tables -> TableStatus] /\ moved \in [Tables -> TableStatus]
      BY <1>4 DEF Inv, TypeOK, TableStatus
    <3>4. CASE y = to
      <4>1. moved[y] = "OCCUPIED" /\ y # from
        BY <1>2, <1>3, <1>4, <3>3, <3>4
      <4> QED
        BY <1>6, <3>2, <3>3, <3>4, <4>1
    <3>5. CASE y = from
      <4>1. moved[y] = table[y] /\ from # None
        BY <1>2, <1>3, <1>4, <3>3, <3>5, OrdersAssumption
      <4>2. table[y] = "OCCUPIED"
        BY <1>2, <1>3, <3>1, <3>5
      <4> QED
        BY <1>2, <1>3, <1>6, <3>2, <3>3, <3>5, <4>1, <4>2
    <3>6. CASE y # to /\ y # from
      <4>1. table'[y] = table[y]
        BY <1>4, <1>6, <3>3, <3>6
      <4>2. OthersAt(order, y, x) <=> \E o \in Orders : order[o].status = "OPEN" /\ order[o].table = y
        BY <1>3, <3>6 DEF OthersAt
      <4> QED
        BY <3>1, <3>2, <3>6, <4>1, <4>2
    <3> QED
      BY <3>4, <3>5, <3>6
  <2> QED
    BY <2>1 DEF FloorPlan
<1> QED
  BY <1>5, <1>7, EndsWell

LEMMA CountKeepsPlan ==
    ASSUME OneAtATime, Inv, PlanInv, NEW w \in Workers, CountOpenBills(w)
    PROVE  PlanInv'
<1>1. Timely(req[w], order) /\ req[w] \in Request
  BY DEF PlanInv, Inv, TypeOK
<1>2. PICK answer \in {"yes", "no"} :
          /\ answer = "yes" <=> ~ OthersAt(order, req[w].table, Leaving(req[w]))
          /\ req' = [req EXCEPT ![w].idle = answer]
  BY DEF CountOpenBills, OtherOpenBill, OthersAt, Leaving
<1>3. PICK q : q = req'[w]
  OBVIOUS
<1>4. /\ q.op = req[w].op /\ q.order = req[w].order /\ q.source = req[w].source
      /\ q.table = req[w].table /\ q.to = req[w].to /\ q.flag = req[w].flag
      /\ q.idle = answer
  BY <1>1, <1>2, <1>3 DEF Inv, TypeOK, Request
<1>5. Leaving(q) = Leaving(req[w]) /\ TableToFree(q, order) = TableToFree(req[w], order)
  BY <1>4 DEF Leaving, TableToFree
<1>6. Timely(q, order)
  BY <1>1, <1>2, <1>4, <1>5 DEF Timely
<1>7. UNCHANGED <<order, table>> /\ \A v \in Workers : req'[v] = q
  BY <1>3 DEF CountOpenBills, rows, OneAtATime
<1> QED
  BY <1>6, <1>7 DEF PlanInv

\* Time and the scheduled-orders job touch no table and no request of others.
LEMMA OthersKeepPlan ==
    ASSUME Inv, PlanInv, SamePlaces(order, order'), UNCHANGED table,
           \A w \in Workers : req'[w] = req[w]
    PROVE  PlanInv'
  BY SameFloorPlan, StillTimely DEF PlanInv

LEMMA PlanStep == OneAtATime /\ Inv /\ PlanInv /\ [Next]_vars => PlanInv'
<1> SUFFICES ASSUME OneAtATime, Inv, PlanInv, [Next]_vars PROVE PlanInv'
  OBVIOUS
<1>1. ASSUME NEW w \in Workers, Commits(w)
      PROVE  PlanInv'
  BY <1>1, QuietCommits, WithdrawKeepsPlan, UpdateKeepsPlan, MergeKeepsPlan, CheckoutKeepsPlan,
     RejectKotKeepsPlan DEF Commits
<1>2. ASSUME NEW c \in Crons, ReleaseReads(c) \/ ReleaseCommits(c)
      PROVE  PlanInv'
  <2>1. UNCHANGED <<order, table>>
    BY <1>2 DEF ReleaseReads, ReleaseCommits, Rollback, rows
  <2>2. \A w \in Workers : w # c
    BY OrdersAssumption
  <2>3. \A w \in Workers : req'[w] = req[w]
    BY <1>2, <2>2 DEF ReleaseReads, ReleaseCommits, Rollback, Finish, Inv, TypeOK
  <2> QED
    BY <2>1, <2>3, OthersKeepPlan DEF SamePlaces
<1>3. ASSUME NEW o \in Orders, TimePasses(o)
      PROVE  PlanInv'
  <2>1. SamePlaces(order, order')
    BY <1>3 DEF TimePasses, SamePlaces, Inv, TypeOK, OrderRow
  <2> QED
    BY <1>3, <2>1, OthersKeepPlan DEF TimePasses
<1>4. CASE UNCHANGED vars
  BY <1>4, OthersKeepPlan DEF vars, SamePlaces
<1> QED
  BY <1>1, <1>2, <1>3, <1>4, ReadsKeepPlan, CountKeepsPlan, CreateKeepsPlan DEF Next

\* As long as requests do not overlap (the job and the clock may), a table is
\* shown occupied exactly as long as a bill is open on it, after any sequence
\* of orders, moves, merges, payments, cancellations and refused tickets
\* (releaseTableIfIdle).
THEOREM FloorPlanIsRight == OneAtATime => (Spec => []TablesMatchBills)
<1> SUFFICES ASSUME OneAtATime PROVE Spec => []TablesMatchBills
  OBVIOUS
<1>1. Init => PlanInv
  <2>1. \A ord : Timely(Idle, ord)
    BY NothingToFree DEF Idle, Freeing
  <2> QED
    BY <2>1 DEF Init, PlanInv, FloorPlan
<1>2. Inv /\ PlanInv /\ [Next]_vars => PlanInv'
  BY PlanStep
<1>3. Inv /\ PlanInv => TablesMatchBills
  BY OrdersAssumption DEF Inv, TypeOK, OrderRow, PlanInv, FloorPlan, TablesMatchBills,
     OpenBillHoldsItsTable, OccupiedTableHasOpenBill, OtherOpenBill
<1> QED
  BY <1>1, <1>2, <1>3, InvHolds, PTL DEF Spec

-----------------------------------------------------------------------------
(* The kitchen, for any number of overlapping requests and one job run at a  *)
(* time, as long as lines stay on the order they were entered on: a round    *)
(* added to an order that waits for acceptance, and a merge with such an     *)
(* order, do ticket lines twice.                                             *)

LinesStay == Ops \cap {"addItems", "mergeOrders"} = {}
OneJobRun == \A c, d \in Crons : c = d

RowsFit ==
    /\ \A l \in Lines : line[l].state = "ON_BILL" <=> line[l].order # None
    /\ \A k \in Kots : kot[k].status = "NONE" => kot[k].order = None /\ kot[k].lines = {}
    /\ \A k \in Kots : kot[k].status # "NONE" => order[kot[k].order].status # "NONE"

TicketsFit == \A k \in Kots : \A l \in kot[k].lines : line[l].order = kot[k].order

\* The kitchen has nothing of an order that waits for its answer or its time.
WaitingIsUncooked ==
    \A o \in Orders :
        order[o].acceptance = "PENDING" \/ order[o].sched = "later" => KotsOf(o) = {}

Gone == {"NONE", "CANCELLED", "REJECTED"}
EmptyIsVoid == \A k \in Kots : kot[k].lines = {} => kot[k].status \in Gone

\* What request r remembers of the lines lin and the tickets.
Recalls(r, lin, tickets) ==
    /\ r.op \notin {"addItems", "mergeOrders"}
    /\ r.op = "acceptOrder" =>
          \A l \in r.lines : lin[l].state # "FREE" /\ lin[l].order \in {r.order, None}
    /\ r.op = "removeOrderItem" =>
          /\ r.line \in Lines
          /\ lin[r.line].state # "FREE" /\ lin[r.line].order \in {r.order, None}
    /\ r.op = "rejectKot" =>
          /\ r.kot \in Kots /\ r.seen \in KOT_REJECTABLE
          /\ \A l \in r.lines : l \in tickets[r.kot].lines \/ lin[l].state = "DELETED"

\* No other handler tickets an order on the list of a job run.
StillToCook(queue, ord, lin, tickets) ==
    \A e \in queue :
        /\ \A k \in Kots : tickets[k].order # e[1]
        /\ ord[e[1]].status # "NONE" /\ ord[e[1]].acceptance # "PENDING"
        /\ ord[e[1]].sched # "later"
        /\ \A l \in e[2] : lin[l].state # "FREE" /\ lin[l].order \in {e[1], None}
        /\ \A f \in queue : f[1] = e[1] => f = e

KitchenRows == RowsFit /\ TicketsFit /\ WaitingIsUncooked /\ EmptyIsVoid /\ LineTicketedOnce
KitchenInv ==
    /\ KitchenRows
    /\ \A w \in Workers : Recalls(req[w], line, kot)
    /\ \A c \in Crons : StillToCook(req[c].queue, order, line, kot)

\* What a step may do to a line, a ticket and an order.
LineKept(l)  == line'[l].order = line[l].order /\ line'[l].state = line[l].state
LineAdded(l) == line[l].state = "FREE" /\ line'[l].state = "ON_BILL" /\ line'[l].order # None
LineGone(l)  == /\ line'[l].state = "DELETED" /\ line'[l].order = None
                /\ \A k \in Kots : l \notin kot'[k].lines

TicketKept(k) ==
    /\ kot'[k].order = kot[k].order
    /\ kot'[k].status = "NONE" <=> kot[k].status = "NONE"
    /\ kot'[k].lines \subseteq kot[k].lines
    /\ \A l \in kot[k].lines : l \in kot'[k].lines \/ line'[l].state = "DELETED"
    /\ kot'[k].lines = {} => kot'[k].status \in Gone
TicketMade(k) ==
    LET o == kot'[k].order
    IN  /\ kot[k].status = "NONE" /\ kot'[k].status = "NEW"
        /\ o \in Orders /\ \A j \in Kots : kot[j].order # o
        /\ order'[o].status # "NONE" /\ order'[o].acceptance # "PENDING"
        /\ order'[o].sched # "later"
        /\ kot'[k].lines # {}
        /\ \A l \in kot'[k].lines : line'[l].order = o
        /\ \A j \in Kots : j # k /\ kot[j].status = "NONE"
                                => kot'[j].lines \cap kot'[k].lines = {}

OrderKept(o) == /\ order'[o].status = "NONE" <=> order[o].status = "NONE"
                /\ order'[o].acceptance = "PENDING" => order[o].acceptance = "PENDING"
                /\ order'[o].sched = "later" => order[o].sched = "later"
OrderMade(o) == order[o].status = "NONE" /\ order'[o].status # "NONE"

KitchenStep ==
    /\ \A l \in Lines : LineKept(l) \/ LineAdded(l) \/ LineGone(l)
    /\ \A k \in Kots : TicketKept(k) \/ TicketMade(k)
    /\ \A o \in Orders : OrderKept(o) \/ OrderMade(o)

MovesOn(from, to) ==
    from # to => \/ from = "NONE" /\ to = "NEW"
                 \/ from \in DOMAIN KOT_NEXT_STATUS /\ to = KOT_NEXT_STATUS[from]
                 \/ from \in KOT_REJECTABLE /\ to = "REJECTED"
                 \/ from \notin {"NONE", "SERVED"} /\ to = "CANCELLED"

KitchenSound ==
    /\ KitchenStep
    /\ \A k \in Kots : MovesOn(kot[k].status, kot'[k].status)
    /\ \A w \in Workers : Recalls(req'[w], line, kot)
    /\ \A c \in Crons : /\ StillToCook(req'[c].queue, order, line, kot)
                        /\ \A k \in Kots, e \in req'[c].queue :
                              TicketMade(k) => kot'[k].order # e[1]

LEMMA RowsStayFit ==
    ASSUME Inv, Inv', KitchenRows, KitchenStep
    PROVE  KitchenRows'
<1> USE OrdersAssumption
<1>1. TypeOK /\ TypeOK' /\ TicketsHaveOrders /\ TicketsHaveOrders' /\ RowsFit /\ TicketsFit
  BY DEF Inv, KitchenRows
<1>2. \A k \in Kots : \A l \in kot[k].lines :
          line[l].state = "ON_BILL" /\ kot[k].status # "NONE" /\ kot[k].order \in Orders
  BY <1>1 DEF TypeOK, KotRow, RowsFit, TicketsFit, TicketsHaveOrders
<1>3. RowsFit'
  <2>1. \A l \in Lines : line'[l].state = "ON_BILL" <=> line'[l].order # None
    BY <1>1 DEF KitchenStep, LineKept, LineAdded, LineGone, RowsFit
  <2>2. \A k \in Kots : kot'[k].status = "NONE" => kot'[k].order = None /\ kot'[k].lines = {}
    BY <1>1 DEF KitchenStep, TicketKept, TicketMade, RowsFit
  <2>3. ASSUME NEW k \in Kots, kot'[k].status # "NONE"
        PROVE  order'[kot'[k].order].status # "NONE"
    <3>1. CASE TicketMade(k)
      BY <3>1 DEF TicketMade
    <3>2. CASE TicketKept(k)
      <4>1. kot[k].order \in Orders /\ order[kot[k].order].status # "NONE"
        BY <1>1, <2>3, <3>2 DEF TicketKept, RowsFit, TicketsHaveOrders
      <4> QED
        BY <3>2, <4>1 DEF TicketKept, KitchenStep, OrderKept, OrderMade
    <3> QED
      BY <3>1, <3>2 DEF KitchenStep
  <2> QED
    BY <2>1, <2>2, <2>3 DEF RowsFit
<1>4. TicketsFit'
  <2> SUFFICES ASSUME NEW k \in Kots, NEW l \in kot'[k].lines
               PROVE  line'[l].order = kot'[k].order
    BY DEF TicketsFit
  <2>1. CASE TicketMade(k)
    BY <2>1 DEF TicketMade
  <2>2. CASE TicketKept(k)
    <3>1. l \in kot[k].lines /\ l \in Lines
      BY <1>1, <2>2 DEF TicketKept, TypeOK, KotRow
    <3>2. LineKept(l)
      BY <1>2, <3>1 DEF KitchenStep, LineAdded, LineGone
    <3> QED
      BY <1>1, <2>2, <3>1, <3>2 DEF TicketKept, LineKept, TicketsFit
  <2> QED
    BY <2>1, <2>2 DEF KitchenStep
<1>5. WaitingIsUncooked'
  <2> SUFFICES ASSUME NEW o \in Orders,
                      order'[o].acceptance = "PENDING" \/ order'[o].sched = "later",
                      NEW k \in Kots, kot'[k].order = o
               PROVE  FALSE
    BY DEF WaitingIsUncooked, KotsOf
  <2>1. ~ TicketMade(k)
    BY DEF TicketMade
  <2>2. kot[k].order = o
    BY <2>1 DEF KitchenStep, TicketKept
  <2>3. ~ OrderMade(o)
    BY <1>1, <2>2 DEF OrderMade, RowsFit
  <2>4. order[o].acceptance = "PENDING" \/ order[o].sched = "later"
    BY <2>3 DEF KitchenStep, OrderKept
  <2> QED
    BY <2>2, <2>4 DEF KitchenRows, WaitingIsUncooked, KotsOf
<1>6. EmptyIsVoid'
  BY DEF EmptyIsVoid, KitchenStep, TicketKept, TicketMade
<1>7. LineTicketedOnce'
  <2> SUFFICES ASSUME NEW j \in Kots, NEW k \in Kots, j # k,
                      NEW l \in kot'[j].lines, l \in kot'[k].lines
               PROVE  FALSE
    BY DEF LineTicketedOnce
  <2>1. CASE TicketKept(j) /\ TicketKept(k)
    BY <2>1 DEF TicketKept, KitchenRows, LineTicketedOnce
  <2>2. ASSUME NEW x \in Kots, NEW y \in Kots, TicketKept(x), TicketMade(y),
               l \in kot'[x].lines, l \in kot'[y].lines
        PROVE  FALSE
    BY <1>4, <2>2 DEF TicketsFit, TicketKept, TicketMade
  <2>3. CASE TicketMade(j) /\ TicketMade(k)
    BY <2>3 DEF TicketMade
  <2> QED
    BY <2>1, <2>2, <2>3 DEF KitchenStep
<1> QED
  BY <1>3, <1>4, <1>5, <1>6, <1>7 DEF KitchenRows

LEMMA RecallsLasts ==
    ASSUME Inv, KitchenRows, KitchenStep, NEW r \in Request, Recalls(r, line, kot)
    PROVE  Recalls(r, line', kot')
<1>1. \A l \in Lines : line[l].state # "FREE" =>
          /\ line'[l].state # "FREE" /\ line'[l].order \in {line[l].order, None}
          /\ line[l].state = "DELETED" => line'[l].state = "DELETED"
  BY DEF KitchenStep, LineKept, LineAdded, LineGone
<1>2. r.lines \subseteq Lines
  BY DEF Request
<1>3. ASSUME r.op = "rejectKot", NEW l \in r.lines
      PROVE  l \in kot'[r.kot].lines \/ line'[l].state = "DELETED"
  <2>1. CASE line[l].state = "DELETED"
    BY <1>1, <1>2, <1>3, <2>1
  <2>2. CASE l \in kot[r.kot].lines
    <3>1. kot[r.kot].status # "NONE" /\ r.kot \in Kots
      BY <1>3, <2>2 DEF Recalls, KitchenRows, RowsFit
    <3> QED
      BY <2>2, <3>1 DEF KitchenStep, TicketKept, TicketMade
  <2> QED
    BY <1>3, <2>1, <2>2 DEF Recalls
<1>4. r.op = "acceptOrder" =>
          \A l \in r.lines : line'[l].state # "FREE" /\ line'[l].order \in {r.order, None}
  BY <1>1, <1>2 DEF Recalls
<1>5. r.op = "removeOrderItem" =>
          line'[r.line].state # "FREE" /\ line'[r.line].order \in {r.order, None}
  BY <1>1 DEF Recalls
<1> QED
  BY <1>3, <1>4, <1>5 DEF Recalls

LEMMA StillToCookLasts ==
    ASSUME Inv, KitchenRows, KitchenStep, NEW q \in SUBSET (Orders \X SUBSET Lines),
           StillToCook(q, order, line, kot),
           \A k \in Kots, e \in q : TicketMade(k) => kot'[k].order # e[1]
    PROVE  StillToCook(q, order', line', kot')
<1> SUFFICES ASSUME NEW e \in q
             PROVE  /\ \A k \in Kots : kot'[k].order # e[1]
                    /\ order'[e[1]].status # "NONE" /\ order'[e[1]].acceptance # "PENDING"
                    /\ order'[e[1]].sched # "later"
                    /\ \A l \in e[2] : line'[l].state # "FREE" /\ line'[l].order \in {e[1], None}
  BY DEF StillToCook
<1>1. PICK o \in Orders, ls \in SUBSET Lines : e[1] = o /\ e[2] = ls
  OBVIOUS
<1>2. /\ \A k \in Kots : kot[k].order # o
      /\ order[o].status # "NONE" /\ order[o].acceptance # "PENDING" /\ order[o].sched # "later"
      /\ \A l \in ls : line[l].state # "FREE" /\ line[l].order \in {o, None}
  BY <1>1 DEF StillToCook
<1>3. \A k \in Kots : kot'[k].order # o
  BY <1>1, <1>2 DEF KitchenStep, TicketKept
<1>4. order'[o].status # "NONE" /\ order'[o].acceptance # "PENDING" /\ order'[o].sched # "later"
  BY <1>2 DEF KitchenStep, OrderKept, OrderMade
<1>5. \A l \in ls : line'[l].state # "FREE" /\ line'[l].order \in {o, None}
  BY <1>2 DEF KitchenStep, LineKept, LineAdded, LineGone
<1> QED
  BY <1>1, <1>3, <1>4, <1>5

\* What a step that leaves the rows alone does to the kitchen.
LEMMA SameRowsAreCalm ==
    ASSUME KitchenRows, UNCHANGED rows
    PROVE  KitchenStep /\ \A k \in Kots : MovesOn(kot[k].status, kot'[k].status)
  BY DEF KitchenRows, EmptyIsVoid, KitchenStep, LineKept, TicketKept, OrderKept, MovesOn, rows

LEMMA IdleRecalls == Recalls(Idle, line, kot)
  BY DEF Recalls, Idle

\* The request of w starts or ends; no other request and no job run moves.
LEMMA OneRequestMoves ==
    ASSUME Inv, KitchenInv, NEW w \in Workers, NEW r, req' = [req EXCEPT ![w] = r],
           Recalls(r, line, kot), KitchenStep,
           \A k \in Kots : MovesOn(kot[k].status, kot'[k].status),
           \A c \in Crons : \A k \in Kots, e \in req[c].queue :
                TicketMade(k) => kot'[k].order # e[1]
    PROVE  KitchenSound
<1>1. \A v \in Workers : Recalls(req'[v], line, kot)
  BY DEF KitchenInv, Inv, TypeOK
<1>2. \A c \in Crons : req'[c] = req[c]
  BY OrdersAssumption DEF Inv, TypeOK
<1> QED
  BY <1>1, <1>2 DEF KitchenSound, KitchenInv

\* The same when no ticket is made.
LEMMA NothingTicketed ==
    ASSUME Inv, KitchenInv, NEW w \in Workers, NEW r, req' = [req EXCEPT ![w] = r],
           Recalls(r, line, kot), KitchenStep,
           \A k \in Kots : TicketKept(k) /\ MovesOn(kot[k].status, kot'[k].status)
    PROVE  KitchenSound
<1>1. \A k \in Kots : ~ TicketMade(k)
  BY DEF TicketKept, TicketMade
<1> QED
  BY <1>1, OneRequestMoves

LEMMA StartsKitchen ==
    ASSUME Inv, KitchenInv, NEW w \in Workers, NEW r, Start(w, r), Recalls(r, line, kot)
    PROVE  KitchenSound
<1>1. KitchenStep /\ \A k \in Kots : MovesOn(kot[k].status, kot'[k].status)
  BY SameRowsAreCalm DEF Start, KitchenInv
<1>2. \A k \in Kots : ~ TicketMade(k)
  BY DEF TicketMade, Start, rows
<1> QED
  BY <1>1, <1>2, OneRequestMoves DEF Start

LEMMA EndsKitchen ==
    ASSUME Inv, KitchenInv, NEW w \in Workers, Finish(w), KitchenStep,
           \A k \in Kots : TicketKept(k) /\ MovesOn(kot[k].status, kot'[k].status)
    PROVE  KitchenSound
  BY NothingTicketed, IdleRecalls DEF Finish

LEMMA RollbackKeepsKitchen ==
    ASSUME Inv, KitchenInv, NEW w \in Workers, Rollback(w)
    PROVE  KitchenSound
<1>1. KitchenStep /\ \A k \in Kots : MovesOn(kot[k].status, kot'[k].status)
  BY SameRowsAreCalm DEF Rollback, KitchenInv
<1>2. \A k \in Kots : ~ TicketMade(k)
  BY DEF TicketMade, Rollback, rows
<1> QED
  BY <1>1, <1>2, OneRequestMoves, IdleRecalls DEF Rollback, Finish

LEMMA ReadsKeepKitchen ==
    ASSUME LinesStay, Inv, KitchenInv, NEW w \in Workers, Reads(w)
    PROVE  KitchenSound
<1>1. ASSUME NEW r, Start(w, r),
             r.op \notin {"acceptOrder", "removeOrderItem", "rejectKot"}
      PROVE  KitchenSound
  <2>1. r.op \notin {"addItems", "mergeOrders"}
    BY <1>1 DEF Start, LinesStay
  <2> QED
    BY <1>1, <2>1, StartsKitchen DEF Recalls
<1>2. ASSUME NEW o \in Orders, AddItemsReads(w, o)
      PROVE  KitchenSound
  BY <1>2 DEF AddItemsReads, Start, LinesStay, Idle
<1>3. ASSUME NEW o \in Orders, AcceptOrderReads(w, o)
      PROVE  KitchenSound
  <2> DEFINE r == [Idle EXCEPT !.op = "acceptOrder", !.order = o, !.lines = LinesOf(o)]
  <2>1. r.op = "acceptOrder" /\ r.order = o /\ r.lines = LinesOf(o)
    BY DEF Idle
  <2>2. Start(w, r)
    BY <1>3 DEF AcceptOrderReads
  <2>3. \A l \in LinesOf(o) : line[l].state # "FREE" /\ line[l].order = o
    BY OrdersAssumption DEF LinesOf, KitchenInv, KitchenRows, RowsFit
  <2> HIDE DEF r
  <2>4. Recalls(r, line, kot)
    BY <2>1, <2>3 DEF Recalls
  <2> QED
    BY <2>2, <2>4, StartsKitchen
<1>4. ASSUME NEW o \in Orders, NEW decline \in BOOLEAN, WithdrawOrderReads(w, o, decline)
      PROVE  KitchenSound
  <2> DEFINE r == [Idle EXCEPT !.op = IF decline THEN "rejectOrder" ELSE "cancelOrder",
                               !.order = o, !.table = order[o].table]
  <2>1. r.op \in {"rejectOrder", "cancelOrder"}
    BY DEF Idle
  <2>2. Start(w, r)
    BY <1>4 DEF WithdrawOrderReads
  <2> HIDE DEF r
  <2> QED
    BY <1>1, <2>1, <2>2
<1>5. ASSUME NEW o \in Orders, NEW t \in Tables, UpdateOrderReads(w, o, t)
      PROVE  KitchenSound
  <2> DEFINE r == [Idle EXCEPT !.op = "updateOrder", !.order = o, !.table = order[o].table, !.to = t]
  <2>1. r.op = "updateOrder"
    BY DEF Idle
  <2>2. Start(w, r)
    BY <1>5 DEF UpdateOrderReads
  <2> HIDE DEF r
  <2> QED
    BY <1>1, <2>1, <2>2
<1>6. ASSUME NEW o \in Orders, NEW l \in Lines, NEW q \in 1 .. MaxQty,
             UpdateOrderItemReads(w, o, l, q)
      PROVE  KitchenSound
  <2> DEFINE r == [Idle EXCEPT !.op = "updateOrderItem", !.order = o, !.line = l, !.amount = q]
  <2>1. r.op = "updateOrderItem"
    BY DEF Idle
  <2>2. Start(w, r)
    BY <1>6 DEF UpdateOrderItemReads
  <2> HIDE DEF r
  <2> QED
    BY <1>1, <2>1, <2>2
<1>7. ASSUME NEW o \in Orders, NEW l \in Lines, RemoveOrderItemReads(w, o, l)
      PROVE  KitchenSound
  <2> DEFINE r == [Idle EXCEPT !.op = "removeOrderItem", !.order = o, !.line = l]
  <2>1. r.op = "removeOrderItem" /\ r.order = o /\ r.line = l
    BY DEF Idle
  <2>2. Start(w, r) /\ l \in LinesOf(o)
    BY <1>7 DEF RemoveOrderItemReads
  <2>3. line[l].state # "FREE" /\ line[l].order = o
    BY <2>2, OrdersAssumption DEF LinesOf, KitchenInv, KitchenRows, RowsFit
  <2> HIDE DEF r
  <2>4. Recalls(r, line, kot)
    BY <2>1, <2>3 DEF Recalls
  <2> QED
    BY <2>2, <2>4, StartsKitchen
<1>8. ASSUME NEW o \in Orders, NEW source \in Orders, MergeOrdersReads(w, o, source)
      PROVE  KitchenSound
  BY <1>8 DEF MergeOrdersReads, Start, LinesStay, Idle
<1>9. ASSUME NEW o \in Orders, NEW amount, CheckoutReads(w, o, amount)
      PROVE  KitchenSound
  <2>1. PICK due, full, locked, t : Start(w, CheckoutReq(o, amount, due, full, locked, t))
    BY <1>9 DEF CheckoutReads, CheckoutReq
  <2>2. CheckoutReq(o, amount, due, full, locked, t).op = "checkout"
    BY DEF CheckoutReq, Idle
  <2> QED
    BY <1>1, <2>1, <2>2
<1>10. ASSUME NEW k \in Kots, UpdateKotStatusReads(w, k)
       PROVE  KitchenSound
  <2> DEFINE r == [Idle EXCEPT !.op = "updateKotStatus", !.kot = k, !.seen = kot[k].status]
  <2>1. r.op = "updateKotStatus"
    BY DEF Idle
  <2>2. Start(w, r)
    BY <1>10 DEF UpdateKotStatusReads
  <2> HIDE DEF r
  <2> QED
    BY <1>1, <2>1, <2>2
<1>11. ASSUME NEW k \in Kots, RejectKotReads(w, k)
       PROVE  KitchenSound
  <2>1. PICK o, live, t : Start(w, RejectReq(o, k, kot[k].status, live, kot[k].lines, t))
    BY <1>11 DEF RejectKotReads, RejectReq
  <2>2. PICK r : r = RejectReq(o, k, kot[k].status, live, kot[k].lines, t)
    OBVIOUS
  <2>3. r.op = "rejectKot" /\ r.kot = k /\ r.seen = kot[k].status /\ r.lines = kot[k].lines
    BY <2>2 DEF RejectReq, Idle
  <2>4. kot[k].status \in KOT_REJECTABLE
    BY <1>11 DEF RejectKotReads
  <2>5. Recalls(r, line, kot)
    BY <2>3, <2>4 DEF Recalls
  <2> QED
    BY <2>1, <2>2, <2>5, StartsKitchen
<1> QED
  BY <1>2, <1>3, <1>4, <1>5, <1>6, <1>7, <1>8, <1>9, <1>10, <1>11 DEF Reads

\* The tickets generateKots makes for an order which has none.
LEMMA TicketsMade ==
    ASSUME Inv, KitchenRows, NEW o \in Orders, NEW ls \in SUBSET Lines, GenerateKots(o, ls),
           \A k \in Kots : kot[k].order # o,
           order'[o].status # "NONE", order'[o].acceptance # "PENDING", order'[o].sched # "later",
           \A l \in ls : line'[l].order = o
    PROVE  \A k \in Kots : /\ TicketKept(k) \/ TicketMade(k)
                           /\ TicketMade(k) => kot'[k].order = o
                           /\ MovesOn(kot[k].status, kot'[k].status)
<1> DEFINE stations == {StationOf[l] : l \in ls}
<1>1. PICK f \in [stations -> {k \in Kots : kot[k].status = "NONE"}] :
          /\ \A s, t \in stations : f[s] = f[t] => s = t
          /\ kot' = [k \in Kots |->
                IF \E s \in stations : f[s] = k
                THEN [status |-> "NEW", order |-> o, lines |-> {l \in ls : f[StationOf[l]] = k}]
                ELSE kot[k]]
  BY DEF GenerateKots
<1>2. \A k \in Kots : kot[k].status = "NONE" => kot[k].lines = {}
  BY DEF KitchenRows, RowsFit
<1>3. ASSUME NEW k \in Kots, ~ \E s \in stations : f[s] = k
      PROVE  TicketKept(k) /\ ~ TicketMade(k) /\ MovesOn(kot[k].status, kot'[k].status)
  <2>1. kot'[k] = kot[k]
    BY <1>1, <1>3
  <2> QED
    BY <2>1 DEF TicketKept, TicketMade, KitchenRows, EmptyIsVoid, MovesOn
<1>4. ASSUME NEW k \in Kots, NEW s \in stations, f[s] = k
      PROVE  TicketMade(k) /\ kot'[k].order = o /\ MovesOn(kot[k].status, kot'[k].status)
  <2>1. kot'[k] = [status |-> "NEW", order |-> o, lines |-> {l \in ls : f[StationOf[l]] = k}]
    BY <1>1, <1>4
  <2>2. kot[k].status = "NONE"
    BY <1>4
  <2>3. kot'[k].lines # {}
    BY <1>4, <2>1
  <2>4. ASSUME NEW j \in Kots, j # k, kot[j].status = "NONE"
        PROVE  kot'[j].lines \cap kot'[k].lines = {}
    <3>1. CASE \E t \in stations : f[t] = j
      <4>1. kot'[j] = [status |-> "NEW", order |-> o, lines |-> {l \in ls : f[StationOf[l]] = j}]
        BY <1>1, <3>1
      <4> QED
        BY <2>1, <2>4, <4>1
    <3>2. CASE ~ \E t \in stations : f[t] = j
      BY <1>1, <1>2, <2>4, <3>2
    <3> QED
      BY <3>1, <3>2
  <2>5. TicketMade(k)
    BY <2>1, <2>2, <2>3, <2>4 DEF TicketMade
  <2> QED
    BY <2>1, <2>2, <2>5 DEF MovesOn
<1> QED
  BY <1>3, <1>4

LEMMA SameLines ==
    ASSUME UNCHANGED line
    PROVE  \A l \in Lines : LineKept(l)
  BY DEF LineKept

LEMMA SameTickets ==
    ASSUME KitchenRows, UNCHANGED kot
    PROVE  \A k \in Kots : TicketKept(k) /\ MovesOn(kot[k].status, kot'[k].status)
  BY DEF TicketKept, KitchenRows, EmptyIsVoid, MovesOn

\* recomputeTotals and the like leave alone what the kitchen looks at.
LEMMA SameAnswers ==
    ASSUME \A o \in Orders : /\ order'[o].status # "NONE" <=> order[o].status # "NONE"
                             /\ order'[o].acceptance = order[o].acceptance
                             /\ order'[o].sched = order[o].sched
    PROVE  \A o \in Orders : OrderKept(o)
  BY DEF OrderKept

LEMMA TotalsOnly ==
    ASSUME Inv, NEW f, NEW o, order' = RecomputeTotals(f, o)
    PROVE  \A x \in Orders : OrderKept(x)
<1>1. PICK n : order' = [order EXCEPT ![o].total = n]
  BY DEF RecomputeTotals
<1> QED
  BY <1>1 DEF OrderKept, Inv, TypeOK, OrderRow

LEMMA AcceptKeepsKitchen ==
    ASSUME Inv, KitchenInv, NEW w \in Workers, AcceptOrderCommits(w)
    PROVE  KitchenSound
<1>1. CASE Rollback(w)
  BY <1>1, RollbackKeepsKitchen
<1>2. CASE ~ Rollback(w)
  <2>1. req[w].op = "acceptOrder" /\ Recalls(req[w], line, kot) /\ req[w] \in Request
    BY DEF AcceptOrderCommits, KitchenInv, Inv, TypeOK
  <2>2. PICK o \in Orders, ls \in SUBSET Lines : o = req[w].order /\ ls = req[w].lines
    BY <2>1 DEF Request, Inv, RequestsOK, Justified
  <2>3. /\ WaitingForAnswer(o)
        /\ order[o].sched = "later" \/ OnBill(ls)
        /\ order' = [order EXCEPT ![o].acceptance = "ACCEPTED"]
        /\ IF order[o].sched = "later" THEN UNCHANGED kot ELSE GenerateKots(o, ls)
        /\ Finish(w) /\ UNCHANGED line
    BY <1>2, <2>2 DEF AcceptOrderCommits
  <2>4. \A x \in Orders : OrderKept(x)
    BY <2>3 DEF OrderKept, Inv, TypeOK, OrderRow
  <2>5. CASE order[o].sched = "later"
    <3>1. \A k \in Kots : TicketKept(k) /\ MovesOn(kot[k].status, kot'[k].status)
      BY <2>3, <2>5, SameTickets DEF KitchenInv
    <3> QED
      BY <2>3, <2>4, <3>1, SameLines, EndsKitchen DEF KitchenStep
  <2>6. CASE order[o].sched # "later"
    <3>1. \A k \in Kots : kot[k].order # o
      BY <2>3 DEF WaitingForAnswer, KitchenInv, KitchenRows, WaitingIsUncooked, KotsOf
    <3>2. /\ order'[o].status # "NONE" /\ order'[o].acceptance # "PENDING"
          /\ order'[o].sched # "later"
      BY <2>3, <2>6 DEF WaitingForAnswer, Inv, TypeOK, OrderRow
    <3>3. \A l \in ls : line'[l].order = o
      BY <2>1, <2>2, <2>3, <2>6 DEF Recalls, OnBill, KitchenInv, KitchenRows, RowsFit
    <3>4. \A k \in Kots : /\ TicketKept(k) \/ TicketMade(k)
                          /\ TicketMade(k) => kot'[k].order = o
                          /\ MovesOn(kot[k].status, kot'[k].status)
      BY <2>3, <2>6, <3>1, <3>2, <3>3, TicketsMade DEF KitchenInv
    <3>5. KitchenStep
      BY <2>3, <2>4, <3>4, SameLines DEF KitchenStep
    <3>6. \A c \in Crons : \A e \in req[c].queue : e[1] # o
      BY <2>3 DEF KitchenInv, StillToCook, WaitingForAnswer
    <3> QED
      BY <2>3, <3>4, <3>5, <3>6, OneRequestMoves, IdleRecalls DEF Finish
  <2> QED
    BY <2>5, <2>6
<1> QED
  BY <1>1, <1>2

LEMMA WithdrawKeepsKitchen ==
    ASSUME Inv, KitchenInv, NEW w \in Workers, WithdrawOrderCommits(w)
    PROVE  KitchenSound
<1>1. CASE Rollback(w)
  BY <1>1, RollbackKeepsKitchen
<1>2. CASE ~ Rollback(w)
  <2>1. PICK o \in Orders : o = req[w].order
    BY DEF WithdrawOrderCommits, Inv, RequestsOK, Justified
  <2>2. PICK answer :
            /\ order' = [order EXCEPT ![o].status = "CANCELLED", ![o].acceptance = answer]
            /\ answer \in {"REJECTED", order[o].acceptance}
    BY <1>2, <2>1 DEF WithdrawOrderCommits
  <2>3. /\ kot' = [k \in Kots |->
                    IF /\ kot[k].order = o
                       /\ kot[k].status \notin KOT_VOID_STATUSES \cup {"SERVED"}
                    THEN [kot[k] EXCEPT !.status = "CANCELLED"]
                    ELSE kot[k]]
        /\ Finish(w) /\ UNCHANGED line /\ order[o].status = "OPEN"
    BY <1>2, <2>1 DEF WithdrawOrderCommits, Withdrawable, WaitingForAnswer
  <2>4. \A x \in Orders : OrderKept(x)
    BY <2>2, <2>3 DEF OrderKept, Inv, TypeOK, OrderRow
  <2>5. ASSUME NEW k \in Kots
        PROVE  TicketKept(k) /\ MovesOn(kot[k].status, kot'[k].status)
    <3>1. kot[k].order = o => kot[k].status # "NONE"
      BY OrdersAssumption DEF KitchenInv, KitchenRows, RowsFit
    <3>2. /\ kot'[k].order = kot[k].order /\ kot'[k].lines = kot[k].lines
          /\ \/ kot'[k].status = kot[k].status
             \/ /\ kot'[k].status = "CANCELLED"
                /\ kot[k].status \notin {"NONE", "SERVED"}
      BY <2>3, <3>1 DEF Inv, TypeOK, KotRow
    <3> QED
      BY <3>2 DEF TicketKept, KitchenInv, KitchenRows, EmptyIsVoid, MovesOn, Gone
  <2> QED
    BY <2>3, <2>4, <2>5, SameLines, EndsKitchen DEF KitchenStep
<1> QED
  BY <1>1, <1>2

\* A handler that changes neither tickets nor which lines are on the bill.
LEMMA QuietKeepsKitchen ==
    ASSUME Inv, KitchenInv, NEW w \in Workers,
           UpdateOrderCommits(w) \/ UpdateOrderItemCommits(w) \/ CheckoutCommits(w)
    PROVE  KitchenSound
<1>1. CASE Rollback(w)
  BY <1>1, RollbackKeepsKitchen
<1>2. CASE ~ Rollback(w)
  <2>1. Finish(w) /\ UNCHANGED kot
    BY <1>2 DEF UpdateOrderCommits, UpdateOrderItemCommits, CheckoutCommits
  <2>2. \A l \in Lines : LineKept(l)
    <3>1. CASE UpdateOrderCommits(w) \/ CheckoutCommits(w)
      BY <1>2, <3>1, SameLines DEF UpdateOrderCommits, CheckoutCommits
    <3>2. CASE UpdateOrderItemCommits(w)
      BY <1>2, <3>2 DEF UpdateOrderItemCommits, LineKept, Inv, TypeOK, LineRow
    <3> QED
      BY <3>1, <3>2
  <2>3. \A x \in Orders : OrderKept(x)
    <3>1. CASE UpdateOrderCommits(w)
      BY <1>2, <3>1, SameAnswers DEF UpdateOrderCommits, Inv, TypeOK, OrderRow
    <3>2. CASE UpdateOrderItemCommits(w)
      BY <1>2, <3>2, TotalsOnly DEF UpdateOrderItemCommits
    <3>3. CASE CheckoutCommits(w)
      <4>1. PICK o, n, d, st :
                /\ order' = [order EXCEPT ![o].paid = n, ![o].total = d, ![o].status = st]
                /\ order[o].status = "OPEN" /\ st \in {"OPEN", "PAID"}
        <5>1. PICK o : o = req[w].order
          OBVIOUS
        <5>2. PICK n : n = order[o].paid + req[w].amount
          OBVIOUS
        <5>3. PICK d : d = IF req[w].locked THEN order[o].total ELSE req[w].due
          OBVIOUS
        <5>4. PICK st : st = IF req[w].flag THEN "PAID" ELSE order[o].status
          OBVIOUS
        <5>5. order' = [order EXCEPT ![o].paid = n, ![o].total = d, ![o].status = st]
          BY <1>2, <3>3, <5>1, <5>2, <5>3, <5>4 DEF CheckoutCommits
        <5> QED
          BY <1>2, <3>3, <5>1, <5>4, <5>5 DEF CheckoutCommits, StillOpen
      <4> QED
        BY <4>1, SameAnswers DEF Inv, TypeOK, OrderRow
    <3> QED
      BY <3>1, <3>2, <3>3
  <2>4. \A k \in Kots : TicketKept(k) /\ MovesOn(kot[k].status, kot'[k].status)
    BY <2>1, SameTickets DEF KitchenInv
  <2> QED
    BY <2>1, <2>2, <2>3, <2>4, EndsKitchen DEF KitchenStep
<1> QED
  BY <1>1, <1>2

LEMMA RemoveKeepsKitchen ==
    ASSUME Inv, KitchenInv, NEW w \in Workers, RemoveOrderItemCommits(w)
    PROVE  KitchenSound
<1>1. CASE Rollback(w)
  BY <1>1, RollbackKeepsKitchen
<1>2. CASE ~ Rollback(w)
  <2>1. PICK o \in Orders, l \in Lines :
            o = req[w].order /\ l = req[w].line /\ line[l].order \in {o, None}
    BY DEF RemoveOrderItemCommits, Inv, RequestsOK, Justified, KitchenInv, Recalls
  <2>2. /\ LineNotStarted(l)
        /\ line' = DeleteLines({l})
        /\ order' = RecomputeTotals(line', o)
        /\ kot' = [k \in Kots |->
                     [kot[k] EXCEPT
                        !.lines = @ \ {l},
                        !.status = IF /\ kot[k].order = o
                                      /\ kot[k].lines \ {l} = {}
                                   THEN "CANCELLED" ELSE @]]
        /\ Finish(w)
    BY <1>2, <2>1 DEF RemoveOrderItemCommits
  <2>3. \A x \in Orders : OrderKept(x)
    BY <2>2, TotalsOnly
  <2>4. \A k \in Kots : /\ kot'[k].order = kot[k].order
                        /\ kot'[k].lines = kot[k].lines \ {l}
                        /\ kot'[k].status = IF kot[k].order = o /\ kot[k].lines \ {l} = {}
                                            THEN "CANCELLED" ELSE kot[k].status
    BY <2>2 DEF Inv, TypeOK, KotRow
  <2>5. \A x \in Lines : LineKept(x) \/ LineGone(x)
    BY <2>2, <2>4 DEF DeleteLines, LineKept, LineGone
  <2>6. ASSUME NEW k \in Kots
        PROVE  TicketKept(k) /\ MovesOn(kot[k].status, kot'[k].status)
    <3>1. kot[k].order = o => kot[k].status # "NONE"
      BY OrdersAssumption DEF KitchenInv, KitchenRows, RowsFit
    <3>2. l \in kot[k].lines => kot[k].order = o /\ kot[k].status # "SERVED"
      <4>1. l \in kot[k].lines => line[l].order = kot[k].order /\ kot[k].order \in Orders
        BY DEF KitchenInv, KitchenRows, TicketsFit, RowsFit, Inv, TicketsHaveOrders
      <4> QED
        BY <2>1, <2>2, <4>1, OrdersAssumption DEF LineNotStarted, KOT_STARTED_STATUSES
    <3>3. kot[k].lines = {} => kot[k].status \in Gone
      BY DEF KitchenInv, KitchenRows, EmptyIsVoid
    <3>4. line'[l].state = "DELETED"
      BY <2>2 DEF DeleteLines
    <3>5. l \notin kot[k].lines => kot'[k].lines = kot[k].lines
      BY <2>4
    <3>6. kot'[k].lines = {} => kot'[k].status \in Gone
      BY <2>4, <3>2, <3>3, <3>5 DEF Gone
    <3>7. TicketKept(k)
      BY <2>4, <3>1, <3>4, <3>6 DEF TicketKept
    <3>8. MovesOn(kot[k].status, kot'[k].status)
      BY <2>4, <3>1, <3>2, <3>3, <3>5 DEF MovesOn, Gone
    <3> QED
      BY <3>7, <3>8
  <2> QED
    BY <2>2, <2>3, <2>5, <2>6, EndsKitchen DEF KitchenStep
<1> QED
  BY <1>1, <1>2

LEMMA UpdateKotKeepsKitchen ==
    ASSUME Inv, KitchenInv, NEW w \in Workers, UpdateKotStatusCommits(w)
    PROVE  KitchenSound
<1>1. CASE Rollback(w)
  BY <1>1, RollbackKeepsKitchen
<1>2. CASE ~ Rollback(w)
  <2>1. PICK k, seen, next :
            /\ k = req[w].kot /\ seen = req[w].seen /\ seen \in DOMAIN KOT_NEXT_STATUS
            /\ next = KOT_NEXT_STATUS[seen]
    BY DEF UpdateKotStatusCommits, Inv, RequestsOK, Justified
  <2>2. seen \in {"NEW", "ACCEPTED", "PREPARING", "READY"} /\ next # "NONE"
    BY <2>1 DEF KOT_NEXT_STATUS
  <2>3. /\ kot[k].status = seen
        /\ kot' = [kot EXCEPT ![k].status = next]
        /\ Finish(w) /\ UNCHANGED <<order, line>>
    BY <1>2, <2>1 DEF UpdateKotStatusCommits, KotAsSeen
  <2>4. ASSUME NEW x \in Kots
        PROVE  TicketKept(x) /\ MovesOn(kot[x].status, kot'[x].status)
    <3>1. kot'[x].order = kot[x].order /\ kot'[x].lines = kot[x].lines
      BY <2>3 DEF Inv, TypeOK, KotRow
    <3>2. kot'[x].status = IF x = k THEN next ELSE kot[x].status
      BY <2>3 DEF Inv, TypeOK, KotRow
    <3>3. kot[x].lines = {} => kot[x].status \in Gone
      BY DEF KitchenInv, KitchenRows, EmptyIsVoid
    <3>4. CASE x = k
      BY <2>1, <2>2, <2>3, <3>1, <3>2, <3>3, <3>4 DEF TicketKept, MovesOn, Gone
    <3>5. CASE x # k
      BY <3>1, <3>2, <3>3, <3>5 DEF TicketKept, MovesOn
    <3> QED
      BY <3>4, <3>5
  <2>5. \A x \in Orders : OrderKept(x)
    BY <2>3 DEF OrderKept
  <2> QED
    BY <2>3, <2>4, <2>5, SameLines, EndsKitchen DEF KitchenStep
<1> QED
  BY <1>1, <1>2

\* The lines of a refused ticket are on no other ticket, so deleting them
\* empties none that the kitchen works on.
LEMMA RejectKotKeepsKitchen ==
    ASSUME Inv, KitchenInv, NEW w \in Workers, RejectKotCommits(w)
    PROVE  KitchenSound
<1>1. CASE Rollback(w)
  BY <1>1, RollbackKeepsKitchen
<1>2. CASE ~ Rollback(w)
  <2>1. PICK o \in Orders, k \in Kots, ls \in SUBSET Lines :
            /\ o = req[w].order /\ k = req[w].kot /\ ls = req[w].lines
            /\ req[w].seen \in KOT_REJECTABLE
            /\ \A l \in ls : l \in kot[k].lines \/ line[l].state = "DELETED"
    <3>1. Justified(req[w], order) /\ Recalls(req[w], line, kot) /\ req[w].op = "rejectKot"
      BY DEF RejectKotCommits, Inv, RequestsOK, KitchenInv
    <3> QED
      BY <3>1 DEF Justified, Recalls, Inv, TypeOK, Request
  <2>2. PICK gone : gone = IF req[w].flag THEN ls ELSE {}
    OBVIOUS
  <2>3. /\ kot[k].status \in KOT_REJECTABLE
        /\ kot' = [j \in Kots |->
                     [kot[j] EXCEPT
                        !.status = IF j = k THEN "REJECTED" ELSE @,
                        !.lines = IF req[w].flag THEN @ \ ls ELSE @]]
        /\ Finish(w)
    BY <1>2, <2>1 DEF RejectKotCommits, KotAsSeen
  <2>4. /\ gone # {} => line' = DeleteLines(gone)
        /\ gone = {} => \A l \in Lines : line'[l] = line[l]
    BY <1>2, <2>1, <2>2 DEF RejectKotCommits, DeleteLines
  <2>5. \A j \in Kots : /\ kot'[j].order = kot[j].order
                        /\ kot'[j].lines = kot[j].lines \ gone
                        /\ kot'[j].status = IF j = k THEN "REJECTED" ELSE kot[j].status
    BY <2>2, <2>3 DEF Inv, TypeOK, KotRow
  <2>6. \A x \in Orders : OrderKept(x)
    <3>1. CASE ~ req[w].flag
      <4>1. /\ order' = [order EXCEPT ![o].status = "CANCELLED"]
            /\ order[o].status = "OPEN"
        BY <1>2, <2>1, <3>1 DEF RejectKotCommits
      <4> QED
        BY <4>1, SameAnswers DEF Inv, TypeOK, OrderRow
    <3>2. CASE req[w].flag
      <4>1. order' = order \/ order' = RecomputeTotals(line', o)
        BY <1>2, <2>1, <3>2 DEF RejectKotCommits
      <4> QED
        BY <4>1, TotalsOnly DEF OrderKept
    <3> QED
      BY <3>1, <3>2
  <2>7. \A l \in Lines : LineKept(l) \/ LineGone(l)
    BY <2>4, <2>5 DEF DeleteLines, LineKept, LineGone
  <2>8. ASSUME NEW j \in Kots
        PROVE  TicketKept(j) /\ MovesOn(kot[j].status, kot'[j].status)
    <3>1. kot[j].lines = {} => kot[j].status \in Gone
      BY DEF KitchenInv, KitchenRows, EmptyIsVoid
    <3>2. CASE j = k
      <4>1. TicketKept(j)
        <5>1. kot'[j].status = "REJECTED" /\ kot[j].status # "NONE"
          BY <2>3, <2>5, <3>2 DEF KOT_REJECTABLE
        <5>2. \A l \in kot[j].lines : l \in gone => line'[l].state = "DELETED"
          BY <2>4 DEF DeleteLines, Inv, TypeOK, KotRow
        <5> QED
          BY <2>5, <5>1, <5>2 DEF TicketKept, Gone
      <4> QED
        BY <2>3, <2>5, <3>2, <4>1 DEF MovesOn
    <3>3. CASE j # k
      <4>1. ASSUME NEW l \in kot[j].lines
            PROVE  l \notin gone
        <5>1. line[l].order = kot[j].order /\ kot[j].order \in Orders /\ l \in Lines
          BY <4>1 DEF KitchenInv, KitchenRows, TicketsFit, RowsFit, Inv, TicketsHaveOrders, TypeOK, KotRow
        <5>2. line[l].state = "ON_BILL"
          BY <5>1, OrdersAssumption DEF KitchenInv, KitchenRows, RowsFit
        <5>3. l \notin kot[k].lines
          BY <3>3, <4>1 DEF KitchenInv, KitchenRows, LineTicketedOnce
        <5> QED
          BY <2>1, <2>2, <5>2, <5>3
      <4>2. kot'[j].lines = kot[j].lines
        BY <2>5, <4>1
      <4> QED
        BY <2>5, <3>1, <3>3, <4>2 DEF TicketKept, MovesOn
    <3> QED
      BY <3>2, <3>3
  <2> QED
    BY <2>3, <2>6, <2>7, <2>8, EndsKitchen DEF KitchenStep
<1> QED
  BY <1>1, <1>2

LEMMA CommitsKeepKitchen ==
    ASSUME Inv, KitchenInv, NEW w \in Workers, Commits(w)
    PROVE  KitchenSound
<1>1. Recalls(req[w], line, kot)
  BY DEF KitchenInv
<1>2. req[w].op \notin {"addItems", "mergeOrders"}
  BY <1>1 DEF Recalls
<1> QED
  BY <1>2, AcceptKeepsKitchen, WithdrawKeepsKitchen, QuietKeepsKitchen, RemoveKeepsKitchen,
     UpdateKotKeepsKitchen, RejectKotKeepsKitchen DEF Commits, AddItemsCommits, MergeOrdersCommits

LEMMA CreateKeepsKitchen ==
    ASSUME Inv, KitchenInv, NEW w \in Workers, NEW o \in Orders, NEW t \in Tables \cup {None},
           NEW acc \in {"NOT_REQUIRED", "PENDING", "ACCEPTED"}, NEW sch \in {"now", "later", "due"},
           NEW past \in BOOLEAN, NEW ls \in FreshLines, NEW q,
           CreateOrder(w, o, t, acc, sch, past, ls, q)
    PROVE  KitchenSound
<1>1. ls \in SUBSET Lines /\ \A l \in ls : line[l].state = "FREE"
  BY DEF FreshLines
<1>2. PICK n : order' = [order EXCEPT ![o] =
                    [status |-> "OPEN", acceptance |-> acc, table |-> t,
                     sched |-> sch, total |-> n, paid |-> 0]]
  BY DEF CreateOrder
<1>3. /\ order[o].status = "NONE"
      /\ line' = AddLines(o, ls, q)
      /\ IF acc = "PENDING" \/ sch = "later" \/ past THEN UNCHANGED kot ELSE GenerateKots(o, ls)
      /\ UNCHANGED req
  BY DEF CreateOrder
<1>4. \A l \in Lines : LineKept(l) \/ LineAdded(l)
  BY <1>1, <1>3, OrdersAssumption DEF AddLines, LineKept, LineAdded
<1>5. \A x \in Orders : OrderKept(x) \/ OrderMade(x)
  BY <1>2, <1>3 DEF OrderKept, OrderMade, Inv, TypeOK
<1>6. \A k \in Kots : kot[k].order # o
  BY <1>3, OrdersAssumption DEF KitchenInv, KitchenRows, RowsFit
<1>7. \A k \in Kots : /\ TicketKept(k) \/ TicketMade(k)
                      /\ TicketMade(k) => kot'[k].order = o
                      /\ MovesOn(kot[k].status, kot'[k].status)
  <2>1. CASE UNCHANGED kot
    BY <2>1, SameTickets DEF KitchenInv, TicketMade
  <2>2. CASE GenerateKots(o, ls) /\ acc # "PENDING" /\ sch # "later"
    <3>1. /\ order'[o].status # "NONE" /\ order'[o].acceptance # "PENDING"
          /\ order'[o].sched # "later"
      BY <1>2, <2>2 DEF Inv, TypeOK
    <3>2. \A l \in ls : line'[l].order = o
      BY <1>1, <1>3 DEF AddLines
    <3> QED
      BY <1>1, <1>6, <2>2, <3>1, <3>2, TicketsMade DEF KitchenInv
  <2> QED
    BY <1>3, <2>1, <2>2
<1>8. \A c \in Crons : \A e \in req[c].queue : e[1] # o
  BY <1>3 DEF KitchenInv, StillToCook
<1>9. KitchenStep
  BY <1>4, <1>5, <1>7 DEF KitchenStep
<1>10. req' = [req EXCEPT ![w] = req[w]] /\ Recalls(req[w], line, kot)
  BY <1>3 DEF Inv, TypeOK, KitchenInv
<1> QED
  BY <1>7, <1>8, <1>9, <1>10, OneRequestMoves

LEMMA CountKeepsKitchen ==
    ASSUME Inv, KitchenInv, NEW w \in Workers, CountOpenBills(w)
    PROVE  KitchenSound
<1>1. PICK answer : req' = [req EXCEPT ![w].idle = answer]
  BY DEF CountOpenBills
<1>2. req[w] \in Request /\ Recalls(req[w], line, kot)
  BY DEF Inv, TypeOK, KitchenInv
<1>3. PICK r : r = [req[w] EXCEPT !.idle = answer]
  OBVIOUS
<1>4. Recalls(r, line, kot)
  <2>1. /\ r.op = req[w].op /\ r.order = req[w].order /\ r.line = req[w].line
        /\ r.lines = req[w].lines /\ r.kot = req[w].kot /\ r.seen = req[w].seen
    BY <1>2, <1>3 DEF Request
  <2> QED
    BY <1>2, <2>1 DEF Recalls
<1>5. KitchenStep /\ \A k \in Kots : MovesOn(kot[k].status, kot'[k].status)
  BY SameRowsAreCalm DEF CountOpenBills, KitchenInv
<1>6. \A k \in Kots : ~ TicketMade(k)
  BY DEF TicketMade, CountOpenBills, rows
<1> QED
  BY <1>1, <1>3, <1>4, <1>5, <1>6, OneRequestMoves

LEMMA TimeKeepsKitchen ==
    ASSUME Inv, KitchenInv, NEW o \in Orders, TimePasses(o)
    PROVE  KitchenSound
<1>1. \A x \in Orders : OrderKept(x)
  BY DEF TimePasses, OrderKept, Inv, TypeOK, OrderRow
<1>2. \A k \in Kots : ~ TicketMade(k)
  BY DEF TicketMade, TimePasses
<1>3. UNCHANGED <<line, kot, req>>
  BY DEF TimePasses
<1> QED
  BY <1>1, <1>2, <1>3, SameLines, SameTickets DEF KitchenSound, KitchenStep, KitchenInv

\* The job lists the orders due, each with its lines, and writes no row.
LEMMA ListIsWhatIsDue ==
    ASSUME Inv, NEW c \in Crons, ReleaseReads(c)
    PROVE  /\ req'[c].queue = {<<o, LinesOf(o)>> : o \in {x \in Orders : Due(x)}}
           /\ UNCHANGED rows
  BY DEF ReleaseReads, Inv, TypeOK, Request

\* The only job run in flight tickets an order of its list, or none.
LEMMA ReleaseKeepsKitchen ==
    ASSUME OneJobRun, Inv, KitchenInv, NEW c \in Crons, ReleaseReads(c) \/ ReleaseCommits(c)
    PROVE  KitchenSound
<1>1. \A w \in Workers : req'[w] = req[w]
  <2>1. \A w \in Workers : w # c
    BY OrdersAssumption
  <2> QED
    BY <2>1 DEF ReleaseReads, ReleaseCommits, Rollback, Finish, Inv, TypeOK
<1>2. \A w \in Workers : Recalls(req'[w], line, kot)
  BY <1>1 DEF KitchenInv
<1>3. \A x \in Crons : x = c
  BY DEF OneJobRun
<1>4. StillToCook(Idle.queue, order, line, kot)
  BY DEF Idle, StillToCook
<1>5. CASE ReleaseReads(c)
  <2>1. req'[c].queue = {<<o, LinesOf(o)>> : o \in {x \in Orders : Due(x)}} /\ UNCHANGED rows
    BY <1>5, ListIsWhatIsDue
  <2>2. PICK q : q = {<<o, LinesOf(o)>> : o \in {x \in Orders : Due(x)}}
    OBVIOUS
  <2>3. StillToCook(q, order, line, kot)
    <3>1. ASSUME NEW o \in Orders, Due(o)
          PROVE  /\ \A k \in Kots : kot[k].order # o
                 /\ order[o].status # "NONE" /\ order[o].acceptance # "PENDING"
                 /\ order[o].sched # "later"
                 /\ \A l \in LinesOf(o) : line[l].state # "FREE" /\ line[l].order \in {o, None}
      BY <3>1, OrdersAssumption DEF Due, KotsOf, LinesOf, KitchenInv, KitchenRows, RowsFit
    <3>2. ASSUME NEW e \in q
          PROVE  \E o \in Orders : Due(o) /\ e = <<o, LinesOf(o)>>
      BY <2>2, <3>2
    <3>3. ASSUME NEW e \in q
          PROVE  /\ \A k \in Kots : kot[k].order # e[1]
                 /\ order[e[1]].status # "NONE" /\ order[e[1]].acceptance # "PENDING"
                 /\ order[e[1]].sched # "later"
                 /\ \A l \in e[2] : line[l].state # "FREE" /\ line[l].order \in {e[1], None}
                 /\ \A f \in q : f[1] = e[1] => f = e
      <4>1. PICK o \in Orders : Due(o) /\ e = <<o, LinesOf(o)>>
        BY <3>2, <3>3
      <4>2. e[1] = o /\ e[2] = LinesOf(o)
        BY <4>1
      <4>3. ASSUME NEW f \in q, f[1] = e[1]
            PROVE  f = e
        <5>1. PICK x \in Orders : f = <<x, LinesOf(x)>>
          BY <3>2, <4>3
        <5> QED
          BY <4>1, <4>2, <4>3, <5>1
      <4> QED
        BY <3>1, <4>1, <4>2, <4>3
    <3> QED
      BY <3>3 DEF StillToCook
  <2>4. KitchenStep /\ \A k \in Kots : MovesOn(kot[k].status, kot'[k].status) /\ ~ TicketMade(k)
    BY <2>1, SameRowsAreCalm DEF KitchenInv, TicketMade, rows
  <2> QED
    BY <1>2, <1>3, <2>1, <2>2, <2>3, <2>4 DEF KitchenSound
<1>6. CASE ReleaseCommits(c) /\ Rollback(c)
  <2>1. req'[c] = Idle /\ UNCHANGED rows
    BY <1>6 DEF Rollback, Finish, Inv, TypeOK
  <2>2. KitchenStep /\ \A k \in Kots : MovesOn(kot[k].status, kot'[k].status) /\ ~ TicketMade(k)
    BY <2>1, SameRowsAreCalm DEF KitchenInv, TicketMade, rows
  <2> QED
    BY <1>2, <1>3, <1>4, <2>1, <2>2 DEF KitchenSound
<1>7. CASE ReleaseCommits(c) /\ ~ Rollback(c)
  <2>1. PICK e \in req[c].queue :
            /\ OnBill(e[2]) /\ GenerateKots(e[1], e[2])
            /\ IF req[c].queue = {e} THEN Finish(c)
               ELSE req' = [req EXCEPT ![c].queue = @ \ {e}]
            /\ UNCHANGED <<order, line, table>>
    BY <1>7 DEF ReleaseCommits
  <2>2. PICK o \in Orders, ls \in SUBSET Lines : e[1] = o /\ e[2] = ls
    BY DEF Inv, TypeOK, Request
  <2>3. StillToCook(req[c].queue, order, line, kot)
    BY DEF KitchenInv
  <2>4. /\ \A k \in Kots : kot[k].order # o
        /\ order[o].status # "NONE" /\ order[o].acceptance # "PENDING" /\ order[o].sched # "later"
        /\ \A l \in ls : line[l].state # "FREE" /\ line[l].order \in {o, None}
        /\ \A f \in req[c].queue : f[1] = o => f = e
    BY <2>2, <2>3 DEF StillToCook
  <2>5. \A l \in ls : line'[l].order = o
    BY <2>1, <2>2, <2>4 DEF OnBill, KitchenInv, KitchenRows, RowsFit
  <2>6. \A k \in Kots : /\ TicketKept(k) \/ TicketMade(k)
                        /\ TicketMade(k) => kot'[k].order = o
                        /\ MovesOn(kot[k].status, kot'[k].status)
    BY <2>1, <2>2, <2>4, <2>5, TicketsMade DEF KitchenInv
  <2>7. KitchenStep
    BY <2>1, <2>6, SameLines DEF KitchenStep, OrderKept
  <2>8. req'[c].queue \subseteq req[c].queue \ {e}
    BY <2>1 DEF Finish, Inv, TypeOK, Request, Idle
  <2>9. StillToCook(req'[c].queue, order, line, kot)
    BY <2>3, <2>8 DEF StillToCook
  <2>10. \A f \in req'[c].queue : f[1] # o
    BY <2>4, <2>8
  <2> QED
    BY <1>2, <1>3, <2>6, <2>7, <2>9, <2>10 DEF KitchenSound
<1> QED
  BY <1>5, <1>6, <1>7

LEMMA KitchenStepIsSound ==
    ASSUME LinesStay, OneJobRun, Inv, KitchenInv, Next
    PROVE  KitchenSound
<1>1. ASSUME NEW w \in Workers, NEW o \in Orders, NEW t \in Tables \cup {None},
             NEW acc \in {"NOT_REQUIRED", "PENDING", "ACCEPTED"},
             NEW sch \in {"now", "later", "due"}, NEW past \in BOOLEAN,
             NEW ls \in FreshLines, NEW q \in 1 .. MaxQty,
             CreateOrder(w, o, t, acc, sch, past, ls, q)
      PROVE  KitchenSound
  BY <1>1, CreateKeepsKitchen
<1>2. ASSUME NEW w \in Workers, Reads(w) \/ CountOpenBills(w) \/ Commits(w)
      PROVE  KitchenSound
  BY <1>2, ReadsKeepKitchen, CountKeepsKitchen, CommitsKeepKitchen
<1>3. ASSUME NEW c \in Crons, ReleaseReads(c) \/ ReleaseCommits(c)
      PROVE  KitchenSound
  BY <1>3, ReleaseKeepsKitchen
<1>4. ASSUME NEW o \in Orders, TimePasses(o)
      PROVE  KitchenSound
  BY <1>4, TimeKeepsKitchen
<1> QED
  BY <1>1, <1>2, <1>3, <1>4 DEF Next

LEMMA KitchenHolds == LinesStay /\ OneJobRun => (Spec => []KitchenInv)
<1> SUFFICES ASSUME LinesStay, OneJobRun PROVE Spec => []KitchenInv
  OBVIOUS
<1>1. Init => KitchenInv
  <2> SUFFICES ASSUME Init PROVE KitchenInv
    OBVIOUS
  <2>1. KitchenRows
    BY OrdersAssumption DEF Init, KitchenRows, RowsFit, TicketsFit, WaitingIsUncooked, KotsOf,
       EmptyIsVoid, Gone, LineTicketedOnce
  <2>2. \A w \in Workers : Recalls(req[w], line, kot)
    BY IdleRecalls DEF Init
  <2>3. \A c \in Crons : StillToCook(req[c].queue, order, line, kot)
    BY DEF Init, Idle, StillToCook
  <2> QED
    BY <2>1, <2>2, <2>3 DEF KitchenInv
<1>2. Inv /\ Inv' /\ KitchenInv /\ [Next]_vars => KitchenInv'
  <2> SUFFICES ASSUME Inv, Inv', KitchenInv, [Next]_vars PROVE KitchenInv'
    OBVIOUS
  <2>1. CASE Next
    <3>1. KitchenSound
      BY <2>1, KitchenStepIsSound
    <3>2. KitchenRows'
      BY <3>1, RowsStayFit DEF KitchenSound, KitchenInv
    <3>3. ASSUME NEW w \in Workers
          PROVE  Recalls(req'[w], line', kot')
      <4>1. PICK r : r = req'[w]
        OBVIOUS
      <4>2. r \in Request /\ Recalls(r, line, kot)
        BY <3>1, <4>1 DEF KitchenSound, Inv, TypeOK
      <4>3. Recalls(r, line', kot')
        BY <3>1, <4>2, RecallsLasts DEF KitchenSound, KitchenInv
      <4> QED
        BY <4>1, <4>3
    <3>4. ASSUME NEW c \in Crons
          PROVE  StillToCook(req'[c].queue, order', line', kot')
      <4>1. PICK q : q = req'[c].queue
        OBVIOUS
      <4>2. /\ q \in SUBSET (Orders \X SUBSET Lines)
            /\ StillToCook(q, order, line, kot)
            /\ \A k \in Kots, e \in q : TicketMade(k) => kot'[k].order # e[1]
        BY <3>1, <4>1 DEF KitchenSound, Inv, TypeOK, Request
      <4>3. StillToCook(q, order', line', kot')
        BY <3>1, <4>2, StillToCookLasts DEF KitchenSound, KitchenInv
      <4> QED
        BY <4>1, <4>3
    <3> QED
      BY <3>2, <3>3, <3>4 DEF KitchenInv
  <2>2. CASE UNCHANGED vars
    BY <2>2 DEF vars, KitchenInv, KitchenRows, RowsFit, TicketsFit, WaitingIsUncooked, KotsOf,
       EmptyIsVoid, LineTicketedOnce
  <2> QED
    BY <2>1, <2>2
<1> QED
  BY <1>1, <1>2, InvHolds, PTL DEF Spec

\* Whatever accepts, removals, refused tickets and payments overlap with the
\* creation of orders and with the job run, the kitchen is sent no line twice.
THEOREM LinesAreCookedOnce == LinesStay /\ OneJobRun => (Spec => []LineTicketedOnce)
<1>1. KitchenInv => LineTicketedOnce
  BY DEF KitchenInv, KitchenRows
<1> QED
  BY <1>1, KitchenHolds, PTL

\* Under the same conditions a ticket only moves along the state machine of
\* order-lifecycle.ts: a stale screen never moves one back, and nothing moves
\* one that was served.
THEOREM TicketsMoveForward == LinesStay /\ OneJobRun => (Spec => KitchenMovesForward)
<1> SUFFICES ASSUME LinesStay, OneJobRun PROVE Spec => KitchenMovesForward
  OBVIOUS
<1>1. Inv /\ KitchenInv /\ [Next]_vars =>
        [\A k \in Kots :
            LET from == kot[k].status
                to == kot'[k].status
            IN  from # to =>
                  \/ from = "NONE" /\ to = "NEW"
                  \/ from \in DOMAIN KOT_NEXT_STATUS /\ to = KOT_NEXT_STATUS[from]
                  \/ from \in KOT_REJECTABLE /\ to = "REJECTED"
                  \/ from \notin {"NONE", "SERVED"} /\ to = "CANCELLED"]_vars
  <2>1. ASSUME Inv, KitchenInv, Next
        PROVE  \A k \in Kots : MovesOn(kot[k].status, kot'[k].status)
    BY <2>1, KitchenStepIsSound DEF KitchenSound
  <2> QED
    BY <2>1 DEF MovesOn
<1> QED
  BY <1>1, InvHolds, KitchenHolds, PTL DEF Spec, KitchenMovesForward

-----------------------------------------------------------------------------
(* The bill, when requests do not overlap; the job and the clock may.        *)

OnOpenBill ==
    \A k \in Kots : order[kot[k].order].status = "OPEN" =>
        \A l \in kot[k].lines : line[l].order = kot[k].order

\* What a job run read of the orders on its list.
ReadAsDue(queue, ord, lin) ==
    \A e \in queue :
        /\ ord[e[1]].status # "NONE"
        /\ \A l \in e[2] : /\ lin[l].state # "FREE"
                           /\ ord[e[1]].status = "OPEN" => lin[l].order \in {e[1], None}

Unpaid(o, ord) == o \in Orders /\ ord[o].status = "OPEN" /\ ord[o].paid = 0

\* What request r remembers of the rows is still so.
Current(r, ord, lin, tickets) ==
    /\ r.op = "addItems" => Unpaid(r.order, ord) /\ r.amount = Subtotal(lin, r.order)
    /\ r.op = "acceptOrder" => \A l \in r.lines : lin[l].order = r.order
    /\ r.op \in {"updateOrderItem", "removeOrderItem"} =>
          Unpaid(r.order, ord) /\ r.line \in Lines /\ lin[r.line].order = r.order
    /\ r.op = "mergeOrders" =>
          Unpaid(r.order, ord) /\ Unpaid(r.source, ord) /\ r.order # r.source
    /\ r.op = "checkout" =>
          /\ r.locked <=> ord[r.order].paid # 0
          /\ r.amount = 0 => r.flag
    /\ r.op = "rejectKot" =>
          /\ Unpaid(r.order, ord)
          /\ r.kot \in Kots /\ tickets[r.kot].order = r.order
          /\ \A l \in r.lines : lin[l].order = r.order
          /\ r.flag => \E j \in Kots \ {r.kot} :
                          /\ tickets[j].order = r.order
                          /\ tickets[j].status \notin KOT_VOID_STATUSES \cup {"NONE"}

BillRows == RowsFit /\ OnOpenBill /\ RefusedOrderIsWithdrawn
BillInv ==
    /\ BillRows
    /\ TotalIsSumOfLines
    /\ \A c \in Crons : ReadAsDue(req[c].queue, order, line)
    /\ \A w \in Workers : Current(req[w], order, line, kot)

\* What a step may do to the bill of order x.
SameUnits(x) ==
    \A l \in Lines : /\ line'[l].order = x <=> line[l].order = x
                     /\ line[l].order = x => line'[l].qty = line[l].qty
BillKept(x) == /\ SameUnits(x)
               /\ order'[x].total = order[x].total /\ order'[x].paid = order[x].paid
               /\ order'[x].status = "OPEN" => order[x].status = "OPEN"
BillRedone(x) == /\ order[x].status = "NONE" \/ Unpaid(x, order)
                 /\ order'[x].total = Subtotal(line', x)
BillPaid(x) == /\ SameUnits(x) /\ order[x].status = "OPEN"
               /\ order[x].paid > 0 => order'[x].total = order[x].total
               /\ order'[x].status = "OPEN" => order'[x].paid > 0
BillLeft(x) == Unpaid(x, order) /\ order'[x].status # "OPEN"
BillMoves == \A x \in Orders : BillKept(x) \/ BillRedone(x) \/ BillPaid(x) \/ BillLeft(x)

\* What a step other than a merge may do to tickets and orders.
TicketStays(k) ==
    /\ kot'[k].order = kot[k].order
    /\ kot'[k].status = "NONE" <=> kot[k].status = "NONE"
    /\ kot'[k].lines \subseteq kot[k].lines
    /\ kot'[k].status = "REJECTED" =>
          \/ kot[k].status = "REJECTED"
          \/ order'[kot[k].order].status # "OPEN"
          \/ \E j \in Kots : kot'[j].order = kot[k].order /\ kot'[j].status # "REJECTED"
TicketAppears(k) ==
    LET o == kot'[k].order
    IN  /\ kot[k].status = "NONE" /\ kot'[k].status = "NEW"
        /\ o \in Orders /\ order'[o].status # "NONE"
        /\ order'[o].status = "OPEN" => \A l \in kot'[k].lines : line'[l].order = o
StatusMoves(o) == /\ order[o].status # "NONE" => order'[o].status # "NONE"
                  /\ order'[o].status = "OPEN" => order[o].status \in {"OPEN", "NONE"}
BillStep ==
    /\ \A l \in Lines : LineKept(l) \/ LineAdded(l) \/ LineGone(l)
    /\ \A k \in Kots : TicketStays(k) \/ TicketAppears(k)
    /\ \A o \in Orders : StatusMoves(o)

LEMMA SameUnitsSameSubtotal ==
    ASSUME NEW x, SameUnits(x)
    PROVE  UnitsOf(line', x) = UnitsOf(line, x) /\ Subtotal(line', x) = Subtotal(line, x)
<1>1. UnitsOf(line', x) = UnitsOf(line, x)
  BY DEF SameUnits, UnitsOf
<1> QED
  BY <1>1 DEF Subtotal

\* A round of q units of each of the lines ls adds q * |ls| units.
LEMMA AddedUnits ==
    ASSUME Inv, NEW o \in Orders, NEW ls \in SUBSET Lines, NEW q \in 1 .. MaxQty,
           \A l \in ls : line[l].order # o
    PROVE  Subtotal(AddLines(o, ls, q), o) = Subtotal(line, o) + q * Cardinality(ls)
<1> DEFINE old == UnitsOf(line, o)
           new == ls \X (1 .. q)
<1>1. q \in Nat /\ q <= MaxQty /\ MaxQty \in Nat
  BY OrdersAssumption
<1>2. UnitsOf(AddLines(o, ls, q), o) = old \cup new
  <2>1. ASSUME NEW l \in Lines, NEW n \in 1 .. MaxQty
        PROVE  <<l, n>> \in UnitsOf(AddLines(o, ls, q), o) <=> <<l, n>> \in old \cup new
    <3>1. CASE l \in ls
      BY <1>1, <3>1 DEF UnitsOf, AddLines
    <3>2. CASE l \notin ls
      BY <3>2 DEF UnitsOf, AddLines
    <3> QED
      BY <3>1, <3>2
  <2>2. UnitsOf(AddLines(o, ls, q), o) \subseteq Lines \X (1 .. MaxQty)
    BY DEF UnitsOf
  <2>3. old \subseteq Lines \X (1 .. MaxQty)
    BY DEF UnitsOf
  <2>4. new \subseteq Lines \X (1 .. MaxQty)
    BY <1>1
  <2> HIDE DEF old, new
  <2> DEFINE all == Lines \X (1 .. MaxQty)
             units == UnitsOf(AddLines(o, ls, q), o)
  <2>5. \A u \in all : u \in units <=> u \in old \cup new
    BY <2>1
  <2>6. units \subseteq all /\ old \subseteq all /\ new \subseteq all
    BY <2>2, <2>3, <2>4
  <2> HIDE DEF all, units
  <2>7. units = old \cup new
    BY <2>5, <2>6
  <2> QED
    BY <2>7 DEF units
<1>3. old \cap new = {}
  BY DEF UnitsOf
<1>4. IsFiniteSet(Lines) /\ IsFiniteSet(1 .. MaxQty)
  BY <1>1, OrdersAssumption, FS_Interval
<1>5. IsFiniteSet(old)
  <2>1. IsFiniteSet(Lines \X (1 .. MaxQty))
    BY <1>4, FS_Product
  <2> QED
    BY <2>1, FS_Subset DEF UnitsOf
<1>6. IsFiniteSet(ls) /\ IsFiniteSet(1 .. q) /\ Cardinality(1 .. q) = q
  BY <1>1, <1>4, FS_Subset, FS_Interval
<1>7. IsFiniteSet(new) /\ Cardinality(new) = Cardinality(ls) * q
  BY <1>6, FS_Product
<1>8. Cardinality(ls) \in Nat
  BY <1>6, FS_CardinalityType
<1>9. Cardinality(ls) * q = q * Cardinality(ls)
  BY <1>1, <1>8
<1>10. Cardinality(old \cup new) = Cardinality(old) + Cardinality(new)
  <2> HIDE DEF old, new
  <2>1. Cardinality(old \cup new) = Cardinality(old) + Cardinality(new) - Cardinality(old \cap new)
    BY <1>5, <1>7, FS_Union
  <2>2. Cardinality(old \cap new) = 0
    BY <1>3, FS_EmptySet
  <2>3. Cardinality(old) \in Nat /\ Cardinality(new) \in Nat
    BY <1>5, <1>7, FS_CardinalityType
  <2> QED
    BY <2>1, <2>2, <2>3
<1> QED
  BY <1>2, <1>7, <1>9, <1>10 DEF Subtotal

LEMMA BillRowsStay ==
    ASSUME Inv, Inv', BillRows, BillStep
    PROVE  BillRows'
<1> USE OrdersAssumption
<1>1. TypeOK /\ TypeOK' /\ TicketsHaveOrders /\ TicketsHaveOrders' /\ RowsFit /\ OnOpenBill
  BY DEF Inv, BillRows
<1>2. RowsFit'
  <2>1. \A l \in Lines : line'[l].state = "ON_BILL" <=> line'[l].order # None
    BY <1>1 DEF BillStep, LineKept, LineAdded, LineGone, RowsFit
  <2>2. \A k \in Kots : kot'[k].status = "NONE" => kot'[k].order = None /\ kot'[k].lines = {}
    BY <1>1 DEF BillStep, TicketStays, TicketAppears, RowsFit
  <2>3. ASSUME NEW k \in Kots, kot'[k].status # "NONE"
        PROVE  order'[kot'[k].order].status # "NONE"
    <3>1. CASE TicketAppears(k)
      BY <3>1 DEF TicketAppears
    <3>2. CASE TicketStays(k)
      BY <1>1, <2>3, <3>2 DEF TicketStays, RowsFit, TicketsHaveOrders, BillStep, StatusMoves
    <3> QED
      BY <3>1, <3>2 DEF BillStep
  <2> QED
    BY <2>1, <2>2, <2>3 DEF RowsFit
<1>3. ASSUME NEW k \in Kots, TicketStays(k), kot[k].status # "NONE",
             order'[kot[k].order].status = "OPEN"
      PROVE  order[kot[k].order].status = "OPEN"
  BY <1>1, <1>3 DEF RowsFit, TicketsHaveOrders, BillStep, StatusMoves
<1>4. OnOpenBill'
  <2> SUFFICES ASSUME NEW k \in Kots, order'[kot'[k].order].status = "OPEN", NEW l \in kot'[k].lines
               PROVE  line'[l].order = kot'[k].order
    BY DEF OnOpenBill
  <2>1. CASE TicketAppears(k)
    BY <2>1 DEF TicketAppears
  <2>2. CASE TicketStays(k)
    <3>1. l \in kot[k].lines /\ l \in Lines /\ kot'[k].order = kot[k].order
      BY <1>1, <2>2 DEF TicketStays, TypeOK, KotRow
    <3>2. kot[k].status # "NONE" /\ kot[k].order \in Orders
      BY <1>1, <3>1 DEF RowsFit, TicketsHaveOrders
    <3>3. line[l].order = kot[k].order
      BY <1>1, <1>3, <2>2, <3>1, <3>2 DEF OnOpenBill
    <3>4. LineKept(l)
      BY <1>1, <3>1, <3>2, <3>3 DEF BillStep, LineAdded, LineGone, RowsFit
    <3> QED
      BY <3>1, <3>3, <3>4 DEF LineKept
  <2> QED
    BY <2>1, <2>2 DEF BillStep
<1>5. RefusedOrderIsWithdrawn'
  <2> SUFFICES ASSUME NEW o \in Orders, order'[o].status = "OPEN", NEW k \in Kots, kot'[k].order = o
               PROVE  \E j \in Kots : kot'[j].order = o /\ kot'[j].status # "REJECTED"
    BY DEF RefusedOrderIsWithdrawn, KotsOf
  <2>1. CASE TicketAppears(k)
    BY <2>1 DEF TicketAppears
  <2>2. CASE TicketStays(k)
    <3>1. kot[k].order = o /\ kot[k].status # "NONE"
      BY <1>1, <2>2 DEF TicketStays, RowsFit
    <3>2. order[o].status = "OPEN"
      BY <1>3, <2>2, <3>1
    <3>3. PICK j \in Kots : kot[j].order = o /\ kot[j].status # "REJECTED"
      BY <3>1, <3>2 DEF BillRows, RefusedOrderIsWithdrawn, KotsOf
    <3>4. kot[j].status # "NONE"
      BY <1>1, <3>3 DEF RowsFit
    <3>5. TicketStays(j)
      BY <3>4 DEF BillStep, TicketAppears
    <3> QED
      BY <3>3, <3>5 DEF TicketStays
  <2> QED
    BY <2>1, <2>2 DEF BillStep
<1> QED
  BY <1>2, <1>4, <1>5 DEF BillRows

LEMMA DueLasts ==
    ASSUME Inv, BillStep, NEW q \in SUBSET (Orders \X SUBSET Lines), ReadAsDue(q, order, line)
    PROVE  ReadAsDue(q, order', line')
<1> SUFFICES ASSUME NEW e \in q
             PROVE  /\ order'[e[1]].status # "NONE"
                    /\ \A l \in e[2] : /\ line'[l].state # "FREE"
                                       /\ order'[e[1]].status = "OPEN" => line'[l].order \in {e[1], None}
  BY DEF ReadAsDue
<1>1. PICK o \in Orders, ls \in SUBSET Lines : e[1] = o /\ e[2] = ls
  OBVIOUS
<1>2. /\ order[o].status # "NONE"
      /\ \A l \in ls : /\ line[l].state # "FREE"
                       /\ order[o].status = "OPEN" => line[l].order \in {o, None}
  BY <1>1 DEF ReadAsDue
<1>3. order'[o].status # "NONE" /\ (order'[o].status = "OPEN" => order[o].status = "OPEN")
  BY <1>2 DEF BillStep, StatusMoves
<1>4. \A l \in ls : /\ line'[l].state # "FREE"
                    /\ order'[o].status = "OPEN" => line'[l].order \in {o, None}
  BY <1>2, <1>3 DEF BillStep, LineKept, LineAdded, LineGone
<1> QED
  BY <1>1, <1>3, <1>4

LEMMA TotalsStay ==
    ASSUME Inv, Inv', TotalIsSumOfLines, BillMoves
    PROVE  TotalIsSumOfLines'
<1> SUFFICES ASSUME NEW o \in Orders, order'[o].status = "OPEN", order'[o].paid = 0
             PROVE  order'[o].total = Subtotal(line', o)
  BY DEF TotalIsSumOfLines
<1>1. CASE BillKept(o)
  BY <1>1, SameUnitsSameSubtotal DEF BillKept, TotalIsSumOfLines
<1>2. CASE BillRedone(o)
  BY <1>2 DEF BillRedone
<1>3. CASE BillPaid(o)
  BY <1>3 DEF BillPaid
<1>4. CASE BillLeft(o)
  BY <1>4 DEF BillLeft
<1> QED
  BY <1>1, <1>2, <1>3, <1>4 DEF BillMoves

LEMMA PartPaidStaysFixed ==
    ASSUME Inv, BillMoves, NEW o \in Orders, order[o].status = "OPEN", order[o].paid > 0
    PROVE  order'[o].total = order[o].total /\ UnitsOf(line', o) = UnitsOf(line, o)
<1>1. ~ BillRedone(o) /\ ~ BillLeft(o)
  BY DEF BillRedone, BillLeft, Unpaid
<1>2. SameUnits(o) /\ order'[o].total = order[o].total
  BY <1>1 DEF BillMoves, BillKept, BillPaid
<1> QED
  BY <1>2, SameUnitsSameSubtotal

BillSound ==
    /\ BillRows' /\ BillMoves
    /\ \A c \in Crons : ReadAsDue(req'[c].queue, order', line')
    /\ \A w \in Workers : Current(req'[w], order', line', kot')

LEMMA IdleIsCurrent ==
    ASSUME NEW ord, NEW lin, NEW tickets
    PROVE  Current(Idle, ord, lin, tickets)
  BY DEF Current, Idle

LEMMA SameRowsSameBills ==
    ASSUME UNCHANGED rows
    PROVE  BillStep /\ BillMoves
<1>1. UNCHANGED <<order, line, kot>>
  BY DEF rows
<1>2. BillStep
  BY <1>1 DEF BillStep, LineKept, TicketStays, StatusMoves
<1>3. BillMoves
  BY <1>1 DEF BillMoves, BillKept, SameUnits
<1> QED
  BY <1>2, <1>3

LEMMA ListsLast ==
    ASSUME Inv, BillInv, BillStep, NEW c \in Crons, req'[c] = req[c]
    PROVE  ReadAsDue(req'[c].queue, order', line')
<1>1. PICK q : q = req[c].queue
  OBVIOUS
<1>2. q \in SUBSET (Orders \X SUBSET Lines) /\ ReadAsDue(q, order, line)
  BY <1>1 DEF Inv, TypeOK, Request, BillInv
<1>3. ReadAsDue(q, order', line')
  BY <1>2, DueLasts
<1> QED
  BY <1>1, <1>3

\* The only request starts, moves or ends.
LEMMA OneBillMoves ==
    ASSUME OneAtATime, Inv, Inv', BillInv, NEW w \in Workers, NEW r, req' = [req EXCEPT ![w] = r],
           Current(r, order', line', kot'), BillStep, BillMoves
    PROVE  BillSound
<1>1. \A v \in Workers : req'[v] = r
  BY DEF OneAtATime, Inv, TypeOK
<1>2. \A c \in Crons : req'[c] = req[c]
  BY OrdersAssumption DEF Inv, TypeOK
<1>3. BillRows'
  BY BillRowsStay DEF BillInv
<1>4. \A c \in Crons : ReadAsDue(req'[c].queue, order', line')
  BY <1>2, ListsLast
<1> QED
  BY <1>1, <1>3, <1>4 DEF BillSound

LEMMA BillEnds ==
    ASSUME OneAtATime, Inv, Inv', BillInv, NEW w \in Workers, Finish(w), BillStep, BillMoves
    PROVE  BillSound
  BY OneBillMoves, IdleIsCurrent DEF Finish

LEMMA BillRollsBack ==
    ASSUME OneAtATime, Inv, Inv', BillInv, NEW w \in Workers, Rollback(w)
    PROVE  BillSound
  BY BillEnds, SameRowsSameBills DEF Rollback

LEMMA BillStarts ==
    ASSUME OneAtATime, Inv, Inv', BillInv, NEW w \in Workers, NEW r, Start(w, r),
           Current(r, order, line, kot)
    PROVE  BillSound
<1>1. UNCHANGED <<order, line, kot>>
  BY DEF Start, rows
<1>2. Current(r, order', line', kot')
  BY <1>1
<1> QED
  BY <1>2, OneBillMoves, SameRowsSameBills DEF Start

LEMMA ReadsKeepBills ==
    ASSUME OneAtATime, Inv, Inv', BillInv, NEW w \in Workers, Reads(w)
    PROVE  BillSound
<1>1. ASSUME NEW r, Start(w, r),
             r.op \notin {"addItems", "acceptOrder", "updateOrderItem", "removeOrderItem",
                          "mergeOrders", "checkout", "rejectKot"}
      PROVE  BillSound
  BY <1>1, BillStarts DEF Current
<1>2. ASSUME NEW o \in Orders, AddItemsReads(w, o)
      PROVE  BillSound
  <2> DEFINE sum == Subtotal(line, o)
             r == [Idle EXCEPT !.op = "addItems", !.order = o, !.amount = sum]
  <2>1. r.op = "addItems" /\ r.order = o /\ r.amount = sum
    BY DEF Idle
  <2>2. Start(w, r) /\ Unpaid(o, order)
    BY <1>2 DEF AddItemsReads, Editable, NoPayments, Unpaid
  <2> HIDE DEF r
  <2>3. Current(r, order, line, kot)
    BY <2>1, <2>2 DEF Current
  <2> QED
    BY <2>2, <2>3, BillStarts
<1>3. ASSUME NEW o \in Orders, AcceptOrderReads(w, o)
      PROVE  BillSound
  <2> DEFINE r == [Idle EXCEPT !.op = "acceptOrder", !.order = o, !.lines = LinesOf(o)]
  <2>1. r.op = "acceptOrder" /\ r.order = o /\ r.lines = LinesOf(o)
    BY DEF Idle
  <2>2. Start(w, r)
    BY <1>3 DEF AcceptOrderReads
  <2> HIDE DEF r
  <2>3. Current(r, order, line, kot)
    BY <2>1 DEF Current, LinesOf
  <2> QED
    BY <2>2, <2>3, BillStarts
<1>4. ASSUME NEW o \in Orders, NEW decline \in BOOLEAN, WithdrawOrderReads(w, o, decline)
      PROVE  BillSound
  <2> DEFINE r == [Idle EXCEPT !.op = IF decline THEN "rejectOrder" ELSE "cancelOrder",
                               !.order = o, !.table = order[o].table]
  <2>1. r.op \in {"rejectOrder", "cancelOrder"}
    BY DEF Idle
  <2>2. Start(w, r)
    BY <1>4 DEF WithdrawOrderReads
  <2> HIDE DEF r
  <2> QED
    BY <1>1, <2>1, <2>2
<1>5. ASSUME NEW o \in Orders, NEW t \in Tables, UpdateOrderReads(w, o, t)
      PROVE  BillSound
  <2> DEFINE r == [Idle EXCEPT !.op = "updateOrder", !.order = o, !.table = order[o].table, !.to = t]
  <2>1. r.op = "updateOrder"
    BY DEF Idle
  <2>2. Start(w, r)
    BY <1>5 DEF UpdateOrderReads
  <2> HIDE DEF r
  <2> QED
    BY <1>1, <2>1, <2>2
<1>6. ASSUME NEW o \in Orders, NEW l \in Lines, NEW q \in 1 .. MaxQty,
             UpdateOrderItemReads(w, o, l, q)
      PROVE  BillSound
  <2> DEFINE r == [Idle EXCEPT !.op = "updateOrderItem", !.order = o, !.line = l, !.amount = q]
  <2>1. r.op = "updateOrderItem" /\ r.order = o /\ r.line = l
    BY DEF Idle
  <2>2. Start(w, r) /\ Unpaid(o, order) /\ line[l].order = o
    BY <1>6 DEF UpdateOrderItemReads, Editable, NoPayments, Unpaid, LinesOf
  <2> HIDE DEF r
  <2>3. Current(r, order, line, kot)
    BY <2>1, <2>2 DEF Current
  <2> QED
    BY <2>2, <2>3, BillStarts
<1>7. ASSUME NEW o \in Orders, NEW l \in Lines, RemoveOrderItemReads(w, o, l)
      PROVE  BillSound
  <2> DEFINE r == [Idle EXCEPT !.op = "removeOrderItem", !.order = o, !.line = l]
  <2>1. r.op = "removeOrderItem" /\ r.order = o /\ r.line = l
    BY DEF Idle
  <2>2. Start(w, r) /\ Unpaid(o, order) /\ line[l].order = o
    BY <1>7 DEF RemoveOrderItemReads, Editable, NoPayments, Unpaid, LinesOf
  <2> HIDE DEF r
  <2>3. Current(r, order, line, kot)
    BY <2>1, <2>2 DEF Current
  <2> QED
    BY <2>2, <2>3, BillStarts
<1>8. ASSUME NEW o \in Orders, NEW source \in Orders, MergeOrdersReads(w, o, source)
      PROVE  BillSound
  <2> DEFINE t == IF order[source].table = order[o].table THEN None ELSE order[source].table
             r == [Idle EXCEPT !.op = "mergeOrders", !.order = o, !.source = source, !.table = t]
  <2>1. r.op = "mergeOrders" /\ r.order = o /\ r.source = source
    BY DEF Idle
  <2>2. Start(w, r) /\ Unpaid(o, order) /\ Unpaid(source, order) /\ o # source
    BY <1>8 DEF MergeOrdersReads, Editable, NoPayments, Unpaid
  <2> HIDE DEF r
  <2>3. Current(r, order, line, kot)
    BY <2>1, <2>2 DEF Current
  <2> QED
    BY <2>2, <2>3, BillStarts
<1>9. ASSUME NEW o \in Orders, NEW amount, CheckoutReads(w, o, amount)
      PROVE  BillSound
  <2>1. PICK due, full, locked, t :
            /\ Start(w, CheckoutReq(o, amount, due, full, locked, t))
            /\ full = (amount = Balance(o)) /\ locked = ~ NoPayments(o)
    BY <1>9 DEF CheckoutReads, CheckoutReq
  <2>2. amount = 0 => Balance(o) = 0
    BY <1>9 DEF CheckoutReads
  <2>3. PICK r : r = CheckoutReq(o, amount, due, full, locked, t)
    OBVIOUS
  <2>4. r.op = "checkout" /\ r.order = o /\ r.amount = amount /\ r.flag = full /\ r.locked = locked
    BY <2>3 DEF CheckoutReq, Idle
  <2>5. Current(r, order, line, kot)
    BY <2>1, <2>2, <2>4 DEF Current, NoPayments
  <2> QED
    BY <2>1, <2>3, <2>5, BillStarts
<1>10. ASSUME NEW k \in Kots, UpdateKotStatusReads(w, k)
       PROVE  BillSound
  <2> DEFINE r == [Idle EXCEPT !.op = "updateKotStatus", !.kot = k, !.seen = kot[k].status]
  <2>1. r.op = "updateKotStatus"
    BY DEF Idle
  <2>2. Start(w, r)
    BY <1>10 DEF UpdateKotStatusReads
  <2> HIDE DEF r
  <2> QED
    BY <1>1, <2>1, <2>2
<1>11. ASSUME NEW k \in Kots, RejectKotReads(w, k)
       PROVE  BillSound
  <2>1. PICK o, live, t :
            /\ Start(w, RejectReq(o, k, kot[k].status, live, kot[k].lines, t))
            /\ o = kot[k].order /\ live = OtherLiveTicket(o, k)
    BY <1>11 DEF RejectKotReads, RejectReq
  <2>2. PICK r : r = RejectReq(o, k, kot[k].status, live, kot[k].lines, t)
    OBVIOUS
  <2>3. /\ r.op = "rejectKot" /\ r.order = o /\ r.kot = k /\ r.lines = kot[k].lines /\ r.flag = live
    BY <2>2 DEF RejectReq, Idle
  <2>4. Unpaid(o, order)
    BY <1>11, <2>1 DEF RejectKotReads, Editable, NoPayments, Unpaid, KOT_REJECTABLE,
                       Inv, TicketsHaveOrders
  <2>5. \A l \in kot[k].lines : line[l].order = o
    BY <2>1, <2>4 DEF BillInv, BillRows, OnOpenBill, Unpaid
  <2>6. live => \E j \in Kots \ {k} : /\ kot[j].order = o
                                      /\ kot[j].status \notin KOT_VOID_STATUSES \cup {"NONE"}
    BY <2>1, <2>4, OrdersAssumption
       DEF OtherLiveTicket, KotsOf, BillInv, BillRows, RowsFit, Unpaid
  <2>7. Current(r, order, line, kot)
    BY <2>1, <2>3, <2>4, <2>5, <2>6 DEF Current
  <2> QED
    BY <2>1, <2>2, <2>7, BillStarts
<1> QED
  BY <1>2, <1>3, <1>4, <1>5, <1>6, <1>7, <1>8, <1>9, <1>10, <1>11 DEF Reads

LEMMA TicketsAppear ==
    ASSUME Inv, BillRows, NEW o \in Orders, NEW ls \in SUBSET Lines, GenerateKots(o, ls),
           order'[o].status # "NONE",
           order'[o].status = "OPEN" => \A l \in ls : line'[l].order = o
    PROVE  \A k \in Kots : TicketStays(k) \/ TicketAppears(k)
<1> DEFINE stations == {StationOf[l] : l \in ls}
<1>1. PICK f \in [stations -> {k \in Kots : kot[k].status = "NONE"}] :
          kot' = [k \in Kots |->
                IF \E s \in stations : f[s] = k
                THEN [status |-> "NEW", order |-> o, lines |-> {l \in ls : f[StationOf[l]] = k}]
                ELSE kot[k]]
  BY DEF GenerateKots
<1>2. ASSUME NEW k \in Kots, ~ \E s \in stations : f[s] = k
      PROVE  TicketStays(k)
  <2>1. kot'[k] = kot[k]
    BY <1>1, <1>2
  <2> QED
    BY <2>1 DEF TicketStays
<1>3. ASSUME NEW k \in Kots, NEW s \in stations, f[s] = k
      PROVE  TicketAppears(k)
  <2>1. kot'[k] = [status |-> "NEW", order |-> o, lines |-> {l \in ls : f[StationOf[l]] = k}]
    BY <1>1, <1>3
  <2>2. kot[k].status = "NONE"
    BY <1>3
  <2> QED
    BY <2>1, <2>2 DEF TicketAppears
<1> QED
  BY <1>2, <1>3

LEMMA SameTicketsStay ==
    ASSUME UNCHANGED kot
    PROVE  \A k \in Kots : TicketStays(k)
  BY DEF TicketStays

\* The row of order o becomes new; the others stay.
LEMMA OneOrderMoves ==
    ASSUME Inv, NEW o \in Orders, NEW new, order' = [order EXCEPT ![o] = new],
           order[o].status # "NONE" => new.status # "NONE",
           new.status = "OPEN" => order[o].status \in {"OPEN", "NONE"}
    PROVE  \A x \in Orders : StatusMoves(x) /\ (x # o => order'[x] = order[x])
  BY DEF StatusMoves, Inv, TypeOK

LEMMA NewTotal ==
    ASSUME Inv, NEW f, NEW o \in Orders, order' = RecomputeTotals(f, o)
    PROVE  /\ \A x \in Orders : StatusMoves(x) /\ (x # o => order'[x] = order[x])
           /\ order'[o].total = Subtotal(f, o)
           /\ order'[o].status = order[o].status
<1>1. PICK n : n = Subtotal(f, o) /\ order' = [order EXCEPT ![o].total = n]
  BY DEF RecomputeTotals
<1> QED
  BY <1>1 DEF StatusMoves, Inv, TypeOK, OrderRow

LEMMA OthersKeepBills ==
    ASSUME NEW o, \A x \in Orders : x # o => order'[x] = order[x],
           \A l \in Lines : line'[l] = line[l] \/ (line[l].order \in {o, None} /\ line'[l].order \in {o, None}),
           o \in Orders => BillKept(o) \/ BillRedone(o) \/ BillPaid(o) \/ BillLeft(o)
    PROVE  BillMoves
<1> SUFFICES ASSUME NEW x \in Orders, x # o
             PROVE  BillKept(x)
  BY DEF BillMoves
<1>1. x # None
  BY OrdersAssumption
<1>2. SameUnits(x)
  BY <1>1 DEF SameUnits
<1> QED
  BY <1>2 DEF BillKept

LEMMA CurrentFacts ==
    ASSUME Inv, BillInv, NEW w \in Workers
    PROVE  Current(req[w], order, line, kot) /\ Justified(req[w], order) /\ req[w] \in Request
  BY DEF Inv, RequestsOK, TypeOK, BillInv

LEMMA AddItemsKeepsBills ==
    ASSUME OneAtATime, Inv, Inv', BillInv, NEW w \in Workers, NEW ls \in FreshLines,
           NEW q \in 1 .. MaxQty, AddItemsCommits(w, ls, q)
    PROVE  BillSound
<1>1. PICK o \in Orders : o = req[w].order /\ Unpaid(o, order) /\ req[w].amount = Subtotal(line, o)
  BY CurrentFacts DEF AddItemsCommits, Current, Unpaid
<1>2. ls \in SUBSET Lines /\ \A l \in ls : line[l].state = "FREE" /\ line[l].order = None
  BY DEF FreshLines, BillInv, BillRows, RowsFit
<1>3. PICK n : n = req[w].amount + q * Cardinality(ls) /\ order' = [order EXCEPT ![o].total = n]
  BY <1>1 DEF AddItemsCommits
<1>4. line' = AddLines(o, ls, q) /\ GenerateKots(o, ls) /\ Finish(w)
  BY <1>1 DEF AddItemsCommits
<1>5. n = Subtotal(line', o)
  <2>1. \A l \in ls : line[l].order # o
    BY <1>2, OrdersAssumption
  <2> QED
    BY <1>1, <1>2, <1>3, <1>4, <2>1, AddedUnits
<1>6. /\ \A x \in Orders : StatusMoves(x) /\ (x # o => order'[x] = order[x])
      /\ order'[o].status = "OPEN" /\ order'[o].total = n
  BY <1>1, <1>3 DEF StatusMoves, Inv, TypeOK, OrderRow, Unpaid
<1>7. \A l \in Lines : LineKept(l) \/ LineAdded(l)
  BY <1>2, <1>4, OrdersAssumption DEF AddLines, LineKept, LineAdded
<1>8. \A l \in Lines : line'[l] = line[l] \/ (line[l].order \in {o, None} /\ line'[l].order \in {o, None})
  BY <1>2, <1>4 DEF AddLines
<1>9. \A l \in ls : line'[l].order = o
  BY <1>2, <1>4 DEF AddLines
<1>10. BillStep
  <2>1. \A k \in Kots : TicketStays(k) \/ TicketAppears(k)
    BY <1>2, <1>4, <1>6, <1>9, TicketsAppear DEF BillInv
  <2> QED
    BY <1>6, <1>7, <2>1 DEF BillStep
<1>11. BillRedone(o)
  BY <1>1, <1>5, <1>6 DEF BillRedone
<1> QED
  BY <1>4, <1>6, <1>8, <1>10, <1>11, OthersKeepBills, BillEnds

LEMMA AcceptKeepsBills ==
    ASSUME OneAtATime, Inv, Inv', BillInv, NEW w \in Workers, AcceptOrderCommits(w)
    PROVE  BillSound
<1>1. CASE Rollback(w)
  BY <1>1, BillRollsBack
<1>2. CASE ~ Rollback(w)
  <2>1. PICK o \in Orders, ls \in SUBSET Lines :
            o = req[w].order /\ ls = req[w].lines /\ \A l \in ls : line[l].order = o
    BY CurrentFacts DEF AcceptOrderCommits, Current, Justified, Request
  <2>2. /\ order[o].status = "OPEN"
        /\ order' = [order EXCEPT ![o].acceptance = "ACCEPTED"]
        /\ kot' = kot \/ GenerateKots(o, ls)
        /\ Finish(w) /\ UNCHANGED line
    BY <1>2, <2>1 DEF AcceptOrderCommits, WaitingForAnswer
  <2>3. \A x \in Orders : /\ order'[x].status = order[x].status
                          /\ order'[x].total = order[x].total /\ order'[x].paid = order[x].paid
    BY <2>2 DEF Inv, TypeOK, OrderRow
  <2>4. \A k \in Kots : TicketStays(k) \/ TicketAppears(k)
    <3>1. CASE kot' = kot
      BY <3>1, SameTicketsStay
    <3>2. CASE GenerateKots(o, ls)
      BY <2>1, <2>2, <2>3, <3>2, TicketsAppear DEF BillInv
    <3> QED
      BY <2>2, <3>1, <3>2
  <2>5. BillStep
    BY <2>2, <2>3, <2>4 DEF BillStep, LineKept, StatusMoves
  <2>6. BillMoves
    BY <2>2, <2>3 DEF BillMoves, BillKept, SameUnits
  <2> QED
    BY <2>2, <2>5, <2>6, BillEnds
<1> QED
  BY <1>1, <1>2

LEMMA WithdrawKeepsBills ==
    ASSUME OneAtATime, Inv, Inv', BillInv, NEW w \in Workers, WithdrawOrderCommits(w)
    PROVE  BillSound
<1>1. CASE Rollback(w)
  BY <1>1, BillRollsBack
<1>2. CASE ~ Rollback(w)
  <2>1. PICK o \in Orders : o = req[w].order
    BY CurrentFacts DEF WithdrawOrderCommits, Justified
  <2>2. PICK answer : order' = [order EXCEPT ![o].status = "CANCELLED", ![o].acceptance = answer]
    BY <1>2, <2>1 DEF WithdrawOrderCommits
  <2>3. /\ kot' = [k \in Kots |->
                    IF /\ kot[k].order = o
                       /\ kot[k].status \notin KOT_VOID_STATUSES \cup {"SERVED"}
                    THEN [kot[k] EXCEPT !.status = "CANCELLED"]
                    ELSE kot[k]]
        /\ Finish(w) /\ UNCHANGED line
    BY <1>2, <2>1 DEF WithdrawOrderCommits
  <2>4. \A x \in Orders : /\ StatusMoves(x)
                          /\ order'[x].total = order[x].total /\ order'[x].paid = order[x].paid
                          /\ order'[x].status \in {order[x].status, "CANCELLED"}
    BY <2>2 DEF StatusMoves, Inv, TypeOK, OrderRow
  <2>5. ASSUME NEW k \in Kots
        PROVE  TicketStays(k)
    <3>1. kot[k].order = o => kot[k].status # "NONE"
      BY OrdersAssumption DEF BillInv, BillRows, RowsFit
    <3>2. /\ kot'[k].order = kot[k].order /\ kot'[k].lines = kot[k].lines
          /\ \/ kot'[k].status = kot[k].status
             \/ kot'[k].status = "CANCELLED" /\ kot[k].status # "NONE"
      BY <2>3, <3>1 DEF Inv, TypeOK, KotRow
    <3> QED
      BY <3>2 DEF TicketStays
  <2>6. BillStep
    BY <2>3, <2>4, <2>5 DEF BillStep, LineKept
  <2>7. BillMoves
    BY <2>3, <2>4 DEF BillMoves, BillKept, SameUnits
  <2> QED
    BY <2>3, <2>6, <2>7, BillEnds
<1> QED
  BY <1>1, <1>2

LEMMA UpdateKeepsBills ==
    ASSUME OneAtATime, Inv, Inv', BillInv, NEW w \in Workers, UpdateOrderCommits(w)
    PROVE  BillSound
<1>1. /\ order' = [order EXCEPT ![req[w].order].table = req[w].to]
      /\ Finish(w) /\ UNCHANGED <<line, kot>>
  BY DEF UpdateOrderCommits
<1>2. \A x \in Orders : /\ order'[x].status = order[x].status
                        /\ order'[x].total = order[x].total /\ order'[x].paid = order[x].paid
  BY <1>1 DEF Inv, TypeOK, OrderRow
<1>3. BillStep
  BY <1>1, <1>2, SameTicketsStay DEF BillStep, LineKept, StatusMoves
<1>4. BillMoves
  BY <1>1, <1>2 DEF BillMoves, BillKept, SameUnits
<1> QED
  BY <1>1, <1>3, <1>4, BillEnds

LEMMA UpdateItemKeepsBills ==
    ASSUME OneAtATime, Inv, Inv', BillInv, NEW w \in Workers, UpdateOrderItemCommits(w)
    PROVE  BillSound
<1>1. CASE Rollback(w)
  BY <1>1, BillRollsBack
<1>2. CASE ~ Rollback(w)
  <2>1. PICK o \in Orders, l \in Lines :
            o = req[w].order /\ l = req[w].line /\ Unpaid(o, order) /\ line[l].order = o
    BY CurrentFacts DEF UpdateOrderItemCommits, Current, Unpaid
  <2>2. /\ line' = [line EXCEPT ![l].qty = req[w].amount]
        /\ order' = RecomputeTotals(line', o)
        /\ Finish(w) /\ UNCHANGED kot
    BY <1>2, <2>1 DEF UpdateOrderItemCommits
  <2>3. \A x \in Lines : /\ LineKept(x)
                         /\ line'[x] = line[x] \/ (line[x].order \in {o, None} /\ line'[x].order \in {o, None})
    BY <2>1, <2>2 DEF LineKept, Inv, TypeOK, LineRow
  <2>4. /\ \A x \in Orders : StatusMoves(x) /\ (x # o => order'[x] = order[x])
        /\ order'[o].total = Subtotal(line', o)
    BY <2>2, NewTotal
  <2>5. BillStep
    BY <2>2, <2>3, <2>4, SameTicketsStay DEF BillStep
  <2>6. BillRedone(o)
    BY <2>1, <2>4 DEF BillRedone
  <2> QED
    BY <2>2, <2>3, <2>4, <2>5, <2>6, OthersKeepBills, BillEnds
<1> QED
  BY <1>1, <1>2

LEMMA RemoveKeepsBills ==
    ASSUME OneAtATime, Inv, Inv', BillInv, NEW w \in Workers, RemoveOrderItemCommits(w)
    PROVE  BillSound
<1>1. CASE Rollback(w)
  BY <1>1, BillRollsBack
<1>2. CASE ~ Rollback(w)
  <2>1. PICK o \in Orders, l \in Lines :
            o = req[w].order /\ l = req[w].line /\ Unpaid(o, order) /\ line[l].order = o
    BY CurrentFacts DEF RemoveOrderItemCommits, Current, Unpaid
  <2>2. /\ line' = DeleteLines({l})
        /\ order' = RecomputeTotals(line', o)
        /\ kot' = [k \in Kots |->
                     [kot[k] EXCEPT
                        !.lines = @ \ {l},
                        !.status = IF /\ kot[k].order = o
                                      /\ kot[k].lines \ {l} = {}
                                   THEN "CANCELLED" ELSE @]]
        /\ Finish(w)
    BY <1>2, <2>1 DEF RemoveOrderItemCommits
  <2>3. \A k \in Kots : /\ kot'[k].order = kot[k].order
                        /\ kot'[k].lines = kot[k].lines \ {l}
                        /\ kot'[k].status = IF kot[k].order = o /\ kot[k].lines \ {l} = {}
                                            THEN "CANCELLED" ELSE kot[k].status
    BY <2>2 DEF Inv, TypeOK, KotRow
  <2>4. \A x \in Lines : /\ LineKept(x) \/ LineGone(x)
                         /\ line'[x] = line[x] \/ (line[x].order \in {o, None} /\ line'[x].order \in {o, None})
    BY <2>1, <2>2, <2>3 DEF DeleteLines, LineKept, LineGone
  <2>5. \A k \in Kots : TicketStays(k)
    BY <2>3, OrdersAssumption DEF TicketStays, BillInv, BillRows, RowsFit
  <2>6. /\ \A x \in Orders : StatusMoves(x) /\ (x # o => order'[x] = order[x])
        /\ order'[o].total = Subtotal(line', o)
    BY <2>2, NewTotal
  <2>7. BillStep
    BY <2>4, <2>5, <2>6 DEF BillStep
  <2>8. BillRedone(o)
    BY <2>1, <2>6 DEF BillRedone
  <2> QED
    BY <2>2, <2>4, <2>6, <2>7, <2>8, OthersKeepBills, BillEnds
<1> QED
  BY <1>1, <1>2

LEMMA CheckoutKeepsBills ==
    ASSUME OneAtATime, Inv, Inv', BillInv, NEW w \in Workers, CheckoutCommits(w)
    PROVE  BillSound
<1>1. CASE Rollback(w)
  BY <1>1, BillRollsBack
<1>2. CASE ~ Rollback(w)
  <2>1. PICK o \in Orders : o = req[w].order
    BY CurrentFacts DEF CheckoutCommits, Justified
  <2>2. /\ req[w].locked <=> order[o].paid # 0
        /\ req[w].amount = 0 => req[w].flag
        /\ req[w].amount \in Nat
    BY <2>1, CurrentFacts DEF CheckoutCommits, Current, Request
  <2>3. PICK n : n = order[o].paid + req[w].amount
    OBVIOUS
  <2>4. PICK d : d = IF req[w].locked THEN order[o].total ELSE req[w].due
    OBVIOUS
  <2>5. PICK st : st = IF req[w].flag THEN "PAID" ELSE order[o].status
    OBVIOUS
  <2>6. /\ order' = [order EXCEPT ![o].paid = n, ![o].total = d, ![o].status = st]
        /\ order[o].status = "OPEN"
        /\ Finish(w) /\ UNCHANGED <<line, kot>>
    BY <1>2, <2>1, <2>3, <2>4, <2>5 DEF CheckoutCommits, StillOpen
  <2>7. /\ \A x \in Orders : StatusMoves(x) /\ (x # o => order'[x] = order[x])
        /\ order'[o].total = d /\ order'[o].paid = n /\ order'[o].status = st
    BY <2>5, <2>6 DEF StatusMoves, Inv, TypeOK, OrderRow
  <2>8. order[o].paid \in Nat
    BY DEF Inv, TypeOK, OrderRow
  <2>9. BillPaid(o)
    <3>1. order[o].paid > 0 => d = order[o].total
      BY <2>2, <2>4, <2>8
    <3>2. st = "OPEN" => n > 0
      <4>1. st = "OPEN" => req[w].amount # 0
        BY <2>2, <2>5
      <4> QED
        BY <2>2, <2>3, <2>8, <4>1
    <3> QED
      BY <2>6, <2>7, <3>1, <3>2 DEF BillPaid, SameUnits
  <2>10. BillStep
    BY <2>6, <2>7, SameTicketsStay DEF BillStep, LineKept
  <2> QED
    BY <2>6, <2>7, <2>9, <2>10, OthersKeepBills, BillEnds
<1> QED
  BY <1>1, <1>2

LEMMA UpdateKotKeepsBills ==
    ASSUME OneAtATime, Inv, Inv', BillInv, NEW w \in Workers, UpdateKotStatusCommits(w)
    PROVE  BillSound
<1>1. CASE Rollback(w)
  BY <1>1, BillRollsBack
<1>2. CASE ~ Rollback(w)
  <2>1. PICK k, seen, next :
            /\ k = req[w].kot /\ seen = req[w].seen /\ seen \in DOMAIN KOT_NEXT_STATUS
            /\ next = KOT_NEXT_STATUS[seen]
    BY CurrentFacts DEF UpdateKotStatusCommits, Justified
  <2>2. seen # "NONE" /\ next \notin {"NONE", "REJECTED"}
    BY <2>1 DEF KOT_NEXT_STATUS
  <2>3. /\ kot[k].status = seen
        /\ kot' = [kot EXCEPT ![k].status = next]
        /\ Finish(w) /\ UNCHANGED <<order, line>>
    BY <1>2, <2>1 DEF UpdateKotStatusCommits, KotAsSeen
  <2>4. \A x \in Kots : TicketStays(x)
    BY <2>2, <2>3 DEF TicketStays, Inv, TypeOK, KotRow
  <2>5. BillStep
    BY <2>3, <2>4 DEF BillStep, LineKept, StatusMoves
  <2>6. BillMoves
    BY <2>3 DEF BillMoves, BillKept, SameUnits
  <2> QED
    BY <2>3, <2>5, <2>6, BillEnds
<1> QED
  BY <1>1, <1>2

LEMMA RejectKotKeepsBills ==
    ASSUME OneAtATime, Inv, Inv', BillInv, NEW w \in Workers, RejectKotCommits(w)
    PROVE  BillSound
<1>1. CASE Rollback(w)
  BY <1>1, BillRollsBack
<1>2. CASE ~ Rollback(w)
  <2>1. req[w].op = "rejectKot"
    BY DEF RejectKotCommits
  <2>2. PICK o \in Orders, k \in Kots \cup {None}, ls \in SUBSET Lines :
            /\ o = req[w].order /\ k = req[w].kot /\ ls = req[w].lines
            /\ Unpaid(o, order) /\ kot[k].order = o
            /\ \A l \in ls : line[l].order = o
            /\ req[w].flag => \E j \in Kots \ {k} :
                          /\ kot[j].order = o
                          /\ kot[j].status \notin KOT_VOID_STATUSES \cup {"NONE"}
    BY <2>1, CurrentFacts DEF Current, Unpaid, Inv, TypeOK, Request
  <2>3. PICK gone : gone = IF req[w].flag THEN ls ELSE {}
    OBVIOUS
  <2>4. /\ kot[k].status # "NONE"
        /\ kot' = [j \in Kots |->
                     [kot[j] EXCEPT
                        !.status = IF j = k THEN "REJECTED" ELSE @,
                        !.lines = IF req[w].flag THEN @ \ ls ELSE @]]
        /\ Finish(w)
    BY <1>2, <2>1, <2>2, CurrentFacts DEF RejectKotCommits, KotAsSeen, Justified
  <2>5. \A l \in Lines : line'[l] = IF l \in gone THEN [state |-> "DELETED", order |-> None, qty |-> 0]
                                    ELSE line[l]
    BY <1>2, <2>2, <2>3 DEF RejectKotCommits, DeleteLines
  <2>6. \A j \in Kots : /\ kot'[j].order = kot[j].order
                        /\ kot'[j].lines = kot[j].lines \ gone
                        /\ kot'[j].status = IF j = k THEN "REJECTED" ELSE kot[j].status
    BY <2>3, <2>4 DEF Inv, TypeOK, KotRow
  <2>7. \A l \in Lines : /\ LineKept(l) \/ LineGone(l)
                         /\ line'[l] = line[l] \/ (line[l].order \in {o, None} /\ line'[l].order \in {o, None})
    BY <2>2, <2>3, <2>5, <2>6 DEF LineKept, LineGone
  <2>8. /\ \A x \in Orders : StatusMoves(x) /\ (x # o => order'[x] = order[x])
        /\ BillKept(o) \/ BillRedone(o)
        /\ ~ req[w].flag => order'[o].status # "OPEN"
    <3>1. CASE ~ req[w].flag
      <4>1. order' = [order EXCEPT ![o].status = "CANCELLED"]
        BY <1>2, <2>2, <3>1 DEF RejectKotCommits
      <4>2. SameUnits(o)
        BY <2>3, <2>5, <3>1 DEF SameUnits
      <4> QED
        BY <4>1, <4>2 DEF StatusMoves, BillKept, Inv, TypeOK, OrderRow
    <3>2. CASE req[w].flag /\ ls # {}
      <4>1. order' = RecomputeTotals(line', o)
        BY <1>2, <2>2, <3>2 DEF RejectKotCommits
      <4> QED
        BY <2>2, <3>2, <4>1, NewTotal DEF BillRedone
    <3>3. CASE req[w].flag /\ ls = {}
      <4>1. order' = order
        BY <1>2, <2>2, <3>3 DEF RejectKotCommits
      <4>2. SameUnits(o)
        BY <2>3, <2>5, <3>3 DEF SameUnits
      <4> QED
        BY <3>3, <4>1, <4>2 DEF StatusMoves, BillKept
    <3> QED
      BY <3>1, <3>2, <3>3
  <2>9. ASSUME NEW j \in Kots
        PROVE  TicketStays(j)
    <3>1. CASE j # k
      BY <2>6, <3>1 DEF TicketStays
    <3>2. j = k => /\ kot[j].order = o /\ kot'[j].order = o /\ kot[j].status # "NONE"
                   /\ kot'[j].status = "REJECTED" /\ kot'[j].lines \subseteq kot[j].lines
      BY <2>2, <2>4, <2>6
    <3>3. CASE j = k /\ req[w].flag
      <4>1. PICK i \in Kots \ {k} : kot[i].order = o /\ kot[i].status \notin KOT_VOID_STATUSES \cup {"NONE"}
        BY <2>2, <3>3
      <4>2. kot'[i].order = o /\ kot'[i].status # "REJECTED"
        BY <2>6, <4>1 DEF KOT_VOID_STATUSES
      <4> QED
        BY <3>3, <3>2, <4>2 DEF TicketStays
    <3>4. CASE j = k /\ ~ req[w].flag
      BY <2>8, <3>4, <3>2 DEF TicketStays
    <3> QED
      BY <3>1, <3>3, <3>4
  <2>10. BillStep
    BY <2>7, <2>8, <2>9 DEF BillStep
  <2> QED
    BY <2>4, <2>7, <2>8, <2>10, OthersKeepBills, BillEnds
<1> QED
  BY <1>1, <1>2

\* Both orders of a merge are open and unpaid: lines and tickets of the source
\* go to the target, whose total is that of all of them.
LEMMA MergeKeepsBills ==
    ASSUME OneAtATime, Inv, Inv', BillInv, NEW w \in Workers, MergeOrdersCommits(w)
    PROVE  BillSound
<1>1. PICK o \in Orders, source \in Orders :
          /\ o = req[w].order /\ source = req[w].source /\ o # source
          /\ Unpaid(o, order) /\ Unpaid(source, order)
  BY CurrentFacts DEF MergeOrdersCommits, Current, Unpaid
<1>2. /\ line' = [l \in Lines |-> IF line[l].order = source
                                  THEN [line[l] EXCEPT !.order = o]
                                  ELSE line[l]]
      /\ kot' = [k \in Kots |-> IF kot[k].order = source
                                THEN [kot[k] EXCEPT !.order = o]
                                ELSE kot[k]]
      /\ order' = [RecomputeTotals(line', o) EXCEPT ![source].status = "CANCELLED"]
      /\ Finish(w)
  BY <1>1 DEF MergeOrdersCommits
<1>3. \A l \in Lines : /\ line'[l].order = IF line[l].order = source THEN o ELSE line[l].order
                       /\ line'[l].state = line[l].state /\ line'[l].qty = line[l].qty
  BY <1>2 DEF Inv, TypeOK, LineRow
<1>4. \A k \in Kots : /\ kot'[k].order = IF kot[k].order = source THEN o ELSE kot[k].order
                      /\ kot'[k].status = kot[k].status /\ kot'[k].lines = kot[k].lines
  BY <1>2 DEF Inv, TypeOK, KotRow
<1>5. /\ \A x \in Orders \ {o, source} : order'[x] = order[x]
      /\ order'[o].status = "OPEN" /\ order'[o].total = Subtotal(line', o)
      /\ order'[source].status = "CANCELLED"
  <2>1. PICK n : n = Subtotal(line', o) /\ RecomputeTotals(line', o) = [order EXCEPT ![o].total = n]
    BY DEF RecomputeTotals
  <2>2. order' = [[order EXCEPT ![o].total = n] EXCEPT ![source].status = "CANCELLED"]
    BY <1>2, <2>1
  <2> QED
    BY <1>1, <2>1, <2>2 DEF Inv, TypeOK, OrderRow, Unpaid
<1>6. RowsFit /\ OnOpenBill /\ None \notin Orders
  BY OrdersAssumption DEF BillInv, BillRows
<1>7. BillRows'
  <2>1. RowsFit'
    <3>1. \A l \in Lines : line'[l].state = "ON_BILL" <=> line'[l].order # None
      BY <1>3, <1>6 DEF RowsFit
    <3>2. \A k \in Kots : kot'[k].status = "NONE" => kot'[k].order = None /\ kot'[k].lines = {}
      BY <1>4, <1>6 DEF RowsFit
    <3>3. \A k \in Kots : kot'[k].status # "NONE" => order'[kot'[k].order].status # "NONE"
      <4>1. \A k \in Kots : kot[k].status # "NONE" =>
                kot[k].order \in Orders /\ order[kot[k].order].status # "NONE"
        BY <1>6 DEF RowsFit, Inv, TicketsHaveOrders
      <4> QED
        BY <1>4, <1>5, <4>1
    <3> QED
      BY <3>1, <3>2, <3>3 DEF RowsFit
  <2>2. OnOpenBill'
    <3> SUFFICES ASSUME NEW k \in Kots, order'[kot'[k].order].status = "OPEN", NEW l \in kot'[k].lines
                 PROVE  line'[l].order = kot'[k].order
      BY DEF OnOpenBill
    <3>1. l \in kot[k].lines /\ l \in Lines /\ kot[k].order \in Orders
      BY <1>4, <1>6 DEF Inv, TypeOK, KotRow, RowsFit, TicketsHaveOrders
    <3>2. order[kot[k].order].status = "OPEN"
      BY <1>1, <1>4, <1>5, <3>1 DEF Unpaid
    <3>3. line[l].order = kot[k].order
      BY <1>6, <3>1, <3>2 DEF OnOpenBill
    <3> QED
      BY <1>3, <1>4, <3>1, <3>3
  <2>3. RefusedOrderIsWithdrawn'
    <3> SUFFICES ASSUME NEW x \in Orders, order'[x].status = "OPEN", NEW k \in Kots, kot'[k].order = x
                 PROVE  \E j \in Kots : kot'[j].order = x /\ kot'[j].status # "REJECTED"
      BY DEF RefusedOrderIsWithdrawn, KotsOf
    <3>1. kot[k].status # "NONE"
      BY <1>4, <1>6 DEF RowsFit
    <3>2. PICK y \in Orders : y = kot[k].order /\ order[y].status = "OPEN"
      BY <1>1, <1>4, <1>5, <3>1 DEF Unpaid, Inv, TicketsHaveOrders
    <3>3. PICK j \in Kots : kot[j].order = y /\ kot[j].status # "REJECTED"
      BY <3>2 DEF BillInv, BillRows, RefusedOrderIsWithdrawn, KotsOf
    <3> QED
      BY <1>4, <3>2, <3>3
  <2> QED
    BY <2>1, <2>2, <2>3 DEF BillRows
<1>8. BillMoves
  <2>1. BillRedone(o) /\ BillLeft(source)
    BY <1>1, <1>5 DEF BillRedone, BillLeft
  <2>2. ASSUME NEW x \in Orders \ {o, source}
        PROVE  BillKept(x)
    <3>1. SameUnits(x)
      BY <1>3 DEF SameUnits
    <3> QED
      BY <1>5, <3>1 DEF BillKept
  <2> QED
    BY <2>1, <2>2 DEF BillMoves
<1>9. ASSUME NEW c \in Crons
      PROVE  ReadAsDue(req'[c].queue, order', line')
  <2>1. req'[c] = req[c]
    BY <1>2, OrdersAssumption DEF Finish, Inv, TypeOK
  <2>2. PICK q : q = req[c].queue
    OBVIOUS
  <2>3. q \in SUBSET (Orders \X SUBSET Lines) /\ ReadAsDue(q, order, line)
    BY <2>2 DEF Inv, TypeOK, Request, BillInv
  <2>4. ASSUME NEW e \in q
        PROVE  /\ order'[e[1]].status # "NONE"
               /\ \A l \in e[2] : /\ line'[l].state # "FREE"
                                  /\ order'[e[1]].status = "OPEN" => line'[l].order \in {e[1], None}
    <3>1. PICK x \in Orders, ls \in SUBSET Lines : e[1] = x /\ e[2] = ls
      BY <2>3
    <3>2. /\ order[x].status # "NONE"
          /\ \A l \in ls : /\ line[l].state # "FREE"
                           /\ order[x].status = "OPEN" => line[l].order \in {x, None}
      BY <2>3, <3>1 DEF ReadAsDue
    <3>3. order'[x].status # "NONE"
      BY <1>5, <3>2
    <3>4. order'[x].status = "OPEN" => x # source /\ order[x].status = "OPEN"
      BY <1>1, <1>5 DEF Unpaid
    <3>5. \A l \in ls : /\ line'[l].state # "FREE"
                        /\ order'[x].status = "OPEN" => line'[l].order \in {x, None}
      BY <1>3, <1>6, <3>2, <3>4
    <3> QED
      BY <3>1, <3>3, <3>5
  <2>5. ReadAsDue(q, order', line')
    BY <2>4 DEF ReadAsDue
  <2> QED
    BY <2>1, <2>2, <2>5
<1>10. \A v \in Workers : Current(req'[v], order', line', kot')
  <2>1. \A v \in Workers : req'[v] = Idle
    BY <1>2 DEF Finish, OneAtATime, Inv, TypeOK
  <2> QED
    BY <2>1, IdleIsCurrent
<1> QED
  BY <1>7, <1>8, <1>9, <1>10 DEF BillSound

LEMMA CommitsKeepBills ==
    ASSUME OneAtATime, Inv, Inv', BillInv, NEW w \in Workers, Commits(w)
    PROVE  BillSound
  BY AddItemsKeepsBills, AcceptKeepsBills, WithdrawKeepsBills, UpdateKeepsBills,
     UpdateItemKeepsBills, RemoveKeepsBills, MergeKeepsBills, CheckoutKeepsBills,
     UpdateKotKeepsBills, RejectKotKeepsBills DEF Commits

LEMMA CreateKeepsBills ==
    ASSUME OneAtATime, Inv, Inv', BillInv, NEW w \in Workers, NEW o \in Orders, NEW t, NEW acc,
           NEW sch, NEW past, NEW ls \in FreshLines, NEW q, CreateOrder(w, o, t, acc, sch, past, ls, q)
    PROVE  BillSound
<1>1. ls \in SUBSET Lines /\ \A l \in ls : line[l].state = "FREE" /\ line[l].order = None
  BY DEF FreshLines, BillInv, BillRows, RowsFit
<1>2. PICK n : /\ n = Subtotal(line', o)
               /\ order' = [order EXCEPT ![o] =
                    [status |-> "OPEN", acceptance |-> acc, table |-> t,
                     sched |-> sch, total |-> n, paid |-> 0]]
  BY DEF CreateOrder
<1>3. /\ order[o].status = "NONE"
      /\ line' = AddLines(o, ls, q)
      /\ kot' = kot \/ GenerateKots(o, ls)
      /\ UNCHANGED req /\ req[w] = Idle
  BY DEF CreateOrder
<1>4. /\ \A x \in Orders : StatusMoves(x) /\ (x # o => order'[x] = order[x])
      /\ order'[o].status = "OPEN" /\ order'[o].total = n
  BY <1>2, <1>3 DEF StatusMoves, Inv, TypeOK
<1>5. \A l \in Lines : LineKept(l) \/ LineAdded(l)
  BY <1>1, <1>3, OrdersAssumption DEF AddLines, LineKept, LineAdded
<1>6. \A l \in Lines : line'[l] = line[l] \/ (line[l].order \in {o, None} /\ line'[l].order \in {o, None})
  BY <1>1, <1>3 DEF AddLines
<1>7. \A k \in Kots : TicketStays(k) \/ TicketAppears(k)
  <2>1. CASE kot' = kot
    BY <2>1, SameTicketsStay
  <2>2. CASE GenerateKots(o, ls)
    <3>1. \A l \in ls : line'[l].order = o
      BY <1>1, <1>3 DEF AddLines
    <3> QED
      BY <1>1, <1>4, <2>2, <3>1, TicketsAppear DEF BillInv
  <2> QED
    BY <1>3, <2>1, <2>2
<1>8. BillStep
  BY <1>4, <1>5, <1>7 DEF BillStep
<1>9. BillRedone(o)
  BY <1>2, <1>3, <1>4 DEF BillRedone
<1>10. BillMoves
  BY <1>4, <1>6, <1>9, OthersKeepBills
<1>11. req' = [req EXCEPT ![w] = Idle]
  BY <1>3 DEF Inv, TypeOK
<1> QED
  BY <1>8, <1>10, <1>11, OneBillMoves, IdleIsCurrent

LEMMA CountKeepsBills ==
    ASSUME OneAtATime, Inv, Inv', BillInv, NEW w \in Workers, CountOpenBills(w)
    PROVE  BillSound
<1>1. PICK answer : req' = [req EXCEPT ![w].idle = answer]
  BY DEF CountOpenBills
<1>2. PICK r : r = [req[w] EXCEPT !.idle = answer]
  OBVIOUS
<1>3. req' = [req EXCEPT ![w] = r] /\ UNCHANGED <<order, line, kot>>
  BY <1>1, <1>2 DEF CountOpenBills, rows
<1>4. /\ r.op = req[w].op /\ r.order = req[w].order /\ r.line = req[w].line
      /\ r.lines = req[w].lines /\ r.kot = req[w].kot /\ r.source = req[w].source
      /\ r.amount = req[w].amount /\ r.flag = req[w].flag /\ r.locked = req[w].locked
  BY <1>2, CurrentFacts DEF Request
<1>5. Current(r, order, line, kot)
  BY <1>4, CurrentFacts DEF Current
<1>6. Current(r, order', line', kot')
  BY <1>3, <1>5
<1> QED
  BY <1>3, <1>6, OneBillMoves, SameRowsSameBills DEF CountOpenBills

\* The job and the clock leave what a request remembers as it is.
LEMMA CurrentLasts ==
    ASSUME Inv, BillRows, UNCHANGED line, NEW r, Current(r, order, line, kot),
           \A x \in Orders : order'[x].status = order[x].status /\ order'[x].paid = order[x].paid,
           \A k \in Kots : kot[k].status = "NONE" \/ kot'[k] = kot[k],
           r.op = "checkout" => r.order \in Orders
    PROVE  Current(r, order', line', kot')
<1>1. \A x : Unpaid(x, order) => Unpaid(x, order')
  BY DEF Unpaid
<1>2. \A k \in Kots : kot[k].order \in Orders => kot'[k] = kot[k]
  BY OrdersAssumption DEF BillRows, RowsFit
<1>3. ASSUME r.op = "rejectKot"
      PROVE  /\ kot'[r.kot].order = r.order
             /\ r.flag => \E j \in Kots \ {r.kot} :
                          /\ kot'[j].order = r.order
                          /\ kot'[j].status \notin KOT_VOID_STATUSES \cup {"NONE"}
  BY <1>2, <1>3 DEF Current, Unpaid
<1> QED
  BY <1>1, <1>3 DEF Current

LEMMA AllCurrentLast ==
    ASSUME Inv, BillInv, UNCHANGED line, NEW w \in Workers, req'[w] = req[w],
           \A x \in Orders : order'[x].status = order[x].status /\ order'[x].paid = order[x].paid,
           \A k \in Kots : kot[k].status = "NONE" \/ kot'[k] = kot[k]
    PROVE  Current(req'[w], order', line', kot')
<1>1. PICK r : r = req[w]
  OBVIOUS
<1>2. Current(r, order, line, kot) /\ (r.op = "checkout" => r.order \in Orders)
  BY <1>1, CurrentFacts DEF Justified
<1>3. Current(r, order', line', kot')
  BY <1>2, CurrentLasts DEF BillInv
<1> QED
  BY <1>1, <1>3

LEMMA TimeKeepsBills ==
    ASSUME Inv, Inv', BillInv, NEW o \in Orders, TimePasses(o)
    PROVE  BillSound
<1>1. /\ order' = [order EXCEPT ![o].sched = "due"]
      /\ UNCHANGED <<line, kot, req>>
  BY DEF TimePasses
<1>2. \A x \in Orders : /\ order'[x].status = order[x].status
                        /\ order'[x].total = order[x].total /\ order'[x].paid = order[x].paid
  BY <1>1 DEF Inv, TypeOK, OrderRow
<1>3. BillStep
  BY <1>1, <1>2, SameTicketsStay DEF BillStep, LineKept, StatusMoves
<1>4. BillMoves
  BY <1>1, <1>2 DEF BillMoves, BillKept, SameUnits
<1>5. BillRows'
  BY <1>3, BillRowsStay DEF BillInv
<1>6. \A c \in Crons : ReadAsDue(req'[c].queue, order', line')
  BY <1>1, <1>3, ListsLast
<1>7. \A w \in Workers : Current(req'[w], order', line', kot')
  BY <1>1, <1>2, AllCurrentLast
<1> QED
  BY <1>4, <1>5, <1>6, <1>7 DEF BillSound

\* The job tickets what is left of an order it read as due, whatever became
\* of the order.
LEMMA ReleaseKeepsBills ==
    ASSUME Inv, Inv', BillInv, NEW c \in Crons, ReleaseReads(c) \/ ReleaseCommits(c)
    PROVE  BillSound
<1>1. \A w \in Workers : req'[w] = req[w]
  <2>1. \A w \in Workers : w # c
    BY OrdersAssumption
  <2> QED
    BY <2>1 DEF ReleaseReads, ReleaseCommits, Rollback, Finish, Inv, TypeOK
<1>2. \A x \in Crons \ {c} : req'[x] = req[x]
  BY DEF ReleaseReads, ReleaseCommits, Rollback, Finish, Inv, TypeOK
<1>3. UNCHANGED <<order, line>>
  BY DEF ReleaseReads, ReleaseCommits, Rollback, rows
<1>4. ReadAsDue(req[c].queue, order, line)
  BY DEF BillInv
<1>5. \A k \in Kots : /\ TicketStays(k) \/ TicketAppears(k)
                      /\ kot[k].status = "NONE" \/ kot'[k] = kot[k]
  <2>1. CASE UNCHANGED kot
    BY <2>1, SameTicketsStay
  <2>2. CASE kot' # kot
    <3>1. PICK e \in req[c].queue : OnBill(e[2]) /\ GenerateKots(e[1], e[2])
      BY <2>2 DEF ReleaseReads, ReleaseCommits, Rollback, rows
    <3>2. PICK o \in Orders, ls \in SUBSET Lines : e[1] = o /\ e[2] = ls
      BY DEF Inv, TypeOK, Request
    <3>3. /\ order[o].status # "NONE"
          /\ \A l \in ls : order[o].status = "OPEN" => line[l].order \in {o, None}
      BY <1>4, <3>2 DEF ReadAsDue
    <3>4. \A l \in ls : line[l].order # None
      BY <3>1, <3>2 DEF OnBill, BillInv, BillRows, RowsFit
    <3>5. order'[o].status # "NONE" /\ (order'[o].status = "OPEN" => \A l \in ls : line'[l].order = o)
      BY <1>3, <3>3, <3>4
    <3>6. GenerateKots(o, ls)
      BY <3>1, <3>2
    <3>7. \A k \in Kots : TicketStays(k) \/ TicketAppears(k)
      BY <3>5, <3>6, TicketsAppear DEF BillInv
    <3>8. \A k \in Kots : kot[k].status = "NONE" \/ kot'[k] = kot[k]
      BY <3>6 DEF GenerateKots
    <3> QED
      BY <3>7, <3>8
  <2> QED
    BY <2>1, <2>2
<1>6. BillStep
  BY <1>3, <1>5 DEF BillStep, LineKept, StatusMoves
<1>7. BillMoves
  BY <1>3 DEF BillMoves, BillKept, SameUnits
<1>8. BillRows'
  BY <1>6, BillRowsStay DEF BillInv
<1>9. \A w \in Workers : Current(req'[w], order', line', kot')
  BY <1>1, <1>3, <1>5, AllCurrentLast
<1>10. ReadAsDue(req'[c].queue, order', line')
  <2>1. CASE ReleaseReads(c)
    <3>1. req'[c].queue = {<<o, LinesOf(o)>> : o \in {x \in Orders : Due(x)}}
      BY <2>1, ListIsWhatIsDue
    <3>2. PICK q : q = {<<o, LinesOf(o)>> : o \in {x \in Orders : Due(x)}}
      OBVIOUS
    <3>3. ASSUME NEW e \in q
          PROVE  /\ order[e[1]].status # "NONE"
                 /\ \A l \in e[2] : /\ line[l].state # "FREE"
                                    /\ order[e[1]].status = "OPEN" => line[l].order \in {e[1], None}
      <4>1. PICK o \in Orders : Due(o) /\ e = <<o, LinesOf(o)>>
        BY <3>2, <3>3
      <4>2. e[1] = o /\ e[2] = LinesOf(o)
        BY <4>1
      <4> QED
        BY <4>1, <4>2, OrdersAssumption DEF Due, LinesOf, BillInv, BillRows, RowsFit
    <3>4. ReadAsDue(q, order, line)
      BY <3>3 DEF ReadAsDue
    <3> QED
      BY <1>3, <3>1, <3>2, <3>4
  <2>2. CASE ReleaseCommits(c)
    <3>1. req'[c].queue \subseteq req[c].queue
      BY <2>2 DEF ReleaseCommits, Rollback, Finish, Inv, TypeOK, Request, Idle
    <3> QED
      BY <1>3, <1>4, <3>1 DEF ReadAsDue
  <2> QED
    BY <2>1, <2>2
<1>11. \A x \in Crons \ {c} : ReadAsDue(req'[x].queue, order', line')
  BY <1>2, <1>6, ListsLast
<1> QED
  BY <1>7, <1>8, <1>9, <1>10, <1>11 DEF BillSound

LEMMA BillsAreSound ==
    ASSUME OneAtATime, Inv, Inv', BillInv, Next
    PROVE  BillSound
<1>1. ASSUME NEW w \in Workers, NEW o \in Orders, NEW t \in Tables \cup {None},
             NEW acc \in {"NOT_REQUIRED", "PENDING", "ACCEPTED"},
             NEW sch \in {"now", "later", "due"}, NEW past \in BOOLEAN,
             NEW ls \in FreshLines, NEW q \in 1 .. MaxQty,
             CreateOrder(w, o, t, acc, sch, past, ls, q)
      PROVE  BillSound
  BY <1>1, CreateKeepsBills
<1>2. ASSUME NEW w \in Workers, Reads(w) \/ CountOpenBills(w) \/ Commits(w)
      PROVE  BillSound
  BY <1>2, ReadsKeepBills, CountKeepsBills, CommitsKeepBills
<1>3. ASSUME NEW c \in Crons, ReleaseReads(c) \/ ReleaseCommits(c)
      PROVE  BillSound
  BY <1>3, ReleaseKeepsBills
<1>4. ASSUME NEW o \in Orders, TimePasses(o)
      PROVE  BillSound
  BY <1>4, TimeKeepsBills
<1> QED
  BY <1>1, <1>2, <1>3, <1>4 DEF Next

LEMMA BillsHold == OneAtATime => (Spec => []BillInv)
<1> SUFFICES ASSUME OneAtATime PROVE Spec => []BillInv
  OBVIOUS
<1>1. Init => BillInv
  <2> SUFFICES ASSUME Init PROVE BillInv
    OBVIOUS
  <2>1. BillRows
    BY OrdersAssumption DEF Init, BillRows, RowsFit, OnOpenBill, RefusedOrderIsWithdrawn, KotsOf
  <2>2. TotalIsSumOfLines
    BY DEF Init, TotalIsSumOfLines
  <2>3. \A c \in Crons : ReadAsDue(req[c].queue, order, line)
    BY DEF Init, Idle, ReadAsDue
  <2>4. \A w \in Workers : Current(req[w], order, line, kot)
    BY IdleIsCurrent DEF Init
  <2> QED
    BY <2>1, <2>2, <2>3, <2>4 DEF BillInv
<1>2. Inv /\ Inv' /\ BillInv /\ [Next]_vars => BillInv'
  <2> SUFFICES ASSUME Inv, Inv', BillInv, [Next]_vars PROVE BillInv'
    OBVIOUS
  <2>1. CASE Next
    <3>1. BillSound
      BY <2>1, BillsAreSound
    <3>2. TotalIsSumOfLines'
      BY <3>1, TotalsStay DEF BillSound, BillInv
    <3> QED
      BY <3>1, <3>2 DEF BillSound, BillInv
  <2>2. CASE UNCHANGED vars
    BY <2>2 DEF vars, BillInv, BillRows, RowsFit, OnOpenBill, RefusedOrderIsWithdrawn, KotsOf,
       TotalIsSumOfLines
  <2> QED
    BY <2>1, <2>2
<1> QED
  BY <1>1, <1>2, InvHolds, PTL DEF Spec

\* As long as requests do not overlap (the job and the clock may), the total
\* stored on an unpaid bill is that of its lines, after any sequence of added
\* rounds, smaller quantities, removals, refused tickets and merges.
THEOREM TotalsAreRight == OneAtATime => (Spec => []TotalIsSumOfLines)
<1>1. BillInv => TotalIsSumOfLines
  BY DEF BillInv
<1> QED
  BY <1>1, BillsHold, PTL

\* Under the same condition an order is not left open with nothing but
\* refused tickets (rejectKot withdraws it with the last live one).
THEOREM RefusedIsWithdrawn == OneAtATime => (Spec => []RefusedOrderIsWithdrawn)
<1>1. BillInv => RefusedOrderIsWithdrawn
  BY DEF BillInv, BillRows
<1> QED
  BY <1>1, BillsHold, PTL

\* Under the same condition no step changes the lines or the total of an open
\* bill that has a payment (assertNoPayments).
THEOREM PartPaidIsFixed == OneAtATime => (Spec => PartPaidBillIsFixed)
<1> SUFFICES ASSUME OneAtATime PROVE Spec => PartPaidBillIsFixed
  OBVIOUS
<1>1. Inv /\ Inv' /\ BillInv /\ [Next]_vars =>
        [\A o \in Orders :
            order[o].status = "OPEN" /\ order[o].paid > 0
                => order'[o].total = order[o].total
                   /\ UnitsOf(line', o) = UnitsOf(line, o)]_vars
  <2>1. ASSUME Inv, Inv', BillInv, Next, NEW o \in Orders, order[o].status = "OPEN", order[o].paid > 0
        PROVE  order'[o].total = order[o].total /\ UnitsOf(line', o) = UnitsOf(line, o)
    <3>1. BillSound
      BY <2>1, BillsAreSound
    <3> QED
      BY <2>1, <3>1, PartPaidStaysFixed DEF BillSound
  <2> QED
    BY <2>1
<1> QED
  BY <1>1, InvHolds, BillsHold, PTL DEF Spec, PartPaidBillIsFixed
=============================================================================
