-------------------------------- MODULE Stock --------------------------------
(***************************************************************************)
(* The stock ledger: apps/backend/src/modules/inventory.  A request is a   *)
(* database transaction (read committed) which takes the ingredients of    *)
(* its list one after the other and shows its writes when it commits.      *)
(*                                                                         *)
(*   sale      checkout -> deductForOrder -> consumeStock                  *)
(*   return    refund with returned items -> restoreStock                  *)
(*   waste     logWaste -> consumeStock                                    *)
(*   transfer  transferStock: consumeStock here, a new batch there         *)
(*   adjust    adjustStock                                                 *)
(*   receipt   createGoodsReceipt, with or without a purchase order        *)
(*   status    updateStatus of a purchase order                            *)
(*                                                                         *)
(* What the properties turn on is which reads are made before the row lock *)
(* of the ingredient is held and which after.                              *)
(***************************************************************************)
EXTENDS Integers, Sequences, SequencesExt

CONSTANTS
    Workers,        \* requests in flight
    Orders,         \* orders whose lines are tracked in stock
    Ingredients,    \* numbers, so that the lines of a receipt have an order
    MaxBatches,     \* bound: batches ever received
    MaxJobs,        \* bound: requests ever made
    Opening,        \* [Ingredients -> Nat]: the first batch of each ingredient
    Need,           \* [Orders -> [Ingredients -> Nat]]: the stock plan of an order
    Loose,          \* quantities asked for by waste, transfer and return
    Counts,         \* signed corrections of adjustStock
    Lot,            \* quantities of a receipt line
    Purchases,      \* purchase orders
    Ordered,        \* [Purchases -> [Ingredients -> Nat]]
    None

ASSUME StockAssumption ==
    /\ Ingredients \subseteq Nat /\ IsFiniteSet(Ingredients)
    /\ IsFiniteSet(Workers) /\ IsFiniteSet(Orders)
    /\ MaxBatches \in Nat /\ MaxJobs \in Nat
    /\ Opening \in [Ingredients -> Nat]
    /\ Need \in [Orders -> [Ingredients -> Nat]]
    /\ Loose \subseteq Nat \ {0} /\ Counts \subseteq Int /\ Lot \subseteq Nat \ {0}
    /\ Ordered \in [Purchases -> [Ingredients -> Nat]]
    /\ Cardinality(Ingredients) <= MaxBatches
    /\ None \notin Workers \cup Orders \cup Ingredients \cup Purchases

VARIABLES
    stock,      \* [Ingredients -> Int]: Ingredient.currentStock
    batch,      \* [Batches -> StockBatch row]
    moved,      \* [Ingredients -> Int]: sum of the StockMovement rows
    drawn,      \* [Batches -> Int]: sum of the outgoing movements of a batch
    sold,       \* [Orders -> [Ingredients -> [Places -> Nat]]]: CONSUMPTION
    back,       \* the same for REVERSAL
    bill,       \* [Orders -> {"OPEN", "PAID"}]
    po,         \* [Purchases -> PurchaseOrder row with quantityReceived]
    delivered,  \* [Purchases -> [Ingredients -> Nat]]: receipts committed
    row,        \* [Ingredients -> Workers \cup {None}]: who holds the row lock
    job,        \* [Workers -> transaction in progress or NoJob]
    made        \* number of requests made

stockVars == <<stock, batch, moved, drawn, sold, back, bill, po, delivered, row, job, made>>

-----------------------------------------------------------------------------
Batches == 1 .. MaxBatches      \* by receivedAt: the smaller is the older
Rest    == MaxBatches + 1       \* movements which name no batch
Places  == 1 .. Rest
Kinds   == {"sale", "return", "waste", "transfer", "adjust", "receipt", "status"}
NoJob    == [kind |-> "none"]
PoStatus == {"DRAFT", "SENT", "PARTIALLY_RECEIVED", "RECEIVED", "CANCELLED"}

Zero     == [i \in Ingredients |-> 0]
Nowhere  == [i \in Ingredients |-> [p \in Places |-> 0]]
Pos(n)   == IF n > 0 THEN n ELSE 0
Least(a, b) == IF a <= b THEN a ELSE b
\* The sum of natural numbers f[p], unit by unit.
Units(f, S) == UNION {{p} \X (1 .. f[p]) : p \in S}
Total(f, S) == Cardinality(Units(f, S))

Free  == {b \in Batches : batch[b].of = None}
Left(i) == [b \in Batches |-> IF batch[b].of = i THEN batch[b].left ELSE 0]
Available(i) == Total(Left(i), Batches)

\* The loop over the batches, oldest first; what they lack goes to Rest.
Fifo(i, q) ==
    LET wanted(b) == Pos(q - Total(Left(i), 1 .. b - 1))
    IN  [b \in Places |-> IF b = Rest THEN wanted(b) ELSE Least(Left(i)[b], wanted(b))]

\* What an order took from each place and has not given back.
Room(o, i) == [p \in Places |-> sold[o][i][p] - back[o][i][p]]

\* The loop of restoreStock, in the reverse order of the consumption.
GiveBack(o, i, q) ==
    LET room == Room(o, i)
    IN  [p \in Places |-> Least(room[p], Pos(q - Total(room, p + 1 .. Rest)))]

-----------------------------------------------------------------------------
Job(kind, o, p, qty, todo) ==
    [kind |-> kind, order |-> o, po |-> p, qty |-> qty, todo |-> todo,
     read |-> Zero, seen |-> {}, split |-> Nowhere, had |-> [b \in Batches |-> 0],
     was |-> IF p = None THEN None ELSE po[p], next |-> None]

Head1(w) == job[w].todo[1]
Busy(w)  == job[w] # NoJob /\ job[w].todo # <<>>
Out(w)   == job[w].kind \in {"sale", "waste"}
            \/ (job[w].kind = "transfer" /\ job[w].qty[Head1(w)] < 0)
\* Variant: no SELECT ... FOR UPDATE.
Lockable_unlocked(w, i) == TRUE

Lockable(w, i) == row[i] \in {None, w}

\* Lines of a transaction which create a batch.
Inward(j) == {i \in Ingredients : j.kind \in {"receipt", "transfer"} /\ j.qty[i] > 0}
Promised  == {p \in Workers \X Ingredients : job[p[1]] # NoJob /\ p[2] \in Inward(job[p[1]])}

BeginJob(w, j) ==
    /\ job[w] = NoJob /\ made < MaxJobs
    /\ Cardinality(Inward(j)) + Cardinality(Promised) <= Cardinality(Free)
    /\ job' = [job EXCEPT ![w] = j]
    /\ made' = made + 1
    /\ UNCHANGED <<stock, batch, moved, drawn, sold, back, bill, po, delivered, row>>

StartSale(w, o) ==
    /\ bill[o] = "OPEN"
    /\ \E todo \in SetToSeqs({i \in Ingredients : Need[o][i] > 0}) :
         BeginJob(w, Job("sale", o, None, [i \in Ingredients |-> -Need[o][i]], todo))

StartReturn(w, o) ==
    /\ bill[o] = "PAID"
    /\ \E i \in Ingredients, q \in Loose :
         BeginJob(w, Job("return", o, None, [Zero EXCEPT ![i] = q], <<i>>))

StartWaste(w) ==
    \E i \in Ingredients, q \in Loose :
      BeginJob(w, Job("waste", None, None, [Zero EXCEPT ![i] = -q], <<i>>))

StartTransfer(w) ==
    \E i, k \in Ingredients, q \in Loose :
      /\ i # k
      /\ BeginJob(w, Job("transfer", None, None, [Zero EXCEPT ![i] = -q, ![k] = q], <<i, k>>))

StartAdjust(w) ==
    \E i \in Ingredients, q \in Counts :
      BeginJob(w, Job("adjust", None, None, [Zero EXCEPT ![i] = q], <<i>>))

\* The purchase order and all ingredients are read before the transaction.
StartReceipt(w, p) ==
    /\ p # None => po[p].status \notin {"CANCELLED", "RECEIVED"}
    /\ \E lines \in SUBSET Ingredients \ {{}}, q \in Lot : \E todo \in SetToSeqs(lines) :
         BeginJob(w, [Job("receipt", None, p, [i \in Ingredients |-> IF i \in lines THEN q ELSE 0], todo)
                    EXCEPT !.read = stock, !.seen = Ingredients])

NextStatus(s) == CASE s = "DRAFT" -> {"SENT", "CANCELLED"}
                   [] s = "SENT"  -> {"CANCELLED"}
                   [] OTHER       -> {}

StartStatus(w, p) ==
    \E s \in NextStatus(po[p].status) :
      BeginJob(w, [Job("status", None, p, Zero, <<>>) EXCEPT !.next = s])

-----------------------------------------------------------------------------
\* consumeStock and adjustStock read the ingredient without a lock.
ReadStock(w) ==
    /\ Busy(w) /\ (Out(w) \/ job[w].kind = "adjust")
    /\ LET i == Head1(w) IN
         /\ i \notin job[w].seen
         /\ job' = [job EXCEPT ![w].read[i] = stock[i], ![w].seen = @ \cup {i}]
    /\ UNCHANGED <<stock, batch, moved, drawn, sold, back, bill, po, delivered, row, made>>

\* One ingredient is dealt with: its row is locked until the transaction ends,
\* and its batches have been read.
Done(w, i, j) ==
    /\ Lockable(w, i)
    /\ row' = [row EXCEPT ![i] = w]
    /\ job' = [job EXCEPT ![w] = [j EXCEPT !.todo = Tail(@),
                 !.had = [b \in Batches |-> IF batch[b].of = i THEN batch[b].left ELSE @[b]]]]
    /\ UNCHANGED <<stock, batch, moved, drawn, sold, back, bill, po, delivered, made>>

\* Only a sale may take more than there is.
Enough(w, i) ==
    LET there == IF Available(i) > 0 THEN Available(i) ELSE job[w].read[i]
    IN  job[w].kind = "sale" \/ -job[w].qty[i] <= there

Consume(w) ==
    /\ Busy(w) /\ Out(w)
    /\ LET i == Head1(w) IN
         /\ i \in job[w].seen /\ Enough(w, i)
         /\ Done(w, i, [job[w] EXCEPT !.split[i] = Fifo(i, -job[w].qty[i])])

\* The stock and the order's movements are read under the lock.
Restore(w) ==
    /\ Busy(w) /\ job[w].kind = "return"
    /\ LET i == Head1(w)
           o == job[w].order
           q == Least(job[w].qty[i], Total(Room(o, i), Places))
       IN  Done(w, i, [job[w] EXCEPT !.qty[i] = q, !.read[i] = stock[i],
                                     !.split[i] = GiveBack(o, i, q)])

\* The receiving side of a transfer, read under the lock.
Arrive(w) ==
    /\ Busy(w) /\ job[w].kind = "transfer" /\ ~Out(w)
    /\ Done(w, Head1(w), [job[w] EXCEPT !.read[Head1(w)] = stock[Head1(w)]])

\* adjustStock and createGoodsReceipt write what they computed from their read.
Book(w) ==
    /\ Busy(w) /\ job[w].kind \in {"adjust", "receipt"}
    /\ LET i == Head1(w) IN
         /\ i \in job[w].seen
         /\ job[w].kind = "adjust" => job[w].read[i] + job[w].qty[i] >= 0
         /\ Done(w, i, job[w])

-----------------------------------------------------------------------------
Unlocked(w) == [i \in Ingredients |-> IF row[i] = w THEN None ELSE row[i]]

Written(j, i) ==
    CASE j.qty[i] = 0      -> stock[i]
      [] j.kind = "receipt" -> Pos(j.read[i]) + j.qty[i]
      [] OTHER             -> j.read[i] + j.qty[i]

\* The number of the batch made for the line of ingredient i.
BatchFor(j, i) ==
    MaxBatches - Cardinality(Free) + Cardinality({k \in Inward(j) : k <= i})

Sign(j) == IF j.kind = "return" THEN -1 ELSE 1

Taken(j, b) == IF batch[b].of = None THEN 0 ELSE Sign(j) * j.split[batch[b].of][b]

\* A new batch, or quantityRemaining set from what was read.
BatchAfter(j, b) ==
    IF \E i \in Inward(j) : BatchFor(j, i) = b
    THEN LET i == CHOOSE k \in Inward(j) : BatchFor(j, k) = b
         IN  [of |-> i, got |-> j.qty[i], left |-> j.qty[i]]
    ELSE [batch[b] EXCEPT !.left = IF Taken(j, b) = 0 THEN @ ELSE j.had[b] - Taken(j, b)]

Plus(f, g) == [i \in Ingredients |-> [p \in Places |-> f[i][p] + g[i][p]]]

\* Variant: one delivered line settles the purchase order.
PoAfter_anyLine(j) ==
    IF j.kind = "receipt" /\ j.po # None
    THEN [po EXCEPT ![j.po] = [got |-> [i \in Ingredients |-> j.was.got[i] + j.qty[i]],
                               status |-> "RECEIVED"]]
    ELSE po

\* The end of createGoodsReceipt: quantityReceived from what was read, then the status.
PoAfter(j) ==
    LET p   == j.po
        got == [i \in Ingredients |-> IF j.qty[i] > 0 /\ Ordered[p][i] > 0
                                     THEN j.was.got[i] + j.qty[i] ELSE po[p].got[i]]
    IN  CASE p = None          -> po
          [] j.kind = "status" -> [po EXCEPT ![p].status = j.next]
          [] OTHER -> [po EXCEPT ![p] =
               [got |-> got,
                status |-> IF \A i \in Ingredients : got[i] >= Ordered[p][i] THEN "RECEIVED"
                           ELSE IF \E i \in Ingredients : got[i] > 0 THEN "PARTIALLY_RECEIVED"
                           ELSE j.was.status]]

\* Variant: the final update asks for the order only.
MayCommit_anyStatus(j) == TRUE

\* checkout closes the bill under a guard on its status.
MayCommit(j) == j.kind = "sale" => bill[j.order] = "OPEN"

Commit(w) ==
    LET j == job[w] IN
    /\ j # NoJob /\ j.todo = <<>> /\ MayCommit(j)
    /\ stock' = [i \in Ingredients |-> Written(j, i)]
    /\ batch' = [b \in Batches |-> BatchAfter(j, b)]
    /\ moved' = [i \in Ingredients |-> moved[i] + j.qty[i]]
    /\ drawn' = [b \in Batches |-> drawn[b] + Taken(j, b)]
    /\ sold' = IF j.kind = "sale" THEN [sold EXCEPT ![j.order] = Plus(@, j.split)] ELSE sold
    /\ back' = IF j.kind = "return" THEN [back EXCEPT ![j.order] = Plus(@, j.split)] ELSE back
    /\ bill' = IF j.kind = "sale" THEN [bill EXCEPT ![j.order] = "PAID"] ELSE bill
    /\ po' = PoAfter(j)
    /\ delivered' = IF j.kind = "receipt" /\ j.po # None
                    THEN [delivered EXCEPT ![j.po] = [i \in Ingredients |-> @[i] + j.qty[i]]]
                    ELSE delivered
    /\ row' = Unlocked(w)
    /\ job' = [job EXCEPT ![w] = NoJob]
    /\ UNCHANGED made

Rollback(w) ==
    /\ job[w] # NoJob
    /\ row' = Unlocked(w)
    /\ job' = [job EXCEPT ![w] = NoJob]
    /\ UNCHANGED <<stock, batch, moved, drawn, sold, back, bill, po, delivered, made>>

\* Variant: a sale which lost the race is left hanging.
Refused_stockOnly(w) ==
    /\ Busy(w) /\ Out(w) /\ Head1(w) \in job[w].seen
    /\ Lockable(w, Head1(w)) /\ ~Enough(w, Head1(w))

\* The request is refused: too little stock, or the bill was closed by another.
Refused(w) ==
    \/ job[w] # NoJob /\ job[w].todo = <<>> /\ ~MayCommit(job[w])
    \/ /\ Busy(w) /\ Head1(w) \in job[w].seen
       /\ \/ Out(w) /\ Lockable(w, Head1(w)) /\ ~Enough(w, Head1(w))
          \/ job[w].kind = "adjust" /\ job[w].read[Head1(w)] + job[w].qty[Head1(w)] < 0

Refuse(w) == Refused(w) /\ Rollback(w)

\* PostgreSQL ends one of two transactions which wait for each other's rows
\* (the instances have two, so there are no longer cycles).
WaitsFor(w, v) == Busy(w) /\ w # v /\ row[Head1(w)] = v
BreakDeadlock(w) == (\E v \in Workers : WaitsFor(w, v) /\ WaitsFor(v, w)) /\ Rollback(w)

-----------------------------------------------------------------------------
FirstBatch(i) == Cardinality({k \in Ingredients : k <= i})
InitialBatch(b) ==
    IF \E i \in Ingredients : FirstBatch(i) = b
    THEN LET i == CHOOSE k \in Ingredients : FirstBatch(k) = b
         IN  [of |-> i, got |-> Opening[i], left |-> Opening[i]]
    ELSE [of |-> None, got |-> 0, left |-> 0]

StockInit ==
    /\ stock = Opening /\ moved = Opening
    /\ batch = [b \in Batches |-> InitialBatch(b)]
    /\ drawn = [b \in Batches |-> 0]
    /\ sold = [o \in Orders |-> Nowhere] /\ back = sold
    /\ bill = [o \in Orders |-> "OPEN"]
    /\ po = [p \in Purchases |-> [status |-> "DRAFT", got |-> Zero]]
    /\ delivered = [p \in Purchases |-> Zero]
    /\ row = [i \in Ingredients |-> None]
    /\ job = [w \in Workers |-> NoJob]
    /\ made = 0

Step(w) ==
    \/ ReadStock(w) \/ Consume(w) \/ Restore(w) \/ Arrive(w) \/ Book(w)
    \/ Commit(w) \/ Refuse(w) \/ BreakDeadlock(w)

Start(w) ==
    \/ \E o \in Orders : StartSale(w, o) \/ StartReturn(w, o)
    \/ StartWaste(w) \/ StartTransfer(w) \/ StartAdjust(w)
    \/ \E p \in Purchases \cup {None} : StartReceipt(w, p)
    \/ \E p \in Purchases : StartStatus(w, p)

StockNext == \E w \in Workers : Start(w) \/ Step(w) \/ Rollback(w)

StockSpec == StockInit /\ [][StockNext]_stockVars

\* A transaction goes on, and the queue of a row lock is served in order.
StockFair == \A w \in Workers :
    /\ WF_stockVars(ReadStock(w) \/ Commit(w) \/ Refuse(w) \/ BreakDeadlock(w))
    /\ SF_stockVars(Consume(w) \/ Restore(w) \/ Arrive(w) \/ Book(w))

-----------------------------------------------------------------------------
\* What is left in a batch is what it received less what the movements took
\* from it and did not bring back, and never less than nothing: consumeStock,
\* restoreStock and a transfer read the batches under the lock of the
\* ingredient's row (stock.service.ts:72-82).
BatchIsItsMovements ==
    \A b \in Batches : batch[b].left = batch[b].got - drawn[b] /\ batch[b].left \in 0 .. batch[b].got

\* Two checkouts of one bill, and any number of returns: a paid order has
\* taken its plan exactly once and an open one nothing, and from no place
\* comes back more than it gave (inventory.service.ts:269, stock.service.ts:189).
OrderMovesStockOnce ==
    \A o \in Orders, i \in Ingredients :
      /\ Total(sold[o][i], Places) = IF bill[o] = "PAID" THEN Need[o][i] ELSE 0
      /\ \A p \in Places : back[o][i][p] <= sold[o][i][p]

\* However receipts and status changes of a purchase order overtake each other
\* (all of them read it before they write it), no line counts more than was
\* delivered: an order is RECEIVED only when everything has come.
CountsOnlyDeliveries ==
    \A p \in Purchases :
      /\ \A i \in Ingredients : po[p].got[i] <= delivered[p][i]
      /\ po[p].status = "RECEIVED" =>
           \A i \in Ingredients : delivered[p][i] >= Ordered[p][i]

\* Every transaction ends, also when two lists of ingredients lock the same
\* rows in opposite orders.
EveryJobEnds == \A w \in Workers : job[w] # NoJob ~> job[w] = NoJob

\* The stored stock is the sum of the movements, as prisma/schema.prisma:699-700
\* says ("Cached from the StockMovement ledger", "transactional").  It does
\* not hold: the value that is set may come from a read before the row lock.
StockIsItsMovements == \A i \in Ingredients : stock[i] = moved[i]
=============================================================================
