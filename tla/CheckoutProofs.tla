--------------------------- MODULE CheckoutProofs ---------------------------
(***************************************************************************)
(* What bills share is never given out twice, for any number of cashiers,  *)
(* bills and customers.  The sums of the ledger and of the refunds are     *)
(* counted unit by unit, so that one more row is one more disjoint box     *)
(* (OneBox).  The heart is CommitAddsUp: the keys say what happened to the *)
(* bill or the referral (RowTells), so the rows a commit makes cannot be   *)
(* there yet, and its ledger moves by what its points move.                *)
(***************************************************************************)
EXTENDS Checkout, FiniteSetTheorems, TLAPS

SaleRow == [status : {"OPEN", "PAID"}, paid : Nat, total : Nat, off : Nat, byPoints : Nat,
            requests : SUBSET RequestIds, refunded : Nat]

CheckoutJob == [kind : {"checkout"}, bill : Bills, req : RequestIds, was : SaleRow,
                locked : BOOLEAN, ask : Nat, useCoupon : BOOLEAN, useCard : BOOLEAN,
                onCard : Nat, cardRead : BOOLEAN, cash : Nat, partial : BOOLEAN]
RefundJob == [kind : {"refund"}, bill : Bills, was : SaleRow, amount : Nat, credit : BOOLEAN]
AttachJob == [kind : {"attach"}, who : Customers]

TypeOK ==
    /\ sale \in [Bills -> SaleRow]
    /\ points \in [Customers -> Nat]
    /\ card \in [balance : Nat, redeemed : Nat]
    /\ coupon \in Nat
    /\ referral \in [Customers -> {"none", "PENDING", "REWARDED"}]
    /\ wallet \in [Customers -> Nat]
    /\ till \in [Cashiers -> CheckoutJob \cup RefundJob \cup AttachJob \cup {NoJob}]
    /\ taken \in [Bills -> [RequestIds -> Nat]]
    /\ fixed \in [Bills -> Nat]
    /\ attempts \in Nat

-----------------------------------------------------------------------------
(* The figures of a bill *)

LEMMA MinOfTwo ==
    ASSUME NEW a \in Int, NEW b \in Int
    PROVE  Min({a, b}) = IF a <= b THEN a ELSE b
<1>1. \E x \in {a, b} : \A y \in {a, b} : x <= y
  OBVIOUS
<1>2. Min({a, b}) \in {a, b} /\ \A y \in {a, b} : Min({a, b}) <= y
  BY <1>1 DEF Min
<1> QED
  BY <1>2

LEMMA MaxOfTwo ==
    ASSUME NEW a \in Int, NEW b \in Int
    PROVE  Max({a, b}) = IF a >= b THEN a ELSE b
<1>1. \E x \in {a, b} : \A y \in {a, b} : x >= y
  OBVIOUS
<1>2. Max({a, b}) \in {a, b} /\ \A y \in {a, b} : Max({a, b}) >= y
  BY <1>1 DEF Max
<1> QED
  BY <1>2

\* The figures of the row a checkout read.
ReadSound(j) ==
    /\ j.was.off + j.was.byPoints <= Subtotal[j.bill]
    /\ j.locked <=> j.was.paid > 0

LEMMA FiguresOfAJob ==
    ASSUME NEW j \in CheckoutJob, ReadSound(j)
    PROVE  /\ Discount(j) \in Nat /\ Redeemed(j) \in Nat /\ TotalDue(j) \in Nat
           /\ ~j.locked => Discount(j) + Redeemed(j) + TotalDue(j) = Subtotal[j.bill]
           /\ Balance(j) \in Int /\ GiftPart(j) \in Nat /\ CashPart(j) \in Nat
           /\ PaidNow(j) \in Nat /\ Earned(j) \in Nat /\ Spent(j) \in Nat
<1>1. Subtotal[j.bill] \in Nat /\ CouponOff \in Nat /\ EarnPer \in Nat \ {0}
  BY CheckoutAssumption DEF CheckoutJob
<1>2. /\ j.ask \in Nat /\ j.cash \in Nat /\ j.onCard \in Nat /\ j.locked \in BOOLEAN
      /\ j.was.total \in Nat /\ j.was.paid \in Nat /\ j.was.off \in Nat /\ j.was.byPoints \in Nat
  BY DEF CheckoutJob, SaleRow
<1>3. Discount(j) \in Nat /\ Discount(j) <= Subtotal[j.bill]
  <2>1. Min({CouponOff, Subtotal[j.bill]}) =
           IF CouponOff <= Subtotal[j.bill] THEN CouponOff ELSE Subtotal[j.bill]
    BY <1>1, MinOfTwo
  <2> QED
    BY <1>1, <2>1 DEF Discount
<1>4. Redeemed(j) \in Nat /\ Redeemed(j) <= Subtotal[j.bill] - Discount(j)
  <2> DEFINE rest == Subtotal[j.bill] - Discount(j)
  <2>1. rest \in Nat
    BY <1>1, <1>3
  <2>2. Min({j.ask, rest}) = IF j.ask <= rest THEN j.ask ELSE rest
    BY <1>2, <2>1, MinOfTwo
  <2> QED
    BY <1>2, <2>1, <2>2 DEF Redeemed
<1>5. TotalDue(j) \in Nat /\ (~j.locked => TotalDue(j) = Subtotal[j.bill] - Discount(j) - Redeemed(j))
  BY <1>1, <1>2, <1>3, <1>4 DEF TotalDue
<1>6. Balance(j) \in Int
  BY <1>2, <1>5 DEF Balance
<1>7. GiftPart(j) \in Nat
  <2> DEFINE open == Balance(j) - j.cash
  <2>1. CASE j.useCard /\ Balance(j) > j.cash
    <3>1. open \in Nat
      BY <1>2, <1>6, <2>1
    <3>2. Min({j.onCard, open}) = IF j.onCard <= open THEN j.onCard ELSE open
      BY <1>2, <3>1, MinOfTwo
    <3> QED
      BY <1>2, <2>1, <3>1, <3>2 DEF GiftPart
  <2>2. CASE ~(j.useCard /\ Balance(j) > j.cash)
    BY <2>2 DEF GiftPart
  <2> QED
    BY <2>1, <2>2
<1>8. CashPart(j) \in Nat
  <2> DEFINE due == Max({Balance(j), 0})
  <2>1. due \in Nat
    BY <1>6, MaxOfTwo
  <2>2. Min({j.cash, due}) = IF j.cash <= due THEN j.cash ELSE due
    <3> HIDE DEF due
    <3> QED
      BY <1>2, <2>1, MinOfTwo
  <2> QED
    BY <1>2, <2>1, <2>2 DEF CashPart
<1>9. PaidNow(j) \in Nat
  BY <1>7, <1>8 DEF PaidNow
<1>10. \A n \in Nat : n \div EarnPer \in Nat
  BY <1>1
<1>11. Earned(j) \in Nat
  <2>1. Subtotal[j.bill] - j.was.off - j.was.byPoints \in Nat
    BY <1>1, <1>2 DEF ReadSound
  <2>2. Subtotal[j.bill] - Discount(j) - Redeemed(j) \in Nat
    BY <1>1, <1>3, <1>4
  <2> QED
    BY <1>10, <2>1, <2>2 DEF Earned
<1>12. Spent(j) \in Nat
  BY <1>2 DEF Spent
<1> QED
  BY <1>1, <1>3, <1>4, <1>5, <1>6, <1>7, <1>8, <1>9, <1>11, <1>12

-----------------------------------------------------------------------------
(* The sum of the rows of the ledger *)

LEMMA CountingTo ==
    ASSUME NEW n \in Int
    PROVE  IsFiniteSet(1 .. n) /\ Cardinality(1 .. n) = IF n > 0 THEN n ELSE 0
<1>1. /\ IsFiniteSet(1 .. n)
      /\ Cardinality(1 .. n) = IF 1 > n THEN 0 ELSE n - 1 + 1
  BY FS_Interval
<1> QED
  BY <1>1

\* The units of one more member of a family of disjoint boxes.
LEMMA OneBox ==
    ASSUME NEW S, IsFiniteSet(S), NEW r, NEW n \in Int, \A u \in S : u[1] # r
    PROVE  /\ IsFiniteSet(S \cup ({r} \X (1 .. n)))
           /\ Cardinality(S \cup ({r} \X (1 .. n))) =
                Cardinality(S) + IF n > 0 THEN n ELSE 0
<1> DEFINE box == {r} \X (1 .. n)
<1>1. IsFiniteSet({r}) /\ Cardinality({r}) = 1
  BY FS_Singleton
<1>2. IsFiniteSet(1 .. n) /\ Cardinality(1 .. n) = IF n > 0 THEN n ELSE 0
  BY CountingTo
<1>3. IsFiniteSet(box) /\ Cardinality(box) = Cardinality({r}) * Cardinality(1 .. n)
  BY <1>1, <1>2, FS_Product
<1>4. S \cap box = {}
  OBVIOUS
<1> HIDE DEF box
<1>5. /\ IsFiniteSet(S \cup box)
      /\ Cardinality(S \cup box) = Cardinality(S) + Cardinality(box) - Cardinality(S \cap box)
  BY <1>3, FS_Union
<1>6. Cardinality(S \cap box) = 0
  BY <1>4, FS_EmptySet
<1>7. Cardinality(S) \in Nat
  BY FS_CardinalityType
<1>8. Cardinality(box) = IF n > 0 THEN n ELSE 0
  BY <1>1, <1>2, <1>3
<1>9. Cardinality(S \cup box) = Cardinality(S) + IF n > 0 THEN n ELSE 0
  BY <1>5, <1>6, <1>7, <1>8
<1> QED
  BY <1>5, <1>9 DEF box

\* A set of rows whose sum can be formed.
Summable(rows) ==
    /\ IsFiniteSet(Credits(rows)) /\ IsFiniteSet(Debits(rows))

LEMMA NetOfNone == Summable({}) /\ Net({}) = 0
<1>1. Credits({}) = {} /\ Debits({}) = {}
  BY DEF Credits, Debits
<1> QED
  BY <1>1, FS_EmptySet DEF Summable, Net

LEMMA NetOfFewer ==
    ASSUME NEW rows, NEW some, Summable(rows), some \subseteq rows
    PROVE  Summable(some) /\ Net(some) \in Int
<1>1. Credits(some) \subseteq Credits(rows) /\ Debits(some) \subseteq Debits(rows)
  BY DEF Credits, Debits
<1>2. IsFiniteSet(Credits(some)) /\ IsFiniteSet(Debits(some))
  BY <1>1, FS_Subset DEF Summable
<1>3. Cardinality(Credits(some)) \in Nat /\ Cardinality(Debits(some)) \in Nat
  BY <1>2, FS_CardinalityType
<1> QED
  BY <1>2, <1>3 DEF Summable, Net

LEMMA NetOfOneMore ==
    ASSUME NEW rows, Summable(rows), NEW r, r \notin rows, r.delta \in Int
    PROVE  Summable(rows \cup {r}) /\ Net(rows \cup {r}) = Net(rows) + r.delta
<1>1. PICK n \in Int : n = r.delta
  OBVIOUS
<1>2. PICK m \in Int : m = -n
  OBVIOUS
<1> DEFINE up == {r} \X (1 .. n)
           down == {r} \X (1 .. m)
<1>3. Credits(rows \cup {r}) = Credits(rows) \cup up
  BY <1>1 DEF Credits
<1>4. Debits(rows \cup {r}) = Debits(rows) \cup down
  BY <1>1, <1>2 DEF Debits
<1>5. \A u \in Credits(rows) \cup Debits(rows) : u[1] # r
  BY DEF Credits, Debits
<1>6. /\ IsFiniteSet(Credits(rows) \cup up)
      /\ Cardinality(Credits(rows) \cup up) =
            Cardinality(Credits(rows)) + IF n > 0 THEN n ELSE 0
  BY <1>5, OneBox DEF Summable
<1>7. /\ IsFiniteSet(Debits(rows) \cup down)
      /\ Cardinality(Debits(rows) \cup down) =
            Cardinality(Debits(rows)) + IF m > 0 THEN m ELSE 0
  BY <1>5, OneBox DEF Summable
<1> HIDE DEF up, down
<1>8. Cardinality(Credits(rows)) \in Nat /\ Cardinality(Debits(rows)) \in Nat
  BY FS_CardinalityType DEF Summable
<1>9. Summable(rows \cup {r})
  BY <1>3, <1>4, <1>6, <1>7 DEF Summable
<1>10. Net(rows \cup {r}) = Net(rows) + n
  <2>1. Net(rows \cup {r}) = Cardinality(Credits(rows) \cup up) - Cardinality(Debits(rows) \cup down)
    BY <1>3, <1>4 DEF Net
  <2> QED
    BY <1>2, <1>6, <1>7, <1>8, <2>1 DEF Net
<1> QED
  BY <1>1, <1>9, <1>10

LEMMA NetOfRow ==
    ASSUME NEW rows, Summable(rows), NEW key, NEW c, NEW n \in Int, NEW made \in BOOLEAN,
           \A r \in rows : r.key # key
    PROVE  /\ Summable(rows \cup Row(key, c, n, made))
           /\ Net(rows \cup Row(key, c, n, made)) = Net(rows) + IF made THEN n ELSE 0
<1>1. Net(rows) \in Int
  BY NetOfFewer
<1>2. CASE made
  <2> DEFINE r == [key |-> key, who |-> c, delta |-> n]
  <2>1. r.delta = n /\ r \notin rows
    OBVIOUS
  <2>2. Row(key, c, n, made) = {r}
    BY <1>2 DEF Row
  <2> HIDE DEF r
  <2>3. Summable(rows \cup {r}) /\ Net(rows \cup {r}) = Net(rows) + r.delta
    BY <2>1, NetOfOneMore
  <2> QED
    BY <1>2, <2>1, <2>2, <2>3
<1>3. CASE ~made
  <2>1. rows \cup Row(key, c, n, made) = rows
    BY <1>3 DEF Row
  <2>2. Summable(rows \cup Row(key, c, n, made))
    BY <2>1, Zenon
  <2>3. Net(rows \cup Row(key, c, n, made)) = Net(rows)
    BY <2>1, Zenon
  <2> QED
    BY <1>1, <1>3, <2>2, <2>3
<1> QED
  BY <1>2, <1>3

-----------------------------------------------------------------------------
(* The invariant *)

\* A bill is made up of what was taken off, points and what is due, and money
\* only goes back on a paid bill.
BillsSound ==
    \A b \in Bills :
      /\ sale[b].off + sale[b].byPoints + sale[b].total = Subtotal[b]
      /\ sale[b].refunded <= sale[b].total
      /\ sale[b].status = "OPEN" => sale[b].refunded = 0

\* What a request relies on between its reads and its commit.
KnowsBill(j) ==
    /\ j.kind = "checkout" => ReadSound(j)
    /\ j.kind = "refund" => sale[j.bill].status = "PAID"
    /\ j.kind = "attach" => j.who # Friend

JobsSound == \A w \in Cashiers : till[w] # NoJob => KnowsBill(till[w])

RequestsCounted ==
    \A b \in Bills, r \in RequestIds : taken[b][r] = IF r \in sale[b].requests THEN 1 ELSE 0

RewardRow(side, of, c) == [key |-> <<side, of>>, who |-> c, delta |-> RewardPoints]
Rewards(c) == {RewardRow("referred", c, c), RewardRow("referrer", c, Friend)}

\* A key in the ledger says what happened: a bill was fixed, a bill was paid,
\* a referral was rewarded.
RowTells(r) ==
    \/ \E b \in Bills : r.key = <<"redeem", b>> /\ r.who = Buyer[b] /\ fixed[b] > 0
    \/ \E b \in Bills : r.key = <<"earn", b>> /\ r.who = Buyer[b] /\ sale[b].status = "PAID"
    \/ \E c \in Customers : r \in Rewards(c) /\ referral[c] = "REWARDED"

LedgerTells == \A r \in ledger : RowTells(r)

RewardsGiven ==
    /\ referral[Friend] = "none"
    /\ \A c \in Customers : referral[c] = "REWARDED" =>
         /\ Rewards(c) \subseteq ledger
         /\ \E b \in Bills : Buyer[b] = c /\ sale[b].status = "PAID" /\ Subtotal[b] >= MinPurchase

\* What went to a wallet came from the bills of its customer.
WalletsBacked ==
    \A c \in Customers : IsFiniteSet(RefundsTo(c)) /\ wallet[c] <= Cardinality(RefundsTo(c))

Inv ==
    /\ TypeOK /\ BillsSound /\ JobsSound /\ RequestsCounted
    /\ Summable(ledger) /\ LedgerTells /\ RewardsGiven
    /\ WalletsBacked /\ SharedFundsHold /\ PointsAddUp

LEMMA KindOfJob ==
    ASSUME TypeOK, NEW w \in Cashiers, till[w] # NoJob
    PROVE  /\ till[w].kind = "checkout" => till[w] \in CheckoutJob
           /\ till[w].kind = "refund" => till[w] \in RefundJob
           /\ till[w].kind = "attach" => till[w] \in AttachJob
  BY DEF TypeOK, CheckoutJob, RefundJob, AttachJob

LEMMA InitHolds == CheckoutInit => Inv
<1> SUFFICES ASSUME CheckoutInit PROVE Inv
  OBVIOUS
<1>1. TypeOK
  BY CheckoutAssumption DEF CheckoutInit, TypeOK, SaleRow
<1>2. \A b \in Bills : /\ sale[b].status = "OPEN" /\ sale[b].off = 0 /\ sale[b].byPoints = 0
                       /\ sale[b].total = Subtotal[b] /\ sale[b].refunded = 0
                       /\ sale[b].requests = {}
  BY DEF CheckoutInit
<1>3. BillsSound
  BY <1>2, CheckoutAssumption DEF BillsSound
<1>4. JobsSound /\ RequestsCounted
  BY <1>2 DEF CheckoutInit, JobsSound, RequestsCounted
<1>5. Summable(ledger) /\ LedgerTells
  BY NetOfNone DEF CheckoutInit, LedgerTells
<1>6. RewardsGiven
  BY CheckoutAssumption DEF CheckoutInit, RewardsGiven
<1>7. WalletsBacked
  <2>1. \A c \in Customers : RefundsTo(c) = {}
    BY <1>2 DEF RefundsTo
  <2>2. \A c \in Customers : IsFiniteSet(RefundsTo(c)) /\ Cardinality(RefundsTo(c)) = 0
    BY <2>1, FS_EmptySet, Zenon
  <2>3. \A c \in Customers : wallet[c] = 0
    BY DEF CheckoutInit
  <2> QED
    BY <2>2, <2>3 DEF WalletsBacked
<1>8. SharedFundsHold
  BY CheckoutAssumption DEF CheckoutInit, SharedFundsHold
<1>9. PointsAddUp
  <2>1. \A c \in Customers : RowsOf(c) = {} /\ points[c] = OpeningPoints[c]
    BY DEF CheckoutInit, RowsOf
  <2> QED
    BY <2>1, NetOfNone, CheckoutAssumption DEF PointsAddUp
<1> QED
  BY <1>1, <1>3, <1>4, <1>5, <1>6, <1>7, <1>8, <1>9 DEF Inv

-----------------------------------------------------------------------------
(* The steps which only open or close a request *)

Jobs == CheckoutJob \cup RefundJob \cup AttachJob

\* A paid bill stays paid, so what the other requests know stays true.
LEMMA OthersKnow ==
    ASSUME Inv, NEW w \in Cashiers, NEW q, till' = [till EXCEPT ![w] = q],
           q # NoJob => KnowsBill(q)',
           \A b \in Bills : sale[b].status = "PAID" => sale'[b].status = "PAID"
    PROVE  JobsSound'
<1> SUFFICES ASSUME NEW v \in Cashiers, till'[v] # NoJob
             PROVE  KnowsBill(till[v])'
  BY DEF JobsSound
<1>1. CASE v = w
  <2>1. till'[v] = q /\ q # NoJob
    BY <1>1 DEF Inv, TypeOK
  <2> QED
    BY <2>1 DEF KnowsBill
<1>2. CASE v # w
  <2>1. till'[v] = till[v] /\ KnowsBill(till[v])
    BY <1>2 DEF Inv, TypeOK, JobsSound
  <2>2. PICK j : j = till[v]
    OBVIOUS
  <2>3. j.kind = "refund" => j.bill \in Bills
    BY <2>1, <2>2, KindOfJob DEF Inv, RefundJob
  <2>4. KnowsBill(j)'
    BY <2>1, <2>2, <2>3 DEF KnowsBill
  <2> QED
    BY <2>1, <2>2, <2>4 DEF KnowsBill
<1> QED
  BY <1>1, <1>2

LEMMA TillOnly ==
    ASSUME Inv, UNCHANGED shared, attempts' \in Nat, NEW w \in Cashiers,
           NEW q \in Jobs \cup {NoJob}, till' = [till EXCEPT ![w] = q],
           q # NoJob => KnowsBill(q)
    PROVE  Inv'
<1>1. UNCHANGED <<sale, points, ledger, card, coupon, referral, wallet, taken, fixed>>
  BY DEF shared
<1>2. TypeOK'
  BY <1>1 DEF Inv, TypeOK, Jobs
<1>3. JobsSound'
  <2>1. q # NoJob => KnowsBill(q)'
    BY <1>1 DEF KnowsBill
  <2> QED
    BY <1>1, <2>1, OthersKnow
<1>4. BillsSound' /\ RequestsCounted'
  BY <1>1 DEF Inv, BillsSound, RequestsCounted
<1>5. Summable(ledger)' /\ LedgerTells' /\ RewardsGiven'
  BY <1>1 DEF Inv, Summable, LedgerTells, RowTells, RewardsGiven
<1>6. WalletsBacked' /\ SharedFundsHold' /\ PointsAddUp'
  BY <1>1 DEF Inv, WalletsBacked, RefundsTo, SharedFundsHold, PointsAddUp, RowsOf
<1> QED
  BY <1>2, <1>3, <1>4, <1>5, <1>6 DEF Inv

LEMMA CheckoutBeginHolds ==
    ASSUME Inv, NEW w \in Cashiers, NEW b \in Bills, CheckoutBegin(w, b)
    PROVE  Inv'
<1>1. PICK s \in SaleRow : s = sale[b]
  BY DEF Inv, TypeOK
<1>2. PICK ask \in Asked, useCoupon, useCard \in BOOLEAN, cash \in Cash,
           partial \in PartPayments, req \in RequestIds :
        /\ req \notin sale[b].requests
        /\ sale[b].paid > 0 => ask = 0 /\ ~useCoupon
        /\ useCoupon => coupon < CouponLimit
        /\ till' = [till EXCEPT ![w] =
              [kind |-> "checkout", bill |-> b, req |-> req, was |-> sale[b],
               locked |-> sale[b].paid > 0, ask |-> ask, useCoupon |-> useCoupon,
               useCard |-> useCard, onCard |-> 0, cardRead |-> ~useCard,
               cash |-> cash, partial |-> partial]]
  BY Zenon DEF CheckoutBegin
<1> DEFINE q == [kind |-> "checkout", bill |-> b, req |-> req, was |-> s,
                 locked |-> s.paid > 0, ask |-> ask, useCoupon |-> useCoupon,
                 useCard |-> useCard, onCard |-> 0, cardRead |-> ~useCard,
                 cash |-> cash, partial |-> partial]
<1>3. ask \in Nat /\ cash \in Nat /\ partial \in BOOLEAN
  BY CheckoutAssumption
<1>4. q \in CheckoutJob
  BY <1>3 DEF CheckoutJob
<1>5. ReadSound(q)
  <2>1. s.off + s.byPoints + s.total = Subtotal[b] /\ s.total \in Nat /\ s.off \in Nat /\ s.byPoints \in Nat
    BY <1>1 DEF Inv, BillsSound, SaleRow
  <2>2. s.off + s.byPoints <= Subtotal[b]
    BY <2>1
  <2> QED
    BY <2>2 DEF ReadSound
<1>6. q.kind = "checkout"
  OBVIOUS
<1>7. till' = [till EXCEPT ![w] = q]
  BY <1>1, <1>2, Zenon
<1> HIDE DEF q
<1>8. KnowsBill(q)
  BY <1>5, <1>6 DEF KnowsBill
<1>9. attempts' \in Nat /\ UNCHANGED shared
  BY DEF CheckoutBegin, Inv, TypeOK
<1> QED
  BY <1>4, <1>7, <1>8, <1>9, TillOnly DEF Jobs

LEMMA ReadCardHolds ==
    ASSUME Inv, NEW w \in Cashiers, ReadCard(w)
    PROVE  Inv'
<1>1. PICK j \in CheckoutJob : j = till[w] /\ ReadSound(j)
  BY KindOfJob DEF ReadCard, Inv, JobsSound, KnowsBill
<1>2. PICK n \in Nat : n = card.balance
  BY DEF Inv, TypeOK
<1> DEFINE q == [[j EXCEPT !.onCard = n] EXCEPT !.cardRead = TRUE]
<1>3. /\ q \in CheckoutJob /\ q.kind = "checkout" /\ q.was = j.was /\ q.bill = j.bill
      /\ q.locked = j.locked
  BY DEF CheckoutJob
<1>4. till' = [till EXCEPT ![w] = q]
  BY <1>1, <1>2 DEF ReadCard, Inv, TypeOK
<1> HIDE DEF q
<1>5. KnowsBill(q)
  BY <1>1, <1>3 DEF KnowsBill, ReadSound
<1>6. attempts' \in Nat /\ UNCHANGED shared
  BY DEF ReadCard, Inv, TypeOK
<1> QED
  BY <1>3, <1>4, <1>5, <1>6, TillOnly DEF Jobs

LEMMA GiveUpHolds ==
    ASSUME Inv, NEW w \in Cashiers, GiveUp(w)
    PROVE  Inv'
  BY TillOnly DEF GiveUp, Inv, TypeOK

LEMMA RefundBeginHolds ==
    ASSUME Inv, NEW w \in Cashiers, NEW b \in Bills, RefundBegin(w, b)
    PROVE  Inv'
<1>1. PICK amount \in Cash, credit \in BOOLEAN, s \in SaleRow :
        /\ s = sale[b]
        /\ till' = [till EXCEPT ![w] = [kind |-> "refund", bill |-> b, was |-> s,
                                        amount |-> amount, credit |-> credit]]
  BY DEF RefundBegin, Inv, TypeOK
<1> DEFINE q == [kind |-> "refund", bill |-> b, was |-> s, amount |-> amount, credit |-> credit]
<1>2. q \in RefundJob
  BY CheckoutAssumption DEF RefundJob
<1>3. KnowsBill(q)
  BY DEF KnowsBill, RefundBegin
<1>4. till' = [till EXCEPT ![w] = q]
  BY <1>1
<1> HIDE DEF q
<1>5. attempts' \in Nat /\ UNCHANGED shared
  BY DEF RefundBegin, Inv, TypeOK
<1> QED
  BY <1>2, <1>3, <1>4, <1>5, TillOnly DEF Jobs

LEMMA AttachBeginHolds ==
    ASSUME Inv, NEW w \in Cashiers, NEW c \in Customers, AttachBegin(w, c)
    PROVE  Inv'
<1> DEFINE q == [kind |-> "attach", who |-> c]
<1>1. q \in AttachJob /\ KnowsBill(q) /\ till' = [till EXCEPT ![w] = q]
  BY DEF AttachJob, KnowsBill, AttachBegin
<1> HIDE DEF q
<1>2. attempts' \in Nat /\ UNCHANGED shared
  BY DEF AttachBegin, Inv, TypeOK
<1> QED
  BY <1>1, <1>2, TillOnly DEF Jobs

-----------------------------------------------------------------------------
(* The commits *)

LEMMA AttachCommitHolds ==
    ASSUME Inv, NEW w \in Cashiers, AttachCommit(w)
    PROVE  Inv'
<1>1. PICK j \in AttachJob : j = till[w] /\ j.who # Friend
  BY KindOfJob DEF AttachCommit, Inv, JobsSound, KnowsBill
<1>2. j.who \in Customers /\ referral[j.who] = "none"
      /\ referral' = [referral EXCEPT ![j.who] = "PENDING"]
      /\ till' = [till EXCEPT ![w] = NoJob]
      /\ UNCHANGED <<sale, points, ledger, card, coupon, wallet, taken, fixed, attempts>>
  BY <1>1 DEF AttachJob, AttachCommit
<1>3. TypeOK'
  BY <1>2 DEF Inv, TypeOK
<1>4. JobsSound'
  BY <1>2, OthersKnow
<1>5. BillsSound' /\ RequestsCounted'
  BY <1>2 DEF Inv, BillsSound, RequestsCounted
<1>6. \A c \in Customers : referral'[c] = "REWARDED" <=> referral[c] = "REWARDED"
  BY <1>2 DEF Inv, TypeOK
<1>7. Summable(ledger)' /\ LedgerTells'
  BY <1>2, <1>6 DEF Inv, Summable, LedgerTells, RowTells
<1>8. RewardsGiven'
  BY <1>1, <1>2, <1>6, CheckoutAssumption DEF Inv, TypeOK, RewardsGiven
<1>9. WalletsBacked' /\ SharedFundsHold' /\ PointsAddUp'
  BY <1>2 DEF Inv, WalletsBacked, RefundsTo, SharedFundsHold, PointsAddUp, RowsOf
<1> QED
  BY <1>3, <1>4, <1>5, <1>7, <1>8, <1>9 DEF Inv

LEMMA RefundCommitHolds ==
    ASSUME Inv, NEW w \in Cashiers, RefundCommit(w)
    PROVE  Inv'
<1>1. PICK j \in RefundJob : /\ j = till[w] /\ sale[j.bill].status = "PAID"
                             /\ j.amount <= Refundable(j)
  BY KindOfJob DEF RefundCommit, Inv, JobsSound, KnowsBill
<1>2. PICK b \in Bills, n \in Nat, u \in Customers, s \in SaleRow :
        b = j.bill /\ n = j.amount /\ u = Buyer[b] /\ s = sale[b]
  BY CheckoutAssumption DEF RefundJob, Inv, TypeOK
<1>3. PICK m \in Nat : m = s.refunded
  BY DEF SaleRow
<1> DEFINE t == [s EXCEPT !.refunded = m + n]
<1>4. sale' = [sale EXCEPT ![b] = t]
  BY <1>1, <1>2, <1>3 DEF RefundCommit, Inv, TypeOK
<1>5. /\ t \in SaleRow /\ t.refunded = m + n
      /\ t.status = s.status /\ t.off = s.off /\ t.byPoints = s.byPoints
      /\ t.total = s.total /\ t.requests = s.requests
  BY <1>2 DEF SaleRow
<1> HIDE DEF t
<1>6. /\ \A d \in Bills : d # b => sale'[d] = sale[d]
      /\ sale'[b] = t /\ sale[b] = s
  BY <1>2, <1>4 DEF Inv, TypeOK
<1>7. \A d \in Bills : /\ sale'[d].status = sale[d].status /\ sale'[d].requests = sale[d].requests
                       /\ sale'[d].off = sale[d].off /\ sale'[d].byPoints = sale[d].byPoints
                       /\ sale'[d].total = sale[d].total
  BY <1>5, <1>6
<1>8. /\ till' = [till EXCEPT ![w] = NoJob]
      /\ UNCHANGED <<points, ledger, card, coupon, referral, taken, fixed, attempts>>
      /\ wallet' = IF j.credit THEN [wallet EXCEPT ![u] = @ + n] ELSE wallet
  BY <1>1, <1>2 DEF RefundCommit
<1>9. /\ \A c \in Customers : wallet'[c] <= wallet[c] + IF c = u THEN n ELSE 0
      /\ wallet' \in [Customers -> Nat]
  BY <1>2, <1>8 DEF Inv, TypeOK
<1>10. sale' \in [Bills -> SaleRow]
  BY <1>4, <1>5 DEF Inv, TypeOK
<1>11. TypeOK'
  BY <1>8, <1>9, <1>10 DEF Inv, TypeOK
<1>12. JobsSound'
  BY <1>7, <1>8, OthersKnow
<1>13. BillsSound'
  <2>1. m + n <= s.total /\ s.status = "PAID"
    BY <1>1, <1>2, <1>3 DEF Refundable, SaleRow
  <2> QED
    BY <1>5, <1>6, <2>1 DEF Inv, BillsSound
<1>14. RequestsCounted'
  BY <1>7, <1>8 DEF Inv, RequestsCounted
<1>15. Summable(ledger)' /\ LedgerTells' /\ RewardsGiven'
  BY <1>7, <1>8 DEF Inv, Summable, LedgerTells, RowTells, RewardsGiven
<1>16. WalletsBacked'
  <2> SUFFICES ASSUME NEW c \in Customers
               PROVE  IsFiniteSet(RefundsTo(c)') /\ wallet'[c] <= Cardinality(RefundsTo(c)')
    BY DEF WalletsBacked
  <2>1. IsFiniteSet(RefundsTo(c)) /\ wallet[c] <= Cardinality(RefundsTo(c)) /\ wallet[c] \in Nat
    BY DEF Inv, WalletsBacked, TypeOK
  <2>2. CASE c # u
    <3>1. RefundsTo(c)' = RefundsTo(c)
      BY <1>2, <1>6, <2>2 DEF RefundsTo
    <3>2. wallet'[c] <= wallet[c] /\ wallet'[c] \in Nat
      BY <1>9, <2>1, <2>2
    <3>3. Cardinality(RefundsTo(c)) \in Nat
      BY <2>1, FS_CardinalityType
    <3>4. IsFiniteSet(RefundsTo(c)') /\ Cardinality(RefundsTo(c)') = Cardinality(RefundsTo(c))
      BY <2>1, <3>1, Zenon
    <3> QED
      BY <2>1, <3>2, <3>3, <3>4
  <2>3. CASE c = u
    <3> DEFINE new == {b} \X ((m + 1) .. (m + n))
    <3>1. RefundsTo(c)' = RefundsTo(c) \cup new
      <4>1. \A d \in Bills \ {b} : sale'[d].refunded = sale[d].refunded
        BY <1>6
      <4>2. sale'[b].refunded = m + n /\ sale[b].refunded = m
        BY <1>3, <1>5, <1>6
      <4>3. 1 .. (m + n) = (1 .. m) \cup ((m + 1) .. (m + n))
        OBVIOUS
      <4>4. \A p : p \in RefundsTo(c)' <=> \E d \in Bills : Buyer[d] = c /\ p \in {d} \X (1 .. sale'[d].refunded)
        BY DEF RefundsTo
      <4>5. \A p : p \in RefundsTo(c) <=> \E d \in Bills : Buyer[d] = c /\ p \in {d} \X (1 .. sale[d].refunded)
        BY DEF RefundsTo
      <4> QED
        BY <1>2, <2>3, <4>1, <4>2, <4>3, <4>4, <4>5
    <3>2. RefundsTo(c) \cap new = {}
      BY <1>3, <1>6 DEF RefundsTo
    <3>3. IsFiniteSet(new) /\ Cardinality(new) = n
      <4>1. IsFiniteSet({b}) /\ Cardinality({b}) = 1
        BY FS_Singleton
      <4>2. m + 1 \in Int /\ m + n \in Int
        OBVIOUS
      <4>3. /\ IsFiniteSet((m + 1) .. (m + n))
            /\ Cardinality((m + 1) .. (m + n)) = IF m + 1 > m + n THEN 0 ELSE (m + n) - (m + 1) + 1
        BY <4>2, FS_Interval
      <4>4. Cardinality((m + 1) .. (m + n)) = n
        BY <4>3
      <4>5. IsFiniteSet(new) /\ Cardinality(new) = Cardinality({b}) * Cardinality((m + 1) .. (m + n))
        BY <4>1, <4>3, FS_Product
      <4> QED
        BY <4>1, <4>4, <4>5
    <3> HIDE DEF new
    <3>4. /\ IsFiniteSet(RefundsTo(c) \cup new)
          /\ Cardinality(RefundsTo(c) \cup new) =
               Cardinality(RefundsTo(c)) + Cardinality(new) - Cardinality(RefundsTo(c) \cap new)
      BY <2>1, <3>3, FS_Union
    <3>5. Cardinality(RefundsTo(c) \cap new) = 0
      BY <3>2, FS_EmptySet
    <3>6. Cardinality(RefundsTo(c)) \in Nat
      BY <2>1, FS_CardinalityType
    <3>7. IsFiniteSet(RefundsTo(c)') /\ Cardinality(RefundsTo(c)') = Cardinality(RefundsTo(c)) + n
      BY <3>1, <3>3, <3>4, <3>5, <3>6
    <3> QED
      BY <1>9, <2>1, <2>3, <3>6, <3>7
  <2> QED
    BY <2>2, <2>3
<1>17. SharedFundsHold' /\ PointsAddUp'
  BY <1>8 DEF Inv, SharedFundsHold, PointsAddUp, RowsOf
<1> QED
  BY <1>11, <1>12, <1>13, <1>14, <1>15, <1>16, <1>17 DEF Inv

LEMMA SettledRow ==
    ASSUME NEW j \in CheckoutJob, ReadSound(j), NEW s \in SaleRow
    PROVE  LET t == Settled(j, s) IN
           /\ t \in SaleRow
           /\ t.status = IF FullyPaid(j) THEN "PAID" ELSE "OPEN"
           /\ t.refunded = s.refunded
           /\ t.requests = IF PaidNow(j) > 0 THEN s.requests \cup {j.req} ELSE s.requests
           /\ j.locked => t.off = s.off /\ t.byPoints = s.byPoints /\ t.total = s.total
           /\ ~j.locked => t.off + t.byPoints + t.total = Subtotal[j.bill]
<1>1. /\ Discount(j) \in Nat /\ Redeemed(j) \in Nat /\ TotalDue(j) \in Nat /\ PaidNow(j) \in Nat
      /\ ~j.locked => Discount(j) + Redeemed(j) + TotalDue(j) = Subtotal[j.bill]
  BY FiguresOfAJob
<1> DEFINE status == IF FullyPaid(j) THEN "PAID" ELSE "OPEN"
           paid == s.paid + PaidNow(j)
           total == IF j.locked THEN s.total ELSE TotalDue(j)
           off == IF j.locked THEN s.off ELSE Discount(j)
           byPoints == IF j.locked THEN s.byPoints ELSE Redeemed(j)
           requests == IF PaidNow(j) > 0 THEN s.requests \cup {j.req} ELSE s.requests
<1>2. /\ status \in {"OPEN", "PAID"} /\ paid \in Nat /\ total \in Nat /\ off \in Nat
      /\ byPoints \in Nat /\ requests \subseteq RequestIds
  <2>1. /\ s.paid \in Nat /\ s.total \in Nat /\ s.off \in Nat /\ s.byPoints \in Nat
        /\ s.requests \subseteq RequestIds /\ j.req \in RequestIds
    BY DEF SaleRow, CheckoutJob
  <2> QED
    BY <1>1, <2>1
<1>3. Settled(j, s) = [s EXCEPT !.status = status, !.paid = paid, !.total = total,
                                !.off = off, !.byPoints = byPoints, !.requests = requests]
  BY DEF Settled
<1>4. /\ j.locked => off = s.off /\ byPoints = s.byPoints /\ total = s.total
      /\ ~j.locked => off + byPoints + total = Subtotal[j.bill]
  <2>1. ~j.locked => off = Discount(j) /\ byPoints = Redeemed(j) /\ total = TotalDue(j)
    OBVIOUS
  <2> HIDE DEF off, byPoints, total
  <2>2. ~j.locked => off + byPoints + total = Subtotal[j.bill]
    BY <1>1, <2>1
  <2> QED
    BY <2>2 DEF off, byPoints, total
<1> HIDE DEF status, paid, total, off, byPoints, requests
<1>5. Settled(j, s) = [status |-> status, paid |-> paid, total |-> total, off |-> off,
                       byPoints |-> byPoints, requests |-> requests, refunded |-> s.refunded]
  BY <1>3 DEF SaleRow
<1>6. s.refunded \in Nat
  BY DEF SaleRow
<1>7. Settled(j, s) \in SaleRow
  BY <1>2, <1>5, <1>6 DEF SaleRow
<1>8. /\ Settled(j, s).status = status /\ Settled(j, s).total = total /\ Settled(j, s).off = off
      /\ Settled(j, s).byPoints = byPoints /\ Settled(j, s).requests = requests
      /\ Settled(j, s).refunded = s.refunded
  BY <1>5
<1> QED
  BY <1>7, <1>8, <1>4 DEF status, requests

\* The points of a commit and its rows in the ledger agree, customer by customer.
LEMMA CommitAddsUp ==
    ASSUME Inv, NEW w \in Cashiers, CheckoutCommit(w)
    PROVE  Summable(ledger)' /\ PointsAddUp' /\ points' \in [Customers -> Nat]
<1>1. PICK j \in CheckoutJob : j = till[w] /\ ReadSound(j)
  BY KindOfJob DEF CheckoutCommit, Inv, JobsSound, KnowsBill
<1>2. PICK b \in Bills, u \in Customers, f \in Customers :
        b = j.bill /\ u = Buyer[b] /\ f = Friend
  BY CheckoutAssumption DEF CheckoutJob
<1>3. PICK spent \in Nat, earned \in Nat, paid \in BOOLEAN, q \in BOOLEAN, n \in Nat :
        /\ spent = Spent(j) /\ earned = Earned(j) /\ n = RewardPoints
        /\ paid <=> FullyPaid(j)
        /\ q <=> Qualifies(j)
  BY <1>1, FiguresOfAJob, CheckoutAssumption
<1>4. PICK minus \in Int : minus = -spent
  OBVIOUS
<1>5. PICK spends \in BOOLEAN, earns \in BOOLEAN :
        (spends <=> spent > 0) /\ (earns <=> paid /\ earned > 0)
  OBVIOUS
<1> DEFINE r1 == Row(<<"redeem", b>>, u, minus, spends)
           r2 == Row(<<"earn", b>>, u, earned, earns)
           r3 == Row(<<"referred", u>>, u, n, q)
           r4 == Row(<<"referrer", u>>, f, n, q)
           new == {r \in r1 : \A l \in ledger : l.key # r.key}
<1>6. /\ sale[b].status = "OPEN"
      /\ q => referral[u] = "PENDING"
      /\ ~j.locked => points[u] >= j.ask
  BY <1>1, <1>2, <1>3 DEF CheckoutCommit, StillOpen, Qualifies, Covered
<1>7. /\ ledger' = Added(NewRows(j))
      /\ points' = [c \in Customers |-> PointsAfter(j, c)]
      /\ fixed' = [fixed EXCEPT ![b] = @ + (IF j.locked THEN 0 ELSE 1)]
  BY <1>1, <1>2 DEF CheckoutCommit
<1>8. NewRows(j) = ((r1 \cup r2) \cup r3) \cup r4
  <2>1. Row(<<"redeem", j.bill>>, Buyer[j.bill], -Spent(j), Spent(j) > 0) = r1
    BY <1>2, <1>3, <1>5, <1>4 DEF Row
  <2>2. Row(<<"earn", j.bill>>, Buyer[j.bill], Earned(j), FullyPaid(j) /\ Earned(j) > 0) = r2
    BY <1>2, <1>3, <1>5 DEF Row
  <2>3. Row(<<"referred", Buyer[j.bill]>>, Buyer[j.bill], RewardPoints, Qualifies(j)) = r3
    BY <1>2, <1>3 DEF Row
  <2>4. Row(<<"referrer", Buyer[j.bill]>>, Friend, RewardPoints, Qualifies(j)) = r4
    BY <1>2, <1>3 DEF Row
  <2> QED
    BY <2>1, <2>2, <2>3, <2>4 DEF NewRows
<1>9. q => u # f
  BY <1>2, <1>6, CheckoutAssumption DEF Inv, RewardsGiven
\* None of the keys but that of the redemption can be there already.
<1>10. \A l \in ledger : /\ l.key # <<"earn", b>>
                         /\ q => l.key # <<"referred", u>> /\ l.key # <<"referrer", u>>
                         /\ fixed[b] = 0 => l.key # <<"redeem", b>>
  <2> SUFFICES ASSUME NEW l \in ledger
               PROVE  /\ l.key # <<"earn", b>>
                      /\ q => l.key # <<"referred", u>> /\ l.key # <<"referrer", u>>
                      /\ fixed[b] = 0 => l.key # <<"redeem", b>>
    OBVIOUS
  <2>1. RowTells(l)
    BY DEF Inv, LedgerTells
  <2>2. CASE \E d \in Bills : l.key = <<"redeem", d>> /\ fixed[d] > 0
    BY <2>2
  <2>3. CASE \E d \in Bills : l.key = <<"earn", d>> /\ sale[d].status = "PAID"
    BY <1>6, <2>3
  <2>4. CASE \E c \in Customers : l \in Rewards(c) /\ referral[c] = "REWARDED"
    BY <1>6, <2>4 DEF Rewards, RewardRow
  <2> QED
    BY <2>1, <2>2, <2>3, <2>4 DEF RowTells
<1>11. /\ \A r \in r1 : r.key = <<"redeem", b>> /\ r.who = u
       /\ \A r \in r2 : r.key = <<"earn", b>> /\ r.who = u
       /\ \A r \in r3 : r.key = <<"referred", u>> /\ r.who = u /\ q
       /\ \A r \in r4 : r.key = <<"referrer", u>> /\ r.who = f /\ q
  BY DEF Row
<1>12. ASSUME NEW rows, Summable(rows), \A r \in rows : r.key # <<"redeem", b>>
       PROVE  /\ Summable(rows \cup r1)
              /\ Net(rows \cup r1) = Net(rows) + IF spends THEN minus ELSE 0
  BY <1>12, NetOfRow
<1>13. ASSUME NEW rows, Summable(rows), \A r \in rows : r.key # <<"earn", b>>
       PROVE  /\ Summable(rows \cup r2)
              /\ Net(rows \cup r2) = Net(rows) + IF earns THEN earned ELSE 0
  BY <1>13, NetOfRow
<1>14. ASSUME NEW rows, Summable(rows), \A r \in rows : r.key # <<"referred", u>>
       PROVE  /\ Summable(rows \cup r3)
              /\ Net(rows \cup r3) = Net(rows) + IF q THEN n ELSE 0
  BY <1>14, NetOfRow
<1>15. ASSUME NEW rows, Summable(rows), \A r \in rows : r.key # <<"referrer", u>>
       PROVE  /\ Summable(rows \cup r4)
              /\ Net(rows \cup r4) = Net(rows) + IF q THEN n ELSE 0
  BY <1>15, NetOfRow
<1> HIDE DEF r1, r2, r3, r4
<1>16. ledger' = (((ledger \cup new) \cup r2) \cup r3) \cup r4
  BY <1>7, <1>8, <1>10, <1>11 DEF Added
<1>17. fixed[b] = 0 => new = r1
  BY <1>10, <1>11
<1>18. spent = 0 => r1 = {}
  BY <1>5 DEF r1, Row
<1>19. minus = 0 - spent
  BY <1>4
<1>20. points' \in [Customers -> Nat]
       /\ \A c \in Customers : points'[c] = PointsAfter(j, c)
  <2>1. spent <= points[u]
    BY <1>1, <1>3, <1>6 DEF Spent, Inv, TypeOK
  <2>2. \A c \in Customers : PointsAfter(j, c) \in Nat
    BY <1>2, <1>3, <2>1 DEF PointsAfter, Inv, TypeOK
  <2> QED
    BY <1>7, <2>2
<1>21. Summable(ledger')
  <2>1. Summable(ledger \cup new)
    <3>1. CASE new = {}
      <4>1. ledger \cup new = ledger
        BY <3>1
      <4> QED
        BY <4>1, Zenon DEF Inv
    <3>2. CASE new # {}
      <4>1. \A l \in ledger : l.key # <<"redeem", b>>
        BY <1>11, <3>2
      <4>2. new = r1
        BY <1>11, <4>1
      <4>3. Summable(ledger \cup r1)
        BY <4>1, <1>12 DEF Inv
      <4> QED
        BY <4>2, <4>3, Zenon
    <3> QED
      BY <3>1, <3>2
  <2> HIDE DEF new
  <2>2. \A r \in new : r.key = <<"redeem", b>>
    BY <1>11 DEF new
  <2>3. \A l \in ledger \cup new : l.key # <<"earn", b>>
    BY <1>10, <2>2
  <2>4. Summable((ledger \cup new) \cup r2)
    BY <2>1, <2>3, <1>13
  <2>5. CASE q
    <3>1. \A l \in (ledger \cup new) \cup r2 : l.key # <<"referred", u>>
      BY <1>10, <1>11, <2>2, <2>5
    <3>2. Summable(((ledger \cup new) \cup r2) \cup r3)
      BY <2>4, <3>1, <1>14
    <3>3. \A l \in ((ledger \cup new) \cup r2) \cup r3 : l.key # <<"referrer", u>>
      BY <1>10, <1>11, <2>2, <2>5
    <3>4. Summable((((ledger \cup new) \cup r2) \cup r3) \cup r4)
      BY <3>2, <3>3, <1>15
    <3> QED
      BY <1>16, <3>4, Zenon
  <2>6. CASE ~q
    <3>1. r3 = {} /\ r4 = {}
      BY <1>11, <2>6
    <3>2. ledger' = (ledger \cup new) \cup r2
      BY <1>16, <3>1
    <3> QED
      BY <2>4, <3>2, Zenon
  <2> QED
    BY <2>5, <2>6
<1>22. ASSUME NEW c \in Customers, \A d \in Bills : Buyer[d] = c => fixed'[d] <= 1
       PROVE  points'[c] = OpeningPoints[c] + Net(RowsOf(c)')
  <2>1. points[c] = OpeningPoints[c] + Net(RowsOf(c))
    <3>1. \A d \in Bills : fixed[d] <= fixed'[d] /\ fixed[d] \in Nat /\ fixed'[d] \in Nat
      BY <1>7 DEF Inv, TypeOK
    <3>2. \A d \in Bills : Buyer[d] = c => fixed[d] <= 1
      BY <1>22, <3>1
    <3> QED
      BY <3>2 DEF Inv, PointsAddUp
  <2>2. Summable(RowsOf(c)) /\ Net(RowsOf(c)) \in Int /\ OpeningPoints[c] \in Int
    <3>1. RowsOf(c) \subseteq ledger
      BY DEF RowsOf
    <3> QED
      BY <3>1, NetOfFewer, CheckoutAssumption DEF Inv
  <2>3. RowsOf(c)' = {r \in ledger' : r.who = c}
    BY DEF RowsOf
  <2>4. CASE c = u
    <3>1. new = r1
      <4>1. CASE j.locked
        BY <1>3, <1>18, <4>1 DEF Spent
      <4>2. CASE ~j.locked
        <5>1. fixed'[b] <= 1 /\ fixed'[b] = fixed[b] + 1 /\ fixed[b] \in Nat
          BY <1>2, <1>7, <1>22, <2>4, <4>2 DEF Inv, TypeOK
        <5> QED
          BY <1>17, <5>1
      <4> QED
        BY <4>1, <4>2
    <3> HIDE DEF new
    <3>2. RowsOf(c)' = ((RowsOf(c) \cup r1) \cup r2) \cup r3
      <4>1. \A r \in r4 : r.who # c
        BY <1>9, <1>11, <2>4
      <4> QED
        BY <1>11, <1>16, <2>3, <2>4, <3>1, <4>1 DEF RowsOf
    <3>3. \A l \in RowsOf(c) : l \in ledger
      BY DEF RowsOf
    <3>4. /\ Summable(RowsOf(c) \cup r1)
          /\ Net(RowsOf(c) \cup r1) = Net(RowsOf(c)) - spent
      <4>1. CASE spent = 0
        <5>1. RowsOf(c) \cup r1 = RowsOf(c)
          BY <1>18, <4>1
        <5>2. Summable(RowsOf(c) \cup r1) /\ Net(RowsOf(c) \cup r1) = Net(RowsOf(c))
          BY <2>2, <5>1, Zenon
        <5> QED
          BY <2>2, <4>1, <5>2
      <4>2. CASE spent > 0
        <5>1. \E r \in r1 : r.key = <<"redeem", b>>
          BY <1>5, <4>2 DEF r1, Row
        <5>2. \A l \in ledger : l.key # <<"redeem", b>>
          BY <3>1, <5>1, <1>11 DEF new
        <5>3. \A l \in RowsOf(c) : l.key # <<"redeem", b>>
          BY <3>3, <5>2
        <5>4. /\ Summable(RowsOf(c) \cup r1)
              /\ Net(RowsOf(c) \cup r1) = Net(RowsOf(c)) + IF spends THEN minus ELSE 0
          BY <2>2, <5>3, <1>12
        <5> QED
          BY <1>5, <1>19, <2>2, <4>2, <5>4
      <4> QED
        BY <4>1, <4>2
    <3>5. /\ Summable((RowsOf(c) \cup r1) \cup r2)
          /\ Net((RowsOf(c) \cup r1) \cup r2) = Net(RowsOf(c)) - spent + IF paid THEN earned ELSE 0
      <4>1. \A l \in RowsOf(c) \cup r1 : l.key # <<"earn", b>>
        BY <1>10, <1>11, <3>3
      <4>2. /\ Summable((RowsOf(c) \cup r1) \cup r2)
            /\ Net((RowsOf(c) \cup r1) \cup r2) =
                 Net(RowsOf(c) \cup r1) + IF earns THEN earned ELSE 0
        BY <3>4, <4>1, <1>13
      <4> QED
        BY <1>5, <2>2, <3>4, <4>2
    <3>6. Net(RowsOf(c)') = Net(RowsOf(c)) - spent + (IF paid THEN earned ELSE 0)
                                           + (IF q THEN n ELSE 0)
      <4>1. CASE q
        <5>1. \A l \in (RowsOf(c) \cup r1) \cup r2 : l.key # <<"referred", u>>
          BY <1>10, <1>11, <3>3, <4>1
        <5>2. Net(((RowsOf(c) \cup r1) \cup r2) \cup r3) =
                Net((RowsOf(c) \cup r1) \cup r2) + IF q THEN n ELSE 0
          BY <3>5, <5>1, <1>14
        <5>3. Net(RowsOf(c)') = Net((RowsOf(c) \cup r1) \cup r2) + IF q THEN n ELSE 0
          BY <3>2, <5>2, Zenon
        <5> QED
          BY <2>2, <3>5, <5>3
      <4>2. CASE ~q
        <5>1. RowsOf(c)' = (RowsOf(c) \cup r1) \cup r2
          BY <1>11, <3>2, <4>2
        <5>2. Net(RowsOf(c)') = Net((RowsOf(c) \cup r1) \cup r2)
          BY <5>1, Zenon
        <5> QED
          BY <2>2, <3>5, <4>2, <5>2
      <4> QED
        BY <4>1, <4>2
    <3>7. points'[c] = points[c] - spent + (IF paid THEN earned ELSE 0) + (IF q THEN n ELSE 0)
      BY <1>2, <1>3, <1>20, <2>4 DEF PointsAfter
    <3> QED
      BY <2>1, <2>2, <3>6, <3>7
  <2>5. CASE c # u
    <3>1. RowsOf(c)' = RowsOf(c) \cup {r \in r4 : r.who = c}
      BY <1>11, <1>16, <2>3, <2>5 DEF RowsOf
    <3>2. points'[c] = points[c] + (IF c = f /\ q THEN n ELSE 0)
      BY <1>2, <1>3, <1>20, <2>2, <2>5 DEF PointsAfter, Inv, TypeOK
    <3>3. CASE c = f /\ q
      <4>1. RowsOf(c)' = RowsOf(c) \cup r4
        BY <1>11, <3>1, <3>3
      <4>2. \A l \in RowsOf(c) : l.key # <<"referrer", u>>
        BY <1>10, <3>3 DEF RowsOf
      <4>3. Net(RowsOf(c) \cup r4) = Net(RowsOf(c)) + IF q THEN n ELSE 0
        BY <2>2, <4>2, <1>15
      <4>4. Net(RowsOf(c)') = Net(RowsOf(c)) + IF q THEN n ELSE 0
        BY <4>1, <4>3, Zenon
      <4> QED
        BY <2>1, <2>2, <3>2, <3>3, <4>4
    <3>4. CASE ~(c = f /\ q)
      <4>1. RowsOf(c)' = RowsOf(c)
        BY <1>11, <3>1, <3>4
      <4>2. Net(RowsOf(c)') = Net(RowsOf(c))
        BY <4>1, Zenon
      <4> QED
        BY <2>1, <2>2, <3>2, <3>4, <4>2 DEF Inv, TypeOK
    <3> QED
      BY <3>3, <3>4
  <2> QED
    BY <2>4, <2>5
<1>23. PointsAddUp'
  BY <1>20, <1>22 DEF PointsAddUp
<1> QED
  BY <1>20, <1>21, <1>23

LEMMA CommitHolds ==
    ASSUME Inv, NEW w \in Cashiers, CheckoutCommit(w)
    PROVE  Inv'
<1>1. PICK j \in CheckoutJob : j = till[w] /\ ReadSound(j)
  BY KindOfJob DEF CheckoutCommit, Inv, JobsSound, KnowsBill
<1>2. PICK b \in Bills, r \in RequestIds, s \in SaleRow :
        b = j.bill /\ r = j.req /\ s = sale[b]
  BY DEF CheckoutJob, Inv, TypeOK
<1>3. PICK gift \in Nat, paid \in Nat : gift = GiftPart(j) /\ paid = PaidNow(j)
  BY <1>1, FiguresOfAJob
<1>4. /\ Covered(j) /\ StillOpen(j) /\ Fresh(j)
      /\ sale' = [sale EXCEPT ![b] = Settled(j, @)]
      /\ card' = [balance |-> card.balance - gift, redeemed |-> card.redeemed + gift]
      /\ coupon' = IF ~j.locked /\ j.useCoupon THEN coupon + 1 ELSE coupon
      /\ referral' = IF Qualifies(j) THEN [referral EXCEPT ![Buyer[b]] = "REWARDED"] ELSE referral
      /\ taken' = [taken EXCEPT ![b][r] = @ + (IF paid > 0 THEN 1 ELSE 0)]
      /\ fixed' = [fixed EXCEPT ![b] = @ + (IF j.locked THEN 0 ELSE 1)]
      /\ till' = [till EXCEPT ![w] = NoJob]
      /\ UNCHANGED <<wallet, attempts>>
      /\ ledger' = Added(NewRows(j))
  BY <1>1, <1>2, <1>3 DEF CheckoutCommit
<1>5. PICK t \in SaleRow :
        /\ t = Settled(j, s)
        /\ t.status = IF FullyPaid(j) THEN "PAID" ELSE "OPEN"
        /\ t.refunded = s.refunded
        /\ t.requests = IF paid > 0 THEN s.requests \cup {r} ELSE s.requests
        /\ j.locked => t.off = s.off /\ t.byPoints = s.byPoints /\ t.total = s.total
        /\ ~j.locked => t.off + t.byPoints + t.total = Subtotal[b]
  <2>1. PICK t : t = Settled(j, s)
    OBVIOUS
  <2>2. /\ t \in SaleRow
        /\ t.status = IF FullyPaid(j) THEN "PAID" ELSE "OPEN"
        /\ t.refunded = s.refunded
        /\ t.requests = IF PaidNow(j) > 0 THEN s.requests \cup {j.req} ELSE s.requests
        /\ j.locked => t.off = s.off /\ t.byPoints = s.byPoints /\ t.total = s.total
        /\ ~j.locked => t.off + t.byPoints + t.total = Subtotal[j.bill]
    BY <1>1, <2>1, SettledRow, Zenon
  <2> QED
    BY <1>2, <1>3, <2>1, <2>2
<1>6. /\ sale' = [sale EXCEPT ![b] = t]
      /\ sale'[b] = t /\ sale[b] = s /\ s.status = "OPEN"
      /\ \A d \in Bills \ {b} : sale'[d] = sale[d]
      /\ sale' \in [Bills -> SaleRow]
  BY <1>2, <1>4, <1>5 DEF Inv, TypeOK, StillOpen
<1>7. \A d \in Bills : /\ sale[d].status = "PAID" => sale'[d].status = "PAID"
                       /\ sale'[d].refunded = sale[d].refunded
  BY <1>5, <1>6
<1>8. Summable(ledger)' /\ PointsAddUp' /\ points' \in [Customers -> Nat]
  BY CommitAddsUp
<1>9. /\ card.balance >= gift /\ card.balance \in Nat /\ card.redeemed \in Nat
      /\ card.balance + card.redeemed = CardValue
  BY <1>3, <1>4 DEF Covered, Inv, TypeOK, SharedFundsHold
<1>10. card' \in [balance : Nat, redeemed : Nat] /\ card'.balance + card'.redeemed = CardValue
  BY <1>4, <1>9
<1>11. coupon' \in Nat /\ coupon' <= CouponLimit
  BY <1>4, CheckoutAssumption DEF Covered, Inv, TypeOK, SharedFundsHold
<1>12. Buyer[b] \in Customers
  BY CheckoutAssumption
<1>13. referral' \in [Customers -> {"none", "PENDING", "REWARDED"}]
  BY <1>4, <1>12 DEF Inv, TypeOK
<1>14. /\ fixed' \in [Bills -> Nat]
       /\ \A d \in Bills : fixed[d] > 0 => fixed'[d] > 0
       /\ ~j.locked => fixed'[b] > 0
  BY <1>4 DEF Inv, TypeOK
<1>15. /\ taken' \in [Bills -> [RequestIds -> Nat]]
       /\ \A d \in Bills, x \in RequestIds :
            taken'[d][x] = taken[d][x] + IF d = b /\ x = r /\ paid > 0 THEN 1 ELSE 0
  BY <1>4 DEF Inv, TypeOK
<1>16. TypeOK'
  BY <1>4, <1>6, <1>8, <1>10, <1>11, <1>13, <1>14, <1>15 DEF Inv, TypeOK
<1>17. BillsSound'
  BY <1>5, <1>6 DEF Inv, BillsSound, SaleRow
<1>18. JobsSound'
  BY <1>4, <1>7, OthersKnow
<1>19. RequestsCounted'
  <2> SUFFICES ASSUME NEW d \in Bills, NEW x \in RequestIds
               PROVE  taken'[d][x] = IF x \in sale'[d].requests THEN 1 ELSE 0
    BY DEF RequestsCounted
  <2>1. taken[d][x] = IF x \in sale[d].requests THEN 1 ELSE 0
    BY DEF Inv, RequestsCounted
  <2>2. CASE d = b /\ x = r /\ paid > 0
    <3>1. r \notin s.requests
      BY <1>1, <1>2, <1>3, <1>4, <2>2 DEF Fresh
    <3> QED
      BY <1>5, <1>6, <1>15, <2>1, <2>2, <3>1
  <2>3. CASE ~(d = b /\ x = r /\ paid > 0)
    <3>1. x \in sale'[d].requests <=> x \in sale[d].requests
      BY <1>5, <1>6, <2>3
    <3> QED
      BY <1>15, <2>1, <2>3, <3>1
  <2> QED
    BY <2>2, <2>3
<1>20. PICK q \in BOOLEAN, u \in Customers : (q <=> Qualifies(j)) /\ u = Buyer[b]
  BY <1>12
<1>21. /\ q => t.status = "PAID" /\ Subtotal[b] >= MinPurchase /\ referral[u] = "PENDING"
       /\ referral' = IF q THEN [referral EXCEPT ![u] = "REWARDED"] ELSE referral
       /\ \A c \in Customers : referral'[c] = "REWARDED" <=> referral[c] = "REWARDED" \/ (q /\ c = u)
  BY <1>1, <1>2, <1>4, <1>5, <1>20 DEF Qualifies, Inv, TypeOK
<1>22. \A x \in ledger' : \/ x \in ledger
                          \/ x.key = <<"redeem", b>> /\ x.who = u /\ fixed'[b] > 0
                          \/ x.key = <<"earn", b>> /\ x.who = u /\ t.status = "PAID"
                          \/ x \in Rewards(u) /\ q
  <2>1. Spent(j) > 0 => ~j.locked
    BY DEF Spent
  <2> QED
    BY <1>2, <1>4, <1>5, <1>14, <1>20, <2>1 DEF Added, NewRows, Row, Rewards, RewardRow
<1>23. LedgerTells'
  <2> SUFFICES ASSUME NEW x \in ledger'
               PROVE  RowTells(x)'
    BY DEF LedgerTells
  <2>1. CASE x \in ledger
    <3>1. RowTells(x)
      BY <2>1 DEF Inv, LedgerTells
    <3> QED
      BY <1>7, <1>14, <1>21, <3>1 DEF RowTells
  <2>2. CASE x.key = <<"redeem", b>> /\ x.who = u /\ fixed'[b] > 0
    BY <1>20, <2>2 DEF RowTells
  <2>3. CASE x.key = <<"earn", b>> /\ x.who = u /\ t.status = "PAID"
    BY <1>6, <1>20, <2>3 DEF RowTells
  <2>4. CASE x \in Rewards(u) /\ q
    BY <1>21, <2>4 DEF RowTells
  <2> QED
    BY <1>22, <2>1, <2>2, <2>3, <2>4
<1>24. RewardsGiven'
  <2>1. referral'[Friend] = "none"
    BY <1>21, CheckoutAssumption DEF Inv, RewardsGiven, TypeOK
  <2>2. ledger \subseteq ledger'
    BY <1>4 DEF Added
  <2>3. ASSUME NEW c \in Customers, referral'[c] = "REWARDED"
        PROVE  /\ Rewards(c) \subseteq ledger'
               /\ \E d \in Bills : Buyer[d] = c /\ sale'[d].status = "PAID" /\ Subtotal[d] >= MinPurchase
    <3>1. CASE referral[c] = "REWARDED"
      BY <1>7, <2>2, <3>1 DEF Inv, RewardsGiven
    <3>2. CASE q /\ c = u
      <4>1. Rewards(u) \subseteq NewRows(j)
        BY <1>2, <1>20, <3>2 DEF Rewards, RewardRow, NewRows, Row
      <4>2. \A l \in ledger : \A x \in Rewards(u) : l.key # x.key
        <5> SUFFICES ASSUME NEW l \in ledger, NEW x \in Rewards(u)
                     PROVE  l.key # x.key
          OBVIOUS
        <5>1. RowTells(l) /\ x.key \in {<<"referred", u>>, <<"referrer", u>>}
          BY DEF Inv, LedgerTells, Rewards, RewardRow
        <5>2. CASE \E d \in Bills : l.key = <<"redeem", d>>
          BY <5>1, <5>2
        <5>3. CASE \E d \in Bills : l.key = <<"earn", d>>
          BY <5>1, <5>3
        <5>4. CASE \E d \in Customers : l \in Rewards(d) /\ referral[d] = "REWARDED"
          BY <1>21, <3>2, <5>1, <5>4 DEF Rewards, RewardRow
        <5> QED
          BY <5>1, <5>2, <5>3, <5>4 DEF RowTells
      <4>3. Rewards(u) \subseteq ledger'
        BY <1>4, <4>1, <4>2 DEF Added
      <4> QED
        BY <1>6, <1>20, <1>21, <3>2, <4>3
    <3> QED
      BY <1>21, <2>3, <3>1, <3>2
  <2> QED
    BY <2>1, <2>3 DEF RewardsGiven
<1>25. WalletsBacked'
  <2>1. \A c \in Customers : RefundsTo(c)' = RefundsTo(c)
    BY <1>7 DEF RefundsTo
  <2> QED
    BY <1>4, <2>1 DEF Inv, WalletsBacked
<1>26. SharedFundsHold'
  BY <1>9, <1>10, <1>11 DEF SharedFundsHold
<1> QED
  BY <1>8, <1>16, <1>17, <1>18, <1>19, <1>23, <1>24, <1>25, <1>26 DEF Inv

LEMMA StepHolds == Inv /\ [CheckoutNext]_checkoutVars => Inv'
<1> SUFFICES ASSUME Inv, [CheckoutNext]_checkoutVars
             PROVE  Inv'
  OBVIOUS
<1>1. ASSUME NEW w \in Cashiers, NEW b \in Bills, CheckoutBegin(w, b) \/ RefundBegin(w, b)
      PROVE  Inv'
  BY <1>1, CheckoutBeginHolds, RefundBeginHolds
<1>2. ASSUME NEW w \in Cashiers, NEW c \in Customers, AttachBegin(w, c)
      PROVE  Inv'
  BY <1>2, AttachBeginHolds
<1>3. ASSUME NEW w \in Cashiers,
             ReadCard(w) \/ CheckoutCommit(w) \/ RefundCommit(w) \/ AttachCommit(w) \/ GiveUp(w)
      PROVE  Inv'
  BY <1>3, ReadCardHolds, CommitHolds, RefundCommitHolds, AttachCommitHolds, GiveUpHolds
<1>4. CASE UNCHANGED checkoutVars
  <2>1. UNCHANGED <<sale, points, ledger, card, coupon, referral, wallet, till, taken, fixed, attempts>>
    BY <1>4 DEF checkoutVars
  <2>2. TypeOK' /\ BillsSound' /\ RequestsCounted'
    BY <2>1 DEF Inv, TypeOK, BillsSound, RequestsCounted
  <2>3. JobsSound' /\ Summable(ledger)' /\ LedgerTells' /\ RewardsGiven'
    BY <2>1 DEF Inv, JobsSound, KnowsBill, Summable, LedgerTells, RowTells, RewardsGiven
  <2>4. WalletsBacked' /\ SharedFundsHold' /\ PointsAddUp'
    BY <2>1 DEF Inv, WalletsBacked, RefundsTo, SharedFundsHold, PointsAddUp, RowsOf
  <2> QED
    BY <2>2, <2>3, <2>4 DEF Inv
<1> QED
  BY <1>1, <1>2, <1>3, <1>4 DEF CheckoutNext

LEMMA InvHolds == CheckoutSpec => []Inv
  BY InitHolds, StepHolds, PTL DEF CheckoutSpec

-----------------------------------------------------------------------------
(* The theorems *)

\* Every row, every request in flight and every counter keeps its type.
THEOREM TypeCorrect == CheckoutSpec => []TypeOK
<1>1. Inv => TypeOK
  BY DEF Inv
<1> QED
  BY <1>1, InvHolds, PTL

\* A customer's points are what they had plus the rows of the points ledger and
\* never below zero, however checkouts overlap (orders.service.ts:1600).
THEOREM PointsMatchTheirLedger == CheckoutSpec => []PointsAddUp
<1>1. Inv => PointsAddUp
  BY DEF Inv
<1> QED
  BY <1>1, InvHolds, PTL

\* The gift card and the coupon are never used beyond what they were issued for
\* (gift-cards.service.ts:63-72, marketing.service.ts:202).
THEOREM NothingIsSpentTwice == CheckoutSpec => []SharedFundsHold
<1>1. Inv => SharedFundsHold
  BY DEF Inv
<1> QED
  BY <1>1, InvHolds, PTL

\* A repeated request takes money once (orders.service.ts:1514).
THEOREM RequestsAreOnce == CheckoutSpec => []RequestTakesMoneyOnce
<1>1. Inv => RequestTakesMoneyOnce
  BY DEF Inv, RequestsCounted, RequestTakesMoneyOnce
<1> QED
  BY <1>1, InvHolds, PTL

\* Refunds never give back more than the bill, nor a wallet more than refunds
\* (orders.service.ts:1918-1925).
THEOREM RefundsFitTheBill == CheckoutSpec => []RefundsWithinBill
<1>1. Inv => RefundsWithinBill
  BY DEF Inv, BillsSound, WalletsBacked, RefundsWithinBill
<1> QED
  BY <1>1, InvHolds, PTL

LEMMA InvPaysRewardsOnce == Inv => RewardPaidOnce
<1> SUFFICES ASSUME Inv, NEW c \in Customers
             PROVE
      LET rows == {r \in ledger : r.key \in {<<"referred", c>>, <<"referrer", c>>}}
          gained(d) == points[d] - OpeningPoints[d] - Net(RowsOf(d) \ rows)
      IN  /\ Cardinality(rows) = IF referral[c] = "REWARDED" THEN 2 ELSE 0
          /\ referral[c] = "REWARDED" =>
               \E b \in Bills : Buyer[b] = c /\ sale[b].status = "PAID" /\ Subtotal[b] >= MinPurchase
          /\ (\A b \in Bills : fixed[b] <= 1) =>
               \A d \in {c, Friend} :
                 gained(d) = IF referral[c] = "REWARDED" THEN RewardPoints ELSE 0
  BY DEF RewardPaidOnce
<1> DEFINE rows == {r \in ledger : r.key \in {<<"referred", c>>, <<"referrer", c>>}}
           mine == RewardRow("referred", c, c)
           theirs == RewardRow("referrer", c, Friend)
<1>1. rows = IF referral[c] = "REWARDED" THEN {mine, theirs} ELSE {}
  <2>1. ASSUME NEW r \in rows
        PROVE  referral[c] = "REWARDED" /\ r \in Rewards(c)
    <3>1. RowTells(r) /\ r.key \in {<<"referred", c>>, <<"referrer", c>>}
      BY DEF Inv, LedgerTells
    <3>2. ~ \E b \in Bills : r.key = <<"redeem", b>> \/ r.key = <<"earn", b>>
      BY <3>1
    <3>3. PICK d \in Customers : r \in Rewards(d) /\ referral[d] = "REWARDED"
      BY <3>1, <3>2 DEF RowTells
    <3>4. d = c
      BY <3>1, <3>3 DEF Rewards, RewardRow
    <3> QED
      BY <3>3, <3>4
  <2>2. referral[c] = "REWARDED" => Rewards(c) \subseteq rows
    BY DEF Inv, RewardsGiven, Rewards, RewardRow
  <2>3. Rewards(c) = {mine, theirs}
    BY DEF Rewards
  <2> HIDE DEF rows, mine, theirs
  <2> QED
    BY <2>1, <2>2, <2>3
<1>2. /\ mine # theirs /\ mine.who = c /\ theirs.who = Friend
      /\ mine.delta = RewardPoints /\ theirs.delta = RewardPoints
  BY DEF RewardRow
<1>3. rows \subseteq ledger
  OBVIOUS
<1> HIDE DEF rows, mine, theirs
<1>4. Cardinality(rows) = IF referral[c] = "REWARDED" THEN 2 ELSE 0
  <2>1. IsFiniteSet({}) /\ Cardinality({}) = 0
    BY FS_EmptySet
  <2>2. IsFiniteSet({mine}) /\ Cardinality({mine}) = 1
    BY FS_Singleton
  <2>3. Cardinality({mine} \cup {theirs}) = 2
    <3>1. theirs \notin {mine}
      BY <1>2
    <3>2. Cardinality({mine} \cup {theirs}) =
            IF theirs \in {mine} THEN Cardinality({mine}) ELSE Cardinality({mine}) + 1
      BY <2>2, FS_AddElement, Zenon
    <3> QED
      BY <2>2, <3>1, <3>2
  <2>4. {mine} \cup {theirs} = {mine, theirs}
    OBVIOUS
  <2> QED
    BY <1>1, <2>1, <2>3, <2>4
<1>5. ASSUME \A b \in Bills : fixed[b] <= 1, NEW d \in {c, Friend}
      PROVE  points[d] - OpeningPoints[d] - Net(RowsOf(d) \ rows) =
               IF referral[c] = "REWARDED" THEN RewardPoints ELSE 0
  <2>1. d \in Customers /\ OpeningPoints[d] \in Int /\ RewardPoints \in Int /\ points[d] \in Int
    BY CheckoutAssumption DEF Inv, TypeOK
  <2>2. points[d] = OpeningPoints[d] + Net(RowsOf(d))
    BY <1>5, <2>1 DEF Inv, PointsAddUp
  <2> DEFINE rest == RowsOf(d) \ rows
  <2>3. Summable(rest) /\ Net(rest) \in Int
    <3>1. rest \subseteq ledger
      BY DEF RowsOf
    <3> QED
      BY <3>1, NetOfFewer DEF Inv
  <2>4. CASE referral[c] = "REWARDED"
    <3>1. c # Friend
      BY <2>4 DEF Inv, RewardsGiven
    <3>2. PICK r \in rows : /\ r.delta = RewardPoints /\ r \in RowsOf(d)
                            /\ RowsOf(d) = rest \cup {r} /\ r \notin rest
      <4>1. CASE d = c
        <5>1. RowsOf(d) = rest \cup {mine} /\ mine \in rows
          BY <1>1, <1>2, <1>3, <2>4, <3>1, <4>1 DEF RowsOf
        <5> QED
          BY <1>2, <5>1
      <4>2. CASE d = Friend
        <5>1. RowsOf(d) = rest \cup {theirs} /\ theirs \in rows
          BY <1>1, <1>2, <1>3, <2>4, <3>1, <4>2 DEF RowsOf
        <5> QED
          BY <1>2, <5>1
      <4> QED
        BY <4>1, <4>2
    <3> HIDE DEF rest
    <3>3. Net(rest \cup {r}) = Net(rest) + RewardPoints
      BY <2>1, <2>3, <3>2, NetOfOneMore
    <3>4. Net(RowsOf(d)) = Net(rest) + RewardPoints
      BY <3>2, <3>3, Zenon
    <3>5. points[d] - OpeningPoints[d] - Net(rest) = RewardPoints
      BY <2>1, <2>2, <2>3, <3>4
    <3> QED
      BY <2>4, <3>5 DEF rest
  <2>5. CASE referral[c] # "REWARDED"
    <3>1. rest = RowsOf(d)
      BY <1>1, <2>5
    <3>2. Net(rest) = Net(RowsOf(d))
      BY <3>1, Zenon
    <3> HIDE DEF rest
    <3>3. points[d] - OpeningPoints[d] - Net(rest) = 0
      BY <2>1, <2>2, <2>3, <3>2
    <3> QED
      BY <2>5, <3>3 DEF rest
  <2> QED
    BY <2>4, <2>5
<1>6. referral[c] = "REWARDED" =>
        \E b \in Bills : Buyer[b] = c /\ sale[b].status = "PAID" /\ Subtotal[b] >= MinPurchase
  BY DEF Inv, RewardsGiven
<1> QED
  BY <1>4, <1>5, <1>6 DEF rows

\* A referral is rewarded once, on both sides together, and only after a paid
\* bill of the minimum (referrals.service.ts:180-185).
THEOREM RewardsAreOnce == CheckoutSpec => []RewardPaidOnce
  BY InvPaysRewardsOnce, InvHolds, PTL
=============================================================================
