------------------------------ MODULE Checkout ------------------------------
(***************************************************************************)
(* What a checkout and a refund do to the things that bills share: loyalty *)
(* points and their ledger, gift cards, coupons and referral rewards       *)
(* (apps/backend/src/modules: orders/orders.service.ts checkout and        *)
(* refund, orders/settlement.ts, gift-cards, marketing, referrals).        *)
(*                                                                         *)
(* A request reads the bill, then the gift card, and then commits.  Every  *)
(* guarded update of the transaction locks its row until the end, so its   *)
(* guard sees at the commit what it saw when it ran: the guards are        *)
(* evaluated in CheckoutCommit.  The table and the kitchen are in Orders,  *)
(* the ingredients in Stock.  One point is worth one unit of money.        *)
(***************************************************************************)
EXTENDS Integers, FiniteSets, FiniteSetsExt

CONSTANTS
    Cashiers,       \* requests in flight
    Bills,          \* orders
    Subtotal,       \* [Bills -> Nat]
    Buyer,          \* [Bills -> Customers]
    Customers,
    Friend,         \* the customer whose code the others use
    OpeningPoints,  \* [Customers -> Nat]
    CardValue,      \* the gift card as issued
    CouponOff,      \* the coupon's discount
    CouponLimit,    \* usageLimit
    EarnPer,        \* loyaltyEarnPerCurrency
    RewardPoints,   \* points of each side of a referral
    MinPurchase,    \* referralMinPurchase
    Asked,          \* points a guest may ask to redeem
    Cash,           \* amounts of a payment line
    PartPayments,   \* values of allowPartial
    RequestIds,     \* client keys of the attempts on a bill
    MaxAttempts,    \* bound: requests ever made
    NoJob

ASSUME CheckoutAssumption ==
    /\ Subtotal \in [Bills -> Nat] /\ Buyer \in [Bills -> Customers]
    /\ Friend \in Customers /\ OpeningPoints \in [Customers -> Nat]
    /\ {CardValue, CouponOff, CouponLimit, RewardPoints, MinPurchase, MaxAttempts} \subseteq Nat
    /\ EarnPer \in Nat \ {0} /\ Asked \subseteq Nat /\ Cash \subseteq Nat
    /\ PartPayments \subseteq BOOLEAN /\ RewardPoints > 0

VARIABLES
    sale,       \* [Bills -> the order row with its payments and refunds]
    points,     \* [Customers -> Int]: Customer.loyaltyPoints
    ledger,     \* PointsLedger rows, unique by key
    card,       \* [balance, redeemed]: the gift card and its redemptions
    coupon,     \* usedCount
    referral,   \* [Customers -> {"none", "PENDING", "REWARDED"}], by referred customer
    wallet,     \* [Customers -> Nat]
    till,       \* [Cashiers -> request in progress or NoJob]
    taken,      \* [Bills -> [RequestIds -> Nat]]: history, commits of a request
    fixed,      \* [Bills -> Nat]: history, transactions which fixed the figures
    attempts    \* number of requests made

checkoutVars == <<sale, points, ledger, card, coupon, referral, wallet, till, taken, fixed, attempts>>
shared == <<sale, points, ledger, card, coupon, referral, wallet, taken, fixed>>

-----------------------------------------------------------------------------
\* computeBill: points are tender and never pay more than the bill.
Discount(j)  == IF j.useCoupon THEN Min({CouponOff, Subtotal[j.bill]}) ELSE 0
Redeemed(j)  == Min({j.ask, Subtotal[j.bill] - Discount(j)})
TotalDue(j)  == IF j.locked THEN j.was.total ELSE Subtotal[j.bill] - Discount(j) - Redeemed(j)
Balance(j)   == TotalDue(j) - j.was.paid

\* Gift card first: what the payment lines leave open, up to the card's balance.
GiftPart(j)  == IF j.useCard /\ Balance(j) > j.cash THEN Min({j.onCard, Balance(j) - j.cash}) ELSE 0
\* settlePayments: more cash than is due is change.
CashPart(j)  == Min({j.cash, Max({Balance(j), 0})})
PaidNow(j)   == CashPart(j) + GiftPart(j)
FullyPaid(j) == PaidNow(j) >= Balance(j)
Settles(j)   == FullyPaid(j) \/ (j.partial /\ PaidNow(j) > 0)

Earned(j) == IF j.locked THEN (Subtotal[j.bill] - j.was.off - j.was.byPoints) \div EarnPer
             ELSE (Subtotal[j.bill] - Discount(j) - Redeemed(j)) \div EarnPer

-----------------------------------------------------------------------------
\* The reads of checkout: a replayed request is answered from the payments, a
\* bill that has taken money keeps its figures and refuses new adjustments.
CheckoutBegin(w, b) ==
    /\ till[w] = NoJob /\ attempts < MaxAttempts
    /\ sale[b].status = "OPEN"
    /\ \E ask \in Asked, useCoupon, useCard \in BOOLEAN, cash \in Cash,
          partial \in PartPayments, req \in RequestIds :
         /\ req \notin sale[b].requests
         /\ sale[b].paid > 0 => ask = 0 /\ ~useCoupon
         /\ useCoupon => coupon < CouponLimit
         /\ till' = [till EXCEPT ![w] =
              [kind |-> "checkout", bill |-> b, req |-> req, was |-> sale[b],
               locked |-> sale[b].paid > 0, ask |-> ask, useCoupon |-> useCoupon,
               useCard |-> useCard, onCard |-> 0, cardRead |-> ~useCard,
               cash |-> cash, partial |-> partial]]
    /\ attempts' = attempts + 1
    /\ UNCHANGED shared

\* giftCards.debit reads the balance if the payment lines leave something open;
\* a card with nothing on it fails the request.
ReadCard(w) ==
    /\ till[w] # NoJob /\ till[w].kind = "checkout" /\ ~till[w].cardRead
    /\ Balance(till[w]) > till[w].cash => card.balance > 0
    /\ till' = [till EXCEPT ![w].onCard = card.balance, ![w].cardRead = TRUE]
    /\ UNCHANGED <<shared, attempts>>

\* Variant: the debit and the redemption are not guarded by what is left.
Covered_unguarded(j) == TRUE

\* The guarded updates: coupon uses, points, gift card.
Covered(j) ==
    /\ ~j.locked /\ j.useCoupon => coupon < CouponLimit
    /\ ~j.locked => points[Buyer[j.bill]] >= j.ask
    /\ card.balance >= GiftPart(j)

\* Variant: no unique key on the request of a payment.
Fresh_anyRequest(j) == TRUE

\* The status in the update's where clause, and the unique request of a payment.
StillOpen(j) == sale[j.bill].status = "OPEN"
Fresh(j)     == PaidNow(j) > 0 => j.req \notin sale[j.bill].requests

\* recordOrderPoints skips a row whose key is there; a referral's rows are new.
Row(key, c, n, made) == IF made THEN {[key |-> key, who |-> c, delta |-> n]} ELSE {}
Added(rows) == ledger \cup {r \in rows : \A l \in ledger : l.key # r.key}

\* Variant: a part-payment qualifies as well.
Qualifies_partPaid(j) ==
    /\ TotalDue(j) > 0 /\ Subtotal[j.bill] >= MinPurchase
    /\ referral[Buyer[j.bill]] = "PENDING"

\* onOrderPaid claims the referral under a guard on its status.
Qualifies(j) ==
    /\ FullyPaid(j) /\ TotalDue(j) > 0 /\ Subtotal[j.bill] >= MinPurchase
    /\ referral[Buyer[j.bill]] = "PENDING"

\* Points only fix the figures once: a later part-payment spends none.
Spent(j) == IF j.locked THEN 0 ELSE j.ask

NewRows(j) ==
    LET c == Buyer[j.bill] IN
    Row(<<"redeem", j.bill>>, c, -Spent(j), Spent(j) > 0)
      \cup Row(<<"earn", j.bill>>, c, Earned(j), FullyPaid(j) /\ Earned(j) > 0)
      \cup Row(<<"referred", c>>, c, RewardPoints, Qualifies(j))
      \cup Row(<<"referrer", c>>, Friend, RewardPoints, Qualifies(j))

\* Variant: the balance is set from the points read at the start.
PointsAfter_earnOnly(j, c) ==
    points[c] + (IF FullyPaid(j) /\ c = Buyer[j.bill] THEN Earned(j) ELSE 0)

\* The decrement and the increments of the balance.
PointsAfter(j, c) ==
    points[c] - (IF c = Buyer[j.bill] THEN Spent(j) ELSE 0)
              + (IF c = Buyer[j.bill] /\ FullyPaid(j) THEN Earned(j) ELSE 0)
              + (IF c \in {Buyer[j.bill], Friend} /\ Qualifies(j) THEN RewardPoints ELSE 0)

\* The order's row with its new payments; what is locked keeps its figures.
Settled(j, s) ==
    [s EXCEPT !.status = IF FullyPaid(j) THEN "PAID" ELSE "OPEN",
              !.paid = @ + PaidNow(j),
              !.total = IF j.locked THEN @ ELSE TotalDue(j),
              !.off = IF j.locked THEN @ ELSE Discount(j),
              !.byPoints = IF j.locked THEN @ ELSE Redeemed(j),
              !.requests = IF PaidNow(j) > 0 THEN @ \cup {j.req} ELSE @]

CheckoutCommit(w) ==
    LET j == till[w]
        b == j.bill
    IN
    /\ j # NoJob /\ j.kind = "checkout" /\ j.cardRead
    /\ Settles(j) /\ Covered(j) /\ StillOpen(j) /\ Fresh(j)
    /\ sale' = [sale EXCEPT ![b] = Settled(j, @)]
    /\ points' = [c \in Customers |-> PointsAfter(j, c)]
    /\ ledger' = Added(NewRows(j))
    /\ card' = [balance |-> card.balance - GiftPart(j), redeemed |-> card.redeemed + GiftPart(j)]
    /\ coupon' = IF ~j.locked /\ j.useCoupon THEN coupon + 1 ELSE coupon
    /\ referral' = IF Qualifies(j) THEN [referral EXCEPT ![Buyer[b]] = "REWARDED"] ELSE referral
    /\ taken' = [taken EXCEPT ![b][j.req] = @ + (IF PaidNow(j) > 0 THEN 1 ELSE 0)]
    /\ fixed' = [fixed EXCEPT ![b] = @ + (IF j.locked THEN 0 ELSE 1)]
    /\ till' = [till EXCEPT ![w] = NoJob]
    /\ UNCHANGED <<wallet, attempts>>

\* Any refusal or failure rolls the whole transaction back.
GiveUp(w) ==
    /\ till[w] # NoJob
    /\ till' = [till EXCEPT ![w] = NoJob]
    /\ UNCHANGED <<shared, attempts>>

-----------------------------------------------------------------------------
RefundBegin(w, b) ==
    /\ till[w] = NoJob /\ attempts < MaxAttempts
    /\ sale[b].status = "PAID"
    /\ \E amount \in Cash \ {0}, credit \in BOOLEAN :
         till' = [till EXCEPT ![w] = [kind |-> "refund", bill |-> b, was |-> sale[b],
                                      amount |-> amount, credit |-> credit]]
    /\ attempts' = attempts + 1
    /\ UNCHANGED shared

\* Variant: the refunds are read before the row is locked.
Refundable_asRead(j) == j.was.total - j.was.refunded

\* The refunds are read under the lock of the order's row.
Refundable(j) == sale[j.bill].total - sale[j.bill].refunded

RefundCommit(w) ==
    LET j == till[w] IN
    /\ j # NoJob /\ j.kind = "refund" /\ j.amount <= Refundable(j)
    /\ sale' = [sale EXCEPT ![j.bill].refunded = @ + j.amount]
    /\ wallet' = IF j.credit THEN [wallet EXCEPT ![Buyer[j.bill]] = @ + j.amount] ELSE wallet
    /\ till' = [till EXCEPT ![w] = NoJob]
    /\ UNCHANGED <<points, ledger, card, coupon, referral, taken, fixed, attempts>>

\* attach reads that the customer is new and not referred, and inserts under a
\* unique key.
AttachBegin(w, c) ==
    /\ till[w] = NoJob /\ attempts < MaxAttempts
    /\ c # Friend /\ referral[c] = "none"
    /\ \A b \in Bills : Buyer[b] = c => sale[b].status # "PAID"
    /\ till' = [till EXCEPT ![w] = [kind |-> "attach", who |-> c]]
    /\ attempts' = attempts + 1
    /\ UNCHANGED shared

AttachCommit(w) ==
    LET j == till[w] IN
    /\ j # NoJob /\ j.kind = "attach" /\ referral[j.who] = "none"
    /\ referral' = [referral EXCEPT ![j.who] = "PENDING"]
    /\ till' = [till EXCEPT ![w] = NoJob]
    /\ UNCHANGED <<sale, points, ledger, card, coupon, wallet, taken, fixed, attempts>>

-----------------------------------------------------------------------------
CheckoutInit ==
    /\ sale = [b \in Bills |-> [status |-> "OPEN", paid |-> 0, total |-> Subtotal[b], off |-> 0,
                                byPoints |-> 0, requests |-> {}, refunded |-> 0]]
    /\ points = OpeningPoints /\ ledger = {}
    /\ card = [balance |-> CardValue, redeemed |-> 0]
    /\ coupon = 0
    /\ referral = [c \in Customers |-> "none"]
    /\ wallet = [c \in Customers |-> 0]
    /\ till = [w \in Cashiers |-> NoJob]
    /\ taken = [b \in Bills |-> [r \in RequestIds |-> 0]]
    /\ fixed = [b \in Bills |-> 0]
    /\ attempts = 0

CheckoutNext ==
    \E w \in Cashiers :
      \/ \E b \in Bills : CheckoutBegin(w, b) \/ RefundBegin(w, b)
      \/ \E c \in Customers : AttachBegin(w, c)
      \/ ReadCard(w) \/ CheckoutCommit(w) \/ RefundCommit(w) \/ AttachCommit(w) \/ GiveUp(w)

CheckoutSpec == CheckoutInit /\ [][CheckoutNext]_checkoutVars

-----------------------------------------------------------------------------
RowsOf(c) == {r \in ledger : r.who = c}

\* The sum of the deltas of a set of rows, point by point.
Credits(rows) == UNION {{r} \X (1 .. r.delta) : r \in rows}
Debits(rows)  == UNION {{r} \X (1 .. -r.delta) : r \in rows}
Net(rows)     == Cardinality(Credits(rows)) - Cardinality(Debits(rows))

\* A customer's points are what they had plus the rows of the points ledger,
\* and never below zero, however checkouts overlap (orders.service.ts:1600,
\* referrals.service.ts:183).  Excepted: a buyer one of whose bills was fixed
\* by two overlapping part-payments, which redeem twice under one key.
PointsAddUp ==
    \A c \in Customers :
      /\ points[c] >= 0
      /\ (\A b \in Bills : Buyer[b] = c => fixed[b] <= 1) =>
           points[c] = OpeningPoints[c] + Net(RowsOf(c))

\* A gift card and a coupon are used by any number of bills at once and neither
\* is used for more than it was issued for (gift-cards.service.ts:63-72,
\* marketing.service.ts:202).
SharedFundsHold ==
    /\ card.balance >= 0 /\ card.balance + card.redeemed = CardValue
    /\ coupon <= CouponLimit

\* The reward of a referral is paid once, to both sides together, and only
\* after the referred customer has paid a bill of the minimum
\* (referrals.service.ts:180-185).
RewardPaidOnce ==
    \A c \in Customers :
      LET rows == {r \in ledger : r.key \in {<<"referred", c>>, <<"referrer", c>>}}
          gained(d) == points[d] - OpeningPoints[d] - Net(RowsOf(d) \ rows)
      IN  /\ Cardinality(rows) = IF referral[c] = "REWARDED" THEN 2 ELSE 0
          /\ referral[c] = "REWARDED" =>
               \E b \in Bills : Buyer[b] = c /\ sale[b].status = "PAID" /\ Subtotal[b] >= MinPurchase
          /\ (\A b \in Bills : fixed[b] <= 1) =>
               \A d \in {c, Friend} :
                 gained(d) = IF referral[c] = "REWARDED" THEN RewardPoints ELSE 0

\* What was given back on the bills of a customer, unit by unit.
RefundsTo(c) == UNION {{b} \X (1 .. sale[b].refunded) : b \in {d \in Bills : Buyer[d] = c}}

\* Two refunds at once never give back more than the bill came to
\* (orders.service.ts:1918-1925).
RefundsWithinBill ==
    /\ \A b \in Bills : sale[b].refunded <= sale[b].total
    /\ \A c \in Customers :
         wallet[c] <= Cardinality(RefundsTo(c))

\* A request that is repeated, also while the first try is under way, takes
\* money once (orders.service.ts:1514, schema.prisma:1725).
RequestTakesMoneyOnce == \A b \in Bills, r \in RequestIds : taken[b][r] <= 1

\* "Only the first payment fixes the discount; later part-payments reuse it."
\* (orders.service.ts:1562).  Two part-payments which both read an unpaid bill
\* both fix it.
BillFixedOnce == \A b \in Bills : fixed[b] <= 1
=============================================================================
