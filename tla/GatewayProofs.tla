--------------------------- MODULE GatewayProofs ---------------------------
(***************************************************************************)
(* Proofs about module GatewayPayments, for any number of payments,        *)
(* refunds and requests in flight, any bill and any choice of failures.    *)
(*                                                                         *)
(* The invariant Inv says what a request in flight may still rely on after *)
(* an await: that it alone inserts, settles or refunds its row, that the   *)
(* provider's answer it holds is still true, and what its claim protects.  *)
(* With it the rows agree with the bill, refunds stay within the payment,  *)
(* and every step is one of PaymentLedger or changes nothing there.        *)
(***************************************************************************)
EXTENDS GatewayPayments, FiniteSetTheorems, TLAPS

Creating  == {"insert", "call", "save"}
Asking    == {"fetch", "act"}
Claiming  == {"settle", "pay", "done", "failed"}
Refunding == {"reserve", "send", "record", "recorded", "unrecorded"}

\* A payment row g with n rows in the bill and a hosted checkout in state l.
RowOK(g, n, l) ==
    /\ g.status = "NONE" => ~ g.ref
    /\ g.ref => g.amount >= 1
    /\ ~ g.ref => /\ l \in {"NONE", "OPEN", "EXPIRED"}
                  /\ g.status # "SUCCEEDED"
                  /\ n = 0
    /\ g.status = "SUCCEEDED" /\ g.mode = "LIVE" => n = 1
    /\ n = 1 => /\ l = "PAID" /\ g.mode = "LIVE"
                /\ \/ g.status \in {"SUCCEEDED", "NEEDS_REVIEW"}
                   \/ g.status = "CREATED" /\ g.applied

\* What a request q knows of the payment it works on.
KnowsPayment(q, g, n, l) ==
    /\ q.step \in Creating => ~ g.ref
    /\ q.step = "insert" => q.amount >= 1 /\ g.status = "NONE"
    /\ q.step \in {"call", "save"} => g.amount >= 1 /\ g.status # "NONE"
    /\ q.step \in Asking => g.ref
    /\ q.step = "act" /\ q.seen \in {"PAID", "PAID_OTHER", "EXPIRED"}
          => l = q.seen
    /\ q.step \in Claiming =>
          /\ g.ref /\ g.applied /\ g.mode = "LIVE" /\ l = "PAID"
          /\ g.status \in {"CREATED", "NEEDS_REVIEW"}
    /\ q.step = "pay" => n = 0
    /\ q.step = "done" => n = 1
    /\ q.step \in Refunding => n = 1 /\ q.amount >= 1

\* What a request q knows of the refund row h it works on.
KnowsRefund(q, h, s) ==
    /\ q.step = "reserve" => h.status = "NONE"
    /\ q.step \in Refunding \ {"reserve"} =>
          h.status = "PENDING" /\ h.of = q.pay /\ h.amount = q.amount
    /\ q.step = "send" => q.refund \notin s

RowsOK == \A p \in Payments : RowOK(gp[p], rows[p], link[p])
PointersOK == \A w \in Workers :
                /\ req[w].step # "idle" => req[w].pay \in Payments
                /\ req[w].step \in Refunding <=> req[w].refund \in Refunds
PaymentsOK == \A w \in Workers :
                req[w].step # "idle" =>
                    KnowsPayment(req[w], gp[req[w].pay], rows[req[w].pay],
                                 link[req[w].pay])
ReservedOK == \A w \in Workers :
                req[w].step \in Refunding =>
                    KnowsRefund(req[w], gr[req[w].refund], sent)
\* Two requests never make, settle or refund the same row.
Apart(q, x) ==
    /\ q.step \in Creating /\ x.step \in Creating => q.pay # x.pay
    /\ q.step \in Claiming /\ x.step \in Claiming => q.pay # x.pay
    /\ q.step \in Refunding /\ x.step \in Refunding => q.refund # x.refund
Exclusive == \A v, w \in Workers : v # w => Apart(req[v], req[w])
RefundsOK == \A r \in Refunds :
                /\ gr[r].status \in {"NONE", "FAILED"} => r \notin sent
                /\ gr[r].status # "NONE" =>
                      gr[r].of \in Payments /\ rows[gr[r].of] = 1
                /\ gr[r].amount <= Bill
\* What is reserved, sent or in doubt stays within the payment.
HeldOK == \A p \in Payments : Held(p) <= gp[p].amount

Inv == /\ TypeOK /\ RowsOK /\ PointersOK /\ PaymentsOK /\ ReservedOK
       /\ Exclusive /\ RefundsOK /\ HeldOK

-----------------------------------------------------------------------------
(* Lemmas about the units of refunds *)

\* UnitsOf over any refund rows g.
Units(g, rs, p) ==
    {u \in Refunds \X (1 .. Bill) :
        u[1] \in rs /\ g[u[1]].of = p /\ u[2] <= g[u[1]].amount}

\* The refunds Held counts.
Live(g) == {r \in Refunds : g[r].status \in {"PENDING", "SUCCEEDED",
                                             "NEEDS_REVIEW"}}

LEMMA UnitsFinite ==
    ASSUME NEW g, NEW rs, NEW p
    PROVE  /\ IsFiniteSet(Units(g, rs, p))
           /\ Cardinality(Units(g, rs, p)) \in Nat
<1>1. IsFiniteSet(Refunds) /\ IsFiniteSet(1 .. Bill)
  BY GatewayAssumption, FS_Interval
<1>2. IsFiniteSet(Refunds \X (1 .. Bill))
  BY <1>1, FS_Product
<1>3. IsFiniteSet(Units(g, rs, p))
  BY <1>2, FS_Subset DEF Units
<1> QED
  BY <1>3, FS_CardinalityType

\* Fewer refunds, each as it was, have no more units.
LEMMA UnitsFewer ==
    ASSUME NEW g, NEW h, NEW rs, NEW ss, NEW p, rs \subseteq ss,
           \A r \in Refunds \cap rs :
               h[r].of = g[r].of /\ h[r].amount = g[r].amount
    PROVE  /\ Units(h, rs, p) \subseteq Units(g, ss, p)
           /\ Cardinality(Units(h, rs, p)) <= Cardinality(Units(g, ss, p))
<1>1. Units(h, rs, p) \subseteq Units(g, ss, p)
  BY DEF Units
<1> QED
  BY <1>1, UnitsFinite, FS_Subset

LEMMA CountingTo ==
    ASSUME NEW n \in Nat
    PROVE  IsFiniteSet(1 .. n) /\ Cardinality(1 .. n) = n
<1>1. n \in Int /\ 1 \in Int
  OBVIOUS
<1>2. /\ IsFiniteSet(1 .. n)
      /\ Cardinality(1 .. n) = IF 1 > n THEN 0 ELSE n - 1 + 1
  BY ONLY <1>1, FS_Interval, Zenon
<1> QED
  BY <1>2

\* A refund more adds its amount.
LEMMA UnitsAdd ==
    ASSUME NEW g, NEW rs, NEW p, NEW r \in Refunds, r \notin rs,
           NEW a \in 0 .. Bill, g[r].of = p, g[r].amount = a
    PROVE  Cardinality(Units(g, rs \cup {r}, p)) =
               Cardinality(Units(g, rs, p)) + a
<1> DEFINE new == {r} \X (1 .. a)
<1>1. a \in Nat /\ a <= Bill /\ Bill \in Nat
  BY GatewayAssumption
<1>2. /\ IsFiniteSet(1 .. a)
      /\ Cardinality(1 .. a) = a
  BY <1>1, CountingTo
<1>3. IsFiniteSet(new) /\ Cardinality(new) = a
  <2>1. IsFiniteSet({r}) /\ Cardinality({r}) = 1
    BY FS_Singleton
  <2>2. /\ IsFiniteSet(new)
        /\ Cardinality(new) = Cardinality({r}) * Cardinality(1 .. a)
    BY <2>1, <1>2, FS_Product
  <2> QED
    BY <2>1, <2>2, <1>1, <1>2
<1>4. Units(g, rs \cup {r}, p) = Units(g, rs, p) \cup new
  BY <1>1 DEF Units
<1>5. Units(g, rs, p) \cap new = {}
  BY DEF Units
<1>6. Cardinality(Units(g, rs, p) \cap new) = 0
  BY <1>5, FS_EmptySet
<1> HIDE DEF new
<1>7. Cardinality(Units(g, rs, p) \cup new) =
          Cardinality(Units(g, rs, p)) + a - 0
  BY <1>3, <1>6, UnitsFinite, FS_Union
<1>8. Cardinality(Units(g, rs, p)) \in Nat
  BY UnitsFinite
<1>9. Cardinality(Units(g, rs \cup {r}, p)) =
          Cardinality(Units(g, rs, p)) + a - 0
  BY <1>4, <1>7
<1>10. \A x, y, z \in Nat : x = y + z - 0 => x = y + z
  OBVIOUS
<1>11. Cardinality(Units(g, rs \cup {r}, p)) \in Nat
  BY UnitsFinite
<1> QED
  BY <1>1, <1>8, <1>9, <1>10, <1>11

LEMMA UnitsNone ==
    ASSUME NEW g, NEW rs, NEW p, \A r \in Refunds \cap rs : g[r].of # p
    PROVE  Cardinality(Units(g, rs, p)) = 0
<1>1. Units(g, rs, p) = {}
  BY DEF Units
<1> QED
  BY <1>1, FS_EmptySet

LEMMA HeldUnits ==
    \A p : Held(p) = Cardinality(Units(gr, Live(gr), p))
  BY DEF Held, UnitsOf, Units, Live
-----------------------------------------------------------------------------
(* What happens to the request that takes a step *)

\* Request w becomes q, which works on a payment and a refund no other request
\* works on in the same way.
Goes(w, q) ==
    /\ q \in Request
    /\ req' = [req EXCEPT ![w] = q]
    /\ q.step # "idle" => q.pay \in Payments
    /\ q.step \in Refunding <=> q.refund \in Refunds
    /\ \A v \in Workers \ {w} : Apart(req[v], q)

\* Request w is over, or has only the webhook's event left to record.
Leaves(w) == \E q : Goes(w, q) /\ q.step \in {"idle", "ack"}

LEMMA GoesIsSound ==
    ASSUME Inv, NEW w \in Workers, NEW q, Goes(w, q)
    PROVE  /\ req' \in [Workers -> Request]
           /\ PointersOK'
           /\ Exclusive'
           /\ req'[w] = q
           /\ \A v \in Workers \ {w} : req'[v] = req[v]
<1>1. /\ req' \in [Workers -> Request]
      /\ req'[w] = q
      /\ \A v \in Workers \ {w} : req'[v] = req[v]
  BY DEF Inv, TypeOK, Goes
<1>2. PointersOK'
  BY <1>1 DEF Inv, PointersOK, Goes
<1>3. Exclusive'
  BY <1>1 DEF Inv, Exclusive, Goes, Apart
<1> QED
  BY <1>1, <1>2, <1>3

LEMMA IdleFacts ==
    /\ Idle \in Request
    /\ Idle.step = "idle" /\ Idle.refund \notin Refunds
  BY GatewayAssumption DEF Idle, Request, Steps, Modes, LinkState

LEMMA FinishGoes ==
    ASSUME NEW w \in Workers, Finish(w)
    PROVE  Goes(w, Idle) /\ Leaves(w)
<1>1. \A v \in Workers : Apart(req[v], Idle)
  BY IdleFacts DEF Apart, Creating, Claiming, Refunding
<1>2. Goes(w, Idle)
  BY <1>1, IdleFacts DEF Goes, Finish, Refunding
<1> QED
  BY <1>2, IdleFacts DEF Leaves

\* The new request after Goto.
At(w, s) == [req[w] EXCEPT !.step = s]

LEMMA AtFacts ==
    ASSUME TypeOK, NEW w \in Workers, NEW s \in Steps
    PROVE  /\ At(w, s) \in Request
           /\ At(w, s).step = s
           /\ At(w, s).pay = req[w].pay
           /\ At(w, s).refund = req[w].refund
           /\ At(w, s).amount = req[w].amount
           /\ At(w, s).seen = req[w].seen
  BY DEF TypeOK, At, Request

\* A request may move on to any step of its own kind, or to acknowledging.
LEMMA GotoGoes ==
    ASSUME Inv, NEW w \in Workers, NEW s \in Steps, Goto(w, s),
           s # "idle", req[w].step # "idle",
           s \in Creating => req[w].step \in Creating,
           s \in Claiming => req[w].step \in Claiming,
           s \in Refunding <=> req[w].step \in Refunding
    PROVE  Goes(w, At(w, s))
<1>1. \A v \in Workers \ {w} : Apart(req[v], At(w, s))
  BY AtFacts DEF Inv, Exclusive, Apart
<1>2. req' = [req EXCEPT ![w] = At(w, s)]
  BY DEF Inv, TypeOK, Goto, At
<1> QED
  BY <1>1, <1>2, AtFacts DEF Goes, Inv, PointersOK

LEMMA AfterRefreshLeaves ==
    ASSUME Inv, NEW w \in Workers, AfterRefresh(w),
           req[w].step \in Asking \cup Claiming
    PROVE  Leaves(w)
<1>1. CASE Finish(w)
  BY <1>1, FinishGoes
<1>2. CASE Goto(w, "ack")
  <2>1. Goes(w, At(w, "ack"))
    BY <1>2, GotoGoes DEF Steps, Creating, Claiming, Refunding, Asking
  <2> QED
    BY <2>1, AtFacts DEF Leaves, Steps, Inv
<1> QED
  BY <1>1, <1>2 DEF AfterRefresh

LEMMA NothingToKnow ==
    ASSUME NEW q, q.step \in {"idle", "ack"}
    PROVE  /\ \A g, n, l : KnowsPayment(q, g, n, l)
           /\ \A h, s : KnowsRefund(q, h, s)
           /\ q.step \notin Refunding
  BY DEF KnowsPayment, KnowsRefund, Creating, Claiming, Refunding, Asking

-----------------------------------------------------------------------------
(* What happens to the rows *)

OtherTypes == /\ bill' \in BillRow
              /\ event' \in [Payments -> {"none", "pending", "recorded"}]
              /\ erred' \in SUBSET Refunds
              /\ lost' \in SUBSET Payments

\* A step that only reads.
LEMMA ReadIsSound ==
    ASSUME Inv, NEW w \in Workers, NEW q, Goes(w, q), OtherTypes,
           UNCHANGED <<gp, rows, link, gr, sent>>,
           q.step # "idle" =>
               KnowsPayment(q, gp[q.pay], rows[q.pay], link[q.pay]),
           q.step \in Refunding => KnowsRefund(q, gr[q.refund], sent)
    PROVE  Inv'
<1>1. TypeOK' /\ PointersOK' /\ Exclusive'
  BY GoesIsSound DEF Inv, TypeOK, OtherTypes
<1>2. RowsOK' /\ RefundsOK' /\ HeldOK'
  BY DEF Inv, RowsOK, RefundsOK, HeldOK, Held, UnitsOf
<1>3. PaymentsOK' /\ ReservedOK'
  BY GoesIsSound DEF Inv, PaymentsOK, ReservedOK
<1> QED
  BY <1>1, <1>2, <1>3 DEF Inv

LEMMA LeaveIsSound ==
    ASSUME Inv, NEW w \in Workers, Leaves(w), OtherTypes,
           UNCHANGED <<gp, rows, link, gr, sent>>
    PROVE  Inv'
  BY ReadIsSound, NothingToKnow DEF Leaves

\* A step that changes the row, the books or the link of payment p.
PaymentChange(p) ==
    /\ gp' \in [Payments -> PaymentRow]
    /\ rows' \in [Payments -> 0 .. 1]
    /\ link' \in [Payments -> LinkState]
    /\ \A x \in Payments \ {p} :
          gp'[x] = gp[x] /\ rows'[x] = rows[x] /\ link'[x] = link[x]
    /\ RowOK(gp'[p], rows'[p], link'[p])
    /\ rows[p] = 1 => rows'[p] = 1
    /\ \/ gp'[p].amount = gp[p].amount
       \/ rows[p] = 0
    /\ UNCHANGED <<gr, sent>>

LEMMA PaymentChangeIsSound ==
    ASSUME Inv, NEW p \in Payments, PaymentChange(p)
    PROVE  RowsOK' /\ RefundsOK' /\ HeldOK'
<1>1. RowsOK'
  BY DEF Inv, RowsOK, PaymentChange
<1>2. RefundsOK'
  BY DEF Inv, RefundsOK, PaymentChange
<1>3. ASSUME NEW x \in Payments
      PROVE  Held(x)' <= gp'[x].amount
  <2>1. Held(x)' = Held(x)
    BY DEF PaymentChange, Held, UnitsOf
  <2>2. CASE gp'[x].amount = gp[x].amount
    BY <2>1, <2>2 DEF Inv, HeldOK
  <2>3. CASE rows[x] = 0
    <3>1. Held(x) = 0
      <4>1. \A r \in Refunds \cap Live(gr) : gr[r].of # x
        BY <2>3 DEF Inv, RefundsOK, Live
      <4>2. Cardinality(Units(gr, Live(gr), x)) = 0
        BY <4>1, UnitsNone
      <4> QED
        BY <4>2, HeldUnits
    <3>2. gp'[x].amount \in 0 .. Bill
      BY DEF PaymentChange, PaymentRow
    <3> QED
      BY <3>1, <3>2, <2>1, GatewayAssumption
  <2> QED
    BY <2>2, <2>3 DEF PaymentChange
<1> QED
  BY <1>1, <1>2, <1>3 DEF HeldOK

\* What the others know of payment p stays true.
OthersKnow(p, w) ==
    \A v \in Workers \ {w} :
        req[v].step # "idle" /\ req[v].pay = p =>
            KnowsPayment(req[v], gp'[p], rows'[p], link'[p])

\* Such a step taken by a request that works on p.
LEMMA PaymentStepIsSound ==
    ASSUME Inv, NEW w \in Workers, NEW q, Goes(w, q), OtherTypes,
           NEW p \in Payments, PaymentChange(p), OthersKnow(p, w),
           \/ q.step \in {"idle", "ack"}
           \/ /\ q.step \notin Refunding
              /\ q.pay = p
              /\ KnowsPayment(q, gp'[p], rows'[p], link'[p])
    PROVE  Inv'
<1>1. TypeOK' /\ PointersOK' /\ Exclusive'
  BY GoesIsSound DEF Inv, TypeOK, OtherTypes, PaymentChange
<1>2. ASSUME NEW v \in Workers, v # w, req[v].step # "idle"
      PROVE  KnowsPayment(req[v], gp'[req[v].pay], rows'[req[v].pay],
                          link'[req[v].pay])
  BY <1>2 DEF Inv, PaymentsOK, PointersOK, OthersKnow, PaymentChange
<1>3. PaymentsOK'
  BY <1>2, GoesIsSound, NothingToKnow DEF PaymentsOK
<1>4. ReservedOK'
  BY GoesIsSound, NothingToKnow DEF Inv, ReservedOK, PaymentChange
<1> QED
  BY <1>1, <1>3, <1>4, PaymentChangeIsSound DEF Inv

\* Such a step taken by the guest, the provider or time.
LEMMA OutsideStepIsSound ==
    ASSUME Inv, UNCHANGED req, OtherTypes,
           NEW p \in Payments, PaymentChange(p),
           \A w \in Workers :
               req[w].step # "idle" /\ req[w].pay = p =>
                   KnowsPayment(req[w], gp'[p], rows'[p], link'[p])
    PROVE  Inv'
<1>1. TypeOK' /\ PointersOK' /\ Exclusive' /\ ReservedOK'
  BY DEF Inv, TypeOK, OtherTypes, PaymentChange, PointersOK, Exclusive,
         ReservedOK
<1>2. PaymentsOK'
  BY DEF Inv, PaymentsOK, PointersOK, PaymentChange
<1> QED
  BY <1>1, <1>2, PaymentChangeIsSound DEF Inv

\* A step that changes the refund row r, or sends it.
RefundChange(r) ==
    /\ gr' \in [Refunds -> RefundRow]
    /\ sent' \in SUBSET Refunds
    /\ \A x \in Refunds \ {r} :
          gr'[x] = gr[x] /\ (x \in sent' <=> x \in sent)
    /\ gr'[r].status \in {"NONE", "FAILED"} => r \notin sent'
    /\ gr'[r].status # "NONE" =>
          gr'[r].of \in Payments /\ rows[gr'[r].of] = 1
    /\ UNCHANGED <<gp, rows, link>>

LEMMA RefundStepIsSound ==
    ASSUME Inv, NEW w \in Workers, NEW q, Goes(w, q), OtherTypes,
           NEW r \in Refunds, RefundChange(r), HeldOK',
           req[w].step \in Refunding, req[w].refund = r,
           q.step = "idle" \/ /\ q.step \in Refunding
                              /\ q.refund = r
                              /\ KnowsPayment(q, gp[q.pay], rows[q.pay],
                                              link[q.pay])
                              /\ KnowsRefund(q, gr'[r], sent')
    PROVE  Inv'
<1>1. TypeOK' /\ PointersOK' /\ Exclusive'
  BY GoesIsSound DEF Inv, TypeOK, OtherTypes, RefundChange
<1>2. RowsOK' /\ RefundsOK'
  BY DEF Inv, RowsOK, RefundsOK, RefundChange, RefundRow
<1>3. PaymentsOK'
  BY GoesIsSound DEF Inv, PaymentsOK, RefundChange, Refunding
<1>4. ASSUME NEW v \in Workers, v # w, req[v].step \in Refunding
      PROVE  KnowsRefund(req[v], gr'[req[v].refund], sent')
  <2>1. req[v].refund # r /\ req[v].refund \in Refunds
    BY <1>4 DEF Inv, Exclusive, Apart, PointersOK
  <2>2. KnowsRefund(req[v], gr[req[v].refund], sent)
    BY <1>4 DEF Inv, ReservedOK
  <2> QED
    BY <2>1, <2>2 DEF RefundChange, KnowsRefund
<1>5. ReservedOK'
  BY <1>4, GoesIsSound DEF ReservedOK, Refunding
<1> QED
  BY <1>1, <1>2, <1>3, <1>5 DEF Inv

\* Refunds that stay as they were, or are no longer held, hold no more.
LEMMA FewerHeld ==
    ASSUME Inv, UNCHANGED gp,
           \A r \in Live(gr') : /\ r \in Live(gr)
                                /\ gr'[r].of = gr[r].of
                                /\ gr'[r].amount = gr[r].amount
    PROVE  HeldOK'
<1>1. ASSUME NEW p \in Payments
      PROVE  Held(p)' <= gp'[p].amount
  <2>1. Cardinality(Units(gr', Live(gr'), p))
            <= Cardinality(Units(gr, Live(gr), p))
    <3>1. Live(gr') \subseteq Live(gr)
      OBVIOUS
    <3> QED
      BY <3>1, UnitsFewer
  <2>2. Held(p)' = Cardinality(Units(gr', Live(gr'), p))
    BY DEF Held, UnitsOf, Units, Live
  <2>3. Cardinality(Units(gr, Live(gr), p)) <= gp[p].amount
    BY HeldUnits DEF Inv, HeldOK
  <2>4. gp[p].amount \in Nat
    BY GatewayAssumption DEF Inv, TypeOK, PaymentRow
  <2>5. /\ Cardinality(Units(gr', Live(gr'), p)) \in Nat
        /\ Cardinality(Units(gr, Live(gr), p)) \in Nat
    BY UnitsFinite
  <2> QED
    BY <2>1, <2>2, <2>3, <2>4, <2>5
<1> QED
  BY <1>1 DEF HeldOK

-----------------------------------------------------------------------------
(* create *)

\* What holds when request w takes a step.
LEMMA RequestFacts ==
    ASSUME Inv, NEW w \in Workers, req[w].step # "idle"
    PROVE  LET p == req[w].pay
           IN  /\ req[w] \in Request
               /\ p \in Payments
               /\ gp[p] \in PaymentRow
               /\ rows[p] \in 0 .. 1
               /\ link[p] \in LinkState
               /\ RowOK(gp[p], rows[p], link[p])
               /\ KnowsPayment(req[w], gp[p], rows[p], link[p])
               /\ gp \in [Payments -> PaymentRow]
               /\ rows \in [Payments -> 0 .. 1]
               /\ link \in [Payments -> LinkState]
  BY DEF Inv, TypeOK, RowsOK, PaymentsOK, PointersOK

LEMMA OthersKnowing ==
    ASSUME Inv, NEW w \in Workers, NEW v \in Workers \ {w},
           req[v].step # "idle"
    PROVE  /\ Apart(req[v], req[w])
           /\ KnowsPayment(req[v], gp[req[v].pay], rows[req[v].pay],
                           link[req[v].pay])
  BY DEF Inv, PaymentsOK, Exclusive

LEMMA Untouched ==
    ASSUME Inv, UNCHANGED <<bill, event, erred, lost>>
    PROVE  OtherTypes
  BY DEF Inv, TypeOK, OtherTypes

CreateReq(p, mode, a) == [Idle EXCEPT !.step = "insert", !.pay = p,
                                      !.mode = mode, !.amount = a]
RefundReq(p, r, a) == [Idle EXCEPT !.step = "reserve", !.pay = p,
                                   !.refund = r, !.amount = a]

LEMMA NewRequests ==
    ASSUME NEW p, p \in Payments, NEW a, a \in 0 .. Bill
    PROVE  /\ \A mode \in Modes :
                 LET q == CreateReq(p, mode, a)
                 IN  /\ q \in Request
                     /\ q.step = "insert" /\ q.pay = p /\ q.amount = a
                     /\ q.refund = None
           /\ \A r \in Refunds :
                 LET q == RefundReq(p, r, a)
                 IN  /\ q \in Request
                     /\ q.step = "reserve" /\ q.pay = p /\ q.amount = a
                     /\ q.refund = r
  BY DEF CreateReq, RefundReq, Idle, Request, Steps, LinkState, Modes

LEMMA CreateReadsSound ==
    ASSUME Inv, NEW w \in Workers, NEW p \in Payments, NEW mode \in Modes,
           CreateReads(w, p, mode)
    PROVE  Inv'
<1> DEFINE q == CreateReq(p, mode, Due)
<1>1. Due \in 1 .. Bill
  BY GatewayAssumption DEF CreateReads, Due, Inv, TypeOK, BillRow
<1>2. /\ q \in Request
      /\ q.step = "insert" /\ q.pay = p /\ q.amount = Due /\ q.refund = None
  BY <1>1, NewRequests
<1>3. req' = [req EXCEPT ![w] = q]
  BY DEF CreateReads, CreateReq
<1>4. \A v \in Workers : req[v].pay # p
  BY DEF CreateReads
<1>5. ~ gp[p].ref /\ gp[p].status = "NONE"
  BY DEF CreateReads, Inv, RowsOK, RowOK
<1> HIDE DEF q
<1>6. Goes(w, q)
  BY <1>2, <1>3, <1>4, GatewayAssumption
     DEF Goes, Apart, Creating, Claiming, Refunding
<1>7. KnowsPayment(q, gp[p], rows[p], link[p])
  BY <1>1, <1>2, <1>5
     DEF KnowsPayment, Creating, Claiming, Refunding, Asking
<1>8. OtherTypes /\ UNCHANGED <<gp, rows, link, gr, sent>>
  BY Untouched DEF CreateReads, books, outside
<1> QED
  BY <1>2, <1>6, <1>7, <1>8, ReadIsSound DEF Refunding

LEMMA InsertPaymentSound ==
    ASSUME Inv, NEW w \in Workers, InsertPayment(w)
    PROVE  Inv'
<1> DEFINE p == req[w].pay
           q == At(w, "call")
<1>1. req[w].step = "insert" /\ p \in Payments
  BY RequestFacts DEF InsertPayment
<1>2. Goes(w, q) /\ q.step = "call" /\ q.pay = p
  BY <1>1, GotoGoes, AtFacts
     DEF InsertPayment, Inv, Steps, Creating, Claiming, Refunding
<1>3. OtherTypes /\ UNCHANGED <<rows, link, gr, sent>>
  BY Untouched DEF InsertPayment, books, outside
<1>4. /\ gp' \in [Payments -> PaymentRow]
      /\ \A x \in Payments \ {p} : gp'[x] = gp[x]
      /\ gp'[p].status = "CREATED" /\ ~ gp'[p].ref
      /\ gp'[p].amount = req[w].amount
  BY <1>1, RequestFacts
     DEF InsertPayment, PaymentRow, PaymentStatus, Request
<1>5. /\ ~ gp[p].ref /\ req[w].amount >= 1
      /\ rows[p] = 0 /\ link[p] \in {"NONE", "OPEN", "EXPIRED"}
  BY <1>1, RequestFacts DEF KnowsPayment, RowOK, Creating
<1>6. PaymentChange(p)
  BY <1>1, <1>3, <1>4, <1>5, RequestFacts DEF PaymentChange, RowOK
<1>7. OthersKnow(p, w)
  BY <1>1, <1>3, <1>4, <1>5, OthersKnowing
     DEF OthersKnow, KnowsPayment, Apart, Creating, Claiming, Refunding, Asking
<1>8. KnowsPayment(q, gp'[p], rows'[p], link'[p])
  BY <1>2, <1>4, <1>5
     DEF KnowsPayment, Creating, Claiming, Refunding, Asking
<1> HIDE DEF p, q
<1> QED
  BY <1>1, <1>2, <1>3, <1>6, <1>7, <1>8, PaymentStepIsSound DEF Refunding

LEMMA LinkCreatedSound ==
    ASSUME Inv, NEW w \in Workers, LinkCreated(w)
    PROVE  Inv'
<1> DEFINE p == req[w].pay
           q == At(w, "save")
<1>1. req[w].step = "call" /\ p \in Payments
  BY RequestFacts DEF LinkCreated
<1>2. Goes(w, q) /\ q.step = "save" /\ q.pay = p
  BY <1>1, GotoGoes, AtFacts
     DEF LinkCreated, Inv, Steps, Creating, Claiming, Refunding
<1>3. OtherTypes /\ UNCHANGED <<gp, rows, gr, sent>>
  BY Untouched DEF LinkCreated, books
<1>4. /\ link' \in [Payments -> LinkState]
      /\ \A x \in Payments \ {p} : link'[x] = link[x]
      /\ link'[p] = "OPEN"
  BY <1>1, RequestFacts DEF LinkCreated, LinkState
<1>5. /\ ~ gp[p].ref /\ gp[p].amount >= 1 /\ gp[p].status # "NONE"
      /\ rows[p] = 0
  BY <1>1, RequestFacts DEF KnowsPayment, RowOK, Creating
<1>6. PaymentChange(p)
  BY <1>1, <1>3, <1>4, <1>5, RequestFacts DEF PaymentChange, RowOK
<1>7. OthersKnow(p, w)
  BY <1>1, <1>3, <1>4, <1>5, OthersKnowing
     DEF OthersKnow, KnowsPayment, Apart, Creating, Claiming, Refunding, Asking
<1>8. KnowsPayment(q, gp'[p], rows'[p], link'[p])
  BY <1>2, <1>3, <1>5
     DEF KnowsPayment, Creating, Claiming, Refunding, Asking
<1> HIDE DEF p, q
<1> QED
  BY <1>1, <1>2, <1>3, <1>6, <1>7, <1>8, PaymentStepIsSound DEF Refunding

\* A step that changes payment p and ends the request, or leaves it to
\* acknowledge.
LEMMA LastPaymentStep ==
    ASSUME Inv, NEW w \in Workers, Leaves(w), OtherTypes,
           NEW p \in Payments, PaymentChange(p), OthersKnow(p, w)
    PROVE  Inv'
  BY PaymentStepIsSound DEF Leaves

LEMMA LinkNotCreatedSound ==
    ASSUME Inv, NEW w \in Workers, LinkNotCreated(w)
    PROVE  Inv'
<1> DEFINE p == req[w].pay
<1>1. req[w].step \in {"call", "save"} /\ p \in Payments
  BY RequestFacts DEF LinkNotCreated
<1>2. Leaves(w)
  BY FinishGoes DEF LinkNotCreated
<1>3. OtherTypes /\ UNCHANGED <<rows, gr, sent>>
  BY Untouched DEF LinkNotCreated, books
<1>4. ~ gp[p].ref /\ rows[p] = 0 /\ link[p] \in {"NONE", "OPEN", "EXPIRED"}
  BY <1>1, RequestFacts DEF KnowsPayment, RowOK, Creating
<1>5. /\ link' \in [Payments -> LinkState]
      /\ \A x \in Payments \ {p} : link'[x] = link[x]
      /\ link'[p] \in {"NONE", "OPEN", "EXPIRED"}
  BY <1>1, <1>4, RequestFacts DEF LinkNotCreated, LinkState
<1>6. /\ gp' \in [Payments -> PaymentRow]
      /\ \A x \in Payments \ {p} : gp'[x] = gp[x]
      /\ gp'[p].status = "FAILED" /\ ~ gp'[p].ref
      /\ gp'[p].amount = gp[p].amount
  BY <1>1, <1>4, RequestFacts
     DEF LinkNotCreated, SetStatus, PaymentRow, PaymentStatus
<1>7. PaymentChange(p)
  BY <1>1, <1>3, <1>4, <1>5, <1>6, RequestFacts DEF PaymentChange, RowOK
<1>8. OthersKnow(p, w)
  BY <1>1, <1>3, <1>4, <1>5, <1>6, OthersKnowing
     DEF OthersKnow, KnowsPayment, Apart, Creating, Claiming, Refunding, Asking
<1> QED
  BY <1>1, <1>2, <1>3, <1>7, <1>8, LastPaymentStep

LEMMA SaveLinkSound ==
    ASSUME Inv, NEW w \in Workers, SaveLink(w)
    PROVE  Inv'
<1> DEFINE p == req[w].pay
<1>1. req[w].step = "save" /\ p \in Payments
  BY RequestFacts DEF SaveLink
<1>2. Leaves(w)
  BY FinishGoes DEF SaveLink
<1>3. OtherTypes /\ UNCHANGED <<rows, link, gr, sent>>
  BY Untouched DEF SaveLink, books, outside
<1>4. /\ ~ gp[p].ref /\ gp[p].amount >= 1
      /\ gp[p].status \notin {"SUCCEEDED", "NONE"} /\ rows[p] = 0
  BY <1>1, RequestFacts DEF KnowsPayment, RowOK, Creating
<1>5. /\ gp' \in [Payments -> PaymentRow]
      /\ \A x \in Payments \ {p} : gp'[x] = gp[x]
      /\ gp'[p].status = gp[p].status /\ gp'[p].ref
      /\ gp'[p].amount = gp[p].amount
  BY <1>1, RequestFacts DEF SaveLink, PaymentRow
<1>6. PaymentChange(p)
  BY <1>1, <1>3, <1>4, <1>5, RequestFacts DEF PaymentChange, RowOK
<1>7. OthersKnow(p, w)
  BY <1>1, <1>3, <1>4, <1>5, OthersKnowing
     DEF OthersKnow, KnowsPayment, Apart, Creating, Claiming, Refunding, Asking
<1> QED
  BY <1>1, <1>2, <1>3, <1>6, <1>7, LastPaymentStep

-----------------------------------------------------------------------------
(* The guest, the provider and time *)

\* What is known of a row that has a link survives while the link leaves OPEN.
LEMMA GuestPaysSound ==
    ASSUME Inv, NEW p \in Payments, GuestPays(p)
    PROVE  Inv'
<1>1. UNCHANGED req /\ UNCHANGED <<gp, rows, gr, sent>>
  BY DEF GuestPays, books
<1>2. OtherTypes
  BY DEF GuestPays, Inv, TypeOK, OtherTypes, books
<1>3. link[p] = "OPEN" /\ gp[p].ref
  BY DEF GuestPays
<1>4. /\ link' \in [Payments -> LinkState]
      /\ \A x \in Payments \ {p} : link'[x] = link[x]
      /\ link'[p] \in {"PAID", "PAID_OTHER"}
  BY DEF GuestPays, Inv, TypeOK, LinkState
<1>5. PaymentChange(p)
  BY <1>1, <1>3, <1>4 DEF PaymentChange, RowOK, Inv, RowsOK, TypeOK
<1>6. ASSUME NEW w \in Workers, req[w].step # "idle", req[w].pay = p
      PROVE  KnowsPayment(req[w], gp'[p], rows'[p], link'[p])
  BY <1>1, <1>3, <1>6 DEF KnowsPayment, Inv, PaymentsOK
<1> QED
  BY <1>1, <1>2, <1>5, <1>6, OutsideStepIsSound

LEMMA LinkExpiresSound ==
    ASSUME Inv, NEW p \in Payments, LinkExpires(p)
    PROVE  Inv'
<1>1. UNCHANGED req /\ OtherTypes /\ UNCHANGED <<gp, rows, gr, sent>>
  BY Untouched DEF LinkExpires, books
<1>2. /\ link[p] = "OPEN"
      /\ link' \in [Payments -> LinkState]
      /\ \A x \in Payments \ {p} : link'[x] = link[x]
      /\ link'[p] = "EXPIRED"
  BY DEF LinkExpires, Inv, TypeOK, LinkState
<1>3. PaymentChange(p)
  BY <1>1, <1>2 DEF PaymentChange, RowOK, Inv, RowsOK, TypeOK
<1>4. ASSUME NEW w \in Workers, req[w].step # "idle", req[w].pay = p
      PROVE  KnowsPayment(req[w], gp'[p], rows'[p], link'[p])
  BY <1>1, <1>2, <1>4 DEF KnowsPayment, Inv, PaymentsOK
<1> QED
  BY <1>1, <1>3, <1>4, OutsideStepIsSound

LEMMA LinkAgesSound ==
    ASSUME Inv, NEW p \in Payments, LinkAges(p)
    PROVE  Inv'
<1>1. UNCHANGED req /\ OtherTypes /\ UNCHANGED <<link, rows, gr, sent>>
  BY Untouched DEF LinkAges, books, outside
<1>2. /\ gp' \in [Payments -> PaymentRow]
      /\ \A x \in Payments \ {p} : gp'[x] = gp[x]
      /\ gp'[p].status = gp[p].status /\ gp'[p].ref = gp[p].ref
      /\ gp'[p].amount = gp[p].amount /\ gp'[p].mode = gp[p].mode
      /\ gp'[p].applied = gp[p].applied
  BY DEF LinkAges, Inv, TypeOK, PaymentRow
<1>3. PaymentChange(p)
  BY <1>1, <1>2 DEF PaymentChange, RowOK, Inv, RowsOK, TypeOK
<1>4. ASSUME NEW w \in Workers, req[w].step # "idle", req[w].pay = p
      PROVE  KnowsPayment(req[w], gp'[p], rows'[p], link'[p])
  BY <1>1, <1>2, <1>4 DEF KnowsPayment, Inv, PaymentsOK
<1> QED
  BY <1>1, <1>3, <1>4, OutsideStepIsSound

-----------------------------------------------------------------------------
(* refresh *)

Polls(q, s, p) == [q EXCEPT !.step = s, !.pay = p]
Hooks(q, s, p) == [q EXCEPT !.step = s, !.pay = p, !.hook = TRUE]
PollReq(p) == Polls(Idle, "fetch", p)
HookReq(s, p) == Hooks(Idle, s, p)

LEMMA AskRequest ==
    ASSUME NEW q, q \in Request, NEW p, p \in Payments,
           NEW s, s \in {"fetch", "ack"}
    PROVE  /\ Polls(q, s, p) \in Request /\ Hooks(q, s, p) \in Request
           /\ Polls(q, s, p).step = s /\ Hooks(q, s, p).step = s
           /\ Polls(q, s, p).pay = p /\ Hooks(q, s, p).pay = p
           /\ Polls(q, s, p).refund = q.refund
           /\ Hooks(q, s, p).refund = q.refund
<1>1. s \in Steps
  BY DEF Steps
<1> QED
  BY <1>1 DEF Request, Polls, Hooks

LEMMA AskRequests ==
    ASSUME NEW p, p \in Payments
    PROVE  /\ PollReq(p) \in Request
           /\ PollReq(p).step = "fetch" /\ PollReq(p).pay = p
           /\ PollReq(p).refund = None
           /\ \A s \in {"fetch", "ack"} :
                 /\ HookReq(s, p) \in Request
                 /\ HookReq(s, p).step = s /\ HookReq(s, p).pay = p
                 /\ HookReq(s, p).refund = None
<1>1. Idle \in Request /\ Idle.refund = None
  BY IdleFacts DEF Idle
<1> QED
  BY <1>1, AskRequest DEF PollReq, HookReq

LEMMA AskIsSound ==
    ASSUME Inv, NEW w \in Workers, NEW p \in Payments, NEW q \in Request,
           q.step \in {"fetch", "ack"}, q.pay = p, q.refund = None,
           q.step = "fetch" => gp[p].ref,
           req' = [req EXCEPT ![w] = q],
           UNCHANGED <<books, outside, gp, gr, event>>
    PROVE  Inv'
<1>1. OtherTypes /\ UNCHANGED <<gp, rows, link, gr, sent>>
  BY Untouched DEF books, outside
<1>2. Goes(w, q)
  BY GatewayAssumption DEF Goes, Apart, Creating, Claiming, Refunding
<1>3. KnowsPayment(q, gp[p], rows[p], link[p])
  BY DEF KnowsPayment, Creating, Claiming, Refunding, Asking
<1> QED
  BY <1>1, <1>2, <1>3, ReadIsSound DEF Refunding

LEMMA PollSound ==
    ASSUME Inv, NEW w \in Workers, NEW p \in Payments, Poll(w, p)
    PROVE  Inv'
<1> DEFINE q == PollReq(p)
<1>1. /\ req' = [req EXCEPT ![w] = q]
      /\ gp[p].ref
      /\ UNCHANGED <<books, outside, gp, gr, event>>
  BY DEF Poll, PollReq, Polls, Refreshable
<1>2. /\ q \in Request
      /\ q.step = "fetch" /\ q.pay = p /\ q.refund = None
  BY AskRequests
<1> HIDE DEF q
<1> QED
  BY <1>1, <1>2, AskIsSound

LEMMA WebhookArrivesSound ==
    ASSUME Inv, NEW w \in Workers, NEW p \in Payments, WebhookArrives(w, p)
    PROVE  Inv'
<1> DEFINE s == IF Refreshable(p) THEN "fetch" ELSE "ack"
           q == HookReq(s, p)
<1>1. req' = [req EXCEPT ![w] = q]
  BY DEF WebhookArrives, HookReq, Hooks
<1>2. s \in {"fetch", "ack"} /\ (s = "fetch" => gp[p].ref)
  BY DEF Refreshable
<1>3. /\ q \in Request
      /\ q.step = s /\ q.pay = p /\ q.refund = None
  BY <1>2, AskRequests
<1> HIDE DEF q, s
<1> QED
  BY <1>1, <1>2, <1>3, AskIsSound, ZenonT(60) DEF WebhookArrives

LEMMA RecordEventSound ==
    ASSUME Inv, NEW w \in Workers, RecordEvent(w)
    PROVE  Inv'
<1>1. Leaves(w)
  BY FinishGoes DEF RecordEvent
<1>2. OtherTypes /\ UNCHANGED <<gp, rows, link, gr, sent>>
  BY DEF RecordEvent, Inv, TypeOK, OtherTypes, books, outside
<1> QED
  BY <1>1, <1>2, LeaveIsSound

\* The request after the provider answered.
Answered(w) == [req[w] EXCEPT !.step = "act", !.seen = link[req[w].pay]]

LEMMA FetchStatusSound ==
    ASSUME Inv, NEW w \in Workers, FetchStatus(w)
    PROVE  Inv'
<1> DEFINE p == req[w].pay
           q == Answered(w)
<1>1. req[w].step = "fetch" /\ p \in Payments /\ gp[p].ref
  BY RequestFacts DEF FetchStatus, KnowsPayment, Asking
<1>2. /\ q \in Request
      /\ q.step = "act" /\ q.pay = p /\ q.seen = link[p]
      /\ q.refund = req[w].refund
  BY <1>1, RequestFacts DEF Answered, Request, Steps
<1>3. req' = [req EXCEPT ![w] = q]
  BY DEF FetchStatus, Answered, Inv, TypeOK
<1>4. OtherTypes /\ UNCHANGED <<gp, rows, link, gr, sent>>
  BY Untouched DEF FetchStatus, books, outside
<1> HIDE DEF q
<1>5. Goes(w, q)
  BY <1>1, <1>2, <1>3
     DEF Goes, Apart, Creating, Claiming, Refunding, Inv, PointersOK
<1>6. KnowsPayment(q, gp[p], rows[p], link[p])
  BY <1>1, <1>2 DEF KnowsPayment, Creating, Claiming, Refunding, Asking
<1> QED
  BY <1>2, <1>4, <1>5, <1>6, ReadIsSound DEF Refunding

LEMMA LookupFailsSound ==
    ASSUME Inv, NEW w \in Workers, LookupFails(w)
    PROVE  Inv'
<1>1. Leaves(w)
  BY AfterRefreshLeaves DEF LookupFails, Asking
<1>2. OtherTypes /\ UNCHANGED <<gp, rows, link, gr, sent>>
  BY Untouched DEF LookupFails, books, outside
<1> QED
  BY <1>1, <1>2, LeaveIsSound

LEMMA WriteFailsSound ==
    ASSUME Inv, NEW w \in Workers, WriteFails(w)
    PROVE  Inv'
<1>1. Leaves(w)
  BY FinishGoes DEF WriteFails
<1>2. ClaimedBy({w}) \subseteq Payments
  BY DEF WriteFails, ClaimedBy, Inv, PointersOK
<1>3. OtherTypes /\ UNCHANGED <<gp, rows, link, gr, sent>>
  BY <1>2 DEF WriteFails, Inv, TypeOK, OtherTypes, books
<1> QED
  BY <1>1, <1>3, LeaveIsSound

\* A payment that is not on the bill, whose link is not paid live, may get
\* the status its provider reports.
LEMMA ActWithoutSettlingSound ==
    ASSUME Inv, NEW w \in Workers, ActWithoutSettling(w)
    PROVE  Inv'
<1> DEFINE p == req[w].pay
<1>1. req[w].step = "act" /\ p \in Payments
  BY RequestFacts DEF ActWithoutSettling
<1>2. Leaves(w)
  BY <1>1, AfterRefreshLeaves DEF ActWithoutSettling, Asking
<1>3. OtherTypes /\ UNCHANGED <<rows, link, gr, sent>>
  BY Untouched DEF ActWithoutSettling, books, outside
<1>4. CASE UNCHANGED gp
  BY <1>2, <1>3, <1>4, LeaveIsSound
<1>5. CASE ~ UNCHANGED gp
  <2>1. PICK status \in {"EXPIRED", "NEEDS_REVIEW", "SUCCEEDED"} :
            /\ gp' = [gp EXCEPT ![p].status = status]
            /\ \/ link[p] \in {"EXPIRED", "PAID_OTHER"}
                  /\ status # "SUCCEEDED"
               \/ gp[p].mode = "TEST"
    BY <1>1, <1>5, RequestFacts
       DEF ActWithoutSettling, SetStatus, KnowsPayment
  <2>2. /\ gp' \in [Payments -> PaymentRow]
        /\ \A x \in Payments \ {p} : gp'[x] = gp[x]
        /\ gp'[p].status = status
        /\ gp'[p].ref = gp[p].ref /\ gp'[p].amount = gp[p].amount
        /\ gp'[p].mode = gp[p].mode /\ gp'[p].applied = gp[p].applied
    BY <1>1, <2>1, RequestFacts DEF PaymentRow, PaymentStatus
  <2>3. gp[p].ref
    BY <1>1, RequestFacts DEF KnowsPayment, Asking
  <2>4. PaymentChange(p)
    BY <1>1, <1>3, <2>1, <2>2, <2>3, RequestFacts DEF PaymentChange, RowOK
  <2>5. OthersKnow(p, w)
    BY <1>1, <1>3, <2>1, <2>2, <2>3, OthersKnowing
       DEF OthersKnow, KnowsPayment, Creating, Claiming, Refunding, Asking
  <2> QED
    BY <1>1, <1>2, <1>3, <2>4, <2>5, LastPaymentStep
<1> QED
  BY <1>4, <1>5

-----------------------------------------------------------------------------
(* apply *)

LEMMA ClaimSound ==
    ASSUME Inv, NEW w \in Workers, Claim(w)
    PROVE  Inv'
<1> DEFINE p == req[w].pay
           q == At(w, "settle")
<1>1. /\ req[w].step = "act" /\ p \in Payments
      /\ gp[p].ref /\ gp[p].mode = "LIVE" /\ link[p] = "PAID"
  BY RequestFacts DEF Claim, KnowsPayment, Asking
<1>2. OtherTypes /\ UNCHANGED <<rows, link, gr, sent>>
  BY Untouched DEF Claim, books, outside
<1>3. CASE ~ Claimable(p)
  <2>1. Leaves(w) /\ UNCHANGED gp
    BY <1>1, <1>3, AfterRefreshLeaves DEF Claim, Asking
  <2> QED
    BY <1>2, <2>1, LeaveIsSound
<1>4. CASE Claimable(p)
  <2>1. /\ Goto(w, "settle")
        /\ gp' = [gp EXCEPT ![p].applied = TRUE]
        /\ ~ gp[p].applied /\ gp[p].status \in {"CREATED", "NEEDS_REVIEW"}
    BY <1>4 DEF Claim, Claimable
  <2>2. /\ gp' \in [Payments -> PaymentRow]
        /\ \A x \in Payments \ {p} : gp'[x] = gp[x]
        /\ gp'[p].status = gp[p].status /\ gp'[p].applied
        /\ gp'[p].ref = gp[p].ref /\ gp'[p].amount = gp[p].amount
        /\ gp'[p].mode = gp[p].mode
    BY <1>1, <2>1, RequestFacts DEF PaymentRow
  <2>3. \A v \in Workers \ {w} :
            req[v].step \in Claiming => req[v].pay # p
    BY <2>1, OthersKnowing DEF KnowsPayment, Claiming
  <2>4. /\ q \in Request
        /\ q.step = "settle" /\ q.pay = p /\ q.refund = req[w].refund
    BY AtFacts DEF Inv, Steps
  <2>5. req' = [req EXCEPT ![w] = q]
    BY <2>1 DEF Goto, At
  <2>6. Goes(w, q)
    <3> HIDE DEF q, p
    <3>1. \A v \in Workers \ {w} : Apart(req[v], q)
      BY <2>3, <2>4 DEF Apart, Creating, Claiming, Refunding
    <3>2. req[w].refund \notin Refunds
      BY <1>1 DEF Inv, PointersOK, Refunding
    <3> QED
      BY <1>1, <2>4, <2>5, <3>1, <3>2 DEF Goes, Refunding
  <2>7. PaymentChange(p)
    BY <1>1, <1>2, <2>1, <2>2, RequestFacts DEF PaymentChange, RowOK
  <2>8. OthersKnow(p, w)
    BY <1>1, <1>2, <2>2, OthersKnowing
       DEF OthersKnow, KnowsPayment, Creating, Claiming, Refunding, Asking
  <2>9. KnowsPayment(q, gp'[p], rows'[p], link'[p])
    BY <1>1, <1>2, <2>1, <2>2, <2>4
       DEF KnowsPayment, Creating, Claiming, Refunding, Asking
  <2> HIDE DEF p, q
  <2> QED
    BY <1>1, <1>2, <2>4, <2>6, <2>7, <2>8, <2>9, PaymentStepIsSound
       DEF Refunding
<1> QED
  BY <1>3, <1>4

\* What a request that claimed p knows, at whatever step of apply.
LEMMA ClaimFacts ==
    ASSUME Inv, NEW w \in Workers, req[w].step \in Claiming
    PROVE  LET p == req[w].pay
           IN  /\ p \in Payments
               /\ gp[p].ref /\ gp[p].applied /\ gp[p].amount >= 1
               /\ gp[p].mode = "LIVE" /\ link[p] = "PAID"
               /\ gp[p].status \in {"CREATED", "NEEDS_REVIEW"}
               /\ req[w].step = "pay" => rows[p] = 0
               /\ req[w].step = "done" => rows[p] = 1
               /\ rows[p] \in 0 .. 1
               /\ \A v \in Workers \ {w} :
                     req[v].step \in Claiming => req[v].pay # p
<1>1. req[w].step # "idle"
  BY DEF Claiming
<1> QED
  BY <1>1, RequestFacts, OthersKnowing DEF KnowsPayment, RowOK, Apart

\* The reads of checkout, and its failure before or after the transaction.
LEMMA ClaimMoves ==
    ASSUME Inv, NEW w \in Workers, NEW q \in Request,
           req[w].step \in Claiming, q.step \in Claiming,
           q.pay = req[w].pay, q.refund = req[w].refund,
           req' = [req EXCEPT ![w] = q],
           UNCHANGED <<books, outside, gp, gr, event>>,
           q.step = "pay" => rows[q.pay] = 0,
           q.step = "done" => rows[q.pay] = 1
    PROVE  Inv'
<1>1. OtherTypes /\ UNCHANGED <<gp, rows, link, gr, sent>>
  BY Untouched DEF books, outside
<1>2. req[w].refund \notin Refunds
  BY DEF Inv, PointersOK, Claiming, Refunding
<1>3. Goes(w, q)
  BY <1>2, ClaimFacts DEF Goes, Apart, Creating, Claiming, Refunding
<1>4. KnowsPayment(q, gp[q.pay], rows[q.pay], link[q.pay])
  BY ClaimFacts DEF KnowsPayment, Creating, Claiming, Refunding, Asking
<1> QED
  BY <1>1, <1>3, <1>4, ReadIsSound DEF Claiming, Refunding

LEMMA GotoInClaim ==
    ASSUME Inv, NEW w \in Workers, req[w].step \in Claiming,
           NEW s \in Claiming, Goto(w, s),
           UNCHANGED <<books, outside, gp, gr, event>>,
           s = "pay" => rows[req[w].pay] = 0,
           s = "done" => rows[req[w].pay] = 1
    PROVE  Inv'
<1>1. s \in Steps
  BY DEF Claiming, Steps
<1>2. req' = [req EXCEPT ![w] = At(w, s)]
  BY DEF Goto, At
<1> QED
  BY <1>1, <1>2, AtFacts, ClaimMoves DEF Inv

\* The request that found the bill open and the amount due.
PayReq(w, full) == [req[w] EXCEPT !.step = "pay", !.full = full]

LEMMA SettleReadsSound ==
    ASSUME Inv, NEW w \in Workers, SettleReads(w)
    PROVE  Inv'
<1> DEFINE p == req[w].pay
           full == gp[p].amount = Due
           q == PayReq(w, full)
<1>1. req[w].step = "settle"
  BY DEF SettleReads
<1>2. UNCHANGED <<books, outside, gp, gr, event>>
  BY DEF SettleReads
<1>3. p \in Payments /\ rows[p] \in 0 .. 1
  BY <1>1, ClaimFacts DEF Claiming
<1>4. CASE Replayed(p) /\ Goto(w, "done")
  BY <1>1, <1>2, <1>3, <1>4, GotoInClaim DEF Replayed, Claiming
<1>5. CASE ~ Replayed(p) /\ Goto(w, "failed")
  BY <1>1, <1>2, <1>5, GotoInClaim DEF Claiming
<1>6. CASE /\ ~ Replayed(p)
           /\ req' = [req EXCEPT ![w].step = "pay", ![w].full = full]
  <2>1. full \in BOOLEAN /\ req[w] \in Request
    BY DEF Inv, TypeOK
  <2>2. req' = [req EXCEPT ![w] = q]
    BY <1>6 DEF PayReq, Inv, TypeOK
  <2>3. rows[p] = 0
    BY <1>3, <1>6 DEF Replayed
  <2> HIDE DEF full
  <2>4. /\ q \in Request
        /\ q.step = "pay" /\ q.pay = p /\ q.refund = req[w].refund
    BY <2>1 DEF PayReq, Request, Steps
  <2> HIDE DEF q
  <2> QED
    BY <1>1, <1>2, <2>2, <2>3, <2>4, ClaimMoves DEF Claiming
<1> QED
  BY <1>4, <1>5, <1>6 DEF SettleReads

LEMMA SettleFailsSound ==
    ASSUME Inv, NEW w \in Workers, SettleFails(w)
    PROVE  Inv'
  BY GotoInClaim DEF SettleFails, Claiming

LEMMA PaidBill ==
    ASSUME NEW b, b \in BillRow, NEW a, a \in Nat,
           NEW s, s \in {"OPEN", "PAID", "CANCELLED"}
    PROVE  [b EXCEPT !.paid = b.paid + a, !.status = s] \in BillRow
<1>1. b.paid + a \in Nat
  BY DEF BillRow
<1> QED
  BY <1>1 DEF BillRow

LEMMA SettleCommitsSound ==
    ASSUME Inv, NEW w \in Workers, SettleCommits(w)
    PROVE  Inv'
<1> DEFINE p == req[w].pay
           q == At(w, "done")
<1>1. req[w].step = "pay" /\ req[w].step \in Claiming
  BY DEF SettleCommits, Claiming
<1>2. UNCHANGED <<outside, gp, gr, event>>
  BY DEF SettleCommits
<1>3. CASE UNCHANGED books /\ Goto(w, "failed")
  BY <1>1, <1>2, <1>3, GotoInClaim DEF Claiming
<1>4. CASE /\ bill' = [bill EXCEPT
                       !.paid = @ + gp[p].amount,
                       !.status = IF req[w].full THEN "PAID" ELSE @]
           /\ rows' = [rows EXCEPT ![p] = @ + 1]
           /\ Goto(w, "done")
  <2>1. /\ p \in Payments /\ gp[p].amount \in Nat
        /\ bill \in BillRow
        /\ rows[p] = 0
    BY <1>1, ClaimFacts, GatewayAssumption DEF Inv, TypeOK, PaymentRow
  <2>2. bill' \in BillRow
    <3>1. bill.status \in {"OPEN", "PAID", "CANCELLED"}
      BY <2>1 DEF BillRow
    <3>2. bill' = [bill EXCEPT
                     !.paid = bill.paid + gp[p].amount,
                     !.status = IF req[w].full THEN "PAID" ELSE bill.status]
      BY <1>4
    <3> QED
      BY <2>1, <3>1, <3>2, PaidBill
  <2>3. OtherTypes
    BY <1>2, <2>2 DEF Inv, TypeOK, OtherTypes, outside
  <2>4. /\ rows' \in [Payments -> 0 .. 1]
        /\ \A x \in Payments \ {p} : rows'[x] = rows[x]
        /\ rows'[p] = 1
    BY <1>4, <2>1 DEF Inv, TypeOK
  <2>5. UNCHANGED <<gp, link, gr, sent>>
    BY <1>2 DEF outside
  <2>6. Goes(w, q)
    BY <1>1, <1>4, GotoGoes DEF Creating, Claiming, Refunding, Steps
  <2>7. /\ gp[p].ref /\ gp[p].applied /\ gp[p].amount >= 1
        /\ gp[p].mode = "LIVE" /\ link[p] = "PAID"
        /\ gp[p].status \in {"CREATED", "NEEDS_REVIEW"}
        /\ \A v \in Workers \ {w} :
              req[v].step \in Claiming => req[v].pay # p
    BY <1>1, ClaimFacts
  <2>8. PaymentChange(p)
    BY <2>1, <2>4, <2>5, <2>7 DEF PaymentChange, RowOK, Inv, TypeOK
  <2>9. OthersKnow(p, w)
    BY <2>1, <2>4, <2>5, <2>7, OthersKnowing
       DEF OthersKnow, KnowsPayment, Creating, Claiming, Refunding, Asking
  <2>10. q.step = "done" /\ q.pay = p
    BY AtFacts DEF Inv, Steps
  <2>11. KnowsPayment(q, gp'[p], rows'[p], link'[p])
    BY <2>4, <2>5, <2>7, <2>10
       DEF KnowsPayment, Creating, Claiming, Refunding, Asking
  <2> HIDE DEF p, q
  <2> QED
    BY <2>1, <2>3, <2>6, <2>8, <2>9, <2>10, <2>11, PaymentStepIsSound
       DEF Refunding
<1> QED
  BY <1>3, <1>4 DEF SettleCommits

\* The two ends of apply.
LEMMA ClaimEnds ==
    ASSUME Inv, NEW w \in Workers, req[w].step \in Claiming,
           AfterRefresh(w), UNCHANGED <<books, outside, gr, event>>,
           gp' \in [Payments -> PaymentRow],
           \A x \in Payments \ {req[w].pay} : gp'[x] = gp[x],
           gp'[req[w].pay].ref, gp'[req[w].pay].mode = "LIVE",
           gp'[req[w].pay].amount = gp[req[w].pay].amount,
           \/ gp'[req[w].pay].status = "NEEDS_REVIEW"
           \/ gp'[req[w].pay].status = "SUCCEEDED" /\ rows[req[w].pay] = 1
    PROVE  Inv'
<1> DEFINE p == req[w].pay
<1>1. OtherTypes /\ UNCHANGED <<rows, link, gr, sent>>
  BY Untouched DEF books, outside
<1>2. Leaves(w)
  BY AfterRefreshLeaves
<1>3. PaymentChange(p)
  BY <1>1, ClaimFacts DEF PaymentChange, RowOK, Inv, TypeOK
<1>4. OthersKnow(p, w)
  BY <1>1, ClaimFacts, OthersKnowing
     DEF OthersKnow, KnowsPayment, Creating, Claiming, Refunding, Asking
<1> QED
  BY <1>1, <1>2, <1>3, <1>4, ClaimFacts, LastPaymentStep

LEMMA MarkSucceededSound ==
    ASSUME Inv, NEW w \in Workers, MarkSucceeded(w)
    PROVE  Inv'
<1> DEFINE p == req[w].pay
<1>1. req[w].step = "done" /\ req[w].step \in Claiming
  BY DEF MarkSucceeded, Claiming
<1>2. /\ p \in Payments /\ rows[p] = 1
      /\ gp[p].ref /\ gp[p].mode = "LIVE"
  BY <1>1, ClaimFacts
<1>3. /\ gp' \in [Payments -> PaymentRow]
      /\ \A x \in Payments \ {p} : gp'[x] = gp[x]
      /\ gp'[p].status = "SUCCEEDED"
      /\ gp'[p].ref = gp[p].ref /\ gp'[p].mode = gp[p].mode
      /\ gp'[p].amount = gp[p].amount
  BY <1>2, ZenonT(60) DEF MarkSucceeded, SetStatus, Inv, TypeOK, PaymentRow, PaymentStatus
<1> QED
  BY <1>1, <1>2, <1>3, ClaimEnds DEF MarkSucceeded

LEMMA ReleaseClaimSound ==
    ASSUME Inv, NEW w \in Workers, ReleaseClaim(w)
    PROVE  Inv'
<1> DEFINE p == req[w].pay
<1>1. req[w].step \in Claiming
  BY DEF ReleaseClaim, Claiming
<1>2. p \in Payments /\ gp[p].ref /\ gp[p].mode = "LIVE"
  BY <1>1, ClaimFacts
<1>3. ASSUME NEW g, g \in PaymentRow
      PROVE  LET h == [g EXCEPT !.status = "NEEDS_REVIEW", !.applied = FALSE]
             IN  /\ h \in PaymentRow
                 /\ h.status = "NEEDS_REVIEW"
                 /\ h.ref = g.ref /\ h.mode = g.mode /\ h.amount = g.amount
  BY <1>3 DEF PaymentRow, PaymentStatus
<1>4. gp \in [Payments -> PaymentRow] /\ gp[p] \in PaymentRow
  BY <1>2 DEF Inv, TypeOK
<1>5. /\ Released(p) \in PaymentRow
      /\ Released(p).status = "NEEDS_REVIEW"
      /\ Released(p).ref = gp[p].ref /\ Released(p).mode = gp[p].mode
      /\ Released(p).amount = gp[p].amount
  BY <1>3, <1>4 DEF Released
<1>6. /\ gp' \in [Payments -> PaymentRow]
      /\ \A x \in Payments \ {p} : gp'[x] = gp[x]
      /\ gp'[p] = Released(p)
  BY <1>2, <1>4, <1>5 DEF ReleaseClaim
<1> QED
  BY <1>1, <1>2, <1>5, <1>6, ClaimEnds DEF ReleaseClaim

-----------------------------------------------------------------------------
(* The till *)

LEMMA BillOnly ==
    ASSUME Inv, bill' \in BillRow,
           UNCHANGED <<outside, gp, rows, gr, event, req>>
    PROVE  Inv'
<1>1. UNCHANGED <<gp, rows, link, gr, sent, req>> /\ OtherTypes
  BY DEF Inv, TypeOK, OtherTypes, outside
<1>2. TypeOK' /\ RowsOK' /\ PointersOK' /\ PaymentsOK'
  BY <1>1 DEF Inv, TypeOK, OtherTypes, RowsOK, PointersOK, PaymentsOK
<1>3. ReservedOK' /\ Exclusive' /\ RefundsOK' /\ HeldOK'
  BY <1>1 DEF Inv, ReservedOK, Exclusive, RefundsOK, HeldOK, Held, UnitsOf
<1> QED
  BY <1>2, <1>3 DEF Inv

LEMMA TillSound ==
    ASSUME Inv,
           \/ \E a \in 1 .. Bill : TillPays(a) \/ TillRefunds(a)
           \/ TillAdds
           \/ TillCancels
    PROVE  Inv'
<1>1. bill \in BillRow /\ Bill \in Nat
  BY GatewayAssumption DEF Inv, TypeOK
<1>2. ASSUME NEW a \in 1 .. Bill, TillPays(a)
      PROVE  bill' \in BillRow
  <2>1. a \in Nat /\ bill.status \in {"OPEN", "PAID", "CANCELLED"}
    BY <1>1 DEF BillRow
  <2>2. bill' = [bill EXCEPT !.paid = bill.paid + a,
                             !.status = IF a = Due THEN "PAID" ELSE bill.status]
    BY <1>2 DEF TillPays
  <2> QED
    BY <1>1, <2>1, <2>2, PaidBill
<1>3. ASSUME NEW a \in 1 .. Bill, TillRefunds(a)
      PROVE  bill' \in BillRow
  BY <1>1, <1>3 DEF TillRefunds, BillRow
<1>4. ASSUME TillAdds PROVE bill' \in BillRow
  BY <1>1, <1>4 DEF TillAdds, BillRow
<1>5. ASSUME TillCancels PROVE bill' \in BillRow
  BY <1>1, <1>5 DEF TillCancels, BillRow
<1> QED
  BY <1>2, <1>3, <1>4, <1>5, BillOnly
     DEF TillPays, TillRefunds, TillAdds, TillCancels

-----------------------------------------------------------------------------
(* refund *)

LEMMA RefundReadsSound ==
    ASSUME Inv, NEW w \in Workers, NEW p \in Payments, NEW r \in Refunds,
           NEW a \in 1 .. Bill, RefundReads(w, p, r, a)
    PROVE  Inv'
<1> DEFINE q == RefundReq(p, r, a)
<1>1. a \in 0 .. Bill
  BY GatewayAssumption
<1>2. /\ q \in Request
      /\ q.step = "reserve" /\ q.pay = p /\ q.amount = a /\ q.refund = r
  BY <1>1, NewRequests
<1>3. req' = [req EXCEPT ![w] = q]
  BY DEF RefundReads, RefundReq
<1>4. \A v \in Workers : req[v].refund # r
  BY DEF RefundReads
<1>5. gr[r].status = "NONE" /\ rows[p] = 1
  BY DEF RefundReads, Inv, RowsOK, RowOK
<1>6. OtherTypes /\ UNCHANGED <<gp, rows, link, gr, sent>>
  BY Untouched DEF RefundReads, books, outside
<1> HIDE DEF q
<1>7. Goes(w, q)
  BY <1>2, <1>3, <1>4 DEF Goes, Apart, Creating, Claiming, Refunding
<1>8. KnowsPayment(q, gp[p], rows[p], link[p])
  BY <1>2, <1>5 DEF KnowsPayment, Creating, Claiming, Refunding, Asking
<1>9. KnowsRefund(q, gr[r], sent)
  BY <1>2, <1>5 DEF KnowsRefund, Refunding
<1> QED
  BY <1>2, <1>6, <1>7, <1>8, <1>9, ReadIsSound

\* What a request that sends money back knows.
LEMMA RefundFacts ==
    ASSUME Inv, NEW w \in Workers, req[w].step \in Refunding
    PROVE  LET p == req[w].pay
               r == req[w].refund
           IN  /\ p \in Payments /\ r \in Refunds
               /\ rows[p] = 1
               /\ req[w].amount \in 1 .. Bill
               /\ gr \in [Refunds -> RefundRow] /\ gr[r] \in RefundRow
               /\ KnowsPayment(req[w], gp[p], rows[p], link[p])
               /\ KnowsRefund(req[w], gr[r], sent)
<1>1. req[w].step # "idle"
  BY DEF Refunding
<1>2. req[w].refund \in Refunds /\ KnowsRefund(req[w], gr[req[w].refund], sent)
  BY DEF Inv, PointersOK, ReservedOK
<1>3. req[w].amount \in 0 .. Bill /\ req[w].amount >= 1
  BY <1>1, RequestFacts DEF KnowsPayment, Request
<1> QED
  BY <1>1, <1>2, <1>3, RequestFacts, GatewayAssumption
     DEF KnowsPayment, Inv, TypeOK

\* What the request knows of its payment does not depend on the step.
LEMMA StillKnows ==
    ASSUME Inv, NEW w \in Workers, req[w].step \in Refunding,
           NEW q, q.step \in Refunding, q.pay = req[w].pay,
           q.amount = req[w].amount
    PROVE  KnowsPayment(q, gp[q.pay], rows[q.pay], link[q.pay])
  BY RefundFacts DEF KnowsPayment, Creating, Claiming, Refunding, Asking

\* The row lock makes what is held the sum the check was made on.
LEMMA ReservedWithinPayment ==
    ASSUME Inv, UNCHANGED gp, NEW p \in Payments, NEW r \in Refunds,
           NEW a \in 1 .. Bill, gr[r].status = "NONE",
           a <= gp[p].amount - Held(p),
           gr' = [gr EXCEPT ![r] =
                    [status |-> "PENDING", of |-> p, amount |-> a]]
    PROVE  HeldOK'
<1>1. /\ gr \in [Refunds -> RefundRow]
      /\ \A x \in Refunds \ {r} : gr'[x] = gr[x]
      /\ gr'[r].status = "PENDING" /\ gr'[r].of = p /\ gr'[r].amount = a
  BY DEF Inv, TypeOK
<1>2. /\ Live(gr') = Live(gr) \cup {r}
      /\ r \notin Live(gr)
  BY <1>1 DEF Live
<1>3. ASSUME NEW x \in Payments
      PROVE  Held(x)' <= gp'[x].amount
  <2>1. Held(x)' = Cardinality(Units(gr', Live(gr) \cup {r}, x))
    <3>1. Held(x)' = Cardinality(Units(gr', Live(gr'), x))
      BY DEF Held, UnitsOf, Units, Live
    <3> QED
      BY <3>1, <1>2
  <2>2. Units(gr', Live(gr), x) = Units(gr, Live(gr), x)
    BY <1>1, <1>2 DEF Units
  <2>3. Held(x) = Cardinality(Units(gr', Live(gr), x))
    BY <2>2, HeldUnits
  <2>4. /\ Held(x) <= gp[x].amount /\ gp[x].amount \in Nat
        /\ Held(x) \in Nat
    BY <2>3, UnitsFinite, GatewayAssumption
       DEF Inv, HeldOK, TypeOK, PaymentRow
  <2>5. CASE x = p
    <3>1. a \in 0 .. Bill
      BY GatewayAssumption
    <3>2. gr'[r].of = x
      BY <1>1, <2>5
    <3>3. Cardinality(Units(gr', Live(gr) \cup {r}, x))
              = Cardinality(Units(gr', Live(gr), x)) + a
      <4>1. ASSUME NEW g, NEW rs, r \notin rs, g[r].of = x, g[r].amount = a
            PROVE  Cardinality(Units(g, rs \cup {r}, x))
                       = Cardinality(Units(g, rs, x)) + a
        BY <3>1, <4>1, UnitsAdd
      <4> QED
        BY <1>1, <1>2, <3>2, <4>1
    <3>4. Held(x)' = Held(x) + a
      BY <1>1, <2>1, <2>3, <3>3
    <3> QED
      BY <2>4, <2>5, <3>4, GatewayAssumption
  <2>6. CASE x # p
    <3>1. Units(gr', Live(gr) \cup {r}, x) = Units(gr', Live(gr), x)
      BY <1>1, <2>6 DEF Units
    <3> QED
      BY <2>1, <2>3, <2>4, <3>1
  <2> QED
    BY <2>5, <2>6
<1> QED
  BY <1>3 DEF HeldOK

LEMMA ReserveRefundSound ==
    ASSUME Inv, NEW w \in Workers, ReserveRefund(w)
    PROVE  Inv'
<1> DEFINE p == req[w].pay
           r == req[w].refund
           a == req[w].amount
           q == At(w, "send")
<1>1. req[w].step = "reserve" /\ req[w].step \in Refunding
  BY DEF ReserveRefund, Refunding
<1>2. /\ p \in Payments /\ r \in Refunds /\ rows[p] = 1 /\ a \in 1 .. Bill
      /\ gr[r].status = "NONE" /\ r \notin sent
  BY <1>1, RefundFacts DEF KnowsRefund, Inv, RefundsOK
<1>3. OtherTypes /\ UNCHANGED <<gp, rows, link, sent>>
  BY Untouched DEF ReserveRefund, books, outside
<1>4. CASE UNCHANGED gr /\ Finish(w)
  BY <1>3, <1>4, FinishGoes, LeaveIsSound
<1>5. CASE /\ a <= gp[p].amount - Held(p)
           /\ gr' = [gr EXCEPT ![r] =
                       [status |-> "PENDING", of |-> p, amount |-> a]]
           /\ Goto(w, "send")
  <2>1. HeldOK'
    BY <1>2, <1>3, <1>5, ReservedWithinPayment
  <2>2. /\ gr' \in [Refunds -> RefundRow]
        /\ \A x \in Refunds \ {r} : gr'[x] = gr[x]
        /\ gr'[r].status = "PENDING" /\ gr'[r].of = p /\ gr'[r].amount = a
    BY <1>2, <1>5, GatewayAssumption
       DEF Inv, TypeOK, RefundRow, RefundStatus
  <2>3. RefundChange(r)
    BY <1>2, <1>3, <2>2 DEF RefundChange, Inv, TypeOK
  <2>4. Goes(w, q)
    BY <1>1, <1>5, GotoGoes DEF Creating, Claiming, Refunding, Steps
  <2>5. /\ q.step = "send" /\ q.pay = p /\ q.refund = r /\ q.amount = a
    BY AtFacts DEF Inv, Steps
  <2>6. KnowsPayment(q, gp[q.pay], rows[q.pay], link[q.pay])
    BY <1>1, <2>5, StillKnows DEF Refunding
  <2>7. KnowsRefund(q, gr'[r], sent')
    BY <1>2, <1>3, <2>2, <2>5 DEF KnowsRefund
  <2> HIDE DEF q
  <2> QED
    BY <1>1, <1>2, <1>3, <2>1, <2>3, <2>4, <2>5, <2>6, <2>7, RefundStepIsSound
       DEF Refunding
<1> QED
  BY <1>4, <1>5 DEF ReserveRefund

\* The end of a refund: its row gets a last status.
LEMMA RefundEnds ==
    ASSUME Inv, NEW w \in Workers, req[w].step \in Refunding \ {"reserve"},
           NEW status \in RefundStatus \ {"NONE", "PENDING"},
           SetRefund(w, status), Finish(w), OtherTypes,
           UNCHANGED <<gp, rows, link>>,
           \/ UNCHANGED sent
           \/ sent' = sent \cup {req[w].refund},
           status = "FAILED" => req[w].refund \notin sent'
    PROVE  Inv'
<1> DEFINE r == req[w].refund
<1>1. /\ r \in Refunds /\ rows[req[w].pay] = 1 /\ req[w].pay \in Payments
      /\ gr \in [Refunds -> RefundRow]
      /\ gr[r].status = "PENDING" /\ gr[r].of = req[w].pay
  BY RefundFacts DEF KnowsRefund
<1>2. /\ gr' \in [Refunds -> RefundRow]
      /\ \A x \in Refunds \ {r} : gr'[x] = gr[x]
      /\ gr'[r].status = status
      /\ gr'[r].of = gr[r].of /\ gr'[r].amount = gr[r].amount
  BY <1>1 DEF SetRefund, RefundRow
<1>3. HeldOK'
  BY <1>1, <1>2, FewerHeld DEF Live
<1>4. RefundChange(r)
  BY <1>1, <1>2 DEF RefundChange, Inv, TypeOK
<1>5. Goes(w, Idle) /\ Idle.step = "idle"
  BY FinishGoes, IdleFacts
<1> QED
  BY <1>1, <1>3, <1>4, <1>5, RefundStepIsSound

LEMMA RefundRefusedSound ==
    ASSUME Inv, NEW w \in Workers, RefundRefused(w)
    PROVE  Inv'
<1>1. req[w].step = "send" /\ req[w].step \in Refunding \ {"reserve"}
  BY DEF RefundRefused, Refunding
<1>2. req[w].refund \notin sent /\ req[w].refund \in Refunds
  BY <1>1, RefundFacts DEF KnowsRefund
<1>3. erred' \in SUBSET Refunds
  BY <1>2 DEF RefundRefused, Inv, TypeOK
<1>4. OtherTypes /\ UNCHANGED <<gp, rows, link, sent>>
  BY <1>3 DEF RefundRefused, books, OtherTypes, Inv, TypeOK
<1> QED
  BY <1>1, <1>2, <1>4, RefundEnds DEF RefundRefused, RefundStatus

LEMMA RefundUnansweredSound ==
    ASSUME Inv, NEW w \in Workers, RefundUnanswered(w)
    PROVE  Inv'
<1>1. req[w].step \in Refunding \ {"reserve"}
  BY DEF RefundUnanswered, Refunding
<1>2. OtherTypes /\ UNCHANGED <<gp, rows, link>>
  BY Untouched DEF RefundUnanswered, books
<1>3. \/ UNCHANGED sent
      \/ sent' = sent \cup {req[w].refund}
  BY DEF RefundUnanswered
<1> QED
  BY <1>1, <1>2, <1>3, RefundEnds
     DEF RefundUnanswered, OutcomeUnknown, RefundStatus

LEMMA RefundDoneSound ==
    ASSUME Inv, NEW w \in Workers, RefundDone(w)
    PROVE  Inv'
<1>1. req[w].step \in Refunding \ {"reserve"}
  BY DEF RefundDone, Refunding
<1>2. OtherTypes /\ UNCHANGED <<gp, rows, link, sent>>
  BY Untouched DEF RefundDone, books, outside
<1> QED
  BY <1>1, <1>2, RefundEnds DEF RefundDone, RefundStatus

LEMMA RefundFlaggedSound ==
    ASSUME Inv, NEW w \in Workers, RefundFlagged(w)
    PROVE  Inv'
<1>1. req[w].step \in Refunding \ {"reserve"}
  BY DEF RefundFlagged, Refunding
<1>2. OtherTypes /\ UNCHANGED <<gp, rows, link, sent>>
  BY Untouched DEF RefundFlagged, books, outside
<1> QED
  BY <1>1, <1>2, RefundEnds DEF RefundFlagged, RefundStatus

\* Going on with a refund whose row is reserved.
LEMMA RefundGoesOn ==
    ASSUME Inv, NEW w \in Workers, req[w].step \in Refunding \ {"reserve"},
           NEW s \in {"record", "recorded", "unrecorded"}, Goto(w, s),
           OtherTypes, UNCHANGED <<gp, rows, link, gr>>,
           \/ UNCHANGED sent
           \/ sent' = sent \cup {req[w].refund}
    PROVE  Inv'
<1> DEFINE r == req[w].refund
           q == At(w, s)
<1>1. /\ r \in Refunds /\ rows[req[w].pay] = 1 /\ req[w].pay \in Payments
      /\ gr \in [Refunds -> RefundRow]
      /\ gr[r].status = "PENDING" /\ gr[r].of = req[w].pay
      /\ gr[r].amount = req[w].amount
  BY RefundFacts DEF KnowsRefund
<1>2. s \in Steps /\ s \in Refunding \ {"reserve", "send"}
  BY DEF Steps, Refunding
<1>3. Goes(w, q)
  BY <1>2, GotoGoes DEF Creating, Claiming, Refunding
<1>4. q.step = s /\ q.pay = req[w].pay /\ q.refund = r
      /\ q.amount = req[w].amount
  BY <1>2, AtFacts DEF Inv
<1>5. HeldOK'
  BY FewerHeld
<1>6. RefundChange(r)
  BY <1>1 DEF RefundChange, Inv, TypeOK
<1>7. KnowsPayment(q, gp[q.pay], rows[q.pay], link[q.pay])
  BY <1>2, <1>4, StillKnows
<1>8. KnowsRefund(q, gr'[r], sent')
  BY <1>1, <1>2, <1>4 DEF KnowsRefund
<1> HIDE DEF q
<1> QED
  BY <1>1, <1>2, <1>3, <1>4, <1>5, <1>6, <1>7, <1>8, RefundStepIsSound

LEMMA RefundSentSound ==
    ASSUME Inv, NEW w \in Workers, RefundSent(w)
    PROVE  Inv'
<1>1. req[w].step \in Refunding \ {"reserve"}
  BY DEF RefundSent, Refunding
<1>2. OtherTypes /\ UNCHANGED <<gp, rows, link, gr>>
  BY Untouched DEF RefundSent, books
<1> QED
  BY <1>1, <1>2, RefundGoesOn DEF RefundSent

LEMMA RecordRefundSound ==
    ASSUME Inv, NEW w \in Workers, RecordRefund(w)
    PROVE  Inv'
<1>1. req[w].step \in Refunding \ {"reserve"}
  BY DEF RecordRefund, Refunding
<1>2. req[w].amount \in Nat
  BY <1>1, RefundFacts, GatewayAssumption
<1>3. bill' \in BillRow
  BY <1>2 DEF RecordRefund, Inv, TypeOK, BillRow
<1>4. OtherTypes /\ UNCHANGED <<gp, rows, link, gr, sent>>
  BY <1>3 DEF RecordRefund, outside, Inv, TypeOK, OtherTypes
<1>5. Goto(w, "recorded") \/ Goto(w, "unrecorded")
  BY DEF RecordRefund
<1> QED
  BY <1>1, <1>4, <1>5, RefundGoesOn

-----------------------------------------------------------------------------
(* The invariant *)

LEMMA CrashSound ==
    ASSUME Inv, Crash
    PROVE  Inv'
<1>1. req' = [w \in Workers |-> Idle]
  BY DEF Crash
<1>2. UNCHANGED <<gp, rows, link, gr, sent, event, bill>>
  BY DEF Crash, books
<1>3. ClaimedBy(Workers) \subseteq Payments
  BY DEF ClaimedBy, Inv, PointersOK
<1>4. TypeOK'
  BY <1>1, <1>2, <1>3, IdleFacts DEF Crash, Inv, TypeOK
<1>5. RowsOK' /\ RefundsOK' /\ HeldOK'
  BY <1>2 DEF Inv, RowsOK, RefundsOK, HeldOK, Held, UnitsOf
<1>6. PointersOK' /\ PaymentsOK' /\ ReservedOK' /\ Exclusive'
  BY <1>1, IdleFacts
     DEF PointersOK, PaymentsOK, ReservedOK, Exclusive, Apart,
         Creating, Claiming, Refunding
<1> QED
  BY <1>4, <1>5, <1>6 DEF Inv

LEMMA InitInv == Init => Inv
<1> SUFFICES ASSUME Init PROVE Inv
  OBVIOUS
<1> USE GatewayAssumption
<1>1. TypeOK
  BY IdleFacts
     DEF Init, TypeOK, BillRow, PaymentRow, RefundRow, PaymentStatus,
         RefundStatus, Modes, LinkState
<1>2. RowsOK /\ RefundsOK
  BY DEF Init, RowsOK, RowOK, RefundsOK
<1>3. PointersOK /\ PaymentsOK /\ ReservedOK /\ Exclusive
  BY IdleFacts
     DEF Init, PointersOK, PaymentsOK, ReservedOK, Exclusive, Apart,
         Creating, Claiming, Refunding
<1>4. ASSUME NEW p \in Payments
      PROVE  Held(p) <= gp[p].amount
  <2>1. Live(gr) = {} /\ gp[p].amount = 0
    BY DEF Init, Live
  <2>2. Cardinality(Units(gr, Live(gr), p)) = 0
    BY <2>1, UnitsNone
  <2> QED
    BY <2>1, <2>2, HeldUnits
<1>5. HeldOK
  BY <1>4 DEF HeldOK
<1> QED
  BY <1>1, <1>2, <1>3, <1>5 DEF Inv

LEMMA NextInv == Inv /\ [Next]_vars => Inv'
<1> SUFFICES ASSUME Inv, [Next]_vars PROVE Inv'
  OBVIOUS
<1>1. ASSUME NEW w \in Workers, Create(w)
      PROVE  Inv'
  BY <1>1, CreateReadsSound, InsertPaymentSound, LinkCreatedSound,
     LinkNotCreatedSound, SaveLinkSound DEF Create
<1>2. ASSUME NEW w \in Workers, Refresh(w)
      PROVE  Inv'
  BY <1>2, FetchStatusSound, LookupFailsSound, ActWithoutSettlingSound,
     WriteFailsSound, ClaimSound, SettleReadsSound, SettleCommitsSound,
     SettleFailsSound, MarkSucceededSound, ReleaseClaimSound,
     RecordEventSound DEF Refresh
<1>3. ASSUME NEW w \in Workers, Refund(w)
      PROVE  Inv'
  BY <1>3, RefundReadsSound, ReserveRefundSound, RefundSentSound,
     RefundRefusedSound, RefundUnansweredSound, RecordRefundSound,
     RefundDoneSound, RefundFlaggedSound DEF Refund
<1>4. ASSUME NEW w \in Workers, NEW p \in Payments,
             Poll(w, p) \/ WebhookArrives(w, p)
      PROVE  Inv'
  BY <1>4, PollSound, WebhookArrivesSound
<1>5. ASSUME NEW p \in Payments,
             GuestPays(p) \/ LinkExpires(p) \/ LinkAges(p)
      PROVE  Inv'
  BY <1>5, GuestPaysSound, LinkExpiresSound, LinkAgesSound
<1>6. CASE \/ \E a \in 1 .. Bill : TillPays(a) \/ TillRefunds(a)
           \/ TillAdds
           \/ TillCancels
  BY <1>6, TillSound
<1>7. CASE Crash
  BY <1>7, CrashSound
<1>8. CASE UNCHANGED vars
  <2>1. bill' \in BillRow
    BY <1>8 DEF vars, Inv, TypeOK
  <2> QED
    BY <1>8, <2>1, BillOnly DEF vars, outside
<1> QED
  BY <1>1, <1>2, <1>3, <1>4, <1>5, <1>6, <1>7, <1>8 DEF Next

LEMMA Invariance == Spec => []Inv
  BY InitInv, NextInv, PTL DEF Spec

-----------------------------------------------------------------------------
(* The theorems *)

\* Every reachable state is well typed (TypeOK).
THEOREM TypeCorrect == Spec => []TypeOK
<1>1. Inv => TypeOK
  BY DEF Inv
<1> QED
  BY <1>1, Invariance, PTL

\* A payment row never says other than what the bill holds: a succeeded live
\* payment is on it once, and one on it is claimed, succeeded or flagged,
\* however polls, webhooks, failures and crashes meet (apply).
THEOREM RowsTellTheBooks == Spec => []RowMatchesBooks
<1>1. Inv => RowMatchesBooks
  BY DEF Inv, RowsOK, RowOK, RowMatchesBooks
<1> QED
  BY <1>1, Invariance, PTL

\* What went back to the guest of payment p is held by its refunds.
LEMMA SentIsHeld ==
    ASSUME Inv, NEW p \in Payments
    PROVE  /\ Cardinality(UnitsOf(sent, p)) <= gp[p].amount
           /\ Cardinality(UnitsOf(sent, p)) \in Nat
<1>1. sent \subseteq Live(gr)
  BY DEF Inv, TypeOK, RefundsOK, Live, RefundRow, RefundStatus
<1>2. UnitsOf(sent, p) = Units(gr, sent, p)
  BY DEF UnitsOf, Units
<1>3. Cardinality(Units(gr, sent, p)) <= Cardinality(Units(gr, Live(gr), p))
  BY <1>1, UnitsFewer
<1>4. Cardinality(Units(gr, Live(gr), p)) <= gp[p].amount
  BY HeldUnits DEF Inv, HeldOK
<1>5. gp[p].amount \in Nat
  BY GatewayAssumption DEF Inv, TypeOK, PaymentRow
<1>6. /\ Cardinality(Units(gr, sent, p)) \in Nat
      /\ Cardinality(Units(gr, Live(gr), p)) \in Nat
  BY UnitsFinite
<1> QED
  BY <1>2, <1>3, <1>4, <1>5, <1>6

LEMMA WithinPayment == Inv => RefundsWithinPayment
  BY SentIsHeld DEF RefundsWithinPayment

LEMMA WithinPaymentNext == Inv' => RefundsWithinPayment'
  BY WithinPayment, PTL

\* However many refunds of a payment run at once, fail, are retried or are
\* not answered, no more goes back than the payment brought in (refund), those
\* apart that were answered with an error and carried out.
THEOREM NeverRefundsMore == Spec => []RefundsWithinPayment
  BY WithinPayment, Invariance, PTL

-----------------------------------------------------------------------------
(* Refunds are never lost track of *)

\* The refunds that are in the books: those marked so, and those written and
\* not yet marked.
Written == {req[w].refund : w \in {v \in Workers : req[v].step = "recorded"}}
InBooks == {r \in Refunds : gr[r].status = "SUCCEEDED"} \cup Written
Amounts == [r \in Refunds |-> [of |-> None, amount |-> gr[r].amount]]
UnitsInBooks == Cardinality(Units(Amounts, InBooks, None))

\* The bill's refunds cover those of the provider that are in the books.
Covered == UnitsInBooks <= bill.refunded /\ bill.refunded <= bill.total

\* A step that puts no refund of the provider in the books.
LEMMA CoveredStays ==
    ASSUME Inv, Inv', Covered, bill'.refunded >= bill.refunded,
           bill'.refunded <= bill'.total,
           \A r \in Refunds \cap InBooks' :
               r \in InBooks /\ gr'[r].amount = gr[r].amount
    PROVE  Covered'
<1>1. InBooks \subseteq Refunds /\ InBooks' \subseteq Refunds
  BY DEF InBooks, Written, Inv, PointersOK, Refunding
<1>2. \A r \in Refunds \cap InBooks' :
          Amounts'[r].of = Amounts[r].of /\ Amounts'[r].amount = Amounts[r].amount
  BY DEF Amounts
<1>3. Cardinality(Units(Amounts', InBooks', None)) <= Cardinality(Units(Amounts, InBooks, None))
  <2>1. InBooks' \subseteq InBooks
    BY <1>1
  <2> QED
    BY <1>2, <2>1, UnitsFewer
<1>4. UnitsInBooks' = Cardinality(Units(Amounts', InBooks', None))
  BY DEF UnitsInBooks, Units
<1>5. /\ Cardinality(Units(Amounts', InBooks', None)) \in Nat
      /\ Cardinality(Units(Amounts, InBooks, None)) \in Nat
  BY UnitsFinite
<1>6. bill.refunded \in Nat /\ bill'.refunded \in Nat
  BY DEF Inv, TypeOK, BillRow
<1> QED
  BY <1>3, <1>4, <1>5, <1>6 DEF Covered, UnitsInBooks

\* The bill is not touched by what only takes in money.
BillKept == bill'.refunded = bill.refunded /\ bill'.total = bill.total

\* A request that is not about to be marked, and rows that stay.
LEMMA RequestsCover ==
    ASSUME Inv, Inv', Covered, BillKept, UNCHANGED gr,
           \A v \in Workers : req'[v].step = "recorded" => req'[v] = req[v]
    PROVE  Covered'
<1>1. InBooks' \subseteq InBooks
  BY DEF InBooks, Written
<1>2. bill.refunded \in Nat /\ bill.total \in Nat
  BY GatewayAssumption DEF Inv, TypeOK, BillRow
<1> QED
  BY <1>1, <1>2, CoveredStays DEF BillKept, Covered

\* What request w becomes when it does not put a refund in the books.
LEMMA GoesElsewhere ==
    ASSUME Inv, NEW w \in Workers, NEW q, q.step # "recorded",
           req' = [req EXCEPT ![w] = q]
    PROVE  \A v \in Workers : req'[v].step = "recorded" => req'[v] = req[v]
  BY DEF Inv, TypeOK

LEMMA FinishElsewhere ==
    ASSUME Inv, NEW w \in Workers, Finish(w)
    PROVE  \A v \in Workers : req'[v].step = "recorded" => req'[v] = req[v]
  BY GoesElsewhere, IdleFacts DEF Finish

LEMMA GotoElsewhere ==
    ASSUME Inv, NEW w \in Workers, NEW s \in Steps, s # "recorded", Goto(w, s)
    PROVE  \A v \in Workers : req'[v].step = "recorded" => req'[v] = req[v]
<1>1. req' = [req EXCEPT ![w] = At(w, s)] /\ At(w, s).step = s
  BY AtFacts DEF Inv, TypeOK, Goto, At
<1> QED
  BY <1>1, GoesElsewhere

LEMMA AfterRefreshElsewhere ==
    ASSUME Inv, NEW w \in Workers, AfterRefresh(w)
    PROVE  \A v \in Workers : req'[v].step = "recorded" => req'[v] = req[v]
  BY FinishElsewhere, GotoElsewhere DEF AfterRefresh, Steps

LEMMA CreateCovers ==
    ASSUME Inv, Inv', Covered, NEW w \in Workers, Create(w)
    PROVE  Covered'
<1>1. UNCHANGED <<bill, gr>>
  BY DEF Create, CreateReads, InsertPayment, LinkCreated, LinkNotCreated, SaveLink, books
<1>2. ASSUME NEW p \in Payments, NEW mode \in Modes, CreateReads(w, p, mode)
      PROVE  \A v \in Workers : req'[v].step = "recorded" => req'[v] = req[v]
  <2> DEFINE q == [Idle EXCEPT !.step = "insert", !.pay = p, !.mode = mode, !.amount = Due]
  <2>1. q.step = "insert"
    BY DEF Idle
  <2>2. req' = [req EXCEPT ![w] = q]
    BY <1>2 DEF CreateReads
  <2> HIDE DEF q
  <2> QED
    BY <2>1, <2>2, GoesElsewhere
<1>3. \A v \in Workers : req'[v].step = "recorded" => req'[v] = req[v]
  BY <1>2, FinishElsewhere, GotoElsewhere
     DEF Create, InsertPayment, LinkCreated, LinkNotCreated, SaveLink, Steps
<1> QED
  BY <1>1, <1>3, RequestsCover DEF BillKept

LEMMA RefreshCovers ==
    ASSUME Inv, Inv', Covered, NEW w \in Workers, Refresh(w)
    PROVE  Covered'
<1>1. UNCHANGED gr
  BY DEF Refresh, FetchStatus, LookupFails, ActWithoutSettling, WriteFails, Claim, SettleReads,
         SettleCommits, SettleFails, MarkSucceeded, ReleaseClaim, RecordEvent
<1>2. BillKept
  <2>1. CASE SettleCommits(w)
    BY <2>1 DEF SettleCommits, BillKept, books, Inv, TypeOK, BillRow
  <2> QED
    BY <2>1 DEF Refresh, FetchStatus, LookupFails, ActWithoutSettling, WriteFails, Claim,
                SettleReads, SettleFails, MarkSucceeded, ReleaseClaim, RecordEvent, books, BillKept
<1>3. CASE FetchStatus(w) \/ SettleReads(w)
  <2>1. req' \in [Workers -> Request] /\ req'[w].step # "recorded"
        /\ \A v \in Workers \ {w} : req'[v] = req[v]
    BY <1>3 DEF FetchStatus, SettleReads, Goto, Inv, TypeOK, Request
  <2> QED
    BY <1>1, <1>2, <2>1, RequestsCover
<1>4. CASE LookupFails(w) \/ ActWithoutSettling(w) \/ WriteFails(w) \/ Claim(w) \/ SettleCommits(w)
           \/ SettleFails(w) \/ MarkSucceeded(w) \/ ReleaseClaim(w) \/ RecordEvent(w)
  <2>1. \A v \in Workers : req'[v].step = "recorded" => req'[v] = req[v]
    BY <1>4, AfterRefreshElsewhere, FinishElsewhere, GotoElsewhere
       DEF LookupFails, ActWithoutSettling, WriteFails, Claim, SettleCommits, SettleFails,
           MarkSucceeded, ReleaseClaim, RecordEvent, Steps
  <2> QED
    BY <1>1, <1>2, <2>1, RequestsCover
<1> QED
  BY <1>3, <1>4 DEF Refresh

\* A write of the row of a refund that w works on and that is not in the books
\* afterwards, or was before.
LEMMA RowCovers ==
    ASSUME Inv, Inv', Covered, BillKept, NEW w \in Workers, req[w].step \in Refunding,
           \A v \in Workers : req'[v].step = "recorded" => req'[v] = req[v],
           \A r \in Refunds \ {req[w].refund} : gr'[r] = gr[r],
           req'[w].step # "recorded",
           \/ gr'[req[w].refund].status # "SUCCEEDED"
           \/ req[w].step = "recorded" /\ gr'[req[w].refund].amount = gr[req[w].refund].amount
    PROVE  Covered'
<1>1. PICK r \in Refunds : r = req[w].refund
  BY RefundFacts
<1>2. \A v \in Workers : req'[v].step = "recorded" => v # w /\ req[v].step = "recorded" /\ req[v].refund # r
  BY <1>1 DEF Inv, Exclusive, Apart, Refunding
<1>3. \A x \in Written' : x \in Written /\ x # r
  BY <1>2 DEF Written
<1>4. \A x \in Refunds \cap InBooks' : x \in InBooks /\ gr'[x].amount = gr[x].amount
  <2>1. CASE gr'[r].status # "SUCCEEDED"
    BY <1>1, <1>3, <2>1 DEF InBooks
  <2>2. CASE req[w].step = "recorded" /\ gr'[r].amount = gr[r].amount
    BY <1>1, <1>3, <2>2 DEF InBooks, Written
  <2> QED
    BY <1>1, <2>1, <2>2
<1>5. bill.refunded \in Nat /\ bill.total \in Nat
  BY GatewayAssumption DEF Inv, TypeOK, BillRow
<1> QED
  BY <1>4, <1>5, CoveredStays DEF BillKept, Covered

\* The bill's own record of a refund comes before the row is marked.
LEMMA RecordCovers ==
    ASSUME Inv, Inv', Covered, NEW w \in Workers, RecordRefund(w)
    PROVE  Covered'
<1>1. /\ req[w].step = "record" /\ req[w].step \in Refunding
      /\ UNCHANGED gr
  BY DEF RecordRefund, Refunding
<1>2. CASE ~ Refundable(req[w].amount)
  BY <1>1, <1>2, GotoElsewhere, RequestsCover DEF RecordRefund, BillKept, Steps
<1>3. CASE Refundable(req[w].amount)
  <2>1. PICK r \in Refunds, a \in 1 .. Bill :
            /\ r = req[w].refund /\ a = req[w].amount
            /\ gr[r].status = "PENDING" /\ gr[r].amount = a
            /\ a \in 0 .. Bill
    BY <1>1, RefundFacts, GatewayAssumption DEF KnowsRefund, Refunding
  <2>2. /\ bill' = [bill EXCEPT !.refunded = @ + a]
        /\ a <= bill.total - bill.refunded
        /\ Goto(w, "recorded")
    BY <1>3, <2>1 DEF RecordRefund, Refundable
  <2>3. /\ bill.refunded \in Nat /\ bill.total \in Nat /\ a \in Nat
        /\ bill'.refunded = bill.refunded + a
        /\ bill'.total = bill.total
    BY <2>2, GatewayAssumption DEF Inv, TypeOK, BillRow
  <2>4. /\ req'[w].step = "recorded" /\ req'[w].refund = r
        /\ \A v \in Workers \ {w} : req'[v] = req[v]
    BY <2>1, <2>2 DEF Goto, Inv, TypeOK, Request
  <2>5. r \notin InBooks
    <3>1. \A v \in Workers : req[v].step = "recorded" => req[v].refund # r
      BY <1>1, <2>1 DEF Inv, Exclusive, Apart, Refunding
    <3> QED
      BY <2>1, <3>1 DEF InBooks, Written
  <2>6. InBooks' = InBooks \cup {r}
    <3>1. \A x : x \in Written' <=> x \in Written \/ x = r
      BY <1>1, <2>4 DEF Written
    <3> QED
      BY <1>1, <3>1 DEF InBooks
  <2>7. UnitsInBooks' = UnitsInBooks + a
    <3>1. Amounts' = Amounts /\ Amounts[r].of = None /\ Amounts[r].amount = a
      BY <1>1, <2>1 DEF Amounts
    <3>2. ASSUME NEW g, NEW rs, r \notin rs, g[r].of = None, g[r].amount = a
          PROVE  Cardinality(Units(g, rs \cup {r}, None)) = Cardinality(Units(g, rs, None)) + a
      BY <2>1, <3>2, UnitsAdd
    <3>3. Cardinality(Units(Amounts, InBooks \cup {r}, None)) = Cardinality(Units(Amounts, InBooks, None)) + a
      BY <2>5, <3>1, <3>2
    <3>4. UnitsInBooks' = Cardinality(Units(Amounts, InBooks \cup {r}, None))
      BY <2>6, <3>1 DEF UnitsInBooks, Units
    <3> QED
      BY <3>3, <3>4 DEF UnitsInBooks
  <2>8. UnitsInBooks \in Nat
    BY UnitsFinite DEF UnitsInBooks
  <2> QED
    BY <2>2, <2>3, <2>7, <2>8 DEF Covered
<1> QED
  BY <1>2, <1>3

LEMMA RefundCovers ==
    ASSUME Inv, Inv', Covered, NEW w \in Workers, Refund(w)
    PROVE  Covered'
<1>1. ASSUME NEW p \in Payments, NEW r \in Refunds, NEW a \in 1 .. Bill, RefundReads(w, p, r, a)
      PROVE  Covered'
  <2> DEFINE q == [Idle EXCEPT !.step = "reserve", !.pay = p, !.refund = r, !.amount = a]
  <2>1. q.step = "reserve"
    BY DEF Idle
  <2>2. req' = [req EXCEPT ![w] = q] /\ UNCHANGED <<bill, gr>>
    BY <1>1 DEF RefundReads, books
  <2> HIDE DEF q
  <2> QED
    BY <2>1, <2>2, GoesElsewhere, RequestsCover DEF BillKept
<1>2. CASE RecordRefund(w)
  BY <1>2, RecordCovers
<1>3. CASE RefundSent(w)
  BY <1>3, GotoElsewhere, RequestsCover DEF RefundSent, books, BillKept, Steps
<1>4. CASE ReserveRefund(w)
  <2>1. req[w].step \in Refunding /\ req[w].step = "reserve" /\ BillKept
    BY <1>4 DEF ReserveRefund, Refunding, books, BillKept
  <2>2. CASE Finish(w) /\ UNCHANGED gr
    BY <2>1, <2>2, FinishElsewhere, RequestsCover
  <2>3. CASE ~ (Finish(w) /\ UNCHANGED gr)
    <3>1. PICK r \in Refunds : r = req[w].refund
      BY <2>1, RefundFacts
    <3>2. /\ gr' = [gr EXCEPT ![r] = [status |-> "PENDING", of |-> req[w].pay, amount |-> req[w].amount]]
          /\ Goto(w, "send")
      BY <1>4, <2>3, <3>1 DEF ReserveRefund
    <3>3. /\ gr'[r].status = "PENDING"
          /\ \A x \in Refunds \ {r} : gr'[x] = gr[x]
      BY <3>1, <3>2 DEF Inv, TypeOK
    <3>4. /\ req'[w].step = "send"
          /\ \A v \in Workers : req'[v].step = "recorded" => req'[v] = req[v]
      BY <3>2, GotoElsewhere DEF Goto, Inv, TypeOK, Request, Steps
    <3> QED
      BY <2>1, <3>1, <3>3, <3>4, RowCovers
  <2> QED
    BY <2>2, <2>3
<1>5. ASSUME NEW s, SetRefund(w, s), Finish(w), BillKept, req[w].step \in Refunding,
             s # "SUCCEEDED" \/ req[w].step = "recorded"
      PROVE  Covered'
  <2>1. PICK r \in Refunds : r = req[w].refund
    BY <1>5, RefundFacts
  <2>2. /\ gr'[r].status = s /\ gr'[r].amount = gr[r].amount
        /\ \A x \in Refunds \ {r} : gr'[x] = gr[x]
    BY <1>5, <2>1 DEF SetRefund, Inv, TypeOK, RefundRow
  <2>3. /\ req'[w].step # "recorded"
        /\ \A v \in Workers : req'[v].step = "recorded" => req'[v] = req[v]
    BY <1>5, FinishElsewhere, IdleFacts DEF Finish, Inv, TypeOK
  <2> QED
    BY <1>5, <2>1, <2>2, <2>3, RowCovers
<1>6. CASE RefundRefused(w) \/ RefundUnanswered(w) \/ RefundDone(w) \/ RefundFlagged(w)
  BY <1>5, <1>6 DEF RefundRefused, RefundUnanswered, RefundDone, RefundFlagged, OutcomeUnknown,
                    Refunding, books, BillKept
<1> QED
  BY <1>1, <1>2, <1>3, <1>4, <1>6 DEF Refund

LEMMA StepCovers == Inv /\ Inv' /\ Covered /\ [Next]_vars => Covered'
<1> SUFFICES ASSUME Inv, Inv', Covered, [Next]_vars PROVE Covered'
  OBVIOUS
<1>1. ASSUME NEW w \in Workers, NEW p \in Payments, Poll(w, p) \/ WebhookArrives(w, p)
      PROVE  Covered'
  <2>1. UNCHANGED <<bill, gr>>
    BY <1>1 DEF Poll, WebhookArrives, books
  <2>2. PICK q : req' = [req EXCEPT ![w] = q] /\ q.step # "recorded"
    <3>1. CASE Poll(w, p)
      <4> DEFINE q == [Idle EXCEPT !.step = "fetch", !.pay = p]
      <4>1. q.step = "fetch"
        BY DEF Idle
      <4>2. req' = [req EXCEPT ![w] = q]
        BY <3>1 DEF Poll
      <4> HIDE DEF q
      <4> QED
        BY <4>1, <4>2
    <3>2. CASE WebhookArrives(w, p)
      <4> DEFINE s == IF Refreshable(p) THEN "fetch" ELSE "ack"
                 q == [Idle EXCEPT !.step = s, !.pay = p, !.hook = TRUE]
      <4>1. q.step = s /\ s # "recorded"
        BY DEF Idle
      <4>2. req' = [req EXCEPT ![w] = q]
        BY <3>2 DEF WebhookArrives
      <4> HIDE DEF q, s
      <4> QED
        BY <4>1, <4>2
    <3> QED
      BY <1>1, <3>1, <3>2
  <2> QED
    BY <2>1, <2>2, GoesElsewhere, RequestsCover DEF BillKept
<1>2. ASSUME NEW p \in Payments, GuestPays(p) \/ LinkExpires(p) \/ LinkAges(p)
      PROVE  Covered'
  BY <1>2, RequestsCover DEF GuestPays, LinkExpires, LinkAges, books, BillKept
<1>3. ASSUME NEW a \in 1 .. Bill, TillPays(a)
      PROVE  Covered'
  BY <1>3, RequestsCover DEF TillPays, BillKept, Inv, TypeOK, BillRow
<1>4. CASE TillCancels
  BY <1>4, RequestsCover DEF TillCancels, BillKept, Inv, TypeOK, BillRow
<1>5. ASSUME UNCHANGED <<gr, req>>
      PROVE  \A r \in Refunds \cap InBooks' : r \in InBooks /\ gr'[r].amount = gr[r].amount
  BY <1>5 DEF InBooks, Written
<1>6. ASSUME NEW a \in 1 .. Bill, TillRefunds(a)
      PROVE  Covered'
  <2>1. bill'.refunded >= bill.refunded /\ bill'.refunded <= bill'.total
    BY <1>6, GatewayAssumption DEF TillRefunds, Refundable, Inv, TypeOK, BillRow
  <2> QED
    BY <1>5, <1>6, <2>1, CoveredStays DEF TillRefunds
<1>7. CASE TillAdds
  <2>1. bill'.refunded >= bill.refunded /\ bill'.refunded <= bill'.total
    BY <1>7, GatewayAssumption DEF TillAdds, Covered, Inv, TypeOK, BillRow
  <2> QED
    BY <1>5, <1>7, <2>1, CoveredStays DEF TillAdds
<1>8. CASE Crash
  <2>1. \A v \in Workers : req'[v].step # "recorded"
    BY <1>8, IdleFacts DEF Crash
  <2> QED
    BY <1>8, <2>1, RequestsCover DEF Crash, books, BillKept
<1>9. CASE UNCHANGED vars
  BY <1>9, RequestsCover DEF vars, books, BillKept
<1> QED
  BY <1>1, <1>2, <1>3, <1>4, <1>6, <1>7, <1>8, <1>9, CreateCovers, RefreshCovers, RefundCovers DEF Next

\* The order of the steps of refund never loses track of money, whatever fails
\* and however the till refunds meanwhile: one that went out, and was not
\* answered with an error, is not taken for failed; one marked succeeded is in
\* the books; all stay within the bill.
THEOREM RefundsNeverLost == Spec => []RefundsTracked
<1>1. Init => Covered
  <2> SUFFICES ASSUME Init PROVE Covered
    OBVIOUS
  <2>1. InBooks = {}
    BY IdleFacts DEF Init, InBooks, Written
  <2>2. UnitsInBooks = 0
    <3>1. Units(Amounts, InBooks, None) = {}
      BY <2>1 DEF Units
    <3> QED
      BY <3>1, FS_EmptySet DEF UnitsInBooks
  <2> QED
    BY <2>2 DEF Init, Covered
<1>2. Inv /\ Covered => RefundsTracked
  <2> SUFFICES ASSUME Inv, Covered PROVE RefundsTracked
    OBVIOUS
  <2> DEFINE done  == {r \in Refunds : gr[r].status = "SUCCEEDED"}
             units == UNION {UnitsOf(done, p) : p \in Payments}
             known == Units(Amounts, InBooks, None)
  <2>1. units \subseteq known
    BY DEF UnitsOf, Units, InBooks, Amounts
  <2>2. Cardinality(units) <= Cardinality(known) /\ Cardinality(units) \in Nat
        /\ Cardinality(known) \in Nat
    <3>1. IsFiniteSet(known)
      BY UnitsFinite
    <3> HIDE DEF units, known
    <3>2. IsFiniteSet(units) /\ Cardinality(units) <= Cardinality(known)
      BY <2>1, <3>1, FS_Subset
    <3> QED
      BY <3>1, <3>2, FS_CardinalityType
  <2>3. bill.refunded \in Nat
    BY DEF Inv, TypeOK, BillRow
  <2>4. Cardinality(units) <= bill.refunded
    <3>1. Cardinality(known) <= bill.refunded
      BY DEF Covered, UnitsInBooks
    <3> HIDE DEF units, known
    <3> QED
      BY <2>2, <2>3, <3>1
  <2>5. \A r \in sent : gr[r].status # "FAILED"
    BY DEF Inv, TypeOK, RefundsOK
  <2> QED
    BY <2>4, <2>5 DEF RefundsTracked, Covered
<1> QED
  BY <1>1, <1>2, StepCovers, Invariance, PTL DEF Spec

-----------------------------------------------------------------------------
(* The service implements PaymentLedger *)

\* The variables of PaymentLedger, as GatewayPayments substitutes them.
Taken(p) == IF link[p] = "PAID" /\ gp[p].mode = "LIVE" THEN gp[p].amount
            ELSE 0
Returned(p) == Cardinality(UnitsOf(sent, p))
taken    == [p \in Payments |-> Taken(p)]
booked   == {p \in Payments : rows[p] > 0}
returned == [p \in Payments |-> Returned(p)]

LedgerStep == [Ledger!Next]_(Ledger!ledger)

LEMMA LedgerSteps ==
    /\ UNCHANGED <<taken, booked, returned>> => LedgerStep
    /\ \A p \in Payments, a \in 1 .. Bill :
          /\ taken[p] = 0 /\ taken' = [taken EXCEPT ![p] = a]
          /\ UNCHANGED <<booked, returned>>
          => LedgerStep
    /\ \A p \in Payments :
          /\ taken[p] > 0 /\ p \notin booked /\ booked' = booked \cup {p}
          /\ UNCHANGED <<taken, returned>>
          => LedgerStep
    /\ \A p \in Payments, a \in 1 .. Bill :
          /\ p \in booked /\ returned[p] + a <= taken[p]
          /\ returned' = [returned EXCEPT ![p] = returned[p] + a]
          /\ UNCHANGED <<taken, booked>>
          => LedgerStep
<1> USE DEF LedgerStep, Ledger!Next, Ledger!ledger, Ledger!Charge, Ledger!Book,
            Ledger!Return, taken, booked, returned, Taken, Returned
<1>1. UNCHANGED <<taken, booked, returned>> => LedgerStep
  OBVIOUS
<1>2. ASSUME NEW p \in Payments, NEW a \in 1 .. Bill,
             taken[p] = 0, taken' = [taken EXCEPT ![p] = a],
             UNCHANGED <<booked, returned>>
      PROVE  LedgerStep
  BY <1>2
<1>3. ASSUME NEW p \in Payments,
             taken[p] > 0, p \notin booked, booked' = booked \cup {p},
             UNCHANGED <<taken, returned>>
      PROVE  LedgerStep
  BY <1>3
<1>4. ASSUME NEW p \in Payments, NEW a \in 1 .. Bill,
             p \in booked, returned[p] + a <= taken[p],
             returned' = [returned EXCEPT ![p] = returned[p] + a],
             UNCHANGED <<taken, booked>>
      PROVE  LedgerStep
  BY <1>4
<1> QED
  BY <1>1, <1>2, <1>3, <1>4

\* The money that came in is as it was.
SameTaken == \A p \in Payments :
                /\ link'[p] = "PAID" <=> link[p] = "PAID"
                /\ link[p] = "PAID" => /\ gp'[p].mode = gp[p].mode
                                       /\ gp'[p].amount = gp[p].amount
SameReturned == /\ UNCHANGED sent
                /\ \A r \in sent : /\ gr'[r].of = gr[r].of
                                   /\ gr'[r].amount = gr[r].amount

LEMMA TakenStays ==
    ASSUME SameTaken
    PROVE  UNCHANGED taken
<1>1. \A p \in Payments : Taken(p)' = Taken(p)
  BY DEF SameTaken, Taken
<1> QED
  BY <1>1 DEF taken

LEMMA ReturnedStays ==
    ASSUME SameReturned
    PROVE  UNCHANGED returned
<1>1. ASSUME NEW p \in Payments
      PROVE  UnitsOf(sent, p)' = UnitsOf(sent, p)
  BY DEF SameReturned, UnitsOf
<1>2. \A p \in Payments : Returned(p)' = Returned(p)
  BY <1>1 DEF Returned
<1> QED
  BY <1>2 DEF returned

LEMMA QuietStep ==
    ASSUME SameTaken, SameReturned, UNCHANGED rows
    PROVE  LedgerStep
<1>1. UNCHANGED booked
  BY DEF booked
<1> QED
  BY <1>1, TakenStays, ReturnedStays, LedgerSteps

LEMMA NoDataStep ==
    ASSUME UNCHANGED <<gp, rows, link, gr, sent>>
    PROVE  LedgerStep
  BY QuietStep DEF SameTaken, SameReturned

\* A change of one payment row that keeps its mode and its amount.
LEMMA RowStep ==
    ASSUME Inv, NEW p \in Payments, UNCHANGED <<rows, link, gr, sent>>,
           \A x \in Payments \ {p} : gp'[x] = gp[x],
           gp'[p].mode = gp[p].mode, gp'[p].amount = gp[p].amount
    PROVE  LedgerStep
  BY QuietStep DEF SameTaken, SameReturned

\* A change of the row or the link of a payment nobody can have paid.
LEMMA UnpaidStep ==
    ASSUME Inv, NEW p \in Payments, UNCHANGED <<rows, gr, sent>>,
           \A x \in Payments \ {p} : gp'[x] = gp[x] /\ link'[x] = link[x],
           link[p] # "PAID", link'[p] # "PAID"
    PROVE  LedgerStep
  BY QuietStep DEF SameTaken, SameReturned

LEMMA CreateImplements ==
    ASSUME Inv, NEW w \in Workers, Create(w)
    PROVE  LedgerStep
<1>1. ASSUME NEW p \in Payments, NEW mode \in Modes, CreateReads(w, p, mode)
      PROVE  LedgerStep
  BY <1>1, NoDataStep DEF CreateReads, books, outside
<1>2. ASSUME req[w].step \in Creating
      PROVE  /\ req[w].pay \in Payments
             /\ link[req[w].pay] # "PAID"
             /\ gp \in [Payments -> PaymentRow]
             /\ link \in [Payments -> LinkState]
  <2>1. req[w].step # "idle"
    BY <1>2 DEF Creating
  <2> QED
    BY <1>2, <2>1, RequestFacts DEF KnowsPayment, RowOK
<1>3. CASE InsertPayment(w)
  BY <1>2, <1>3, UnpaidStep DEF InsertPayment, books, outside, Creating
<1>4. CASE LinkCreated(w)
  BY <1>2, <1>4, UnpaidStep DEF LinkCreated, books, Creating
<1>5. CASE LinkNotCreated(w)
  <2>1. /\ UNCHANGED <<rows, gr, sent>>
        /\ req[w].step \in Creating
    BY <1>5 DEF LinkNotCreated, books, Creating
  <2>2. /\ \A x \in Payments \ {req[w].pay} :
             gp'[x] = gp[x] /\ link'[x] = link[x]
        /\ link'[req[w].pay] # "PAID"
    BY <1>2, <1>5, <2>1 DEF LinkNotCreated, SetStatus
  <2> QED
    BY <1>2, <2>1, <2>2, UnpaidStep
<1>6. CASE SaveLink(w)
  BY <1>2, <1>6, UnpaidStep DEF SaveLink, books, outside, Creating
<1> QED
  BY <1>1, <1>3, <1>4, <1>5, <1>6 DEF Create

LEMMA GuestImplements ==
    ASSUME Inv, NEW p \in Payments, GuestPays(p)
    PROVE  LedgerStep
<1>1. /\ link[p] = "OPEN" /\ gp[p].ref
      /\ UNCHANGED <<gp, rows, gr, sent>>
      /\ link \in [Payments -> LinkState]
  BY DEF GuestPays, books, Inv, TypeOK
<1>2. PICK state \in {"PAID", "PAID_OTHER"} :
          link' = [link EXCEPT ![p] = state]
  BY DEF GuestPays
<1>3. CASE state = "PAID" /\ gp[p].mode = "LIVE"
  <2> DEFINE a == gp[p].amount
  <2>1. a \in 1 .. Bill
    BY <1>1, GatewayAssumption DEF Inv, RowsOK, RowOK, TypeOK, PaymentRow
  <2>2. \A x \in Payments : Taken(x)' = IF x = p THEN a ELSE Taken(x)
    BY <1>1, <1>2, <1>3 DEF Taken
  <2>3. taken[p] = 0 /\ taken' = [taken EXCEPT ![p] = a]
    BY <1>1, <2>2 DEF taken, Taken
  <2>4. UNCHANGED booked /\ UNCHANGED returned
    BY <1>1, ReturnedStays DEF SameReturned, booked
  <2> HIDE DEF a
  <2> QED
    BY <2>1, <2>3, <2>4, LedgerSteps
<1>4. CASE ~ (state = "PAID" /\ gp[p].mode = "LIVE")
  <2>1. \A x \in Payments : Taken(x)' = Taken(x)
    BY <1>1, <1>2, <1>4 DEF Taken
  <2>2. UNCHANGED taken
    BY <2>1 DEF taken
  <2>3. UNCHANGED booked /\ UNCHANGED returned
    BY <1>1, ReturnedStays DEF SameReturned, booked
  <2> QED
    BY <2>2, <2>3, LedgerSteps
<1> QED
  BY <1>3, <1>4

LEMMA RefreshImplements ==
    ASSUME Inv, NEW w \in Workers, Refresh(w)
    PROVE  LedgerStep
<1> DEFINE p == req[w].pay
<1>1. CASE FetchStatus(w) \/ LookupFails(w) \/ SettleReads(w)
           \/ SettleFails(w)
  BY <1>1, NoDataStep
     DEF FetchStatus, LookupFails, SettleReads, SettleFails, books, outside
<1>2. CASE WriteFails(w) \/ RecordEvent(w)
  BY <1>2, NoDataStep DEF WriteFails, RecordEvent, books, outside
<1>3. ASSUME req[w].step \in {"act", "done", "failed", "pay"}
      PROVE  p \in Payments /\ gp \in [Payments -> PaymentRow]
  BY <1>3, RequestFacts
<1>4. CASE ActWithoutSettling(w) \/ Claim(w) \/ MarkSucceeded(w)
           \/ ReleaseClaim(w)
  <2>1. /\ UNCHANGED <<rows, link, gr, sent>>
        /\ req[w].step \in {"act", "done", "failed", "pay"}
    BY <1>4 DEF ActWithoutSettling, Claim, MarkSucceeded, ReleaseClaim,
                books, outside
  <2>2. p \in Payments /\ gp \in [Payments -> PaymentRow]
    BY <1>3, <2>1
  <2>3. \A g \in PaymentRow :
            LET h == [g EXCEPT !.status = "NEEDS_REVIEW", !.applied = FALSE]
            IN  h.mode = g.mode /\ h.amount = g.amount
    BY DEF PaymentRow
  <2>4. Released(p).mode = gp[p].mode /\ Released(p).amount = gp[p].amount
    BY <2>2, <2>3 DEF Released
  <2>5. \/ \E s \in PaymentStatus : gp' = [gp EXCEPT ![p].status = s]
        \/ UNCHANGED gp
        \/ gp' = [gp EXCEPT ![p].applied = TRUE]
        \/ gp' = [gp EXCEPT ![p] = Released(p)]
    BY <1>4 DEF ActWithoutSettling, Claim, MarkSucceeded, ReleaseClaim,
                SetStatus, PaymentStatus
  <2>6. /\ \A x \in Payments \ {p} : gp'[x] = gp[x]
        /\ gp'[p].mode = gp[p].mode /\ gp'[p].amount = gp[p].amount
    BY <2>2, <2>4, <2>5 DEF PaymentRow
  <2> QED
    BY <2>1, <2>2, <2>6, RowStep
<1>5. CASE SettleCommits(w)
  <2>1. req[w].step \in Claiming /\ req[w].step = "pay"
    BY <1>5 DEF SettleCommits, Claiming
  <2>2. UNCHANGED <<gp, link, gr, sent>>
    BY <1>5 DEF SettleCommits, outside
  <2>3. CASE UNCHANGED books
    BY <2>2, <2>3, NoDataStep DEF books
  <2>4. CASE rows' = [rows EXCEPT ![p] = @ + 1]
    <3>1. /\ p \in Payments /\ rows[p] = 0 /\ link[p] = "PAID"
          /\ gp[p].mode = "LIVE" /\ gp[p].amount >= 1
          /\ rows \in [Payments -> 0 .. 1]
      BY <2>1, ClaimFacts DEF Inv, TypeOK
    <3>2. taken[p] > 0
      BY <3>1, GatewayAssumption DEF taken, Taken, Inv, TypeOK, PaymentRow
    <3>3. p \notin booked /\ booked' = booked \cup {p}
      BY <2>4, <3>1 DEF booked
    <3>4. UNCHANGED taken /\ UNCHANGED returned
      BY <2>2, TakenStays, ReturnedStays DEF SameTaken, SameReturned
    <3> QED
      BY <3>1, <3>2, <3>3, <3>4, LedgerSteps
  <2> QED
    BY <1>5, <2>3, <2>4 DEF SettleCommits
<1> QED
  BY <1>1, <1>2, <1>4, <1>5 DEF Refresh

\* The provider carries out the refund of request w.
LEMMA SendingImplements ==
    ASSUME Inv, Inv', NEW w \in Workers, req[w].step = "send",
           UNCHANGED <<gp, rows, link>>,
           sent' = sent \cup {req[w].refund},
           \A r \in Refunds : /\ gr'[r].of = gr[r].of
                              /\ gr'[r].amount = gr[r].amount
    PROVE  LedgerStep
<1>1. PICK p \in Payments, r \in Refunds, a \in 1 .. Bill :
          /\ r = req[w].refund
          /\ rows[p] = 1 /\ r \notin sent
          /\ gr[r].of = p /\ gr[r].amount = a /\ a \in 0 .. Bill
  BY RefundFacts, GatewayAssumption DEF KnowsRefund, Refunding
<1>2. ASSUME NEW x \in Payments
      PROVE  Returned(x)' = Cardinality(Units(gr, sent \cup {r}, x))
  <2>1. UnitsOf(sent, x)' = Units(gr, sent \cup {r}, x)
    BY <1>1 DEF UnitsOf, Units
  <2> QED
    BY <2>1 DEF Returned
<1>3. ASSUME NEW x \in Payments
      PROVE  Returned(x) = Cardinality(Units(gr, sent, x))
  BY DEF Returned, UnitsOf, Units
<1>4. Returned(p)' = Returned(p) + a
  <2>1. Cardinality(Units(gr, sent \cup {r}, p))
            = Cardinality(Units(gr, sent, p)) + a
    <3>1. ASSUME NEW g, NEW rs, r \notin rs, g[r].of = p, g[r].amount = a
          PROVE  Cardinality(Units(g, rs \cup {r}, p))
                     = Cardinality(Units(g, rs, p)) + a
      BY <1>1, <3>1, UnitsAdd
    <3> QED
      BY <1>1, <3>1
  <2>2. /\ Returned(p)' = Cardinality(Units(gr, sent \cup {r}, p))
        /\ Returned(p) = Cardinality(Units(gr, sent, p))
    BY <1>1, <1>2, <1>3
  <2> QED
    BY <2>1, <2>2
<1>5. ASSUME NEW x \in Payments, x # p
      PROVE  Returned(x)' = Returned(x)
  <2>1. Units(gr, sent \cup {r}, x) = Units(gr, sent, x)
    BY <1>1, <1>5 DEF Units
  <2> QED
    BY <1>2, <1>3, <2>1
<1>6. returned' = [returned EXCEPT ![p] = returned[p] + a]
  <2>1. \A x \in Payments :
            Returned(x)' = IF x = p THEN Returned(p) + a ELSE Returned(x)
    BY <1>4, <1>5
  <2>2. returned[p] = Returned(p)
    BY <1>1 DEF returned
  <2> QED
    BY <2>1, <2>2 DEF returned
<1>7. link[p] = "PAID" /\ gp[p].mode = "LIVE" /\ p \in booked
  BY <1>1 DEF Inv, RowsOK, RowOK, booked
<1>8. returned[p] + a <= taken[p]
  <2>1. Returned(p)' <= gp'[p].amount
    BY <1>1, WithinPaymentNext DEF RefundsWithinPayment, Returned
  <2>2. taken[p] = gp[p].amount /\ returned[p] = Returned(p)
    BY <1>1, <1>7 DEF taken, Taken, returned
  <2> QED
    BY <1>4, <2>1, <2>2
<1>9. UNCHANGED <<taken, booked>>
  BY TakenStays DEF SameTaken, booked
<1> QED
  BY <1>1, <1>6, <1>7, <1>8, <1>9, LedgerSteps

LEMMA RefundImplements ==
    ASSUME Inv, Inv', NEW w \in Workers, Refund(w)
    PROVE  LedgerStep
<1>1. ASSUME NEW p \in Payments, NEW r \in Refunds, NEW a \in 1 .. Bill,
             RefundReads(w, p, r, a)
      PROVE  LedgerStep
  BY <1>1, NoDataStep DEF RefundReads, books, outside
<1>2. CASE RecordRefund(w)
  BY <1>2, NoDataStep DEF RecordRefund, outside
<1>3. ASSUME req[w].step \in Refunding
      PROVE  req[w].refund \in Refunds /\ gr \in [Refunds -> RefundRow]
  BY <1>3, RefundFacts
<1>4. CASE ReserveRefund(w)
  <2>1. /\ req[w].step \in Refunding /\ req[w].step = "reserve"
        /\ UNCHANGED <<gp, rows, link, sent>>
    BY <1>4 DEF ReserveRefund, books, outside, Refunding
  <2>2. gr[req[w].refund].status = "NONE" /\ req[w].refund \notin sent
    BY <1>3, <2>1, RefundFacts DEF KnowsRefund, Inv, RefundsOK
  <2>3. \A r \in Refunds \ {req[w].refund} : gr'[r] = gr[r]
    BY <1>3, <1>4, <2>1 DEF ReserveRefund
  <2>4. SameReturned
    BY <2>1, <2>2, <2>3 DEF SameReturned, Inv, TypeOK
  <2> QED
    BY <2>1, <2>4, QuietStep DEF SameTaken
<1>5. ASSUME NEW s, SetRefund(w, s), req[w].step \in Refunding
      PROVE  \A r \in Refunds : /\ gr'[r].of = gr[r].of
                                /\ gr'[r].amount = gr[r].amount
  BY <1>3, <1>5 DEF SetRefund, RefundRow
<1>6. CASE RefundRefused(w) \/ RefundDone(w) \/ RefundFlagged(w)
  <2>1. /\ UNCHANGED <<gp, rows, link, sent>>
        /\ req[w].step \in Refunding
        /\ \E s : SetRefund(w, s)
    BY <1>6 DEF RefundRefused, RefundDone, RefundFlagged, books, outside,
                Refunding
  <2>2. SameReturned
    BY <1>5, <2>1 DEF SameReturned, Inv, TypeOK
  <2> QED
    BY <2>1, <2>2, QuietStep DEF SameTaken
<1>7. CASE RefundSent(w)
  BY <1>7, SendingImplements DEF RefundSent, books
<1>8. CASE RefundUnanswered(w)
  <2>1. /\ UNCHANGED <<gp, rows, link>>
        /\ req[w].step = "send" /\ req[w].step \in Refunding
        /\ SetRefund(w, OutcomeUnknown)
    BY <1>8 DEF RefundUnanswered, books, Refunding
  <2>2. \A r \in Refunds : /\ gr'[r].of = gr[r].of
                           /\ gr'[r].amount = gr[r].amount
    BY <1>5, <2>1
  <2>3. CASE UNCHANGED sent
    <3>1. SameReturned
      BY <2>2, <2>3 DEF SameReturned, Inv, TypeOK
    <3> QED
      BY <2>1, <3>1, QuietStep DEF SameTaken
  <2>4. CASE sent' = sent \cup {req[w].refund}
    BY <2>1, <2>2, <2>4, SendingImplements
  <2> QED
    BY <1>8, <2>3, <2>4 DEF RefundUnanswered
<1> QED
  BY <1>1, <1>2, <1>4, <1>6, <1>7, <1>8 DEF Refund

LEMMA InitImplements == Init => Ledger!Init
<1> SUFFICES ASSUME Init PROVE Ledger!Init
  OBVIOUS
<1>1. \A p \in Payments : UnitsOf(sent, p) = {}
  BY DEF Init, UnitsOf
<1>2. \A p \in Payments : Cardinality(UnitsOf(sent, p)) = 0
  BY <1>1, FS_EmptySet
<1> QED
  BY <1>2 DEF Init, Ledger!Init

LEMMA StepImplements == Inv /\ Inv' /\ [Next]_vars => LedgerStep
<1> SUFFICES ASSUME Inv, Inv', [Next]_vars PROVE LedgerStep
  OBVIOUS
<1>1. ASSUME NEW w \in Workers, NEW p \in Payments,
             Poll(w, p) \/ WebhookArrives(w, p)
      PROVE  LedgerStep
  BY <1>1, NoDataStep DEF Poll, WebhookArrives, books, outside
<1>2. ASSUME NEW p \in Payments, LinkExpires(p)
      PROVE  LedgerStep
  <2>1. /\ UNCHANGED <<gp, rows, gr, sent>>
        /\ link[p] # "PAID" /\ link'[p] # "PAID"
        /\ \A x \in Payments \ {p} : link'[x] = link[x]
    BY <1>2 DEF LinkExpires, books, Inv, TypeOK
  <2> QED
    BY <2>1, UnpaidStep
<1>3. ASSUME NEW p \in Payments, LinkAges(p)
      PROVE  LedgerStep
  <2>1. /\ UNCHANGED <<link, rows, gr, sent>>
        /\ \A x \in Payments \ {p} : gp'[x] = gp[x]
        /\ gp'[p].mode = gp[p].mode /\ gp'[p].amount = gp[p].amount
    BY <1>3 DEF LinkAges, books, outside, Inv, TypeOK, PaymentRow
  <2> QED
    BY <2>1, RowStep
<1>4. ASSUME \/ \E a \in 1 .. Bill : TillPays(a) \/ TillRefunds(a)
             \/ TillAdds
             \/ TillCancels
      PROVE  LedgerStep
  BY <1>4, NoDataStep
     DEF TillPays, TillRefunds, TillAdds, TillCancels, outside
<1>5. CASE Crash
  BY <1>5, NoDataStep DEF Crash, books
<1>6. CASE UNCHANGED vars
  BY <1>6, NoDataStep DEF vars, books, outside
<1> QED
  BY <1>1, <1>2, <1>3, <1>4, <1>5, <1>6, CreateImplements, RefreshImplements,
     RefundImplements, GuestImplements DEF Next

\* The service keeps the promise of PaymentLedger, whatever the interleaving
\* of its requests, the till, the guest and the provider, and whatever fails:
\* a charge is put on the bill at most once and only when it was taken, and
\* no more of it goes back than was taken, refunds apart that the provider
\* carried out and answered with an error.
THEOREM ServiceImplementsLedger == Spec => ImplementsLedger
<1>1. Init => Ledger!Init
  BY InitImplements
<1>2. Inv /\ Inv' /\ [Next]_vars => [Ledger!Next]_(Ledger!ledger)
  BY StepImplements DEF LedgerStep
<1> QED
  BY <1>1, <1>2, Invariance, PTL DEF Spec, ImplementsLedger, Ledger!Spec
=============================================================================
