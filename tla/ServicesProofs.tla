--------------------------- MODULE ServicesProofs ---------------------------
(***************************************************************************)
(* Theorems about the small services: supplier invoices, the floor, orders *)
(* of a delivery platform, backups, outgoing webhooks and the outbox of    *)
(* the kitchen's phone.  They share no state, and each part below stands   *)
(* alone: its invariant, a lemma for each of its actions, its theorem.     *)
(***************************************************************************)
EXTENDS Payables, Floor, PlatformOrders, Backup, WebhookOutbox, PhoneOutbox,
        FiniteSetTheorems, SequenceTheorems, TLAPS

-----------------------------------------------------------------------------
(***************************************************************************)
(* What an invoice says was paid is backed by its payments, for any number *)
(* of invoices and bookkeepers.  The invariant needs two facts about every *)
(* payment between its read and its commit, and both outlive what others   *)
(* commit meanwhile: a total is fixed once the invoice exists, and the     *)
(* recorded payments only grow.                                            *)
(***************************************************************************)

InvoiceRow == [status : InvoiceStatus, total : Nat, amountPaid : Nat]
Payment == [op : {"pay"}, invoice : Invoices, amount : Nat, newPaid : Nat]
Cancellation == [op : {"cancel"}, invoice : Invoices]

PayablesType ==
    /\ invoice \in [Invoices -> InvoiceRow]
    /\ recorded \in [Invoices -> Nat]
    /\ booking \in [Bookkeepers -> Payment \cup Cancellation \cup {NoBooking}]

\* The sum a payment is about to write fits the bill and the books.
FitsNow(b) ==
    /\ invoice[b.invoice].status # "none"
    /\ b.newPaid <= invoice[b.invoice].total
    /\ b.newPaid <= recorded[b.invoice] + b.amount

Fits == \A w \in Bookkeepers : booking[w] \in Payment => FitsNow(booking[w])

PayablesInv == PayablesType /\ Fits /\ PaidIsBacked

\* A booking with an op is one of the two records.
LEMMA KindOfBooking ==
    ASSUME PayablesType, NEW w \in Bookkeepers
    PROVE  /\ booking[w].op = "pay" => booking[w] \in Payment
           /\ booking[w].op = "cancel" => booking[w] \in Cancellation
  BY DEF PayablesType, Payment, Cancellation, NoBooking

\* What every action but CommitPayment does to an invoice that exists: its
\* total and the payments on record stay.
Steady ==
    \A i \in Invoices :
      /\ recorded'[i] = recorded[i]
      /\ invoice[i].status # "none" =>
           /\ invoice'[i].status # "none"
           /\ invoice'[i].total = invoice[i].total

\* Such a step keeps what a payment in flight relies on.
LEMMA SteadyKeepsFits ==
    ASSUME PayablesInv, Steady,
           \A w \in Bookkeepers :
             booking'[w] \in Payment => booking'[w] = booking[w]
    PROVE  Fits'
<1> SUFFICES ASSUME NEW w \in Bookkeepers, booking'[w] \in Payment
             PROVE  FitsNow(booking[w])'
  BY DEF Fits
<1>1. booking'[w] = booking[w] /\ booking[w] \in Payment
  OBVIOUS
<1>2. FitsNow(booking[w])
  BY <1>1 DEF PayablesInv, Fits
<1>3. booking[w].invoice \in Invoices
  BY <1>1 DEF Payment
<1> QED
  BY <1>1, <1>2, <1>3 DEF FitsNow, Steady

LEMMA PayInitHolds == PayInit => PayablesInv
  BY DEF PayInit, PayablesInv, PayablesType, Fits, PaidIsBacked, InvoiceRow, InvoiceStatus,
         Payment, NoBooking

LEMMA CreateHolds ==
    ASSUME PayablesInv, NEW i \in Invoices, NEW total \in 1 .. MaxAmount,
           CreateInvoice(i, total)
    PROVE  PayablesInv'
<1>1. invoice' \in [Invoices -> InvoiceRow]
  BY PayablesAssumption DEF PayablesInv, PayablesType, CreateInvoice, InvoiceRow, InvoiceStatus
<1>2. PayablesType'
  BY <1>1 DEF PayablesInv, PayablesType, CreateInvoice
<1>3. Fits'
  BY SteadyKeepsFits DEF Steady, CreateInvoice, PayablesInv, PayablesType
<1>4. PaidIsBacked'
  BY PayablesAssumption DEF PayablesInv, PayablesType, PaidIsBacked, CreateInvoice, InvoiceRow
<1> QED
  BY <1>2, <1>3, <1>4 DEF PayablesInv

LEMMA ReadForPaymentHolds ==
    ASSUME PayablesInv, NEW w \in Bookkeepers, NEW i \in Invoices,
           NEW amount \in 1 .. MaxAmount, ReadForPayment(w, i, amount)
    PROVE  PayablesInv'
<1> DEFINE b == [op |-> "pay", invoice |-> i, amount |-> amount,
                 newPaid |-> invoice[i].amountPaid + amount]
<1>1. /\ invoice[i] \in InvoiceRow /\ recorded[i] \in Nat /\ amount \in Nat
      /\ booking' = [booking EXCEPT ![w] = b]
      /\ invoice' = invoice /\ recorded' = recorded
  BY PayablesAssumption DEF ReadForPayment, PayablesInv, PayablesType
<1>2. b \in Payment
  BY <1>1 DEF Payment, InvoiceRow
<1>3. PayablesType'
  BY <1>1, <1>2 DEF PayablesInv, PayablesType
<1>4. FitsNow(b)
  BY <1>1 DEF FitsNow, ReadForPayment, Remaining, PayablesInv, PaidIsBacked, InvoiceRow
<1>5. Fits'
  <2> SUFFICES ASSUME NEW v \in Bookkeepers, booking'[v] \in Payment
               PROVE  FitsNow(booking[v])'
    BY DEF Fits
  <2>1. CASE v = w
    <3>1. booking'[v] = b
      BY <1>1, <2>1 DEF PayablesInv, PayablesType
    <3> QED
      BY <1>1, <1>4, <3>1 DEF FitsNow
  <2>2. CASE v # w
    <3>1. booking'[v] = booking[v]
      BY <1>1, <2>2 DEF PayablesInv, PayablesType
    <3> QED
      BY <1>1, <3>1 DEF FitsNow, PayablesInv, Fits
  <2> QED
    BY <2>1, <2>2
<1>6. PaidIsBacked'
  BY <1>1 DEF PayablesInv, PaidIsBacked
<1> QED
  BY <1>3, <1>5, <1>6 DEF PayablesInv

LEMMA CommitPaymentHolds ==
    ASSUME PayablesInv, NEW w \in Bookkeepers, CommitPayment(w)
    PROVE  PayablesInv'
<1> DEFINE b == booking[w]
           i == b.invoice
           inv == invoice[i]
           status == NewStatus(b.newPaid, inv.total)
<1>1. b \in Payment
  BY KindOfBooking DEF CommitPayment, PayablesInv
<1>2. /\ i \in Invoices /\ b.amount \in Nat /\ b.newPaid \in Nat
      /\ inv \in InvoiceRow /\ recorded[i] \in Nat
  BY <1>1 DEF Payment, PayablesInv, PayablesType
<1>3. FitsNow(b)
  BY <1>1 DEF PayablesInv, Fits
<1>4. /\ recorded' = [recorded EXCEPT ![i] = @ + b.amount]
      /\ invoice' = [invoice EXCEPT ![i] =
                       [status |-> status, total |-> inv.total, amountPaid |-> b.newPaid]]
      /\ booking' = [booking EXCEPT ![w] = NoBooking]
  BY Zenon DEF CommitPayment
<1>5. status \in InvoiceStatus \ {"none", "CANCELLED"}
  BY <1>2 DEF NewStatus, InvoiceStatus
<1>6. status = "PAID" => b.newPaid = inv.total
  BY <1>2, <1>3 DEF NewStatus, FitsNow, InvoiceRow
<1> HIDE DEF b, i, inv, status
<1>7. PayablesType'
  BY <1>2, <1>4, <1>5 DEF PayablesInv, PayablesType, InvoiceRow
<1>8. ASSUME NEW j \in Invoices
      PROVE  /\ recorded'[j] >= recorded[j]
             /\ recorded'[j] \in Nat /\ recorded[j] \in Nat
             /\ invoice[j].status # "none" =>
                  /\ invoice'[j].status # "none"
                  /\ invoice'[j].total = invoice[j].total
  BY <1>2, <1>4, <1>5 DEF PayablesInv, PayablesType, inv
<1>9. Fits'
  <2> SUFFICES ASSUME NEW v \in Bookkeepers, booking'[v] \in Payment
               PROVE  FitsNow(booking[v])'
    BY DEF Fits
  <2>1. booking'[v] = booking[v]
    BY <1>4 DEF PayablesInv, PayablesType, Payment, NoBooking
  <2>2. booking[v] \in Payment /\ FitsNow(booking[v])
    BY <2>1 DEF PayablesInv, Fits
  <2>3. /\ booking[v].invoice \in Invoices /\ booking[v].newPaid \in Nat
        /\ booking[v].amount \in Nat
    BY <2>2 DEF Payment
  <2> QED
    BY <1>8, <2>1, <2>2, <2>3 DEF FitsNow
<1>10. PaidIsBacked'
  <2> SUFFICES ASSUME NEW j \in Invoices
               PROVE  /\ invoice'[j].amountPaid <= recorded'[j]
                      /\ invoice'[j].amountPaid <= invoice'[j].total
                      /\ invoice'[j].status = "PAID" =>
                           invoice'[j].amountPaid = invoice'[j].total
    BY DEF PaidIsBacked
  <2>1. CASE j = i
    <3>1. /\ recorded'[j] = recorded[i] + b.amount
          /\ invoice'[j] = [status |-> status, total |-> inv.total, amountPaid |-> b.newPaid]
      BY <1>2, <1>4, <2>1 DEF PayablesInv, PayablesType
    <3>2. b.newPaid <= inv.total /\ b.newPaid <= recorded[i] + b.amount
      BY <1>3 DEF FitsNow, inv, i
    <3> QED
      BY <1>6, <3>1, <3>2
  <2>2. CASE j # i
    <3>1. recorded'[j] = recorded[j] /\ invoice'[j] = invoice[j]
      BY <1>4, <2>2 DEF PayablesInv, PayablesType
    <3> QED
      BY <3>1 DEF PayablesInv, PaidIsBacked
  <2> QED
    BY <2>1, <2>2
<1> QED
  BY <1>7, <1>9, <1>10 DEF PayablesInv

LEMMA ReadForCancelHolds ==
    ASSUME PayablesInv, NEW w \in Bookkeepers, NEW i \in Invoices, ReadForCancel(w, i)
    PROVE  PayablesInv'
<1>1. [op |-> "cancel", invoice |-> i] \in Cancellation
  BY DEF Cancellation
<1>2. PayablesType'
  BY <1>1 DEF PayablesInv, PayablesType, ReadForCancel
<1>3. Fits'
  BY <1>1, SteadyKeepsFits
     DEF Steady, ReadForCancel, PayablesInv, PayablesType, Payment, Cancellation
<1>4. PaidIsBacked'
  BY DEF PayablesInv, PaidIsBacked, ReadForCancel
<1> QED
  BY <1>2, <1>3, <1>4 DEF PayablesInv

LEMMA CommitCancelHolds ==
    ASSUME PayablesInv, NEW w \in Bookkeepers, CommitCancel(w)
    PROVE  PayablesInv'
<1> DEFINE i == booking[w].invoice
<1>1. i \in Invoices
  BY KindOfBooking DEF CommitCancel, PayablesInv, Cancellation
<1>2. /\ invoice' = [invoice EXCEPT ![i].status = "CANCELLED"]
      /\ booking' = [booking EXCEPT ![w] = NoBooking]
      /\ recorded' = recorded
  BY DEF CommitCancel
<1> HIDE DEF i
<1>3. PayablesType'
  BY <1>1, <1>2 DEF PayablesInv, PayablesType, InvoiceRow, InvoiceStatus
<1>4. \A j \in Invoices :
        /\ invoice'[j].total = invoice[j].total
        /\ invoice'[j].amountPaid = invoice[j].amountPaid
        /\ invoice'[j].status \in {invoice[j].status, "CANCELLED"}
  BY <1>1, <1>2 DEF PayablesInv, PayablesType, InvoiceRow
<1>5. Fits'
  BY <1>2, <1>4, SteadyKeepsFits DEF Steady, PayablesInv, PayablesType, Payment, NoBooking
<1>6. PaidIsBacked'
  BY <1>2, <1>4 DEF PayablesInv, PaidIsBacked
<1> QED
  BY <1>3, <1>5, <1>6 DEF PayablesInv

LEMMA DropBookingHolds ==
    ASSUME PayablesInv, NEW w \in Bookkeepers, DropBooking(w)
    PROVE  PayablesInv'
<1>1. PayablesType'
  BY DEF PayablesInv, PayablesType, DropBooking
<1>2. Fits'
  BY SteadyKeepsFits DEF Steady, DropBooking, PayablesInv, PayablesType, Payment, NoBooking
<1>3. PaidIsBacked'
  BY DEF PayablesInv, PaidIsBacked, DropBooking
<1> QED
  BY <1>1, <1>2, <1>3 DEF PayablesInv

\* PayablesInv is inductive.
LEMMA PayStepHolds == PayablesInv /\ [PayNext]_payVars => PayablesInv'
<1> SUFFICES ASSUME PayablesInv, [PayNext]_payVars
             PROVE  PayablesInv'
  OBVIOUS
<1>1. CASE UNCHANGED payVars
  BY <1>1 DEF payVars, PayablesInv, PayablesType, Fits, FitsNow, PaidIsBacked
<1>2. ASSUME NEW i \in Invoices, NEW a \in 1 .. MaxAmount, CreateInvoice(i, a)
      PROVE  PayablesInv'
  BY <1>2, CreateHolds
<1>3. ASSUME NEW i \in Invoices, NEW a \in 1 .. MaxAmount,
             NEW w \in Bookkeepers, ReadForPayment(w, i, a)
      PROVE  PayablesInv'
  BY <1>3, ReadForPaymentHolds
<1>4. ASSUME NEW w \in Bookkeepers, NEW i \in Invoices, ReadForCancel(w, i)
      PROVE  PayablesInv'
  BY <1>4, ReadForCancelHolds
<1>5. ASSUME NEW w \in Bookkeepers, CommitPayment(w)
      PROVE  PayablesInv'
  BY <1>5, CommitPaymentHolds
<1>6. ASSUME NEW w \in Bookkeepers, CommitCancel(w)
      PROVE  PayablesInv'
  BY <1>6, CommitCancelHolds
<1>7. ASSUME NEW w \in Bookkeepers, DropBooking(w)
      PROVE  PayablesInv'
  BY <1>7, DropBookingHolds
<1> QED
  BY <1>1, <1>2, <1>3, <1>4, <1>5, <1>6, <1>7 DEF PayNext

\* However payments and cancellations of an invoice overlap, it never shows
\* more than its total or its payments on record, and PAID means paid in full
\* (SupplierInvoicesService.recordPayment).
THEOREM InvoicesAreBacked == PaySpec => []PaidIsBacked
<1>1. PayablesInv => PaidIsBacked
  BY DEF PayablesInv
<1> QED
  BY <1>1, PayInitHolds, PayStepHolds, PTL DEF PaySpec

-----------------------------------------------------------------------------
(***************************************************************************)
(* Which open bills may hide behind a free table, for any number of        *)
(* tables, bills, requests, reservations and waiting parties.  A bill that *)
(* a count or a check by hand has seen keeps the table from being freed;   *)
(* one that came later has marked the request or the change (CountHolds,   *)
(* CheckHolds).  So when a tile is written, either no bill is left at it,  *)
(* or the place has what is to blame.                                      *)
(***************************************************************************)

Asked == [bill : TableBills, from : Places, to : Places \cup {Nowhere},
          found : {"nothing", "idle", "overtaken", "busy"}]

FloorType ==
    /\ tile \in [Places -> TileStatus]
    /\ blame \in [Places -> {"none", "reservation", "hand", "release"}]
    /\ at \in [TableBills -> Places \cup {Nowhere}]
    /\ booked \in [Bookings -> [status : BookingStatus \cup {"none"}, place : Places \cup {Nowhere}]]
    /\ work \in [Tills -> Asked \cup {Free}]
    /\ change \in SUBSET [place : Places, to : TileStatus, met : BOOLEAN]

\* A closed bill is nowhere.
ClosedGone == \A b \in TableBills : b \in closed => at[b] = Nowhere

\* What a count or a check found is so, or a bill that came has marked it.
CountHolds == \A t \in Tills : work[t].found = "idle" => OpenAt(work[t].from) \subseteq {work[t].bill}
CheckHolds == \A c \in change : c.met \/ c.to = "OCCUPIED" \/ OpenAt(c.place) = {}

FloorInv == FloorType /\ ClosedGone /\ CountHolds /\ CheckHolds /\ OnlyKnownWaysHideABill

LEMMA FreeFacts == /\ Free.from = Nowhere /\ Free.to = Nowhere /\ Free.found = "nothing"
                   /\ \A r \in Asked : r # Free
  BY FloorAssumption DEF Free, Asked

-----------------------------------------------------------------------------
(* Writing one tile *)

\* A tile that becomes OCCUPIED, or for which something is to blame, or of a
\* place without a bill.
LEMMA ShowHidesNothing ==
    ASSUME FloorInv, NEW p \in Places, NEW s \in TileStatus,
           NEW why \in {"none", "reservation", "hand", "release"},
           Show(p, s, why), at' = at,
           s = "OCCUPIED" \/ why # "none" \/ OpenAt(p) = {}
    PROVE  /\ tile' \in [Places -> TileStatus]
           /\ blame' \in [Places -> {"none", "reservation", "hand", "release"}]
           /\ OnlyKnownWaysHideABill'
<1>1. PICK w \in {"none", "reservation", "hand", "release"} :
          w = IF OpenAt(p) = {} THEN "none" ELSE why
  OBVIOUS
<1>2. /\ tile' = [tile EXCEPT ![p] = s] /\ blame' = [blame EXCEPT ![p] = w]
      /\ tile' \in [Places -> TileStatus]
      /\ blame' \in [Places -> {"none", "reservation", "hand", "release"}]
  BY <1>1 DEF Show, FloorInv, FloorType
<1>3. \A b \in TableBills : at[b] # Nowhere /\ tile'[at[b]] # "OCCUPIED" => blame'[at[b]] # "none"
  <2> SUFFICES ASSUME NEW b \in TableBills, at[b] # Nowhere, tile'[at[b]] # "OCCUPIED"
               PROVE  blame'[at[b]] # "none"
    OBVIOUS
  <2>1. at[b] \in Places
    BY DEF FloorInv, FloorType
  <2>2. CASE at[b] = p
    <3>1. OpenAt(p) # {}
      BY <2>2 DEF OpenAt
    <3>2. s # "OCCUPIED"
      BY <1>2, <2>2 DEF FloorInv, FloorType
    <3> QED
      BY <1>1, <1>2, <2>2, <3>1, <3>2 DEF FloorInv, FloorType
  <2>3. CASE at[b] # p
    BY <1>2, <2>1, <2>3 DEF FloorInv, FloorType, OnlyKnownWaysHideABill, Hidden
  <2> QED
    BY <2>2, <2>3
<1> QED
  BY <1>2, <1>3 DEF OnlyKnownWaysHideABill, Hidden

\* A step of hands, reservations and the waiting list: the bills stay.
LEMMA BillsStay ==
    ASSUME FloorInv, UNCHANGED <<at, closed, work>>, FloorType',
           \A c \in change' : c \in change \/ c.to = "OCCUPIED" \/ OpenAt(c.place) = {},
           OnlyKnownWaysHideABill'
    PROVE  FloorInv'
<1>1. CountHolds'
  BY DEF FloorInv, CountHolds, OpenAt
<1>2. CheckHolds'
  BY DEF FloorInv, CheckHolds, OpenAt
<1> QED
  BY <1>1, <1>2 DEF FloorInv, ClosedGone

LEMMA TilesStay ==
    ASSUME FloorInv, UNCHANGED <<tile, at, blame>>
    PROVE  OnlyKnownWaysHideABill'
  BY DEF FloorInv, OnlyKnownWaysHideABill, Hidden

-----------------------------------------------------------------------------
(* Bills *)

\* A bill comes to a place: whoever has looked at the place is marked.
LEMMA ArrivalHolds ==
    ASSUME FloorInv, NEW b \in TableBills, NEW p \in Places,
           at' = [at EXCEPT ![b] = p], Meets(p),
           work' \in [Tills -> Asked \cup {Free}],
           \A t \in Tills : work'[t] = Free \/ work'[t] = Overtaken(b, p, work[t])
    PROVE  /\ at' \in [TableBills -> Places \cup {Nowhere}]
           /\ change' \in SUBSET [place : Places, to : TileStatus, met : BOOLEAN]
           /\ CountHolds' /\ CheckHolds'
<1>1. at' \in [TableBills -> Places \cup {Nowhere}]
  BY DEF FloorInv, FloorType
<1>2. \A q \in Places : /\ q # p => OpenAt(q)' \subseteq OpenAt(q)
                        /\ OpenAt(q)' \subseteq OpenAt(q) \cup {b}
  BY DEF OpenAt, FloorInv, FloorType
<1>3. CountHolds'
  <2>1. ASSUME NEW t \in Tills, NEW q, q = work'[t], q.found = "idle"
        PROVE  OpenAt(q.from)' \subseteq {q.bill}
    <3>1. q = Overtaken(b, p, work[t])
      BY <2>1, FreeFacts
    <3>2. PICK r \in Asked \cup {Free} : r = work[t]
      BY DEF FloorInv, FloorType
    <3>3. r \in Asked /\ r.found = "idle" /\ q = r /\ (r.from # p \/ r.bill = b)
      <4>1. CASE r.from = p /\ r.bill # b /\ r.found = "idle"
        <5>1. r \in Asked
          BY <3>2, <4>1, FreeFacts
        <5>2. [r EXCEPT !.found = "overtaken"].found = "overtaken"
          BY <5>1 DEF Asked
        <5> QED
          BY <2>1, <3>1, <3>2, <4>1, <5>2 DEF Overtaken
      <4>2. CASE ~ (r.from = p /\ r.bill # b /\ r.found = "idle")
        <5>1. q = r
          BY <3>1, <3>2, <4>2 DEF Overtaken
        <5> QED
          BY <2>1, <3>2, <4>2, <5>1, FreeFacts
      <4> QED
        BY <4>1, <4>2
    <3>4. OpenAt(r.from) \subseteq {r.bill} /\ r.from \in Places
      BY <3>2, <3>3 DEF FloorInv, CountHolds, Asked
    <3>5. OpenAt(r.from)' \subseteq {r.bill}
      BY <1>2, <3>3, <3>4
    <3> QED
      BY <3>3, <3>5
  <2> QED
    BY <2>1 DEF CountHolds, OpenAt
<1>4. \A c \in change : /\ c \in [place : Places, to : TileStatus, met : BOOLEAN]
                        /\ LET d == [c EXCEPT !.met = c.met \/ c.place = p]
                           IN  /\ d \in [place : Places, to : TileStatus, met : BOOLEAN]
                               /\ d.place = c.place /\ d.to = c.to
                               /\ d.met <=> c.met \/ c.place = p
  <2>1. ASSUME NEW c \in [place : Places, to : TileStatus, met : BOOLEAN],
               NEW m \in BOOLEAN
        PROVE  LET d == [c EXCEPT !.met = m]
               IN  /\ d \in [place : Places, to : TileStatus, met : BOOLEAN]
                   /\ d.place = c.place /\ d.to = c.to /\ d.met = m
    OBVIOUS
  <2>2. \A c \in change : c \in [place : Places, to : TileStatus, met : BOOLEAN]
    BY DEF FloorInv, FloorType
  <2>3. \A c \in change : c.met \in BOOLEAN /\ (c.met \/ c.place = p) \in BOOLEAN
    BY <2>2
  <2> QED
    BY <2>1, <2>2, <2>3
<1>5. change' \in SUBSET [place : Places, to : TileStatus, met : BOOLEAN]
  BY <1>4 DEF Meets
<1>6. CheckHolds'
  <2> SUFFICES ASSUME NEW d \in change'
               PROVE  d.met \/ d.to = "OCCUPIED" \/ OpenAt(d.place)' = {}
    BY DEF CheckHolds, OpenAt
  <2>1. PICK c \in change : d = [c EXCEPT !.met = c.met \/ c.place = p]
    BY DEF Meets
  <2>2. d.place = c.place /\ d.to = c.to /\ (d.met <=> c.met \/ c.place = p) /\ c.place \in Places
    BY <1>4, <2>1
  <2>3. c.met \/ c.to = "OCCUPIED" \/ OpenAt(c.place) = {}
    BY DEF FloorInv, CheckHolds
  <2> QED
    BY <1>2, <2>2, <2>3
<1> QED
  BY <1>1, <1>3, <1>5, <1>6

LEMMA MarkedIsAsked ==
    ASSUME NEW b, NEW p, NEW r \in Asked \cup {Free}
    PROVE  Overtaken(b, p, r) \in Asked \cup {Free}
<1>1. CASE r \in Asked
  BY <1>1 DEF Overtaken, Asked
<1>2. CASE r = Free
  BY <1>2, FreeFacts DEF Overtaken
<1> QED
  BY <1>1, <1>2

LEMMA OpenBillHolds ==
    ASSUME FloorInv, NEW b \in TableBills, NEW p \in Places, OpenBill(b, p)
    PROVE  FloorInv'
<1>1. /\ at' = [at EXCEPT ![b] = p] /\ Meets(p) /\ UNCHANGED <<closed, booked>> /\ b \notin closed
      /\ tile' = [tile EXCEPT ![p] = "OCCUPIED"] /\ blame' = [blame EXCEPT ![p] = "none"]
      /\ work' = [t \in Tills |-> Overtaken(b, p, work[t])]
  BY DEF OpenBill, Show
<1>2. work' \in [Tills -> Asked \cup {Free}] /\ \A t \in Tills : work'[t] = Overtaken(b, p, work[t])
  BY <1>1, MarkedIsAsked DEF FloorInv, FloorType
<1>3. /\ at' \in [TableBills -> Places \cup {Nowhere}]
      /\ change' \in SUBSET [place : Places, to : TileStatus, met : BOOLEAN]
      /\ CountHolds' /\ CheckHolds'
  BY <1>1, <1>2, ArrivalHolds
<1>4. FloorType'
  BY <1>1, <1>2, <1>3 DEF FloorInv, FloorType, TileStatus
<1>5. ClosedGone'
  BY <1>1 DEF FloorInv, FloorType, ClosedGone
<1>6. OnlyKnownWaysHideABill'
  BY <1>1 DEF FloorInv, FloorType, OnlyKnownWaysHideABill, Hidden
<1> QED
  BY <1>3, <1>4, <1>5, <1>6 DEF FloorInv

\* A step of a request that leaves bills and tiles alone.
LEMMA RequestOnly ==
    ASSUME FloorInv, NEW t \in Tills, NEW r \in Asked, work' = [work EXCEPT ![t] = r],
           r.found = "idle" => OpenAt(r.from) \subseteq {r.bill},
           UNCHANGED <<tile, at, closed, booked, change, blame>>
    PROVE  FloorInv'
<1>1. FloorType'
  BY DEF FloorInv, FloorType
<1>2. CountHolds'
  BY DEF FloorInv, FloorType, CountHolds, OpenAt
<1>3. CheckHolds' /\ ClosedGone'
  BY DEF FloorInv, CheckHolds, ClosedGone, OpenAt
<1> QED
  BY <1>1, <1>2, <1>3, TilesStay DEF FloorInv

LEMMA AskForHolds ==
    ASSUME FloorInv, NEW t \in Tills, NEW b \in TableBills, NEW p \in Places \cup {Nowhere},
           AskFor(t, b, p)
    PROVE  FloorInv'
<1>1. PICK r : r = [bill |-> b, from |-> at[b], to |-> p, found |-> "nothing"]
  OBVIOUS
<1>2. r \in Asked /\ r.found = "nothing"
  BY <1>1 DEF AskFor, FloorInv, FloorType, Asked
<1> QED
  BY <1>1, <1>2, RequestOnly DEF AskFor

LEMMA CountOthersHolds ==
    ASSUME FloorInv, NEW t \in Tills, CountOthers(t)
    PROVE  FloorInv'
<1>1. PICK q \in Asked : q = work[t]
  BY DEF CountOthers, FloorInv, FloorType
<1>2. PICK r : r = [q EXCEPT !.found = IF IdleBut(q.from, q.bill) THEN "idle" ELSE "busy"]
  OBVIOUS
<1>3. /\ r \in Asked /\ r.from = q.from /\ r.bill = q.bill
      /\ r.found = "idle" => IdleBut(q.from, q.bill)
  BY <1>2 DEF Asked
<1>4. work' = [work EXCEPT ![t] = r]
  BY <1>1, <1>2 DEF CountOthers
<1> QED
  BY <1>3, <1>4, RequestOnly DEF CountOthers, IdleBut

\* The place of a request that frees it has no other bill, or the release is to
\* blame.
LEMMA FreedIsEmpty ==
    ASSUME FloorInv, NEW t \in Tills, work[t] \in Asked, FreedBy(work[t]) = "none",
           Frees(work[t])
    PROVE  OpenAt(work[t].from) \subseteq {work[t].bill}
  BY DEF FloorInv, CountHolds, FreedBy, Frees, IdleBut

LEMMA CloseBillHolds ==
    ASSUME FloorInv, NEW t \in Tills, CloseBill(t)
    PROVE  FloorInv'
<1>1. PICK r \in Asked : r = work[t]
  BY DEF CloseBill, FloorInv, FloorType
<1>2. work' = [work EXCEPT ![t] = Free] /\ UNCHANGED <<booked, change>>
  BY DEF CloseBill
<1>3. r.bill \in TableBills /\ r.from \in Places /\ work' \in [Tills -> Asked \cup {Free}]
  BY <1>2 DEF Asked, FloorInv, FloorType
<1>4. \A u \in Tills : work'[u] = work[u] \/ work'[u].found = "nothing"
  BY <1>2, FreeFacts DEF FloorInv, FloorType
<1>5. CASE UNCHANGED <<tile, at, closed, blame>>
  <2>1. FloorType' /\ ClosedGone' /\ CheckHolds'
    BY <1>2, <1>3, <1>5 DEF FloorInv, FloorType, ClosedGone, CheckHolds, OpenAt
  <2>2. CountHolds'
    BY <1>4, <1>5 DEF FloorInv, CountHolds, OpenAt
  <2> QED
    BY <1>5, <2>1, <2>2, TilesStay DEF FloorInv
<1>6. CASE /\ at' = [at EXCEPT ![r.bill] = Nowhere] /\ closed' = closed \cup {r.bill}
           /\ IF Frees(r) THEN Show(r.from, "AVAILABLE", FreedBy(r)) ELSE UNCHANGED <<tile, blame>>
  <2>1. /\ \A q \in Places : OpenAt(q)' \subseteq OpenAt(q) /\ r.bill \notin OpenAt(q)'
        /\ at' \in [TableBills -> Places \cup {Nowhere}]
    BY <1>3, <1>6, FloorAssumption DEF OpenAt, FloorInv, FloorType
  <2>2. /\ tile' \in [Places -> TileStatus]
        /\ blame' \in [Places -> {"none", "reservation", "hand", "release"}]
    BY <1>3, <1>6 DEF Show, FreedBy, FloorInv, FloorType, TileStatus
  <2>3. FloorType'
    BY <1>2, <1>3, <2>1, <2>2 DEF FloorInv, FloorType
  <2>4. ClosedGone'
    BY <1>3, <1>6 DEF FloorInv, FloorType, ClosedGone
  <2>5. CountHolds'
    <3>1. ASSUME NEW u \in Tills, NEW q, q = work'[u], q.found = "idle"
          PROVE  OpenAt(q.from)' \subseteq {q.bill}
      <4>1. q = work[u]
        BY <1>4, <3>1
      <4>2. OpenAt(q.from) \subseteq {q.bill} /\ q.from \in Places
        BY <3>1, <4>1, FreeFacts DEF FloorInv, FloorType, CountHolds, Asked
      <4> QED
        BY <2>1, <4>2
    <3> QED
      BY <3>1 DEF CountHolds, OpenAt
  <2>6. CheckHolds'
    <3> SUFFICES ASSUME NEW c \in change
                 PROVE  c.met \/ c.to = "OCCUPIED" \/ OpenAt(c.place)' = {}
      BY <1>2 DEF CheckHolds, OpenAt
    <3>1. c.place \in Places
      BY DEF FloorInv, FloorType
    <3> QED
      BY <2>1, <3>1 DEF FloorInv, CheckHolds
  <2>7. ASSUME NEW b \in TableBills, at'[b] # Nowhere, tile'[at'[b]] # "OCCUPIED"
        PROVE  blame'[at'[b]] # "none"
    <3>1. b # r.bill /\ at'[b] = at[b] /\ at[b] \in Places /\ b \in OpenAt(at[b])
      BY <1>3, <1>6, <2>7 DEF FloorInv, FloorType, OpenAt
    <3>2. CASE Frees(r) /\ at[b] = r.from
      <4>1. ~ (OpenAt(r.from) \subseteq {r.bill}) /\ OpenAt(r.from) # {}
        BY <3>1, <3>2
      <4>2. FreedBy(r) # "none"
        BY <1>1, <3>2, <4>1, FreedIsEmpty
      <4> QED
        BY <1>3, <1>6, <3>1, <3>2, <4>1, <4>2 DEF Show, FloorInv, FloorType
    <3>3. CASE ~ (Frees(r) /\ at[b] = r.from)
      <4>1. tile'[at[b]] = tile[at[b]] /\ blame'[at[b]] = blame[at[b]]
        BY <1>3, <1>6, <3>1, <3>3 DEF Show, FloorInv, FloorType
      <4> QED
        BY <2>7, <3>1, <4>1 DEF FloorInv, OnlyKnownWaysHideABill, Hidden
    <3> QED
      BY <3>2, <3>3
  <2>8. OnlyKnownWaysHideABill'
    BY <2>7 DEF OnlyKnownWaysHideABill, Hidden
  <2> QED
    BY <2>3, <2>4, <2>5, <2>6, <2>8 DEF FloorInv
<1> QED
  BY <1>1, <1>5, <1>6 DEF CloseBill

LEMMA MoveBillHolds ==
    ASSUME FloorInv, NEW t \in Tills, MoveBill(t)
    PROVE  FloorInv'
<1>1. PICK r \in Asked : r = work[t]
  BY FreeFacts DEF MoveBill, FloorInv, FloorType
<1>2. r.bill \in TableBills /\ r.from \in Places /\ r.to \in Places
  BY <1>1 DEF MoveBill, Asked
<1>3. /\ at' = IF r.bill \in closed THEN at ELSE [at EXCEPT ![r.bill] = r.to]
      /\ tile' = [q \in Places |-> IF q = r.to THEN "OCCUPIED"
                                 ELSE IF q = r.from /\ Frees(r) THEN "AVAILABLE" ELSE tile[q]]
      /\ blame' = [q \in Places |-> IF q = r.to THEN "none"
                                  ELSE IF q = r.from /\ Frees(r) THEN FreedBy(r) ELSE blame[q]]
      /\ UNCHANGED <<closed, booked>>
  BY <1>1 DEF MoveBill
<1>4. /\ tile' \in [Places -> TileStatus]
      /\ blame' \in [Places -> {"none", "reservation", "hand", "release"}]
  BY <1>3 DEF FreedBy, FloorInv, FloorType, TileStatus
<1>5. /\ at' \in [TableBills -> Places \cup {Nowhere}]
      /\ work' \in [Tills -> Asked \cup {Free}]
      /\ change' \in SUBSET [place : Places, to : TileStatus, met : BOOLEAN]
      /\ CountHolds' /\ CheckHolds'
  <2>1. CASE r.bill \in closed
    <3>1. work' = [work EXCEPT ![t] = Free] /\ UNCHANGED <<at, change>>
      BY <1>1, <1>3, <2>1 DEF MoveBill
    <3>2. \A u \in Tills : work'[u] = work[u] \/ work'[u].found = "nothing"
      BY <3>1, FreeFacts DEF FloorInv, FloorType
    <3>3. CountHolds' /\ CheckHolds'
      BY <3>1, <3>2 DEF FloorInv, CountHolds, CheckHolds, OpenAt
    <3> QED
      BY <3>1, <3>3 DEF FloorInv, FloorType
  <2>2. CASE r.bill \notin closed
    <3>1. /\ at' = [at EXCEPT ![r.bill] = r.to] /\ Meets(r.to)
          /\ work' = [u \in Tills |-> IF u = t THEN Free ELSE Overtaken(r.bill, r.to, work[u])]
      BY <1>1, <1>3, <2>2 DEF MoveBill
    <3>2. work' \in [Tills -> Asked \cup {Free}]
      BY <3>1, MarkedIsAsked DEF FloorInv, FloorType
    <3>3. \A u \in Tills : work'[u] = Free \/ work'[u] = Overtaken(r.bill, r.to, work[u])
      BY <3>1
    <3> QED
      BY <1>2, <3>1, <3>2, <3>3, ArrivalHolds
  <2> QED
    BY <2>1, <2>2
<1>6. FloorType'
  BY <1>3, <1>4, <1>5 DEF FloorInv, FloorType
<1>7. ClosedGone'
  BY <1>2, <1>3 DEF FloorInv, FloorType, ClosedGone
<1>8. ASSUME NEW b \in TableBills, at'[b] # Nowhere, tile'[at'[b]] # "OCCUPIED"
      PROVE  blame'[at'[b]] # "none"
  <2>1. at'[b] \in Places
    BY <1>5, <1>8
  <2>2. at'[b] # r.to
    BY <1>3, <1>8, <2>1
  <2>3. at'[b] = at[b] /\ b # r.bill
    <3>1. CASE r.bill \in closed
      BY <1>2, <1>3, <1>8, <3>1 DEF FloorInv, ClosedGone
    <3>2. CASE r.bill \notin closed
      BY <1>2, <1>3, <2>2, <3>2 DEF FloorInv, FloorType
    <3> QED
      BY <3>1, <3>2
  <2>4. CASE Frees(r) /\ at[b] = r.from
    <3>1. ~ (OpenAt(r.from) \subseteq {r.bill})
      BY <2>3, <2>4 DEF OpenAt
    <3>2. FreedBy(r) # "none"
      BY <1>1, <2>4, <3>1, FreedIsEmpty
    <3> QED
      BY <1>3, <2>1, <2>2, <2>3, <2>4, <3>2
  <2>5. CASE ~ (Frees(r) /\ at[b] = r.from)
    <3>1. tile'[at[b]] = tile[at[b]] /\ blame'[at[b]] = blame[at[b]]
      BY <1>3, <2>1, <2>2, <2>3, <2>5
    <3> QED
      BY <1>8, <2>3, <3>1 DEF FloorInv, OnlyKnownWaysHideABill, Hidden
  <2> QED
    BY <2>4, <2>5
<1>9. OnlyKnownWaysHideABill'
  BY <1>8 DEF OnlyKnownWaysHideABill, Hidden
<1> QED
  BY <1>5, <1>6, <1>7, <1>9 DEF FloorInv

-----------------------------------------------------------------------------
(* Hands, reservations, the waiting list *)

LEMMA ReadForChangeHolds ==
    ASSUME FloorInv, NEW p \in Places, NEW s \in TileStatus, ReadForChange(p, s)
    PROVE  FloorInv'
<1>1. /\ UNCHANGED <<tile, at, closed, booked, work, blame>>
      /\ change' = {[place |-> p, to |-> s, met |-> FALSE]}
      /\ s = "OCCUPIED" \/ OpenAt(p) = {}
  BY DEF ReadForChange
<1>2. FloorType'
  BY <1>1 DEF FloorInv, FloorType
<1> QED
  BY <1>1, <1>2, BillsStay, TilesStay

LEMMA WriteChangeHolds ==
    ASSUME FloorInv, NEW c \in change, WriteChange(c)
    PROVE  FloorInv'
<1>1. /\ c.place \in Places /\ c.to \in TileStatus
      /\ c.met \/ c.to = "OCCUPIED" \/ OpenAt(c.place) = {}
  BY DEF FloorInv, FloorType, CheckHolds
<1>2. PICK why \in {"none", "hand"} : why = IF c.to # "OCCUPIED" /\ c.met THEN "hand" ELSE "none"
  OBVIOUS
<1>3. /\ Show(c.place, c.to, why) /\ UNCHANGED <<at, closed, booked, work>>
      /\ change' \subseteq change
  BY <1>2 DEF WriteChange
<1>4. /\ tile' \in [Places -> TileStatus]
      /\ blame' \in [Places -> {"none", "reservation", "hand", "release"}]
      /\ OnlyKnownWaysHideABill'
  BY <1>1, <1>2, <1>3, ShowHidesNothing
<1>5. FloorType'
  BY <1>3, <1>4 DEF FloorInv, FloorType
<1> QED
  BY <1>3, <1>4, <1>5, BillsStay

\* A tile is written, or none, and only the bookings may change besides.
LEMMA WriterHolds ==
    ASSUME FloorInv, UNCHANGED <<at, closed, work, change>>,
           booked' \in [Bookings -> [status : BookingStatus \cup {"none"}, place : Places \cup {Nowhere}]],
           \/ UNCHANGED <<tile, blame>>
           \/ \E p \in Places, s \in TileStatus, why \in {"none", "reservation"} :
                  Show(p, s, why) /\ (s = "OCCUPIED" \/ why # "none")
    PROVE  FloorInv'
<1>1. CASE UNCHANGED <<tile, blame>>
  <2>1. FloorType'
    BY <1>1 DEF FloorInv, FloorType
  <2> QED
    BY <1>1, <2>1, TilesStay, BillsStay
<1>2. CASE \E p \in Places, s \in TileStatus, why \in {"none", "reservation"} :
                  Show(p, s, why) /\ (s = "OCCUPIED" \/ why # "none")
  <2>1. PICK p \in Places, s \in TileStatus, why \in {"none", "reservation"} :
                  Show(p, s, why) /\ (s = "OCCUPIED" \/ why # "none")
    BY <1>2
  <2>2. /\ tile' \in [Places -> TileStatus]
        /\ blame' \in [Places -> {"none", "reservation", "hand", "release"}]
        /\ OnlyKnownWaysHideABill'
    BY <2>1, ShowHidesNothing
  <2>3. FloorType'
    BY <2>2 DEF FloorInv, FloorType
  <2> QED
    BY <2>2, <2>3, BillsStay
<1> QED
  BY <1>1, <1>2

LEMMA ReserveHolds ==
    ASSUME FloorInv, NEW r \in Bookings, NEW p \in Places \cup {Nowhere}, Reserve(r, p)
    PROVE  FloorInv'
<1>1. booked' \in [Bookings -> [status : BookingStatus \cup {"none"}, place : Places \cup {Nowhere}]]
  BY DEF Reserve, FloorInv, FloorType, BookingStatus
<1>2. "RESERVED" \in TileStatus
  BY DEF TileStatus
<1> QED
  BY <1>1, <1>2, WriterHolds DEF Reserve

LEMMA UpdateBookingHolds ==
    ASSUME FloorInv, NEW r \in Bookings, NEW s \in BookingStatus, UpdateBooking(r, s)
    PROVE  FloorInv'
<1>1. booked' \in [Bookings -> [status : BookingStatus \cup {"none"}, place : Places \cup {Nowhere}]]
  BY DEF UpdateBooking, FloorInv, FloorType
<1>2. CASE UNCHANGED <<tile, blame>>
  BY <1>1, <1>2, WriterHolds DEF UpdateBooking
<1>3. CASE /\ booked[r].place # Nowhere
           /\ \E t \in TileAfter(s) :
                  Show(booked[r].place, t, IF t = "OCCUPIED" THEN "none" ELSE "reservation")
  <2>1. PICK p \in Places : p = booked[r].place
    BY <1>3 DEF FloorInv, FloorType
  <2>2. PICK t \in TileAfter(s) : Show(p, t, IF t = "OCCUPIED" THEN "none" ELSE "reservation")
    BY <1>3, <2>1
  <2>3. t \in TileStatus
    BY <2>2 DEF TileAfter, TileStatus
  <2>4. PICK why \in {"none", "reservation"} :
            why = IF t = "OCCUPIED" THEN "none" ELSE "reservation"
    OBVIOUS
  <2>5. Show(p, t, why) /\ (t = "OCCUPIED" \/ why # "none")
    BY <2>2, <2>4
  <2>6. UNCHANGED <<at, closed, work, change>>
    BY DEF UpdateBooking
  <2> QED
    BY <1>1, <2>3, <2>5, <2>6, WriterHolds
<1> QED
  BY <1>2, <1>3 DEF UpdateBooking

LEMMA SeatHolds ==
    ASSUME FloorInv, NEW w \in Parties, NEW p \in Places, Seat(w, p)
    PROVE  FloorInv'
<1>1. /\ Show(p, "OCCUPIED", "none") /\ "OCCUPIED" \in TileStatus
      /\ UNCHANGED <<at, closed, booked, work, change>>
  BY DEF Seat, TileStatus
<1>2. booked' \in [Bookings -> [status : BookingStatus \cup {"none"}, place : Places \cup {Nowhere}]]
  BY <1>1 DEF FloorInv, FloorType
<1> QED
  BY <1>1, <1>2, WriterHolds

LEMMA CancelWaitHolds ==
    ASSUME FloorInv, NEW w \in Parties, CancelWait(w)
    PROVE  FloorInv'
<1>1. UNCHANGED <<tile, at, closed, booked, work, change, blame>>
  BY DEF CancelWait
<1>2. booked' \in [Bookings -> [status : BookingStatus \cup {"none"}, place : Places \cup {Nowhere}]]
  BY <1>1 DEF FloorInv, FloorType
<1> QED
  BY <1>1, <1>2, WriterHolds

-----------------------------------------------------------------------------
\* However requests that open, move and close bills, changes by hand,
\* reservations and seated guests overlap, for any number of each, an open bill
\* is hidden behind a tile that is not OCCUPIED only by a reservation, or by a
\* change by hand or a release that looked before the bill came: one that was
\* there at the check or the count is never hidden (updateTableStatus,
\* releaseTableIfIdle).
THEOREM SeenBillsAreNotHidden == FloorSpec => []OnlyKnownWaysHideABill
<1>1. FloorInit => FloorInv
  <2> SUFFICES ASSUME FloorInit PROVE FloorInv
    OBVIOUS
  <2>1. FloorType
    BY DEF FloorInit, FloorType, TileStatus, BookingStatus
  <2>2. CountHolds
    BY FreeFacts DEF FloorInit, CountHolds
  <2>3. CheckHolds /\ ClosedGone /\ OnlyKnownWaysHideABill
    BY DEF FloorInit, CheckHolds, ClosedGone, OnlyKnownWaysHideABill, Hidden
  <2> QED
    BY <2>1, <2>2, <2>3 DEF FloorInv
<1>2. FloorInv /\ [FloorNext]_floorVars => FloorInv'
  <2> SUFFICES ASSUME FloorInv, [FloorNext]_floorVars PROVE FloorInv'
    OBVIOUS
  <2>1. CASE FloorNext
    BY <2>1, OpenBillHolds, AskForHolds, CountOthersHolds, CloseBillHolds, MoveBillHolds,
       ReadForChangeHolds, WriteChangeHolds, ReserveHolds, UpdateBookingHolds, SeatHolds,
       CancelWaitHolds DEF FloorNext
  <2>2. CASE UNCHANGED floorVars
    <3>1. UNCHANGED <<tile, at, closed, booked, work, change, blame>>
      BY <2>2 DEF floorVars
    <3>2. booked' \in [Bookings -> [status : BookingStatus \cup {"none"}, place : Places \cup {Nowhere}]]
      BY <3>1 DEF FloorInv, FloorType
    <3> QED
      BY <3>1, <3>2, WriterHolds
  <2> QED
    BY <2>1, <2>2
<1>3. FloorInv => OnlyKnownWaysHideABill
  BY DEF FloorInv
<1> QED
  BY <1>1, <1>2, <1>3, PTL DEF FloorSpec

-----------------------------------------------------------------------------
(***************************************************************************)
(* What the platform was told is true, for any number of its requests, of  *)
(* staff and of tries.  Every answer is given in the step that makes it    *)
(* true, so the proof is about what later steps may do: an order row stays, *)
(* and one that the platform withdrew has no open end for anybody.         *)
(***************************************************************************)

\* An order that waits was not cooked; one that the platform withdrew is closed
\* and never was.
RowOK(o) ==
    /\ o.cooked \in BOOLEAN
    /\ o.acceptance = "PENDING" => ~o.cooked
    /\ o.by = "platform" => o.status = "CANCELLED" /\ ~o.cooked

OneRow == \E o : mine = {o} /\ RowOK(o)

Kept ==
    /\ "created" \in told => mine # {}
    /\ "cancelled" \in told => \E o \in mine : o.by = "platform"

PlatformInv == (mine = {} \/ OneRow) /\ Kept

-----------------------------------------------------------------------------
LEMMA InvTellsTheTruth == PlatformInv => PlatformIsToldTheTruth
  BY DEF PlatformInv, OneRow, RowOK, Kept, PlatformIsToldTheTruth

\* A step that leaves the order alone, or answers with what it sees, keeps PlatformInv.
LEMMA AnswerHolds ==
    ASSUME PlatformInv, mine' = mine, told' = told \/ told' = told \cup {"attention"}
              \/ (mine # {} /\ told' = told \cup {"created"})
    PROVE  PlatformInv'
  BY DEF PlatformInv, OneRow, RowOK, Kept

LEMMA InsertOrderHolds ==
    ASSUME PlatformInv, NEW p \in Posts, InsertOrder(p)
    PROVE  PlatformInv'
<1>1. PICK n : n = post[p].number
  OBVIOUS
<1> DEFINE r == PlatformRow(n, "OPEN", "PENDING", "nobody", FALSE)
<1>2. mine = {} /\ told' = told \cup {"created"} /\ mine' = {r}
  BY <1>1 DEF InsertOrder, Clashes, Reply
<1>3. RowOK(r)
  BY DEF RowOK, PlatformRow
<1> QED
  BY <1>2, <1>3 DEF PlatformInv, OneRow, Kept

\* Whoever withdraws it, an order that was waiting ends as it should.
LEMMA WithdrawHolds ==
    ASSUME PlatformInv, NEW who \in {"platform", "staff"}, StillUndecided,
           mine' = Withdrawn(who),
           told' = told \/ (who = "platform" /\ told' = told \cup {"cancelled"})
    PROVE  PlatformInv'
<1>1. PICK o : mine = {o} /\ RowOK(o)
  BY DEF PlatformInv, StillUndecided, Undecided, OneRow
<1>2. o.acceptance = "PENDING" /\ ~o.cooked /\ o.by # "platform" /\ o.cooked \in BOOLEAN
  BY <1>1 DEF StillUndecided, Undecided, RowOK
<1> DEFINE r == PlatformRow(o.number, "CANCELLED", "REJECTED", who, o.cooked)
<1>3. mine' = {r}
  BY <1>1 DEF Withdrawn
<1>4. RowOK(r) /\ r.by = who
  BY <1>2 DEF RowOK, PlatformRow
<1> HIDE DEF r
<1>5. Kept'
  BY <1>1, <1>2, <1>3, <1>4 DEF PlatformInv, Kept
<1> QED
  BY <1>3, <1>4, <1>5 DEF PlatformInv, OneRow

LEMMA DeclineForPlatformHolds ==
    ASSUME PlatformInv, NEW p \in Posts, DeclineForPlatform(p)
    PROVE  PlatformInv'
<1>1. CASE StillUndecided
  BY <1>1, WithdrawHolds DEF DeclineForPlatform, Reply
<1>2. CASE ~StillUndecided
  <2>1. mine' = mine /\ told' = told
    BY <1>2 DEF DeclineForPlatform, Reply
  <2> QED
    BY <2>1, AnswerHolds
<1> QED
  BY <1>1, <1>2

LEMMA StaffDecidesHolds ==
    ASSUME PlatformInv, NEW s \in Staff, StaffDecides(s)
    PROVE  PlatformInv'
<1>1. told' = told
  BY DEF StaffDecides
<1>2. CASE ~StillUndecided
  BY <1>1, <1>2, AnswerHolds DEF StaffDecides
<1>3. CASE StillUndecided /\ desk[s].at = "decline"
  BY <1>1, <1>3, WithdrawHolds DEF StaffDecides
<1>4. CASE StillUndecided /\ desk[s].at = "accept"
  <2>1. PICK o : mine = {o} /\ RowOK(o)
    BY <1>4 DEF PlatformInv, StillUndecided, Undecided, OneRow
  <2>2. o.status = "OPEN" /\ o.by # "platform"
    BY <1>4, <2>1 DEF StillUndecided, Undecided, RowOK
  <2> DEFINE r == PlatformRow(o.number, o.status, "ACCEPTED", o.by, TRUE)
  <2>3. mine' = {r}
    BY <1>4, <2>1 DEF StaffDecides
  <2>4. RowOK(r) /\ r.by = o.by
    BY <2>1, <2>2 DEF RowOK, PlatformRow
  <2> HIDE DEF r
  <2>5. Kept'
    BY <1>1, <2>1, <2>3, <2>4 DEF PlatformInv, Kept
  <2> QED
    BY <2>3, <2>4, <2>5 DEF PlatformInv, OneRow
<1> QED
  BY <1>2, <1>3, <1>4 DEF StaffDecides

LEMMA StaffEndsHolds ==
    ASSUME PlatformInv, NEW status \in {"PAID", "CANCELLED"}, StaffEnds(status)
    PROVE  PlatformInv'
<1>1. PICK o : mine = {o} /\ RowOK(o)
  BY DEF PlatformInv, StaffEnds, OneRow
<1>2. o.status = "OPEN" /\ o.acceptance = "ACCEPTED" /\ o.by # "platform"
  BY <1>1 DEF StaffEnds, RowOK
<1> DEFINE r == PlatformRow(o.number, status, o.acceptance, "staff", o.cooked)
<1>3. mine' = {r}
  BY <1>1 DEF StaffEnds
<1>4. RowOK(r) /\ r.by = "staff"
  BY <1>1, <1>2 DEF RowOK, PlatformRow
<1> HIDE DEF r
<1>5. Kept'
  BY <1>1, <1>2, <1>3 DEF StaffEnds, PlatformInv, Kept
<1> QED
  BY <1>3, <1>4, <1>5 DEF PlatformInv, OneRow

\* PlatformInv is inductive.
LEMMA PlatformStepHolds == PlatformInv /\ [PlatformNext]_platformVars => PlatformInv'
<1> SUFFICES ASSUME PlatformInv, [PlatformNext]_platformVars
             PROVE  PlatformInv'
  OBVIOUS
<1>1. CASE UNCHANGED platformVars
  BY <1>1, AnswerHolds DEF platformVars
<1>2. ASSUME NEW p \in Posts,
             \/ ReceiveCreated(p) \/ ReadNumber(p) \/ InsertClashes(p)
             \/ ReceiveCancelled(p) \/ PostFails(p)
      PROVE  PlatformInv'
  <2>1. /\ mine' = mine
        /\ \/ told' = told \/ told' = told \cup {"attention"}
           \/ mine # {} /\ told' = told \cup {"created"}
    BY <1>2 DEF ReceiveCreated, ReadNumber, InsertClashes, AlreadyThere,
                ReceiveCancelled, PostFails, Reply
  <2> QED
    BY <2>1, AnswerHolds
<1>3. ASSUME NEW p \in Posts, InsertOrder(p) \/ DeclineForPlatform(p)
      PROVE  PlatformInv'
  BY <1>3, InsertOrderHolds, DeclineForPlatformHolds
<1>4. ASSUME NEW s \in Staff, StaffDecides(s)
      PROVE  PlatformInv'
  BY <1>4, StaffDecidesHolds
<1>5. ASSUME NEW s \in Staff, NEW op \in {"accept", "decline"}, StaffReads(s, op)
      PROVE  PlatformInv'
  BY <1>5, AnswerHolds DEF StaffReads
<1>6. ASSUME NEW status \in {"PAID", "CANCELLED"}, StaffEnds(status)
      PROVE  PlatformInv'
  BY <1>6, StaffEndsHolds
<1>7. CASE TillOrder
  BY <1>7, AnswerHolds DEF TillOrder
<1> QED
  BY <1>1, <1>2, <1>3, <1>4, <1>5, <1>6, <1>7 DEF PlatformNext

\* Whatever repeats, overtakes or fails, and whoever decides meanwhile: what the
\* platform was told is so, and what was accepted is never withdrawn by it
\* (AggregatorOrdersService.receive, OrdersService.withdrawOrder).
THEOREM PlatformTold == PlatformSpec => []PlatformIsToldTheTruth
<1>1. PlatformInit => PlatformInv
  BY DEF PlatformInit, PlatformInv, Kept
<1> QED
  BY <1>1, PlatformStepHolds, InvTellsTheTruth, PTL DEF PlatformSpec

-----------------------------------------------------------------------------
(***************************************************************************)
(* Retention never goes too far, for any number of backups and buckets,    *)
(* any number kept, and any overlap of runs, clean-ups, restores and       *)
(* settings.  A clean-up works from a list it read some time ago; what is  *)
(* on it had Retain newer backups then, and a backup that is newer once    *)
(* stays so (NewerGrows).  So nothing on any list has to be kept any more  *)
(* (ListsAreOld), whatever a restore made of the rows meanwhile.           *)
(***************************************************************************)

Outlived(b) == verifiedAt[b] > 0 /\ Cardinality(Newer(b)) >= Retain

\* A row that says VERIFIED, now or in a dump, is of a backup that was verified.
RowsAreTrue(rows) == \A b \in Backups : rows[b] = "VERIFIED" => verifiedAt[b] > 0

ListsAreOld ==
    \A b \in Backups : \A c \in copy[b].stale : Outlived(c)

\* Before its verification a run has its bucket, and at the end an object in it.
RunsOK ==
    \A b \in Backups :
      /\ At(b, {"unused", "dump", "upload", "check"}) => verifiedAt[b] = 0
      /\ At(b, {"dump", "upload"}) => copy[b].bucket \in Buckets
      /\ At(b, {"check"}) => object[b] # NoBucket

Clocks ==
    /\ restoredAt <= verified
    /\ \A b \in Backups : verifiedAt[b] <= verified

BackupInv ==
    /\ TypeOK /\ Clocks /\ RunsOK /\ ListsAreOld
    /\ RowsAreTrue(row) /\ \A b \in Backups : RowsAreTrue(dump[b].row)
    /\ KeptUntilReplaced

-----------------------------------------------------------------------------
(* Newer backups *)

LEMMA NewerIsFinite ==
    ASSUME NEW b \in Backups
    PROVE  IsFiniteSet(Newer(b)) /\ Cardinality(Newer(b)) \in Nat
<1>1. Newer(b) \subseteq Backups
  BY DEF Newer
<1> QED
  BY <1>1, BackupAssumption, FS_Subset, FS_CardinalityType

\* A backup verified now is newer than all others.
LEMMA NewerGrows ==
    ASSUME TypeOK, Clocks, NEW b \in Backups, verifiedAt[b] = 0,
           verifiedAt' = [verifiedAt EXCEPT ![b] = verified + 1],
           NEW c \in Backups, c # b
    PROVE  Cardinality(Newer(c)) <= Cardinality(Newer(c)')
<1>1. Newer(c) \subseteq Newer(c)' /\ Newer(c)' \subseteq Backups
  BY DEF Newer, TypeOK, Clocks
<1>2. IsFiniteSet(Newer(c)')
  BY <1>1, BackupAssumption, FS_Subset
<1> QED
  BY <1>1, <1>2, FS_Subset

\* What enforceRetention finds stale is replaced.
LEMMA StaleIsOld ==
    ASSUME BackupInv, NEW c \in Stale
    PROVE  c \in Backups /\ Outlived(c)
<1> DEFINE counted == {d \in Backups : row[d] = "VERIFIED" /\ verifiedAt[d] > verifiedAt[c]}
<1>1. c \in Backups /\ row[c] = "VERIFIED" /\ Cardinality(counted) >= Retain
  BY DEF Stale
<1>2. counted \subseteq Newer(c)
  BY DEF Newer
<1>3. /\ Cardinality(counted) \in Nat /\ Cardinality(Newer(c)) \in Nat
      /\ Cardinality(counted) <= Cardinality(Newer(c))
  BY <1>1, <1>2, NewerIsFinite, FS_Subset, FS_CardinalityType
<1>4. verifiedAt[c] > 0
  BY <1>1 DEF BackupInv, RowsAreTrue
<1> QED
  BY <1>1, <1>3, <1>4, BackupAssumption DEF Outlived

\* While nothing is verified, lists stay old if all that is new on them is.
LEMMA ListsStayOld ==
    ASSUME BackupInv, verifiedAt' = verifiedAt,
           \A a \in Backups : \A c \in copy'[a].stale : c \in copy[a].stale \/ Outlived(c)
    PROVE  ListsAreOld'
<1>1. \A c : Newer(c)' = Newer(c)
  BY DEF Newer
<1>2. \A c : Outlived(c)' <=> Outlived(c)
  BY <1>1 DEF Outlived
<1> QED
  BY <1>2 DEF BackupInv, ListsAreOld

-----------------------------------------------------------------------------
(* Steps of a run *)

LEMMA BackupBeginsSound ==
    ASSUME BackupInv, NEW b \in Backups, BackupBegins(b)
    PROVE  BackupInv'
<1>1. verifiedAt[b] = 0 /\ place \in Buckets
  BY DEF BackupBegins, BackupInv, RunsOK, TypeOK, PlaceNames, At
<1>2. TypeOK' /\ Clocks'
  BY DEF BackupBegins, BackupInv, TypeOK, Clocks, RowStatus, Steps, RunOf, PlaceNames
<1>3. RunsOK' /\ ListsAreOld'
  <2>1. RunsOK'
    BY <1>1 DEF BackupBegins, BackupInv, TypeOK, RunsOK, At, RunOf
  <2>2. ListsAreOld'
    BY ListsStayOld DEF BackupBegins, BackupInv, TypeOK, RunOf
  <2> QED
    BY <2>1, <2>2
<1>4. RowsAreTrue(row)' /\ \A c \in Backups : RowsAreTrue(dump[c].row)'
  BY DEF BackupBegins, BackupInv, TypeOK, RowsAreTrue
<1>5. KeptUntilReplaced'
  BY <1>1 DEF BackupBegins, BackupInv, TypeOK, KeptUntilReplaced, Newer
<1> QED
  BY <1>2, <1>3, <1>4, <1>5 DEF BackupInv

LEMMA BackupDumpsSound ==
    ASSUME BackupInv, NEW b \in Backups, BackupDumps(b)
    PROVE  BackupInv'
<1>1. TypeOK' /\ Clocks'
  BY DEF BackupDumps, GoOn, BackupInv, TypeOK, Clocks, Snapshot, Steps, RunOf
<1>2. RunsOK' /\ ListsAreOld'
  BY DEF BackupDumps, GoOn, BackupInv, TypeOK, RunsOK, ListsAreOld, Outlived, Newer, At, RunOf
<1>3. RowsAreTrue(row)' /\ \A c \in Backups : RowsAreTrue(dump[c].row)'
  BY DEF BackupDumps, BackupInv, TypeOK, RowsAreTrue
<1>4. KeptUntilReplaced'
  BY DEF BackupDumps, BackupInv, TypeOK, KeptUntilReplaced, Newer
<1> QED
  BY <1>1, <1>2, <1>3, <1>4 DEF BackupInv

LEMMA BackupUploadsSound ==
    ASSUME BackupInv, NEW b \in Backups, BackupUploads(b)
    PROVE  BackupInv'
<1>1. verifiedAt[b] = 0 /\ copy[b].bucket \in Buckets
  BY DEF BackupUploads, BackupInv, RunsOK, At
<1>2. TypeOK' /\ Clocks'
  BY <1>1 DEF BackupUploads, GoOn, BackupInv, TypeOK, Clocks, Steps, RunOf
<1>3. RunsOK' /\ ListsAreOld'
  BY <1>1, BackupAssumption
     DEF BackupUploads, GoOn, BackupInv, TypeOK, RunsOK, ListsAreOld, Outlived, Newer, At, RunOf
<1>4. RowsAreTrue(row)' /\ \A c \in Backups : RowsAreTrue(dump[c].row)'
  BY DEF BackupUploads, BackupInv, TypeOK, RowsAreTrue
<1>5. KeptUntilReplaced'
  BY <1>1 DEF BackupUploads, BackupInv, TypeOK, KeptUntilReplaced, Newer
<1> QED
  BY <1>2, <1>3, <1>4, <1>5 DEF BackupInv

LEMMA BackupVerifiedSound ==
    ASSUME BackupInv, NEW b \in Backups, BackupVerified(b)
    PROVE  BackupInv'
<1>1. /\ verifiedAt[b] = 0 /\ object[b] # NoBucket
      /\ verifiedAt' = [verifiedAt EXCEPT ![b] = verified + 1]
  BY DEF BackupVerified, BackupInv, RunsOK, At
<1>2. TypeOK' /\ Clocks'
  BY DEF BackupVerified, GoOn, BackupInv, TypeOK, Clocks, RowStatus, Steps, RunOf
<1>3. \A c \in Backups \ {b} : /\ verifiedAt'[c] = verifiedAt[c]
                               /\ Cardinality(Newer(c)) \in Nat
                               /\ Cardinality(Newer(c)') \in Nat
                               /\ Cardinality(Newer(c)) <= Cardinality(Newer(c)')
  <2>1. \A c \in Backups : Newer(c)' \subseteq Backups
    BY DEF Newer
  <2>2. \A c \in Backups : Cardinality(Newer(c)') \in Nat
    BY <2>1, BackupAssumption, FS_Subset, FS_CardinalityType
  <2> QED
    BY <1>1, <2>2, NewerIsFinite, NewerGrows DEF BackupInv, TypeOK
<1>4. RunsOK'
  BY <1>1 DEF BackupVerified, GoOn, BackupInv, TypeOK, RunsOK, At, RunOf
<1>5. ListsAreOld'
  <2> SUFFICES ASSUME NEW a \in Backups, NEW c \in copy'[a].stale
               PROVE  Outlived(c)'
    BY DEF ListsAreOld
  <2>1. copy'[a].stale = copy[a].stale /\ c \in Backups
    BY DEF BackupVerified, GoOn, BackupInv, TypeOK, RunOf
  <2>2. verifiedAt[c] > 0 /\ Outlived(c)
    BY <2>1 DEF BackupInv, ListsAreOld, Outlived
  <2>3. c # b
    BY <1>1, <2>2
  <2>4. verifiedAt'[c] > 0 /\ Cardinality(Newer(c)) \in Nat /\ Cardinality(Newer(c)') \in Nat
        /\ Cardinality(Newer(c)) <= Cardinality(Newer(c)')
    BY <1>3, <2>1, <2>2, <2>3
  <2>5. Retain \in Nat
    BY BackupAssumption
  <2> QED
    BY <2>2, <2>4, <2>5 DEF Outlived
<1>6. RowsAreTrue(row)' /\ \A c \in Backups : RowsAreTrue(dump[c].row)'
  BY <1>1 DEF BackupVerified, BackupInv, TypeOK, RowsAreTrue
<1>7. KeptUntilReplaced'
  <2> SUFFICES ASSUME NEW c \in Backups, verifiedAt'[c] > 0, Cardinality(Newer(c)') < Retain
               PROVE  /\ object'[c] # NoBucket
                      /\ verifiedAt'[c] > restoredAt' => row'[c] \in {"VERIFIED", "FAILED"}
    BY DEF KeptUntilReplaced
  <2>1. CASE c = b
    BY <1>1, <2>1 DEF BackupVerified, BackupInv, TypeOK
  <2>2. CASE c # b
    <3>1. verifiedAt[c] > 0 /\ Cardinality(Newer(c)) < Retain
      BY <1>3, <2>2, BackupAssumption
    <3> QED
      BY <1>3, <2>2, <3>1 DEF BackupVerified, BackupInv, TypeOK, KeptUntilReplaced
  <2> QED
    BY <2>1, <2>2
<1> QED
  BY <1>2, <1>4, <1>5, <1>6, <1>7 DEF BackupInv

\* A run that ends, whatever becomes of its row.
LEMMA EndSound ==
    ASSUME BackupInv, NEW b \in Backups, End(b),
           row' = row \/ row' = [row EXCEPT ![b] = "FAILED"], turns' \in Nat,
           UNCHANGED <<place, object, dump, restoring, verifiedAt, verified, restoredAt>>
    PROVE  BackupInv'
<1>1. TypeOK' /\ Clocks'
  BY DEF End, NoRun, BackupInv, TypeOK, Clocks, RowStatus, Steps, RunOf, PlaceNames
<1>2. RunsOK' /\ ListsAreOld'
  BY DEF End, NoRun, BackupInv, TypeOK, RunsOK, ListsAreOld, Outlived, Newer, At, RunOf
<1>3. RowsAreTrue(row)' /\ \A c \in Backups : RowsAreTrue(dump[c].row)'
  BY DEF BackupInv, TypeOK, RowsAreTrue
<1>4. KeptUntilReplaced'
  BY DEF BackupInv, TypeOK, KeptUntilReplaced, Newer
<1> QED
  BY <1>1, <1>2, <1>3, <1>4 DEF BackupInv

LEMMA BackupFailsSound ==
    ASSUME BackupInv, NEW b \in Backups, BackupFails(b)
    PROVE  BackupInv'
<1>1. turns' \in Nat
  BY DEF BackupFails, Turn, BackupInv, TypeOK
<1> QED
  BY <1>1, EndSound DEF BackupFails

LEMMA BackupStopsSound ==
    ASSUME BackupInv, NEW b \in Backups, BackupStops(b)
    PROVE  BackupInv'
<1>1. turns' \in Nat
  BY DEF BackupStops, Turn, BackupInv, TypeOK
<1> QED
  BY <1>1, EndSound DEF BackupStops

LEMMA BackupEndsSound ==
    ASSUME BackupInv, NEW b \in Backups, BackupEnds(b)
    PROVE  BackupInv'
<1>1. turns' \in Nat
  BY DEF BackupEnds, BackupInv, TypeOK
<1> QED
  BY <1>1, EndSound DEF BackupEnds

-----------------------------------------------------------------------------
(* Steps of the clean-up *)

\* A run that gets on with a list of which everything is replaced, and deletes
\* nothing that is not.
LEMMA CleanUpSound ==
    ASSUME BackupInv, NEW b \in Backups, NEW step \in {"object", "row", "notify"},
           NEW left \in SUBSET Backups, \A c \in left : Outlived(c),
           copy' = [copy EXCEPT ![b] = RunOf(step, @.bucket, left)],
           object' \in [Backups -> PlaceNames], row' \in [Backups -> RowStatus],
           \A c \in Backups : /\ object'[c] = object[c] \/ Outlived(c)
                              /\ row'[c] = row[c] \/ (row'[c] = "none" /\ Outlived(c)),
           turns' \in Nat,
           UNCHANGED <<place, dump, restoring, verifiedAt, verified, restoredAt>>
    PROVE  BackupInv'
<1>1. TypeOK' /\ Clocks'
  BY DEF BackupInv, TypeOK, Clocks, Steps, RunOf
<1>2. RunsOK'
  BY DEF BackupInv, TypeOK, RunsOK, At, RunOf, Outlived
<1>3. ListsAreOld'
  BY ListsStayOld DEF BackupInv, TypeOK, RunOf
<1>4. RowsAreTrue(row)' /\ \A c \in Backups : RowsAreTrue(dump[c].row)'
  BY DEF BackupInv, TypeOK, RowsAreTrue
<1>5. KeptUntilReplaced'
  <2> SUFFICES ASSUME NEW c \in Backups, verifiedAt[c] > 0, Cardinality(Newer(c)) < Retain
               PROVE  /\ object'[c] # NoBucket
                      /\ verifiedAt[c] > restoredAt => row'[c] \in {"VERIFIED", "FAILED"}
    BY DEF KeptUntilReplaced, Newer
  <2>1. ~ Outlived(c)
    BY NewerIsFinite, BackupAssumption DEF Outlived
  <2> QED
    BY <2>1 DEF BackupInv, TypeOK, KeptUntilReplaced
<1> QED
  BY <1>1, <1>2, <1>3, <1>4, <1>5 DEF BackupInv

LEMMA RetentionReadsSound ==
    ASSUME BackupInv, NEW b \in Backups, RetentionReads(b)
    PROVE  BackupInv'
<1>1. StepWith(Stale) \in {"object", "row", "notify"}
  BY DEF StepWith
<1>2. Stale \in SUBSET Backups /\ \A c \in Stale : Outlived(c)
  BY StaleIsOld
<1>3. /\ copy' = [copy EXCEPT ![b] = RunOf(StepWith(Stale), @.bucket, Stale)]
      /\ object' = object /\ row' = row
      /\ UNCHANGED <<place, dump, restoring, verifiedAt, verified, restoredAt, turns>>
  BY DEF RetentionReads
<1> QED
  BY <1>1, <1>2, <1>3, CleanUpSound DEF BackupInv, TypeOK

LEMMA DeleteObjectSound ==
    ASSUME BackupInv, NEW b \in Backups, DeleteObject(b)
    PROVE  BackupInv'
<1>1. PICK c \in copy[b].stale : object' = [object EXCEPT ![c] = IF @ = copy[b].bucket THEN NoBucket ELSE @]
  BY DEF DeleteObject, IsFirst
<1>2. /\ copy[b].stale \in SUBSET Backups
      /\ \A d \in copy[b].stale : Outlived(d)
  BY DEF BackupInv, TypeOK, ListsAreOld
<1>3. copy' = [copy EXCEPT ![b] = RunOf("row", @.bucket, copy[b].stale)]
  BY DEF DeleteObject, GoOn
<1>4. /\ row' = row
      /\ UNCHANGED <<place, dump, restoring, verifiedAt, verified, restoredAt, turns>>
  BY DEF DeleteObject
<1>5. object' \in [Backups -> PlaceNames] /\ \A d \in Backups : object'[d] = object[d] \/ Outlived(d)
  BY <1>1, <1>2 DEF BackupInv, TypeOK, PlaceNames
<1> QED
  BY <1>2, <1>3, <1>4, <1>5, CleanUpSound DEF BackupInv, TypeOK

\* What is left after one backup.
LEMMA BehindLeaves ==
    ASSUME BackupInv, NEW b \in Backups, NEW c \in copy[b].stale, Behind(b, c)
    PROVE  \E step \in {"object", "row", "notify"} : \E left \in SUBSET Backups :
             /\ \A d \in left : Outlived(d)
             /\ copy' = [copy EXCEPT ![b] = RunOf(step, @.bucket, left)]
<1> DEFINE left == copy[b].stale \ {c}
<1>1. left \in SUBSET Backups /\ \A d \in left : Outlived(d)
  BY DEF BackupInv, TypeOK, ListsAreOld
<1>2. StepWith(left) \in {"object", "row", "notify"}
  BY DEF StepWith
<1>3. copy' = [copy EXCEPT ![b] = RunOf(StepWith(left), @.bucket, left)]
  BY DEF Behind
<1> QED
  BY <1>1, <1>2, <1>3

LEMMA DeleteRowSound ==
    ASSUME BackupInv, NEW b \in Backups, DeleteRow(b)
    PROVE  BackupInv'
<1>1. PICK c \in copy[b].stale : row' = [row EXCEPT ![c] = "none"] /\ Behind(b, c)
  BY DEF DeleteRow, IsFirst
<1>2. PICK step \in {"object", "row", "notify"}, left \in SUBSET Backups :
        /\ \A d \in left : Outlived(d)
        /\ copy' = [copy EXCEPT ![b] = RunOf(step, @.bucket, left)]
  BY <1>1, BehindLeaves
<1>3. Outlived(c)
  BY DEF BackupInv, ListsAreOld
<1>4. /\ row' \in [Backups -> RowStatus]
      /\ \A d \in Backups : row'[d] = row[d] \/ (row'[d] = "none" /\ Outlived(d))
  BY <1>1, <1>3 DEF BackupInv, TypeOK, RowStatus
<1>5. /\ object' = object
      /\ UNCHANGED <<place, dump, restoring, verifiedAt, verified, restoredAt, turns>>
  BY DEF DeleteRow
<1> QED
  BY <1>2, <1>4, <1>5, CleanUpSound DEF BackupInv, TypeOK

LEMMA SkipStaleSound ==
    ASSUME BackupInv, NEW b \in Backups, SkipStale(b)
    PROVE  BackupInv'
<1>1. PICK c \in copy[b].stale : Behind(b, c)
  BY DEF SkipStale, IsFirst
<1>2. PICK step \in {"object", "row", "notify"}, left \in SUBSET Backups :
        /\ \A d \in left : Outlived(d)
        /\ copy' = [copy EXCEPT ![b] = RunOf(step, @.bucket, left)]
  BY <1>1, BehindLeaves
<1>3. /\ object' = object /\ row' = row /\ turns' \in Nat
      /\ UNCHANGED <<place, dump, restoring, verifiedAt, verified, restoredAt>>
  BY DEF SkipStale, Turn, BackupInv, TypeOK
<1> QED
  BY <1>2, <1>3, CleanUpSound DEF BackupInv, TypeOK

-----------------------------------------------------------------------------
(* Settings and restores *)

\* Only the rows, the setting and the restore itself change.
LEMMA RestoreSound ==
    ASSUME BackupInv, TypeOK', Clocks', RowsAreTrue(row)', UNCHANGED <<object, dump, copy, verifiedAt>>,
           \A b \in Backups : verifiedAt[b] > restoredAt' =>
               row'[b] = row[b] /\ verifiedAt[b] > restoredAt
    PROVE  BackupInv'
<1>1. RunsOK'
  BY DEF BackupInv, RunsOK, At
<1>2. ListsAreOld'
  BY ListsStayOld
<1>3. \A c \in Backups : RowsAreTrue(dump[c].row)'
  BY DEF BackupInv, RowsAreTrue
<1>4. KeptUntilReplaced'
  BY DEF BackupInv, KeptUntilReplaced, Newer
<1> QED
  BY <1>1, <1>2, <1>3, <1>4 DEF BackupInv

LEMMA SetConfigSound ==
    ASSUME BackupInv, NEW k \in PlaceNames, SetConfig(k)
    PROVE  BackupInv'
<1>1. TypeOK' /\ Clocks' /\ RowsAreTrue(row)'
  BY DEF SetConfig, Turn, BackupInv, TypeOK, Clocks, RowsAreTrue
<1> QED
  BY <1>1, RestoreSound DEF SetConfig

LEMMA RestoreBeginsSound ==
    ASSUME BackupInv, NEW b \in Backups, RestoreBegins(b)
    PROVE  BackupInv'
<1>1. TypeOK' /\ Clocks' /\ RowsAreTrue(row)'
  BY DEF RestoreBegins, RestoreOf, Turn, BackupInv, TypeOK, Clocks, RowsAreTrue, PlaceNames
<1> QED
  BY <1>1, RestoreSound DEF RestoreBegins

LEMMA RestoreFetchesSound ==
    ASSUME BackupInv, RestoreFetches
    PROVE  BackupInv'
<1>1. TypeOK' /\ Clocks' /\ RowsAreTrue(row)'
  BY DEF RestoreFetches, RestoreOf, NoRestore, BackupInv, TypeOK, Clocks, RowsAreTrue
<1> QED
  BY <1>1, RestoreSound DEF RestoreFetches

LEMMA RestoreFailsSound ==
    ASSUME BackupInv, RestoreFails
    PROVE  BackupInv'
<1>1. TypeOK' /\ Clocks' /\ RowsAreTrue(row)'
  BY DEF RestoreFails, BackupInv, TypeOK, Clocks, RowsAreTrue
<1> QED
  BY <1>1, RestoreSound DEF RestoreFails

LEMMA RestoreLoadsSound ==
    ASSUME BackupInv, RestoreLoads
    PROVE  BackupInv'
<1>1. restoring.from \in Backups
  BY DEF RestoreLoads, NoRestore, BackupInv, TypeOK
<1>2. PICK s \in {dump[restoring.from], Nothing} :
        row' = s.row /\ place' = s.place /\ turns' \in Nat
  BY DEF RestoreLoads, Turn, BackupInv, TypeOK, Nothing
<1>3. s \in Snapshot /\ RowsAreTrue(s.row)
  BY <1>1 DEF BackupInv, TypeOK, Nothing, Snapshot, RowStatus, PlaceNames, RowsAreTrue
<1>4. TypeOK' /\ Clocks' /\ RowsAreTrue(row)'
  BY <1>2, <1>3 DEF RestoreLoads, BackupInv, TypeOK, Clocks, RowsAreTrue, Snapshot
<1>5. \A b \in Backups : ~ (verifiedAt[b] > restoredAt')
  BY DEF RestoreLoads, BackupInv, TypeOK, Clocks
<1> QED
  BY <1>4, <1>5, RestoreSound DEF RestoreLoads

-----------------------------------------------------------------------------
LEMMA BackupInitHolds == BackupInit => BackupInv
<1> SUFFICES ASSUME BackupInit PROVE BackupInv
  OBVIOUS
<1>1. TypeOK /\ Clocks
  BY DEF BackupInit, TypeOK, Clocks, Nothing, NoRun, RunOf, Snapshot, RowStatus, Steps, PlaceNames
<1>2. RunsOK /\ ListsAreOld
  BY DEF BackupInit, RunsOK, ListsAreOld, At, NoRun, RunOf
<1>3. RowsAreTrue(row) /\ \A b \in Backups : RowsAreTrue(dump[b].row)
  BY DEF BackupInit, RowsAreTrue, Nothing
<1>4. KeptUntilReplaced
  BY DEF BackupInit, KeptUntilReplaced
<1> QED
  BY <1>1, <1>2, <1>3, <1>4 DEF BackupInv

LEMMA BackupStepHolds ==
    ASSUME BackupInv, [BackupNext]_backupVars
    PROVE  BackupInv'
<1>1. CASE BackupNext
  BY <1>1, BackupBeginsSound, BackupDumpsSound, BackupUploadsSound, BackupVerifiedSound,
     BackupFailsSound, BackupStopsSound, BackupEndsSound, RetentionReadsSound,
     DeleteObjectSound, DeleteRowSound, SkipStaleSound, RestoreBeginsSound,
     RestoreFetchesSound, RestoreLoadsSound, RestoreFailsSound, SetConfigSound
     DEF BackupNext
<1>2. CASE UNCHANGED backupVars
  <2>1. TypeOK' /\ Clocks' /\ RowsAreTrue(row)'
    BY <1>2 DEF backupVars, BackupInv, TypeOK, Clocks, RowsAreTrue
  <2> QED
    BY <1>2, <2>1, RestoreSound DEF backupVars
<1> QED
  BY <1>1, <1>2

\* A backup keeps its dump until Retain others were verified after it, and its
\* row until then, until a restore, or until a late failure marks it, for any
\* overlap of runs, clean-ups, restores and settings (enforceRetention).
THEOREM BackupsAreKept == BackupSpec => []KeptUntilReplaced
<1>1. BackupInv => KeptUntilReplaced
  BY DEF BackupInv
<1> QED
  BY BackupInitHolds, BackupStepHolds, <1>1, PTL DEF BackupSpec

-----------------------------------------------------------------------------
(***************************************************************************)
(* Outgoing webhooks, for any number of events, runs of the job, attempts, *)
(* lost answers and restarts, as long as a request ends before its lease.  *)
(* An answer lost or a restart is what a second delivery is allowed for:   *)
(* HookInv says that an attempt which may still reach the endpoint has no  *)
(* unexcused delivery behind it, and that a row has one attempt at a time  *)
(* because it is not due while one is under way.                           *)
(***************************************************************************)

Outcome == {"request", "ok", "failed"}
HookStatus == {"none", "PENDING", "SUCCESS", "FAILED", "removed"}
HookRow == [status : HookStatus, attempts : Nat, test : BOOLEAN]
Attempt == [event : Events, attempts : Nat, at : Outcome]

HookType ==
    /\ hook \in [Events -> HookRow]
    /\ sending \subseteq Attempt
    /\ received \in [Events -> Nat]
    /\ mishaps \in Nat

OneAttempt == \A a, b \in sending : a.event = b.event => a = b

\* A row with an attempt under way waits for it.
Leased == \A a \in sending : ~ Due(a.event) /\ hook[a.event].status \in {"PENDING", "removed"}

Delivered(d) == \E a \in sending : a.event = d /\ a.at = "ok"

\* What may be sent again was not taken without a mishap that explains it.
Excused ==
    /\ \A d \in Events : hook[d].status \in {"none", "PENDING"} /\ ~ Delivered(d) => received[d] <= mishaps
    /\ \A a \in sending : a.at # "ok" => received[a.event] <= mishaps

HookInv == HookType /\ OneAttempt /\ Leased /\ Excused /\ SentAgainOnlyAfterMishap

LEMMA QueueLosesRows ==
    ASSUME NEW ds
    PROVE  DOMAIN Without(ds) = DOMAIN queue \ ds
  BY DEF Without

LEMMA QueueGainsRow ==
    ASSUME NEW d
    PROVE  DOMAIN Joined(d) = DOMAIN queue \cup {d}
  BY DEF Joined

\* A row is written: emit, and the test sent at once.
LEMMA NewRowIsSound ==
    ASSUME HookInv, NEW d \in Events, NEW test \in BOOLEAN, Unused(d),
           hook' = [hook EXCEPT ![d] = Row("PENDING", test)], queue' = Joined(d),
           UNCHANGED <<sending, received, mishaps>>
    PROVE  HookInv'
<1>1. Row("PENDING", test) \in HookRow
  BY DEF Row, HookRow, HookStatus
<1>2. HookType'
  BY <1>1 DEF HookInv, HookType
<1>3. \A a \in sending : a.event # d
  BY DEF HookInv, Leased, Unused
<1>4. Leased'
  BY <1>3, QueueGainsRow DEF HookInv, HookType, Attempt, Leased, Due
<1>5. hook[d].status = "none" /\ \A c \in Events \ {d} : hook'[c] = hook[c]
  BY DEF Unused, HookInv, HookType
<1>6. Excused'
  BY <1>5 DEF HookInv, Excused, Delivered
<1> QED
  BY <1>2, <1>4, <1>6 DEF HookInv, OneAttempt, SentAgainOnlyAfterMishap

LEMMA ClaimIsSound ==
    ASSUME HookInv, NEW k \in Ticks, NEW d \in Events, Claim(k, d)
    PROVE  HookInv'
<1>1. CASE ~ Claimable(d)
  BY <1>1 DEF Claim, hookWorld, HookInv, HookType, OneAttempt, Leased, Excused, Delivered, Due,
     SentAgainOnlyAfterMishap
<1>2. CASE Claimable(d)
  <2>1. PICK a \in Attempt :
            /\ a.event = d /\ a.at # "ok"
            /\ sending' = sending \cup {a}
            /\ hook' = [hook EXCEPT ![d].attempts = @ + 1]
            /\ queue' = Without({d})
            /\ UNCHANGED <<received, mishaps>>
    <3>1. [event |-> d, attempts |-> hook[d].attempts + 1,
           at |-> IF active \/ hook[d].test THEN "request" ELSE "failed"] \in Attempt
      BY DEF HookInv, HookType, HookRow, Attempt, Outcome
    <3> QED
      BY <1>2, <3>1 DEF Claim
  <2>2. hook[d].status = "PENDING" /\ Due(d)
    BY <1>2 DEF Claimable
  <2>3. \A b \in sending : b.event # d
    BY <2>2 DEF HookInv, Leased
  <2>4. hook' \in [Events -> HookRow] /\ \A c \in Events : hook'[c].status = hook[c].status
    BY <2>1 DEF HookInv, HookType, HookRow
  <2>5. HookType'
    BY <2>1, <2>4 DEF HookInv, HookType
  <2>6. OneAttempt'
    BY <2>1, <2>3 DEF HookInv, OneAttempt
  <2>7. Leased'
    <3>1. DOMAIN queue' = DOMAIN queue \ {d}
      BY <2>1, QueueLosesRows
    <3>2. ASSUME NEW b \in sending'
          PROVE  b.event \notin DOMAIN queue' /\ hook'[b.event].status \in {"PENDING", "removed"}
      <4>1. CASE b = a
        BY <2>1, <2>2, <2>4, <3>1, <4>1
      <4>2. CASE b \in sending
        BY <2>4, <3>1, <4>2 DEF HookInv, HookType, Attempt, Leased, Due
      <4> QED
        BY <2>1, <4>1, <4>2
    <3> QED
      BY <3>2 DEF Leased, Due
  <2>8. Excused'
    BY <2>1, <2>2, <2>3, <2>4 DEF HookInv, HookType, Attempt, Excused, Delivered
  <2> QED
    BY <2>1, <2>5, <2>6, <2>7, <2>8 DEF HookInv, SentAgainOnlyAfterMishap
<1> QED
  BY <1>1, <1>2

LEMMA RequestIsSound ==
    ASSUME HookInv, NEW a \in sending, NEW outcome \in {"taken", "lost", "refused"}, Request(a, outcome)
    PROVE  HookInv'
<1>1. a \in Attempt /\ a.at = "request" /\ a.event \in Events
  BY DEF HookInv, HookType, Request, Attempt
<1>2. PICK b \in Attempt :
          /\ b.event = a.event
          /\ b.at = "ok" <=> outcome = "taken"
          /\ sending' = (sending \ {a}) \cup {b}
          /\ UNCHANGED <<hook, queue>>
  <2>1. [a EXCEPT !.at = IF outcome = "taken" THEN "ok" ELSE "failed"] \in Attempt
    BY <1>1 DEF Attempt, Outcome
  <2> QED
    BY <2>1 DEF Request, Attempt
<1>3. /\ received' \in [Events -> Nat] /\ mishaps' \in Nat
      /\ \A d \in Events \ {a.event} : received'[d] = received[d]
      /\ mishaps <= mishaps'
      /\ received'[a.event] <= received[a.event] + 1
      /\ outcome # "taken" => received'[a.event] - received[a.event] <= mishaps' - mishaps
  BY <1>1 DEF Request, HookInv, HookType
<1>4. received[a.event] <= mishaps
  BY <1>1 DEF HookInv, Excused
<1>5. HookType'
  BY <1>2, <1>3 DEF HookInv, HookType
<1>6. \A c \in sending \ {a} : c.event # a.event
  BY DEF HookInv, OneAttempt
<1>7. OneAttempt'
  BY <1>2, <1>6 DEF HookInv, OneAttempt
<1>8. Leased'
  BY <1>1, <1>2 DEF HookInv, Leased, Due
<1>9. \A d \in Events : received'[d] <= 1 + mishaps'
  BY <1>1, <1>3, <1>4 DEF HookInv, HookType, SentAgainOnlyAfterMishap
<1>10. \A d \in Events : ~ Delivered(d)' /\ d = a.event => outcome # "taken"
  BY <1>2 DEF Delivered
<1>11. \A d \in Events \ {a.event} : Delivered(d) => Delivered(d)'
  BY <1>2 DEF Delivered
<1>12. ASSUME NEW d \in Events, hook'[d].status \in {"none", "PENDING"}, ~ Delivered(d)'
       PROVE  received'[d] <= mishaps'
  <2>1. CASE d = a.event
    BY <1>1, <1>3, <1>4, <1>10, <1>12, <2>1 DEF HookInv, HookType
  <2>2. CASE d # a.event
    BY <1>2, <1>3, <1>11, <1>12, <2>2 DEF HookInv, HookType, Excused
  <2> QED
    BY <2>1, <2>2
<1>13. ASSUME NEW c \in sending', c.at # "ok"
       PROVE  received'[c.event] <= mishaps'
  <2>1. CASE c \in sending \ {a}
    BY <1>3, <1>6, <1>13, <2>1 DEF HookInv, HookType, Attempt, Excused
  <2>2. CASE c \notin sending \ {a}
    <3>1. c.event = a.event /\ outcome # "taken"
      BY <1>2, <1>13, <2>2
    <3> QED
      BY <1>1, <1>3, <1>4, <3>1 DEF HookInv, HookType
  <2> QED
    BY <2>1, <2>2
<1>14. Excused'
  BY <1>12, <1>13 DEF Excused
<1> QED
  BY <1>5, <1>7, <1>8, <1>9, <1>14 DEF HookInv, SentAgainOnlyAfterMishap

LEMMA FinishIsSound ==
    ASSUME HookInv, NEW a \in sending, Finish(a)
    PROVE  HookInv'
<1>1. a \in Attempt /\ a.event \in Events
  BY DEF HookInv, HookType, Attempt
<1>2. /\ sending' = sending \ {a} /\ queue' = Without({a.event})
      /\ UNCHANGED <<received, mishaps>>
  BY DEF Finish
<1>3. PICK s \in HookStatus :
          /\ hook' = [hook EXCEPT ![a.event].status = s]
          /\ s = "none" => hook[a.event].status = "none"
          /\ s = "PENDING" => a.at # "ok"
  <2>1. PICK s : s = IF hook[a.event].status = "removed" THEN hook[a.event].status
                     ELSE IF a.at = "ok" THEN "SUCCESS" ELSE IF Exhausted(a) THEN "FAILED" ELSE "PENDING"
    OBVIOUS
  <2>2. hook' = [hook EXCEPT ![a.event].status = s]
    BY <1>1, <2>1 DEF Finish, HookInv, HookType
  <2> QED
    BY <1>1, <2>1, <2>2 DEF HookStatus, HookInv, HookType, HookRow
<1>4. HookType' /\ \A d \in Events \ {a.event} : hook'[d] = hook[d]
  BY <1>1, <1>2, <1>3 DEF HookInv, HookType, HookRow
<1>5. \A b \in sending \ {a} : b.event # a.event
  BY DEF HookInv, OneAttempt
<1>6. OneAttempt'
  BY <1>2 DEF HookInv, OneAttempt
<1>7. Leased'
  BY <1>1, <1>2, <1>4, <1>5, QueueLosesRows DEF HookInv, HookType, Attempt, Leased, Due
<1>8. ASSUME NEW d \in Events, hook'[d].status \in {"none", "PENDING"}, ~ Delivered(d)'
      PROVE  received'[d] <= mishaps'
  <2>1. CASE d = a.event
    <3>1. hook[a.event].status # "none"
      BY DEF HookInv, Leased
    <3>2. a.at # "ok"
      BY <1>1, <1>3, <1>8, <2>1, <3>1 DEF HookInv, HookType, HookRow
    <3> QED
      BY <1>2, <2>1, <3>2 DEF HookInv, Excused
  <2>2. CASE d # a.event
    BY <1>2, <1>4, <1>8, <2>2 DEF HookInv, Excused, Delivered
  <2> QED
    BY <2>1, <2>2
<1>9. Excused'
  BY <1>2, <1>8 DEF HookInv, Excused
<1> QED
  BY <1>2, <1>4, <1>6, <1>7, <1>9 DEF HookInv, SentAgainOnlyAfterMishap

LEMMA BackoffIsSound ==
    ASSUME ~ Slow, HookInv, NEW d \in Events, BackoffEnds(d)
    PROVE  HookInv'
<1>1. \A a \in sending : a.event # d
  BY DEF BackoffEnds, Underway
<1>2. Leased'
  BY <1>1, QueueGainsRow DEF BackoffEnds, HookInv, Leased, Due
<1> QED
  BY <1>2 DEF BackoffEnds, hookWorld, HookInv, HookType, OneAttempt, Excused, Delivered,
     SentAgainOnlyAfterMishap

LEMMA RemoveIsSound ==
    ASSUME HookInv, NEW gone \in SUBSET Events, RemoveRows(gone)
    PROVE  HookInv'
<1>1. Row("removed", FALSE) \in HookRow /\ Row("removed", FALSE).status = "removed"
  BY DEF Row, HookRow, HookStatus
<1>2. HookType' /\ \A d \in Events : hook'[d] = hook[d] \/ hook'[d].status = "removed"
  BY <1>1 DEF RemoveRows, HookInv, HookType
<1>3. Leased'
  BY <1>2, QueueLosesRows DEF RemoveRows, HookInv, HookType, Attempt, Leased, Due
<1>4. Excused'
  BY <1>2 DEF RemoveRows, HookInv, Excused, Delivered
<1> QED
  BY <1>2, <1>3, <1>4 DEF RemoveRows, HookInv, OneAttempt, SentAgainOnlyAfterMishap

LEMMA RestartIsSound ==
    ASSUME HookInv, HookRestart
    PROVE  HookInv'
<1>1. mishaps' = mishaps + 1 /\ sending' = {} /\ UNCHANGED <<hook, queue, received>>
  BY DEF HookRestart
<1>2. \A d \in Events : received'[d] <= mishaps'
  BY <1>1 DEF HookInv, HookType, SentAgainOnlyAfterMishap
<1> QED
  BY <1>1, <1>2 DEF HookInv, HookType, OneAttempt, Leased, Excused, SentAgainOnlyAfterMishap

LEMMA HookNextIsSound == ~ Slow /\ HookInv /\ [HookNext]_hookVars => HookInv'
<1> SUFFICES ASSUME ~ Slow, HookInv, [HookNext]_hookVars PROVE HookInv'
  OBVIOUS
<1>1. ASSUME NEW d \in Events, Emit(d) \/ BackoffEnds(d)
      PROVE  HookInv'
  BY <1>1, NewRowIsSound, BackoffIsSound DEF Emit
<1>2. ASSUME NEW k \in Ticks, NEW d \in Events, SendTest(k, d) \/ Claim(k, d)
      PROVE  HookInv'
  BY <1>2, NewRowIsSound, ClaimIsSound DEF SendTest
<1>3. ASSUME NEW k \in Ticks, Tick(k) \/ SetActive \/ UNCHANGED hookVars
      PROVE  HookInv'
  BY <1>3 DEF Tick, SetActive, hookVars, hookWorld, HookInv, HookType, OneAttempt, Leased, Excused,
     Delivered, Due, SentAgainOnlyAfterMishap
<1>4. CASE SetActive \/ UNCHANGED hookVars
  BY <1>4 DEF SetActive, hookVars, hookWorld, HookInv, HookType, OneAttempt, Leased, Excused,
     Delivered, Due, SentAgainOnlyAfterMishap
<1>5. ASSUME NEW a \in sending, (\E o \in {"taken", "lost", "refused"} : Request(a, o)) \/ Finish(a)
      PROVE  HookInv'
  BY <1>5, RequestIsSound, FinishIsSound
<1>6. CASE RemoveRows(Events) \/ RemoveRows(Ended)
  BY <1>6, RemoveIsSound DEF Ended
<1> QED
  BY <1>1, <1>2, <1>3, <1>4, <1>5, <1>6, RestartIsSound DEF HookNext

\* The endpoint gets an event a second time only for an answer that was lost
\* or a restart between sending and marking (webhooks.service.ts:268), however
\* many runs of the job overlap; only a request that outlasts its lease could
\* break it.
THEOREM RepeatsAreExcused == ~ Slow => (HookSpec => []SentAgainOnlyAfterMishap)
<1> SUFFICES ASSUME ~ Slow PROVE HookSpec => []SentAgainOnlyAfterMishap
  OBVIOUS
<1>1. HookInit => HookInv
  <2> SUFFICES ASSUME HookInit PROVE HookInv
    OBVIOUS
  <2>1. Row("none", FALSE) \in HookRow
    BY DEF Row, HookRow, HookStatus
  <2>2. HookType
    BY <2>1 DEF HookInit, HookType
  <2>3. Excused /\ SentAgainOnlyAfterMishap
    BY DEF HookInit, Excused, SentAgainOnlyAfterMishap
  <2> QED
    BY <2>1, <2>2, <2>3 DEF HookInit, HookInv, OneAttempt, Leased
<1>2. HookInv /\ [HookNext]_hookVars => HookInv'
  BY HookNextIsSound
<1>3. HookInv => SentAgainOnlyAfterMishap
  BY DEF HookInv
<1> QED
  BY <1>1, <1>2, <1>3, PTL DEF HookSpec

-----------------------------------------------------------------------------
(***************************************************************************)
(* The kitchen's phone, for any number of taps, steps and closings.  A tap *)
(* is in one place at a time (OnePlace), so a flush that takes out what it *)
(* sent takes out nothing else; and what a flush has on its list is in the *)
(* stored list too, or its fate is known (ListIsBacked): a flush may be    *)
(* cut off anywhere.                                                       *)
(***************************************************************************)

Fate  == {"applied", "told", "replaced", "closed", "unsaved", "cut"}
Tap   == [n : 1 .. MaxTaps, kind : {"star", "step"}, value : BOOLEAN \cup Nat]
Calls == [tap : Tap, at : {"out", "done", "refused"}]
Flush == [at : {"idle", "next", "done", "refused"}, list : Seq(Tap), refused : Seq(1 .. MaxTaps)]

PhoneType ==
    /\ box \in Seq(Tap) /\ calls \subseteq Calls /\ flush \in Flush
    /\ notices \in Seq(1 .. MaxTaps)
    /\ fate \in [1 .. MaxTaps -> SUBSET Fate]
    /\ taps \in 0 .. MaxTaps

InBox(n) == \E i \in DOMAIN box : box[i].n = n

\* Two places of a list hold two taps.
AllDiffer(s) == \A i, j \in DOMAIN s : i # j => s[i].n # s[j].n

OnePlace ==
    /\ AllDiffer(box)
    /\ \A i, j \in DOMAIN box : i # j => ~ (box[i].kind = "star" /\ box[j].kind = "star")
    /\ \A c, d \in calls : c.tap.n = d.tap.n => c = d
    /\ \A c \in calls : ~ InBox(c.tap.n) /\ c.tap.n <= taps
    /\ \A i \in DOMAIN box : box[i].n <= taps

\* What the phone knows to be done the server has done.
DoneIsApplied ==
    /\ \A c \in calls : c.at = "done" => fate[c.tap.n] # {}
    /\ flush.at = "done" => fate[Head(flush.list).n] # {}

ListIsBacked ==
    /\ AllDiffer(flush.list)
    /\ flush.at \in {"done", "refused"} => flush.list # <<>>
    /\ flush.at = "idle" => flush.refused = <<>>
    /\ \A i \in DOMAIN flush.list : fate[flush.list[i].n] # {} \/ InBox(flush.list[i].n)

PhoneInv == PhoneType /\ OnePlace /\ DoneIsApplied /\ ListIsBacked /\ NoTapVanishes

LEMMA AsleepType == Asleep \in Flush /\ Asleep.at = "idle" /\ Asleep.list = <<>> /\ Asleep.refused = <<>>
  BY DEF Asleep, Flush

\* The taps that calls, the stored list and a flush are about.
LEMMA TapTypes ==
    ASSUME PhoneType
    PROVE  /\ \A c \in calls : c \in Calls /\ c.tap \in Tap /\ c.tap.n \in 1 .. MaxTaps
           /\ \A i \in DOMAIN box : box[i] \in Tap /\ box[i].n \in 1 .. MaxTaps
           /\ flush.list \in Seq(Tap) /\ flush.refused \in Seq(1 .. MaxTaps)
           /\ \A i \in DOMAIN flush.list : flush.list[i] \in Tap /\ flush.list[i].n \in 1 .. MaxTaps
           /\ flush.list # <<>> => /\ 1 \in DOMAIN flush.list /\ Head(flush.list) = flush.list[1]
                                  /\ Head(flush.list) \in Tap /\ Head(flush.list).n \in 1 .. MaxTaps
           /\ taps \in Nat /\ 1 .. taps \subseteq 1 .. MaxTaps
<1>1. \A t \in Tap : t.n \in 1 .. MaxTaps
  BY DEF Tap
<1>2. \A c \in calls : c \in Calls /\ c.tap \in Tap
  BY DEF PhoneType, Calls
<1>3. flush.list \in Seq(Tap) /\ flush.refused \in Seq(1 .. MaxTaps) /\ box \in Seq(Tap)
  BY DEF PhoneType, Flush
<1>4. \A s \in Seq(Tap) : /\ \A i \in DOMAIN s : s[i] \in Tap
                          /\ s # <<>> => 1 \in DOMAIN s /\ Head(s) = s[1]
  OBVIOUS
<1>5. taps \in Nat /\ 1 .. taps \subseteq 1 .. MaxTaps
  BY PhoneAssumption DEF PhoneType
<1>6. /\ \A i \in DOMAIN box : box[i] \in Tap /\ box[i].n \in 1 .. MaxTaps
      /\ \A i \in DOMAIN flush.list : flush.list[i] \in Tap /\ flush.list[i].n \in 1 .. MaxTaps
  BY <1>1, <1>3, <1>4
<1>7. flush.list # <<>> => /\ 1 \in DOMAIN flush.list /\ Head(flush.list) = flush.list[1]
                          /\ Head(flush.list) \in Tap /\ Head(flush.list).n \in 1 .. MaxTaps
  BY <1>3, <1>4, <1>6
<1> QED
  BY <1>1, <1>2, <1>3, <1>5, <1>6, <1>7

\* A step that only adds to what is known of taps, and keeps the list of a
\* flush and the stored list.
LEMMA OnlyFates ==
    ASSUME PhoneInv, UNCHANGED <<box, flush, taps>>,
           \A n \in 1 .. MaxTaps : fate[n] # {} => fate'[n] # {},
           \A c \in calls' \ calls : c.at = "done" => fate'[c.tap.n] # {}
    PROVE  DoneIsApplied' /\ ListIsBacked'
<1>1. PhoneType /\ OnePlace /\ DoneIsApplied /\ ListIsBacked
  BY DEF PhoneInv
<1>2. \A c \in calls' : c.at = "done" => fate'[c.tap.n] # {}
  BY <1>1, TapTypes DEF DoneIsApplied
<1>3. flush.at = "done" => fate'[Head(flush.list).n] # {}
  BY <1>1, TapTypes DEF DoneIsApplied, ListIsBacked
<1>4. \A i \in DOMAIN flush.list : fate'[flush.list[i].n] # {} \/ InBox(flush.list[i].n)
  BY <1>1, TapTypes DEF ListIsBacked
<1> QED
  BY <1>1, <1>2, <1>3, <1>4 DEF DoneIsApplied, ListIsBacked, InBox

\* What has become of a tap is not forgotten.
LEMMA FatesGrow ==
    ASSUME PhoneType, NEW ns \in SUBSET (1 .. MaxTaps), NEW what \in Fate
    PROVE  /\ Becomes(ns, what) \in [1 .. MaxTaps -> SUBSET Fate]
           /\ \A n \in 1 .. MaxTaps : /\ n \in ns => Becomes(ns, what)[n] # {}
                                      /\ fate[n] # {} => Becomes(ns, what)[n] # {}
  BY DEF PhoneType, Becomes

\* Taking out at most one place keeps the rest, in order.
LEMMA TakenOut ==
    ASSUME PhoneType, NEW out \in SUBSET (DOMAIN box), \A i, j \in out : i = j
    PROVE  \E f \in [DOMAIN Filtered(out) -> DOMAIN box \ out] :
              /\ Filtered(out) \in Seq(Tap)
              /\ \A k \in DOMAIN Filtered(out) : Filtered(out)[k] = box[f[k]]
              /\ \A k, l \in DOMAIN Filtered(out) : k # l => f[k] # f[l]
              /\ \A i \in DOMAIN box \ out : \E k \in DOMAIN Filtered(out) : f[k] = i
<1>1. CASE out = {}
  <2>1. Filtered(out) = box
    BY <1>1 DEF Filtered
  <2>2. [i \in DOMAIN box |-> i] \in [DOMAIN Filtered(out) -> DOMAIN box \ out]
    BY <1>1, <2>1
  <2> QED
    BY <1>1, <2>1, <2>2 DEF PhoneType
<1>2. CASE out # {}
  <2>1. PICK p \in DOMAIN box : out = {p} /\ Filtered(out) = RemoveAt(box, p)
    <3>1. PICK p : p = CHOOSE i \in out : TRUE
      OBVIOUS
    <3>2. p \in out
      BY <1>2, <3>1
    <3> QED
      BY <1>2, <3>1, <3>2 DEF Filtered
  <2>2. /\ Len(box) \in Nat /\ DOMAIN box = 1 .. Len(box) /\ box \in Seq(Tap)
        /\ p \in 1 .. Len(box)
    BY DEF PhoneType
  <2>3. PICK a : a = SubSeq(box, 1, p - 1)
    OBVIOUS
  <2>4. PICK b : b = SubSeq(box, p + 1, Len(box))
    OBVIOUS
  <2>5. /\ a \in Seq(Tap) /\ Len(a) = p - 1
        /\ \A i \in 1 .. p - 1 : a[i] = box[i]
    BY <2>2, <2>3, SubSeqProperties
  <2>6. /\ b \in Seq(Tap) /\ Len(b) = Len(box) - p
        /\ \A i \in 1 .. Len(box) - p : b[i] = box[p + i]
    BY <2>2, <2>4, SubSeqProperties
  <2>7. PICK s : s = Filtered(out)
    OBVIOUS
  <2>8. s = a \o b
    BY <2>1, <2>3, <2>4, <2>7 DEF RemoveAt
  <2>9. /\ s \in Seq(Tap) /\ Len(s) = Len(box) - 1
        /\ \A i \in 1 .. Len(s) : s[i] = IF i < p THEN box[i] ELSE box[i + 1]
    <3>1. s \in Seq(Tap) /\ Len(s) = Len(a) + Len(b)
      BY <2>5, <2>6, <2>8, ConcatProperties
    <3>2. \A i \in 1 .. Len(a) + Len(b) : s[i] = IF i <= Len(a) THEN a[i] ELSE b[i - Len(a)]
      BY <2>5, <2>6, <2>8, ConcatProperties
    <3>3. ASSUME NEW i \in 1 .. Len(s)
          PROVE  s[i] = IF i < p THEN box[i] ELSE box[i + 1]
      <4>1. CASE i < p
        BY <2>2, <2>5, <2>6, <3>1, <3>2, <3>3, <4>1
      <4>2. CASE ~ (i < p)
        <5>1. i - (p - 1) \in 1 .. Len(box) - p /\ p + (i - (p - 1)) = i + 1
          BY <2>2, <2>5, <2>6, <3>1, <3>3, <4>2
        <5>2. s[i] = b[i - (p - 1)]
          BY <2>2, <2>5, <2>6, <3>1, <3>2, <3>3, <4>2
        <5> QED
          BY <2>6, <4>2, <5>1, <5>2
      <4> QED
        BY <4>1, <4>2
    <3> QED
      BY <2>2, <2>5, <2>6, <3>1, <3>3
  <2>10. DOMAIN s = 1 .. Len(box) - 1
    BY <2>2, <2>9
  <2>11. PICK f : f = [k \in DOMAIN s |-> IF k < p THEN k ELSE k + 1]
    OBVIOUS
  <2>12. f \in [DOMAIN s -> DOMAIN box \ out]
    BY <2>1, <2>2, <2>10, <2>11
  <2>13. \A k \in DOMAIN s : s[k] = box[f[k]]
    BY <2>2, <2>9, <2>10, <2>11
  <2>14. \A k, l \in DOMAIN s : k # l => f[k] # f[l]
    BY <2>2, <2>10, <2>11
  <2>15. \A i \in DOMAIN box \ out : \E k \in DOMAIN s : f[k] = i
    <3>1. ASSUME NEW i \in DOMAIN box \ out
          PROVE  \E k \in DOMAIN s : f[k] = i
      <4>1. CASE i < p
        BY <2>2, <2>10, <2>11, <3>1, <4>1
      <4>2. CASE i > p
        <5>1. i - 1 \in DOMAIN s /\ ~ (i - 1 < p) /\ (i - 1) + 1 = i
          BY <2>2, <2>10, <4>2
        <5> QED
          BY <2>11, <5>1
      <4> QED
        BY <2>1, <2>2, <4>1, <4>2
    <3> QED
      BY <3>1
  <2> QED
    BY <2>7, <2>9, <2>12, <2>13, <2>14, <2>15
<1> QED
  BY <1>1, <1>2

\* A filter of the stored list: what stays differs, what goes was left out.
LEMMA FilteredFacts ==
    ASSUME PhoneType, OnePlace, NEW out \in SUBSET (DOMAIN box), \A i, j \in out : i = j,
           NEW s, s = Filtered(out)
    PROVE  /\ s \in Seq(Tap) /\ AllDiffer(s)
           /\ \A k \in DOMAIN s : \E i \in DOMAIN box \ out : s[k] = box[i]
           /\ \A i \in DOMAIN box \ out : \E k \in DOMAIN s : s[k] = box[i]
           /\ \A k, l \in DOMAIN s : k # l => ~ (s[k].kind = "star" /\ s[l].kind = "star")
<1>1. PICK f \in [DOMAIN s -> DOMAIN box \ out] :
          /\ s \in Seq(Tap)
          /\ \A k \in DOMAIN s : s[k] = box[f[k]]
          /\ \A k, l \in DOMAIN s : k # l => f[k] # f[l]
          /\ \A i \in DOMAIN box \ out : \E k \in DOMAIN s : f[k] = i
  BY TakenOut
<1> QED
  BY <1>1 DEF OnePlace, AllDiffer

LEMMA MakeTapIsSound ==
    ASSUME PhoneInv, NEW kind \in {"star", "step"}, NEW value \in BOOLEAN \cup Nat, MakeTap(kind, value)
    PROVE  PhoneInv'
<1>1. PICK t \in Tap : t.n = taps + 1 /\ calls' = calls \cup {[tap |-> t, at |-> "out"]}
  <2>1. [n |-> taps + 1, kind |-> kind, value |-> value] \in Tap
    BY PhoneAssumption DEF MakeTap, PhoneInv, PhoneType, Tap
  <2> QED
    BY <2>1 DEF MakeTap
<1>2. taps' = taps + 1 /\ taps' \in 0 .. MaxTaps /\ UNCHANGED <<box, flush, notices, fate>>
  BY PhoneAssumption DEF MakeTap, PhoneInv, PhoneType
<1>3. PhoneType'
  BY <1>1, <1>2 DEF PhoneInv, PhoneType, Calls
<1>4. ~ InBox(t.n)
  BY <1>1 DEF InBox, PhoneInv, PhoneType, OnePlace, Tap
<1>5. \A c \in calls : c.tap.n # t.n /\ c.tap.n \in Nat
  BY <1>1 DEF PhoneInv, PhoneType, OnePlace, Calls, Tap
<1>6. OnePlace'
  <2>1. PICK e : e = [tap |-> t, at |-> "out"]
    OBVIOUS
  <2>2. e.tap = t /\ calls' = calls \cup {e}
    BY <1>1, <2>1
  <2>3. \A c, d \in calls' : c.tap.n = d.tap.n => c = d
    BY <1>5, <2>2 DEF PhoneInv, OnePlace
  <2>4. \A c \in calls' : ~ InBox(c.tap.n)' /\ c.tap.n <= taps'
    <3>1. taps \in Nat
      BY TapTypes DEF PhoneInv
    <3>2. \A n : InBox(n)' <=> InBox(n)
      BY <1>2 DEF InBox
    <3> QED
      BY <1>1, <1>2, <1>4, <1>5, <2>2, <3>1, <3>2 DEF PhoneInv, OnePlace
  <2>5. \A i \in DOMAIN box' : box'[i].n <= taps'
    BY <1>2, TapTypes DEF PhoneInv, OnePlace
  <2> QED
    BY <1>2, <2>3, <2>4, <2>5 DEF PhoneInv, OnePlace
<1>7. DoneIsApplied' /\ ListIsBacked'
  BY <1>1, <1>2 DEF PhoneInv, DoneIsApplied, ListIsBacked, InBox
<1>8. NoTapVanishes'
  <2>1. SUFFICES ASSUME NEW n \in 1 .. taps'
                 PROVE  fate[n] # {} \/ OnItsWay(n)'
    BY <1>2 DEF NoTapVanishes
  <2>2. CASE n = taps + 1
    <3>1. [tap |-> t, at |-> "out"] \in calls' /\ [tap |-> t, at |-> "out"].tap.n = n
      BY <1>1, <2>2
    <3> QED
      BY <3>1 DEF OnItsWay
  <2>3. CASE n \in 1 .. taps
    BY <1>1, <1>2, <2>3 DEF PhoneInv, NoTapVanishes, OnItsWay
  <2> QED
    BY <1>2, <2>1, <2>2, <2>3 DEF PhoneInv, PhoneType
<1> QED
  BY <1>3, <1>6, <1>7, <1>8 DEF PhoneInv

LEMMA ServerTakesIsSound ==
    ASSUME PhoneInv, NEW c \in calls, ServerTakes(c)
    PROVE  PhoneInv'
<1>1. c \in Calls /\ c.tap.n \in 1 .. MaxTaps
  BY DEF PhoneInv, PhoneType, Calls, Tap
<1>2. PICK d \in Calls :
          /\ d.tap = c.tap /\ calls' = (calls \ {c}) \cup {d}
          /\ d.at = "done" => Accepts(c.tap)
  <2>1. [c EXCEPT !.at = IF Accepts(c.tap) THEN "done" ELSE "refused"] \in Calls
    BY <1>1 DEF Calls
  <2> QED
    BY <1>1, <2>1 DEF ServerTakes, Calls
<1>3. UNCHANGED <<box, flush, notices, taps>>
  BY DEF ServerTakes
<1>4. /\ fate' \in [1 .. MaxTaps -> SUBSET Fate]
      /\ \A n \in 1 .. MaxTaps : fate[n] # {} => fate'[n] # {}
      /\ Accepts(c.tap) => fate'[c.tap.n] # {}
  <2>1. CASE Accepts(c.tap)
    BY <1>1, <2>1, FatesGrow DEF ServerTakes, Fate, PhoneInv
  <2>2. CASE ~ Accepts(c.tap)
    BY <1>1, <2>2 DEF ServerTakes, PhoneInv, PhoneType
  <2> QED
    BY <2>1, <2>2
<1>5. PhoneType'
  BY <1>2, <1>3, <1>4 DEF PhoneInv, PhoneType
<1>6. OnePlace'
  BY <1>2, <1>3 DEF PhoneInv, OnePlace, InBox
<1>7. \A e \in calls' \ calls : e.at = "done" => fate'[e.tap.n] # {}
  BY <1>2, <1>4
<1>8. DoneIsApplied' /\ ListIsBacked'
  BY <1>3, <1>4, <1>7, OnlyFates
<1>9. NoTapVanishes'
  BY <1>1, <1>2, <1>3, <1>4, TapTypes DEF PhoneInv, NoTapVanishes, OnItsWay
<1> QED
  BY <1>5, <1>6, <1>8, <1>9 DEF PhoneInv

LEMMA AnsweredIsSound ==
    ASSUME PhoneInv, NEW c \in calls, Answered(c)
    PROVE  PhoneInv'
<1>1. c \in Calls /\ c.tap.n \in 1 .. MaxTaps
  BY DEF PhoneInv, PhoneType, Calls, Tap
<1>2. calls' = calls \ {c} /\ UNCHANGED <<box, flush, notices, taps>>
  BY DEF Answered
<1>3. /\ fate' \in [1 .. MaxTaps -> SUBSET Fate]
      /\ \A n \in 1 .. MaxTaps : fate[n] # {} => fate'[n] # {}
      /\ fate'[c.tap.n] # {}
  <2>1. CASE c.at = "refused"
    BY <1>1, <2>1, FatesGrow DEF Answered, Fate, PhoneInv
  <2>2. CASE c.at = "done"
    BY <1>1, <2>2 DEF Answered, PhoneInv, PhoneType, DoneIsApplied
  <2> QED
    BY <2>1, <2>2 DEF Answered
<1>4. PhoneType' /\ OnePlace'
  BY <1>2, <1>3 DEF PhoneInv, PhoneType, OnePlace, InBox
<1>5. DoneIsApplied' /\ ListIsBacked'
  BY <1>2, <1>3, OnlyFates
<1>6. NoTapVanishes'
  BY <1>1, <1>2, <1>3, TapTypes DEF PhoneInv, NoTapVanishes, OnItsWay
<1> QED
  BY <1>4, <1>5, <1>6 DEF PhoneInv

\* A tap without an answer joins the stored list.
LEMMA UnansweredIsSound ==
    ASSUME PhoneInv, NEW c \in calls, Unanswered(c)
    PROVE  PhoneInv'
<1>1. c \in Calls /\ c.tap \in Tap /\ c.tap.n \in 1 .. MaxTaps /\ c.tap.n <= taps /\ ~ InBox(c.tap.n)
  BY DEF PhoneInv, PhoneType, OnePlace, Calls, Tap
<1>2. PICK t \in Tap : t = c.tap
  BY <1>1
<1>3. PICK out \in SUBSET (DOMAIN box) : out = Replaced(t)
  BY DEF Replaced
<1>4. \A i, j \in out : i = j
  BY <1>3 DEF Replaced, PhoneInv, OnePlace
<1>5. PICK s : s = Filtered(out)
  OBVIOUS
<1>6. /\ s \in Seq(Tap) /\ AllDiffer(s)
      /\ \A k \in DOMAIN s : \E i \in DOMAIN box \ out : s[k] = box[i]
      /\ \A i \in DOMAIN box \ out : \E k \in DOMAIN s : s[k] = box[i]
      /\ \A k, l \in DOMAIN s : k # l => ~ (s[k].kind = "star" /\ s[l].kind = "star")
  BY <1>4, <1>5, FilteredFacts DEF PhoneInv
<1>7. /\ calls' = calls \ {c} /\ box' = Append(s, t)
      /\ fate' = Becomes({box[i].n : i \in out}, "replaced")
      /\ UNCHANGED <<flush, notices, taps>>
  BY <1>2, <1>3, <1>5 DEF Unanswered
<1>8. {box[i].n : i \in out} \subseteq 1 .. MaxTaps
  BY TapTypes DEF PhoneInv
<1>9. /\ fate' \in [1 .. MaxTaps -> SUBSET Fate]
      /\ \A n \in 1 .. MaxTaps : fate[n] # {} => fate'[n] # {}
      /\ \A i \in out : fate'[box[i].n] # {}
  BY <1>7, <1>8, FatesGrow DEF Fate, PhoneInv
<1>10. /\ box' \in Seq(Tap) /\ DOMAIN box' = 1 .. Len(s) + 1 /\ DOMAIN s = 1 .. Len(s)
       /\ Len(s) \in Nat
       /\ \A k \in DOMAIN s : box'[k] = s[k]
       /\ box'[Len(s) + 1] = t
  BY <1>6, <1>7, AppendProperties
<1>11. \A k \in DOMAIN box' : k = Len(s) + 1 \/ k \in DOMAIN s
  BY <1>10
<1>12. \A k \in DOMAIN s : s[k].n # t.n /\ ~ (s[k].kind = "star" /\ t.kind = "star") /\ s[k].n <= taps
  <2>1. ASSUME NEW k \in DOMAIN s
        PROVE  s[k].n # t.n /\ ~ (s[k].kind = "star" /\ t.kind = "star") /\ s[k].n <= taps
    <3>1. PICK i \in DOMAIN box \ out : s[k] = box[i]
      BY <1>6
    <3> QED
      BY <1>1, <1>2, <1>3, <3>1 DEF InBox, Replaced, PhoneInv, OnePlace
  <2> QED
    BY <2>1
<1>13. AllDiffer(box')
  BY <1>6, <1>10, <1>11, <1>12 DEF AllDiffer
<1>14. \A i, j \in DOMAIN box' : i # j => ~ (box'[i].kind = "star" /\ box'[j].kind = "star")
  BY <1>6, <1>10, <1>11, <1>12
<1>15. \A n \in 1 .. MaxTaps : InBox(n)' => InBox(n) \/ n = t.n
  BY <1>6, <1>10, <1>11 DEF InBox
<1>16. \A n \in 1 .. MaxTaps : InBox(n) => InBox(n)' \/ fate'[n] # {}
  <2>1. ASSUME NEW i \in DOMAIN box, i \notin out
        PROVE  \E k \in DOMAIN box' : box'[k] = box[i]
    <3>1. PICK k \in DOMAIN s : s[k] = box[i]
      BY <1>6, <2>1
    <3> QED
      BY <1>10, <3>1
  <2> QED
    BY <1>9, <2>1 DEF InBox
<1>17. InBox(t.n)'
  BY <1>10 DEF InBox
<1>18. PhoneType'
  BY <1>7, <1>9, <1>10 DEF PhoneInv, PhoneType
<1>19. OnePlace'
  <2>1. \A d \in calls' : ~ InBox(d.tap.n)'
    BY <1>2, <1>7, <1>15 DEF PhoneInv, PhoneType, OnePlace, Calls, Tap
  <2>2. \A i \in DOMAIN box' : box'[i].n <= taps'
    BY <1>1, <1>2, <1>7, <1>10, <1>11, <1>12
  <2> QED
    BY <1>7, <1>13, <1>14, <2>1, <2>2 DEF PhoneInv, OnePlace
<1>20. DoneIsApplied'
  BY <1>7, <1>9, TapTypes DEF PhoneInv, DoneIsApplied, ListIsBacked
<1>21. ListIsBacked'
  <2>1. \A i \in DOMAIN flush.list : fate'[flush.list[i].n] # {} \/ InBox(flush.list[i].n)'
    BY <1>7, <1>9, <1>16, TapTypes DEF PhoneInv, ListIsBacked
  <2> QED
    BY <1>7, <2>1 DEF PhoneInv, ListIsBacked
<1>22. NoTapVanishes'
  <2>1. SUFFICES ASSUME NEW n \in 1 .. taps
                 PROVE  fate'[n] # {} \/ OnItsWay(n)'
    BY <1>7 DEF NoTapVanishes
  <2>2. n \in 1 .. MaxTaps
    BY <2>1, TapTypes DEF PhoneInv
  <2>3. InBox(n)' => OnItsWay(n)'
    BY DEF InBox, OnItsWay
  <2>4. CASE InBox(n) \/ fate[n] # {} \/ n = t.n
    BY <1>9, <1>16, <1>17, <2>2, <2>3, <2>4
  <2>5. CASE ~ InBox(n) /\ fate[n] = {} /\ n # t.n
    BY <1>2, <1>7, <2>5 DEF PhoneInv, NoTapVanishes, OnItsWay, InBox
  <2> QED
    BY <2>4, <2>5
<1> QED
  BY <1>18, <1>19, <1>20, <1>21, <1>22 DEF PhoneInv

\* A tap that cannot be stored is the only one whose fate this settles.
LEMMA NotStoredIsSound ==
    ASSUME PhoneInv, NEW c \in calls, NotStored(c)
    PROVE  PhoneInv'
<1>1. c \in Calls /\ c.tap.n \in 1 .. MaxTaps
  BY DEF PhoneInv, PhoneType, Calls, Tap
<1>2. calls' = calls \ {c} /\ UNCHANGED <<box, flush, notices, taps>>
  BY DEF NotStored
<1>3. /\ fate' \in [1 .. MaxTaps -> SUBSET Fate]
      /\ \A n \in 1 .. MaxTaps : fate[n] # {} => fate'[n] # {}
      /\ fate'[c.tap.n] # {}
  BY <1>1, FatesGrow DEF NotStored, Fate, PhoneInv
<1>4. PhoneType' /\ OnePlace'
  BY <1>2, <1>3 DEF PhoneInv, PhoneType, OnePlace, InBox
<1>5. DoneIsApplied' /\ ListIsBacked'
  BY <1>2, <1>3, OnlyFates
<1>6. NoTapVanishes'
  BY <1>1, <1>2, <1>3, TapTypes DEF PhoneInv, NoTapVanishes, OnItsWay
<1> QED
  BY <1>4, <1>5, <1>6 DEF PhoneInv

LEMMA FlushStartsIsSound ==
    ASSUME PhoneInv, FlushStarts
    PROVE  PhoneInv'
<1>1. /\ flush' = [at |-> "next", list |-> box, refused |-> <<>>] /\ flush.at = "idle"
      /\ UNCHANGED <<box, calls, notices, fate, taps>>
  BY DEF FlushStarts, Asleep
<1>2. PhoneType'
  BY <1>1 DEF PhoneInv, PhoneType, Flush
<1>3. ListIsBacked'
  BY <1>1 DEF PhoneInv, OnePlace, ListIsBacked, InBox
<1>4. NoTapVanishes'
  <2>1. flush.refused = <<>>
    BY <1>1 DEF PhoneInv, ListIsBacked
  <2> QED
    BY <1>1, <2>1 DEF PhoneInv, NoTapVanishes, OnItsWay
<1> QED
  BY <1>1, <1>2, <1>3, <1>4 DEF PhoneInv, OnePlace, InBox, DoneIsApplied

LEMMA FlushSendsIsSound ==
    ASSUME PhoneInv, FlushSends
    PROVE  PhoneInv'
<1>1. PICK t : t = Head(flush.list)
  OBVIOUS
<1>2. t \in Tap /\ t.n \in 1 .. MaxTaps
  BY <1>1, TapTypes DEF FlushSends, PhoneInv
<1>3. /\ flush.at = "next" /\ flush.list # <<>>
      /\ UNCHANGED <<box, calls, notices, taps>>
      /\ flush' = [flush EXCEPT !.at = IF Accepts(t) THEN "done" ELSE "refused"]
  BY <1>1 DEF FlushSends
<1>4. /\ flush' \in Flush /\ flush'.list = flush.list /\ flush'.refused = flush.refused
      /\ flush'.at = "done" => Accepts(t)
  BY <1>3 DEF PhoneInv, PhoneType, Flush
<1>5. /\ fate' \in [1 .. MaxTaps -> SUBSET Fate]
      /\ \A n \in 1 .. MaxTaps : fate[n] # {} => fate'[n] # {}
      /\ Accepts(t) => fate'[t.n] # {}
  <2>1. CASE Accepts(t)
    BY <1>1, <1>2, <2>1, FatesGrow DEF FlushSends, Fate, PhoneInv
  <2>2. CASE ~ Accepts(t)
    BY <1>1, <2>2 DEF FlushSends, PhoneInv, PhoneType
  <2> QED
    BY <2>1, <2>2
<1>6. PhoneType' /\ OnePlace'
  BY <1>3, <1>4, <1>5 DEF PhoneInv, PhoneType, OnePlace, InBox
<1>7. DoneIsApplied'
  BY <1>1, <1>3, <1>4, <1>5, TapTypes DEF PhoneInv, DoneIsApplied
<1>8. ListIsBacked'
  <2>1. \A i \in DOMAIN flush.list : fate'[flush.list[i].n] # {} \/ InBox(flush.list[i].n)
    BY <1>5, TapTypes DEF PhoneInv, ListIsBacked
  <2>2. flush'.at # "idle"
    BY <1>3 DEF PhoneInv, PhoneType, Flush
  <2> QED
    BY <1>3, <1>4, <2>1, <2>2 DEF PhoneInv, ListIsBacked, InBox
<1>9. NoTapVanishes'
  BY <1>3, <1>4, <1>5, TapTypes DEF PhoneInv, NoTapVanishes, OnItsWay
<1> QED
  BY <1>6, <1>7, <1>8, <1>9 DEF PhoneInv

LEMMA ListFacts ==
    ASSUME NEW S, NEW s \in Seq(S)
    PROVE  /\ Len(s) \in Nat /\ DOMAIN s = 1 .. Len(s)
           /\ \A i \in DOMAIN s : s[i] \in S
  OBVIOUS

\* The taps a list of refusals is about.
LEMMA AppendedTo ==
    ASSUME NEW s \in Seq(1 .. MaxTaps), NEW n \in 1 .. MaxTaps
    PROVE  /\ Append(s, n) \in Seq(1 .. MaxTaps)
           /\ ToSet(s) \subseteq ToSet(Append(s, n)) /\ n \in ToSet(Append(s, n))
<1>1. /\ Append(s, n) \in Seq(1 .. MaxTaps)
      /\ DOMAIN Append(s, n) = 1 .. Len(s) + 1 /\ DOMAIN s = 1 .. Len(s) /\ Len(s) \in Nat
      /\ \A k \in DOMAIN s : Append(s, n)[k] = s[k]
      /\ Append(s, n)[Len(s) + 1] = n
  BY AppendProperties
<1>2. \A k \in DOMAIN s : k \in DOMAIN Append(s, n)
  BY <1>1
<1>3. Len(s) + 1 \in DOMAIN Append(s, n)
  BY <1>1
<1> QED
  BY <1>1, <1>2, <1>3 DEF ToSet

\* A refusal that is not kept is dropped.
LEMMA KeptOrDropped ==
    ASSUME NEW s \in Seq(1 .. MaxTaps)
    PROVE  /\ StillShown(s) \in Seq(1 .. MaxTaps)
           /\ PushedOff(s) \subseteq 1 .. MaxTaps
           /\ ToSet(s) \subseteq ToSet(StillShown(s)) \cup PushedOff(s)
<1>1. Len(s) \in Nat /\ DOMAIN s = 1 .. Len(s) /\ MaxNotices \in Nat \ {0}
  BY PhoneAssumption
<1>2. PushedOff(s) \subseteq 1 .. MaxTaps
  <2>1. \A i \in 1 .. Len(s) - MaxNotices : i \in DOMAIN s
    BY <1>1
  <2>2. \A i \in 1 .. Len(s) - MaxNotices : s[i] \in 1 .. MaxTaps
    BY <2>1, ListFacts
  <2> QED
    BY <2>2 DEF PushedOff
<1>3. CASE Len(s) <= MaxNotices
  BY <1>2, <1>3 DEF StillShown
<1>4. CASE ~ (Len(s) <= MaxNotices)
  <2>1. PICK d : d = Len(s) - MaxNotices
    OBVIOUS
  <2>2. d \in 1 .. Len(s) /\ Len(s) - d = MaxNotices
    BY <1>1, <1>4, <2>1
  <2>3. /\ StillShown(s) \in Seq(1 .. MaxTaps) /\ Len(StillShown(s)) = Len(s) - d
        /\ \A i \in 1 .. Len(s) - d : StillShown(s)[i] = s[d + i]
    <3>1. PICK k : k = SubSeq(s, d + 1, Len(s))
      OBVIOUS
    <3>2. /\ k \in Seq(1 .. MaxTaps) /\ Len(k) = Len(s) - d
          /\ \A i \in 1 .. Len(s) - d : k[i] = s[d + i]
      <4>1. \A i \in d + 1 .. Len(s) : s[i] \in 1 .. MaxTaps
        <5>1. \A i \in d + 1 .. Len(s) : i \in DOMAIN s
          BY <1>1, <2>2
        <5> QED
          BY <5>1, ListFacts
      <4>2. /\ k \in Seq(1 .. MaxTaps)
            /\ Len(k) = IF d + 1 <= Len(s) THEN Len(s) - (d + 1) + 1 ELSE 0
            /\ \A i \in 1 .. Len(s) - (d + 1) + 1 : k[i] = s[(d + 1) + i - 1]
        BY <1>1, <2>2, <3>1, <4>1, SubSeqProperties
      <4>3. /\ Len(s) - (d + 1) + 1 = Len(s) - d
            /\ Len(k) = Len(s) - d
            /\ \A i \in 1 .. Len(s) - d : (d + 1) + i - 1 = d + i
        BY <1>1, <2>2, <4>2
      <4> QED
        BY <4>2, <4>3
    <3> QED
      BY <1>4, <2>1, <3>1, <3>2 DEF StillShown
  <2>4. DOMAIN StillShown(s) = 1 .. Len(s) - d
    BY <1>1, <2>2, <2>3
  <2>5. ASSUME NEW i \in DOMAIN s
        PROVE  s[i] \in ToSet(StillShown(s)) \cup PushedOff(s)
    <3>1. CASE i <= d
      <4>1. i \in 1 .. Len(s) - MaxNotices
        BY <1>1, <2>1, <2>5, <3>1
      <4> QED
        BY <4>1 DEF PushedOff
    <3>2. CASE ~ (i <= d)
      <4>1. i - d \in DOMAIN StillShown(s) /\ d + (i - d) = i
        BY <1>1, <2>2, <2>4, <2>5, <3>2
      <4>2. StillShown(s)[i - d] = s[i]
        BY <2>3, <2>4, <4>1
      <4> QED
        BY <4>1, <4>2 DEF ToSet
    <3> QED
      BY <3>1, <3>2
  <2> QED
    BY <1>2, <2>3, <2>5 DEF ToSet
<1> QED
  BY <1>3, <1>4

LEMMA JoinedTo ==
    ASSUME NEW s \in Seq(1 .. MaxTaps), NEW u \in Seq(1 .. MaxTaps)
    PROVE  /\ s \o u \in Seq(1 .. MaxTaps)
           /\ ToSet(s \o u) = ToSet(s) \cup ToSet(u)
           /\ ToSet(s) \cup ToSet(u) \subseteq 1 .. MaxTaps
<1>1. PICK c : c = s \o u
  OBVIOUS
<1>2. /\ c \in Seq(1 .. MaxTaps) /\ Len(c) = Len(s) + Len(u)
      /\ \A i \in 1 .. Len(s) + Len(u) : c[i] = IF i <= Len(s) THEN s[i] ELSE u[i - Len(s)]
  BY <1>1, ConcatProperties
<1>3. /\ DOMAIN c = 1 .. Len(s) + Len(u) /\ DOMAIN s = 1 .. Len(s) /\ DOMAIN u = 1 .. Len(u)
      /\ Len(s) \in Nat /\ Len(u) \in Nat
  BY <1>2
<1>4. \A i \in DOMAIN c : c[i] \in ToSet(s) \cup ToSet(u)
  <2>1. ASSUME NEW i \in DOMAIN c PROVE c[i] \in ToSet(s) \cup ToSet(u)
    <3>1. CASE i <= Len(s)
      <4>1. i \in DOMAIN s /\ c[i] = s[i]
        BY <1>2, <1>3, <2>1, <3>1
      <4> QED
        BY <4>1 DEF ToSet
    <3>2. CASE ~ (i <= Len(s))
      <4>1. i - Len(s) \in DOMAIN u /\ c[i] = u[i - Len(s)]
        BY <1>2, <1>3, <2>1, <3>2
      <4> QED
        BY <4>1 DEF ToSet
    <3> QED
      BY <3>1, <3>2
  <2> QED
    BY <2>1
<1>5. \A i \in DOMAIN s : s[i] \in ToSet(c)
  <2>1. \A i \in DOMAIN s : i \in DOMAIN c /\ c[i] = s[i]
    BY <1>2, <1>3
  <2> QED
    BY <2>1 DEF ToSet
<1>6. \A i \in DOMAIN u : u[i] \in ToSet(c)
  <2>1. ASSUME NEW i \in DOMAIN u PROVE u[i] \in ToSet(c)
    <3>1. Len(s) + i \in DOMAIN c /\ ~ (Len(s) + i <= Len(s)) /\ (Len(s) + i) - Len(s) = i
      BY <1>3, <2>1
    <3>2. c[Len(s) + i] = u[i]
      BY <1>2, <1>3, <3>1
    <3> QED
      BY <3>1, <3>2 DEF ToSet
  <2> QED
    BY <2>1
<1>7. ToSet(s) \subseteq 1 .. MaxTaps /\ ToSet(u) \subseteq 1 .. MaxTaps
  <2>1. /\ \A i \in DOMAIN s : s[i] \in 1 .. MaxTaps
        /\ \A i \in DOMAIN u : u[i] \in 1 .. MaxTaps
    BY ListFacts
  <2> QED
    BY <2>1 DEF ToSet
<1>8. ToSet(c) \subseteq ToSet(s) \cup ToSet(u)
  BY <1>4 DEF ToSet
<1>9. ToSet(s) \subseteq ToSet(c) /\ ToSet(u) \subseteq ToSet(c)
  BY <1>5, <1>6 DEF ToSet
<1>10. c \in Seq(1 .. MaxTaps)
  BY <1>2
<1> QED
  BY <1>1, <1>7, <1>8, <1>9, <1>10

\* What was sent leaves the stored list, and only that, or nothing does.
LEMMA FlushNextIsSound ==
    ASSUME PhoneInv, FlushNext
    PROVE  PhoneInv'
<1>1. PICK t : t = Head(flush.list)
  OBVIOUS
<1>2. flush.at \in {"done", "refused"} /\ flush.list # <<>> /\ flush.list \in Seq(Tap)
  BY DEF FlushNext, PhoneInv, PhoneType, ListIsBacked, Flush
<1>3. t \in Tap /\ t.n \in 1 .. MaxTaps
  BY <1>1, <1>2, TapTypes DEF PhoneInv
<1>4. PICK out \in SUBSET (DOMAIN box) : out = {i \in DOMAIN box : box[i].n = t.n}
  OBVIOUS
<1>5. \A i, j \in out : i = j
  BY <1>4 DEF PhoneInv, OnePlace, AllDiffer
<1>6. PICK s : s = Filtered(out)
  OBVIOUS
<1>7. /\ s \in Seq(Tap) /\ AllDiffer(s)
      /\ \A k \in DOMAIN s : \E i \in DOMAIN box \ out : s[k] = box[i]
      /\ \A i \in DOMAIN box \ out : \E k \in DOMAIN s : s[k] = box[i]
      /\ \A k, l \in DOMAIN s : k # l => ~ (s[k].kind = "star" /\ s[l].kind = "star")
  BY <1>5, <1>6, FilteredFacts DEF PhoneInv
<1>8. /\ box' \in {s, box} /\ UNCHANGED <<calls, notices, fate, taps>>
      /\ flush'.at = "next" /\ flush'.list = Tail(flush.list)
      /\ flush'.refused = IF flush.at = "refused" THEN Append(flush.refused, t.n) ELSE flush.refused
  BY <1>1, <1>4, <1>6 DEF FlushNext, BoxWithout
<1>9. /\ Tail(flush.list) \in Seq(Tap)
      /\ Len(flush.list) \in Nat \ {0} /\ DOMAIN flush.list = 1 .. Len(flush.list)
      /\ flush.list[1] = t
      /\ DOMAIN Tail(flush.list) = 1 .. Len(flush.list) - 1
      /\ \A i \in 1 .. Len(flush.list) - 1 : Tail(flush.list)[i] = flush.list[i + 1]
  BY <1>1, <1>2, HeadTailProperties
<1>10. flush' \in Flush
  <2>1. flush'.refused \in Seq(1 .. MaxTaps)
    BY <1>3, <1>8, TapTypes, AppendedTo DEF PhoneInv
  <2> QED
    BY <1>8, <1>9, <2>1 DEF FlushNext, Flush
<1>11. PhoneType'
  BY <1>7, <1>8, <1>10 DEF PhoneInv, PhoneType
<1>12. \A n \in 1 .. MaxTaps : /\ InBox(n)' => InBox(n)
                              /\ InBox(n) /\ n # t.n => InBox(n)'
  <2>1. CASE box' = s
    BY <1>4, <1>7, <2>1 DEF InBox
  <2>2. CASE box' = box
    BY <2>2 DEF InBox
  <2> QED
    BY <1>8, <2>1, <2>2
<1>13. OnePlace'
  <2>1. \A c \in calls' : ~ InBox(c.tap.n)' /\ c.tap.n <= taps'
    <3>1. \A c \in calls : c.tap.n \in 1 .. MaxTaps /\ ~ InBox(c.tap.n) /\ c.tap.n <= taps
      BY TapTypes DEF PhoneInv, OnePlace
    <3>2. ASSUME NEW n \in 1 .. MaxTaps, ~ InBox(n)
          PROVE  \A i \in DOMAIN box' : box'[i].n # n
      <4>1. \A k \in DOMAIN box' : \E i \in DOMAIN box : box'[k] = box[i]
        BY <1>7, <1>8
      <4> QED
        BY <3>2, <4>1 DEF InBox
    <3>3. \A c \in calls : \A i \in DOMAIN box' : box'[i].n # c.tap.n
      BY <3>1, <3>2
    <3>4. \A c \in calls' : ~ InBox(c.tap.n)'
      BY <1>8, <3>3 DEF InBox
    <3> QED
      BY <1>8, <3>1, <3>4
  <2>2. \A i \in DOMAIN box' : box'[i].n <= taps'
    BY <1>7, <1>8 DEF PhoneInv, OnePlace
  <2>3. /\ AllDiffer(box')
        /\ \A i, j \in DOMAIN box' : i # j => ~ (box'[i].kind = "star" /\ box'[j].kind = "star")
    BY <1>7, <1>8 DEF PhoneInv, OnePlace
  <2> QED
    BY <1>8, <2>1, <2>2, <2>3 DEF PhoneInv, OnePlace
<1>14. DoneIsApplied'
  BY <1>8 DEF PhoneInv, DoneIsApplied
<1>15. \A i \in DOMAIN flush'.list : /\ i + 1 \in DOMAIN flush.list /\ i + 1 # 1
                                     /\ flush'.list[i] = flush.list[i + 1]
                                     /\ flush'.list[i].n \in 1 .. MaxTaps
  BY <1>2, <1>8, <1>9, TapTypes DEF PhoneInv
<1>16. \A i \in DOMAIN flush'.list : flush'.list[i].n # t.n
  BY <1>9, <1>15 DEF PhoneInv, ListIsBacked, AllDiffer
<1>17. AllDiffer(flush'.list)
  <2>1. \A i, j \in DOMAIN flush'.list : i # j => i + 1 # j + 1
    BY <1>8, <1>9
  <2> QED
    BY <1>15, <2>1 DEF PhoneInv, ListIsBacked, AllDiffer
<1>18. ListIsBacked'
  BY <1>8, <1>12, <1>15, <1>16, <1>17 DEF PhoneInv, ListIsBacked
<1>19. NoTapVanishes'
  <2>1. SUFFICES ASSUME NEW n \in 1 .. taps
                 PROVE  fate[n] # {} \/ OnItsWay(n)'
    BY <1>8 DEF NoTapVanishes
  <2>2. n \in 1 .. MaxTaps
    BY <2>1, TapTypes DEF PhoneInv
  <2>3. InBox(n)' => OnItsWay(n)'
    BY DEF InBox, OnItsWay
  <2>4. CASE n = t.n /\ flush.at = "done"
    BY <1>1, <2>4 DEF PhoneInv, DoneIsApplied
  <2>5. CASE n = t.n /\ flush.at = "refused"
    BY <1>3, <1>8, <2>5, TapTypes, AppendedTo DEF OnItsWay, PhoneInv
  <2>6. CASE n # t.n
    <3>1. n \in ToSet(flush.refused) => n \in ToSet(flush'.refused)
      BY <1>3, <1>8, TapTypes, AppendedTo DEF PhoneInv
    <3>2. CASE InBox(n)
      BY <1>12, <2>2, <2>3, <2>6, <3>2
    <3>3. CASE ~ InBox(n)
      BY <1>1, <1>8, <2>6, <3>1, <3>3 DEF PhoneInv, NoTapVanishes, OnItsWay, InBox
    <3> QED
      BY <3>2, <3>3
  <2> QED
    BY <1>2, <2>4, <2>5, <2>6
<1> QED
  BY <1>11, <1>13, <1>14, <1>18, <1>19 DEF PhoneInv

\* A flush ends: of what was refused and of the notices, some are on the screen
\* and the fate of the others is known; the rest is still in the stored list or
\* its fate is known.
LEMMA FlushStopsSound ==
    ASSUME PhoneInv, flush' = Asleep, UNCHANGED <<box, taps>>, calls' \subseteq calls,
           fate' \in [1 .. MaxTaps -> SUBSET Fate], notices' \in Seq(1 .. MaxTaps),
           \A n \in 1 .. MaxTaps : fate[n] # {} => fate'[n] # {},
           \A n \in ToSet(flush.refused) \cup ToSet(notices) : fate'[n] # {} \/ n \in ToSet(notices'),
           \A c \in calls \ calls' : fate'[c.tap.n] # {}
    PROVE  PhoneInv'
<1>1. PhoneType'
  BY AsleepType DEF PhoneInv, PhoneType
<1>2. OnePlace'
  BY DEF PhoneInv, OnePlace, InBox
<1>3. DoneIsApplied'
  <2>1. \A e \in calls : e.tap.n \in 1 .. MaxTaps
    BY DEF PhoneInv, PhoneType, Calls, Tap
  <2> QED
    BY <2>1, AsleepType DEF PhoneInv, DoneIsApplied
<1>4. ListIsBacked'
  BY AsleepType DEF ListIsBacked, AllDiffer
<1>5. NoTapVanishes'
  <2>1. SUFFICES ASSUME NEW n \in 1 .. taps
                 PROVE  fate'[n] # {} \/ OnItsWay(n)'
    BY DEF NoTapVanishes
  <2>2. n \in 1 .. MaxTaps
    BY <2>1, TapTypes DEF PhoneInv
  <2>3. CASE flush.at = "refused" /\ Head(flush.list).n = n
    <3>1. 1 \in DOMAIN flush.list /\ Head(flush.list) = flush.list[1]
      BY <2>3 DEF PhoneInv, PhoneType, Flush, ListIsBacked
    <3>2. fate[n] # {} \/ InBox(n)
      BY <2>3, <3>1 DEF PhoneInv, ListIsBacked
    <3> QED
      BY <2>2, <3>2 DEF InBox, OnItsWay
  <2>4. CASE ~ (flush.at = "refused" /\ Head(flush.list).n = n)
    BY <2>2, <2>4 DEF PhoneInv, NoTapVanishes, OnItsWay
  <2> QED
    BY <2>3, <2>4
<1> QED
  BY <1>1, <1>2, <1>3, <1>4, <1>5 DEF PhoneInv

LEMMA FlushEndsIsSound ==
    ASSUME PhoneInv, FlushEnds
    PROVE  PhoneInv'
<1>1. PICK all : all = notices \o flush.refused
  OBVIOUS
<1>2. /\ all \in Seq(1 .. MaxTaps) /\ ToSet(all) = ToSet(notices) \cup ToSet(flush.refused)
      /\ ToSet(all) \subseteq 1 .. MaxTaps
  BY <1>1, TapTypes, JoinedTo DEF PhoneInv, PhoneType
<1>3. notices' = StillShown(all) /\ fate' = Becomes(PushedOff(all), "cut")
  BY <1>1 DEF FlushEnds
<1>4. /\ StillShown(all) \in Seq(1 .. MaxTaps) /\ PushedOff(all) \in SUBSET (1 .. MaxTaps)
      /\ ToSet(all) \subseteq ToSet(StillShown(all)) \cup PushedOff(all)
  BY <1>2, KeptOrDropped
<1>5. /\ fate' \in [1 .. MaxTaps -> SUBSET Fate]
      /\ \A n \in 1 .. MaxTaps : fate[n] # {} => fate'[n] # {}
      /\ \A n \in PushedOff(all) : fate'[n] # {}
  BY <1>3, <1>4, FatesGrow DEF Fate, PhoneInv
<1>6. \A n \in ToSet(flush.refused) \cup ToSet(notices) : fate'[n] # {} \/ n \in ToSet(notices')
  BY <1>2, <1>3, <1>4, <1>5
<1> QED
  BY <1>3, <1>4, <1>5, <1>6, FlushStopsSound DEF FlushEnds

LEMMA AppClosesIsSound ==
    ASSUME PhoneInv, AppCloses
    PROVE  PhoneInv'
<1>1. PICK ns : ns = {c.tap.n : c \in calls} \cup ToSet(flush.refused) \cup ToSet(notices)
  OBVIOUS
<1>2. ns \in SUBSET (1 .. MaxTaps)
  <2>1. ToSet(notices) \cup ToSet(flush.refused) \subseteq 1 .. MaxTaps
    BY TapTypes, JoinedTo DEF PhoneInv, PhoneType
  <2>2. {c.tap.n : c \in calls} \subseteq 1 .. MaxTaps
    BY TapTypes DEF PhoneInv
  <2> QED
    BY <1>1, <2>1, <2>2
<1>3. fate' = Becomes(ns, "closed")
  BY <1>1 DEF AppCloses
<1>4. /\ fate' \in [1 .. MaxTaps -> SUBSET Fate]
      /\ \A n \in 1 .. MaxTaps : fate[n] # {} => fate'[n] # {}
      /\ \A n \in ns : fate'[n] # {}
  BY <1>2, <1>3, FatesGrow DEF Fate, PhoneInv
<1>5. \A n \in ToSet(flush.refused) \cup ToSet(notices) : fate'[n] # {}
  BY <1>1, <1>4
<1>6. \A c \in calls : fate'[c.tap.n] # {}
  BY <1>1, <1>4
<1>7. /\ flush' = Asleep /\ UNCHANGED <<box, taps>> /\ calls' = {}
      /\ notices' \in Seq(1 .. MaxTaps)
  BY DEF AppCloses
<1> QED
  BY <1>4, <1>5, <1>6, <1>7, FlushStopsSound

LEMMA CookDismissesIsSound ==
    ASSUME PhoneInv, CookDismisses
    PROVE  PhoneInv'
<1>1. ToSet(notices) \in SUBSET (1 .. MaxTaps)
  BY TapTypes, JoinedTo DEF PhoneInv, PhoneType
<1>2. fate' = Becomes(ToSet(notices), "told") /\ UNCHANGED <<box, calls, flush, taps>>
  BY DEF CookDismisses
<1>3. /\ fate' \in [1 .. MaxTaps -> SUBSET Fate]
      /\ \A n \in 1 .. MaxTaps : fate[n] # {} => fate'[n] # {}
      /\ \A n \in ToSet(notices) : fate'[n] # {}
  BY <1>1, <1>2, FatesGrow DEF Fate, PhoneInv
<1>4. PhoneType'
  <2>1. notices' \in Seq(1 .. MaxTaps)
    BY DEF CookDismisses
  <2> QED
    BY <1>2, <1>3, <2>1 DEF PhoneInv, PhoneType
<1>5. OnePlace'
  BY <1>2 DEF PhoneInv, OnePlace, InBox
<1>6. DoneIsApplied' /\ ListIsBacked'
  BY <1>2, <1>3, OnlyFates
<1>7. NoTapVanishes'
  BY <1>1, <1>2, <1>3, TapTypes DEF PhoneInv, NoTapVanishes, OnItsWay
<1> QED
  BY <1>4, <1>5, <1>6, <1>7 DEF PhoneInv

LEMMA PhoneNextIsSound == PhoneInv /\ [PhoneNext]_phoneVars => PhoneInv'
<1> SUFFICES ASSUME PhoneInv, [PhoneNext]_phoneVars PROVE PhoneInv'
  OBVIOUS
<1>1. ASSUME NEW b \in BOOLEAN, MakeTap("star", b)
      PROVE  PhoneInv'
  BY <1>1, MakeTapIsSound
<1>2. ASSUME NEW s \in 1 .. LastStep, MakeTap("step", s)
      PROVE  PhoneInv'
  BY <1>2, MakeTapIsSound, PhoneAssumption
<1>3. ASSUME NEW c \in calls, ServerTakes(c) \/ Answered(c) \/ Unanswered(c) \/ NotStored(c)
      PROVE  PhoneInv'
  BY <1>3, ServerTakesIsSound, AnsweredIsSound, UnansweredIsSound,
     NotStoredIsSound
<1>4. CASE OthersStep \/ UNCHANGED phoneVars
  <2>1. UNCHANGED <<box, calls, flush, notices, fate, taps>>
    BY <1>4 DEF OthersStep, phoneVars
  <2> QED
    BY <2>1 DEF PhoneInv, PhoneType, OnePlace, InBox, DoneIsApplied, ListIsBacked,
       NoTapVanishes, OnItsWay
<1> QED
  BY <1>1, <1>2, <1>3, <1>4, FlushStartsIsSound, FlushSendsIsSound, FlushNextIsSound, FlushEndsIsSound,
     AppClosesIsSound, CookDismissesIsSound
     DEF PhoneNext

\* However calls, taps during a flush, lost answers, failing writes and closings
\* of the app meet, for any number of taps and any number of notices kept: a tap
\* is taken by the server, replaced by a newer star, waiting, or its refusal was
\* shown or is on the screen, unless the app was closed over the call or the
\* notice, the phone could not store it, or newer notices took its place.
THEOREM TapsAreKept == PhoneSpec => []NoTapVanishes
<1>1. PhoneInit => PhoneInv
  <2> SUFFICES ASSUME PhoneInit PROVE PhoneInv
    OBVIOUS
  <2>1. PhoneType
    BY PhoneAssumption, AsleepType DEF PhoneInit, PhoneType
  <2>2. OnePlace /\ ListIsBacked
    BY AsleepType DEF PhoneInit, OnePlace, AllDiffer, InBox, ListIsBacked
  <2> QED
    BY <2>1, <2>2, AsleepType DEF PhoneInit, PhoneInv, DoneIsApplied, NoTapVanishes
<1>2. PhoneInv /\ [PhoneNext]_phoneVars => PhoneInv'
  BY PhoneNextIsSound
<1>3. PhoneInv => NoTapVanishes
  BY DEF PhoneInv
<1> QED
  BY <1>1, <1>2, <1>3, PTL DEF PhoneSpec
=============================================================================
