------------------------------- MODULE Payables -------------------------------
(***************************************************************************)
(* Supplier invoices and their payments (modules/inventory/                *)
(* supplier-invoices.service.ts).  recordPayment reads the invoice, adds   *)
(* to what it read and writes the sum back next to the new payment row;    *)
(* its transaction locks nothing before that write (READ COMMITTED), so    *)
(* its read and its commit are two steps.  So are those of cancelInvoice.  *)
(***************************************************************************)
EXTENDS Integers

CONSTANTS
    Invoices,
    Bookkeepers,    \* requests in flight
    MaxAmount       \* bound: the largest total and payment

ASSUME PayablesAssumption == MaxAmount \in Nat

VARIABLES
    invoice,    \* [Invoices -> [status, total, amountPaid]]
    recorded,   \* [Invoices -> sum of its supplier_payments, which stay]
    booking     \* [Bookkeepers -> a request after its read, or NoBooking]

payVars == <<invoice, recorded, booking>>

InvoiceStatus == {"none", "UNPAID", "PARTIALLY_PAID", "PAID", "CANCELLED"}
NoBooking == [op |-> "none"]

\* createInvoice.
CreateInvoice(i, total) ==
    /\ invoice[i].status = "none"
    /\ invoice' = [invoice EXCEPT ![i] = [status |-> "UNPAID", total |-> total, amountPaid |-> 0]]
    /\ UNCHANGED <<recorded, booking>>

\* Variant: a payment is held against the total, not against what is left.
Remaining_total(i) == invoice[i].total

Remaining(i) == invoice[i].total - invoice[i].amountPaid

\* recordPayment, up to its writes.
ReadForPayment(w, i, amount) ==
    /\ booking[w] = NoBooking
    /\ invoice[i].status \notin {"none", "CANCELLED"}
    /\ amount <= Remaining(i)
    /\ booking' = [booking EXCEPT ![w] = [op |-> "pay", invoice |-> i, amount |-> amount,
                                          newPaid |-> invoice[i].amountPaid + amount]]
    /\ UNCHANGED <<invoice, recorded>>

NewStatus(newPaid, total) ==
    IF newPaid >= total THEN "PAID" ELSE IF newPaid > 0 THEN "PARTIALLY_PAID" ELSE "UNPAID"

\* The payment row, and amountPaid and status as they follow from the read.
CommitPayment(w) ==
    /\ booking[w].op = "pay"
    /\ LET b == booking[w] IN
         /\ recorded' = [recorded EXCEPT ![b.invoice] = @ + b.amount]
         /\ invoice' = [invoice EXCEPT ![b.invoice] =
              [status |-> NewStatus(b.newPaid, @.total), total |-> @.total, amountPaid |-> b.newPaid]]
    /\ booking' = [booking EXCEPT ![w] = NoBooking]

\* cancelInvoice.
ReadForCancel(w, i) ==
    /\ booking[w] = NoBooking
    /\ invoice[i].status # "none" /\ invoice[i].amountPaid = 0
    /\ booking' = [booking EXCEPT ![w] = [op |-> "cancel", invoice |-> i]]
    /\ UNCHANGED <<invoice, recorded>>

CommitCancel(w) ==
    /\ booking[w].op = "cancel"
    /\ invoice' = [invoice EXCEPT ![booking[w].invoice].status = "CANCELLED"]
    /\ booking' = [booking EXCEPT ![w] = NoBooking]
    /\ UNCHANGED recorded

\* The call fails or the server stops before the writes.
DropBooking(w) ==
    /\ booking[w] # NoBooking
    /\ booking' = [booking EXCEPT ![w] = NoBooking]
    /\ UNCHANGED <<invoice, recorded>>

-----------------------------------------------------------------------------
PayInit ==
    /\ invoice = [i \in Invoices |-> [status |-> "none", total |-> 0, amountPaid |-> 0]]
    /\ recorded = [i \in Invoices |-> 0]
    /\ booking = [w \in Bookkeepers |-> NoBooking]

PayNext ==
    \/ \E i \in Invoices, a \in 1 .. MaxAmount :
         CreateInvoice(i, a) \/ \E w \in Bookkeepers : ReadForPayment(w, i, a)
    \/ \E w \in Bookkeepers :
         \/ \E i \in Invoices : ReadForCancel(w, i)
         \/ CommitPayment(w) \/ CommitCancel(w) \/ DropBooking(w)

PaySpec == PayInit /\ [][PayNext]_payVars

-----------------------------------------------------------------------------
\* What an invoice says was paid never exceeds its total nor the payments that
\* are on record, and one shown as PAID is paid in full, however payments and
\* cancellations of the same invoice overlap
\* (supplier-invoices.service.ts:113 "exceeds the remaining balance").
PaidIsBacked ==
    \A i \in Invoices :
      /\ invoice[i].amountPaid <= recorded[i]
      /\ invoice[i].amountPaid <= invoice[i].total
      /\ invoice[i].status = "PAID" => invoice[i].amountPaid = invoice[i].total

\* "so two concurrent payments against the same invoice can't silently lose one
\* of them" (supplier-invoices.service.ts:88): what an invoice says was paid is
\* the sum of the payments on record.
AmountIsItsPayments == \A i \in Invoices : invoice[i].amountPaid = recorded[i]
=============================================================================
