--------------------------- MODULE PaymentLedger ----------------------------
(***************************************************************************)
(* What online payment promises about money, whatever the program does to  *)
(* keep the promise: a payment is charged once, is put on the bill at most *)
(* once and only when it was charged, and no more is sent back to the      *)
(* guest than was charged, and only of a payment that is on the bill.      *)
(* GatewayPayments implements it.                                          *)
(***************************************************************************)
EXTENDS Integers

CONSTANTS Payments,     \* payment links
          MaxAmount     \* bound: the largest charge

VARIABLES taken,        \* what the guest was charged on each link
          booked,       \* links whose payment is on the bill
          returned      \* what was sent back to the guest of each

ledger == <<taken, booked, returned>>

Init == /\ taken = [p \in Payments |-> 0]
        /\ booked = {}
        /\ returned = [p \in Payments |-> 0]

Charge(p, a) ==
    /\ taken[p] = 0
    /\ taken' = [taken EXCEPT ![p] = a]
    /\ UNCHANGED <<booked, returned>>

Book(p) ==
    /\ taken[p] > 0
    /\ p \notin booked
    /\ booked' = booked \cup {p}
    /\ UNCHANGED <<taken, returned>>

Return(p, a) ==
    /\ p \in booked
    /\ returned[p] + a <= taken[p]
    /\ returned' = [returned EXCEPT ![p] = @ + a]
    /\ UNCHANGED <<taken, booked>>

Next == \E p \in Payments :
            \/ \E a \in 1 .. MaxAmount : Charge(p, a) \/ Return(p, a)
            \/ Book(p)

Spec == Init /\ [][Next]_ledger
=============================================================================
