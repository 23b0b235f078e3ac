----------------------------- MODULE MCServices -----------------------------
(***************************************************************************)
(* Checkout, PhoneOutbox, Payables, PlatformOrders, Backup and Floor, each *)
(* of which shares no state with the others, checked in one run: part says *)
(* which of them the behaviour is about, the others stay as they begin.    *)
(* Checkout: two bills of ann, who may name bob as the friend that brought *)
(* her.                                                                    *)
(***************************************************************************)
EXTENDS Checkout, PhoneOutbox, Payables, PlatformOrders, Backup, Floor, TLC

CONSTANTS ann, bob, b1, b2

VARIABLE part

Both  == [b \in Bills |-> ann]
Four  == [b \in Bills |-> IF b = b1 THEN 4 ELSE 3]
Three == [c \in Customers |-> IF c = ann THEN 2 ELSE 0]

\* Tills, Cashiers, Bookkeepers, Posts and Staff are the same two names.
ServicesSymmetry == Permutations(Tills)

\* When the app is closed there are two taps, one of them after it perhaps.
FewTaps == kills = 0 \/ taps <= 2

\* A reservation or a waiting party, not both in one behaviour, and while there
\* is one no change by hand is under way.
NobodyBooked == \A r \in Bookings : booked[r].status = "none"
NoParty      == \A w \in Parties : party[w] = "WAITING"
FewGuests == /\ NobodyBooked \/ NoParty
             /\ change = {} \/ (NobodyBooked /\ NoParty)

ServicesInit ==
    /\ part \in {"checkout", "phone", "payables", "platform", "backup", "floor"}
    /\ CheckoutInit /\ PhoneInit /\ PayInit /\ PlatformInit /\ BackupInit /\ FloorInit

ServicesNext ==
    \/ /\ part = "checkout" /\ CheckoutNext
       /\ UNCHANGED <<part, phoneVars, payVars, platformVars, backupVars, floorVars>>
    \/ /\ part = "phone" /\ PhoneNext /\ FewTaps'
       /\ UNCHANGED <<part, checkoutVars, payVars, platformVars, backupVars, floorVars>>
    \/ /\ part = "payables" /\ PayNext
       /\ UNCHANGED <<part, checkoutVars, phoneVars, platformVars, backupVars, floorVars>>
    \/ /\ part = "platform" /\ PlatformNext
       /\ UNCHANGED <<part, checkoutVars, phoneVars, payVars, backupVars, floorVars>>
    \/ /\ part = "backup" /\ BackupNext
       /\ UNCHANGED <<part, checkoutVars, phoneVars, payVars, platformVars, floorVars>>
    \/ /\ part = "floor" /\ FloorNext /\ FewGuests'
       /\ UNCHANGED <<part, checkoutVars, phoneVars, payVars, platformVars, backupVars>>

ServicesSpec ==
    ServicesInit /\ [][ServicesNext]_<<checkoutVars, phoneVars, payVars, platformVars,
                                       backupVars, floorVars, part>>
=============================================================================
