-------------------------------- MODULE Floor --------------------------------
(***************************************************************************)
(* The writers of tables.status: bills (modules/orders), the floor screen  *)
(* (tables.service.ts), reservations (reservations.service.ts) and the     *)
(* waiting list (waitlist.service.ts).                                     *)
(*                                                                         *)
(* Orders models bills in full; here a bill is open at a table or not.  A  *)
(* request that closes or moves one reads it, counts the other open bills  *)
(* of its table and then commits; a screen's change of status reads the    *)
(* open bills in one step and writes in another.  Row locks on a bill,     *)
(* which only rule out some orders of these steps, are left out.           *)
(***************************************************************************)
EXTENDS FiniteSets

CONSTANTS
    Places,     \* tables of the branch
    TableBills, \* bills opened at a table
    Bookings,   \* reservations
    Parties,    \* entries of the waiting list
    Tills,      \* requests under way that close or move a bill
    Nowhere

ASSUME FloorAssumption == Nowhere \notin Places

TileStatus == {"AVAILABLE", "OCCUPIED", "RESERVED", "CLEANING", "OUT_OF_SERVICE"}
BookingStatus == {"RESERVED", "CONFIRMED", "ARRIVED", "COMPLETED", "CANCELLED", "NO_SHOW"}

VARIABLES
    tile,       \* [Places -> TileStatus]
    at,         \* [TableBills -> Places, or Nowhere before and after]
    closed,     \* bills that are paid or cancelled
    booked,     \* [Bookings -> [status, place]]
    party,      \* [Parties -> WAITING, SEATED or CANCELLED]
    work,       \* [Tills -> [bill, from, to, found]]
    change,     \* changes by hand after their read: set of [place, to, met]
    blame       \* what has written the tile of a place against its bills: history

floorVars == <<tile, at, closed, booked, party, work, change, blame>>

OpenAt(p) == {b \in TableBills : at[b] = p}

\* A request whose bill goes to a place, or is closed: to = Nowhere.  found: what
\* the count said; idle becomes overtaken when a bill comes to the place (history).
Free == [bill |-> Nowhere, from |-> Nowhere, to |-> Nowhere, found |-> "nothing"]

\* Writes one tile.  why: what was not stopped by a bill that is there, or none.
Show(p, s, why) ==
    /\ tile' = [tile EXCEPT ![p] = s]
    /\ blame' = [blame EXCEPT ![p] = IF OpenAt(p) = {} THEN "none" ELSE why]

\* Bill b comes to place p: who has looked at p already does not know.
Overtaken(b, p, r) ==
    IF r.from = p /\ r.bill # b /\ r.found = "idle" THEN [r EXCEPT !.found = "overtaken"] ELSE r
Meets(p) == change' = {[c EXCEPT !.met = c.met \/ c.place = p] : c \in change}

-----------------------------------------------------------------------------
\* createOrder: any table of the branch, also one with a bill.
OpenBill(b, p) ==
    /\ at[b] = Nowhere /\ b \notin closed
    /\ at' = [at EXCEPT ![b] = p]
    /\ Show(p, "OCCUPIED", "none")
    /\ work' = [t \in Tills |-> Overtaken(b, p, work[t])] /\ Meets(p)
    /\ UNCHANGED <<closed, booked, party>>

\* The reads of checkout and cancelOrder (p = Nowhere) and of updateOrder, which
\* takes a table that is in service and has no bill.
AskFor(t, b, p) ==
    /\ work[t] = Free
    /\ at[b] \notin {Nowhere, p}
    /\ p # Nowhere => tile[p] # "OUT_OF_SERVICE" /\ OpenAt(p) = {}
    /\ work' = [work EXCEPT ![t] = [bill |-> b, from |-> at[b], to |-> p, found |-> "nothing"]]
    /\ UNCHANGED <<tile, at, closed, booked, party, change, blame>>

\* Variant: a table is freed whatever else is open on it.
IdleBut_always(p, b) == TRUE

\* The count of releaseTableIfIdle.
IdleBut(p, b) == OpenAt(p) \subseteq {b}

CountOthers(t) ==
    /\ work[t] # Free /\ work[t].found = "nothing"
    /\ work' = [work EXCEPT ![t].found = IF IdleBut(work[t].from, work[t].bill) THEN "idle" ELSE "busy"]
    /\ UNCHANGED <<tile, at, closed, booked, party, change, blame>>

\* The table of a request is freed on what was counted.
Frees(r) == r.found \in {"idle", "overtaken"}
FreedBy(r) == IF r.found = "idle" \/ IdleBut(r.from, r.bill) THEN "none" ELSE "release"

\* The commit of checkout or cancelOrder, rolled back if the bill is not open.
CloseBill(t) ==
    LET r == work[t]
    IN  /\ r # Free /\ r.to = Nowhere /\ r.found # "nothing"
        /\ work' = [work EXCEPT ![t] = Free]
        /\ IF r.bill \in closed THEN UNCHANGED <<tile, at, closed, blame>>
           ELSE /\ at' = [at EXCEPT ![r.bill] = Nowhere] /\ closed' = closed \cup {r.bill}
                /\ IF Frees(r) THEN Show(r.from, "AVAILABLE", FreedBy(r)) ELSE UNCHANGED <<tile, blame>>
        /\ UNCHANGED <<booked, party, change>>

\* The commit of updateOrder, which does not ask whether the bill is still open.
MoveBill(t) ==
    LET r == work[t]
    IN  /\ r.to # Nowhere /\ r.found # "nothing"
        /\ at' = IF r.bill \in closed THEN at ELSE [at EXCEPT ![r.bill] = r.to]
        /\ tile' = [q \in Places |-> IF q = r.to THEN "OCCUPIED"
                                     ELSE IF q = r.from /\ Frees(r) THEN "AVAILABLE" ELSE tile[q]]
        /\ blame' = [q \in Places |-> IF q = r.to THEN "none"
                                      ELSE IF q = r.from /\ Frees(r) THEN FreedBy(r) ELSE blame[q]]
        /\ IF r.bill \in closed THEN work' = [work EXCEPT ![t] = Free] /\ UNCHANGED change
           ELSE /\ work' = [u \in Tills |-> IF u = t THEN Free ELSE Overtaken(r.bill, r.to, work[u])]
                /\ Meets(r.to)
        /\ UNCHANGED <<closed, booked, party>>

-----------------------------------------------------------------------------
\* updateTableStatus: only OCCUPIED is free to set with an open bill.
ReadForChange(p, s) ==
    /\ s = "OCCUPIED" \/ OpenAt(p) = {}
    /\ change = {}
    /\ change' = {[place |-> p, to |-> s, met |-> FALSE]}
    /\ UNCHANGED <<tile, at, closed, booked, party, work, blame>>

WriteChange(c) ==
    /\ c \in change /\ change' = change \ {c}
    /\ Show(c.place, c.to, IF c.to # "OCCUPIED" /\ c.met THEN "hand" ELSE "none")
    /\ UNCHANGED <<at, closed, booked, party, work>>

\* create, with a table, which is shown RESERVED whatever it was.
Reserve(r, p) ==
    /\ booked[r].status = "none"
    /\ booked' = [booked EXCEPT ![r] = [status |-> "RESERVED", place |-> p]]
    /\ IF p = Nowhere THEN UNCHANGED <<tile, blame>> ELSE Show(p, "RESERVED", "reservation")
    /\ UNCHANGED <<at, closed, party, work, change>>

\* What updateStatus writes to the table of a reservation.
TileAfter(s) == CASE s = "ARRIVED" -> {"OCCUPIED"}
                  [] s \in {"COMPLETED", "CANCELLED", "NO_SHOW"} -> {"AVAILABLE"}
                  [] OTHER -> {}

\* updateStatus, from any status to any other.
UpdateBooking(r, s) ==
    /\ booked[r].status \notin {"none", s}
    /\ booked' = [booked EXCEPT ![r].status = s]
    /\ IF booked[r].place = Nowhere \/ TileAfter(s) = {} THEN UNCHANGED <<tile, blame>>
       ELSE \E t \in TileAfter(s) :
                Show(booked[r].place, t, IF t = "OCCUPIED" THEN "none" ELSE "reservation")
    /\ UNCHANGED <<at, closed, party, work, change>>

\* seat and cancel of a waiting party.
Seat(w, p) ==
    /\ party[w] = "WAITING"
    /\ party' = [party EXCEPT ![w] = "SEATED"]
    /\ Show(p, "OCCUPIED", "none")
    /\ UNCHANGED <<at, closed, booked, work, change>>

CancelWait(w) ==
    /\ party[w] # "CANCELLED"
    /\ party' = [party EXCEPT ![w] = "CANCELLED"]
    /\ UNCHANGED <<tile, at, closed, booked, work, change, blame>>

-----------------------------------------------------------------------------
FloorInit ==
    /\ tile = [p \in Places |-> "AVAILABLE"]
    /\ at = [b \in TableBills |-> Nowhere] /\ closed = {}
    /\ booked = [r \in Bookings |-> [status |-> "none", place |-> Nowhere]]
    /\ party = [w \in Parties |-> "WAITING"]
    /\ work = [t \in Tills |-> Free]
    /\ change = {} /\ blame = [p \in Places |-> "none"]

FloorNext ==
    \/ \E b \in TableBills, p \in Places : OpenBill(b, p)
    \/ \E t \in Tills :
         \/ \E b \in TableBills, p \in Places \cup {Nowhere} : AskFor(t, b, p)
         \/ CountOthers(t) \/ CloseBill(t) \/ MoveBill(t)
    \/ \E p \in Places, s \in TileStatus : ReadForChange(p, s)
    \/ \E c \in change : WriteChange(c)
    \/ \E r \in Bookings :
         \/ \E p \in Places \cup {Nowhere} : Reserve(r, p)
         \/ \E s \in BookingStatus : UpdateBooking(r, s)
    \/ \E w \in Parties : CancelWait(w) \/ \E p \in Places : Seat(w, p)

FloorSpec == FloorInit /\ [][FloorNext]_floorVars

-----------------------------------------------------------------------------
Hidden(b) == at[b] # Nowhere /\ tile[at[b]] # "OCCUPIED"

\* Requests that open, move and close bills which share tables, changes by hand
\* and guests who are seated overlap.  An open bill is hidden behind a tile that
\* is not OCCUPIED in three ways only: a reservation wrote the tile; a change by
\* hand did, and the bill came between its check and its write; or the table was
\* freed, and the bill came between the count and the update (orders.service.ts
\* 821, 825).  A bill that was there at the check or the count is never hidden.
OnlyKnownWaysHideABill == \A b \in TableBills : Hidden(b) => blame[at[b]] # "none"

\* What the code does not guarantee, of the third way: "Two bills can share a
\* table ... so 'this order is done' must not blank the table out from under the
\* other one" (orders.service.ts:812).
TableIsNotBlanked == \A b \in TableBills : Hidden(b) => blame[at[b]] \in {"reservation", "hand"}
=============================================================================
