---------------------------- MODULE PlatformOrders ----------------------------
(***************************************************************************)
(* Orders from a delivery platform (integration-hub/aggregator-orders.     *)
(* service.ts) and what it relies on in modules/orders/orders.service.ts.  *)
(*                                                                         *)
(* One platform order.  The platform sends order.created and               *)
(* order.cancelled, each as often as it likes and in any order, since it   *)
(* repeats what was not answered with ok.  Staff accept, decline or cancel *)
(* and take orders of their own, which draw from the same numbers.         *)
(***************************************************************************)
EXTENDS Integers, FiniteSets

CONSTANTS
    Posts,      \* requests of the platform that may overlap
    Staff,      \* requests of staff that may overlap
    MaxPosts,   \* bound: requests the platform makes
    MaxNumber,  \* bound: order numbers
    Attempts    \* tries of createOrder (3)

ASSUME PlatformAssumption ==
    MaxPosts \in Nat /\ MaxNumber \in Nat /\ Attempts \in Nat \ {0}

VARIABLES
    numbers,    \* order numbers in use
    mine,       \* {} or {the order row}: [number, status, acceptance, by, cooked]
    post,       \* [Posts -> a request being handled, or NoPost]
    desk,       \* [Staff -> a request being handled, or NoPost]
    told,       \* answers the platform has: subset of {"created", "cancelled", "attention"}
    posts       \* requests made so far

platformVars == <<numbers, mine, post, desk, told, posts>>

NoPost == [at |-> "quiet"]
Largest(s) == IF s = {} THEN 0 ELSE CHOOSE n \in s : \A k \in s : k <= n

\* The row of the order: who ended it, and whether the kitchen has it.
PlatformRow(number, status, acceptance, by, cooked) ==
    [number |-> number, status |-> status, acceptance |-> acceptance, by |-> by,
     cooked |-> cooked]

Reply(p, what) ==
    /\ post' = [post EXCEPT ![p] = NoPost]
    /\ told' = told \cup what

-----------------------------------------------------------------------------
\* receive of order.created: the order may be there; a dish that is not on the
\* menu, like every other refusal, is an error.
ReceiveCreated(p) ==
    /\ post[p] = NoPost /\ posts < MaxPosts /\ posts' = posts + 1
    /\ IF mine # {} THEN told' = told \cup {"created"} /\ UNCHANGED post
       ELSE /\ post' = [post EXCEPT ![p] = [at |-> "number", try |-> 1, number |-> 0]]
            /\ UNCHANGED told
    /\ UNCHANGED <<numbers, mine, desk>>

\* nextOrderNumber: the highest of the day and one.
ReadNumber(p) ==
    /\ post[p].at = "number" /\ Largest(numbers) < MaxNumber
    /\ post' = [post EXCEPT ![p] = [@ EXCEPT !.at = "insert", !.number = Largest(numbers) + 1]]
    /\ UNCHANGED <<numbers, mine, desk, told, posts>>

\* The unique indexes of orders: (branch, number) and (branch, source, external id).
Clashes(p) == post[p].number \in numbers \/ mine # {}

InsertOrder(p) ==
    /\ post[p].at = "insert" /\ ~Clashes(p)
    /\ numbers' = numbers \cup {post[p].number}
    /\ mine' = {PlatformRow(post[p].number, "OPEN", "PENDING", "nobody", FALSE)}
    /\ Reply(p, {"created"})
    /\ UNCHANGED <<desk, posts>>

\* After a clash: the same order, or another one with its number?
AlreadyThere == mine # {}

InsertClashes(p) ==
    /\ post[p].at = "insert" /\ Clashes(p)
    /\ IF AlreadyThere THEN Reply(p, {"created"})
       ELSE IF post[p].try < Attempts
         THEN /\ post' = [post EXCEPT ![p] = [@ EXCEPT !.at = "number", !.try = @ + 1]]
              /\ UNCHANGED told
         ELSE Reply(p, {})
    /\ UNCHANGED <<numbers, mine, desk, posts>>

-----------------------------------------------------------------------------
\* Still waiting for an answer?  The condition of rejectOrder's reads, and of
\* its update and that of acceptOrder.
Undecided == \E o \in mine : o.status = "OPEN" /\ o.acceptance = "PENDING"

\* receive of order.cancelled: not found, declined like by staff, or left to a
\* person.
ReceiveCancelled(p) ==
    /\ post[p] = NoPost /\ posts < MaxPosts /\ posts' = posts + 1
    /\ post' = IF Undecided THEN [post EXCEPT ![p] = [at |-> "decline"]] ELSE post
    /\ told' = IF mine # {} /\ ~Undecided THEN told \cup {"attention"} ELSE told
    /\ UNCHANGED <<numbers, mine, desk>>

\* Variant: the update looks at the status alone.
StillUndecided_open == \E o \in mine : o.status = "OPEN"

\* The condition of the update, which is made after the reads.
StillUndecided == Undecided

Withdrawn(who) == {PlatformRow(o.number, "CANCELLED", "REJECTED", who, o.cooked) : o \in mine}

\* withdrawOrder for the platform; somebody else was first: an error, not flagged.
DeclineForPlatform(p) ==
    /\ post[p].at = "decline"
    /\ IF StillUndecided THEN mine' = Withdrawn("platform") /\ Reply(p, {"cancelled"})
       ELSE mine' = mine /\ Reply(p, {})
    /\ UNCHANGED <<numbers, desk, posts>>

-----------------------------------------------------------------------------
\* acceptOrder and rejectOrder of staff: read, then a conditional update.
StaffReads(s, op) ==
    /\ desk[s] = NoPost /\ Undecided
    /\ desk' = [desk EXCEPT ![s] = [at |-> op]]
    /\ UNCHANGED <<numbers, mine, post, told, posts>>

StaffDecides(s) ==
    /\ desk[s].at \in {"accept", "decline"}
    /\ mine' = IF ~StillUndecided THEN mine
               ELSE IF desk[s].at = "decline" THEN Withdrawn("staff")
               ELSE {PlatformRow(o.number, o.status, "ACCEPTED", o.by, TRUE) : o \in mine}
    /\ desk' = [desk EXCEPT ![s] = NoPost]
    /\ UNCHANGED <<numbers, post, told, posts>>

\* An accepted order is settled, or cancelled by staff.
StaffEnds(status) ==
    /\ \E o \in mine : o.status = "OPEN" /\ o.acceptance = "ACCEPTED"
    /\ mine' = {PlatformRow(o.number, status, o.acceptance, "staff", o.cooked) : o \in mine}
    /\ UNCHANGED <<numbers, post, desk, told, posts>>

\* An order of the till, with the next number.
TillOrder ==
    /\ Largest(numbers) < MaxNumber
    /\ numbers' = numbers \cup {Largest(numbers) + 1}
    /\ UNCHANGED <<mine, post, desk, told, posts>>

\* The server stops, or a write outside the model fails: no answer.
PostFails(p) ==
    /\ post[p] # NoPost
    /\ Reply(p, {})
    /\ UNCHANGED <<numbers, mine, desk, posts>>

-----------------------------------------------------------------------------
PlatformInit ==
    /\ numbers = {} /\ mine = {}
    /\ post = [p \in Posts |-> NoPost] /\ desk = [s \in Staff |-> NoPost]
    /\ told = {} /\ posts = 0

PlatformNext ==
    \/ \E p \in Posts :
         \/ ReceiveCreated(p) \/ ReadNumber(p) \/ InsertOrder(p) \/ InsertClashes(p)
         \/ ReceiveCancelled(p) \/ DeclineForPlatform(p) \/ PostFails(p)
    \/ \E s \in Staff : StaffDecides(s) \/ \E op \in {"accept", "decline"} : StaffReads(s, op)
    \/ \E status \in {"PAID", "CANCELLED"} : StaffEnds(status)
    \/ TillOrder

PlatformSpec == PlatformInit /\ [][PlatformNext]_platformVars

-----------------------------------------------------------------------------
\* What the platform was told holds, however its repeats, staff and the till
\* overlap: an order it was told is received is stored, one it was told is
\* cancelled is, by it; and what was accepted is never withdrawn by it: "a
\* person must decide, not a webhook" (aggregator-orders.service.ts:230).
PlatformIsToldTheTruth ==
    /\ "created" \in told => mine # {}
    /\ "cancelled" \in told => \E o \in mine : o.status = "CANCELLED" /\ o.by = "platform"
    /\ \A o \in mine : o.cooked => o.by # "platform"
=============================================================================
