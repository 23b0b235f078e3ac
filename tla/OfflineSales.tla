---------------------------- MODULE OfflineSales ----------------------------
(***************************************************************************)
(* Sales taken on a phone without a connection and sent to the server      *)
(* later: the phone (mobile/www/pos/lib/{store,sync}.js) and the server    *)
(* (standalone/standalone.service.ts).                                     *)
(*                                                                         *)
(* The phone sends the sales that wait, in batches, oldest first.  A call  *)
(* that is not answered in time is over for the phone, which sends the     *)
(* sales again later; the server goes on with it.  The server records a    *)
(* sale in several transactions: look for an order of that id, create it,  *)
(* settle it, or cancel it if it cannot be settled.                        *)
(*                                                                         *)
(* Abstractions: one phone and one server; a sale is an id, and whether    *)
(* the server accepts its content is a free choice each time; writing the  *)
(* phone's prices into the order is part of the settlement step.           *)
(***************************************************************************)
EXTENDS Integers, Sequences, FiniteSets

CONSTANTS
    Sales,      \* sales, in the order they are taken (numbers)
    Calls,      \* calls the server can be handling
    Batch,      \* sales in a call (20)
    Failures    \* which of AllFailures happen

\* crash: the server stops;  timeout: the phone gives up on a call, or is
\* switched off;  database: a query fails after the sale was settled;  till:
\* somebody settles or cancels the order while it is open.
AllFailures == {"crash", "timeout", "database", "till"}

ASSUME OfflineAssumption ==
    /\ Sales \subseteq Nat /\ IsFiniteSet(Sales)
    /\ Batch \in Nat \ {0}
    /\ 0 \notin Calls
    /\ Failures \subseteq AllFailures

VARIABLES
    sale,   \* the phone's sales: status
    push,   \* the phone's pushSales: the call it waits for, and what it read
    order,  \* the server's order that carries the sale's id
    call,   \* calls the server is handling
    raced,  \* history: sales sent again while an earlier call still had them,
            \* settled at the till, or whose settlement ended in an error
    manual  \* history: sales the owner entered by hand

vars == <<sale, push, order, call, raced, manual>>

SaleStatus  == {"none", "pending", "synced", "refused"}
OrderStatus == {"NONE", "OPEN", "PAID", "CANCELLED"}
Steps       == {"free", "find", "create", "settle", "undo", "answer"}
Outcome     == {"duplicate", "created", "refused"}
Results     == UNION {[S -> Outcome] : S \in SUBSET Sales}

NoPush   == [on |-> FALSE, left |-> {}, wait |-> 0, got |-> <<>>]
FreeCall == [step |-> "free", left |-> {}, results |-> <<>>]

TypeOK ==
    /\ sale \in [Sales -> SaleStatus]
    /\ push \in [on : BOOLEAN, left : SUBSET Sales, wait : Calls \cup {0},
                got : Results]
    /\ DOMAIN push.got \subseteq push.left
    /\ order \in [Sales -> OrderStatus]
    /\ call \in [Calls -> [step : Steps, left : SUBSET Sales,
                          results : Results]]
    /\ raced \in SUBSET Sales
    /\ manual \in SUBSET Sales

-----------------------------------------------------------------------------
(* The phone *)

First(S) == CHOOSE s \in S : \A t \in S : s <= t
FirstOf(n, S) == {s \in S : Cardinality({t \in S : t < s}) < n}

Sell(s) ==
    /\ sale[s] = "none" /\ \A t \in Sales : t < s => sale[t] # "none"
    /\ sale' = [sale EXCEPT ![s] = "pending"]
    /\ UNCHANGED <<push, order, call, raced, manual>>

\* One push at a time.
StartPush ==
    /\ ~ push.on
    /\ \E s \in Sales : sale[s] = "pending"
    /\ push' = [NoPush EXCEPT !.on = TRUE,
                              !.left = {s \in Sales : sale[s] = "pending"}]
    /\ UNCHANGED <<sale, order, call, raced, manual>>

Send(c) ==
    /\ push.on /\ push.wait = 0 /\ push.got = <<>> /\ push.left # {}
    /\ call[c] = FreeCall
    /\ push' = [push EXCEPT !.wait = c]
    /\ LET batch == FirstOf(Batch, push.left)
       IN  /\ call' = [call EXCEPT ![c].step = "find", ![c].left = batch]
           /\ raced' = raced \cup (batch \cap UNION {call[d].left : d \in Calls})
    /\ UNCHANGED <<sale, order, manual>>

StatusOf_tryAgain(outcome) == IF outcome = "refused" THEN "pending" ELSE "synced"
StatusOf(outcome) == IF outcome = "refused" THEN "refused" ELSE "synced"

\* The results of a call are put into the phone's store one by one.
TakeResult ==
    /\ push.on /\ push.got # <<>>
    /\ LET s == First(DOMAIN push.got)
       IN  /\ sale' = [sale EXCEPT ![s] = StatusOf(push.got[s])]
           /\ push' = [push EXCEPT
                    !.left = @ \ {s},
                    !.got = [t \in DOMAIN @ \ {s} |-> @[t]]]
    /\ UNCHANGED <<order, call, raced, manual>>

EndPush ==
    /\ push.on /\ push.left = {}
    /\ push' = NoPush
    /\ UNCHANGED <<sale, order, call, raced, manual>>

\* No answer in time, or the phone is switched off: what was not stored stays
\* pending.
GiveUp ==
    /\ "timeout" \in Failures
    /\ push.on
    /\ push' = NoPush
    /\ UNCHANGED <<sale, order, call, raced, manual>>

-----------------------------------------------------------------------------
(* The server: recordSale for each sale of the call in turn *)

Current(c) == First(call[c].left)

Goto(c, step) == call' = [call EXCEPT ![c].step = step]

\* The next sale of the batch, or the answer.
Result(c, outcome) ==
    LET s == Current(c)
    IN  call' = [call EXCEPT
            ![c].results = [t \in DOMAIN @ \cup {s} |->
                                IF t = s THEN outcome ELSE @[t]],
            ![c].left = @ \ {s},
            ![c].step = IF call[c].left = {s} THEN "answer" ELSE "find"]

\* What is found of an earlier attempt: only a settled order is a duplicate.
Earlier_any(s) == "duplicate"
Earlier_none(s) == "refused"
Earlier(s) == IF order[s] = "PAID" THEN "duplicate" ELSE "refused"

Find(c) ==
    LET s == Current(c)
    IN  /\ call[c].step = "find"
        /\ IF order[s] = "NONE" THEN Goto(c, "create")
           ELSE Result(c, Earlier(s))
        /\ UNCHANGED <<sale, push, order, raced, manual>>

\* Refused: a dish the branch does not have (any more), or an order with the
\* sale's id was created meanwhile.
Create(c) ==
    LET s == Current(c)
    IN  /\ call[c].step = "create"
        /\ \/ /\ order[s] = "NONE"
              /\ order' = [order EXCEPT ![s] = "OPEN"]
              /\ Goto(c, "settle")
           \/ Result(c, "refused") /\ UNCHANGED order
        /\ UNCHANGED <<sale, push, raced, manual>>

\* checkout, which takes a bill once and only while it is open.
Settle(c) ==
    LET s == Current(c)
    IN  /\ call[c].step = "settle"
        /\ \/ /\ order[s] = "OPEN"
              /\ order' = [order EXCEPT ![s] = "PAID"]
              /\ Result(c, "created")
           \/ Goto(c, "undo") /\ UNCHANGED order
        /\ UNCHANGED <<sale, push, raced, manual>>

\* Settled, but a query after the transaction fails.
SettledUnseen(c) ==
    LET s == Current(c)
    IN  /\ "database" \in Failures
        /\ call[c].step = "settle" /\ order[s] = "OPEN"
        /\ order' = [order EXCEPT ![s] = "PAID"]
        /\ Goto(c, "undo")
        /\ raced' = raced \cup {s}
        /\ UNCHANGED <<sale, push, manual>>

\* Only an order that is still open is cancelled.
Undone_always(s) == "CANCELLED"
Undone(s) == IF order[s] = "OPEN" THEN "CANCELLED" ELSE order[s]

Undo(c) ==
    LET s == Current(c)
    IN  /\ call[c].step = "undo"
        /\ order' = [order EXCEPT ![s] = Undone(s)]
        /\ Result(c, "refused")
        /\ UNCHANGED <<sale, push, raced, manual>>

\* The answer reaches the phone if it still waits for it.
Answer(c) ==
    /\ call[c].step = "answer"
    /\ push' = IF push.wait = c
               THEN [push EXCEPT !.wait = 0, !.got = call[c].results]
               ELSE push
    /\ call' = [call EXCEPT ![c] = FreeCall]
    /\ UNCHANGED <<sale, order, raced, manual>>

\* The phone sees the connection break.
Crash ==
    /\ "crash" \in Failures
    /\ call' = [c \in Calls |-> FreeCall]
    /\ push' = IF push.wait = 0 THEN push ELSE NoPush
    /\ UNCHANGED <<sale, order, raced, manual>>

-----------------------------------------------------------------------------
(* People *)

\* The till, on an order that shows up as open.
TillCancels(s) ==
    /\ "till" \in Failures
    /\ order[s] = "OPEN"
    /\ order' = [order EXCEPT ![s] = "CANCELLED"]
    /\ UNCHANGED <<sale, push, call, raced, manual>>

TillSettles(s) ==
    /\ "till" \in Failures
    /\ order[s] = "OPEN"
    /\ order' = [order EXCEPT ![s] = "PAID"]
    /\ raced' = raced \cup {s}
    /\ UNCHANGED <<sale, push, call, manual>>

\* "Ask the owner to enter it from the full app."
OwnerEnters(s) ==
    /\ sale[s] = "refused" /\ s \notin manual
    /\ manual' = manual \cup {s}
    /\ UNCHANGED <<sale, push, order, call, raced>>

-----------------------------------------------------------------------------

Init ==
    /\ sale = [s \in Sales |-> "none"]
    /\ push = NoPush
    /\ order = [s \in Sales |-> "NONE"]
    /\ call = [c \in Calls |-> FreeCall]
    /\ raced = {} /\ manual = {}

Phone == StartPush \/ TakeResult \/ EndPush \/ \E c \in Calls : Send(c)

Handle(c) ==
    \/ Find(c) \/ Create(c) \/ Settle(c) \/ SettledUnseen(c)
    \/ Undo(c) \/ Answer(c)

Next ==
    \/ \E s \in Sales : Sell(s) \/ TillCancels(s) \/ TillSettles(s) \/ OwnerEnters(s)
    \/ Phone \/ GiveUp \/ Crash
    \/ \E c \in Calls : Handle(c)

Spec == Init /\ [][Next]_vars

\* The phone tries again every minute, and neither the server stops nor the
\* phone gives up at the same point of a call every time.
LiveSpec ==
    /\ Spec
    /\ WF_vars(StartPush) /\ WF_vars(EndPush) /\ SF_vars(TakeResult)
    /\ \A c \in Calls : WF_vars(Handle(c))
    /\ SF_vars(\E c \in Calls : Send(c))
    /\ SF_vars(\E c \in Calls : push.wait = c /\ Find(c))
    /\ SF_vars(\E c \in Calls : push.wait = c /\ Create(c))
    /\ SF_vars(\E c \in Calls : push.wait = c /\ (Settle(c) \/ SettledUnseen(c)))
    /\ SF_vars(\E c \in Calls : push.wait = c /\ Undo(c))
    /\ SF_vars(\E c \in Calls : push.wait = c /\ Answer(c))

-----------------------------------------------------------------------------
(* Properties *)

\* A sale the phone takes for done is on the books.
SyncedIsRecorded == \A s \in Sales : sale[s] = "synced" => order[s] = "PAID"

\* A sale the phone shows as refused is not on the books, whatever is cut off
\* and sent again, unless it was sent again while the server still had it, the
\* till settled its order, or a query failed right after it was settled.
RefusedIsNotRecorded ==
    \A s \in Sales :
        sale[s] = "refused" /\ s \notin raced => order[s] # "PAID"

\* Every sale gets an answer in the end.
EverySaleIsAnswered ==
    \A s \in Sales :
        sale[s] = "pending" ~> sale[s] \in {"synced", "refused"}

-----------------------------------------------------------------------------
(* What the code does not guarantee: the violation run *)

\* Safe to repeat: a sale is only ever recorded once.
RecordedOnce == \A s \in Sales : ~ (order[s] = "PAID" /\ s \in manual)
=============================================================================
