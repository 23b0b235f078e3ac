-------------------------- MODULE GatewayPayments ---------------------------
(***************************************************************************)
(* Online payment of one order through a payment provider:                 *)
(* GatewayPaymentsService (payment-gateways/gateway-payments.service.ts).  *)
(*                                                                         *)
(* A cashier makes a link (create); the guest pays at the provider; the    *)
(* provider's webhook, the guest's return page and the cashier's screen    *)
(* each make the server ask the provider (refresh) and settle the order    *)
(* (apply, which calls OrdersService.checkout); money is sent back by      *)
(* refund.  A request in flight is req[w]; every await is a point where    *)
(* another request, the till or the provider may come in between.          *)
(*                                                                         *)
(* Abstractions: one order with a bill of Bill units; one provider; money  *)
(* in units; the till's own checkout, cancel and refund (module Orders)    *)
(* are one action each.  The 2-second polling throttle is left out: it     *)
(* only makes a refresh not happen.                                        *)
(***************************************************************************)
EXTENDS Integers, FiniteSets

CONSTANTS
    Payments,   \* ids a gateway_payments row can get
    Refunds,    \* ids a gateway_refunds row can get
    Workers,    \* requests in flight
    Bill,       \* bound: the most the order comes to
    Failures,   \* which of AllFailures happen
    None

\* lookup: the provider cannot be reached for a status;  database: a write
\* fails;  timeout: a refund call is not answered;  error: it is answered with
\* an error although the money goes back;  crash: the server stops.
AllFailures == {"lookup", "database", "timeout", "error", "crash"}

ASSUME GatewayAssumption ==
    /\ Bill \in Nat \ {0}
    /\ Failures \subseteq AllFailures
    /\ None \notin Payments \cup Refunds
    /\ IsFiniteSet(Refunds)

VARIABLES
    bill,   \* the order: its status, total, what is paid and what refunded
    gp,     \* gateway_payments
    rows,   \* payments rows whose clientRequestId is the link's id
    gr,     \* gateway_refunds
    event,  \* the webhook event about a link: gateway_webhook_events
    link,   \* the hosted checkout at the provider
    sent,   \* refunds the provider has carried out, and said so or not answered
    erred,  \* refunds it has carried out, and yet answered with an error
    lost,   \* history: payments whose claim was never resolved by its owner
    req     \* requests in flight

books   == <<bill, rows>>
outside == <<link, sent, erred, lost>>
vars    == <<bill, gp, rows, gr, event, link, sent, erred, lost, req>>

PaymentStatus == {"NONE", "CREATED", "SUCCEEDED", "FAILED", "EXPIRED",
                  "NEEDS_REVIEW"}
RefundStatus  == {"NONE", "PENDING", "SUCCEEDED", "FAILED", "NEEDS_REVIEW"}
Modes         == {"TEST", "LIVE"}
\* PAID_OTHER: paid, but not the amount or currency that was asked for.
LinkState     == {"NONE", "OPEN", "PAID", "PAID_OTHER", "EXPIRED"}
Steps == {"idle", "insert", "call", "save", "fetch", "act", "settle", "pay",
          "done", "failed", "ack", "reserve", "send", "record", "recorded",
          "unrecorded"}

BillRow    == [status : {"OPEN", "PAID", "CANCELLED"},
               total : 1 .. Bill, paid : Nat, refunded : Nat]
PaymentRow == [status : PaymentStatus, mode : Modes, amount : 0 .. Bill,
               \* providerRef and checkoutUrl set; older than REUSE_WINDOW_MS;
               \* appliedAt set
               ref : BOOLEAN, old : BOOLEAN, applied : BOOLEAN]
RefundRow  == [status : RefundStatus, of : Payments \cup {None},
               amount : 0 .. Bill]
Request    == [step : Steps, pay : Payments \cup {None},
               refund : Refunds \cup {None}, mode : Modes,
               amount : 0 .. Bill, seen : LinkState, full : BOOLEAN,
               hook : BOOLEAN]
Idle == [step |-> "idle", pay |-> None, refund |-> None, mode |-> "LIVE",
         amount |-> 0, seen |-> "NONE", full |-> FALSE, hook |-> FALSE]

TypeOK ==
    /\ bill \in BillRow
    /\ gp \in [Payments -> PaymentRow]
    /\ rows \in [Payments -> 0 .. 1]
    /\ gr \in [Refunds -> RefundRow]
    /\ event \in [Payments -> {"none", "pending", "recorded"}]
    /\ link \in [Payments -> LinkState]
    /\ sent \in SUBSET Refunds
    /\ erred \in SUBSET Refunds
    /\ lost \in SUBSET Payments
    /\ req \in [Workers -> Request]

-----------------------------------------------------------------------------

Due == bill.total - bill.paid

Goto(w, step) == req' = [req EXCEPT ![w].step = step]
Finish(w)     == req' = [req EXCEPT ![w] = Idle]

\* The payments claimed by the requests of ws.
ClaimedBy(ws) ==
    {req[w].pay : w \in {v \in ws :
                    req[v].step \in {"settle", "pay", "done", "failed"}}}

SetStatus(p, status) == gp' = [gp EXCEPT ![p].status = status]

-----------------------------------------------------------------------------
(* create *)

Reusable(mode, amount) ==
    \E p \in Payments : /\ gp[p].status = "CREATED"
                        /\ gp[p].mode = mode
                        /\ gp[p].amount = amount
                        /\ gp[p].ref
                        /\ ~ gp[p].old

\* The amount is the balance of the bill as it is now.  p: the id the new row
\* is going to have.
CreateReads(w, p, mode) ==
    /\ req[w] = Idle
    /\ gp[p].status = "NONE" /\ \A v \in Workers : req[v].pay # p
    /\ bill.status = "OPEN"
    /\ Due > 0
    /\ ~ Reusable(mode, Due)
    /\ req' = [req EXCEPT ![w] = [Idle EXCEPT !.step = "insert", !.pay = p,
                                              !.mode = mode, !.amount = Due]]
    /\ UNCHANGED <<books, outside, gp, gr, event>>

InsertPayment(w) ==
    /\ req[w].step = "insert"
    /\ gp' = [gp EXCEPT ![req[w].pay] =
                               [status |-> "CREATED", mode |-> req[w].mode,
                                amount |-> req[w].amount, ref |-> FALSE,
                                old |-> FALSE, applied |-> FALSE]]
    /\ Goto(w, "call")
    /\ UNCHANGED <<books, outside, gr, event>>

LinkCreated(w) ==
    /\ req[w].step = "call"
    /\ link' = [link EXCEPT ![req[w].pay] = "OPEN"]
    /\ Goto(w, "save")
    /\ UNCHANGED <<books, gp, gr, event, sent, erred, lost>>

\* An error, or no answer: the provider may have made a link nobody knows of.
\* Or the link cannot be saved.
LinkNotCreated(w) ==
    /\ \/ /\ req[w].step = "call"
          /\ \E state \in {"NONE", "OPEN"} :
                link' = [link EXCEPT ![req[w].pay] = state]
       \/ "database" \in Failures /\ req[w].step = "save" /\ UNCHANGED link
    /\ SetStatus(req[w].pay, "FAILED")
    /\ Finish(w)
    /\ UNCHANGED <<books, gr, event, sent, erred, lost>>

SaveLink(w) ==
    /\ req[w].step = "save"
    /\ gp' = [gp EXCEPT ![req[w].pay].ref = TRUE]
    /\ Finish(w)
    /\ UNCHANGED <<books, outside, gr, event>>

-----------------------------------------------------------------------------
(* The guest and the provider *)

\* Only a link whose address was handed out can be paid.
GuestPays(p) ==
    /\ link[p] = "OPEN" /\ gp[p].ref
    /\ \E state \in {"PAID", "PAID_OTHER"} :
            link' = [link EXCEPT ![p] = state]
    /\ event' = [event EXCEPT ![p] = "pending"]
    /\ UNCHANGED <<books, gp, gr, sent, erred, lost, req>>

LinkExpires(p) ==
    /\ link[p] = "OPEN"
    /\ link' = [link EXCEPT ![p] = "EXPIRED"]
    /\ UNCHANGED <<books, gp, gr, event, sent, erred, lost, req>>

LinkAges(p) ==
    /\ gp[p].status = "CREATED" /\ ~ gp[p].old
    /\ gp' = [gp EXCEPT ![p].old = TRUE]
    /\ UNCHANGED <<books, outside, gr, event, req>>

-----------------------------------------------------------------------------
(* refresh: from a poll (cashier's screen, return page) or from the webhook *)

Refreshable(p) == gp[p].ref /\ gp[p].status \in {"CREATED", "NEEDS_REVIEW"}

Poll(w, p) ==
    /\ req[w] = Idle
    /\ Refreshable(p)
    /\ req' = [req EXCEPT ![w] = [Idle EXCEPT !.step = "fetch", !.pay = p]]
    /\ UNCHANGED <<books, outside, gp, gr, event>>

WebhookArrives(w, p) ==
    /\ req[w] = Idle
    /\ event[p] = "pending"
    /\ req' = [req EXCEPT ![w] =
                [Idle EXCEPT !.step = IF Refreshable(p) THEN "fetch" ELSE "ack",
                             !.pay = p, !.hook = TRUE]]
    /\ UNCHANGED <<books, outside, gp, gr, event>>

\* refresh returned: the webhook records the event, a poll is over.
AfterRefresh(w) == IF req[w].hook THEN Goto(w, "ack") ELSE Finish(w)

RecordEvent(w) ==
    /\ req[w].step = "ack"
    /\ event' = [event EXCEPT ![req[w].pay] = "recorded"]
    /\ Finish(w)
    /\ UNCHANGED <<books, outside, gp, gr>>

\* The outcome is the one the provider reports, never the one claimed.
FetchStatus_asClaimed(w) ==
    /\ req[w].step = "fetch"
    /\ req' = [req EXCEPT ![w].step = "act",
                          ![w].seen = IF req[w].hook THEN "PAID"
                                      ELSE link[req[w].pay]]
    /\ UNCHANGED <<books, outside, gp, gr, event>>
FetchStatus(w) ==
    /\ req[w].step = "fetch"
    /\ req' = [req EXCEPT ![w].step = "act", ![w].seen = link[req[w].pay]]
    /\ UNCHANGED <<books, outside, gp, gr, event>>

\* Logged and otherwise ignored.
LookupFails(w) ==
    /\ "lookup" \in Failures
    /\ req[w].step = "fetch"
    /\ AfterRefresh(w)
    /\ UNCHANGED <<books, outside, gp, gr, event>>

\* Unpaid, expired, paid with the wrong amount, or paid in test mode.
ActWithoutSettling(w) ==
    LET p == req[w].pay
    IN  /\ req[w].step = "act"
        /\ \/ req[w].seen = "OPEN" /\ UNCHANGED gp
           \/ req[w].seen = "EXPIRED" /\ SetStatus(p, "EXPIRED")
           \/ req[w].seen = "PAID_OTHER" /\ SetStatus(p, "NEEDS_REVIEW")
           \/ /\ req[w].seen = "PAID" /\ gp[p].mode = "TEST"
              /\ SetStatus(p, "SUCCEEDED")
        /\ AfterRefresh(w)
        /\ UNCHANGED <<books, outside, gr, event>>

\* A write outside a try fails, or the one in the catch does: the request
\* answers with an error.  A webhook's event is then not recorded.
WriteFails(w) ==
    /\ "database" \in Failures
    /\ req[w].step \in {"insert", "act", "failed", "reserve", "unrecorded"}
    /\ lost' = lost \cup ClaimedBy({w})
    /\ Finish(w)
    /\ UNCHANGED <<books, link, sent, erred, gp, gr, event>>

-----------------------------------------------------------------------------
(* apply: claim, then OrdersService.checkout, then the outcome *)

Claimable(p) == ~ gp[p].applied /\ gp[p].status \in {"CREATED", "NEEDS_REVIEW"}

Claim(w) ==
    LET p == req[w].pay
    IN  /\ req[w].step = "act"
        /\ req[w].seen = "PAID" /\ gp[p].mode = "LIVE"
        /\ IF Claimable(p)
           THEN /\ gp' = [gp EXCEPT ![p].applied = TRUE]
                /\ Goto(w, "settle")
           ELSE UNCHANGED gp /\ AfterRefresh(w)
        /\ UNCHANGED <<books, outside, gr, event>>

\* checkout, before its transaction.  A payment row that carries the same
\* requestId means this is a replay of one that went through.
Replayed(p) == rows[p] > 0

SettleReads(w) ==
    LET amount == gp[req[w].pay].amount
    IN  /\ req[w].step = "settle"
        /\ \/ Replayed(req[w].pay) /\ Goto(w, "done")
           \/ /\ ~ Replayed(req[w].pay)
              /\ bill.status = "OPEN" /\ amount <= Due
              /\ req' = [req EXCEPT ![w].step = "pay", ![w].full = amount = Due]
           \/ /\ ~ Replayed(req[w].pay)
              /\ ~ (bill.status = "OPEN" /\ amount <= Due)
              /\ Goto(w, "failed")
        /\ UNCHANGED <<books, outside, gp, gr, event>>

\* The transaction of checkout.
SettleCommits(w) ==
    LET p == req[w].pay
    IN  /\ req[w].step = "pay"
        /\ IF bill.status = "OPEN"
           THEN /\ bill' = [bill EXCEPT
                        !.paid = @ + gp[p].amount,
                        !.status = IF req[w].full THEN "PAID" ELSE @]
                /\ rows' = [rows EXCEPT ![p] = @ + 1]
                /\ Goto(w, "done")
           ELSE UNCHANGED books /\ Goto(w, "failed")
        /\ UNCHANGED <<outside, gp, gr, event>>

\* The checkout fails, or what follows its transaction does: apply takes
\* either for a failed checkout.
SettleFails(w) ==
    /\ "database" \in Failures
    /\ req[w].step \in {"settle", "pay", "done"}
    /\ Goto(w, "failed")
    /\ UNCHANGED <<books, outside, gp, gr, event>>

MarkSucceeded(w) ==
    /\ req[w].step = "done"
    /\ SetStatus(req[w].pay, "SUCCEEDED")
    /\ AfterRefresh(w)
    /\ UNCHANGED <<books, outside, gr, event>>

\* Never drop it silently: release the claim and flag it.
Released_claimKept(p) == gp[p]
Released_unflagged(p) == [gp[p] EXCEPT !.applied = FALSE]
Released(p) == [gp[p] EXCEPT !.status = "NEEDS_REVIEW", !.applied = FALSE]

ReleaseClaim(w) ==
    /\ req[w].step = "failed"
    /\ gp' = [gp EXCEPT ![req[w].pay] = Released(req[w].pay)]
    /\ AfterRefresh(w)
    /\ UNCHANGED <<books, outside, gr, event>>

-----------------------------------------------------------------------------
(* The till, on the same order *)

TillPays(a) ==
    /\ bill.status = "OPEN" /\ a <= Due
    /\ bill' = [bill EXCEPT !.paid = @ + a,
                            !.status = IF a = Due THEN "PAID" ELSE @]
    /\ UNCHANGED <<outside, gp, rows, gr, event, req>>

\* addItems: not once something is paid.
TillAdds ==
    /\ bill.status = "OPEN" /\ bill.paid = 0
    /\ bill.total < Bill
    /\ bill' = [bill EXCEPT !.total = @ + 1]
    /\ UNCHANGED <<outside, gp, rows, gr, event, req>>

TillCancels ==
    /\ bill.status = "OPEN" /\ bill.paid = 0
    /\ bill' = [bill EXCEPT !.status = "CANCELLED"]
    /\ UNCHANGED <<outside, gp, rows, gr, event, req>>

\* OrdersService.refund, whose row lock serialises refunds of an order.
Refundable(a) == bill.status = "PAID" /\ a <= bill.total - bill.refunded

TillRefunds(a) ==
    /\ Refundable(a)
    /\ bill' = [bill EXCEPT !.refunded = @ + a]
    /\ UNCHANGED <<outside, gp, rows, gr, event, req>>

-----------------------------------------------------------------------------
(* refund: reserve, provider (once), local record, done *)

RefundReads(w, p, r, a) ==
    /\ req[w] = Idle
    /\ gr[r].status = "NONE" /\ \A v \in Workers : req[v].refund # r
    /\ gp[p].status = "SUCCEEDED" /\ gp[p].applied /\ gp[p].mode = "LIVE"
    /\ Refundable(a)
    /\ req' = [req EXCEPT ![w] = [Idle EXCEPT !.step = "reserve", !.pay = p,
                                              !.refund = r, !.amount = a]]
    /\ UNCHANGED <<books, outside, gp, gr, event>>

\* The units of a set of refunds of payment p.
UnitsOf(rs, p) ==
    {u \in Refunds \X (1 .. Bill) :
        u[1] \in rs /\ gr[u[1]].of = p /\ u[2] <= gr[u[1]].amount}

\* Pending and needs-review refunds count against the payment.
Held_settledOnly(p) ==
    Cardinality(UnitsOf({r \in Refunds : gr[r].status = "SUCCEEDED"}, p))
Held(p) ==
    Cardinality(UnitsOf(
        {r \in Refunds : gr[r].status \in {"PENDING", "SUCCEEDED",
                                           "NEEDS_REVIEW"}}, p))

\* One transaction, under a row lock on the payment.
ReserveRefund(w) ==
    LET p == req[w].pay
        a == req[w].amount
    IN  /\ req[w].step = "reserve"
        /\ IF a <= gp[p].amount - Held(p)
           THEN /\ gr' = [gr EXCEPT ![req[w].refund] =
                           [status |-> "PENDING", of |-> p, amount |-> a]]
                /\ Goto(w, "send")
           ELSE UNCHANGED gr /\ Finish(w)
        /\ UNCHANGED <<books, outside, gp, event>>

SetRefund(w, status) == gr' = [gr EXCEPT ![req[w].refund].status = status]

RefundSent(w) ==
    /\ req[w].step = "send"
    /\ sent' = sent \cup {req[w].refund}
    /\ Goto(w, "record")
    /\ UNCHANGED <<books, gp, gr, event, link, erred, lost>>

\* The provider answers with an error.  Any status but a success is taken for
\* a refusal, one that comes after the money has gone back too.
RefundRefused(w) ==
    /\ req[w].step = "send"
    /\ \/ UNCHANGED erred
       \/ "error" \in Failures /\ erred' = erred \cup {req[w].refund}
    /\ SetRefund(w, "FAILED")
    /\ Finish(w)
    /\ UNCHANGED <<books, gp, event, link, sent, lost>>

\* The provider does not answer: the refund may have gone through.
OutcomeUnknown_failed == "FAILED"
OutcomeUnknown == "NEEDS_REVIEW"

RefundUnanswered(w) ==
    /\ "timeout" \in Failures
    /\ req[w].step = "send"
    /\ \E through \in SUBSET {req[w].refund} : sent' = sent \cup through
    /\ SetRefund(w, OutcomeUnknown)
    /\ Finish(w)
    /\ UNCHANGED <<books, gp, event, link, erred, lost>>

\* OrdersService.refund again: the till may have refunded meanwhile.
RecordRefund_swallowed(w) ==
    /\ req[w].step = "record"
    /\ bill' = [bill EXCEPT !.refunded =
                   IF Refundable(req[w].amount) THEN @ + req[w].amount ELSE @]
    /\ Goto(w, "recorded")
    /\ UNCHANGED <<outside, gp, rows, gr, event>>
RecordRefund(w) ==
    /\ req[w].step = "record"
    /\ IF Refundable(req[w].amount)
       THEN /\ bill' = [bill EXCEPT !.refunded = @ + req[w].amount]
            /\ Goto(w, "recorded")
       ELSE UNCHANGED bill /\ Goto(w, "unrecorded")
    /\ UNCHANGED <<outside, gp, rows, gr, event>>

RefundDone(w) ==
    /\ req[w].step = "recorded"
    /\ SetRefund(w, "SUCCEEDED")
    /\ Finish(w)
    /\ UNCHANGED <<books, outside, gp, event>>

RefundFlagged(w) ==
    /\ \/ req[w].step = "unrecorded"
       \/ "database" \in Failures /\ req[w].step \in {"record", "recorded"}
    /\ SetRefund(w, "NEEDS_REVIEW")
    /\ Finish(w)
    /\ UNCHANGED <<books, outside, gp, event>>

-----------------------------------------------------------------------------

\* The server stops: every request in flight is lost.
Crash ==
    /\ "crash" \in Failures
    /\ req' = [w \in Workers |-> Idle]
    /\ lost' = lost \cup ClaimedBy(Workers)
    /\ UNCHANGED <<books, link, sent, erred, gp, gr, event>>

Init ==
    /\ bill = [status |-> "OPEN", total |-> 1, paid |-> 0, refunded |-> 0]
    /\ gp = [p \in Payments |-> [status |-> "NONE", mode |-> "LIVE",
                                 amount |-> 0, ref |-> FALSE, old |-> FALSE,
                                 applied |-> FALSE]]
    /\ rows = [p \in Payments |-> 0]
    /\ gr = [r \in Refunds |-> [status |-> "NONE", of |-> None, amount |-> 0]]
    /\ event = [p \in Payments |-> "none"]
    /\ link = [p \in Payments |-> "NONE"]
    /\ sent = {}
    /\ erred = {}
    /\ lost = {}
    /\ req = [w \in Workers |-> Idle]

Create(w) ==
    \/ \E p \in Payments, mode \in Modes : CreateReads(w, p, mode)
    \/ InsertPayment(w) \/ LinkCreated(w) \/ LinkNotCreated(w) \/ SaveLink(w)

\* What a request that is asking the provider does next.
Refresh(w) ==
    \/ FetchStatus(w) \/ LookupFails(w)
    \/ ActWithoutSettling(w) \/ WriteFails(w)
    \/ Claim(w) \/ SettleReads(w) \/ SettleCommits(w)
    \/ SettleFails(w) \/ MarkSucceeded(w) \/ ReleaseClaim(w)
    \/ RecordEvent(w)

Refund(w) ==
    \/ \E p \in Payments, r \in Refunds, a \in 1 .. Bill :
            RefundReads(w, p, r, a)
    \/ ReserveRefund(w) \/ RefundSent(w) \/ RefundRefused(w)
    \/ RefundUnanswered(w) \/ RecordRefund(w)
    \/ RefundDone(w) \/ RefundFlagged(w)

Next ==
    \/ \E w \in Workers :
        \/ Create(w) \/ Refresh(w) \/ Refund(w)
        \/ \E p \in Payments : Poll(w, p) \/ WebhookArrives(w, p)
    \/ \E p \in Payments : GuestPays(p) \/ LinkExpires(p) \/ LinkAges(p)
    \/ \E a \in 1 .. Bill : TillPays(a) \/ TillRefunds(a)
    \/ TillAdds \/ TillCancels
    \/ Crash

Spec == Init /\ [][Next]_vars

\* A request runs to its end unless the server stops, and a lookup or a write
\* that is tried again and again succeeds in the end.
RequestsRun ==
    \A w \in Workers :
        /\ WF_vars(req[w] # Idle /\ (Create(w) \/ Refresh(w) \/ Refund(w)))
        /\ SF_vars(FetchStatus(w))
        /\ SF_vars(ActWithoutSettling(w) \/ Claim(w))

\* Somebody keeps asking: the guest's return page or the cashier's screen.
PolledSpec ==
    /\ Spec /\ RequestsRun
    /\ \A p \in Payments : SF_vars(\E w \in Workers : Poll(w, p))

\* Nobody asks, but the provider repeats its webhook until it is acknowledged.
WebhookSpec ==
    /\ Spec /\ RequestsRun
    /\ \A p \in Payments : SF_vars(\E w \in Workers : WebhookArrives(w, p))

-----------------------------------------------------------------------------
(* Properties *)

Ledger == INSTANCE PaymentLedger WITH
    MaxAmount <- Bill,
    taken  <- [p \in Payments |-> IF link[p] = "PAID" /\ gp[p].mode = "LIVE"
                                  THEN gp[p].amount ELSE 0],
    booked <- {p \in Payments : rows[p] > 0},
    returned <- [p \in Payments |-> Cardinality(UnitsOf(sent, p))]

\* The service keeps the promise of PaymentLedger: only a charge the provider
\* confirms is put on the bill, once, and refunds stay within it, those the
\* provider carried out under an error apart.
ImplementsLedger == Ledger!Spec

\* However refunds of one payment overlap, fail and are retried, no more goes
\* back to the guest than the payment brought in.  Refunds in erred are left
\* out: the service gives their amount free again (AmbiguousIsFlagged), and
\* the provider's own limit is all there is.
RefundsWithinPayment ==
    \A p \in Payments : Cardinality(UnitsOf(sent, p)) <= gp[p].amount

\* What the payment row says is what the bill holds: a succeeded live payment
\* is on it, and a payment on it is neither failed nor expired nor unclaimed
\* without being flagged.
RowMatchesBooks ==
    \A p \in Payments :
        /\ gp[p].status = "SUCCEEDED" /\ gp[p].mode = "LIVE" => rows[p] = 1
        /\ rows[p] = 1 =>
              \/ gp[p].status \in {"SUCCEEDED", "NEEDS_REVIEW"}
              \/ gp[p].status = "CREATED" /\ gp[p].applied

\* A live charge of the right amount ends up settled or in front of a person,
\* whatever fails, unless the request that claimed it stops before its end.
ChargeIsSettledOrFlagged ==
    \A p \in Payments :
        link[p] = "PAID" /\ gp[p].mode = "LIVE"
            ~> gp[p].status \in {"SUCCEEDED", "NEEDS_REVIEW"} \/ p \in lost

\* The order of the steps of refund never loses track of money: a refund that
\* went out is not taken for failed when its answer is a success, comes too
\* late or never, or finds the local record refused; one marked succeeded is
\* in the books; till and online refunds together stay within the bill.  What
\* an answer with an error does is AmbiguousIsFlagged.
RefundsTracked ==
    /\ \A r \in sent : gr[r].status # "FAILED"
    /\ LET done == {r \in Refunds : gr[r].status = "SUCCEEDED"}
       IN  Cardinality(UNION {UnitsOf(done, p) : p \in Payments})
               <= bill.refunded
    /\ bill.refunded <= bill.total

-----------------------------------------------------------------------------
(* What the code does not guarantee: the violation runs *)

\* A failure to handle a webhook is retried by the provider, so a charge is
\* looked at again although nobody has a page open.
WebhookSettlesOrFlags == ChargeIsSettledOrFlagged

\* What the code does not guarantee: that a refund that went out is never taken
\* for failed, whatever happens to the call ("Anything ambiguous ... is flagged
\* for a person instead of being retried or guessed").
AmbiguousIsFlagged == \A r \in sent \cup erred : gr[r].status # "FAILED"

\* Two cashiers, or a double tap, never make two links for the same amount.
OneLinkPerBill ==
    \A p, q \in Payments :
        /\ p # q
        /\ gp[p].status = "CREATED" /\ gp[p].ref /\ ~ gp[p].old
        /\ gp[q].status = "CREATED" /\ gp[q].ref /\ ~ gp[q].old
        /\ gp[p].mode = gp[q].mode
        => gp[p].amount # gp[q].amount
=============================================================================
