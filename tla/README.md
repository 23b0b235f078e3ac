# TLA+ model of the restaurant POS

Specifications, model-checking instances and machine-checked proofs of the
parts of this program where several people, devices and services change the
same money, tickets and rows at the same time.  Paths below are relative to the
repository; `orders.service.ts` and the other services named without a path are
in `apps/backend/src`.

- `tlc -config X.cfg M` runs configuration `X.cfg` on module `M`; which run uses
  which pair, and what it checks, is in `PROJECT.json` and in *Runs* below.
- `tlapm M.tla` checks the proofs of `OrdersProofs`, `GatewayProofs`,
  `SyncProofs`, `OfflineProofs`, `CheckoutProofs`, `StockProofs`,
  `FiscalProofs` and `ServicesProofs`.

## 1. The system and its parts

A backend (NestJS on PostgreSQL, isolation level READ COMMITTED) serves the
cashier's and the kitchen's screens, guests' pages and phones; it calls payment
providers and is called by them; restaurant PCs, each with its own database,
synchronise with a central server; phones sell without a connection and send
the sales later.

| Part | State it keeps | Operations | What is hard |
|---|---|---|---|
| Orders, tickets, tables (`modules/orders/orders.service.ts`) | `orders`, `order_items`, `kots`, `kot_items`, `payments`, `tables.status` | create, add, accept, reject, cancel, move, change/remove line, merge, pay, refund, kitchen moves, kitchen refusal, scheduled job | every handler reads and checks outside its transaction; only some updates re-check (compare-and-set) |
| Online payments (`payment-gateways/gateway-payments.service.ts`) | `gateway_payments`, `gateway_refunds`, `gateway_webhook_events`; the provider's side | create link, refresh, settle, webhook, refund | three callers settle one charge; provider and database fail at every await |
| Server sync (`sync/sync.service.ts`, migration `20261026000000_server_sync`) | the synchronised tables, `sync_changes`, `sync_state` on every node | pull, push, apply, prune, enable | several replicas, cut-off cycles, ties, foreign keys across pages |
| Offline sales (`mobile/www/pos`, `standalone/standalone.service.ts`) | sales stored on the phone; orders with a sale's id | sell, push, record, undo | the phone gives up on a call that goes on at the server |
| Checkout money (`orders.service.ts` 1501-2005, `settlement.ts`, gift cards, referrals, coupons) | points and their ledger, cards, coupons, referrals, wallets | guarded decrements in the transaction of checkout; refund under a row lock | one step of several failing; two bills of one guest |
| Stock (`modules/inventory`) | `ingredients.currentStock`, `stock_batches`, `stock_movements`, purchase orders | consume, restore, adjust, receive, transfer, waste | a stored total written from a read made before the lock; deadlocks |
| Supplier invoices (`modules/inventory/supplier-invoices.service.ts`) | `supplier_invoices`, `supplier_payments` | create, pay, cancel | a sum written back from a read that nothing protects |
| Outgoing webhooks (`modules/webhooks`) | `webhook_deliveries` | emit, claim, attempt, back off, clean up | lease against slow or crashed attempts |
| VERI*FACTU chain (`modules/verifactu`) | hash-chained records per issuer | append, submit | advisory lock; job and button submit at once |
| Aggregator orders (`integration-hub`) | orders with an external id | receive, cancel | repeated and overtaking messages |
| Tables, reservations, waitlist | `tables.status`, reservations, waitlist entries | seat, reserve, set status | further writers of `tables.status` |
| The kitchen's phone (`apps/web/lib/outbox.ts`) | queue of taps in the browser's storage | add, flush | taps during a flush, lost answers, the app closed |
| Delivery and riders | delivery status, rider's duty | assign, move on, go off duty | two people move one delivery |
| Backup (`backup/backup.service.ts`) | `backups`, `backup_config`, the objects in the bucket | back up, clean up, restore, set the bucket | overlapping runs and clean-ups; a restore takes the list of backups back with the rest |
| Sign-in, update | accounts; containers | register, delete owner, update | check-then-act |
| Menu, customers, HR, accounting, reports, marketing, notifications, other screens, launchers | master data, derived figures, screens | CRUD, queries | little: no protocol of their own |

How they meet: online payments, offline sales and aggregators create and settle
orders through `OrdersService`; checkout calls stock, points, gift cards and
VERI*FACTU inside its transaction; sync replicates all of it behind the
program's back; notifications and sockets are told and never asked.

What makes each part correct, in a sentence:

- Orders: the kitchen gets every accepted line once, a closed bill takes no
  money, a total is the sum of its lines, a table is occupied exactly while a
  bill is open on it.
- Online payments: what the guest was charged is on the bill once or in front
  of a person; no more is sent back than came in.
- Sync: replicas become equal, at the newest version; no version is ever
  replaced by an older one.
- Offline sales: what the phone calls synced is on the books, what it calls
  refused is not.
- Checkout money: a balance and its ledger agree and no fund is used beyond what
  it holds; a request takes money once; no more is refunded than was billed.
- Stock: batches, movements and orders agree; every transaction ends.
- Supplier invoices: what is shown as paid was paid.
- Webhooks and VERI*FACTU: nothing queued is forgotten, repeats only after a
  mishap; the chain has no gap and is reported from its beginning.
- Aggregators: what the platform was told is so.
- Floor: no open bill that was there to be seen hides behind a tile that is not
  OCCUPIED.
- Backup: a dump stays until enough newer ones are there.
- The kitchen's phone: a tap is applied, refused in front of the cook, or kept,
  as long as the phone can store it.

## 2. Modules

### `Orders` (with `MCOrders`, `OrdersProofs`)

`order`, `line`, `kot`, `table` are the rows; `req[w]` is what a request in
flight keeps of its reads.  Each handler is two actions, `...Reads` (everything
up to `$transaction`, with its early returns as guards) and `...Commits` (the
transaction, which either writes or rolls back).  So two requests interleave
exactly where the code lets them.

| Code | Actions |
|---|---|
| `createOrder` | `CreateOrder` (its reads are of the menu only) |
| `addItems` | `AddItemsReads`, `AddItemsCommits` |
| `acceptOrder` | `AcceptOrderReads`, `AcceptOrderCommits` |
| `rejectOrder`, `cancelOrder` -> `withdrawOrder` | `WithdrawOrderReads`, `WithdrawOrderCommits` |
| `updateOrder` (to another table) | `UpdateOrderReads`, `UpdateOrderCommits` |
| `updateOrderItem`, `removeOrderItem` | `UpdateOrderItem...`, `RemoveOrderItem...` |
| `mergeOrders` | `MergeOrdersReads`, `MergeOrdersCommits` |
| `checkout` | `CheckoutReads`, `CheckoutCommits` |
| `updateKotStatus`, `rejectKot` | `UpdateKotStatus...`, `RejectKot...` |
| `releaseDueScheduledOrders` | `ReleaseReads`, `ReleaseCommits` (one transaction per order) |
| `releaseTableIfIdle` | `CountOpenBills`, then `Released` in the commit |
| the clock passing `SCHEDULE_LEAD_MS` | `TimePasses` |

`releaseTableIfIdle` counts in one statement and updates in a later one; since
the transaction shows its other writes only when it commits, and its count sees
other transactions' commits, the count is an action of its own *before* the
commit.  The status a `kot_item` has is that of its ticket in every handler, so
a ticket has one status and the set of lines it points at.  Every unit costs 1:
a total is a number of units, `Subtotal` counts them.  `paid` is the sum of the
`payments` rows.

### `PaymentLedger` and `GatewayPayments` (with `MCGatewayPayments`, `GatewayProofs`)

`PaymentLedger` is what online payment promises: `Charge`, `Book` (once, only
what was charged), `Return` (never more than charged, only of what is booked).
`GatewayPayments` is the service: each `await` of `create`, `refresh`, `apply`,
`webhook` and `refund` ends an action, `req[w].step` says where a request is.
`link`, `event`, `sent` and `erred` are the provider's side.  The till (`TillPays`,
`TillAdds`, `TillCancels`, `TillRefunds`) acts on the same order, one action for
a handler whose two halves `Orders` already separates.  `Failures` chooses what
goes wrong: a status lookup, a database write (outside and inside the `try`), an
unanswered refund call, a refund that is carried out and answered with an error
all the same (`error`: `http.ts` makes every answer that is not 2xx one), a crash
that loses every request.  `Ledger` is the
refinement mapping: `taken` is what a paid live link is worth, `booked` the
links with a `payments` row (`clientRequestId`), `returned` the sum of the
refunds the provider carried out, those in `erred` apart, which the service
takes for refused (section 5).

### `ServerSync` (with `MCServerSync`, `SyncProofs`)

`db` and `log` are the rows and `sync_changes` of every node; two rows, one with
a foreign key to the other, stand for the tables.  `Edit` is a write with its
trigger (`Written`: a deleted parent logs the child it takes with it);
`Pull`, `ApplyPull`, `ReadPush`, `ApplyPush`, `NothingToPush` are the steps of
`cycle`, `CutOff` ends it anywhere; `Compact`, `Outdated` and `Applied` are
`compact`, the check at the head of `applyOne`, and `applyChanges` with its
retried foreign keys and its dropped conflicts.  `Pruned` is the clean-up at the
end of a cycle.

### `OfflineSales` (with `MCOfflineSales`, `OfflineProofs`)

`sale` and `push` are the phone, `order` and `call` the server.  `Find`,
`Create`, `Settle`, `Undo`, `Answer` are the steps of `recordSale`, each a
transaction of its own; `GiveUp` is the 15-second limit of a call (or the phone
switched off), after which the server goes on with it.

### `Checkout` (with `MCServices`, `CheckoutProofs`)

`sale`, `points`, `ledger`, `card`, `coupon`, `referral` and `wallet` are the
rows that bills share; `till[w]` is what a request keeps of its reads.  `checkout`
is `CheckoutBegin` (reads of the bill and the coupon), `ReadCard` (the gift
card's balance, read inside the transaction without a lock) and
`CheckoutCommit`; every guarded update holds its row until the end, so its guard
(`Covered`, `StillOpen`, `Fresh`, `Qualifies`) has one value from there to the
commit.  `refund` is `RefundBegin` and `RefundCommit`, `attach` of a referral
`AttachBegin` and `AttachCommit`, any refusal or failure `GiveUp`.  `taken` and
`fixed` are history.

### `Stock` (with `MCStock`, `MCJobs`, `StockProofs`)

A request is a transaction `job[w]` with the list of ingredients it still has to
deal with.  `Start...` makes one (with what is read before the transaction);
`ReadStock` is the read before the row lock, `Consume`, `Restore`, `Arrive` and
`Book` take the lock of one ingredient and compute what will be written, `Commit`
shows it.  `Fifo` and `GiveBack` are the loops over the batches, as functions of
what the older (newer) batches leave.  `BreakDeadlock` is the database's
deadlock detection, `Refuse` a shortage or a bill that another closed.  `moved`,
`drawn`, `sold`, `back` and `delivered` add up the movement rows and receipts.

### `FiscalChain` and `WebhookOutbox` (with `MCJobs`, `FiscalProofs`, `ServicesProofs`)

`FiscalChain`: a sale or refund takes a number under its branch's row lock
(`TakeNumber`), its place under the advisory lock (`AppendRecord`) and commits;
`submitAll` (`JobStarts`) and `sendNow` (`PressSend`) send the first records that
are open, the agency keeps what reaches it (`Deliver`), the answers are written
one by one (`WriteAnswer`) and every open record then waits (`Release`,
`BecomeDue`).

`WebhookOutbox`: `hook` are the rows, `queue` those that are due in the order of
`nextAttemptAt`; `Claim` is the conditional update that takes a row, `Request`
the call, `Finish` the write of its outcome.  `Slow` allows a call that outlasts
the lease; the run excludes it, since `TIMEOUT_MS` is a fifteenth of `CLAIM_MS`.

### `PhoneOutbox`, `Payables`, `Floor`, `PlatformOrders`, `Backup` (with `MCServices`, `ServicesProofs`)

`PhoneOutbox`: a tap is tried at once (`MakeTap`, `ServerTakes`, `Answered`) and
queued if no answer comes (`Unanswered`), or lost if the phone cannot store it
(`NotStored`); `flushOutbox` works through the list it read at its start
(`FlushStarts`, `FlushSends`, `FlushNext`, whose write may fail and leave the tap
in the queue, `FlushEnds`) while taps go on.  `notices` is `lastRefused`, of which
only the last stay (`StillShown`), until the cook dismisses them
(`CookDismisses`).  `fate` remembers what became of a tap.

`Payables`: `recordPayment` and `cancelInvoice` as read and commit.

`Floor`: every writer of a table's tile.  A request
that closes or moves a bill is three steps, as in `Orders`: its reads (`AskFor`),
the count of `releaseTableIfIdle` (`CountOthers`) and the commit (`CloseBill`,
`MoveBill`); a change by hand checks for open bills in one step and writes in
another (`ReadForChange`, `WriteChange`).  `blame` remembers which writer, if any,
wrote a tile although a bill was there.

`PlatformOrders`: `order.created` and `order.cancelled` of one order, repeated
at will, against staff and a till that draw from the same order numbers
(`ReadNumber`, `InsertOrder`, `InsertClashes` with its three attempts).

`Backup`: `runBackup` by its awaits (`BackupBegins`, `BackupDumps`,
`BackupUploads`, `BackupVerified`, then `RetentionReads` and, for each stale
backup, `DeleteObject` and `DeleteRow`).  `row` and `place` are in the database,
so a `dump` holds a copy of both and `RestoreLoads` puts it in their place, while
`object` (the bucket) and `copy` (runs in progress) go on.  `verifiedAt`, `verified`
and `restoredAt` keep the order of verifications, which the rows carry as times.

These components with `Checkout`, and those of `MCJobs`, share no state.
`MCServices` and `MCJobs` put them side by side: the variable `part` says which of
them a behaviour is about, the others stay as they begin.  A run is therefore the
sum of the instances of its parts and not their product, and the fairness of a
part that does not run asks nothing, its actions being disabled by `part`.

## 3. Runs

| Run | Instance | Shows |
|---|---|---|
| `orders_scheduled` | 1 order, 2 lines at 2 stations, 3 tickets, 2 requests and the job | the first answer to an online order stands, nothing unaccepted is settled, a closed bill takes no money, tickets only move along `order-lifecycle.ts`, each line is ticketed once, and a due line gets to the kitchen |
| `orders_sequential` | 2 orders, 2 tables, 2 lines of up to 2 units, all handlers, one request at a time | totals, tables, part-payments and refused orders agree after any sequence of calls |
| `gateway` | 1 link, 2 refunds, 2 requests, bill of up to 2, all failures | `ImplementsLedger` and no money lost track of |
| `gateway_webhook` | 1 link, failing lookups, nobody polling | *violated*: `WebhookSettlesOrFlags` |
| `sync` | 2 PCs and a server, 2 rows, pages of 2, 2 writes with deletes and ties, pruning | `Converges`, `NewestWins`, `NeverOlder` |
| `sync_pages` | 1 PC, pages of 1, no write at all | *violated*: `EveryRowArrives` |
| `offline` | 2 sales, batches of 1, 2 calls, all failures | `SyncedIsRecorded`, `RefusedIsNotRecorded`, `EverySaleIsAnswered` |
| `offline_twice` | 1 sale, 2 calls, timeouts | *violated*: `RecordedOnce` |
| `services`, part checkout | 2 bills of one guest, 1 friend, 1 card, 1 coupon, 2 requests at once, 3 in all | `PointsAddUp`, `SharedFundsHold`, `RewardPaidOnce`, `RefundsWithinBill`, `RequestTakesMoneyOnce` |
| `services`, part phone | 3 taps, or 2 and a closing of the app; 1 notice kept, failing storage | `NoTapVanishes` |
| `services`, part payables | 1 invoice of up to 3, 2 bookkeepers | `PaidIsBacked` |
| `services`, part platform | 2 messages at once, 4 in all, 2 staff, 5 numbers | `PlatformIsToldTheTruth` |
| `services`, part backup | 3 backups, 1 kept, 2 runs at once, 2 settings, restores or faults in all | `KeptUntilReplaced` |
| `services`, part floor | 2 tables, 2 bills, 2 requests at once, 1 change by hand at a time, 1 reservation or 1 waiting party | `OnlyKnownWaysHideABill` |
| `jobs`, part stock | 2 ingredients, 1 order, 1 purchase order, 2 transactions at once, 3 in all | `BatchIsItsMovements`, `OrderMovesStockOnce`, `CountsOnlyDeliveries`, `EveryJobEnds` |
| `jobs`, part fiscal | 2 sales in 2 branches and a refund, 2 tills, batches of 2, 1 fault, 1 use of the button | `ChainUnbroken`, `ReportedInOrder`, `EveryRecordIsAnswered` |
| `jobs`, part hooks | 2 events, 2 runs of the job, batches of 1, 2 attempts, 1 mishap, 1 switch of the endpoint | `SentAgainOnlyAfterMishap`, `EveryEventEnds` |
| `stock_ledger` | as part stock | *violated*: `StockIsItsMovements` |
| `payables_lost` | as part payables | *violated*: `AmountIsItsPayments` |

Why the bounds are enough.  Every race listed under *hazards* is between two
requests about one order (or one source and one target of a merge), so two
requests and one or two orders reach it; a third request adds no new pair.
Three tickets let two stations and a second round meet.  `orders_sequential`
uses one request because several of its properties are known to fail under
concurrency (section 5): what it shows is that the handlers themselves, whatever
the sequence, keep the rows in step.  A bill of 2 lets a refund be partial and
two refunds overlap; both refunds of one payment is where the hold can fail.
Two writes and two PCs reach a tie, a write that crosses a push or a pull, and a
deletion that crosses either; pages of 2 make the four log entries of two writes
with a cascade span pages.  Two sales in batches of one make a push of several
calls, which the answer of an earlier call may interrupt.

In `services` and `jobs` two requests at once are again every pair.  The third
request of part checkout is the one that comes after two overlapping ones (a
refund after two payments), that of part stock a return after a sale or a second
receipt: lots of 1 and 2 for a purchase order of 2 let it be received in parts.  Subtotals of 4 and 3 with points, card and coupon of 1 to 3 let each of
them cover a bill only in part and run out.  Three documents give a refund its
sale and a second branch its own numbers on the same chain; a batch of 2 leaves
one of them over.  Batches of one make two events wait for each other.  Three
taps make a flush meet a tap made before, during and after it; with one notice
kept (the code keeps ten) two refusals are enough to push one off the screen.
When the app is closed two taps are enough (`FewTaps`): what survives is the queue,
and a tap made later meets it.  Three backups of
which one is kept let two clean-ups overlap and a restore undo the first; two
turns (`MaxTurns`) are a restore and one thing that goes wrong around it.

In part floor the two requests are one that frees a table and one that brings a bill
there, or two that free it; opening a bill is a step of its own and may come
between any two of theirs.  `FewGuests` keeps reservations and waiting
parties in behaviours of their own, and lets no change by hand be under way once
there is one: guests write a tile in one step and look at nothing, so they add
nothing to what a change does to a bill.

Symmetry is used only in runs without temporal formulas about progress
(`orders_sequential`, `sync`, and `services`, where one pair of names stands for the
tills, the cashiers, the bookkeepers, the messages and the staff).  Deadlock is
not checked: bills close, bounds on ids run out and the system may then rest.

Fairness.  `CronSpec`: the job is `@Cron(EVERY_MINUTE)` and a run goes through
its list.  `PolledSpec`/`WebhookSpec`: a request runs to its end unless the
server stops; a lookup or write repeated again and again succeeds in the end;
and either the guest's return page or the cashier's screen keeps asking (both
poll), or the provider repeats its webhook until it is acknowledged.
`LiveSpec`: the phone tries again every minute, the server's handling of a call
goes on, and a call is not cut off at the same point every single time.
`StockFair`: a transaction goes on, and the queue of a row lock is served in its
order, so a request that can lock again and again does (strong fairness).
`FiscalFair`: the job runs every minute, a call ends by its timeout and waiting
times pass; the job is treated strongly because a new record or the button may
make its list wait just then.  `HookFair`: the job runs every 10 seconds, a call
ends by its timeout, back-offs and leases pass.  The faults of these two are
bounded (`Faults`, `HookFaults`): a service that fails for ever leaves VERI*FACTU
records open, which is what the code means to do.

## 4. Disagreements between the code and what it says

Each is the shortest counterexample of a run, with the quotation in
`PROJECT.json`.

1. **A failed lookup while a webhook is handled is not retried**
   (`gateway_webhook`).  `refresh` logs the failure and returns, the event is
   recorded, the repetition is answered as a duplicate.
2. **A row whose parent comes on a later page is lost** (`sync_pages`).
3. **A sale refused on the phone may be settled** (`offline_twice`).  The phone
   gives up between `create` and `checkout` and sends the sale again; the second
   call finds an open order and refuses; the first settles it; the owner enters
   it a second time as asked.
4. **The stored stock is not the sum of its movements** (`stock_ledger`).  A
   receipt (or a waste entry, a sale, a correction) reads the stock, another
   transaction changes it and commits, the first writes read plus received.  The
   batches are right, since they are read under the lock.
5. **A payment of a supplier invoice is lost** (`payables_lost`).  Two payments
   read the same amount; the second sum replaces the first.  What is shown as
   paid is then too little, and the supplier may be paid more than the total.

## 5. What else the code does not guarantee

Stated in the modules or noted here so that nobody relies on it.

Orders
- `PrepaidReachesKitchen`: create an order for later; check it out; its time
  comes.  The job looks at `OPEN` orders only, and the order is never cooked.
- `NeverOverpaid`: two part-payments compute the balance first and both commit,
  since their guard is the status.  In `Checkout` the same two both fix the
  discount (`BillFixedOnce`): the second redeems points under the ledger key of
  the first, so the balance loses points that no ledger row shows.
- `PaidIsNeverCancelled`: merge reads source *s* open; *s* is checked out; the
  merge commits and *s* is CANCELLED with its money.
- `CancelledHasNoMoney`: cancel reads no payments; a part-payment commits; the
  cancellation commits, its guard being the status.
- `PendingStaysOutOfKitchen`: `addItems` tickets the items of an order that is
  still waiting for acceptance, and `acceptOrder` then tickets the lines it read
  again.  `addItems` is left out of `orders_scheduled` for that reason, which
  is a limit of what that run shows.  On an accepted order that is scheduled for
  later, `addItems` makes the job skip the original lines (it takes orders
  without any ticket).
- Two overlapping runs of the job ticket an order twice, although the job is
  said to be safe to call repeatedly; one run at a time is assumed (`Crons`).
- `RejectedTicketIsKept`: `removeOrderItem` sets every empty ticket of the order
  to CANCELLED, refused ones included.
- `PartPaidBillIsFixed` under concurrency: `addItems` does not look at payments
  again in its transaction.  `TotalIsSumOfLines`: two rounds at once lose one of
  the subtotals.
- `OpenBillHoldsItsTable` under concurrency, and `TableIsNotBlanked` of `Floor`: a
  bill leaves table *t*, by checkout, cancellation or a move; the count of
  `releaseTableIfIdle` finds no other; a bill is opened at *t* and commits; the
  update sets *t* AVAILABLE.  No lock is taken on the table, though the comment
  of `releaseTableIfIdle` says that "this order is done" must not blank the table
  out from under another bill.  `OccupiedTableHasOpenBill`: two moves of one bill
  at once leave the first destination occupied.
- `RefusedOrderIsWithdrawn` under concurrency: the last two tickets refused at
  once each see the other as live.

Online payments
- `OneLinkPerBill`: two cashiers who ask at once find no reusable link and make
  two payable ones for the same amount.
- `AmbiguousIsFlagged`: the provider carries a refund out and answers with an
  error, say a 502 of a proxy.  Every answer that is not 2xx counts as a definite
  refusal, so the row is FAILED, is not listed for review, and its amount may be
  refunded again; what then stops the second refund is the provider's own limit.
  The comment of `refund` has anything ambiguous flagged for a person.
- A crash between the claim and the end of `apply` leaves the payment claimed
  for good (variable `lost`); `ChargeIsSettledOrFlagged` excepts it.
- A refund the server stopped in stays PENDING: its amount stays held, but it is
  not among those listed for review.

Sync
- With deletions and three writes replicas can differ for good: a PC deletes a
  parent (and with it the child) while its own change of the child is being
  pushed and a newer change of the parent comes from the server; the parent
  returns, the child does not, because the PC's own change is left out of what
  it pulls.
- With three writes, two deleting a parent: pushing the deletion of a parent that
  is gone at the server already leaves no trace in the server's log, and an older
  change of another PC then brings the row back there.  `NewestWins` and
  `Converges` therefore are checked for two writes.
- A conflict is reported at the end of a cycle only, and not at all if the cycle
  is cut off.  Clock skew, two writes of one row in one millisecond, sequence
  numbers that become visible out of order, and a change older than the log is
  kept are outside the assumptions.

Stock
- A receipt writes `quantityReceived` from what it read before its transaction:
  of two overlapping receipts of a line the second replaces the first (an order
  is never RECEIVED too early, but may stay PARTIALLY_RECEIVED for good), and a
  receipt that overlaps a cancellation takes the order out of CANCELLED.

Fiscal chain
- A record whose answer was lost is sent again, and so is one that the job and
  the button send at once; the agency answers the repetition as a duplicate, and
  the answer that is written last stays: an accepted record may end as REJECTED.

Webhooks
- A call that outlasts its lease (`Slow`) may be sent twice without any mishap,
  and a late failure reopens a row another attempt had marked as SUCCESS.

Supplier invoices
- A payment that overlaps a cancellation sets a cancelled invoice to PAID, or is
  on record for an invoice that then is CANCELLED.

Floor
- A reservation set to COMPLETED, CANCELLED or NO_SHOW frees
  its table, also with an open bill on it; a new reservation shows a table with
  a bill as RESERVED.  `seat` of the waiting list looks at nothing: two parties
  may get one table.  A party that sits already may be cancelled; the table stays
  occupied.

The kitchen's phone
- A step that was applied and whose answer was lost is sent again and reported as
  refused.  A newer star tapped directly may be overtaken by an older one that
  waits in the queue.
- A tap without an answer that cannot be stored is lost without a word, as the
  comment in `outbox.ts` says; a sent tap that cannot be taken out of the queue is
  sent again by the next flush.
- Only the last ten refusals stay on the screen; older ones go unread.

Backup
- `AlwaysOneToRestore` (the comment of `enforceRetention`: "never a window with
  zero backups").  The dumps are there, but the screen may offer none of them:
  after a restore the list is that of the time of the dump, in which the restored
  backup itself is still PENDING and older ones may have lost their objects; after
  another bucket is set, the rows name objects of the old one; and an error after
  VERIFIED (a notification) turns the row to FAILED when the one before is
  deleted already, which with `retainCount` 1 was the last.
- A run that a restore overtakes finds its row gone; its objects, like those of
  rows a restore took away, stay in the bucket for good.

Aggregators
- A cancellation that meets an accept half-way is answered with an error and not
  flagged for a person (`attention`) as one that comes later is.

## 6. Assumptions and abstractions

- One statement, and one transaction's writes, are atomic; reads outside are
  not.  Inside a transaction of `Orders` and `Floor` only the count of
  `releaseTableIfIdle` is taken apart from the commit.
- Ids are never used twice.  Prices, names, discounts, tips, points, gift cards
  and fiscal records are left out of `Orders`.
- `GatewayPayments`: one order; the polling throttle only makes a refresh not
  happen; signature checks are not modelled, since a webhook only makes the
  service ask the provider.
- `ServerSync`: `InTime` (time does not go on while some device's write is
  older than `Retention`, a day in the code, and is not on the server, or was
  pushed by the cycle under way, which its end has still to prune:
  `PushedBefore`), one clock, writes at one time are concurrent (`instant`), a page is
  applied at once, entries become visible in the order of their numbers, a
  deleted row is not created again.
- `OfflineSales`: one phone; whether an order's content is accepted is free.
- `Checkout`: one card, one coupon, one friend; a point is worth one unit; taxes,
  tips and rounding are left out; the orders' lines do not change meanwhile.
- `Stock`: costs, units and expiry are left out; a batch is never deleted; the
  database detects a deadlock of two transactions and ends one of them.
- `FiscalChain`: one issuer and environment, a series belongs to one branch; the hash is the number of the record
  before; the agency keeps what reaches it and refuses what it has, its limit of
  a call is `Batch`.
- `WebhookOutbox`: one endpoint; `Slow` is FALSE.
- `Backup`: one restore at a time; the archive of uploads goes with the dump;
  `retainCount` does not change; verification times are in the order of the
  writes; a restore shows all its tables at once or leaves them empty.
- `Payables`: an invoice's payments are never deleted, as in the code.
- `Floor`: a bill is open at a table or not (the rest of it is in `Orders`); the
  row locks on a bill, which only rule out some orders of the steps of two
  requests about the same bill, are left out; one change by hand at a time.
- `PhoneOutbox`: one ticket; storage fails by itself at any write.
- `PlatformOrders`: one order of the platform, which is not deleted.

## 7. Proofs

TLC shows a property on the instances of section 3; the theorems below hold for
every value of the constants, under the one `ASSUME` of each module.  A lemma
named after an action (`...Sound`, `...IsSound`) says what that action keeps.

### `OrdersProofs`, under `OrdersAssumption`

Any number of orders, lines, tickets, tables, requests and job runs, any choice
of handlers.

| Theorem | States |
|---|---|
| `TypeCorrect` | `Spec => []TypeOK` |
| `UnacceptedSafe` | `Spec => []UnacceptedNeverSettled`: money is taken only for orders that needed no acceptance or were accepted |
| `DecisionStands` | the first answer to an online order is final |
| `ClosedBillSafe` | a settled, cancelled or merged bill takes no money |
| `FloorPlanIsRight` | `OneAtATime => (Spec => []TablesMatchBills)`: if requests do not overlap, a table is shown occupied exactly as long as a bill is open on it |
| `LinesAreCookedOnce` | `LinesStay /\ OneJobRun => (Spec => []LineTicketedOnce)`: no line is on two live tickets, however requests overlap |
| `TicketsMoveForward` | under the same condition, a ticket only moves forward and keeps its lines once answered (`KitchenMovesForward`) |
| `TotalsAreRight` | `OneAtATime => (Spec => []TotalIsSumOfLines)`: the total of an unpaid bill is that of its lines |
| `RefusedIsWithdrawn` | `OneAtATime => (Spec => []RefusedOrderIsWithdrawn)`: no order stays open with refused tickets only |
| `PartPaidIsFixed` | `OneAtATime => (Spec => PartPaidBillIsFixed)`: no step changes what a part-paid bill comes to |

`UnacceptedNeverSettled` is not inductive: `checkout` reads the acceptance
before its transaction and does not look again.  `Inv` adds what such a request
may rely on (`RequestsOK`): once its reads passed, the order is accepted or
needed no acceptance, and `acceptOrder` and `withdrawOrder` only ever answer an
order that is PENDING.  `SoundStep` says of every action that it leaves each
order row kept, created, answered, cancelled or paid; both action properties
follow from that list and not from the actions one by one.

`FloorPlanIsRight` is about handlers that do not overlap (`Workers` has one
element at most; the job and the clock may come in between), as in the run
`orders_sequential`: when they do overlap, the property fails (section 5).
`PlanInv` is the equivalence of tables and bills together with `Timely`: what
the one request in flight remembers (its bill, the table to free, the count) is
still so at its transaction.  `ClosesBill` is the common argument of checkout,
merge, cancellation and refused ticket, `UpdateKeepsPlan` that of a move.

The two theorems on the kitchen allow any number of overlapping requests, with
one run of the job at a time (`OneJobRun`) and without the two handlers that
ticket lines twice by themselves (`LinesStay`: `addItems` on an order that waits
for acceptance, and merging with one; section 5).  They are the conditions of
`orders_scheduled`.  `KitchenInv` says where a line can still be ticketed: an
order that waits for its answer or its time is uncooked (`WaitingIsUncooked`),
and only the list of the job run in flight may hold lines that are on no ticket
(`StillToCook`).  `KitchenStep` lists what a step may do to a line, a ticket and
an order; both theorems follow from that list.

The three theorems on the bill are for requests that do not overlap, like the
run `orders_sequential`; the job and the clock may come in between.  `BillInv`
ties the total to the lines (`TotalIsSumOfLines`) and says that what the request
in flight read is still so (`Current`), and of a job run that its lines are on
orders it read as due (`ReadAsDue`).  `BillMoves` says of every order that a step
keeps, redoes, pays or closes its bill.  A total is the size of a set of units, so
that a round, a removal and a merge are disjoint unions.

### `GatewayProofs`, under `GatewayAssumption`

Any number of links, refunds and requests, any bill, any choice of failures.

| Theorem | States |
|---|---|
| `TypeCorrect` | `Spec => []TypeOK` |
| `RowsTellTheBooks` | `Spec => []RowMatchesBooks`: a payment row never says other than what the bill holds |
| `NeverRefundsMore` | `Spec => []RefundsWithinPayment`: no more is sent back than came in |
| `RefundsNeverLost` | `Spec => []RefundsTracked`: what went out is not FAILED, what is SUCCEEDED is in the books, and all refunds stay within the bill |
| `ServiceImplementsLedger` | `Spec => ImplementsLedger`: every step is one of `PaymentLedger`, or changes nothing there |

The three on refunds speak of `sent`: refunds carried out that were answered as
such, or not answered, or whose answer the server did not live to see.  A refund
carried out under an error answer is in `erred` and outside all three; the
service marks it FAILED (`AmbiguousIsFlagged` does not hold, section 5).

`Inv` says, for each point a request can be at after an `await`, what is still
true there: `KnowsPayment` and `KnowsRefund` (the provider's answer `PAID` or
`EXPIRED` does not change any more; a request between claim and `done` works on
a claimed row), `Exclusive` (no two requests insert, settle or refund one row),
`ReservedOK` and `HeldOK` (what is reserved, sent or in doubt stays within the
payment, because `refund` reserves under the row lock, and a hold is given up
only if the provider refused).  `RowOK` ties the row to the bill.  The
refinement has a lemma per action that the ledger can see, for `Charge`, `Book`
and `Return`; the others are `QuietStep`s.  The sum of a payment's refunds is
counted as the size of a set of units (`HeldUnits`), because a sum over a set is
a recursive function and would need induction over data.  `RefundsTracked` needs
more than `Inv`: `Covered` counts among the refunds in the books also those that
the bill has and whose row is not marked yet (`Written`), since `RecordRefund`
comes before `RefundDone`.

### `SyncProofs`, under `SyncAssumption`

Any number of devices, writes and cut-off cycles, any page sizes and retention,
as long as no row is deleted (`NoDeletes`); with deletions the replicas may
differ (section 5).

| Theorem | States |
|---|---|
| `TheNewestWins` | `NoDeletes => (Spec => []NewestWins)`: once everything was exchanged, the server holds the newest change anybody made |
| `AllConverge` | `NoDeletes /\ PullPage > 1 => (Spec => []Converges)`: and every device holds what the server holds |
| `NeverGoesBack` | `NoDeletes => (Spec => NeverOlder)`: no step replaces a version by one made earlier |
| `InvariantsHold` | `NoDeletes => (Spec => [](ServerInv /\ DeviceInv))`: the inductive invariant |

None of the three is inductive: they speak of what is held and say nothing of
the pages on their way, of what was pruned or of a cycle that was cut off.

*The server* (`ServerInv`).  Every log rises in time per row (`LogsRise`), which
at the present instant needs that who may still write has not (`WritesLater`).
The server holds what the last entry of a row says and prunes nothing
(`ServerHolds`).  What a device has pushed, and what a page it sends stands for,
is `Covered` by an entry at least as new (`PushSound`): `compact` sends one
change for many, and the server refuses what it has something newer for.

*A device* (`DeviceInv`).  What it holds of a row is the newest of its own writes
and of what others wrote up to some place of the server's log (`Newer`,
`Holds`).  That place is not `since`: a cycle that is cut off after a page was
applied leaves its rows ahead of the bookmark, by one page at most, and the same
page may come back longer.  `SeenSound` is about pruning: an entry the device
deleted from its log is covered at the server before `since`, so that no page to
come is older; and what it has pushed but not yet seen come back is young enough
not to be deleted.  This is where `InTime` and the order of a cycle, pull before
push before prune, are needed.  `PageSound` says what a page on its way holds.

From these: a device that applied the whole log holds the server's last entry of
the row, or an own write that is as new, which is the same write
(`OwnIsOwn`, `VersionsAgree`).  With pages of two or more the first page brings
every row (`SeedsFirst`, `AllArrive`).  A pulled change is written only if it is
as new as anything the device ever logged or applied (`PageIsNews`, `DueIsNews`).

### `OfflineProofs`, under `OfflineAssumption`

Any number of sales and calls, any size of a batch, any choice of failures.

| Theorem | States |
|---|---|
| `TypeCorrect` | `Spec => []TypeOK` |
| `SyncedAreOnTheBooks` | `Spec => []SyncedIsRecorded`: what the phone calls synced is settled |
| `RefusalsStand` | `Spec => []RefusedIsNotRecorded`: what it calls refused is not, but for the cases `raced` names |

The core of `Inv` is `WithOneCall`: a sale that was not sent again too early is
with one call at most, and that call knows how far its order is.  So at the
moment a call answers "refused", the sale is `Over`: not settled, and with no
call that could settle it.  `PhoneOK` and `CallsOK` carry that from the call's
results to the answer and from the answer to the phone's store.

### `CheckoutProofs`, under `CheckoutAssumption`

Any number of bills, customers, cashiers and requests, any amounts and limits.

| Theorem | States |
|---|---|
| `TypeCorrect` | `CheckoutSpec => []TypeOK` |
| `PointsMatchTheirLedger` | `CheckoutSpec => []PointsAddUp`: a customer's points are what they had plus the ledger's rows, and never below zero |
| `NothingIsSpentTwice` | `CheckoutSpec => []SharedFundsHold`: card and coupon are not used beyond what they were issued for |
| `RequestsAreOnce` | `CheckoutSpec => []RequestTakesMoneyOnce`: a repeated request takes money once |
| `RefundsFitTheBill` | `CheckoutSpec => []RefundsWithinBill` |
| `RewardsAreOnce` | `CheckoutSpec => []RewardPaidOnce`: both sides of a referral are rewarded together, once, after a paid bill of the minimum |

The hard part is the ledger.  Its rows have unique keys and a repeated row is
dropped, so points and rows agree only if the rows a checkout makes are never
there before.  `RowTells` reads a key as a statement about the past (this bill was
fixed, this bill was paid, this referral was rewarded); with it `CommitAddsUp`
shows that what a commit makes is new and moves the ledger by what it moves the
points.  The sums are sizes of sets of units (`OneBox` adds the units of one more
row).  The gift card is not protected by its read, which is made without a lock,
but by the guard of the update (`Covered`): all the proof uses of the read is that
it is a number.

### `StockProofs`, under `StockAssumption`

Any number of ingredients, batches, orders, purchase orders and transactions.

| Theorem | States |
|---|---|
| `TypeCorrect` | `StockSpec => []TypeOK` |
| `BatchesAreTheirMovements` | `StockSpec => []BatchIsItsMovements`: a batch holds what came in less what the movements took, never less than nothing |
| `OrdersMoveStockOnce` | `StockSpec => []OrderMovesStockOnce`: a paid order took its plan once, and no more comes back than was taken |
| `PurchasesCountDeliveries` | `StockSpec => []CountsOnlyDeliveries` |

A commit writes what was computed under row locks earlier.  `HoldsItsLocks` says
that a transaction writes only what it holds locked and that the batches of those
ingredients are still as it read them; `SparesWhatIsHeld` says that no step of
another one changes them.  `TakesWhatIsThere` and `FollowsThePlan` are about the
plan itself: `Fifo` and `GiveBack` are folds over the batches, and their two facts
(never more than a place has, all that was asked for if there is enough) are
proved along the order of the places.  `BatchesPromised` keeps a number for every
batch under way, since numbers are bounded.  `StockIsItsMovements` is not among
the theorems because it does not hold (section 4): the stored stock is read
before the lock.

### `FiscalProofs`, under `FiscalAssumption`

Any number of branches, documents, tills and of records in a request.

| Theorem | States |
|---|---|
| `ChainNeverBreaks` | `FiscalSpec => []ChainUnbroken`: records follow each other, and each series is numbered without a gap |
| `AgencyHasABeginning` | `FiscalSpec => []ReportedInOrder`: what the agency has is the beginning of the chain |

`Books` says what a transaction may rely on while it holds its locks: the
number it took is still the next one of its series (`Locked`, under the branch's
row lock) and the end of the chain it read is still the end (under the advisory
lock), so that a commit appends and a rollback leaves no gap.  `Reporting` is
about requests in flight: the agency has everything before the first record of a
request that the request does not bring itself (`RunOK`), and has all that is no
longer open (`Closed`).  Both survive a second request at the same time, because
what the agency has only grows.

### `ServicesProofs`

The small services share no state; each has its invariant, lemmas and theorem in
a part of this module.

**Supplier invoices**, under `PayablesAssumption`.  Any number of invoices and bookkeepers, any amounts.

| Theorem | States |
|---|---|
| `InvoicesAreBacked` | `PaySpec => []PaidIsBacked`: an invoice never shows more than its total or its payments, and PAID means in full |

`PaidIsBacked` alone is not inductive: a commit writes a sum computed earlier.
`Fits` says of every payment in flight that its sum fits the total and the
recorded payments together with its own amount.  Both survive what others commit
meanwhile (`Steady`): a total never changes and payments only add up.  The proof
also shows where the code falls short: nothing ties the sum from below, which is
`AmountIsItsPayments` and does not hold.

**Aggregator orders**, under `PlatformAssumption`.  Any number of requests of the platform, of staff and of tries.

| Theorem | States |
|---|---|
| `PlatformTold` | `PlatformSpec => []PlatformIsToldTheTruth` |

An answer is given in the step that makes it true, so the proof is about what
later steps may do.  `PlatformInv`: there is one row at most, a row that waits for an
answer was not cooked, and one that the platform withdrew is CANCELLED and never
was; neither staff nor the till have a step that takes that back.

**Backup**, under `BackupAssumption`.  Any number of backups and buckets, any number kept, any overlap of runs.

| Theorem | States |
|---|---|
| `BackupsAreKept` | `BackupSpec => []KeptUntilReplaced`: a dump stays until enough newer ones were verified |

A clean-up works from a list that may be old.  `ListsAreOld`: everything on any
list was verified and had `Retain` newer backups; that a backup is newer than
another does not change (`NewerGrows`), so it holds however late the list is
used, also when a restore has changed the rows meanwhile.  `RowsAreTrue` is
needed for the dumps too, since their rows come back.

**Floor**, under `FloorAssumption`.  Any number of tables, bills, requests, reservations and waiting parties.

| Theorem | States |
|---|---|
| `SeenBillsAreNotHidden` | `FloorSpec => []OnlyKnownWaysHideABill`: what hides a bill is a reservation, or a check or count the bill overtook |

A step writes one tile, a move two.  `ShowHidesNothing` is the argument for one:
the tile becomes OCCUPIED, or something is to blame, or no bill is left there.
What it needs is that a check and a count are still true when they are used, or
were overtaken: `CheckHolds` and `CountHolds` say so, and `ArrivalHolds` is the
step that could break them, a bill that comes to the place.  `blame` only
remembers; the theorem is that a bill that was there at the check or the count is
never hidden, and that opening bills and seating guests hide none.  That a count
may be overtaken is why `TableIsNotBlanked` does not hold (section 5).

**Outgoing webhooks**, under `HookAssumption`.  Any number of events, attempts,
runs of the job, lost answers and restarts.

| Theorem | States |
|---|---|
| `RepeatsAreExcused` | `~ Slow => (HookSpec => []SentAgainOnlyAfterMishap)`: the endpoint gets an event again only for an answer that was lost or a restart |

A row with an attempt under way is not due (`Leased`), so it has one attempt at a
time (`OneAttempt`), and what may still be sent has no delivery behind it without
a mishap that explains it (`Excused`).  `~ Slow` is the proportion of `TIMEOUT_MS`
and `CLAIM_MS`: with a call that outlasts its lease the property fails (section 5).

**The kitchen's phone**, under `PhoneAssumption`.  Any number of taps, lost
answers, failing writes, notices kept and closings of the app.

| Theorem | States |
|---|---|
| `TapsAreKept` | `PhoneSpec => []NoTapVanishes`: a tap is applied, replaced, waiting, or its refusal was or is shown, unless the app was closed over it, it could not be stored, or newer notices pushed its refusal off |

A tap is in one place at a time (`OnePlace`), so that a flush that takes out what
it sent takes out nothing else.  `ListIsBacked`: what a flush has on its list is in
the stored list too, or its fate is known; that is why taps during a flush and a
closing in the middle of one lose nothing that was stored.  `KeptOrDropped` says of
the notices that what is not kept on the screen is what `fate` calls cut.

### Only model-checked

- Liveness (`ScheduledReachesKitchen`, `ChargeIsSettledOrFlagged`,
  `EverySaleIsAnswered`, `EveryJobEnds`, `EveryRecordIsAnswered`,
  `EveryEventEnds`): fairness and `ENABLED` are out of the prover's reach.
- `Converges`, `NewestWins` and `NeverOlder` of `ServerSync` with deletions, for
  two writes: with three the first two do not hold (section 5).  `Converges`
  for pages of one change does not hold either (`sync_pages`, section 4).
- `LineTicketedOnce` and `KitchenMovesForward` with overlapping runs of the job,
  and `TotalIsSumOfLines`, `RefusedOrderIsWithdrawn`, `PartPaidBillIsFixed` and
  `TablesMatchBills` with overlapping requests, do not hold (section 5); the
  theorems name the condition.
- The properties of the violation runs, which do not hold.

The type invariants are proved with the invariants of their modules and are not
part of a run.

## 8. Not modelled

- Adapters of payment providers, printing, update, launchers and the
  screens of the web app are input and output.
- Menu, customers, HR, accounting, reports, marketing and settings are records
  edited by one person at a time or figures derived from others.
- Notifications, sockets and the audit trail are told and never asked.
- Deliveries and riders: `delivery.service.ts` and `rider.service.ts` read a
  delivery and write it without any guard; two updates that overlap may take a
  delivery back from DELIVERED.  There is no promise to check.
- Sign-in: sessions, passwords and second factors; two checks (the first owner,
  the last owner) are made before the write they protect and not repeated.
- Purchase requests and quotations: states set by one user.
- Of the modelled parts: see the notes of `PROJECT.json`, in particular
  `deleteFinishedOrders` of orders, cancellation records of VERI*FACTU, overlap of
  reservation times, and the spending of a wallet.

## 9. Plan

1. Proofs: `NeverOlder` of `ServerSync` with deletions.
2. `deleteFinishedOrders` in `Orders`, next to a platform that repeats its
   messages and a phone that repeats its sales: both find orders by an id that
   the clean-up removes.
3. Composition of `GatewayPayments` and `OfflineSales` with the two-step handlers
   of `Orders` in place of the one-step till.
4. Cancellation records of VERI*FACTU and the agency's answer to a duplicate.

The runs of one component are merged where they can share an instance, so that
each keeps asking a question of its own.
