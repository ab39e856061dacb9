# Verification of WhyNotGrace POS

WhyNotGrace POS is a multi-tenant restaurant system: a FastAPI backend on
PostgreSQL (`backend/app`), a React client (`frontend`) and a few deployment
files. What the business relies on (what was ordered, what is owed, what
was paid, which tax invoice it became) is decided in `backend/app/services`; what
its staff and guests see of it, and which request their next tap becomes, is decided
in the client, from copies that may be old.
These TLA+ modules model both, TLC checks them on small instances,
and TLAPS proves the most important results for every size.

Paths below are relative to the repository; `services/` means
`backend/app/services/`, `models/` means `backend/app/models/`, and `features/`,
`stores/`, `api/`, `routes/` and `hooks/` are under `frontend/src/`.

## How the system runs

A request opens one database session, and `database/transaction.py` makes it
one transaction: commit at the end, rollback on any exception. PostgreSQL runs
at its default isolation, READ COMMITTED. Only three things lock rows before
writing them: the invoice counter (`SELECT .. FOR UPDATE`), and, implicitly,
every `UPDATE` and every `INSERT` of a unique key. Everything else is
read-then-write, so between the read and the commit of one request any other
request may commit. Several workers serve requests at once; guests order and pay
from their phones, the browser and Razorpay's webhook report the same payment
independently, and clients retry.

The client is a single page. Server data is held in TanStack Query caches: a
mutation's success invalidates or replaces some of them, a WebSocket message
(sent *before* the commit it announces, and not repeated) invalidates others, and
some are polled. What belongs to the user alone (the cart, the signed-in session,
a half-filled form) is in stores and component state, some of which survive a reload,
a closed dialog or a change of record, on purpose or not.

## Inventory

| Component | State | Operations | Talks to |
|---|---|---|---|
| Tax invoice numbering (`invoice_service`, `models/invoice`) | a counter row per business and financial year; number on the bill | `allocate`, `peek_next` | called by `billing_service.finalise` in the settling transaction |
| Bills (`billing_service`, `models/billing`) | bills with lines, charges, discounts, totals, `amount_paid`, status, no-charge flag | generate or refresh, discount, void/comp/uncomp a line, void, no-charge, `record_payment_applied`, `finalise` | reads orders and charge bands; releases kitchen tickets; sets the table's status; accrues loyalty |
| Payments and refunds (`payment_service`, `models/payment`) | payments, refunds, webhook events | cash, Razorpay order, verify, webhook, refund | Razorpay; credits bills; attaches cash to a shift |
| Orders and table sessions (`order_service`, `public_order_service`, `models/order`) | sessions (open/closed, table), orders (status, delivery status, table) | create, cancel, transfer, merge, delivery progress, online checkout | creates kitchen tickets; refuses to move a billed session |
| Kitchen tickets (`kot_service`, `models/kot`) | a ticket per order with its status and table | create, release held, status changes | overwrites the order's status |
| Tables and rooms (`location_service`) | status of each table | CRUD, set status | written by orders, bills and staff |
| Charge bands (`charge_service`) | half-open intervals of the order value | create, update, gap report, select | read when a bill is generated |
| Shifts (`shift_service`) | one open drawer per cashier, expected and declared cash | open, attach, count, close | payments, refunds |
| Loyalty (`loyalty_service`) | points, rewards, redemptions | accrue, redeem | called when an invoice is issued |
| Staff authentication (`auth_service`, `core/security`) | lockout counter, refresh-token chain | login, rotate, reset | every staff request |
| Partner intake (`partner_service`, `core/partner_auth`) | nonces, idempotency keys | authenticate, submit an order | `create_order` |
| Menu cache (`core/cache`, `database/session`) | cached menu per business, TTL | read through, invalidate after commit | menu edits, public menu |
| Subscriptions (`subscription_service`) | status and period of a business | lazy expiry, renew, suspend, cancel | gates every request |
| Signed-in sessions (`api/client`, `stores/authStore`, `hooks/useAuthBootstrap`, and the platform's) | access token in memory, refresh token in `localStorage`, queue of calls that wait for a refresh | start of a page, call, refresh, logout | `auth_service` |
| Counter and phone (`features/pos`, `features/qr`, their stores) | cart, place, session of the phone, order watched | edit the cart, send, scan, reload, poll | `order_service`, `qr_service` |
| Till (`features/billing`, `features/payments`) | list of sessions to bill, copy of the open bill, payment field | every button of the bill's dialog | `billing_service`, `payment_service`, live messages |
| Floor screens (`features/kitchen`, `kot`, `orders`, `delivery`, `tables`) | copies of tickets, orders and tables; dialogs | advance a ticket, cancel, bill, move a party | `order_service`, `kot_service`, live messages |
| Record-keeping pages (menu, staff, tables, rooms, charges, customers, loyalty, integrations, settings, shift, platform) | list, dialog, form | open, type, save, delete | CRUD services |
| Navigation and gates (`App.tsx`, `routes/`, `components/shell`, `core/permissions`, `core/dependencies`, `main.py`) | role, modules, the tab's copy of them, suspension | walk, ask, switch a module, lapse | every endpoint |
| Others | | QR entry, import, receipts, reports, notification hub, mail and messaging | see "Not modelled" |

The hard behaviours, each listed with its line under `hazards` in
`PROJECT.json`:

* **Concurrent settlements.** A payment reads the bill without a lock and
  decides from that reading whether to allocate a number.
* **Money that arrives late.** A Razorpay order stays payable after the bill
  was paid in cash, voided or given away. Its capture may be reported by the
  browser, by the webhook, by both, and after a refund.
* **Edits of a partly paid bill.** Totals are recomputed by every edit, and
  the recompute may change the status by itself.
* **A bill is a snapshot.** It copies the session's table and orders, while
  sessions move and merge, and guests keep ordering from a session they read
  a moment ago.
* **Two status machines on one order.** The kitchen ticket, the cancellation
  and the delivery progress all write `orders.status`.
* **Failures between the two halves of a request**: rollback after the counter
  moved, a commit made in order to keep a FAILED payment, a webhook whose
  processing failed.
* **Messages before commits.** A live message goes out while its transaction is still under way, and a
  screen that follows it at once reads the old rows.
* **Screens that act on old copies**: a button is offered from a list that others
  have changed, is pressed twice, or its answer arrives after a newer one.
* **One-shot tokens shared by many calls**: a refresh token may be presented once,
  by a page that has several expired calls and may be reloaded at any moment.
* **State that outlives its context**: a cart after a change of table, a form
  after a change of record, a page after its module was switched off.

What makes each component correct:

* numbering: unique, gapless, never overwritten, and no settlement waits for ever;
* bills: settled means covered; a closed bill is a record; a no-charge bill is
  never a tax invoice; numbers stay with voided bills; one bill to pay at a time;
* payments: each capture is credited once; refunds stay within what was taken;
* floor: a bill, its session and its orders stay together; a ticket follows its
  order; no order is billed twice; closed sessions take no orders;
* sessions: one page never presents a refresh token twice, the two realms never mix,
  and no call waits for nothing;
* ordering: what was tapped is ordered, once, for a place of the right kind; a
  guest sees how the order ended;
* till and floor screens: an offer made from fresh data is accepted, a screen at
  rest is right about what it is told of, one press is one step;
* record keeping: a save goes where it was meant, the list follows the server, the
  form follows the user;
* navigation: links lead to pages that show, pages ask what they may, nothing spins
  for ever;
* shifts: a cashier has one open drawer, expected cash is what crossed it and stays frozen;
* loyalty: a reward is redeemed once; cache: no menu older than the last edit beyond the TTL. (These two are
  planned, see the end.)

## Modules

| Module | Models | Checked by |
|---|---|---|
| `InvoiceRegister` | what the numbering promises: a bill takes the next number of its series, once | implemented by `InvoiceSeries` and `Billing` |
| `PaymentLedger` | what taking money promises: a payment is entered on its bill once, and handed back within what it was of | implemented by `Billing`; kept by `Takings` up to the first overlap |
| `InvoiceSeries` | `finalise` and `allocate`, statement by statement, with row locks, failure, retry, overflow and the change of series | `invoice_all`, `invoice_serial` |
| `InvoiceSeriesProofs` | proofs about `InvoiceSeries` | TLAPS |
| `Billing` | the bills of one session and the money on them: `billing_service`, `payment_service`, online checkout | `billing_all` |
| `BillingProofs` | proofs about `Billing` and, with the same lemmas about sums, `Ordering` | TLAPS |
| `Takings` | requests that take or return money on one bill, statement by statement: `payment_service`, `void_bill`, the webhook event row | `takings_all` |
| `TakingsProofs` | proofs about `Takings` | TLAPS |
| `Drawer` | cash drawers, and the payments and refunds put in them, statement by statement: `shift_service`, `_current_shift` | `drawer` |
| `DrawerProofs` | proofs about `Drawer` | TLAPS |
| `Floor` | tables, sessions, orders, tickets, and bills as far as the floor sees them: `order_service`, `kot_service` | `floor_all` |
| `FloorProofs` | proofs about `Floor`, and about `RecordDesk` | TLAPS |
| `StaffSession` | sign-in sessions of a browser, client and `auth_service` together, for staff and platform | `session_all` |
| `StaffSessionProofs` | proofs about `StaffSession`, and about `Shell`, what a session opens to its user | TLAPS |
| `Ordering` | the counter's and the phone's cart, and the order requests they become | `ordering` |
| `BillDesk` | one till's billing page over the bills of a session | `bill_desk` |
| `BillDeskProofs` | proofs about `BillDesk` | TLAPS |
| `FloorDesk` | the kitchen's, orders', deliveries' and tables' screens | `floor_desk` |
| `FloorDeskProofs` | proofs about `FloorDesk` | TLAPS |
| `RecordDesk` | the pages where records are kept | `record_desk` |
| `Shell` | navigation, guards, requests per page, and the server's checks of role, module and subscription | `shell` |
| `MC...` | constants and symmetry of each for TLC | |

The first five models (and the two abstract specifications) are of the server alone, the last six of a client together with as
much of the server as it talks to. They meet at the requests: what `BillDesk` and
`FloorDesk` let the server do in one or two steps is what `Billing`, `Takings` and
`Floor` take apart.

Three proof modules extend two models each, a server's and a client's. Therefore the specification of each of these
clients has names of its own: `OrderingInit`, `OrderingNext`, `OrderingSpec`, `RecordsNext`, `ShellTypeOK` and so on.

`PROJECT.json` maps each definition to the lines it translates.

### InvoiceSeries and InvoiceRegister

A settlement `t` goes through `idle -> read -> flushed -> ensured -> numbered ->
done`, which are the statements of `record_payment_applied`, `finalise` and
`allocate`. `bill` and `lastNumber` hold *committed* values only; what a
transaction wrote itself is in `mine`. `billLock` and `counterLock` are the row
locks, released at commit or rollback. `INSERT .. ON CONFLICT DO NOTHING` waits for
a concurrent insert of the same key, as PostgreSQL does. The 16-character limit
of an invoice number is the constant `Limit`, and `ChangeSeries` is 1 April or the
owner's toggle. `InvoiceRegister` has one action, `Issue`; the refinement maps a
committed number to `number` and the counter to `top`.

The environment assumption `NoOverlap` (no two settlements of one bill run at the
same time) is not enforced by the code. It is stated as a separate specification,
`SerialSpec`, so that the gapless series and the refinement can be shown where they
hold. `Gapless` under `FairSpec` fails: see "Where code and comments disagree".

### Billing

One action per accepted request, each one committed transaction. One session
per behaviour: a table's, with any number of orders that reach the kitchen at
once, or an online checkout's, with one order whose ticket is held. `Recomputed` is
`_recompute_totals`, `Credit` is `record_payment_applied`, and `StatusesFor` the rule
that sets a status from `amount_paid` and `grand_total`. That comparison mixes a
`Decimal` read from the database with a `float`, so when they are equal the result
is nondeterministic unless the payment was just applied. `ReportCaptured` stands for
both `verify_razorpay_payment` and the first delivery of `payment.captured`: they do
the same to the payment and the bill. `RefundPayment` does not store REFUNDED, because
the code does not: see "Where code and comments disagree".

What is abstracted: amounts are whole units and each order carries one dish;
percentage charges and taxes (they scale the discounted subtotal) are left out and
a flat charge (it does not) is an input. The table's status is in `Floor`. Print
counts, loyalty accrual (it happens where the number is given), shifts, idempotency
keys (an early return) and notifications are left out; webhook event rows are in
`Takings`.
`MaxDiscount` bounds the sum of the discounts on a bill.

`Register` and `Ledger` are the two abstract specifications with what they show read off the bills and payments:
a bill without a number is `NoInvoice`, and a payment has an entry while it is SUCCESS. So bills are numbered here, one
settlement a step, as they are in `InvoiceSeries`, and money moves, one request a step, as it does in `Takings`.

### Takings

The same services one level down: what `Billing` does in one action is here a request
`r` going through statements, and other requests run in between. The stages are
`received` (webhook only: the event was looked up), `recorded` (its row inserted),
`begun` (the payment was read and found applicable), `marked` (its row updated),
`read` (the bill was read again by `record_payment_applied` or `refund_payment`),
`written` (its row updated) and `done`. The variables hold committed values; what
was read is in `req[r]`, what was written appears at commit. A read takes no lock; an
`UPDATE` holds its row and an `INSERT` of a webhook event its unique key until the
transaction ends. Columns are written from what was read, and only if they differ
from it (`Written`), as SQLAlchemy does. Every bill query uses `populate_existing()`,
so the bill is read again at that point, not taken from the session.

`CommitBroken` is the webhook handler's `except`: the settlement after the credit
raised (the invoice number does not fit, or loyalty), and the handler commits the
credit with the event FAILED. `CommitEvent` is a webhook that credits nothing,
`CommitReject` a report with a bad signature, which is committed as FAILED although the
client sees an error. `Fail` is any rollback; the client may send the request again.

`credits`, `applied` and `returned` record what happened. `racedPayment` and
`racedBill` record whether two requests ever worked on a payment or on the bill at the
same time. Several properties hold only without such a race, as the code takes no lock
to prevent it, and they say so; what they say *with* a race (no money made up, every
SUCCESS credited, an event applied once) is the part that READ COMMITTED and the
unique key do guarantee. Two deliveries of one event are not counted as a race: the
unique key keeps them apart, and the properties show that it does.

`Ledger` is the `PaymentLedger` with one bill. Two overlapping reports would enter a payment
twice, or a refund be lost, so `KeepsLedger` promises the ledger's steps up to the first race, which the code does not
prevent, and nothing after it. Failures, retries, rejected reports, broken and repeated webhooks and
late captures on a closed or voided bill are all in it.

Left out: shifts, loyalty, the invoice number (`InvoiceSeries`), the table's status, and
edits of the bill, so the total is a constant and nothing but payments and a void
changes the status.

### Drawer

Requests of cashiers, each a transaction, as in `Takings`: an opening (`opening`, `inserted`), money taken or handed back
(`moving`), a close (`closing`: the shift was read as open; `counted`: `expected_cash` has summed; `updated`: its row is
held). `shift` and `attached` hold committed rows. Money is the set of the payments and refunds it consists of: `counted` is what
`expected_cash` summed, `CashIn` what it would sum now; the opening float, the declared amount and the variance follow from these in one
assignment and are left out. `openKey` is the partial unique index on a cashier's open shift, `rowLock` the shift's row. A payment
refers to the shift without locking it against the close (a foreign key takes a lock that an update of other columns does not wait
for). Whether a shift is required is a toggle, so money without one (`NoShift`) is possible or refused.
Anyone who handles money may close any drawer.

`raced` records the drawers that another request had read as open while a close of them was counted. The code has nothing against
that; `CountIsWhole` and `ClosedIsFrozen` say what holds without it. `DrawersInv` holds with it, by the index.

### Floor

One action per committed request, except `create_order` at a table, which guests run
from their phones. It is split: `FindSession` reads the table and its open sessions,
`PlaceOrder` commits, `GiveUpOrder` is the request that fails, and any staff request
may commit in between. Which open session of a table is found is arbitrary, since
the query has no order. Only whether a table is AVAILABLE is ever tested by the code,
so the status is the set `available`. If the table was read as KITCHEN, the
assignment of KITCHEN writes nothing, so a concurrent change may survive: that is the
choice in `PlaceOrder`.

Statuses that no guard and no property tells apart share a name: `PLACED` is any
unfinished order or delivery status, `NEW` any ticket that may still be cancelled,
`OPEN` also a partly paid bill. Bills appear by their effect on the floor:
`GenerateBill`, `SettleBill`, `SettleByEdit` (the recompute that settles), `PayAgain`
(a late capture), `VoidBill`. `Billing` has their money. `MaxAway` bounds the orders
for pickup and delivery.

### StaffSession

`row` is the table of refresh tokens, `stored` is `localStorage`, `mem` the Zustand stores and the
module variables of `api/client.ts` (`isRefreshing`, the bootstrap promise) per realm and tab,
`call` the API calls with the queue, `pend` the refresh requests that a page awaits and `stray` those
whose page has gone. `rotate_refresh_token` exchanges a live token, and a rotated or revoked one that
comes back revokes the account. A login stores both tokens, a start of a page presents the stored one
once per realm (`bootstrapPromise`), a 401 refreshes unless a refresh is under way, a logout clears the
store whatever becomes of its request. Access tokens expire at any time, answers and requests are
lost. A refresh token and the access token issued with it share a number; password reset appears as
its revocation.

### Ordering

A behaviour follows one screen. The counter has two instances of `CartPanel` (beside the menu, and in the
sheet), each with its own pending flag and an `onOrderPlaced`; the phone keeps cart and session in
`sessionStorage` through reloads. Requests are in `flight` with their owner (mounted, unmounted, gone),
so that an answer may come to a handler whose panel has been closed, or to nobody. `owed` counts what
was tapped less what was ordered, and `slip` remembers what may excuse a difference: the properties say
exactly which interleavings the pending button does not cover. `AddLine` to `RemoveLine` are the
stores' operations; quantities go to `MaxQuantity` by the stepper and beyond by taps.

On the phone's status page polls succeed (`Poll`) or fail (`PollFails`, after which an error stands in the place of the order and the
polling goes on), and stop at one of `TerminalStatuses`. Two things move an order: the staff cancel it and leave its ticket where it is (`StaffCancel`),
and the ticket's steps write the order's status whatever it was (`TicketMoves`). SERVED, DELIVERED and COMPLETED are one status, "ended", which nothing
leaves; "cancelled" is left when the kitchen goes on with the ticket. `GuestSeesTheEnd` says that a guest who stays sees how the
order ended or is told that the link no longer works, and excepts only the guest who had been shown the cancellation of an order that
was served after all: that one is never told (`TerminalIsFinal` below).

### BillDesk

`bills`, `txn` and `since` are the server for one table session: one request at a time, in two steps,
since `ws_manager.notify` is called before the commit. `cache` is the bill query, `list` the list of
unbilled sessions, `fetch` and `stale` their requests (an answer is what the server had when it served
the request). `SetBill` is what the mutations' `onSuccess` does with the answer, `Told` and `PollDue` are the socket
and the 20-second poll, and `AmountAfter` the payment field, which follows the remaining balance
whenever that changes. What each dialog offers comes from `BillDetailDialog`, `BillItemsList` and `PaymentPanel`; what the
server accepts from `billing_service` and `payment_service`. `blind` is set by a lost message or
answer, after which only the polled list promises anything.

### FloorDesk

One screen, chosen with its role by `Init`: kitchen queue, orders with the detail dialog, deliveries, or
tables with the dialog that moves a party. `seen` holds its copies by query, `Invalidated` what each mutation
makes it ask again, `Options` what the dialog of a move offers. Everyone else changes the server by the
same operations.

A request is a transaction in two steps, because `ws_manager.notify` is called before the commit: `Begin` checks it (`Allowed`), and the message is heard
or not; `Commit` carries it out; `Rollback` drops it. A screen that asks between the two reads the old rows, is told nothing afterwards, and counts from the
commit on as `blind` to what the message named (`Missed`). A request of the screen's own is answered after its commit, and the answer has
everything asked for again, so that it needs no message. There is one transaction at a time. The services take no row lock here: two
requests that overlap, and both read the old status, are left out, and with them two presses of a button that both pass.

The page of deliveries lists active deliveries with the order's status beside the delivery's. The keys that tickets, cancellations and new
orders name do not include its own, so `RightAbout` asks less of it than of the others: the deliveries that it shows are as
far as it shows them to be. That the page is right altogether (`DeliveriesAreCurrent`) does not hold between two polls. The row in the orders' dialog is the one that was clicked (`OrdersPage` keeps the order, not its
id), so it goes stale while the list does not.

### RecordDesk

One page of 19, chosen by `Init`, grouped by how its dialog and form live: dialogs that stay mounted
(`DialogPages`), forms that only create (`CreatePages`), forms that are always there (`FixedPages`), and four pages of
their own. `Resets`, `Hydrates` and `Shown` are the conditions under which the code copies a record into the
form. A text is the record it is about and one bit, so "saved into another record" is visible. An item's variants, groups and options are saved on their own,
from inputs that are not reset with the form (`part`); `astray` in a record says that it has one that was typed for another
item. `SavedWhereMeant` is about what forms save, and excepts these and the credentials of integrations; of
variants, groups and options it would not hold (`PartsWhereMeant`). The invalidations
of each mutation are prefixes of query keys, as in TanStack Query.

### Shell

The routes with their guards (`Verdict`), what the side bar, the cards, the banner and the notifications
link to, and what each page asks of the server (`PageCalls`); `Grants` is what the server checks:
role, module, suspension. The copy of the modules (`flagsAt`, `known`) loads, fails, ages and is cleared by a
reload. `KnownRefusals` names the requests that the client makes although the server refuses them:
the banner's for users that are not owners, the delivery list of the home page and the online payment of a bill
without their modules, and the tables' page's administration for the service counter.

## Runs

| Run | Instance | Shows |
|---|---|---|
| `invoice_all` | 3 settlements, two of one bill, 2 series with 2 numbers each | numbers are unique and every settlement ends, under every interleaving, failure and retry |
| `invoice_serial` | same, no overlap on a bill | the series is gapless and the protocol implements the register |
| `billing_all` | 2 orders of price 2 and 1, 2 bills, 2 payments, flat charge 0 or 1, discount 1; of these one bill of both orders with discount or charge, or bill after bill of one (`MCBound`) | no-charge bills are never numbered and settled bills are covered (`SettlementInv`), what a bill shows as paid is what its payments brought and refunds are bounded (`TakingsInv`), the kitchen is told, numbers are consecutive over settled and voided bills and one bill is open at a time (`NumberingInv`), numbers are given and kept as the register says and closed bills are frozen (`ClosedStays`) |
| `takings_all` | 3 requests of any kind, an online payment of 2, a cash payment of 1, a bill of 2 | no money is made up, an event applies once, SUCCESS payments were credited, refunds stay within, payments and bill are kept as one ledger until requests overlap (`KeepsLedger`), every request ends |
| `drawer` | 5 requests of any kind, 2 cashiers, 2 shifts | one open drawer per cashier, money in its taker's drawer, a closed drawer's count is whole and stays |
| `floor_all` | 2 tables, sessions, orders, bills, one order away | bills stay with their sessions, no order is on two bills to pay, tickets follow orders |
| `session_all` | 1 tab, 2 realms, 2 calls, 3 token pairs, 3 page loads | a spent token comes back only from a second page load, realms stay apart, waiting calls are answered |
| `ordering` | 2 items (one simple), a table, a room, 1 line of up to 2 units, 2 requests | places are of the right kind, carts are ordered as tapped, the guest sees the end, unless it came after a cancellation |
| `bill_desk` | 1 order of price 2, 2 bills, 3 transactions, 2 requests of the till | fresh offers are accepted, a quiet till is right, the list catches up |
| `floor_desk` | 2 orders, 2 tables, 4 or 5 transactions, 1 or 2 requests | fresh offers are legal, a quiet screen is right, of the page of deliveries how far those are that it shows, one press is one step |
| `record_desk` | 2 records, 1 change by others, 1 or 2 requests, 19 pages | what forms save goes where it was meant, lists follow, forms are the user's |
| `shell` | 6 roles, 3 modules, 1 switch or lapse, 1 request beside the modules' | pages ask what they may, links lead, nothing spins for ever |

Why these bounds are enough for what they check:

* Two settlements of one bill and one of another give both kinds of contention:
  on a bill row and on a counter row. Two numbers per series and two series reach
  overflow, the change of series in mid-settlement, and reuse after rollback.
* `billing_all` explores what is on one bill in full, with a discount or a flat charge (a bill that gets both is
  checked and not continued), and two bills one after the other only for one
  order without discount or charge (the CONSTRAINT `MCBound`; a step out of it is still checked, and not continued). One bill with two lines gives every combination of voided, comped and
  remaining lines; two payments give the cash-then-capture and the
  capture-twice races; price 2 against payments of 1 and 2 gives under-, exact
  and over-payment; discount 1 with price 1 reaches the clamp at the subtotal.
  Two bills with two payments give a settled bill, then a settled, a voided or a given-away one, and a late
  capture on the first, which is what numbering over rounds depends on.
* Three requests give every pair that overlaps, with a third to use what they left
  (a refund after a double report, a redelivery after a failure); an online payment that
  covers the bill and a cash payment that does not give partial payment, settlement and
  overpayment.
* Five requests open a drawer, take money and close it twice, with one to interfere; two cashiers and two shifts give a second drawer
  for the same or another cashier.
* Two tables and sessions are what a transfer or a merge relates. Two orders let one
  be in flight while the other is billed.
* `session_all`: two calls give one that refreshes and one that queues; three page loads a
  reload in mid-refresh and a page after it; three pairs a login, a rotation and one more. With a second tab
  the run is too long; a second tab differs from a reload only in that the first goes on.
* `ordering`: two units and one line reach zero, the limit of the stepper and a full cart; two requests
  give the same cart sent twice.
* `bill_desk`: one order on two bills gives a settled and a new bill; money up to 2 on a price of 2 gives part
  payment and settlement; three transactions let others act before and after the till.
* `floor_desk`: a ticket is served after five transactions; two orders and tables give a move, a merge and a
  bystander. `record_desk`: the record in the form and another; one foreign change.
* `shell`: a switch can happen at any moment of any walk; a second would undo it.

The type invariants of `InvoiceSeries`, `Takings`, `Drawer` and `Floor` are theorems and are not checked again in the runs. That of
`Shell` is part of `NothingAskedInVain`. `ImplementsLedger` of `Billing` is a theorem; TLC agrees on the instance of `billing_all`,
but takes minutes for it, so it is in no run.

Deadlock is not checked in the other models: bills, payments, requests, orders and changes are
finite, and the day ends when they are used up. It is checked in `InvoiceSeries`, where locks
could cause one (a client may always retry or the series change, so the real content is
`SettlementsEnd`), and in `Shell`, where a user can always go on.

Symmetry is used only in runs of safety properties, over identifiers that no constant
distinguishes (orders of `Billing` have prices and are not symmetric).

## Fairness

Server. `InvoiceSeries` and `Takings` have a liveness property. Their `FairSpec` assumes strong
fairness of each settlement's or request's own next statement: a transaction that has begun keeps executing,
and PostgreSQL serves the waiters of a row lock in the order in which they came, so a
waiter whose row becomes free again and again is served. Weak fairness would not do,
since another settlement may take the row in between. Nothing is assumed of clients
(`ReadBill`, `BeginAny`), of failures (`Fail`, `CommitBroken`) or of the calendar
(`ChangeSeries`). `RequestsEnd` holds because rows are taken in the order event, payment,
bill.

Client. `Ordering`, `BillDesk` and `Shell` have one liveness property each, under weak fairness of what a browser does
by itself. `Ordering`: an interval timer fires and its answer arrives (`Poll`), the request of a scan is
answered or fails (`ScanAnswer`), React renders after a state change (`Rerender`). `BillDesk`: a request for the list,
which the poll repeats, ends (`ListFetched`), and the server commits what it began (`Commit`). `Shell`: a redirect that was rendered is
carried out (`GuardRedirect`), and the request for the modules is answered or fails (`FlagsEnd`); the client's time-out ends it at the
latest. Nothing is assumed of users, guests, the socket or mutations.

## Proofs

All theorems are for arbitrary constants under the named assumptions of the
modules. `SettlementAssumption`, `TakingsAssumption`, `DrawerAssumption`, `FloorAssumption`, `BillingAssumption`, `OrderingBounds`,
`RecordsBounds` and `ShellBounds` only say that constants
have their kinds and that `NoInvoice`, `Nobody`, `NoShift` and `None` are not ordinary values, that there is a payment, that amounts are positive, and that a session's orders and payments are finitely many.

`InvoiceSeriesProofs`:

* `TypeCorrect`, `CounterAlwaysFound` from `LockInv` = `TypeOK`, `CounterFound` and
  `HoldsNext`: a settlement with a number holds the counter row whose committed
  value is the one before. `CounterFound` alone is not inductive: it needs the type of
  `mine`, and its use later needs that the row stays held until commit.
* `NumbersUnique` from `NumberInv`: no number on a bill is above its counter
  (`IssuedByCounter`), and a commit writes counter plus one, so it is new.
* `SeriesGapless` and `RegisterImplemented` are theorems of `SerialSpec`. `SerialInv`
  adds that what a running settlement read of its bill is still so (`SeenCurrent`) and
  that only unnumbered bills allocate; hence a commit never replaces a number, and
  every step is `Issue` of the register or a stutter.

`TakingsProofs`: every safety property of `takings_all` is a theorem. Three invariants
are inductive together:

* `BaseInv` gives `TakingsTyped` and `EventsApplyOnce`. A webhook past its insertion
  holds the event's key, and nobody has committed the event (`EventHeld`); an event that
  is not committed was not applied (`AbsentUnapplied`). `RacesNoted` ties what runs now
  to the history variables, `StagesOK` says which statements a kind of request has.
* `BillInv` gives `BillBacked` and `VoidStays`. What any request has read of the bill is
  at most what was credited (`SeenBacked`), so that even a lost update makes up no money.
  Without races what was read is still so (`SeenBill`), because two requests past their
  reading would be a race (`OneBillWriter`).
* `PaymentInv` gives `SuccessApplied` and `RefundsWithin` in the same way for what a
  request has found of its payment (`SeenPayment`, `OnePaymentUser`).

The three together give `LedgerKept`, the theorem of `KeepsLedger`, for
any number of requests and payments: without races a commit that credits finds its payment
not yet entered and its copy of the bill current (`CreditEntered`), one that refunds finds the room it has read
(`RefundEntered`), a report with a bad signature never marks a payment that was taken (`RejectLeaves`), a void
leaves the money (`VoidEntered`), and every other statement leaves payments and bill (`StepEntered`).

`DrawerProofs`: every property of `drawer` is a theorem of `DrawerInv`. Whoever has inserted a shift holds its key, and its cashier has no
committed open one (`KeyIsHeld`), which gives `OneOpenDrawer`. What a request has read of a drawer is still so, unless the drawer is in `raced`: it is open
(`SeenIsOpen`), and what was counted is what there is (`CountIsCurrent`). Hence a payment that reaches a closed drawer, or a
second close, is a race that was noted (`RacesAreNoted`). `AttachedIsDone` ties each row of money to the request that put it there. `GoesOn` is
the lemma of all steps that do not commit.

`FloorProofs`: the theorems `FloorTyped`, `BillsStay`, `NoOrderBilledTwice` and
`TicketsFollow` come from one inductive invariant, `FloorInv`. Its parts need each
other:

* an order still being placed is not in the database (`PlacingIsNew`), so it is on
  no bill, and committing it into a session that was billed or closed meanwhile
  disturbs no bill;
* a bill's session and lines exist (`BillsOfSessions`), so a session or order just
  inserted is not theirs;
* the guard of transfer and merge (any bill, in any status, freezes the session)
  means that moved orders are on no bill, which gives `BillStaysWithSession`;
* a session has at most one bill to pay (`OneOpenBillPerSession`); with
  `BillStaysWithSession`, two such bills are of different sessions and share no order;
* an order that does not exist has no ticket (`AbsentIsBare`), which `KotFollowsOrder`
  needs when an order is inserted.

The step is proved by kind of request: `StatusInv` (only statuses change), `MoveInv`
(unbilled live orders move, with their live tickets), `EndBillInv`, `TableInv`, and a
lemma for each remaining action; `StepInv` puts them together. TLC checked each
invariant on the small instances first.

`BillingProofs`: every property of `billing_all` but `TakingsInv`, of which below, is a theorem of one
inductive invariant, `BillingInv`, whose parts need each other:

* what holds of one bill's record (`BillSound`): its total is that of its lines (so that the recomputation a late
  capture runs on a closed bill changes nothing), an open bill has no number, a PAID bill that was not given away
  has been paid something, so that `mark_bill_nc`, which asks for nothing paid, can only close an open one;
* a payment that may be captured or handed back belongs to a bill there is (`PaymentsOfBills`), and a session has a bill
  only once it had an order (`OrderedBeforeBilled`), so that a checkout starts without bills;
* `NumberingInv` says that at most one bill is open, hence a payment that settles a bill settles an unnumbered one;
* `KitchenTold` is inductive with these: a closed bill gets no more lines, no order comes to life again, and the step that numbers a bill or gives it away
  sends every live order.

A request changes one bill. Lemmas about one record (`RecomputedIs`, `EditSound`, `SameTotal`) judge what that bill becomes,
`BillsInv`, `KitchenInv` and `FrameInv` what its change does to the rest; then there is a lemma for each request. `ClosedStays` is
proved from `BillingInv` by asking of each request that it keeps each bill (`Kept`). Its other half is `RegisterImplemented`: a request that settles a bill
numbers one that had none, with the next number (`StepNumbers`), which is `Issue`; every other leaves numbers and counter.
Thus `Billing`, request by request, and `InvoiceSeries`, statement by statement and where settlements of one bill do not
overlap, implement one register.

`TakingsAgree`, the theorem of `TakingsInv`, needs beside it `MoneyInv`: both sums of a bill, and of each payment that it hands back no
more than it took, and only if it was taken (`PaymentSound`); that a bill's refunds are within what was paid follows
from these (`RefundsWithinPaid`). Of each request it is enough that it changes one payment and that payment's bill by the same
amounts (`MoneyMoves`), since one summand of a sum changes (`SumChanges`). The sums are folds of the community modules, which
unfold to a function that is defined by recursion on sets. What is needed of it (`SumsExist`, `SumIsNat`, `SumAdds`, `SumSame`,
`SumMonotone`, `SumOver`) is proved without an induction theorem, whose operator parameters the provers cannot instantiate:
each lemma looks at a smallest set for which it would fail (`SmallestSet`, from the well-foundedness of the naturals), takes a
member away and has a smaller one.

`LedgerImplemented` shows that `Billing` implements `PaymentLedger`, without any assumption on races, since each request is one step. It needs `BillingInv`
(a payment that brought in money has its bill) and `MoneyInv` (a refund stays within its payment): a capture is `Take` (`TakeEntered`), a refund
`GiveBack` (`RefundEntered`), `void_bill` is `Void`, and of everything else, the edits of partly paid bills and no-charge marks included, it is shown
that the figures of a bill that the ledger has stay (`EditsKeep`, `OnlyVoids`, `NothingEntered`).

`StaffSessionProofs`: every property of `session_all` is a theorem of `SessionInv`, for any number of
tabs, calls and page loads, where the run has one tab. `CallAssumption` says that a call is not the name of a page's bootstrap.
The parts of `SessionInv`:

* `PagesInv` is `WaitsForRefresh` made inductive: who has a request under way (`WaitersHaveRefresher`), and that calls are of pages
  past their spinner (`CallsOfPages`), so that a bootstrap and a call of one page never refresh together;
* `TokensInv`: what a page holds or is about to be given was issued for its realm (`TokensOfRealm`); what it is about to be given
  nobody has presented (`GrantedIsUnseen`); and a page that has presented the token it holds awaits the answer (`SentOnce`). The
  last makes a token that one page presents new to that page;
* `SharedInv`: a token that was exchanged, or is under way twice, has been presented by two loads (`SecondIsShared`), since
  whatever is under way has been presented (`FlyingIsSpent`). An alarm is the exchange of such a token.

Lemmas of frames (`PagesFrame`, `TokensStay`, `SharedFrame`) dispose of what an action leaves alone; `HeldTokenSent` is
what the bootstrap and a call have in common when they present a token, `TokenHeld` what answers, logins and logouts do to a store.

`BillDeskProofs`: the safety properties of `bill_desk` are theorems of `DeskInv`, for any number of orders, bills, transactions and
requests, and any price. What is offered is judged by amounts that follow from the copy (`FieldInv`: a field that nobody typed into
has the balance), and the copy is right for a reason (`SightInv`): whatever can still overwrite it, an answer on its way
(`AnswersCurrent`) or what the running query has read (`ReadCurrent`), is as the bill is now or is followed by a message, and if the
copy is not right, something that corrects it is on its way (`CopyFollows`). `TxnInv` ties the transaction that the server runs for the
till to its request, which `AnswersCurrent` needs at the commit. `Bounds` says that the bounds are natural numbers,
`NoneAssumption` that `None` is no bill and no transaction.

`FloorDeskProofs`: every property of `floor_desk` is a theorem of `ScreensInv`, for any number of orders and tables and any bounds. Its
parts:

* `SessionInv`, of the server: orders are in sessions of orders that were placed, a delivery's session is at no table, and, as long as the kitchen
  went on with no cancelled order, a live order is where its session is. Hence what the tables' page shows at two tables are two
  sessions, each at its table, and the transfer or merge that it offers is accepted;
* `CopiesInv`, `DialogInv` and `RequestsInv`: what the screen holds is of the kind that it asked for, and a request for a step forward
  was sent from the status before that step. As a status other than CANCELLED follows one status only (`OneStepBefore`), the server takes such
  a step from the status that the user saw (`StepsFromWhatWasSeen`);
* `TxnInv`: nothing else changes the server's rows between a transaction's checks and its commit, so that it is still allowed then,
  and the request that waits for it is the one that began it. Without it nothing would be known of what `Commit` carries out;
* `SightInv`: a copy that is not right (`RightAbout`) will be asked for again, or an answer that has it asked for again is on its way. It rests on two lemmas
  about the operators of the model: an operation changes only what its message names (`ApplyFrame`), as far as the screen must be right about it, and
  the screen's own mutations invalidate the same queries (`ToldInvalidated`).

`BeginInv` is the lemma of every transaction's beginning and `CommitEffect` that of its end, by `ApplyInv`, everything that the server does to an
order that is there, and `PlacedInv`, a new order; `SendInv` says what every button must show before it sends. `NoneAssumption` says that `None` is
no status, no order's row and no transaction.

The last part of `BillingProofs` is about `Ordering`, whose safety properties are theorems of `OrderingInv`, for any items, tables, rooms
and cart bounds:

* `OwedInv` ties what the user is still owed to the cart and to the requests. In any case it is at most what the cart
  holds and at most what any request still to be answered carries, so that an order that is sent twice makes it smaller and never larger. While nothing
  was sent twice there is one request at most (`slip`), and it carries what is owed; while every answer was heard too, the user is owed exactly the
  cart until the order is accepted. `OrderedAsTapped` alone is not inductive, because it says nothing of requests;
* `FlightInv` says that a request carries a place of its source (`RightPlace`), which gives `PlacesInv` when it is accepted, and
  that there are no more requests and orders than the bound. `ScreenInv` is what it needs of the screen: the counter's place is of the
  kind of its context, and a page that is ready has the session of its own location or none;
* `CartInv` bounds the units in the cart. `InCart` and `Units` are sums, about which `SumChanges` says what it says of payments: one line
  changes, and the sum by as much.

The first part of `FloorProofs` is about `RecordDesk`. `RecordsInv` holds for any number of records and any bounds, on each of the 19 pages:

* `FormsInv` says whom a form is about: the record for which it was filled, which is the one shown while the dialog is open (`FormIsAbout`).
  A record that has gone from under its dialog does not come back (`GoneForGood`), so that the form, which then saves a new record,
  does not turn into another's. With `RequestsInv`, that each page sends what it can send and about the record that it says, this gives `SavedWhereMeant`;
* `CopyInv` gives `ListInv`: a record that the list does not have as the server does is under a key that is due to be asked for again, or that was changed
  without the page being told. It rests on the lemma that every mutation of every page invalidates a key above those of the records that
  it changed (`AppliedAsksAgain`);
* `FormFollowsUser` is proved by what opens a form or changes a list (`Steps`): a form that opens is filled from the list or blank (`OpensWithTheList`),
  which for a new business needs that a closed form is blank, and an answer to a query leaves what was typed (`FetchLeavesTyping`), since such a
  form is filled again only when the record it shows becomes another.

`ServerMoves` is what all of the server's operations have in common, from which copies, forms and requests follow once (`CopyStays`, `FormsStay`,
`RequestsStay`) for the page's own mutations and those of others.

The last part of `StaffSessionProofs` is about `Shell`. `ShellInv` has the types, `AsksWhatItMay` over the requests already sent, that
only an owner is told of the plan (`PlanIsOwners`), and that an address to which a link led stays open (`Stays`): by its role, which a session keeps, and by a
module that the tab knows to be enabled, which it knows until it asks again. `NothingAskedInVain` follows by comparing, page by page, what the page asks with
what the server grants to the roles that its guard lets in (`PageAsks`, `HomeAsks`, `ShellAsks`), `LinksLead` by the verdict at an address that stays
open (`StaysShown`).

TLC checked `OrderingInv`, `RecordsInv`, `ShellInv` and `ScreensInv` on the instances of `ordering`, `record_desk`, `shell` and `floor_desk` before they were
proved, and `OrderingInv` on one with two slots and two units as well.

Model-checked only: the five liveness properties, `SettlementsEnd`, `RequestsEnd`, `GuestSeesTheEnd`, `SessionsCatchUp` and
`Settles`, since fairness and `ENABLED` are out of the prover's reach. Every invariant and action property of every run is a theorem.

## Where code and comments disagree

Some statements of docs, comments and tests do not hold of the code. Their properties are in the modules, but no run
checks them; adding one to a configuration of the module's passing run shows the counterexample.

1. `Gapless` under `FairSpec` (`InvoiceAll.cfg`): overlapping settlements of one bill consume two numbers
   (`services/billing_service.py:383`), although `finalise` is documented as idempotent (379-381).
2. `SettledIsNumbered` (`BillingAll.cfg`): an edit can settle a partly paid bill, which then never gets
   the tax invoice number that "settlement" is said to allocate (`services/billing_service.py:343`, comment at 364).
3. `RefundedIsMarked` (`BillingAll.cfg`): `refund_payment` assigns REFUNDED and then reads the bill and its
   payments again with `populate_existing()`; production sessions do not autoflush, so
   the assignment is lost (`services/payment_service.py:357`). The test of it (`backend/tests/test_invoice_integrity.py:502`)
   runs with an autoflushing session and does not look at the status.
4. `NeverDoubleApplied` (`TakingsAll.cfg`): two overlapping reports of a capture (browser and webhook, or the
   browser twice) both credit it, although retries are said never to double-apply (`models/payment.py:45`).
5. `ClosedTakesNoOrder` (`FloorAll.cfg`, three orders): a retired session can receive another order
   (`services/order_service.py:96`, docstring at 323).
6. `DeliveryIsOver` (`FloorAll.cfg`): a finished delivery is not finished for the kitchen (`services/kot_service.py:124`,
   comment at `services/order_service.py:363`).
7. `UnsettledIsListed` (`BillDeskAll.cfg`, two orders): an order that is on no bill is not on the till's list if the
   session's closed bill changed after it was placed (a void, say), since the list compares the order's creation with the
   bill's `updated_at` (`services/billing_service.py:82`).
8. `ExpectedIsTaken` (`DrawerAll.cfg`): a payment under way while its drawer is closed is in the drawer's report but not in the
   frozen expected cash (`services/shift_service.py:116`), which is said to be "float + cash taken - cash returned" (`models/shift.py:61`).
9. `TerminalIsFinal` (`OrderingAll.cfg`): once an order is CANCELLED the phone stops polling, since polling a terminal status
   "is pointless" (comment at `features/qr/hooks.ts:5-6`); the ticket of the order stays alive, and its next step makes the order CONFIRMED,
   PREPARING, READY or SERVED again (`services/kot_service.py:122-125`).
10. `DeliveriesAreCurrent` (`FloorDeskAll.cfg`): a message is said to name the keys that "are now stale" (`core/ws_manager.py:4`); the page of deliveries
   also shows the order's status and loses orders that are no longer active (`features/delivery/DeliveryPage.tsx:86`, `api/delivery.py:65-80`),
   and the messages and mutations of tickets, cancellations and new orders do not name its key
   (`services/kot_service.py:127`, `services/order_service.py:216` and 226, `features/kot/hooks.ts:20-25`).
11. `PartsWhereMeant` (`RecordDeskAll.cfg`): the dialog of an item is filled again when another item is opened, all but the inputs of the next variant,
   group and option (`features/menu/components/MenuItemDialog.tsx:86-92` against 102-119), so what was typed and given up for one item is
   offered, and added, at the next (235-264 and 290-304).
12. `CardsLead` (`ShellAll.cfg`): the home page says that every card leads to a page its role can reach; the
   delivery card is shown without the module (`features/home/RoleHomePage.tsx:208`).

Facts seen on the way, not stated as properties:

* a no-charge bill keeps a total above zero when a flat charge is on it
  (`services/billing_service.py:636`, although the docstring at 594-596 says it lands at
  zero), and an edit that brings a bill down to exactly what was paid may leave it partly
  paid, since a `Decimal` is compared with a `float` (`services/billing_service.py:168`);
* a session of a settled table stays open, so it may be billed again and may come to share
  its table with a session transferred there (`docs/billing-counter-plan.md:111-118`
  mentions that sessions never close);
* an online checkout that Razorpay refuses leaves its order and bill behind;
* a webhook whose invoice number does not fit commits the incremented counter; the
  settlements of `InvoiceSeries` are cash payments and verifications, which roll it back.

* the client's cart panel can send one cart twice when it is closed with a request under way and opened again
  (`features/pos/PosPage.tsx:121`), and empties at an answer what was added since (`features/pos/components/CartPanel.tsx:94`);
* a page reloaded in mid-refresh presents a token that the service has already exchanged, and all sessions of the
  account end (`hooks/useAuthBootstrap.ts:38`, `services/auth_service.py:127`);
* `_reject_if_billed` says "settle or void the bill first" (docstring at `services/order_service.py:246`) and refuses for a bill in any
  status, so a party whose bill was settled or voided cannot be moved either;
* `update_kot_status` and `update_delivery_status` read and write without a row lock, so two requests for one step that overlap may both
  be accepted (`services/kot_service.py:110-117`);
* credentials typed for one provider are still in the form of the next (`features/integrations/components/ConnectDialog.tsx`);
* the hooks of payments say that they refetch "whether it succeeded or failed" and do so on success
  (`features/payments/hooks.ts:5-9`, 25).

## Not modelled, and why

* Statement-level races outside numbering, payments, drawers, `create_order` and token rotation: two generates,
  an edit against a payment, transfer against merge, two steps of one ticket.
* Reads and formatting: `peek_next`, receipts and printing (`ReceiptView`), reports and their tables (`ReportsPage`), the preview
  of charges, the public website, dashboards beyond what they ask for.
* `types/api.ts`, two fifths of the client's lines, is generated from the OpenAPI document and executes nothing; `types/models.ts`
  renames it. Components without state, styles and translations have no behaviour to model.
* Validation of forms and requests: a refused request is a step not taken, and a form that is not valid is not sent.
* The platform's subscription panel beyond what `RecordDesk` has of the platform's pages, the lockout counter, one-time codes.
* Charge ladder, partner intake, menu cache, loyalty accrual: see the plan.
* External services: Razorpay appears as accepting an order or not, and as reporting
  a capture with a valid or an invalid signature; its widget in the client as a payment by others.

## Plan

In order of importance, and which existing modules they meet:

1. `Loyalty`: accrual and redemption, and what its exception does to a settlement.
2. Two generates of one session in `Floor`; the webhook's committed overflow in `InvoiceSeries`.
3. `ChargeLadder`: bands as pure operators over half-open intervals (overlap, gap report,
   selection) against a reference definition, and the validation race.
4. `PartnerIntake`, `MenuCache`: one small protocol each, the first with an abstract
   "used at most once" specification.
