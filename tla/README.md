# RarePrint ERP: TLA+ models and proofs

RarePrint ERP runs a print shop: orders come in by phone and from two web
shops, accounts approves and invoices them, production prints them on shared
sheets, dispatch books couriers, and money is followed from the receipt to the
ledger. The backend is one NestJS process (`backend/src`) over one Postgres
database through Prisma; the frontend is a set of Next.js screens over its
endpoints, one of them, the Power Dialer, inside an Android app with a service
of its own.

This directory holds the state machines of the parts where several people and
several services write the same rows, the TLC runs that check them on small
instances, and proofs of their main invariants for every value of the
constants. Five things are modelled so far: the **loyalty wallet**, **an order's
way from approval to delivery**, **the bill of an order**, **an order of the
Shopify shop on its way into the ERP**, and the **auto dialer**, both its server
and its phone. The last section says what comes next.

    tlc -workers 2 -config OrderDispatch_all.cfg MCOrderDispatch
    tlapm OrderDispatch_proof.tla

Paths below are relative to `src/backend/src` unless they start with `src/`.

## 1. What makes this code hard

* **No lock where one would expect it.** Almost every handler reads a row,
  checks it, and writes it after one or more `await`s. Node is single-threaded,
  but at every `await` any other request runs. What was checked may be stale
  when it is used.
* **Transactions at READ COMMITTED.** `prisma.$transaction` uses Postgres'
  default isolation: a plain `findUnique` in a transaction takes no lock and
  sees whatever committed before that statement. What keeps two transactions
  apart is only an explicit `FOR UPDATE` (loyalty), a unique index (loyalty's
  `(orderId, type)`), or that both happen to update the same row before they
  read (the order row, for most of billing), or an advisory lock (Shopify).
* **Work started and not awaited.** Approving or cancelling an order starts
  loyalty calls, WhatsApp messages and notifications without waiting for them
  and without a queue: they can run in any order and a restart loses them.
* **External calls in the middle.** A booking spends seconds to minutes in a
  courier's API between reading the order and writing the parcel; the courier
  may confirm although the request dies.
* **Messages from outside.** Shopify delivers its webhooks at least once and in
  any order, and gives up on a slow answer; the server logs them, answers, and
  applies them later, with a retry job beside it. An Android service tells a web
  page about calls by events that wait until somebody listens; the page may have
  been left, stopped or opened again by then.
* **Steps back.** An order goes back to accounts, a dispatch is rejected, a
  parcel is cancelled at the courier and its order is put back in the queue,
  items are cancelled one after the other, approved orders are edited and
  approved again. The long sequences of such steps are what no test covers.

## 2. Inventory

State is Postgres rows unless said otherwise. "How" names what each component
calls, shares or is called by.

### Modelled

| Component | State | Operations | How it interacts |
|---|---|---|---|
| **Loyalty** (`loyalty/`) | `CustomerLoyaltyWallet.points` per phone, `CustomerLoyaltyTransaction` per (order, type) | earn, redeem, reverse; the test mode's simulations and `clearTestData` | started by accounts after an approval, a rejection, a cancellation; by two endpoints; a redemption lowers the invoice's balance |
| **Accounts: orders** (`accounts/`) | `Order.status`, `StatusLog` | approve, reject, return, approve and reject a dispatch, approve and reject a cancellation | writes the same order row as production, sales and dispatch; raises the invoice; starts loyalty |
| **Production: stages** (`production/`) | `OrderItem.itemProductionStage`, category | category, item stage with the order's rollup, a sheet's status on its items | the rollup writes `Order.status` |
| **Orders: submission** (`orders/`) | `pendingDispatchItemIds`, `courierChargeQuoted`, cancellation request | submit items or the whole order, ask for a cancellation | hands over to accounts |
| **Dispatch** (`dispatch/`) | `Shipment` rows, `OrderItem.dispatchedAt` | book with a courier, transporter, by hand, manually; deliver; sync with Bigship; return to the queue | courier APIs; writes `Order.status`; brings the courier charge to the invoice |
| **Shopify inbox** (`shopify/`) | `ShopifyWebhookLog` rows, `ShopifyInboxOrder`, the order's `shopifyData`, an advisory lock per shop order | receive, apply, retry a webhook; approve and reject an inbox row | creates ERP orders and receipts, asks for cancellations; accounts, sales and production change the same order |
| **Dialer, server** (`dialer/`) | `DialerLock` per number with its marks, `DialerCall` | next number, result, live state, the PC's reply and hang-up | leads and contacts are its queue; phone and PC poll it |
| **Dialer, phone** (`src/frontend/app/dialer/page.tsx`, `DialerService.kt`, `CallManagerPlugin.kt`) | the page's phase and customer, the service's active call, the events between | start, pause, resume, stop, dial, save; the notification's buttons; call states from a listener and a poll | the page asks the server for numbers, the service places calls on the phone line |
| **Invoicing of an order** (`accounts/`, `common/sync-*.ts`) | `Invoice`, `Payment`, `Shipment.courierChargeCollected`, ledger entries | raise, reconcile, verify, reject and delete receipts, courier charge, notes, edits, upsells, cancellations | called from accounts, orders and dispatch handlers |

What makes each correct: a wallet equals its ledger and is never negative; an
order that reads as shipped has parcels, an item is in one of them and in only
one, nothing leaves without accounts' approval; an invoice, its ledger account,
its receipts and its parcels agree; every webhook of a shop order takes effect
once, the newest one is what is kept, and the order enters the ERP once, by an
approval; a number is on one agent's phone at a time, and the outcome an agent
saves is of the call just made.

### Not modelled

| Component | State and operations | What would make it correct |
|---|---|---|
| Clubbing sheets, paper (`production/clubbing-sheet`, `paper-inventory`, `sheet-layout`) | which items are on which print sheet with which quantity; a press's paper, taken when a sheet is sent and given back when it returns | no item is printed more than ordered; paper taken once for each sheet sent |
| Marketing broadcasts (`marketing/`) | a queue of jobs with claims and retries | a message goes to a recipient at most once, a failed one is retried |
| Complaints (`complaints/`) | tickets, service-level clocks, the escalation sweep (it closes tickets it read as RESOLVED, one reopened meanwhile too) | a reopened ticket stays open |
| Remittance (`remittance/`) | couriers' remittances, matched with parcels and posted as receipts | one receipt for each remittance, also after a restart |
| Rewards, bonus points (`rewards/`) | staff coin wallet and ledger; the look-up against a second reward is outside its transaction | as for loyalty |
| Order creation, storefront (`orders`, `storefront/`) | order numbers, web payments | numbers are unique, a payment is recorded once |
| Billing, estimates (`billing/`) | reports over invoices; an estimate's conversion | an estimate becomes one order |
| HR, attendance (`hr/`, `attendance/`) | monthly arithmetic | formulas; candidates for operator modules |
| Rates and costs, products, vendors, offers | price tables and catalogue rows | data, no control |
| CRM, customers, tasks, machine readings, feedback, certificates, designs | single-row edits | nothing overlaps that matters |
| Bank statements | import under a unique key | unique key |
| Notifications, events, WhatsApp, call compliance and analysis | hourly reminders, messages, statistics | pure I/O or read-only |
| Dashboards, reports | read-only | – |
| Auth, configuration | single-row settings | – |
| The rest of the frontend, marketing site, SaaS tooling, scripts and migrations | no state of their own; scripts are run by hand | – |

`PROJECT.json` lists every component with its files, and the hazards with the
line where each bites.

## 3. The modules

Every definition that models code is in `PROJECT.json` under `map` with the
lines it stands for. Definitions commented "Mutated form" are plausible bugs:
each property is shown to fail when one replaces the real definition.

Conventions common to all modules:

* A **request** (`req[r]`) is a handler that has started: its program counter
  `pc` and what it remembers across its `await`s. `Reqs` bounds how many are in
  flight. A handler is a *read* action that fills the request, and a *write*
  action that spends it; a handler that reads again in between has a step
  for that too.
* A **transaction's writes are one step**: the writes become visible together
  at its commit. Its reads at READ COMMITTED are steps of their own when they
  come before, since another transaction may commit in between.
* A handler whose check fails changes nothing and has no step.
* `Handlers` selects the handlers in use, so that one specification serves
  several questions; the proofs hold for every choice of it or name the choice.

### LoyaltyCalc
`loyalty/loyalty.calc.ts` as operators: `ComputeEarnPoints`,
`ComputeRedemption`, `ComputeReversal`, `NeedsManualReconciliation`. Money and
rates are integers in units of the instance's choice, `Whole` of whose products
make a point (10000 for paise and percents). The code computes `Math.floor((a -
b) * (r / 100))` in doubles. Where the exact share is no whole number they
cannot reach the next one and the floor is exact; where it is one they may fall
just short and lose a point, as 29% of 100 does. `PercentOf` is that floor:
`Share` divided by `Whole`, less one for the `<<a, b, r>>` in the constant
`Short`. Likewise `Steep` lists the discounts of exactly 5% that read as more.
Which inputs these are is a fact of IEEE 754; the instance's were computed with
it, the proofs hold for any. Loyalty states what the operators should return as
"the largest number that..." (`EarnIsLargestAllowed`, `RedeemIsLargestAllowed`)
at the steps that compute them, one less only where the doubles slip; TLC
compares them over every input MCLoyalty lists, and the proofs over every input.

### Loyalty, MCLoyalty, Loyalty_proof
`loyalty/loyalty.service.ts`, driven by what accounts does to orders. `wallet`
and `ledger` are the two tables, `lock` is the row lock of `SELECT ... FOR
UPDATE`. `EarnRead` is the look-up outside the transaction, `EarnCommit` its
transaction, `EarnConflict` the unique index refusing the row; redeem and
reverse have a third step between taking the row and the commit, because they
compute from what the row held. `ApproveOrder` starts earn (and redeem, when
asked) without waiting, `CancelOrder` starts reverse; `PostRedeem` and
`PostReverse` are the two endpoints. `Crash` is a restart: requests in flight
are gone, open transactions undone.

### LoyaltyTestMode, MCLoyaltyTestMode, LoyaltyTestMode_proof
The simulations of `loyalty.service.ts` on the same two tables: they enter the
transactions of Loyalty under synthetic order ids. `ClearBegin` and
`ClearCommit` are `clearTestData`, which sums what is left without holding the
wallet row.

### OrderDispatch, MCOrderDispatch, OrderDispatch_proof
One order, its items and its parcels, and the five services that write them. The
variables are columns: `status`, `pending` (`pendingDispatchItemIds`), `quote`,
`cancelReq`, `stage`, `cancelled`, `dispatched`, `parcels`; `approvals` says who
wrote the `StatusLog` row `assertCanDispatch` looks for: accounts, or a return
to the queue (`LogReturn`); `gone` and `confirmed` are the couriers' side.
`CourierConfirms`/`CourierRefuses` is the API call in the middle of a booking,
`Fails` an error or a restart half-way, at any step. `setting` never changes: it
says which handlers are in use, whether the multi-step ones follow each other
(`inTurn`) or overlap, and how many parcels and quotes there may be. `Settings`
lists what it may be, so that one run, and one proof, asks about handlers in
turn and about handlers that overlap; MCOrderDispatch has five.

### Invoice, MCInvoice, Invoice_proof
One order's `Invoice` row, its receipts, the courier charges on its parcels and
what the ledger's Customer Receivable was charged for it. `lock` is the order
row's lock, which most transactions take by updating the order before they read
the invoice (`TakeOrderRow`); `Locking` are the program counters that do. A
cancellation reads the invoice before its transaction; editing a charge,
deleting a receipt and writing a note never touch the order row before they
read: these are the handlers outside `OrderLocked`. Amounts are whole paise, to
which the code rounds every sum it writes.

### SumTheorems
Not a model: what the proofs of Loyalty and Invoice use about sums over finite
sets (`SumFunctionOnSet` of the community modules).

### ShopSale, ShopifyInbox, MCShopifyInbox, ShopifyInbox_proof
ShopSale is the abstract specification: where an order of the shop stands, and
what one handler at a time may make of the standing it found. ShopifyInbox is
the code. `log` are the webhook rows; `job[w]` is the run that `receive` starts
for hook `w` without awaiting it, and `job[Cron]` the minute's retry job working
through `batch`, what it read at the start of its tick. `Claim` is the guarded
update that keeps two jobs off one hook; `TxBegin` takes the advisory lock and
reads, `SaveToInbox`/`SaveToOrder` commits, `TxFail` rolls back, `Finish` marks
the hook: a restart (`Crash`) may come between any two. `OpenRow`,
`ApproveBegin`, `ApproveCommit` are a reviewer's approval, which compares what
was on the screen with the row; `Reject` is the one guarded update that takes no
lock. `RecordPayment`, `FlagEdit`, `ApplyCancellation` are what a later hook
does to an approved order. The `ErpMove`s change the same order meanwhile: its
status and `request`, the `stage` its items are in as far as a cancellation
looks at it, and each receipt, which Accounts verifies, edits, rejects or
deletes. `Scenes` says which of them, and whether restarts, go with a history of
the shop's order. `SaleBar` and `FoundBar` are the refinement mapping: the
standing is the inbox row's status until there is an ERP order, and who holds
the advisory lock is the handler at work.

### DialerLocks, MCDialerLocks, DialerLocks_proof
`dialer.service.ts`. `req[a]` is an agent's GET /dialer/next, which takes its
`now` (`asked`), frees the agent's locks, reads three tables in any order
(`Look`) and claims (`Claim`: a row of its own, or the take-over of one that is
the agent's or abandoned). `Answer` may be lost. `on[a]` is the number on the
phone, `popup[a]` the one on the PC; the marks of a lock (the PC's reply and
hang-up, the phone's live state) carry the time they were made and, as history,
who made them.

### DialerPhone, MCDialerPhone, DialerPhone_proof
The phone around one agent. `page[v]` is the v-th opening of the Power Dialer
screen: React keeps what an earlier one still awaits, so its answers come to it
after it was left. `service` holds DialerService's fields, `line` the phone line
with the dialer's call and one other; `intents` go from plugin to service,
`events` back, kept while no page listens. `Poll`, `NoStart`, `FinishCall` are
the service's timers. A listener may be attached and hear nothing, as the
comment at `DialerService.kt:61-65` reports. The header of the module lists what
is taken for granted about timing, and about a refused start (section 8).

## 4. The runs

Each passing run explores every reachable state of its instance. Deadlock is
checked except in the runs of ShopifyInbox and of the dialer: there a behaviour
ends where the shop's hooks are all applied, the dials used up or the clock at
its bound.

| Run | Question | Instance |
|---|---|---|
| `loyalty_core` | Does the wallet agree with its ledger whatever overlaps, is it never negative, are ledger rows final, does every call end, do the formulas compute what their rules say? | 2 orders of one phone, 2 requests, crashes, earning 0 or 30, asking for 99, a bill of 100.00 at 29%, of which the doubles make 28; formulas: inputs on both sides of each threshold and rates at which the doubles fall short, balances as the transactions meet them |
| `loyalty_test_mode` | Does the test mode leave real orders' rows alone? | 1 real order, 2 test ids, 2 requests |
| `dispatch_all` | With every handler, what may a step never do; what survives overlapping bookings, sheets, syncs and returns? | 2 items, 2 requests; settings `Everyone` (in turn, 1 parcel; transporter and OTP hand-over in `Forward` only, deliveries there and in `Returns`), `Cancels` (in turn, 1 parcel: cancellations among approvals, rejections, submissions, bookings, manual dispatch and returns), `Forward` (in turn, 2 parcels, 1 quote), `Overlaps` (2 parcels), `Returns` (overlapping, 1 parcel) |
| `invoice_all` | With every handler, is what was approved billed and what was paid counted? | 2 items, 1 receipt, 2 parcels, 1 note, 1 request |
| `invoice_locked` | Is the order row's lock enough for the handlers that take it? | 1 item, 2 receipts, 1 parcel, 2 requests, `NothingReturned` |
| `invoice_rebill` (violated) | Is an order billed for the items it has left? | 2 items, 1 request |
| `shopify_all` | Do late, repeated and interrupted hooks lose or undo anything, beside a reviewer and the ERP; does the inbox implement ShopSale? | 2 hooks of 2 versions, 1 reviewer, 2 attempts, 2 receipts, typed amounts 1 and 2; a history of payments with every move on receipts and no restart, one of a cancellation with the moves of order, items and requests and 1 restart |
| `shopify_settles` | Does every hook end processed or out of attempts? | 2 hooks, 3 attempts, 2 restarts, no reviewer |
| `shopify_payment` (violated) | Is a shop payment recorded once? | as `shopify_all`, 1 history, no restart |
| `dialer_locks` | Do two agents ever hold one number, act on each other's marks, or get a number they should not? | 2 agents, 1 number, 6 instants; a lock lives 2, a recent call 3, a live call 4, a live state 3 |
| `dialer_phone` | Is the outcome asked for that of the call just made, is none skipped, does every call's end reach the screen? | 2 numbers, 2 dials, 1 extra (one more opening, other call or request under way) |
| `dialer_stop` (violated) | Does a call the screen waits for end? | 1 number, 1 dial, no extra |

Why these bounds are enough to be worth something:

* **Two requests** are the least with any interleaving, and every race found in
  this code needs no more. "One request" and "in turn" mean that multi-step
  handlers do not overlap each other; the one-step ones (rejection, sheets,
  cancellation requests, deliveries, Bigship) and failures half-way still
  interleave with every step. A property in turn is a statement about sequences
  of handlers and of what each of them leaves behind when it dies; section 6
  says which of them two requests break.
* **Two items** distinguish some from all: partial dispatch, partial
  cancellation, one item resubmitted. **Two parcels** distinguish the latest
  from an earlier one, **one** suffices where the question is whether there is
  any. **One quote** suffices to be taken twice.
* **Two hooks of two versions** are delivered in either order or bring one
  version twice; two attempts let one fail and be retried, a restart comes
  between any two steps. The two histories are an edit with a second payment,
  and a cancellation of an order not yet paid; `Scenes` gives each the moves its
  properties are about, since all of them together are beyond a run's time, and
  the proofs hold for any choice.
* **Two agents and one number** are what the locks are about; the clock's six
  instants are enough for a lock to age, be taken over and age again. **Two
  dials** let an event of one call come while the next is on; one *extra* lets
  the screen be opened a second time, or another call ring, or a second request
  of a page be under way. A third dial is beyond a run's time with the liveness
  property; without it TLC finds 8.3 million states and neither safety property
  violated, and the proofs hold for every bound.
* `MCEarnPoints` lets an order earn nothing; by `MCBillValues` the bill caps a
  redemption from one order's points, and the balance caps the next one; a request
  of 99 is more than any wallet holds.
  `MCPrices`, `MCCharges`, `MCAmount` are small distinct amounts, zero among the
  charges; a credit and a debit note are `-1` and `1`. `MaxNotes` bounds the notes
  of a behaviour.
* `SYMMETRY` permutes request handles, agents, and items in OrderDispatch, where
  no constant and no action tells them apart; it is not used with liveness, nor
  in the invoice, where receipts have different amounts.
* `NotCut` in the runs of the phone stops following a behaviour once Stop on the
  notification came while an outcome was being saved: nothing is claimed after
  that (section 6).

What each passing property says and what would break it:

* `NonNegativeBalance`, `BalanceIsLedgerSum`: redemptions computed from a stale
  balance, a reversal that overwrites an increment, a credit given twice.
* `FlaggedMeansSpent`: points are only written off when some were spent.
* `RealRowsAreFinal`, `TestModeKeepsRealRows`: nothing rewrites a ledger row of
  a real order.
* `EveryCallEnds`: no request waits for ever for a wallet row.
* `EarnIsLargestAllowed`, `RedeemIsLargestAllowed`: percentages, floors and caps
  in the wrong order or at the wrong boundary; a point lost other than where the
  doubles fall short.
* `OnTheRoadHasAParcel`, `ShippedHaveAParcel`: a return to the queue races a
  booking, a stale status or mark survives the parcel it stood for.
* `ParcelsNeedApproval`: no parcel without accounts' approval, or the row a
  return to the queue writes in its place (section 6); manual dispatch, which asks
  for none, aside.
* `AwaitingStaysListed`, `ProductionLeavesSubmitted`: what another screen may not
  undo while accounts decides.
* `NoItemShippedTwice`, `QuoteTakenOnce`, `DispatchedWhenAllShipped`: the filters
  and the final status of dispatch.
* `ApprovedIsBilled`, `PaidCountsVerified`, `ReceiptPostedOnce`: nothing live is
  left off an approved order's bill, no verified receipt is missed or posted
  twice, also when it is verified before there is an invoice.
* `ReceivableIsTotal`, `BalanceIsTotalLessPaid`, `CourierIsCollected`: ledger,
  balance and courier line in step with the invoice under overlap.
* `OneRun`: the first run, the retry job and what a restart left behind on one
  hook at once. `NewestWins`: a late or retried hook overwrites a newer one.
  `EditsFlagged`, `PaidIsKnown`: an edit or a payment that a failed or overtaken
  hook swallowed; a payment once on record leaves it only when Accounts edits or
  deletes the receipt itself. `CancellationAnswered`: a cancellation forgotten
  between the inbox, an order that is printed, partly cancelled or sent back,
  and a request raised by hand. `Settles`: a hook nobody picks up again.
* `SaleRefined`: an order that becomes an ERP order twice or without an
  approval, one withdrawn or refused that waits again, two handlers at work.
* `OneCaller`: two take-overs, or a claim on stale look-ups, put one customer on
  two phones. `MarksAreOwn`: a PC reply saved for a call it was not typed for.
  `FreshOnly`: a wrong or just called number handed out.
* `OutcomeOfThisCall`: a stale or early end event opens the outcome screen for
  the wrong call, or while the call is still on. `NoCallLost`: pause, stop, retry
  or an error skip an outcome. `CallsAreReported`: a silent listener, a call that
  never starts or is refused leaves the screen waiting.

### Fairness
`EveryCallEnds` of Loyalty: strong fairness of each request's steps. A Postgres
row lock is granted in the order of arrival, so a transaction that finds the row
free again and again gets it, and Node runs every promise that is ready. Crashes
need no fairness: they end requests too.

`Settles` of ShopifyInbox: the server's own steps and the minute's cron go on
(weak fairness), a transaction that holds the advisory lock ends within its 30 s,
and the lock is granted in turn (strong fairness of `TxBegin`). Whether a
transaction fails, and how often the server restarts within the bound, is free.

`CallsAreReported` and `CallsEnd` of DialerPhone: the service's timers and
intents run, an open page gets its events, and calls end at last. The agent need
do nothing and the server need not answer.

Nothing is assumed of users, couriers or the shop.

## 5. What the violated runs show

1. **`invoice_rebill`** (`accounts/accounts.service.ts:1074`). The items
   `approveCancellation` bills are all but those of the present request; items
   cancelled by an earlier one come back on the invoice.
2. **`shopify_payment`** (`shopify/shopify.service.ts:418`). A receipt of a shop
   order is found again by its reference. `verifyPayment` and the edit of a
   pending receipt (`updatePendingPayment`) write the reference accounts typed
   over it, and the next hook of the paid order records the money a second time.
3. **`dialer_stop`** (`DialerService.kt:167-170`). Stop on the notification both
   tells the page and ends the service's session, which forgets the call in
   progress. The page, told "stop" during a call, waits for the call's end to
   have its outcome saved first; that end is never reported.

## 6. Known divergences and races

**Divergences.** These fail with one handler at a time or without any overlap
that the code claims to exclude. Each is seen by changing the named cfg or MC
module so that the property is the only one.

1. **A return to the queue takes every item back**
   (`dispatch/dispatch.service.ts:2422`). With two Bigship parcels of which the
   later is cancelled, the order's items are all put back, those still
   travelling in the earlier one included: they can be booked again.
   `LiveParcelsStayShipped` as an invariant of `OrderDispatch_all.cfg`.
2. **Two bookings take one quote** (`dispatch/dispatch.service.ts:1606`).
   `bookItems` reads the quote and clears it in one transaction, "so two bookings
   at once can't both take it". The read takes no lock and the transaction runs
   at READ COMMITTED. `QuoteTakenOnce` without its hypothesis
   `setting.inTurn`, with the one setting of 2 parcels, 1 quote, overlapping, and
   the handlers {"approveOrder", "sheet", "submit", "approveDispatch", "book"}.
3. **A returned parcel keeps its courier charge on the invoice**
   (`dispatch/dispatch.service.ts:2420`): the parcel is deleted and nothing tells
   the invoice. `CourierIsCollected` in `Invoice_locked.cfg` with
   `Handlers <- OrderLocked`.
4. **Stop on the notification while an outcome is saved**: the page is stopped,
   then the answer goes on as if it were not, and dials the next customer; if the
   save failed, it shows the outcome screen again. `NoCallLost` and
   `OutcomeOfThisCall` without `hist.cut`, and without `NotCut`.
5. **A lock taken over keeps marks made during the request**
   (`dialer/dialer.service.ts:538`, against `dialer.rules.ts:427-429`): `lockedAt`
   is the request's start, so a reply or hang-up of the earlier agent between
   that and the claim counts as the new agent's. `MarksAreOwn` without its second
   case.
6. **A return to the queue counts as accounts' approval**
   (`dispatch/dispatch.service.ts:2388-2440`, against the guards' comments at 553
   and 568-570). It asks for no status and, without a parcel, of nothing. Made
   while the order is PENDING_DISPATCH_APPROVAL, it logs a change from there to
   READY_FOR_DISPATCH, the row `assertCanDispatch` (544-553) and the dispatch list
   take for the approval: what was submitted can be booked unapproved.
   `ParcelsNeedApproval` with `"accounts" \in approvals` alone after the arrow.
7. **Points are lost to rounding** (`loyalty/loyalty.calc.ts:55-60`, `:81`,
   `loyalty/loyalty.service.ts:132-135`, against the rules at
   `loyalty/loyalty.calc.ts:25-30`). Percentages are floored as doubles: 29% of
   100 gives 28, as a cap on a bill and as points earned; at the default 5%, a
   bill of 32.30 less 12.30 has room for no point instead of one; 1.12 off
   22.40, exactly 5%, reads as more and takes the lower tier.
   `EarnIsLargestAllowed` and `RedeemIsLargestAllowed` without their "one less"
   (`m = n + 1 /\ ...`).

**Races.** These properties hold of handlers that follow each other (or, for the
invoice, of those that lock the order row) and fail when two overlap. For the
second to the sixth, take `setting.inTurn` out of the one property and let
`AllSettings` of MCOrderDispatch be the one setting with the handlers named here,
`inTurn` FALSE and 2 parcels; for the seventh to the ninth, give
`Invoice_locked.cfg` the `Handlers` named.

1. **A cancelled order keeps its points.** Approval starts earn without waiting
   (`accounts/accounts.service.ts:641`); a reversal that runs before the EARN row
   is written finds nothing to do, and is not tried again. `CancelledIsClawedBack`
   as an invariant of `ServeSpec`, in which nothing crashes, with
   `Loyalty_core.cfg`'s constants.
2. **Production takes a submission back.** The rollup writes a status computed
   from an order read before (`production/production.service.ts:365`), over a
   submission made in between. `ProductionLeavesSubmitted`,
   {"approveOrder", "stage", "submit"}.
3. **Two submissions lose an item.** `submitDispatchBatch` merges the list of
   submitted items from a read before its transaction
   (`orders/orders.service.ts:2337`). `AwaitingStaysListed`,
   {"approveOrder", "stage", "submit"}.
4. **A rejection resets an approved dispatch** whose approval came between its
   check and its write (`accounts/accounts.service.ts:1571`). No property of a run
   states it: in turn it holds by `RejectDispatchCheck`'s guard.
5. **An item is booked twice** by two bookings that both found it undispatched
   before they asked the courier (`dispatch/dispatch.service.ts:1114`).
   `NoItemShippedTwice`, {"approveOrder", "sheet", "submit",
   "approveDispatch", "book"}.
6. **A hand-over writes a status computed from stages that changed since**
   its read (`dispatch/dispatch.service.ts:1803`). `DispatchedWhenAllShipped`,
   {"approveOrder", "stage", "submit", "approveDispatch",
   "transport"}.
7. **Two receipts verified at once.** Each adds up the verified receipts before
   it waits for the order row, and neither sees the other
   (`accounts/accounts.service.ts:2531`). `PaidCountsVerified`, {"approve",
   "verify"}.
8. **One receipt verified twice.** Its status is checked outside the transaction
   (`accounts/accounts.service.ts:2516`). `ReceiptPostedOnce`, {"approve",
   "verify"}.
9. **Two courier charges edited at once**, or one edited while another handler
   bills: each adds its difference to the total it read
   (`common/sync-invoice-courier-charge.ts:50`). `ReceivableIsTotal`, {"approve",
   "ship", "charge"}.

The rest are seen by taking an exception out of a property, or lie outside what
a module has; no recipe is given for the latter.

10. **Shopify.** A refusal is overwritten by an update or an approval that began
    before it, although "A REJECTED row keeps its status"
    (`shopify/shopify.service.ts:555`): ShopSale's `MayLeave` of "waiting" allows
    it, since `reject` takes no lock. An approval compares only the number of
    lines with what the reviewer saw. A shop's cancellation that meets a request
    raised by hand is forgotten if accounts declines that request, or approves it
    and it is about some items only (`accounts/accounts.service.ts:1073-1092`); so
    is one that found the order cancelled already, when Dispatch brings it back
    (`CancellationAnswered`'s exceptions). A shop payment is off the record once
    Accounts has changed the amount of its pending receipt or deleted the receipt,
    and stays so until a hook brings it again (`PaidIsKnown`'s). Two versions with
    one `updated_at` second cannot be ordered.
11. **Pages that were left.** A Power Dialer screen left while it loads or saves
    still gets its answer: it dials with nobody at the screen, or its call
    displaces the one of the new page (`hist.left` in `NoCallLost` and
    `CallsAreReported`); a refusal of its dial pauses the new page, which may
    dial the number again and be told of the end of its own earlier call. Stop
    then Start while it loads: the older answer is taken, whose lock the second
    request has deleted.
12. **End events are matched by number alone** (`page.tsx:235`): the end of a call
    that a page now gone made ends the new page's call to the same number,
    whose own end, reported later, can end the next call to it (`hist.away`).
    Both are the second case of `OutcomeOfThisCall`; the last one, and the refusal
    of item 11, take three dials to see. A second caller ringing as the first
    call ends, and gone within a poll, hides the end (the timing assumption in
    the module's header). `endCallTriedRef` is never reset: a second "End call"
    from the PC for one number is ignored (`page.tsx:445`; the PC's hang-up is
    not modelled).
13. **Dialer locks.** The three look-ups of `blockedPhones` straddle another
    agent's save, so a number just called can be handed out (`FreshOnly` speaks
    of calls saved before the request). A late save, or a second request of the
    same agent, deletes the lock of the agent's current number. A call longer
    than the lock's 15 minutes loses it (`OneCaller`'s cases). A save whose answer
    is lost is saved again as a second `DialerCall`. The lead's status is read
    outside the save's transaction (not modelled).

## 7. The proofs

`tlapm` checks every leaf. Nothing is assumed but the `ASSUME`s of the modules
(`CalcAssumption`, `LoyaltyAssumption`, `TestModeAssumption`,
`OrderDispatchAssumption`, `InvoiceAssumption`, `ShopifyAssumption`,
`HistoryAssumption`, `DialerAssumption`, `PhoneAssumption`): the kinds of the
constants, that an order has finitely many items, receipts and parcels, that
markers such as `NoReq` are no values, that amounts that are prices are not
negative, that a shop order once cancelled stays so, and that doubles fall short
only of whole numbers of points and read above 5% only what is 5%. TLC evaluates
them on every run. What a theorem supposes beyond them is a hypothesis of its
statement, named below. Each inductive invariant was an invariant of a run
before it was proved; DialerPhone's over all states with one number and three
dials under `NotCut`, and without `NotCut` to a depth of 37 steps.

**SumTheorems**: a sum over a finite set does not depend on the order in which
it is added (`SumRemove`: any member's value and the sum of the rest), and what
follows of changing one value (`SumUpdate`), splitting the set (`SumSplit`) and
taking members off (`SumMonotone`). The library's induction over finite sets
takes an operator as a parameter; here it is stated with a set: a set `A` of
parts of `S` that has every part whose proper parts it has, has `S`.

**Loyalty_proof**: `TypeCorrect`, `WalletNeverNegative`, `RowsAreFinal`, for any
orders, phones and number of requests, with crashes. `NonNegativeBalance` is not
inductive: a redemption about to commit must still fit the balance. The
inductive `IInv` adds `EarnedInv` (an order that has earned, or whose reversal
is under way, belongs to a phone with a wallet; points about to be earned are
not negative) and `HeldInv` (a request between taking the row and its commit
holds the lock; a redemption still fits the balance, a reversal's balance is the
one it read). It needs `RedemptionBounded` and `ReversalNonNegative`, two lemmas
on LoyaltyCalc. `WalletIsItsLedger` and `FlaggedOnlyIfSpent` come from
`LedgerInv`: the equation itself, and `RowInv`, by which a reversal's row takes
back exactly what the order's EARN row gave, and one under way has read that
row, which nothing rewrites. Each write changes one summand of the equation, by
`SumUpdate`. `EarnLargest` and `RedeemLargest` are arithmetic, for every figure,
rate, cap, bill and balance, and for every `Short` and `Steep`: floors of
percentages (`Floored`, `ShareNat`, `PercentFits`) and the minima of caps give
the largest number the rules allow, or one less exactly where the doubles fall
short of it. `EarnsByTheRules` and `RedeemsByTheRules` put them at the steps
that compute.

**LoyaltyTestMode_proof**: `TestTypeCorrect`, `TestModeIsApart`, supposing of the
test orders only that their ids are integers and their phones valid. `clearTestData`
removes EARN rows while a reversal of one may be under way and writes a sum taken
before, so `IInv` does not hold there. `TestInv` is what is left: the types, that a
wallet once made never goes away, and that a transaction runs on a valid phone.

**OrderDispatch_proof**: `TypeCorrect`, `ShippedItemsAreInParcels`,
`ShippedOrdersHaveAParcel`, `ApprovalBeforeParcels`, for any set of items, any
number of requests, parcels and quotes, and any setting. `IInv` adds
`InFlight`: a status waiting to be written by a production rollup is never a
shipped one, and a booking under way began when the log had the row of an
approval, written by accounts or by a return to the queue, which no handler
takes back.

`OneParcelPerItem`, `OneParcelPerQuote`, `SubmittedItemsStayListed`,
`SubmittedLeavesProduction` and `DispatchedIsAllShipped` are the properties of
handlers in turn; section 6 has the overlap that breaks each of them without that
hypothesis. `TurnInv` is what makes a stale read harmless: when one request is under
way all others are idle (`Alone`), and what it read is still so (`Knows`: the items
to ship are not marked shipped, the quote is the order's, the list it merged has
all that is on the order's), although rejections, sheets, cancellation requests and
deliveries come in between. A sheet may change stages meanwhile; without one, the
items and the status a booking computed are what the order's items say
(`KnowsStages`). `Marked` says that while nothing is put back, an item in a parcel
is marked dispatched, and `Charges` that no parcel carries the quote still open on
the order.

**Invoice_proof**: `TypeCorrect` for every set of handlers;
`LedgerFollowsTheInvoice` and `BalanceFollowsTheInvoice` for overlapping
requests when `Handlers \subseteq OrderLocked`; `CourierFollowsTheParcels` when
moreover no order is returned to the queue. The third divergence and the ninth
race show what happens without these hypotheses. The argument has two halves.
`Discipline` says that the holder of the order row has the invoice as it is
(`HolderIsFresh`), that only handlers in use are in flight (`OnlyInUse`) and
that an invoice not made is blank (`UnmadeIsEmpty`). Under it every step is a
`BillStep`: it leaves the bill, bills lines, bills the courier, raises the bill
or counts receipts, always from the current invoice; and each kind of `BillStep`
keeps the three equations.

`ReceiptsPostedOnce`, `PaidMissesNoReceipt` and `ApprovedOrdersAreBilled` are for
one request at a time (`OneAtATime`), every handler in use, and any number of
items, receipts and parcels; the seventh and eighth races are why the hypothesis
is there. None of the three is inductive. `OneInv` adds what the request has read
and is still true (`Knows`, `KnowsReceipts`, `HolderKnows`) and splits the bill:
the order's total covers its live items (`TotalCovers`), the invoice's courier line
what is collected on its parcels (`CourierCovers`, which a return to the queue keeps
as an inequality only), an approved bill both (`BillCovers`). The first invoice is
made from the order's total, not from its lines, which is why the total has to be
followed through edits, upsells and cancellations that nobody bills yet. `Posted`
says that a receipt not yet verified was never posted; it holds because nothing
leads back to PENDING_VERIFICATION.

**ShopifyInbox_proof**: `TypeCorrect`, `HooksRunOnce`, `InboxImplementsSale`,
`NewestVersionWins`, `EditsAreFlagged`, `PaymentsAreKnown` and
`CancellationsAreAnswered`, for any number of hooks, versions, reviewers,
attempts and restarts and any history of the shop's order. `JobInv` ties each
job to its hook's row: a job at work has claimed it, the row says PROCESSING
since, two jobs never have one, and the retry job's batch holds what it may
still claim. `HooksRunOnce` follows. For the refinement, `SaleInv` says that
whoever is inside a transaction holds the advisory lock and has read the row as
it is, but for a refusal; then each step maps to a step of ShopSale (`TxBegin`
and `ApproveBegin` to `Begin`, the commits to `Finish`, failures, closing and
restarts to `GiveUp`, `Reject` to `Refuse`) or to none. `FullInv` adds what is
true of the rows between hooks, and gives `NewestVersionWins` and `EditsAreFlagged`;
with a look at each step, the two action properties `PaymentsAreKnown` and
`CancellationsAreAnswered`.

**DialerLocks_proof**: `TypeCorrect`, `OneCallerAtATime`, `MarksAreTheAgents`,
`HandedOutFresh`, for any agents and numbers and any time limits. `OneCaller`
is not inductive: it speaks of phones, not of locks. `IInv` follows what an agent
has been given from its claim on, also while the answer is under way. `Kept`:
while its call is unsaved, the lock is the agent's, or the clock has passed what
lets others take it. `Linked`: an agent's lock bears the time of its request, and
its own marks on it from before the claim are none. `Apart` is `OneCaller` from
the claim on, `Past` says that nothing bears a time yet to come, `Exclusive` that
a request ends the number on the phone, `Seen` that a request under way has
looked at every call saved before it began.

**DialerPhone_proof**: `PhoneTypeCorrect`, `OutcomesOfTheirCalls`,
`CallsAreKept`, for any numbers, dials and extras. Neither property is inductive:
each depends on where in the service and the two queues a call is known. In
`IInv`, `Numbered` gives each dial one page; `Queued` says what intents and
events can be under way together (a start comes first, a dial last, neither with
a stop); `Single` and `Dialled` that only the page on the screen works, and that
a dial under way is its last one and no call yet; `Refusal` that an error which
meets a dialing page means there is no call. `Tracked` says that a call a page
waits for is known to one of the service, `finishCall` and the events, once, and
no other call is known to any; `Over` and `Kept` are what the two properties need
of it. `Tracked` stops at a page left in a call (`Calm`), the rest at one left at
work (`Alone`) or a Stop during a save.
The attempt changed the property: an earlier `OutcomeOfThisCall` supposed that an
end event of another page's call could only end that number's next call, which
two dials cannot refute and three do (section 6, items 11 and 12).

**Only model-checked.** The liveness properties `EveryCallEnds`, `Settles`,
`CallsAreReported` (liveness and ENABLED are out of the prover's reach). Every
safety invariant and action property of a passing run is stated by a theorem. The
properties of handlers in turn are proved for handlers in turn:
they do not hold of any other.

## 8. Limits of the models

* Loyalty: customers without a valid phone and exempt orders are in the model and
  the proofs, not in the runs' instances; thresholds are constants (an admin can
  edit them), the invoice balance a redemption is capped by is any of
  `BillValues`; reminders are left out. `Short` and `Steep` are given, not derived:
  a run knows the doubles of its own inputs only.
* OrderDispatch: items are not added (upsells) or edited; a quoted charge is the
  number of its submission; PROCESSING counts as PRINTING; a sheet's change of
  status reads and writes its items in one step; couriers other than Bigship
  only confirm or refuse; sample orders are left out.
* Invoice: line totals stand for items, GST and discounts are left out, an
  upsell raises a line that is there, a redemption is a credit note, the
  production stages are APPROVED. Editing a receipt's fields, vendor notes,
  purchase bills and the invoice's printed lines are left out.
* ShopifyInbox: one order of the shop; carts and abandoned checkouts, the choice
  of customer and products, tracking numbers and the list views are left out; no
  two versions have one update time. A move of the ERP is one step: what Accounts
  does to a receipt between a hook's read of it and its write is left out, as are
  receipts entered by hand, the shop's reference typed on another receipt, and the
  deletion of the whole order (`orders/orders.service.ts:1399`). APPROVED stands
  for every later status but CANCELLED.
* DialerLocks: an agent has one request under way at a time, no two events have
  one instant, a request looks at one number instead of going through the tiers
  of the queue; what an outcome does to a lead and its follow-ups is left out.
* DialerPhone: outcomes are not told apart, permissions and SIMs matter only as
  refusals, a hang-up from the PC is one way for a call to end. Once Android has
  refused `startForeground`, it is taken to refuse it for each dial until a start
  goes through; the code lets both try on their own (`DialerService.kt:148`, 155,
  540), and if the dial after a refused start went through, the start's error would
  meet a page whose call is placed. `OutcomeOfThisCall`, `NoCallLost` and their
  theorems rest on this. Server and phone
  are not composed: the phone takes any number for an answer, the server lets a
  phone do with its number what DialerPhone may.

Hazards of parts that are not modelled, for the plan: paper taken twice for two
sheets sent at once (`paper-inventory/paper-inventory.service.ts:279`); a broadcast
job claimed by a worker that dies (`marketing/marketing.service.ts:605`); two orders
given one number, of which one fails (`orders/orders.service.ts:506`); a repeated
confirmation of a web payment (`storefront/storefront.service.ts:571`); a death
between creating, verifying and marking a remittance's receipt
(`remittance/remittance.service.ts:1031`).

## 9. Plan

Next, in this order; a module is checked before it is proved about.

1. **ClubbingSheet** – sheets, the quantities of items on them, and paper:
   allocation, removal, sending to a press and back. Properties: no item is
   placed for more than it was ordered; a press's paper is its movements' sum;
   a sheet takes paper once (two clicks, and a death between taking the paper
   and writing the sheet, are expected to break it). Proof: types, quantities.
2. **MarketingQueue** and **Remittance** – claims and retries; receipts posted
   once across restarts.
3. **Dialer composed**: DialerPhone on DialerLocks, so that an overlap of a page's
   two requests meets the lock they share.
4. **OrderDispatch with upsells**, and Loyalty refining an abstract wallet whose
   operations are atomic.
5. Smaller ones as time allows: complaints, rewards, the numbering of orders,
   web payments, estimates, HR formulas.

New modules share runs where their questions can be asked together; the runs
of a module answer distinct questions and none is added for its number.
