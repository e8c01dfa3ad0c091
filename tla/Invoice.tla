-------------------------------- MODULE Invoice --------------------------------
(***************************************************************************)
(* The bill of one order: its Invoice row, its receipts and what the       *)
(* ledger's Customer Receivable account was charged with reference to it.  *)
(* Accounts, sales and dispatch change them from handlers that overlap.    *)
(*                                                                         *)
(* Most of these handlers are a transaction that updates the order row     *)
(* and only then reads the invoice: the row is their lock.  Some are not:  *)
(* a cancellation reads the invoice before its transaction, and editing a  *)
(* courier charge, deleting a receipt and writing a note never touch the   *)
(* order row.  A handler is the steps between its reads and its writes; a  *)
(* transaction's writes are one step, its commit.  Each update writes its  *)
(* own columns of the invoice, from what it read.                          *)
(*                                                                         *)
(* Abstracted: an amount is a whole number of paise, to which the code     *)
(* rounds every sum it writes; an item is its line total; GST, which is    *)
(* carved out of the totals, and discounts are left out; new lines of an   *)
(* upsell raise a line that is there.  APPROVED also stands for the        *)
(* production stages, SHIPPED for every status from the first parcel on,   *)
(* and RETURNED is the status READY_FOR_DISPATCH of an order put back in   *)
(* the queue.  The request for a cancellation and the stages that allow it *)
(* are in OrderDispatch.                                                   *)
(***************************************************************************)
EXTENDS Integers, FiniteSets, Functions

CONSTANTS
  Items,        \* the items of the order
  Prices,       \* the line totals an item may have
  Receipts,     \* the receipts customers send: a bound
  Amount,       \* the amount of each receipt
  Parcels,      \* the courier parcels the order may travel in: a bound
  Charges,      \* the courier charges that may be collected on one
  Notes,        \* the notes accounts may write: credits below 0, debits above
  MaxNotes,     \* bound on the notes written
  Reqs,         \* handles of requests in flight: the bound on concurrency
  Handlers,     \* the handlers in use, a subset of AllHandlers
  NoReq,        \* nobody holds the order row
  NoId          \* a request about no receipt and no parcel

AllHandlers ==
  {"approve", "reject", "edit", "upsell", "cancel", "verify", "rejectPayment",
   "deletePayment", "ship", "return", "charge", "note"}
(* Those that read the invoice while they hold the order row, or leave it. *)
OrderLocked == AllHandlers \ {"cancel", "deletePayment", "charge", "note"}

ASSUME InvoiceAssumption ==
  /\ IsFiniteSet(Items) /\ IsFiniteSet(Receipts) /\ IsFiniteSet(Parcels)
  /\ Prices \subseteq Nat /\ Prices # {} /\ Charges \subseteq Nat /\ Notes \subseteq Int
  /\ Amount \in [Receipts -> Nat] /\ MaxNotes \in Nat
  /\ Handlers \subseteq AllHandlers
  /\ NoReq \notin Reqs /\ NoId \notin Receipts \cup Parcels

(* The amounts f[x] of the x in S, added up.                               *)
Sum(f, S) == SumFunctionOnSet(f, S)

VARIABLES
  order,     \* Order.status and grandTotal, the items' lineTotal and cancelledAt
  invoice,   \* the Invoice row
  receipt,   \* Payment.verificationStatus, NONE before the row and DELETED after
  parcels,   \* the Shipment rows
  charge,    \* Shipment.courierChargeCollected
  billed,    \* Customer Receivable: debits less credits of referenceType INVOICE
  posted,    \* PAYMENT_IN postings of each receipt
  notes,     \* notes begun so far
  lock,      \* the request that holds the order row
  req        \* the requests in flight

money == <<invoice, billed>>
payments == <<receipt, posted>>
shipments == <<parcels, charge>>
vars == <<order, invoice, receipt, parcels, charge, billed, posted, notes, lock, req>>

Statuses == {"PENDING_APPROVAL", "APPROVED", "SHIPPED", "RETURNED", "CANCELLED"}
Orders == [status : Statuses, price : [Items -> Prices],
           cancelled : SUBSET Items, total : Int]
Order(s, price, cancelled, total) ==
  [status |-> s, price |-> price, cancelled |-> cancelled, total |-> total]
Live(o) == Items \ o.cancelled

Invoices == [made : BOOLEAN, total : Int, courier : Int, paid : Int, balance : Int]
Bill(total, courier, paid, balance) ==
  [made |-> TRUE, total |-> total, courier |-> courier, paid |-> paid, balance |-> balance]
NoInvoice == [made |-> FALSE, total |-> 0, courier |-> 0, paid |-> 0, balance |-> 0]

ReceiptStatuses == {"NONE", "PENDING_VERIFICATION", "VERIFIED", "REJECTED", "DELETED"}
Exists(p) == receipt[p] \notin {"NONE", "DELETED"}
Verified == {p \in Receipts : receipt[p] = "VERIFIED"}
NonePending == \A p \in Receipts : receipt[p] # "PENDING_VERIFICATION"
PaidBy(S) == Sum(Amount, S)

(* The handlers that lock the order row before they read the invoice.      *)
Locking == {"approve", "upsell", "verifying", "ship"}
Pcs == Locking \cup {"idle", "edit", "cancel", "return", "verify", "deleted", "sync",
                    "synced", "charge", "note"}
(* What a request remembers: its items, its receipt or parcel, the amount  *)
(* it was given, a sum it computed, and the order and the invoice it read. *)
Requests ==
  {c \in [pc : Pcs, items : SUBSET Items, id : Receipts \cup Parcels \cup {NoId},
          amount : Int, sum : Int, seen : Orders, inv : Invoices] :
     /\ c.pc \in {"edit", "upsell"} => c.amount \in Prices
     /\ c.pc \in {"ship", "charge"} => c.amount \in Charges /\ c.id \in Parcels
     /\ c.pc \in {"verify", "verifying"} => c.id \in Receipts}
Call(pc, S, id, amount, sum, seen, inv) ==
  [pc |-> pc, items |-> S, id |-> id, amount |-> amount, sum |-> sum,
   seen |-> seen, inv |-> inv]

AtLeastZero(n) == IF n < 0 THEN 0 ELSE n
Unread == Order("PENDING_APPROVAL", [i \in Items |-> CHOOSE p \in Prices : TRUE], {}, 0)
Idle == Call("idle", {}, NoId, 0, 0, Unread, NoInvoice)

Init ==
  /\ \E f \in [Items -> Prices] : order = Order("PENDING_APPROVAL", f, {}, Sum(f, Items))
  /\ invoice = NoInvoice /\ billed = 0
  /\ receipt = [p \in Receipts |-> "NONE"] /\ posted = [p \in Receipts |-> 0]
  /\ parcels = {} /\ charge = [q \in Parcels |-> 0]
  /\ notes = 0 /\ lock = NoReq /\ req = [r \in Reqs |-> Idle]

------------------------------------------------------------------------------
At(r, pc) == req[r].pc = pc
Start(r, handler, call) ==
  /\ handler \in Handlers
  /\ At(r, "idle")
  /\ req' = [req EXCEPT ![r] = call]
  /\ UNCHANGED <<order, money, payments, shipments, lock>>
(* Between two reads nothing but the request changes.                      *)
Goto(r, call) ==
  /\ req' = [req EXCEPT ![r] = call]
  /\ UNCHANGED <<order, money, payments, shipments, notes, lock>>
Done(r) == req' = [req EXCEPT ![r] = Idle]

(* A transaction updates the order row, which it then holds until it       *)
(* commits, and reads the invoice.                                         *)
TakeOrderRow(r) ==
  /\ req[r].pc \in Locking
  /\ lock = NoReq /\ lock' = r
  /\ req' = [req EXCEPT ![r] = Call(req[r].pc, req[r].items, req[r].id, req[r].amount,
                                    req[r].sum, req[r].seen, invoice)]
  /\ UNCHANGED <<order, money, payments, shipments, notes>>
(* The commit of a transaction that holds the row.                         *)
Commit(r, pc) == At(r, pc) /\ lock = r /\ lock' = NoReq /\ Done(r)
(* The commit of one that needs the row at its end only, or not at all.    *)
CommitNow(r, pc) == At(r, pc) /\ lock = NoReq /\ UNCHANGED lock /\ Done(r)
CommitUnlocked(r, pc) == At(r, pc) /\ UNCHANGED lock /\ Done(r)

(* Mutated form: a bill that grows posts no debit note.                    *)
Post_OnlyReductions(old, new) ==
  billed' = billed + IF new < old THEN new - old ELSE 0
(* The note on Customer Receivable for what changed in the total.          *)
Post(old, new) == billed' = billed + (new - old)

(* Mutated form: the courier charge on the invoice is dropped.             *)
Reconcile_NoCourier(inv, lines) ==
  /\ invoice' = Bill(lines, invoice.courier, invoice.paid, lines - inv.paid)
  /\ Post(inv.total, lines)
(* reconcileInvoiceToRemainingItems: the bill for these lines and the      *)
(* courier charge on it, less what the invoice that was read says is paid. *)
Reconcile(inv, lines) ==
  LET t == AtLeastZero(lines + inv.courier)
  IN /\ invoice' = Bill(t, invoice.courier, invoice.paid, t - inv.paid)
     /\ Post(inv.total, t)

(* syncInvoiceCourierCharge: the total and the balance move by the change, *)
(* if there is one.                                                        *)
SyncCourier(inv, courier) ==
  LET diff == courier - inv.courier
  IN IF inv.made /\ diff # 0
     THEN /\ invoice' = Bill(inv.total + diff, courier, invoice.paid, inv.balance + diff)
          /\ Post(inv.total, inv.total + diff)
     ELSE UNCHANGED money

(* Mutated form: a charge collected before the approval is not billed.     *)
Raise_NoCourier(total, paid) ==
  /\ invoice' = Bill(total, 0, paid, total - paid)
  /\ Post(0, total)
(* Mutated form: receipts verified before the approval are not counted.    *)
Raise_NothingPaid(total, paid) ==
  LET courier == Sum(charge, Parcels)
  IN /\ invoice' = Bill(total + courier, courier, 0, total + courier)
     /\ Post(0, total + courier)
(* The first invoice, with the courier charge collected so far.            *)
Raise(total, paid) ==
  LET courier == Sum(charge, Parcels)
  IN /\ invoice' = Bill(total + courier, courier, paid, (total - paid) + courier)
     /\ Post(0, total + courier)

------------------------------------------------------------------------------
(* The order and its items.                                                *)
ApproveCheck(r) ==
  /\ order.status = "PENDING_APPROVAL"
  /\ NonePending
  /\ Start(r, "approve", Call("approve", {}, NoId, 0, PaidBy(Verified), order, NoInvoice))
  /\ UNCHANGED notes
(* createInvoiceAndLedger, from the order read before the transaction.     *)
Approve(r) ==
  /\ Commit(r, "approve")
  /\ order' = Order("APPROVED", order.price, order.cancelled, order.total)
  /\ IF req[r].inv.made
     THEN Reconcile(req[r].inv, Sum(req[r].seen.price, Live(req[r].seen)))
     ELSE Raise(req[r].seen.total, req[r].sum)
  /\ UNCHANGED <<payments, shipments, notes>>

(* rejectOrder leaves the invoice of an order that had one.                *)
RejectOrder ==
  /\ "reject" \in Handlers /\ lock = NoReq
  /\ order' = Order("CANCELLED", order.price, order.cancelled, order.total)
  /\ UNCHANGED <<money, payments, shipments, notes, lock, req>>

(* superAdminEditItem sends the order back to accounts.                    *)
EditCheck(r) ==
  /\ order.status \in {"PENDING_APPROVAL", "APPROVED", "RETURNED"}
  /\ \E i \in Live(order), p \in Prices :
       Start(r, "edit", Call("edit", {i}, NoId, p, 0, order, NoInvoice))
  /\ UNCHANGED notes
Edit(r) ==
  /\ CommitNow(r, "edit")
  /\ LET edited(f) == [i \in Items |-> IF i \in req[r].items THEN req[r].amount ELSE f[i]]
     IN order' = Order("PENDING_APPROVAL", edited(order.price), order.cancelled,
                       Sum(edited(req[r].seen.price), Live(req[r].seen)))
  /\ UNCHANGED <<money, payments, shipments, notes>>

(* approveUpsell writes the status it read, and bills the items there are. *)
UpsellCheck(r) ==
  /\ order.status \in {"APPROVED", "RETURNED"} /\ NonePending
  /\ \E i \in Live(order) : \E p \in Prices :
       /\ p > order.price[i]
       /\ Start(r, "upsell", Call("upsell", {i}, NoId, p, p - order.price[i], order, NoInvoice))
  /\ UNCHANGED notes
Upsell(r) ==
  /\ Commit(r, "upsell")
  /\ LET raised == [i \in Items |-> IF i \in req[r].items THEN req[r].amount ELSE order.price[i]]
     IN /\ order' = Order(req[r].seen.status, raised, order.cancelled,
                          req[r].seen.total + req[r].sum)
        /\ IF req[r].inv.made THEN Reconcile(req[r].inv, Sum(raised, Live(order)))
           ELSE UNCHANGED money
  /\ UNCHANGED <<payments, shipments, notes>>

(* approveCancellation: the order and the invoice are read before the      *)
(* transaction; no items named means the whole order.  The items that      *)
(* remain are those not named now, cancelled earlier or not.               *)
CancelCheck(r) ==
  /\ order.status # "CANCELLED"
  /\ \E S \in SUBSET Live(order) :
       /\ S = {} => order.cancelled = {} /\ order.status # "SHIPPED"
       /\ Start(r, "cancel", Call("cancel", S, NoId, 0, 0, order, invoice))
  /\ UNCHANGED notes
Cancel(r) ==
  /\ CommitNow(r, "cancel")
  /\ LET S == req[r].items
         seen == req[r].seen
     IN \/ /\ S = {}
           /\ order' = Order("CANCELLED", order.price, Items, order.total)
           /\ IF req[r].inv.made THEN Reconcile(req[r].inv, 0) ELSE UNCHANGED money
        \/ /\ S # {}
           /\ order' = Order(order.status, order.price, order.cancelled \cup S,
                             AtLeastZero(seen.total - Sum(seen.price, S)))
           /\ IF req[r].inv.made THEN Reconcile(req[r].inv, Sum(seen.price, Items \ S))
              ELSE UNCHANGED money
  /\ UNCHANGED <<payments, shipments, notes>>

------------------------------------------------------------------------------
(* Receipts.  A transaction that updates a payment holds its row.          *)
Held(p) == \E r \in Reqs : At(r, "verifying") /\ req[r].id = p

AddPayment ==
  /\ \E p \in Receipts :
       /\ receipt[p] = "NONE"
       /\ receipt' = [receipt EXCEPT ![p] = "PENDING_VERIFICATION"]
  /\ UNCHANGED <<order, money, posted, shipments, notes, lock, req>>

(* Mutated form: any receipt can be verified, again too.                   *)
VerifyCheck_Any(r) ==
  /\ \E p \in Receipts :
       /\ Exists(p)
       /\ Start(r, "verify", Call("verify", {}, p, 0, 0, Unread, NoInvoice))
  /\ UNCHANGED notes
(* verifyPayment checks the receipt, ...                                   *)
VerifyCheck(r) ==
  /\ \E p \in Receipts :
       /\ receipt[p] = "PENDING_VERIFICATION"
       /\ Start(r, "verify", Call("verify", {}, p, 0, 0, Unread, NoInvoice))
  /\ UNCHANGED notes
(* ... updates it and adds up the verified ones it sees, all before it     *)
(* takes the order row, ...                                                *)
VerifyReads(r) ==
  /\ At(r, "verify") /\ Exists(req[r].id) /\ ~Held(req[r].id)
  /\ Goto(r, Call("verifying", {}, req[r].id, 0, PaidBy(Verified \cup {req[r].id}),
                  Unread, NoInvoice))
(* Mutated form: a PaymentStatus is written for a verification status.     *)
Verify_Paid(r) ==
  /\ Commit(r, "verifying")
  /\ receipt' = [receipt EXCEPT ![req[r].id] = "PAID"]
  /\ UNCHANGED <<order, money, posted, shipments, notes>>
(* Mutated form: the balance is lowered by the receipt, not recomputed.    *)
Verify_LowersBalance(r) ==
  /\ Commit(r, "verifying")
  /\ receipt' = [receipt EXCEPT ![req[r].id] = "VERIFIED"]
  /\ IF req[r].inv.made
     THEN /\ invoice' = Bill(invoice.total, invoice.courier, req[r].sum,
                             req[r].inv.balance - Amount[req[r].id])
          /\ posted' = [posted EXCEPT ![req[r].id] = posted[req[r].id] + 1]
     ELSE UNCHANGED <<invoice, posted>>
  /\ UNCHANGED <<order, billed, shipments, notes>>
(* ... and puts that sum on the invoice.                                   *)
Verify(r) ==
  /\ Commit(r, "verifying")
  /\ receipt' = [receipt EXCEPT ![req[r].id] = "VERIFIED"]
  /\ IF req[r].inv.made
     THEN /\ invoice' = Bill(invoice.total, invoice.courier, req[r].sum,
                             req[r].inv.total - req[r].sum)
          /\ posted' = [posted EXCEPT ![req[r].id] = posted[req[r].id] + 1]
     ELSE UNCHANGED <<invoice, posted>>
  /\ UNCHANGED <<order, billed, shipments, notes>>

(* rejectPayment looks at nothing and leaves the invoice.                  *)
RejectPayment ==
  /\ "rejectPayment" \in Handlers
  /\ \E p \in Receipts :
       /\ Exists(p) /\ ~Held(p)
       /\ receipt' = [receipt EXCEPT ![p] = "REJECTED"]
  /\ UNCHANGED <<order, money, posted, shipments, notes, lock, req>>

(* deletePayment deletes the row, refreshes the order's payment status,    *)
(* for which it waits for the row, and syncInvoicePaidAmount then reads    *)
(* the invoice and the verified receipts and writes; not in a transaction. *)
DeletePayment(r) ==
  /\ "deletePayment" \in Handlers /\ At(r, "idle")
  /\ \E p \in Receipts :
       /\ Exists(p) /\ ~Held(p)
       /\ receipt' = [receipt EXCEPT ![p] = "DELETED"]
  /\ req' = [req EXCEPT ![r] = Call("deleted", {}, NoId, 0, 0, Unread, NoInvoice)]
  /\ UNCHANGED <<order, money, posted, shipments, notes, lock>>
RefreshOrderPaymentStatus(r) ==
  /\ At(r, "deleted") /\ lock = NoReq
  /\ Goto(r, Call("sync", {}, NoId, 0, 0, Unread, NoInvoice))
SyncPaidReads(r) ==
  /\ At(r, "sync")
  /\ Goto(r, IF invoice.made THEN Call("synced", {}, NoId, 0, PaidBy(Verified), Unread, invoice)
             ELSE Idle)
SyncPaid(r) ==
  /\ CommitUnlocked(r, "synced")
  /\ invoice' = Bill(invoice.total, invoice.courier, req[r].sum, req[r].inv.total - req[r].sum)
  /\ UNCHANGED <<order, billed, payments, shipments, notes>>

------------------------------------------------------------------------------
(* The courier charge.  A new parcel (bookItems, markManuallyDispatched)   *)
(* brings the charge collected on it, ...                                  *)
ShipCheck(r) ==
  /\ \E q \in Parcels \ parcels, c \in Charges :
       Start(r, "ship", Call("ship", {}, q, c, 0, Unread, NoInvoice))
  /\ UNCHANGED notes
Ship(r) ==
  /\ Commit(r, "ship") /\ req[r].id \notin parcels
  /\ order' = Order("SHIPPED", order.price, order.cancelled, order.total)
  /\ parcels' = parcels \cup {req[r].id}
  /\ charge' = [charge EXCEPT ![req[r].id] = req[r].amount]
  /\ SyncCourier(req[r].inv, Sum(charge', Parcels))
  /\ UNCHANGED <<payments, notes>>

(* ... a parcel whose courier cancelled it goes with its charge, in any    *)
(* status of the order, and the invoice is left (returnToQueue,            *)
(* autoReturnToQueueOnCancellation), ...                                   *)
ReturnCheck(r) ==
  /\ \E q \in IF parcels = {} THEN {NoId} ELSE parcels :
       Start(r, "return", Call("return", {}, q, 0, 0, Unread, NoInvoice))
  /\ UNCHANGED notes
ReturnToQueue(r) ==
  /\ CommitNow(r, "return")
  /\ req[r].id \in parcels \cup {NoId}
  /\ \A s \in Reqs : At(s, "charge") => req[s].id # req[r].id
  /\ order' = Order("RETURNED", order.price, order.cancelled, order.total)
  /\ parcels' = parcels \ {req[r].id}
  /\ charge' = [q \in Parcels |-> IF q = req[r].id THEN 0 ELSE charge[q]]
  /\ UNCHANGED <<money, payments, notes>>

(* ... and updateCourierChargeCollected changes it, holding the parcel's   *)
(* row.  It reads the invoice and then adds up the charges it sees.        *)
ChargeReads(r) ==
  /\ \E q \in parcels, c \in Charges :
       /\ \A s \in Reqs : At(s, "charge") => req[s].id # q
       /\ Start(r, "charge", Call("charge", {}, q, c, Sum([charge EXCEPT ![q] = c], Parcels),
                                  Unread, invoice))
  /\ UNCHANGED notes
UpdateCharge(r) ==
  /\ CommitUnlocked(r, "charge")
  /\ charge' = [charge EXCEPT ![req[r].id] = req[r].amount]
  /\ SyncCourier(req[r].inv, req[r].sum)
  /\ UNCHANGED <<order, payments, parcels, notes>>

(* createAccountingNote.  A redemption of points does the same as a credit *)
(* note, and posts nothing; its own ledger is in Loyalty.  What a note     *)
(* posts refers to the note.                                               *)
NoteReads(r) ==
  /\ invoice.made
  /\ notes < MaxNotes /\ notes' = notes + 1
  /\ \E n \in Notes : Start(r, "note", Call("note", {}, NoId, n, 0, Unread, invoice))
WriteNote(r) ==
  /\ CommitUnlocked(r, "note")
  /\ LET b == req[r].inv.balance + req[r].amount
     IN invoice' = Bill(invoice.total, invoice.courier, invoice.paid,
                        IF req[r].amount < 0 THEN AtLeastZero(b) ELSE b)
  /\ UNCHANGED <<order, billed, payments, shipments, notes>>

(* A request dies; an open transaction is rolled back.                     *)
Fails(r) ==
  /\ ~At(r, "idle") /\ Done(r)
  /\ lock' = IF lock = r THEN NoReq ELSE lock
  /\ UNCHANGED <<order, money, payments, shipments, notes>>

------------------------------------------------------------------------------
OrderStep(r) ==
  \/ ApproveCheck(r) \/ Approve(r) \/ EditCheck(r) \/ Edit(r)
  \/ UpsellCheck(r) \/ Upsell(r) \/ CancelCheck(r) \/ Cancel(r)
ReceiptStep(r) ==
  \/ VerifyCheck(r) \/ VerifyReads(r) \/ Verify(r)
  \/ DeletePayment(r) \/ RefreshOrderPaymentStatus(r) \/ SyncPaidReads(r) \/ SyncPaid(r)
ChargeStep(r) ==
  \/ ShipCheck(r) \/ Ship(r) \/ ReturnCheck(r) \/ ReturnToQueue(r)
  \/ ChargeReads(r) \/ UpdateCharge(r) \/ NoteReads(r) \/ WriteNote(r)
Next ==
  \/ RejectOrder \/ AddPayment \/ RejectPayment
  \/ \E r \in Reqs : OrderStep(r) \/ ReceiptStep(r) \/ ChargeStep(r)
                     \/ TakeOrderRow(r) \/ Fails(r)

Spec == Init /\ [][Next]_vars

------------------------------------------------------------------------------
(* Types.  A posting counts, and only the row of a request can be held.    *)
TypeOK ==
  /\ order \in Orders /\ invoice \in Invoices /\ billed \in Int
  /\ receipt \in [Receipts -> ReceiptStatuses] /\ posted \in [Receipts -> Nat]
  /\ parcels \subseteq Parcels /\ charge \in [Parcels -> Charges \cup {0}]
  /\ notes \in 0..MaxNotes /\ lock \in Reqs \cup {NoReq}
  /\ req \in [Reqs -> Requests]

(* What the ledger charged the customer with reference to this invoice is  *)
(* the invoice's total ("so the books stay balanced either direction", *)
(* reconcileInvoiceToRemainingItems, accounts.service.ts:827-829).         *)
ReceivableIsTotal == billed = invoice.total

(* As long as no note was written, the balance is the total less what was  *)
(* paid (accounts.service.ts:883, 2552; sync-invoice-paid-amount.ts:35).   *)
BalanceIsTotalLessPaid == invoice.balance = invoice.total - invoice.paid

(* The courier line of the invoice is what was collected on the parcels    *)
(* ("can never disagree", dispatch.service.ts:2878-2879).                  *)
CourierIsCollected == invoice.made => invoice.courier = Sum(charge, Parcels)

(* An approved order has an invoice, and no live item and no courier       *)
(* charge is missing from it (createInvoiceAndLedger's comment,            *)
(* accounts.service.ts:138-151).                                           *)
ApprovedIsBilled ==
  order.status = "APPROVED" =>
    invoice.made /\ invoice.total >= Sum(order.price, Live(order)) + Sum(charge, Parcels)

(* No verified receipt is missing from the invoice (createInvoiceAndLedger *)
(* counts the ones verified before, verifyPayment and                      *)
(* syncInvoicePaidAmount the later ones).                                  *)
PaidCountsVerified == invoice.made => invoice.paid >= PaidBy(Verified)

(* No receipt lowers Customer Receivable twice (verifyPayment's check,     *)
(* accounts.service.ts:2516-2518).                                         *)
ReceiptPostedOnce == \A p \in Receipts : posted[p] <= 1

(* An approved order is billed for the items it has left, the ones "left"  *)
(* after a cancellation included (accounts.service.ts:819-820).            *)
BillsTheItemsLeft ==
  order.status = "APPROVED" =>
    invoice.total = Sum(order.price, Live(order)) + Sum(charge, Parcels)
=============================================================================
