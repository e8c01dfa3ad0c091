---------------------------- MODULE Invoice_proof ----------------------------
(***************************************************************************)
(* Proofs about Invoice: its types, and what the order row's lock is good  *)
(* for.  As long as every handler in use either reads the invoice while it *)
(* holds the order row or leaves the invoice alone, the ledger and the     *)
(* balance follow the invoice, for any number of requests, items, receipts *)
(* and parcels and any amounts.  With one request at a time, and every     *)
(* handler in use, an approved order is billed for all its items and       *)
(* charges, no verified receipt goes uncounted and none is posted twice.   *)
(***************************************************************************)
EXTENDS Invoice, SumTheorems, TLAPS

(* The values a request is given are of the type of its fields.            *)
LEMMA CallType ==
  ASSUME NEW pc \in Pcs, NEW S \in SUBSET Items,
         NEW id \in Receipts \cup Parcels \cup {NoId}, NEW amount \in Int, NEW sum \in Int,
         NEW seen \in Orders, NEW inv \in Invoices,
         pc \in {"edit", "upsell"} => amount \in Prices,
         pc \in {"ship", "charge"} => amount \in Charges /\ id \in Parcels,
         pc \in {"verify", "verifying"} => id \in Receipts
  PROVE  Call(pc, S, id, amount, sum, seen, inv) \in Requests
BY DEF Call, Requests

LEMMA OrderType ==
  ASSUME NEW s \in Statuses, NEW price \in [Items -> Prices], NEW cancelled \in SUBSET Items,
         NEW total \in Int
  PROVE  Order(s, price, cancelled, total) \in Orders
BY DEF Order, Orders

LEMMA BillType ==
  ASSUME NEW total \in Int, NEW courier \in Int, NEW paid \in Int, NEW balance \in Int
  PROVE  Bill(total, courier, paid, balance) \in Invoices
BY DEF Bill, Invoices

LEMMA BlankTypes == Unread \in Orders /\ NoInvoice \in Invoices /\ Idle \in Requests
<1>1. (CHOOSE p \in Prices : TRUE) \in Prices
  BY InvoiceAssumption
<1>2. Unread \in Orders
  BY <1>1, OrderType DEF Unread, Statuses
<1>3. NoInvoice \in Invoices
  BY DEF NoInvoice, Invoices
<1>4. "idle" \in Pcs /\ NoId \in Receipts \cup Parcels \cup {NoId}
  BY DEF Pcs
<1>5. Idle \in Requests
  BY <1>2, <1>3, <1>4, CallType DEF Idle
<1>6. QED
  BY <1>2, <1>3, <1>5

(* The fields of the rows and of a request.                                *)
LEMMA FieldTypes ==
  ASSUME TypeOK
  PROVE  /\ order.status \in Statuses /\ order.price \in [Items -> Prices]
         /\ order.cancelled \subseteq Items /\ order.total \in Int
         /\ invoice.made \in BOOLEAN /\ invoice.total \in Int /\ invoice.courier \in Int
         /\ invoice.paid \in Int /\ invoice.balance \in Int
BY DEF TypeOK, Orders, Invoices

LEMMA RequestTypes ==
  ASSUME TypeOK, NEW r \in Reqs
  PROVE  /\ req[r].pc \in Pcs /\ req[r].items \subseteq Items
         /\ req[r].id \in Receipts \cup Parcels \cup {NoId}
         /\ req[r].amount \in Int /\ req[r].sum \in Int
         /\ req[r].seen \in Orders /\ req[r].inv \in Invoices
         /\ req[r].seen.status \in Statuses /\ req[r].seen.price \in [Items -> Prices]
         /\ req[r].seen.cancelled \subseteq Items /\ req[r].seen.total \in Int
         /\ req[r].inv.total \in Int /\ req[r].inv.courier \in Int
         /\ req[r].inv.paid \in Int /\ req[r].inv.balance \in Int
         /\ req[r].pc \in {"edit", "upsell"} => req[r].amount \in Prices
         /\ req[r].pc \in {"ship", "charge"} => req[r].amount \in Charges /\ req[r].id \in Parcels
         /\ req[r].pc \in {"verify", "verifying"} => req[r].id \in Receipts
<1>1. req[r] \in Requests
  BY DEF TypeOK
<1>2. req[r].seen \in Orders /\ req[r].inv \in Invoices
  BY <1>1 DEF Requests
<1>3. QED
  BY <1>1, <1>2 DEF Requests, Orders, Invoices

(* Sums of items, receipts and charges are numbers, none below 0.          *)
LEMMA SumNats ==
  /\ \A f \in [Items -> Prices] : \A S \in SUBSET Items : Sum(f, S) \in Nat
  /\ \A S \in SUBSET Receipts : PaidBy(S) \in Nat
  /\ \A f \in [Parcels -> Charges \cup {0}] : Sum(f, Parcels) \in Nat
<1>0. /\ IsFiniteSet(Items) /\ IsFiniteSet(Receipts) /\ IsFiniteSet(Parcels)
      /\ Prices \subseteq Nat /\ Charges \cup {0} \subseteq Nat /\ Amount \in [Receipts -> Nat]
  BY InvoiceAssumption
<1>1. ASSUME NEW f \in [Items -> Prices], NEW S \in SUBSET Items PROVE Sum(f, S) \in Nat
  <2>1. IsFiniteSet(S) /\ \A x \in S : f[x] \in Nat
    BY <1>0, FS_Subset
  <2>2. QED
    BY <2>1, SumAtLeast DEF Sum
<1>2. ASSUME NEW S \in SUBSET Receipts PROVE PaidBy(S) \in Nat
  <2>1. IsFiniteSet(S) /\ \A x \in S : Amount[x] \in Nat
    BY <1>0, FS_Subset
  <2>2. QED
    BY <2>1, SumAtLeast DEF Sum, PaidBy
<1>3. ASSUME NEW f \in [Parcels -> Charges \cup {0}] PROVE Sum(f, Parcels) \in Nat
  <2>1. \A x \in Parcels : f[x] \in Nat
    BY <1>0
  <2>2. QED
    BY <1>0, <2>1, SumAtLeast DEF Sum
<1>4. QED
  BY <1>1, <1>2, <1>3

LEMMA SumTypes ==
  /\ \A f \in [Items -> Prices] : \A S \in SUBSET Items : Sum(f, S) \in Int
  /\ \A S \in SUBSET Receipts : PaidBy(S) \in Int
  /\ \A f \in [Parcels -> Charges \cup {0}] : Sum(f, Parcels) \in Int
BY SumNats

------------------------------------------------------------------------------
(* The steps that only move a request on keep the types.                   *)
LEMMA StartType ==
  ASSUME TypeOK, NEW r \in Reqs, NEW h, NEW call \in Requests, Start(r, h, call),
         notes' \in 0..MaxNotes
  PROVE  TypeOK'
BY DEF TypeOK, Start, money, payments, shipments

LEMMA GotoType ==
  ASSUME TypeOK, NEW r \in Reqs, NEW call \in Requests, Goto(r, call)
  PROVE  TypeOK'
BY DEF TypeOK, Goto, money, payments, shipments

LEMMA DoneType ==
  ASSUME TypeOK, NEW r \in Reqs, Done(r)
  PROVE  req' \in [Reqs -> Requests]
BY BlankTypes DEF TypeOK, Done

LEMMA CommitType ==
  ASSUME TypeOK, NEW r \in Reqs, NEW pc,
         Commit(r, pc) \/ CommitNow(r, pc) \/ CommitUnlocked(r, pc)
  PROVE  lock' \in Reqs \cup {NoReq} /\ req' \in [Reqs -> Requests]
<1>1. lock' \in Reqs \cup {NoReq}
  BY DEF TypeOK, Commit, CommitNow, CommitUnlocked
<1>2. Done(r)
  BY DEF Commit, CommitNow, CommitUnlocked
<1>3. QED
  BY <1>1, <1>2, DoneType

LEMMA ReconcileType ==
  ASSUME TypeOK, NEW inv \in Invoices, NEW lines \in Int, Reconcile(inv, lines)
  PROVE  invoice' \in Invoices /\ billed' \in Int
<1>1. inv.courier \in Int /\ inv.paid \in Int /\ inv.total \in Int
  BY DEF Invoices
<1>2. AtLeastZero(lines + inv.courier) \in Int
  BY <1>1 DEF AtLeastZero
<1>3. invoice' \in Invoices
  BY <1>1, <1>2, FieldTypes, BillType DEF Reconcile
<1>4. billed' \in Int
  BY <1>1, <1>2 DEF Reconcile, Post, TypeOK
<1>5. QED
  BY <1>3, <1>4

LEMMA SyncCourierType ==
  ASSUME TypeOK, NEW inv \in Invoices, NEW courier \in Int, SyncCourier(inv, courier)
  PROVE  invoice' \in Invoices /\ billed' \in Int
<1>1. inv.courier \in Int /\ inv.balance \in Int /\ inv.total \in Int
  BY DEF Invoices
<1>2. CASE inv.made /\ courier - inv.courier # 0
  <2>0. /\ inv.total + (courier - inv.courier) \in Int
        /\ inv.balance + (courier - inv.courier) \in Int
    BY <1>1
  <2>1. invoice' \in Invoices
    BY <2>0, <1>2, FieldTypes, BillType DEF SyncCourier
  <2>2. billed' \in Int
    BY <1>1, <1>2 DEF SyncCourier, Post, TypeOK
  <2>3. QED
    BY <2>1, <2>2
<1>3. CASE ~(inv.made /\ courier - inv.courier # 0)
  BY <1>3 DEF SyncCourier, money, TypeOK
<1>4. QED
  BY <1>2, <1>3

LEMMA RaiseType ==
  ASSUME TypeOK, NEW total \in Int, NEW paid \in Int, Raise(total, paid)
  PROVE  invoice' \in Invoices /\ billed' \in Int
<1>1. Sum(charge, Parcels) \in Int
  BY SumTypes DEF TypeOK
<1>2. QED
  BY <1>1, BillType DEF Raise, Post, TypeOK

------------------------------------------------------------------------------
(* Type correctness, action by action.                                     *)
LEMMA OrderStepType ==
  ASSUME TypeOK, NEW r \in Reqs, OrderStep(r)
  PROVE  TypeOK'
<1> USE BlankTypes
<1>1. CASE ApproveCheck(r)
  <2>1. PaidBy(Verified) \in Int
    BY SumTypes DEF Verified
  <2>2. Call("approve", {}, NoId, 0, PaidBy(Verified), order, NoInvoice) \in Requests
    BY <2>1, CallType DEF TypeOK, Pcs, Locking
  <2>3. QED
    BY <1>1, <2>2, StartType DEF ApproveCheck, TypeOK
<1>2. CASE Approve(r)
  <2>1. lock' \in Reqs \cup {NoReq} /\ req' \in [Reqs -> Requests]
    BY <1>2, CommitType DEF Approve
  <2>2. order' \in Orders
    BY <1>2, OrderType, FieldTypes DEF Approve, Statuses
  <2>3. Sum(req[r].seen.price, Live(req[r].seen)) \in Int
    BY SumTypes, RequestTypes DEF Live
  <2>4. invoice' \in Invoices /\ billed' \in Int
    BY <1>2, <2>3, ReconcileType, RaiseType, RequestTypes DEF Approve
  <2>5. QED
    BY <1>2, <2>1, <2>2, <2>4 DEF Approve, TypeOK, payments, shipments
<1>3. CASE EditCheck(r)
  <2>1. PICK i \in Live(order), p \in Prices :
          Start(r, "edit", Call("edit", {i}, NoId, p, 0, order, NoInvoice))
    BY <1>3 DEF EditCheck
  <2>2. Call("edit", {i}, NoId, p, 0, order, NoInvoice) \in Requests
    <3>1. p \in Int /\ {i} \in SUBSET Items
      BY InvoiceAssumption DEF Live
    <3>2. "edit" \in Pcs /\ order \in Orders
      BY DEF Pcs, TypeOK
    <3>3. QED
      BY <3>1, <3>2, CallType
  <2>3. QED
    BY <1>3, <2>1, <2>2, StartType DEF EditCheck, TypeOK
<1>4. CASE Edit(r)
  <2>1. lock' \in Reqs \cup {NoReq} /\ req' \in [Reqs -> Requests]
    BY <1>4, CommitType DEF Edit
  <2> DEFINE edited(f) == [i \in Items |-> IF i \in req[r].items THEN req[r].amount ELSE f[i]]
  <2>2. req[r].amount \in Prices
    BY <1>4, RequestTypes DEF Edit, CommitNow, At
  <2>3. edited(order.price) \in [Items -> Prices] /\ edited(req[r].seen.price) \in [Items -> Prices]
    BY <2>2, FieldTypes, RequestTypes
  <2>4. Sum(edited(req[r].seen.price), Live(req[r].seen)) \in Int
    BY <2>3, SumTypes DEF Live
  <2>5. order' = Order("PENDING_APPROVAL", edited(order.price), order.cancelled,
                       Sum(edited(req[r].seen.price), Live(req[r].seen)))
    BY <1>4 DEF Edit
  <2> HIDE DEF edited
  <2>6. order' \in Orders
    BY <2>3, <2>4, <2>5, FieldTypes, OrderType DEF Statuses
  <2>7. QED
    BY <1>4, <2>1, <2>6 DEF Edit, TypeOK, money, payments, shipments
<1>5. CASE UpsellCheck(r)
  <2>1. PICK i \in Live(order), p \in Prices :
          Start(r, "upsell", Call("upsell", {i}, NoId, p, p - order.price[i], order, NoInvoice))
    BY <1>5 DEF UpsellCheck
  <2>2. order.price[i] \in Int /\ p \in Int
    <3>0. \A x \in Prices : x \in Int
      BY InvoiceAssumption
    <3>1. i \in Items /\ order.price \in [Items -> Prices]
      BY FieldTypes DEF Live
    <3>2. order.price[i] \in Prices /\ p \in Prices
      BY <3>1
    <3>3. QED
      BY <3>0, <3>2
  <2>3. Call("upsell", {i}, NoId, p, p - order.price[i], order, NoInvoice) \in Requests
    <3>0. p - order.price[i] \in Int
      BY <2>2
    <3>1. {i} \in SUBSET Items
      BY DEF Live
    <3>2. "upsell" \in Pcs /\ order \in Orders
      BY DEF Pcs, Locking, TypeOK
    <3>3. QED
      BY <2>2, <3>0, <3>1, <3>2, CallType
  <2>4. QED
    BY <1>5, <2>1, <2>3, StartType DEF UpsellCheck, TypeOK
<1>6. CASE Upsell(r)
  <2>1. lock' \in Reqs \cup {NoReq} /\ req' \in [Reqs -> Requests]
    BY <1>6, CommitType DEF Upsell
  <2> DEFINE raised == [i \in Items |-> IF i \in req[r].items THEN req[r].amount ELSE order.price[i]]
  <2>2. req[r].amount \in Prices
    BY <1>6, RequestTypes DEF Upsell, Commit, At
  <2>3. raised \in [Items -> Prices]
    BY <2>2, FieldTypes
  <2>4. Sum(raised, Live(order)) \in Int
    BY <2>3, SumTypes DEF Live
  <2>5. /\ order' = Order(req[r].seen.status, raised, order.cancelled,
                          req[r].seen.total + req[r].sum)
        /\ IF req[r].inv.made THEN Reconcile(req[r].inv, Sum(raised, Live(order)))
           ELSE UNCHANGED money
        /\ UNCHANGED <<payments, shipments, notes>>
    BY <1>6 DEF Upsell
  <2> HIDE DEF raised
  <2>6. order' \in Orders
    BY <2>3, <2>5, FieldTypes, RequestTypes, OrderType
  <2>7. invoice' \in Invoices /\ billed' \in Int
    BY <2>4, <2>5, ReconcileType, RequestTypes DEF money, TypeOK
  <2>8. QED
    BY <2>1, <2>5, <2>6, <2>7 DEF TypeOK, payments, shipments
<1>7. CASE CancelCheck(r)
  <2>1. PICK S \in SUBSET Live(order) :
          Start(r, "cancel", Call("cancel", S, NoId, 0, 0, order, invoice))
    BY <1>7 DEF CancelCheck
  <2>2. Call("cancel", S, NoId, 0, 0, order, invoice) \in Requests
    <3>1. "cancel" \in Pcs /\ order \in Orders /\ invoice \in Invoices
      BY DEF Pcs, TypeOK
    <3>2. S \in SUBSET Items
      BY DEF Live
    <3>3. QED
      BY <3>1, <3>2, CallType
  <2>3. QED
    BY <1>7, <2>1, <2>2, StartType DEF CancelCheck, TypeOK
<1>8. CASE Cancel(r)
  <2>1. lock' \in Reqs \cup {NoReq} /\ req' \in [Reqs -> Requests]
    BY <1>8, CommitType DEF Cancel
  <2>2. /\ Sum(req[r].seen.price, req[r].items) \in Int
        /\ Sum(req[r].seen.price, Items \ req[r].items) \in Int
    BY SumTypes, RequestTypes
  <2>3. AtLeastZero(req[r].seen.total - Sum(req[r].seen.price, req[r].items)) \in Int
    BY <2>2, RequestTypes DEF AtLeastZero
  <2>4. CASE req[r].items = {}
    <3>1. order' = Order("CANCELLED", order.price, Items, order.total)
          /\ IF req[r].inv.made THEN Reconcile(req[r].inv, 0) ELSE UNCHANGED money
      BY <1>8, <2>4 DEF Cancel
    <3>2. order' \in Orders
      BY <3>1, FieldTypes, OrderType DEF Statuses
    <3>3. invoice' \in Invoices /\ billed' \in Int
      BY <3>1, ReconcileType, RequestTypes DEF money, TypeOK
    <3>4. QED
      BY <1>8, <2>1, <3>2, <3>3 DEF Cancel, TypeOK, payments, shipments
  <2>5. CASE req[r].items # {}
    <3>1. /\ order' = Order(order.status, order.price, order.cancelled \cup req[r].items,
                      AtLeastZero(req[r].seen.total - Sum(req[r].seen.price, req[r].items)))
          /\ IF req[r].inv.made
             THEN Reconcile(req[r].inv, Sum(req[r].seen.price, Items \ req[r].items))
             ELSE UNCHANGED money
      BY <1>8, <2>5 DEF Cancel
    <3>2. order' \in Orders
      BY <2>3, <3>1, FieldTypes, RequestTypes, OrderType
    <3>3. invoice' \in Invoices /\ billed' \in Int
      BY <2>2, <3>1, ReconcileType, RequestTypes DEF money, TypeOK
    <3>4. QED
      BY <1>8, <2>1, <3>2, <3>3 DEF Cancel, TypeOK, payments, shipments
  <2>6. QED
    BY <2>4, <2>5
<1>9. QED
  BY <1>1, <1>2, <1>3, <1>4, <1>5, <1>6, <1>7, <1>8 DEF OrderStep

LEMMA ReceiptStepType ==
  ASSUME TypeOK, NEW r \in Reqs, ReceiptStep(r)
  PROVE  TypeOK'
<1> USE BlankTypes
<1>0. PaidBy(Verified) \in Int
  BY SumTypes DEF Verified
<1>1. CASE VerifyCheck(r)
  <2>1. PICK p \in Receipts :
          Start(r, "verify", Call("verify", {}, p, 0, 0, Unread, NoInvoice))
    BY <1>1 DEF VerifyCheck
  <2>2. "verify" \in Pcs
    BY DEF Pcs
  <2>3. Call("verify", {}, p, 0, 0, Unread, NoInvoice) \in Requests
    BY <2>2, CallType
  <2>4. QED
    BY <1>1, <2>1, <2>3, StartType DEF VerifyCheck, TypeOK
<1>2. CASE VerifyReads(r)
  <2>1. req[r].id \in Receipts
    BY <1>2, RequestTypes DEF VerifyReads, At
  <2>2. PaidBy(Verified \cup {req[r].id}) \in Int
    BY <2>1, SumTypes DEF Verified
  <2>3. "verifying" \in Pcs
    BY DEF Pcs, Locking
  <2>4. Call("verifying", {}, req[r].id, 0, PaidBy(Verified \cup {req[r].id}),
             Unread, NoInvoice) \in Requests
    BY <2>1, <2>2, <2>3, CallType
  <2>5. QED
    BY <1>2, <2>4, GotoType DEF VerifyReads
<1>3. CASE Verify(r)
  <2>1. lock' \in Reqs \cup {NoReq} /\ req' \in [Reqs -> Requests]
    BY <1>3, CommitType DEF Verify
  <2>2. req[r].id \in Receipts
    BY <1>3, RequestTypes DEF Verify, Commit, At
  <2>3. receipt' \in [Receipts -> ReceiptStatuses]
    BY <1>3 DEF Verify, TypeOK, ReceiptStatuses
  <2>4. posted' \in [Receipts -> Nat]
    BY <1>3, <2>2 DEF Verify, TypeOK
  <2>5. req[r].inv.total - req[r].sum \in Int
    BY RequestTypes
  <2>6. invoice' \in Invoices
    BY <1>3, <2>5, BillType, FieldTypes, RequestTypes DEF Verify, TypeOK
  <2>7. QED
    BY <1>3, <2>1, <2>3, <2>4, <2>6 DEF Verify, TypeOK, shipments
<1>4. CASE DeletePayment(r)
  <2>1. receipt' \in [Receipts -> ReceiptStatuses]
    BY <1>4 DEF DeletePayment, TypeOK, ReceiptStatuses
  <2>2. "deleted" \in Pcs
    BY DEF Pcs
  <2>3. Call("deleted", {}, NoId, 0, 0, Unread, NoInvoice) \in Requests
    BY <2>2, CallType
  <2>4. req' \in [Reqs -> Requests]
    BY <1>4, <2>3 DEF DeletePayment, TypeOK
  <2>5. QED
    BY <1>4, <2>1, <2>4 DEF DeletePayment, TypeOK, money, shipments
<1>5. CASE SyncPaidReads(r)
  <2>1. "synced" \in Pcs /\ invoice \in Invoices
    BY DEF Pcs, TypeOK
  <2>2. Call("synced", {}, NoId, 0, PaidBy(Verified), Unread, invoice) \in Requests
    BY <1>0, <2>1, CallType
  <2>3. PICK call \in Requests : Goto(r, call)
    BY <1>5, <2>2 DEF SyncPaidReads
  <2>4. QED
    BY <2>3, GotoType
<1>6. CASE SyncPaid(r)
  <2>1. lock' \in Reqs \cup {NoReq} /\ req' \in [Reqs -> Requests]
    BY <1>6, CommitType DEF SyncPaid
  <2>2. req[r].inv.total - req[r].sum \in Int
    BY RequestTypes
  <2>3. invoice' \in Invoices
    BY <1>6, <2>2, BillType, FieldTypes, RequestTypes DEF SyncPaid
  <2>4. QED
    BY <1>6, <2>1, <2>3 DEF SyncPaid, TypeOK, payments, shipments
<1>7. CASE RefreshOrderPaymentStatus(r)
  <2>1. "sync" \in Pcs
    BY DEF Pcs
  <2>2. Call("sync", {}, NoId, 0, 0, Unread, NoInvoice) \in Requests
    BY <2>1, CallType
  <2>3. QED
    BY <1>7, <2>2, GotoType DEF RefreshOrderPaymentStatus
<1>8. QED
  BY <1>1, <1>2, <1>3, <1>4, <1>5, <1>6, <1>7 DEF ReceiptStep

LEMMA ChargeStepType ==
  ASSUME TypeOK, NEW r \in Reqs, ChargeStep(r)
  PROVE  TypeOK'
<1> USE BlankTypes
<1>1. CASE ShipCheck(r)
  <2>1. PICK q \in Parcels, c \in Charges :
          Start(r, "ship", Call("ship", {}, q, c, 0, Unread, NoInvoice))
    BY <1>1 DEF ShipCheck
  <2>2. "ship" \in Pcs /\ c \in Int
    BY InvoiceAssumption DEF Pcs, Locking
  <2>3. Call("ship", {}, q, c, 0, Unread, NoInvoice) \in Requests
    BY <2>2, CallType
  <2>4. QED
    BY <1>1, <2>1, <2>3, StartType DEF ShipCheck, TypeOK
<1>2. CASE Ship(r)
  <2>1. lock' \in Reqs \cup {NoReq} /\ req' \in [Reqs -> Requests]
    BY <1>2, CommitType DEF Ship
  <2>2. req[r].id \in Parcels /\ req[r].amount \in Charges
    BY <1>2, RequestTypes DEF Ship, Commit, At
  <2>3. charge' \in [Parcels -> Charges \cup {0}] /\ parcels' \subseteq Parcels
    BY <1>2, <2>2 DEF Ship, TypeOK
  <2>4. order' \in Orders
    BY <1>2, OrderType, FieldTypes DEF Ship, Statuses
  <2>5. invoice' \in Invoices /\ billed' \in Int
    BY <1>2, <2>3, SumTypes, SyncCourierType, RequestTypes DEF Ship
  <2>6. QED
    BY <1>2, <2>1, <2>3, <2>4, <2>5 DEF Ship, TypeOK, payments
<1>3. CASE ReturnCheck(r)
  <2>1. PICK q \in IF parcels = {} THEN {NoId} ELSE parcels :
          Start(r, "return", Call("return", {}, q, 0, 0, Unread, NoInvoice))
    BY <1>3 DEF ReturnCheck
  <2>2. "return" \in Pcs /\ q \in Receipts \cup Parcels \cup {NoId}
    BY DEF Pcs, TypeOK
  <2>3. Call("return", {}, q, 0, 0, Unread, NoInvoice) \in Requests
    BY <2>2, CallType
  <2>4. QED
    BY <1>3, <2>1, <2>3, StartType DEF ReturnCheck, TypeOK
<1>4. CASE ReturnToQueue(r)
  <2>1. lock' \in Reqs \cup {NoReq} /\ req' \in [Reqs -> Requests]
    BY <1>4, CommitType DEF ReturnToQueue
  <2>2. order' \in Orders
    BY <1>4, OrderType, FieldTypes DEF ReturnToQueue, Statuses
  <2>3. charge' \in [Parcels -> Charges \cup {0}] /\ parcels' \subseteq Parcels
    BY <1>4 DEF ReturnToQueue, TypeOK
  <2>4. QED
    BY <1>4, <2>1, <2>2, <2>3 DEF ReturnToQueue, TypeOK, money, payments
<1>5. CASE ChargeReads(r)
  <2>1. PICK q \in parcels, c \in Charges :
          Start(r, "charge", Call("charge", {}, q, c, Sum([charge EXCEPT ![q] = c], Parcels),
                                  Unread, invoice))
    BY <1>5 DEF ChargeReads
  <2>2. "charge" \in Pcs /\ c \in Int /\ q \in Parcels /\ invoice \in Invoices
    BY InvoiceAssumption DEF Pcs, TypeOK
  <2>3. [charge EXCEPT ![q] = c] \in [Parcels -> Charges \cup {0}]
    BY DEF TypeOK
  <2>4. Call("charge", {}, q, c, Sum([charge EXCEPT ![q] = c], Parcels), Unread, invoice)
          \in Requests
    BY <2>2, <2>3, SumTypes, CallType
  <2>5. QED
    BY <1>5, <2>1, <2>4, StartType DEF ChargeReads, TypeOK
<1>6. CASE UpdateCharge(r)
  <2>1. lock' \in Reqs \cup {NoReq} /\ req' \in [Reqs -> Requests]
    BY <1>6, CommitType DEF UpdateCharge
  <2>2. req[r].id \in Parcels /\ req[r].amount \in Charges
    BY <1>6, RequestTypes DEF UpdateCharge, CommitUnlocked, At
  <2>3. charge' \in [Parcels -> Charges \cup {0}]
    BY <1>6, <2>2 DEF UpdateCharge, TypeOK
  <2>4. invoice' \in Invoices /\ billed' \in Int
    BY <1>6, SyncCourierType, RequestTypes DEF UpdateCharge
  <2>5. QED
    BY <1>6, <2>1, <2>3, <2>4 DEF UpdateCharge, TypeOK, payments
<1>7. CASE NoteReads(r)
  <2>1. PICK n \in Notes : Start(r, "note", Call("note", {}, NoId, n, 0, Unread, invoice))
    BY <1>7 DEF NoteReads
  <2>2. "note" \in Pcs /\ n \in Int /\ invoice \in Invoices
    BY InvoiceAssumption DEF Pcs, TypeOK
  <2>3. Call("note", {}, NoId, n, 0, Unread, invoice) \in Requests
    BY <2>2, CallType
  <2>4. notes' \in 0..MaxNotes
    BY <1>7, InvoiceAssumption DEF NoteReads, TypeOK
  <2>5. QED
    BY <2>1, <2>3, <2>4, StartType
<1>8. CASE WriteNote(r)
  <2>1. lock' \in Reqs \cup {NoReq} /\ req' \in [Reqs -> Requests]
    BY <1>8, CommitType DEF WriteNote
  <2>2. req[r].inv.balance + req[r].amount \in Int
    BY RequestTypes
  <2>3. AtLeastZero(req[r].inv.balance + req[r].amount) \in Int
    BY <2>2 DEF AtLeastZero
  <2>4. PICK b \in Int : invoice' = Bill(invoice.total, invoice.courier, invoice.paid, b)
    BY <1>8, <2>2, <2>3 DEF WriteNote
  <2>5. invoice' \in Invoices
    BY <2>4, BillType, FieldTypes
  <2>6. QED
    BY <1>8, <2>1, <2>5 DEF WriteNote, TypeOK, payments, shipments
<1>9. QED
  BY <1>1, <1>2, <1>3, <1>4, <1>5, <1>6, <1>7, <1>8 DEF ChargeStep

LEMMA TypeInit == Init => TypeOK
<1> SUFFICES ASSUME Init PROVE TypeOK
  OBVIOUS
<1>1. PICK f \in [Items -> Prices] :
        order = Order("PENDING_APPROVAL", f, {}, Sum(f, Items))
  BY DEF Init
<1>2. Sum(f, Items) \in Int
  BY SumTypes
<1>3. order \in Orders
  BY <1>1, <1>2, OrderType DEF Statuses
<1>4. notes \in 0..MaxNotes
  BY InvoiceAssumption DEF Init
<1>5. charge \in [Parcels -> Charges \cup {0}] /\ posted \in [Receipts -> Nat]
      /\ receipt \in [Receipts -> ReceiptStatuses]
  BY DEF Init, ReceiptStatuses
<1>6. invoice \in Invoices /\ req \in [Reqs -> Requests] /\ lock \in Reqs \cup {NoReq}
  BY BlankTypes DEF Init
<1>7. QED
  BY <1>3, <1>4, <1>5, <1>6 DEF Init, TypeOK

LEMMA TypeNext == TypeOK /\ [Next]_vars => TypeOK'
<1> SUFFICES ASSUME TypeOK, [Next]_vars PROVE TypeOK'
  OBVIOUS
<1>1. CASE RejectOrder
  <2>1. order' \in Orders
    BY <1>1, OrderType, FieldTypes DEF RejectOrder, Statuses
  <2>2. QED
    BY <1>1, <2>1 DEF RejectOrder, TypeOK, money, payments, shipments
<1>2. CASE AddPayment
  <2>1. receipt' \in [Receipts -> ReceiptStatuses]
    BY <1>2 DEF AddPayment, TypeOK, ReceiptStatuses
  <2>2. QED
    BY <1>2, <2>1 DEF AddPayment, TypeOK, money, shipments
<1>3. CASE RejectPayment
  <2>1. receipt' \in [Receipts -> ReceiptStatuses]
    BY <1>3 DEF RejectPayment, TypeOK, ReceiptStatuses
  <2>2. QED
    BY <1>3, <2>1 DEF RejectPayment, TypeOK, money, shipments
<1>4. ASSUME NEW r \in Reqs, OrderStep(r) \/ ReceiptStep(r) \/ ChargeStep(r) PROVE TypeOK'
  BY <1>4, OrderStepType, ReceiptStepType, ChargeStepType
<1>5. ASSUME NEW r \in Reqs, TakeOrderRow(r) PROVE TypeOK'
  <2>1. invoice \in Invoices /\ req[r].seen \in Orders
    BY RequestTypes DEF TypeOK
  <2>2. Call(req[r].pc, req[r].items, req[r].id, req[r].amount, req[r].sum,
             req[r].seen, invoice) \in Requests
    BY <2>1, RequestTypes, CallType
  <2>3. req' \in [Reqs -> Requests] /\ lock' \in Reqs \cup {NoReq}
    BY <1>5, <2>2 DEF TakeOrderRow, TypeOK
  <2>4. QED
    BY <1>5, <2>3 DEF TakeOrderRow, TypeOK, money, payments, shipments
<1>6. ASSUME NEW r \in Reqs, Fails(r) PROVE TypeOK'
  <2>1. req' \in [Reqs -> Requests]
    BY <1>6, DoneType DEF Fails
  <2>2. QED
    BY <1>6, <2>1 DEF Fails, TypeOK, money, payments, shipments
<1>7. CASE UNCHANGED vars
  BY <1>7 DEF vars, TypeOK
<1>8. QED
  BY <1>1, <1>2, <1>3, <1>4, <1>5, <1>6, <1>7 DEF Next

(* The rows and the requests are always of their types, whatever overlaps: *)
(* among others, a request that holds the order row is one in flight.      *)
THEOREM TypeCorrect == Spec => []TypeOK
<1>1. QED
  BY TypeInit, TypeNext, PTL DEF Spec

------------------------------------------------------------------------------
(* The lock's discipline.  A request that holds the order row is one of    *)
(* the handlers that take it, and has the invoice as it is now; requests   *)
(* belong to handlers in use; an order without an invoice has no sums.     *)
HolderIsFresh == lock # NoReq => req[lock].pc \in Locking /\ req[lock].inv = invoice
OnlyInUse ==
  \A r \in Reqs :
    /\ req[r].pc \in {"cancel", "charge", "note", "return"} => req[r].pc \in Handlers
    /\ req[r].pc \in {"deleted", "sync", "synced"} => "deletePayment" \in Handlers
UnmadeIsEmpty == ~invoice.made => invoice = NoInvoice
Discipline == TypeOK /\ HolderIsFresh /\ OnlyInUse /\ UnmadeIsEmpty

(* What a step may do to the bill when every handler in use is one of      *)
(* OrderLocked: nothing, or one of the four changes below, each computed   *)
(* from the invoice as it is.                                              *)
LeavesTheBill ==
  /\ UNCHANGED money
  /\ UNCHANGED charge \/ "return" \in Handlers \/ ~invoice.made
BillsLines ==
  \E t \in Int :
    /\ invoice.made /\ UNCHANGED charge
    /\ invoice' = Bill(t, invoice.courier, invoice.paid, t - invoice.paid)
    /\ billed' = billed + (t - invoice.total)
BillsCourier ==
  \E c \in Int :
    /\ invoice.made /\ c = Sum(charge', Parcels)
    /\ invoice' = Bill(invoice.total + (c - invoice.courier), c, invoice.paid,
                       invoice.balance + (c - invoice.courier))
    /\ billed' = billed + (c - invoice.courier)
RaisesTheBill ==
  \E t, p, c \in Int :
    /\ ~invoice.made /\ c = Sum(charge, Parcels) /\ UNCHANGED charge
    /\ invoice' = Bill(t + c, c, p, (t - p) + c)
    /\ billed' = billed + (t + c)
CountsReceipts ==
  \E p \in Int :
    /\ invoice.made /\ UNCHANGED <<billed, charge>>
    /\ invoice' = Bill(invoice.total, invoice.courier, p, invoice.total - p)
BillStep == LeavesTheBill \/ BillsLines \/ BillsCourier \/ RaisesTheBill \/ CountsReceipts

(* A commit that holds the row computes from the invoice as it is.         *)
LEMMA CommitIsFresh ==
  ASSUME Discipline, NEW r \in Reqs, NEW pc, Commit(r, pc)
  PROVE  req[r].inv = invoice
BY InvoiceAssumption DEF Commit, Discipline, HolderIsFresh

LEMMA ReconcileBills ==
  ASSUME TypeOK, invoice.made, NEW lines \in Int, Reconcile(invoice, lines), UNCHANGED charge
  PROVE  BillStep
<1>1. AtLeastZero(lines + invoice.courier) \in Int
  BY FieldTypes DEF AtLeastZero
<1>2. BillsLines
  BY <1>1 DEF Reconcile, Post, BillsLines
<1>3. QED
  BY <1>2 DEF BillStep

LEMMA SyncCourierBills ==
  ASSUME TypeOK, TypeOK', SyncCourier(invoice, Sum(charge', Parcels))
  PROVE  BillStep
<1>1. Sum(charge', Parcels) \in Int
  BY SumTypes DEF TypeOK
<1>2. CASE invoice.made /\ Sum(charge', Parcels) - invoice.courier # 0
  <2>1. (invoice.total + (Sum(charge', Parcels) - invoice.courier)) - invoice.total
          = Sum(charge', Parcels) - invoice.courier
    BY <1>1, FieldTypes
  <2>2. BillsCourier
    BY <1>1, <1>2, <2>1 DEF SyncCourier, Post, BillsCourier
  <2>3. QED
    BY <2>2 DEF BillStep
<1>3. CASE invoice.made /\ Sum(charge', Parcels) - invoice.courier = 0
  <2>1. Sum(charge', Parcels) = invoice.courier
    BY <1>1, <1>3, FieldTypes
  <2>2. invoice = Bill(invoice.total, invoice.courier, invoice.paid, invoice.balance)
    BY <1>3 DEF TypeOK, Invoices, Bill
  <2>3. /\ invoice.total + (invoice.courier - invoice.courier) = invoice.total
        /\ invoice.balance + (invoice.courier - invoice.courier) = invoice.balance
        /\ billed + (invoice.courier - invoice.courier) = billed
    BY FieldTypes DEF TypeOK
  <2>4. UNCHANGED money
    BY <1>3 DEF SyncCourier
  <2>5. BillsCourier
    BY <1>1, <1>3, <2>1, <2>2, <2>3, <2>4 DEF BillsCourier, money
  <2>6. QED
    BY <2>5 DEF BillStep
<1>4. CASE ~invoice.made
  BY <1>4 DEF SyncCourier, BillStep, LeavesTheBill
<1>5. QED
  BY <1>2, <1>3, <1>4

LEMMA RaiseBills ==
  ASSUME TypeOK, Discipline, ~invoice.made, NEW total \in Int, NEW paid \in Int,
         Raise(total, paid), UNCHANGED charge
  PROVE  BillStep
<1>1. Sum(charge, Parcels) \in Int
  BY SumTypes DEF TypeOK
<1>2. billed' = billed + (total + Sum(charge, Parcels))
  BY <1>1 DEF Raise, Post, TypeOK
<1>3. RaisesTheBill
  BY <1>1, <1>2 DEF Raise, RaisesTheBill
<1>4. QED
  BY <1>3 DEF BillStep

------------------------------------------------------------------------------
(* What each step keeps, besides the types and UnmadeIsEmpty.              *)
Keeps == BillStep /\ HolderIsFresh' /\ OnlyInUse'

(* The steps that only move a request on.  A request at such a step does   *)
(* not hold the row, so whoever does still has the invoice as it is.       *)
LEMMA StartKeeps ==
  ASSUME Discipline, NEW r \in Reqs, NEW h, NEW call, Start(r, h, call),
         call.pc \in {"cancel", "charge", "note", "return"} => call.pc \in Handlers,
         call.pc \notin {"deleted", "sync", "synced"}
  PROVE  Keeps
<1>1. BillStep
  BY DEF Start, BillStep, LeavesTheBill, shipments
<1>2. HolderIsFresh'
  BY DEF Start, At, Discipline, TypeOK, HolderIsFresh, Locking, money
<1>3. OnlyInUse'
  BY DEF Start, Discipline, TypeOK, OnlyInUse
<1>4. QED
  BY <1>1, <1>2, <1>3 DEF Keeps

LEMMA GotoKeeps ==
  ASSUME Discipline, NEW r \in Reqs, NEW call, Goto(r, call), req[r].pc \notin Locking,
         call.pc \notin {"cancel", "charge", "note", "return", "deleted", "sync", "synced"}
  PROVE  Keeps
<1>1. BillStep
  BY DEF Goto, BillStep, LeavesTheBill, shipments
<1>2. HolderIsFresh'
  BY DEF Goto, Discipline, TypeOK, HolderIsFresh, money
<1>3. OnlyInUse'
  BY DEF Goto, Discipline, TypeOK, OnlyInUse
<1>4. QED
  BY <1>1, <1>2, <1>3 DEF Keeps

(* After a commit nobody holds the row.                                    *)
LEMMA CommitKeeps ==
  ASSUME Discipline, NEW r \in Reqs, NEW pc, Commit(r, pc) \/ CommitNow(r, pc)
  PROVE  HolderIsFresh' /\ OnlyInUse'
<1>1. lock' = NoReq /\ Done(r)
  BY DEF Commit, CommitNow
<1>2. HolderIsFresh'
  BY <1>1 DEF HolderIsFresh
<1>3. OnlyInUse'
  BY <1>1 DEF Done, Idle, Call, Discipline, TypeOK, OnlyInUse
<1>4. QED
  BY <1>2, <1>3

LEMMA OrderStepKeeps ==
  ASSUME Discipline, Handlers \subseteq OrderLocked, NEW r \in Reqs, OrderStep(r)
  PROVE  Keeps
<1>0. TypeOK
  BY DEF Discipline
<1>1. CASE ApproveCheck(r)
  BY <1>1, StartKeeps DEF ApproveCheck, Call
<1>2. CASE Approve(r)
  <2>1. req[r].inv = invoice /\ HolderIsFresh' /\ OnlyInUse'
    BY <1>2, CommitIsFresh, CommitKeeps DEF Approve
  <2>2. Sum(req[r].seen.price, Live(req[r].seen)) \in Int
    BY <1>0, SumTypes, RequestTypes DEF Live
  <2>3. UNCHANGED charge
    BY <1>2 DEF Approve, shipments
  <2>4. CASE invoice.made
    BY <1>0, <1>2, <2>1, <2>2, <2>3, <2>4, ReconcileBills DEF Approve, Keeps
  <2>5. CASE ~invoice.made
    BY <1>0, <1>2, <2>1, <2>3, <2>5, RequestTypes, RaiseBills DEF Approve, Keeps
  <2>6. QED
    BY <2>4, <2>5
<1>3. CASE EditCheck(r)
  BY <1>3, StartKeeps DEF EditCheck, Call
<1>4. CASE Edit(r)
  <2>1. HolderIsFresh' /\ OnlyInUse'
    BY <1>4, CommitKeeps DEF Edit
  <2>2. UNCHANGED money /\ UNCHANGED charge
    BY <1>4 DEF Edit, shipments
  <2>3. QED
    BY <2>1, <2>2 DEF Keeps, BillStep, LeavesTheBill
<1>5. CASE UpsellCheck(r)
  BY <1>5, StartKeeps DEF UpsellCheck, Call
<1>6. CASE Upsell(r)
  <2>1. req[r].inv = invoice /\ HolderIsFresh' /\ OnlyInUse'
    BY <1>6, CommitIsFresh, CommitKeeps DEF Upsell
  <2> DEFINE raised == [i \in Items |-> IF i \in req[r].items THEN req[r].amount ELSE order.price[i]]
  <2>2. req[r].amount \in Prices
    BY <1>0, <1>6, RequestTypes DEF Upsell, Commit, At
  <2>3. raised \in [Items -> Prices]
    BY <1>0, <2>2, FieldTypes
  <2>4. Sum(raised, Live(order)) \in Int
    BY <2>3, SumTypes DEF Live
  <2>5. /\ IF req[r].inv.made THEN Reconcile(req[r].inv, Sum(raised, Live(order)))
           ELSE UNCHANGED money
        /\ UNCHANGED charge
    BY <1>6 DEF Upsell, shipments
  <2> HIDE DEF raised
  <2>6. CASE invoice.made
    BY <1>0, <2>1, <2>4, <2>5, <2>6, ReconcileBills DEF Keeps
  <2>7. CASE ~invoice.made
    BY <2>1, <2>5, <2>7 DEF Keeps, BillStep, LeavesTheBill
  <2>8. QED
    BY <2>6, <2>7
<1>7. CASE CancelCheck(r)
  BY <1>7 DEF CancelCheck, Start, OrderLocked
<1>8. CASE Cancel(r)
  BY <1>8 DEF Cancel, CommitNow, At, Discipline, OnlyInUse, OrderLocked
<1>9. QED
  BY <1>1, <1>2, <1>3, <1>4, <1>5, <1>6, <1>7, <1>8 DEF OrderStep

LEMMA ReceiptStepKeeps ==
  ASSUME Discipline, Handlers \subseteq OrderLocked, NEW r \in Reqs, ReceiptStep(r)
  PROVE  Keeps
<1>0. TypeOK
  BY DEF Discipline
<1>1. CASE VerifyCheck(r)
  BY <1>1, StartKeeps DEF VerifyCheck, Call
<1>2. CASE VerifyReads(r)
  <2>1. req[r].pc \notin Locking
    BY <1>2 DEF VerifyReads, At, Locking
  <2>2. QED
    BY <1>2, <2>1, GotoKeeps DEF VerifyReads, Call
<1>3. CASE Verify(r)
  <2>1. req[r].inv = invoice /\ HolderIsFresh' /\ OnlyInUse'
    BY <1>3, CommitIsFresh, CommitKeeps DEF Verify
  <2>2. UNCHANGED charge /\ UNCHANGED billed /\ req[r].sum \in Int
    BY <1>0, <1>3, RequestTypes DEF Verify, shipments
  <2>3. CASE invoice.made
    <3>1. CountsReceipts
      BY <1>3, <2>1, <2>2, <2>3 DEF Verify, CountsReceipts
    <3>2. QED
      BY <2>1, <3>1 DEF Keeps, BillStep
  <2>4. CASE ~invoice.made
    BY <1>3, <2>1, <2>2, <2>4 DEF Verify, Keeps, BillStep, LeavesTheBill, money
  <2>5. QED
    BY <2>3, <2>4
<1>4. CASE DeletePayment(r)
  BY <1>4 DEF DeletePayment, OrderLocked
<1>5. CASE SyncPaidReads(r)
  BY <1>5 DEF SyncPaidReads, At, Discipline, OnlyInUse, OrderLocked
<1>6. CASE SyncPaid(r)
  BY <1>6 DEF SyncPaid, CommitUnlocked, At, Discipline, OnlyInUse, OrderLocked
<1>7. CASE RefreshOrderPaymentStatus(r)
  BY <1>7 DEF RefreshOrderPaymentStatus, At, Discipline, OnlyInUse, OrderLocked
<1>8. QED
  BY <1>1, <1>2, <1>3, <1>4, <1>5, <1>6, <1>7 DEF ReceiptStep

LEMMA ChargeStepKeeps ==
  ASSUME Discipline, TypeOK', Handlers \subseteq OrderLocked, NEW r \in Reqs, ChargeStep(r)
  PROVE  Keeps
<1>0. TypeOK
  BY DEF Discipline
<1>1. CASE ShipCheck(r)
  BY <1>1, StartKeeps DEF ShipCheck, Call
<1>2. CASE Ship(r)
  <2>1. req[r].inv = invoice /\ HolderIsFresh' /\ OnlyInUse'
    BY <1>2, CommitIsFresh, CommitKeeps DEF Ship
  <2>2. QED
    BY <1>0, <1>2, <2>1, SyncCourierBills DEF Ship, Keeps
<1>3. CASE ReturnCheck(r)
  <2>1. "return" \in Handlers
    BY <1>3 DEF ReturnCheck, Start
  <2>2. QED
    BY <1>3, <2>1, StartKeeps DEF ReturnCheck, Call
<1>4. CASE ReturnToQueue(r)
  <2>1. HolderIsFresh' /\ OnlyInUse'
    BY <1>4, CommitKeeps DEF ReturnToQueue
  <2>2. "return" \in Handlers
    BY <1>4 DEF ReturnToQueue, CommitNow, At, Discipline, OnlyInUse
  <2>3. QED
    BY <1>4, <2>1, <2>2 DEF ReturnToQueue, Keeps, BillStep, LeavesTheBill
<1>5. CASE ChargeReads(r)
  BY <1>5 DEF ChargeReads, Start, OrderLocked
<1>6. CASE UpdateCharge(r)
  BY <1>6 DEF UpdateCharge, CommitUnlocked, At, Discipline, OnlyInUse, OrderLocked
<1>7. CASE NoteReads(r)
  BY <1>7 DEF NoteReads, Start, OrderLocked
<1>8. CASE WriteNote(r)
  BY <1>8 DEF WriteNote, CommitUnlocked, At, Discipline, OnlyInUse, OrderLocked
<1>9. QED
  BY <1>1, <1>2, <1>3, <1>4, <1>5, <1>6, <1>7, <1>8 DEF ChargeStep

LEMMA NextKeeps ==
  ASSUME Discipline, TypeOK', Handlers \subseteq OrderLocked, [Next]_vars
  PROVE  Keeps
<1>1. CASE RejectOrder \/ AddPayment \/ RejectPayment \/ UNCHANGED vars
  <2>1. UNCHANGED <<money, charge, lock, req>>
    BY <1>1 DEF RejectOrder, AddPayment, RejectPayment, vars, money, shipments
  <2>2. QED
    BY <2>1 DEF Discipline, Keeps, BillStep, LeavesTheBill, HolderIsFresh, OnlyInUse, money
<1>2. ASSUME NEW r \in Reqs, OrderStep(r) \/ ReceiptStep(r) \/ ChargeStep(r) PROVE Keeps
  BY <1>2, OrderStepKeeps, ReceiptStepKeeps, ChargeStepKeeps
<1>3. ASSUME NEW r \in Reqs, TakeOrderRow(r) PROVE Keeps
  <2>1. BillStep /\ UNCHANGED invoice
    BY <1>3 DEF TakeOrderRow, BillStep, LeavesTheBill, money, shipments
  <2>2. req'[r].pc = req[r].pc /\ req'[r].inv = invoice
    BY <1>3 DEF TakeOrderRow, Call, Discipline, TypeOK
  <2>3. HolderIsFresh'
    BY <1>3, <2>1, <2>2 DEF TakeOrderRow, HolderIsFresh
  <2>4. OnlyInUse'
    BY <1>3, <2>2 DEF TakeOrderRow, Discipline, TypeOK, OnlyInUse
  <2>5. QED
    BY <2>1, <2>3, <2>4 DEF Keeps
<1>4. ASSUME NEW r \in Reqs, Fails(r) PROVE Keeps
  <2>1. BillStep /\ UNCHANGED invoice
    BY <1>4 DEF Fails, BillStep, LeavesTheBill, money, shipments
  <2>2. HolderIsFresh'
    BY <1>4, <2>1 DEF Fails, Done, Discipline, TypeOK, HolderIsFresh
  <2>3. OnlyInUse'
    BY <1>4 DEF Fails, Done, Idle, Call, Discipline, TypeOK, OnlyInUse
  <2>4. QED
    BY <2>1, <2>2, <2>3 DEF Keeps
<1>5. QED
  BY <1>1, <1>2, <1>3, <1>4 DEF Next

LEMMA DisciplineInit == Init => Discipline
<1> SUFFICES ASSUME Init PROVE Discipline
  OBVIOUS
<1>1. TypeOK
  BY TypeInit
<1>2. HolderIsFresh /\ UnmadeIsEmpty
  BY DEF Init, HolderIsFresh, UnmadeIsEmpty
<1>3. OnlyInUse
  BY DEF Init, Idle, Call, OnlyInUse
<1>4. QED
  BY <1>1, <1>2, <1>3 DEF Discipline

LEMMA DisciplineNext ==
  ASSUME Discipline, Handlers \subseteq OrderLocked, [Next]_vars
  PROVE  Discipline' /\ BillStep
<1>1. TypeOK'
  BY TypeNext DEF Discipline
<1>2. Keeps
  BY <1>1, NextKeeps
<1>3. UnmadeIsEmpty'
  <2>1. invoice' = invoice \/ invoice'.made
    BY <1>2 DEF Keeps, BillStep, LeavesTheBill, BillsLines, BillsCourier, RaisesTheBill,
                CountsReceipts, Bill, money
  <2>2. QED
    BY <2>1 DEF Discipline, UnmadeIsEmpty
<1>4. QED
  BY <1>1, <1>2, <1>3 DEF Keeps, Discipline

------------------------------------------------------------------------------
(* What a step does to the bill keeps the ledger, the balance and the      *)
(* courier charge in line with it.                                         *)
LEMMA BillKeepsReceivable ==
  ASSUME Discipline, BillStep, ReceivableIsTotal
  PROVE  ReceivableIsTotal'
<1>1. billed \in Int /\ invoice.total \in Int /\ invoice.courier \in Int
      /\ (~invoice.made => invoice.total = 0)
  BY FieldTypes DEF Discipline, TypeOK, UnmadeIsEmpty, NoInvoice
<1>2. CASE LeavesTheBill
  BY <1>2 DEF LeavesTheBill, money, ReceivableIsTotal
<1>3. CASE BillsLines
  BY <1>1, <1>3 DEF BillsLines, Bill, ReceivableIsTotal
<1>4. CASE BillsCourier
  BY <1>1, <1>4 DEF BillsCourier, Bill, ReceivableIsTotal
<1>5. CASE RaisesTheBill
  BY <1>1, <1>5 DEF RaisesTheBill, Bill, ReceivableIsTotal
<1>6. CASE CountsReceipts
  BY <1>1, <1>6 DEF CountsReceipts, Bill, ReceivableIsTotal
<1>7. QED
  BY <1>2, <1>3, <1>4, <1>5, <1>6 DEF BillStep

LEMMA BillKeepsBalance ==
  ASSUME Discipline, BillStep, BalanceIsTotalLessPaid
  PROVE  BalanceIsTotalLessPaid'
<1>1. /\ invoice.total \in Int /\ invoice.courier \in Int /\ invoice.paid \in Int
      /\ invoice.balance \in Int
  BY FieldTypes DEF Discipline
<1>2. CASE LeavesTheBill
  BY <1>2 DEF LeavesTheBill, money, BalanceIsTotalLessPaid
<1>3. CASE BillsLines
  BY <1>1, <1>3 DEF BillsLines, Bill, BalanceIsTotalLessPaid
<1>4. CASE BillsCourier
  BY <1>1, <1>4 DEF BillsCourier, Bill, BalanceIsTotalLessPaid
<1>5. CASE RaisesTheBill
  BY <1>1, <1>5 DEF RaisesTheBill, Bill, BalanceIsTotalLessPaid
<1>6. CASE CountsReceipts
  BY <1>1, <1>6 DEF CountsReceipts, Bill, BalanceIsTotalLessPaid
<1>7. QED
  BY <1>2, <1>3, <1>4, <1>5, <1>6 DEF BillStep

LEMMA BillKeepsCourier ==
  ASSUME Discipline, BillStep, CourierIsCollected, "return" \notin Handlers
  PROVE  CourierIsCollected'
<1>1. CASE LeavesTheBill
  BY <1>1 DEF LeavesTheBill, money, CourierIsCollected
<1>2. CASE BillsLines
  BY <1>2 DEF BillsLines, Bill, CourierIsCollected
<1>3. CASE BillsCourier
  BY <1>3 DEF BillsCourier, Bill, CourierIsCollected
<1>4. CASE RaisesTheBill
  BY <1>4 DEF RaisesTheBill, Bill, CourierIsCollected
<1>5. CASE CountsReceipts
  BY <1>5 DEF CountsReceipts, Bill, CourierIsCollected
<1>6. QED
  BY <1>1, <1>2, <1>3, <1>4, <1>5 DEF BillStep

LEMMA BillInit == Init => ReceivableIsTotal /\ BalanceIsTotalLessPaid /\ CourierIsCollected
BY DEF Init, NoInvoice, ReceivableIsTotal, BalanceIsTotalLessPaid, CourierIsCollected

(* The handlers that read the invoice under the order row's lock charge    *)
(* Customer Receivable what the invoice says, however they overlap: its    *)
(* debits less its credits are the invoice's total.                        *)
THEOREM LedgerFollowsTheInvoice ==
  ASSUME Handlers \subseteq OrderLocked
  PROVE  Spec => []ReceivableIsTotal
<1>1. Init => Discipline /\ ReceivableIsTotal
  BY DisciplineInit, BillInit
<1>2. Discipline /\ ReceivableIsTotal /\ [Next]_vars => (Discipline /\ ReceivableIsTotal)'
  BY DisciplineNext, BillKeepsReceivable
<1>3. QED
  BY <1>1, <1>2, PTL DEF Spec

(* And they leave the balance at the total less what was paid, since each  *)
(* of them takes the three amounts from one reading of the invoice.        *)
THEOREM BalanceFollowsTheInvoice ==
  ASSUME Handlers \subseteq OrderLocked
  PROVE  Spec => []BalanceIsTotalLessPaid
<1>1. Init => Discipline /\ BalanceIsTotalLessPaid
  BY DisciplineInit, BillInit
<1>2. Discipline /\ BalanceIsTotalLessPaid /\ [Next]_vars
        => (Discipline /\ BalanceIsTotalLessPaid)'
  BY DisciplineNext, BillKeepsBalance
<1>3. QED
  BY <1>1, <1>2, PTL DEF Spec

(* Until an order is returned to the queue, the courier charge on its      *)
(* invoice is what was collected on its parcels, those shipped before the  *)
(* invoice was made included.                                              *)
THEOREM CourierFollowsTheParcels ==
  ASSUME Handlers \subseteq OrderLocked \ {"return"}
  PROVE  Spec => []CourierIsCollected
<1>0. Handlers \subseteq OrderLocked /\ "return" \notin Handlers
  OBVIOUS
<1>1. Init => Discipline /\ CourierIsCollected
  BY DisciplineInit, BillInit
<1>2. Discipline /\ CourierIsCollected /\ [Next]_vars => (Discipline /\ CourierIsCollected)'
  BY <1>0, DisciplineNext, BillKeepsCourier
<1>3. QED
  BY <1>1, <1>2, PTL DEF Spec

------------------------------------------------------------------------------
(* One request at a time.  What is read before a transaction is then still *)
(* true in it, which is all that the handlers that do not read the invoice *)
(* under the order row's lock rely on; only a rejected order, a receipt    *)
(* that arrives and one that is rejected come in between.                  *)
OneAtATime == \A r, s \in Reqs : r = s

(* What a request knows of the order, the invoice and the charges, ...     *)
ReadsOrder == {"approve", "edit", "upsell", "cancel"}
Knows(c) ==
  /\ c.pc \in ReadsOrder =>
       /\ c.seen.price = order.price /\ c.seen.cancelled = order.cancelled
       /\ c.seen.total = order.total
  /\ c.pc \in {"cancel", "charge"} => c.inv = invoice
  /\ c.pc \in {"note", "synced"} => invoice.made
  /\ c.pc = "cancel" => c.items \subseteq Live(order)
  /\ c.pc = "upsell" =>
       /\ \E i \in Live(order) : c.items = {i} /\ c.sum = c.amount - order.price[i]
       /\ c.seen.status = "APPROVED" => invoice.made
  /\ c.pc = "charge" => c.sum = Sum([charge EXCEPT ![c.id] = c.amount], Parcels)
(* ... and of the receipts.                                                *)
KnowsReceipts(c) ==
  /\ c.pc \in {"approve", "synced"} => c.sum >= PaidBy(Verified)
  /\ c.pc = "verifying" => c.sum >= PaidBy(Verified \cup {c.id})
  /\ c.pc \in {"verify", "verifying"} => posted[c.id] = 0
HolderKnows == lock # NoReq => req[lock].pc \in Locking /\ req[lock].inv = invoice
RequestsKnow == HolderKnows /\ \A r \in Reqs : Knows(req[r]) /\ KnowsReceipts(req[r])

(* The order's total covers its items, the invoice's courier line what is  *)
(* collected on its parcels, and an approved order's bill both.            *)
TotalCovers == order.total >= Sum(order.price, Live(order))
CourierCovers == invoice.made => invoice.courier >= Sum(charge, Parcels)
BillCovers ==
  order.status = "APPROVED" =>
    invoice.made /\ invoice.total >= Sum(order.price, Live(order)) + invoice.courier
Covers == TotalCovers /\ CourierCovers /\ BillCovers
Posted ==
  \A p \in Receipts :
    /\ posted[p] <= 1
    /\ receipt[p] \in {"NONE", "PENDING_VERIFICATION"} => posted[p] = 0

OneInv == TypeOK /\ RequestsKnow /\ Covers /\ PaidCountsVerified /\ Posted

(* The sums the handlers write: a set of items taken off, one price or one *)
(* charge changed, fewer receipts.                                         *)
LEMMA ItemsTakenOff ==
  ASSUME NEW f \in [Items -> Prices], NEW L \in SUBSET Items, NEW S \in SUBSET L
  PROVE  /\ Sum(f, L) = Sum(f, S) + Sum(f, L \ S)
         /\ Sum(f, L \ S) <= Sum(f, Items \ S)
<1>0. IsFiniteSet(Items) /\ Prices \subseteq Nat
  BY InvoiceAssumption
<1>1. IsFiniteSet(L) /\ IsFiniteSet(Items \ S)
  BY <1>0, FS_Subset
<1>2. \A x \in Items : f[x] \in Nat /\ f[x] \in Int
  <2>1. \A x \in Items : f[x] \in Prices
    OBVIOUS
  <2>2. \A z \in Prices : z \in Nat /\ z \in Int
    BY <1>0
  <2>3. QED
    BY <2>1, <2>2
<1>3. Sum(f, L) = Sum(f, S) + Sum(f, L \ S)
  BY <1>1, <1>2, SumSplit DEF Sum
<1>4. L \ S \in SUBSET (Items \ S)
  OBVIOUS
<1>5. Sum(f, L \ S) <= Sum(f, Items \ S)
  BY <1>1, <1>2, <1>4, SumMonotone DEF Sum
<1>6. QED
  BY <1>3, <1>5

LEMMA OnePriceChanged ==
  ASSUME NEW f \in [Items -> Prices], NEW g \in [Items -> Prices], NEW L \in SUBSET Items,
         NEW i \in L, \A j \in L \ {i} : g[j] = f[j]
  PROVE  Sum(g, L) = Sum(f, L) + (g[i] - f[i])
<1>0. IsFiniteSet(Items) /\ Prices \subseteq Nat
  BY InvoiceAssumption
<1>1. IsFiniteSet(L)
  BY <1>0, FS_Subset
<1>2. \A x \in Items : f[x] \in Prices /\ g[x] \in Prices
  OBVIOUS
<1>3. \A x \in L : f[x] \in Int /\ g[x] \in Int
  <2>1. \A z \in Prices : z \in Int
    BY <1>0
  <2>2. QED
    BY <1>2, <2>1
<1>4. QED
  BY <1>1, <1>3, SumUpdate DEF Sum

LEMMA ChargeTakenOff ==
  ASSUME NEW f \in [Parcels -> Charges \cup {0}], NEW id
  PROVE  Sum([q \in Parcels |-> IF q = id THEN 0 ELSE f[q]], Parcels) <= Sum(f, Parcels)
<1> DEFINE g == [q \in Parcels |-> IF q = id THEN 0 ELSE f[q]]
<1>0. IsFiniteSet(Parcels) /\ Charges \cup {0} \subseteq Nat
  BY InvoiceAssumption
<1>1. \A x \in Parcels : f[x] \in Nat /\ f[x] \in Int /\ g[x] \in Int
  <2>1. \A x \in Parcels : f[x] \in Charges \cup {0}
    OBVIOUS
  <2>2. \A x \in Parcels : g[x] = f[x] \/ g[x] = 0
    OBVIOUS
  <2>3. \A z \in Charges \cup {0} : z \in Nat /\ z \in Int
    BY <1>0
  <2> HIDE DEF g
  <2>4. \A x \in Parcels : f[x] \in Nat /\ f[x] \in Int
    BY <2>1, <2>3
  <2>5. QED
    BY <2>2, <2>4
<1>2. Sum(f, Parcels) \in Int
  BY SumTypes
<1>3. CASE id \in Parcels
  <2>1. \A x \in Parcels \ {id} : g[x] = f[x]
    OBVIOUS
  <2>2. g[id] = 0 /\ f[id] \in Nat
    BY <1>1, <1>3
  <2> HIDE DEF g
  <2>3. Sum(g, Parcels) = Sum(f, Parcels) + (g[id] - f[id])
    BY <1>0, <1>1, <1>3, <2>1, SumUpdate DEF Sum
  <2>4. Sum(g, Parcels) <= Sum(f, Parcels)
    BY <1>2, <2>2, <2>3
  <2>5. QED
    BY <2>4 DEF g
<1>4. CASE id \notin Parcels
  <2>1. g = f
    BY <1>4
  <2>2. QED
    BY <1>2, <2>1
<1>5. QED
  BY <1>3, <1>4

LEMMA FewerReceipts ==
  ASSUME NEW S \in SUBSET Receipts, NEW T \in SUBSET S
  PROVE  PaidBy(T) <= PaidBy(S)
<1>0. IsFiniteSet(Receipts) /\ Amount \in [Receipts -> Nat]
  BY InvoiceAssumption
<1>1. IsFiniteSet(S) /\ \A x \in S : Amount[x] \in Nat
  BY <1>0, FS_Subset
<1>2. QED
  BY <1>1, SumMonotone DEF PaidBy, Sum

------------------------------------------------------------------------------
(* What the three ways to write the bill leave on the invoice.             *)
LEMMA ReconcileCovers ==
  ASSUME TypeOK, invoice.made, NEW lines \in Int, Reconcile(invoice, lines)
  PROVE  /\ invoice'.made /\ invoice'.courier = invoice.courier
         /\ invoice'.paid = invoice.paid
         /\ invoice'.total >= lines + invoice'.courier
<1>1. invoice.courier \in Int
  BY FieldTypes
<1>2. AtLeastZero(lines + invoice.courier) >= lines + invoice.courier
  BY <1>1 DEF AtLeastZero
<1>3. QED
  BY <1>2 DEF Reconcile, Bill

LEMMA SyncCourierCovers ==
  ASSUME TypeOK, NEW courier \in Int, SyncCourier(invoice, courier)
  PROVE  /\ invoice'.made = invoice.made /\ invoice'.paid = invoice.paid
         /\ invoice.made => /\ invoice'.courier = courier
                            /\ invoice'.total = invoice.total + (courier - invoice.courier)
<1>1. invoice.courier \in Int /\ invoice.total \in Int /\ invoice.made \in BOOLEAN
  BY FieldTypes
<1>2. CASE invoice.made /\ courier - invoice.courier # 0
  <2>1. invoice' = Bill(invoice.total + (courier - invoice.courier), courier, invoice.paid,
                        invoice.balance + (courier - invoice.courier))
    BY <1>2 DEF SyncCourier
  <2>2. invoice'.made = TRUE
    BY <2>1 DEF Bill
  <2>3. invoice.made = TRUE
    BY <1>1, <1>2
  <2>4. QED
    BY <2>1, <2>2, <2>3 DEF Bill
<1>3. CASE ~(invoice.made /\ courier - invoice.courier # 0)
  <2>1. UNCHANGED money
    BY <1>3 DEF SyncCourier
  <2>2. invoice' = invoice
    BY <2>1 DEF money
  <2>3. invoice.made => courier = invoice.courier
    BY <1>1, <1>3
  <2>4. invoice.made => invoice.total + (courier - invoice.courier) = invoice.total
    BY <1>1, <2>3
  <2>5. QED
    BY <2>2, <2>3, <2>4
<1>4. QED
  BY <1>2, <1>3

LEMMA RaiseCovers ==
  ASSUME TypeOK, NEW total \in Int, NEW paid \in Int, Raise(total, paid)
  PROVE  /\ invoice'.made /\ invoice'.paid = paid
         /\ invoice'.courier = Sum(charge, Parcels)
         /\ invoice'.total = total + invoice'.courier
BY DEF Raise, Bill

(* A request that is done knows nothing, and with it everyone.             *)
LEMMA DoneKnows ==
  ASSUME TypeOK, OneAtATime, NEW r \in Reqs, Done(r), lock' = NoReq
  PROVE  RequestsKnow'
<1>1. \A s \in Reqs : s = r
  BY DEF OneAtATime
<1>2. req'[r] = Idle
  BY DEF Done, TypeOK
<1>3. Idle.pc = "idle"
  BY DEF Idle, Call
<1>4. \A s \in Reqs : req'[s].pc = "idle"
  BY <1>1, <1>2, <1>3
<1>5. \A s \in Reqs : (Knows(req[s]) /\ KnowsReceipts(req[s]))'
  BY <1>4 DEF Knows, KnowsReceipts, ReadsOrder
<1>6. HolderKnows'
  BY DEF HolderKnows
<1>7. QED
  BY <1>5, <1>6 DEF RequestsKnow

(* After a commit nobody holds the row, in whatever way it was made.       *)
LEMMA CommitFrees ==
  ASSUME OneInv, OneAtATime, NEW r \in Reqs, NEW pc,
         \/ Commit(r, pc) \/ CommitNow(r, pc)
         \/ CommitUnlocked(r, pc) /\ pc \notin Locking
  PROVE  RequestsKnow'
<1>1. Done(r)
  BY DEF Commit, CommitNow, CommitUnlocked
<1>2. CASE Commit(r, pc) \/ CommitNow(r, pc)
  BY <1>1, <1>2, DoneKnows DEF Commit, CommitNow, OneInv
<1>3. CASE CommitUnlocked(r, pc) /\ pc \notin Locking
  <2>1. req[r].pc \notin Locking /\ lock' = lock
    BY <1>3 DEF CommitUnlocked, At
  <2>2. lock = NoReq
    BY <2>1 DEF OneInv, RequestsKnow, HolderKnows, OneAtATime, TypeOK
  <2>3. QED
    BY <1>1, <2>1, <2>2, DoneKnows DEF OneInv
<1>4. QED
  BY <1>2, <1>3
(* A transaction commits with the invoice as it read it.                   *)
LEMMA CommitKnows ==
  ASSUME OneInv, NEW r \in Reqs, NEW pc, Commit(r, pc)
  PROVE  req[r].inv = invoice
BY InvoiceAssumption DEF OneInv, RequestsKnow, HolderKnows, Commit

------------------------------------------------------------------------------
(* Steps that only move the one request on: what it has read is true.      *)
Unmoved == UNCHANGED <<order, invoice, payments, shipments>>
Moves(r, call) == req' = [req EXCEPT ![r] = call] /\ UNCHANGED lock /\ Unmoved

LEMMA MoveKnows ==
  ASSUME OneInv, OneAtATime, NEW r \in Reqs, NEW call, Moves(r, call), lock = NoReq,
         Knows(call), KnowsReceipts(call)
  PROVE  RequestsKnow' /\ Covers' /\ PaidCountsVerified' /\ Posted'
<1>1. \A s \in Reqs : req'[s] = call
  BY DEF OneAtATime, Moves, OneInv, TypeOK
<1>2. /\ order' = order /\ invoice' = invoice /\ receipt' = receipt /\ posted' = posted
      /\ charge' = charge /\ lock' = NoReq
  BY DEF Moves, Unmoved, payments, shipments
<1>3. Verified' = Verified
  BY <1>2 DEF Verified
<1>4. \A s \in Reqs : Knows(req[s])'
  BY <1>1, <1>2 DEF Knows, Live
<1>5. \A s \in Reqs : KnowsReceipts(req[s])'
  BY <1>1, <1>2, <1>3 DEF KnowsReceipts, PaidBy
<1>6. HolderKnows'
  BY <1>2 DEF HolderKnows
<1>7. Covers'
  BY <1>2 DEF OneInv, Covers, TotalCovers, CourierCovers, BillCovers, Live
<1>8. PaidCountsVerified'
  BY <1>2, <1>3 DEF OneInv, PaidCountsVerified, PaidBy
<1>9. Posted'
  BY <1>2 DEF OneInv, Posted
<1>10. QED
  BY <1>4, <1>5, <1>6, <1>7, <1>8, <1>9 DEF RequestsKnow

(* Nobody else can hold the row.                                           *)
LEMMA FreeRow ==
  ASSUME OneInv, OneAtATime, NEW r \in Reqs, req[r].pc \notin Locking
  PROVE  lock = NoReq
BY DEF OneInv, RequestsKnow, HolderKnows, OneAtATime, TypeOK

LEMMA StartKnows ==
  ASSUME OneInv, OneAtATime, NEW r \in Reqs, NEW h, NEW call, Start(r, h, call),
         Knows(call), KnowsReceipts(call)
  PROVE  RequestsKnow' /\ Covers' /\ PaidCountsVerified' /\ Posted'
<1>1. req[r].pc \notin Locking
  BY DEF Start, At, Locking
<1>2. lock = NoReq
  BY <1>1, FreeRow
<1>3. Moves(r, call)
  BY DEF Start, Moves, Unmoved, money
<1>4. QED
  BY <1>2, <1>3, MoveKnows

LEMMA GotoKnows ==
  ASSUME OneInv, OneAtATime, NEW r \in Reqs, NEW call, Goto(r, call),
         req[r].pc \notin Locking, Knows(call), KnowsReceipts(call)
  PROVE  RequestsKnow' /\ Covers' /\ PaidCountsVerified' /\ Posted'
<1>1. lock = NoReq
  BY FreeRow
<1>2. Moves(r, call)
  BY DEF Goto, Moves, Unmoved, money
<1>3. QED
  BY <1>1, <1>2, MoveKnows

LEMMA IdleKnows == Knows(Idle) /\ KnowsReceipts(Idle)
BY DEF Idle, Call, Knows, KnowsReceipts, ReadsOrder

------------------------------------------------------------------------------
(* What the commits leave, the order's first.                              *)
PaymentsKept == PaidCountsVerified /\ Posted

LEMMA PaymentsKeep ==
  ASSUME OneInv, UNCHANGED payments,
         invoice'.made =>
           \/ PaidCountsVerified /\ invoice.made /\ invoice'.paid = invoice.paid
           \/ invoice'.paid >= PaidBy(Verified)
  PROVE  PaymentsKept'
<1>1. receipt' = receipt /\ posted' = posted
  BY DEF payments
<1>2. Verified' = Verified
  BY <1>1 DEF Verified
<1>3. PaidCountsVerified'
  BY <1>2 DEF PaidCountsVerified, PaidBy
<1>4. Posted'
  BY <1>1 DEF OneInv, Posted
<1>5. QED
  BY <1>3, <1>4 DEF PaymentsKept

LEMMA ApproveCovers ==
  ASSUME OneInv, OneAtATime, NEW r \in Reqs, Approve(r)
  PROVE  RequestsKnow' /\ Covers' /\ PaymentsKept'
<1>0. TypeOK /\ Covers /\ Knows(req[r]) /\ KnowsReceipts(req[r]) /\ PaidCountsVerified
  BY DEF OneInv, RequestsKnow
<1>1. Commit(r, "approve") /\ UNCHANGED charge /\ UNCHANGED payments
  BY DEF Approve, shipments
<1>2. req[r].inv = invoice /\ RequestsKnow'
  BY <1>1, CommitKnows, CommitFrees
<1>3. req[r].pc = "approve"
  BY <1>1 DEF Commit, At
<1>4. /\ req[r].seen.price = order.price /\ req[r].seen.cancelled = order.cancelled
      /\ req[r].seen.total = order.total /\ req[r].sum >= PaidBy(Verified)
  BY <1>0, <1>3 DEF Knows, KnowsReceipts, ReadsOrder
<1>5. Sum(req[r].seen.price, Live(req[r].seen)) = Sum(order.price, Live(order))
  BY <1>4 DEF Live
<1>6. /\ order'.price = order.price /\ order'.cancelled = order.cancelled
      /\ order'.total = order.total
  BY DEF Approve, Order
<1> DEFINE lines == Sum(order.price, Live(order))
           collected == Sum(charge, Parcels)
<1>7. lines \in Int /\ collected \in Int /\ order.total \in Int /\ req[r].sum \in Int
  BY <1>0, SumTypes, FieldTypes, RequestTypes DEF Live, TypeOK
<1>8. Sum(order'.price, Live(order')) = lines /\ Sum(charge', Parcels) = collected
  BY <1>1, <1>6 DEF Live
<1>9. lines <= order.total
  BY <1>0, <1>7 DEF Covers, TotalCovers
<1>10. order'.total >= Sum(order'.price, Live(order'))
  BY <1>0, <1>6, <1>8 DEF Covers, TotalCovers
<1> HIDE DEF lines, collected
<1>11. /\ invoice'.made /\ invoice'.courier >= collected
       /\ invoice'.total >= lines + invoice'.courier
       /\ \/ invoice.made /\ invoice'.paid = invoice.paid
          \/ invoice'.paid >= PaidBy(Verified)
  <2>1. CASE invoice.made
    <3>1. Reconcile(invoice, lines)
      BY <1>2, <1>5, <2>1 DEF Approve, lines
    <3>2. invoice.courier >= collected
      BY <1>0, <2>1 DEF Covers, CourierCovers, collected
    <3>3. QED
      BY <1>0, <1>7, <2>1, <3>1, <3>2, ReconcileCovers
  <2>2. CASE ~invoice.made
    <3>1. Raise(order.total, req[r].sum)
      BY <1>2, <1>4, <2>2 DEF Approve
    <3>2. /\ invoice'.made /\ invoice'.paid = req[r].sum /\ invoice'.courier = collected
          /\ invoice'.total = order.total + invoice'.courier
      BY <1>0, <1>7, <3>1, RaiseCovers DEF collected
    <3>3. QED
      BY <1>4, <1>7, <1>9, <3>2
  <2>3. QED
    BY <2>1, <2>2
<1>12. Covers'
  BY <1>8, <1>10, <1>11 DEF Covers, TotalCovers, CourierCovers, BillCovers
<1>13. PaymentsKept'
  BY <1>0, <1>1, <1>11, PaymentsKeep
<1>14. QED
  BY <1>2, <1>12, <1>13

LEMMA EditCovers ==
  ASSUME OneInv, OneAtATime, NEW r \in Reqs, Edit(r), TypeOK'
  PROVE  RequestsKnow' /\ Covers' /\ PaymentsKept'
<1>0. TypeOK /\ Covers /\ Knows(req[r]) /\ PaidCountsVerified
  BY DEF OneInv, RequestsKnow
<1>1. CommitNow(r, "edit") /\ UNCHANGED charge /\ UNCHANGED invoice /\ UNCHANGED payments
  BY DEF Edit, shipments, money
<1>2. RequestsKnow'
  BY <1>1, CommitFrees
<1>3. req[r].seen.price = order.price /\ req[r].seen.cancelled = order.cancelled
  BY <1>0, <1>1 DEF Knows, ReadsOrder, CommitNow, At
<1> DEFINE edited(f) == [i \in Items |-> IF i \in req[r].items THEN req[r].amount ELSE f[i]]
<1>4. order' = Order("PENDING_APPROVAL", edited(order.price), order.cancelled,
                     Sum(edited(order.price), Live(order)))
  BY <1>3 DEF Edit, Live
<1> HIDE DEF edited
<1>5. /\ order'.status = "PENDING_APPROVAL" /\ order'.price = edited(order.price)
      /\ Live(order') = Live(order) /\ order'.total = Sum(edited(order.price), Live(order))
  BY <1>4 DEF Order, Live
<1>6. order'.total \in Int
  BY DEF TypeOK, Orders
<1>7. TotalCovers'
  BY <1>5, <1>6 DEF TotalCovers
<1>8. CourierCovers' /\ BillCovers'
  BY <1>0, <1>1, <1>5 DEF Covers, CourierCovers, BillCovers
<1>9. PaymentsKept'
  BY <1>0, <1>1, PaymentsKeep
<1>10. QED
  BY <1>2, <1>7, <1>8, <1>9 DEF Covers

LEMMA UpsellCovers ==
  ASSUME OneInv, OneAtATime, NEW r \in Reqs, Upsell(r)
  PROVE  RequestsKnow' /\ Covers' /\ PaymentsKept'
<1>0. TypeOK /\ Covers /\ Knows(req[r]) /\ PaidCountsVerified
  BY DEF OneInv, RequestsKnow
<1>1. Commit(r, "upsell") /\ UNCHANGED charge /\ UNCHANGED payments
  BY DEF Upsell, shipments
<1>2. req[r].inv = invoice /\ RequestsKnow'
  BY <1>1, CommitKnows, CommitFrees
<1>3. req[r].pc = "upsell"
  BY <1>1 DEF Commit, At
<1>4. /\ req[r].seen.total = order.total
      /\ req[r].seen.status = "APPROVED" => invoice.made
  BY <1>0, <1>3 DEF Knows, ReadsOrder
<1>5. PICK i \in Live(order) : req[r].items = {i} /\ req[r].sum = req[r].amount - order.price[i]
  BY <1>0, <1>3 DEF Knows
<1> DEFINE raised == [j \in Items |-> IF j \in req[r].items THEN req[r].amount ELSE order.price[j]]
           lines == Sum(order.price, Live(order))
           more == Sum(raised, Live(order))
<1>6. req[r].amount \in Prices /\ order.price \in [Items -> Prices] /\ Live(order) \in SUBSET Items
  BY <1>0, <1>3, RequestTypes, FieldTypes DEF Live
<1>7. raised \in [Items -> Prices]
  BY <1>6
<1>8. raised[i] = req[r].amount /\ \A j \in Live(order) \ {i} : raised[j] = order.price[j]
  BY <1>5, <1>6
<1>9. more = lines + (raised[i] - order.price[i])
  BY ZenonT(60), <1>6, <1>7, <1>8, OnePriceChanged
<1>10. more = lines + req[r].sum
  BY <1>5, <1>8, <1>9
<1>11. lines \in Int /\ more \in Int /\ order.total \in Int /\ req[r].sum \in Int
  BY <1>0, <1>6, <1>7, SumTypes, FieldTypes, RequestTypes
<1>12. order' = Order(req[r].seen.status, raised, order.cancelled, order.total + req[r].sum)
       /\ IF invoice.made THEN Reconcile(invoice, more) ELSE UNCHANGED money
  BY <1>2, <1>4 DEF Upsell
<1> HIDE DEF raised, more
<1>13. /\ order'.status = req[r].seen.status /\ order'.total = order.total + req[r].sum
       /\ Sum(order'.price, Live(order')) = more
  BY <1>12 DEF Order, Live, more
<1>14. lines <= order.total
  BY <1>0, <1>11 DEF Covers, TotalCovers
<1> HIDE DEF lines
<1>15. TotalCovers'
  BY <1>10, <1>11, <1>13, <1>14 DEF TotalCovers
<1>16. CASE invoice.made
  <2>1. /\ invoice'.made /\ invoice'.courier = invoice.courier
        /\ invoice'.paid = invoice.paid /\ invoice'.total >= more + invoice'.courier
    BY <1>0, <1>11, <1>12, <1>16, ReconcileCovers
  <2>2. CourierCovers' /\ BillCovers'
    BY <1>0, <1>1, <1>13, <1>16, <2>1 DEF Covers, CourierCovers, BillCovers
  <2>3. PaymentsKept'
    BY <1>0, <1>1, <1>16, <2>1, PaymentsKeep
  <2>4. QED
    BY <1>2, <1>15, <2>2, <2>3 DEF Covers
<1>17. CASE ~invoice.made
  <2>1. invoice' = invoice /\ order'.status # "APPROVED"
    BY <1>4, <1>12, <1>13, <1>17 DEF money
  <2>2. CourierCovers' /\ BillCovers'
    BY <1>17, <2>1 DEF CourierCovers, BillCovers
  <2>3. PaymentsKept'
    BY <1>0, <1>1, <1>17, <2>1, PaymentsKeep
  <2>4. QED
    BY <1>2, <1>15, <2>2, <2>3 DEF Covers
<1>18. QED
  BY <1>16, <1>17

LEMMA CancelCovers ==
  ASSUME OneInv, OneAtATime, NEW r \in Reqs, Cancel(r)
  PROVE  RequestsKnow' /\ Covers' /\ PaymentsKept'
<1>0. TypeOK /\ Covers /\ Knows(req[r]) /\ PaidCountsVerified
  BY DEF OneInv, RequestsKnow
<1>1. CommitNow(r, "cancel") /\ UNCHANGED charge /\ UNCHANGED payments
  BY DEF Cancel, shipments
<1>2. RequestsKnow'
  BY <1>1, CommitFrees
<1>3. req[r].pc = "cancel"
  BY <1>1 DEF CommitNow, At
<1>4. /\ req[r].seen.price = order.price /\ req[r].seen.total = order.total
      /\ req[r].inv = invoice /\ req[r].items \subseteq Live(order)
  BY <1>0, <1>3 DEF Knows, ReadsOrder
<1> DEFINE S == req[r].items
           lines == Sum(order.price, Live(order))
           off == Sum(order.price, S)
           left == Sum(order.price, Live(order) \ S)
           named == Sum(order.price, Items \ S)
<1>5. order.price \in [Items -> Prices] /\ Live(order) \in SUBSET Items /\ S \in SUBSET Items
  BY <1>0, FieldTypes, RequestTypes DEF Live
<1>6. /\ lines \in Nat /\ off \in Int /\ left \in Int /\ named \in Int /\ order.total \in Int
      /\ lines = off + left /\ left <= named
  <2>1. Live(order) \ S \in SUBSET Items /\ Items \ S \in SUBSET Items
    BY <1>5
  <2>2. lines = off + left /\ left <= named
    BY <1>4, <1>5, ItemsTakenOff
  <2>3. QED
    BY <1>0, <1>5, <2>1, <2>2, SumNats, SumTypes, FieldTypes
<1>7. lines <= order.total
  BY <1>0, <1>6 DEF Covers, TotalCovers
<1>8. CASE S = {}
        /\ order' = Order("CANCELLED", order.price, Items, order.total)
        /\ IF req[r].inv.made THEN Reconcile(req[r].inv, 0) ELSE UNCHANGED money
  <2>1. Sum(order'.price, Live(order')) = 0 /\ order'.status = "CANCELLED"
        /\ order'.total = order.total
    <3>1. order'.price = order.price /\ Live(order') = {}
      BY <1>8 DEF Order, Live
    <3>2. Sum(order'.price, {}) = 0
      BY SumEmpty DEF Sum
    <3>3. QED
      BY <1>8, <3>1, <3>2 DEF Order
  <2>2. TotalCovers' /\ BillCovers'
    BY <1>6, <1>7, <2>1 DEF TotalCovers, BillCovers
  <2>3. /\ invoice'.made => invoice.made
        /\ invoice'.courier = invoice.courier /\ invoice'.paid = invoice.paid
    <3>1. CASE invoice.made
      BY <1>0, <1>4, <1>8, <3>1, ReconcileCovers
    <3>2. CASE ~invoice.made
      BY <1>4, <1>8, <3>2 DEF money
    <3>3. QED
      BY <3>1, <3>2
  <2>4. CourierCovers'
    BY <1>0, <1>1, <2>3 DEF Covers, CourierCovers
  <2>5. PaymentsKept'
    BY <1>0, <1>1, <2>3, PaymentsKeep
  <2>6. QED
    BY <1>2, <2>2, <2>4, <2>5 DEF Covers
<1>9. CASE S # {}
        /\ order' = Order(order.status, order.price, order.cancelled \cup S,
                          AtLeastZero(order.total - off))
        /\ IF invoice.made THEN Reconcile(invoice, named) ELSE UNCHANGED money
  <2>1. /\ Sum(order'.price, Live(order')) = left /\ order'.status = order.status
        /\ order'.total = AtLeastZero(order.total - off)
    <3>1. order'.price = order.price /\ Live(order') = Live(order) \ S
      BY <1>9 DEF Order, Live
    <3>2. Sum(order'.price, Live(order')) = left
      BY <3>1
    <3>3. QED
      BY <1>9, <3>2 DEF Order
  <2>2. AtLeastZero(order.total - off) >= order.total - off
        /\ AtLeastZero(order.total - off) \in Int
    BY <1>6 DEF AtLeastZero
  <2> HIDE DEF S, lines, off, left, named
  <2>3. TotalCovers'
    BY <1>6, <1>7, <2>1, <2>2 DEF TotalCovers
  <2>4. CASE invoice.made
    <3>1. /\ invoice'.made /\ invoice'.courier = invoice.courier
          /\ invoice'.paid = invoice.paid /\ invoice'.total >= named + invoice'.courier
      BY <1>0, <1>6, <1>9, <2>4, ReconcileCovers
    <3>2. CourierCovers'
      BY <1>0, <1>1, <2>4, <3>1 DEF Covers, CourierCovers
    <3>3. invoice.courier \in Int /\ invoice'.total \in Int
      <4>1. invoice.courier \in Int
        BY <1>0, FieldTypes
      <4>2. AtLeastZero(named + invoice.courier) \in Int
        BY <1>6, <4>1 DEF AtLeastZero
      <4>3. QED
        BY <1>9, <2>4, <4>1, <4>2 DEF Reconcile, Bill
    <3>4. BillCovers'
      BY <1>6, <2>1, <3>1, <3>3 DEF BillCovers
    <3>5. PaymentsKept'
      BY <1>0, <1>1, <2>4, <3>1, PaymentsKeep
    <3>6. QED
      BY <1>2, <2>3, <3>2, <3>4, <3>5 DEF Covers
  <2>5. CASE ~invoice.made
    <3>1. invoice' = invoice /\ order'.status # "APPROVED"
      BY <1>0, <1>9, <2>1, <2>5 DEF money, Covers, BillCovers
    <3>2. CourierCovers' /\ BillCovers'
      BY <2>5, <3>1 DEF CourierCovers, BillCovers
    <3>3. PaymentsKept'
      BY <1>0, <1>1, <2>5, <3>1, PaymentsKeep
    <3>4. QED
      BY <1>2, <2>3, <3>2, <3>3 DEF Covers
  <2>6. QED
    BY <2>4, <2>5
<1>10. QED
  BY <1>4, <1>8, <1>9 DEF Cancel

------------------------------------------------------------------------------
(* The receipts.                                                           *)
LEMMA OrderAlone ==
  ASSUME OneInv, UNCHANGED order, UNCHANGED charge, invoice'.made = invoice.made,
         invoice'.total = invoice.total, invoice'.courier = invoice.courier
  PROVE  Covers'
BY DEF OneInv, Covers, TotalCovers, CourierCovers, BillCovers

LEMMA VerifyCovers ==
  ASSUME OneInv, OneAtATime, NEW r \in Reqs, Verify(r)
  PROVE  RequestsKnow' /\ Covers' /\ PaymentsKept'
<1>0. TypeOK /\ KnowsReceipts(req[r]) /\ PaidCountsVerified /\ Posted
  BY DEF OneInv, RequestsKnow
<1>1. Commit(r, "verifying") /\ UNCHANGED charge /\ UNCHANGED order
  BY DEF Verify, shipments
<1>2. req[r].inv = invoice /\ RequestsKnow'
  BY <1>1, CommitKnows, CommitFrees
<1>3. req[r].pc = "verifying"
  BY <1>1 DEF Commit, At
<1> DEFINE p == req[r].id
<1>4. p \in Receipts /\ posted[p] = 0 /\ req[r].sum >= PaidBy(Verified \cup {p})
  BY <1>0, <1>3, RequestTypes DEF KnowsReceipts
<1>5. receipt' = [receipt EXCEPT ![p] = "VERIFIED"]
  BY DEF Verify
<1>6. Verified' = Verified \cup {p}
  BY <1>0, <1>4, <1>5 DEF Verified, TypeOK
<1>7. \/ /\ invoice.made
         /\ invoice' = Bill(invoice.total, invoice.courier, req[r].sum, invoice.total - req[r].sum)
         /\ posted' = [posted EXCEPT ![p] = posted[p] + 1]
      \/ ~invoice.made /\ invoice' = invoice /\ posted' = posted
  BY <1>2 DEF Verify
<1> HIDE DEF p
<1>8. Posted'
  <2>1. \A x \in Receipts : posted'[x] = IF x = p /\ invoice.made THEN 1 ELSE posted[x]
    BY <1>0, <1>4, <1>7 DEF TypeOK
  <2>2. \A x \in Receipts : receipt'[x] = IF x = p THEN "VERIFIED" ELSE receipt[x]
    BY <1>0, <1>4, <1>5 DEF TypeOK
  <2>3. QED
    BY <1>0, <1>4, <2>1, <2>2 DEF Posted
<1>9. PaidCountsVerified'
  <2>1. CASE invoice.made
    <3>1. invoice'.paid = req[r].sum
      BY <1>7, <2>1 DEF Bill
    <3>2. PaidBy(Verified)' = PaidBy(Verified \cup {p})
      BY <1>6 DEF PaidBy
    <3>3. QED
      BY <1>4, <3>1, <3>2 DEF PaidCountsVerified
  <2>2. CASE ~invoice.made
    BY <1>7, <2>2 DEF PaidCountsVerified
  <2>3. QED
    BY <2>1, <2>2
<1>10. Covers'
  <2>1. CASE invoice.made
    <3>1. /\ invoice'.made = TRUE /\ invoice'.total = invoice.total
          /\ invoice'.courier = invoice.courier
      BY <1>7, <2>1 DEF Bill
    <3>2. invoice.made = TRUE
      BY <1>0, <2>1, FieldTypes
    <3>3. QED
      BY <1>1, <3>1, <3>2, OrderAlone
  <2>2. CASE ~invoice.made
    BY <1>1, <1>7, <2>2, OrderAlone
  <2>3. QED
    BY <2>1, <2>2
<1>11. QED
  BY <1>2, <1>8, <1>9, <1>10 DEF PaymentsKept

(* A receipt that leaves the verified ones takes nothing off the sums that *)
(* the requests read; one that arrives adds nothing.                       *)
LEMMA ReceiptSetCovers ==
  ASSUME OneInv, NEW p \in Receipts, NEW s \in {"PENDING_VERIFICATION", "REJECTED", "DELETED"},
         s = "PENDING_VERIFICATION" => receipt[p] = "NONE",
         receipt' = [receipt EXCEPT ![p] = s],
         UNCHANGED <<order, money, posted, shipments>>
  PROVE  /\ Covers' /\ PaymentsKept'
         /\ UNCHANGED <<lock, req>> => RequestsKnow'
<1>0. TypeOK /\ PaidCountsVerified /\ Posted /\ RequestsKnow /\ invoice' = invoice
      /\ order' = order /\ charge' = charge /\ posted' = posted
  BY DEF OneInv, money, shipments
<1>1. \A x \in Receipts : receipt'[x] = IF x = p THEN s ELSE receipt[x]
  BY <1>0 DEF TypeOK
<1>2. Verified' \in SUBSET Verified
  BY <1>1 DEF Verified
<1>3. /\ PaidBy(Verified') <= PaidBy(Verified)
      /\ \A z \in Receipts : PaidBy(Verified' \cup {z}) <= PaidBy(Verified \cup {z})
  <2>1. Verified \in SUBSET Receipts
    BY DEF Verified
  <2>2. PaidBy(Verified') <= PaidBy(Verified)
    BY <1>2, <2>1, FewerReceipts
  <2>3. ASSUME NEW z \in Receipts PROVE PaidBy(Verified' \cup {z}) <= PaidBy(Verified \cup {z})
    <3>1. Verified \cup {z} \in SUBSET Receipts
          /\ Verified' \cup {z} \in SUBSET (Verified \cup {z})
      BY <1>2, <2>1
    <3>2. QED
      BY <3>1, FewerReceipts
  <2>4. QED
    BY <2>2, <2>3
<1>4. /\ PaidBy(Verified) \in Int /\ PaidBy(Verified') \in Int
      /\ \A z \in Receipts : PaidBy(Verified \cup {z}) \in Int
                             /\ PaidBy(Verified' \cup {z}) \in Int
  <2>1. Verified \in SUBSET Receipts /\ Verified' \in SUBSET Receipts
    BY <1>2 DEF Verified
  <2>2. \A z \in Receipts : Verified \cup {z} \in SUBSET Receipts
                            /\ Verified' \cup {z} \in SUBSET Receipts
    BY <2>1
  <2>3. QED
    BY <2>1, <2>2, SumTypes
<1>5. PaidCountsVerified'
  <2>1. PaidBy(Verified)' = PaidBy(Verified')
    BY DEF PaidBy
  <2>2. invoice.paid \in Int
    BY <1>0, FieldTypes
  <2>3. invoice.made => invoice.paid >= PaidBy(Verified)
    BY <1>0 DEF PaidCountsVerified
  <2>4. invoice.made => invoice.paid >= PaidBy(Verified')
    BY <1>3, <1>4, <2>2, <2>3
  <2>5. QED
    BY <1>0, <2>1, <2>4 DEF PaidCountsVerified
<1>6. Posted'
  BY <1>0, <1>1 DEF Posted
<1>7. Covers'
  BY <1>0, OrderAlone
<1>8. ASSUME UNCHANGED <<lock, req>> PROVE RequestsKnow'
  <2>1. HolderKnows'
    BY <1>0, <1>8 DEF RequestsKnow, HolderKnows
  <2>2. ASSUME NEW r \in Reqs PROVE (Knows(req[r]) /\ KnowsReceipts(req[r]))'
    <3>1. Knows(req[r]) /\ KnowsReceipts(req[r]) /\ req'[r] = req[r]
      BY <1>0, <1>8 DEF RequestsKnow
    <3>2. Knows(req[r])'
      BY <1>0, <3>1 DEF Knows, Live
    <3>3. PaidBy(Verified)' = PaidBy(Verified')
          /\ PaidBy(Verified \cup {req[r].id})' = PaidBy(Verified' \cup {req'[r].id})
      BY DEF PaidBy
    <3>4. req[r].sum \in Int /\ (req[r].pc = "verifying" => req[r].id \in Receipts)
      BY <1>0, RequestTypes
    <3>5. req[r].pc \in {"approve", "synced"} => req[r].sum >= PaidBy(Verified')
      <4>1. req[r].pc \in {"approve", "synced"} => req[r].sum >= PaidBy(Verified)
        BY <3>1 DEF KnowsReceipts
      <4>2. QED
        BY <1>3, <1>4, <3>4, <4>1
    <3>6. ASSUME req[r].pc = "verifying"
          PROVE  req[r].sum >= PaidBy(Verified' \cup {req[r].id})
      <4>1. req[r].id \in Receipts /\ req[r].sum >= PaidBy(Verified \cup {req[r].id})
        BY <3>1, <3>4, <3>6 DEF KnowsReceipts
      <4>2. /\ PaidBy(Verified' \cup {req[r].id}) <= PaidBy(Verified \cup {req[r].id})
            /\ PaidBy(Verified \cup {req[r].id}) \in Int
            /\ PaidBy(Verified' \cup {req[r].id}) \in Int
        BY <1>3, <1>4, <4>1
      <4>3. QED
        BY <3>4, <4>1, <4>2
    <3>7. KnowsReceipts(req[r])'
      BY <1>0, <3>1, <3>3, <3>5, <3>6 DEF KnowsReceipts
    <3>8. QED
      BY <3>2, <3>7
  <2>3. QED
    BY <2>1, <2>2 DEF RequestsKnow
<1>9. QED
  BY <1>5, <1>6, <1>7, <1>8 DEF PaymentsKept

LEMMA DeletePaymentCovers ==
  ASSUME OneInv, OneAtATime, NEW r \in Reqs, DeletePayment(r)
  PROVE  RequestsKnow' /\ Covers' /\ PaymentsKept'
<1>1. PICK p \in Receipts : receipt' = [receipt EXCEPT ![p] = "DELETED"]
  BY DEF DeletePayment
<1>2. UNCHANGED <<order, money, posted, shipments>>
  BY DEF DeletePayment
<1>3. Covers' /\ PaymentsKept'
  BY <1>1, <1>2, ReceiptSetCovers
<1>4. req[r].pc \notin Locking /\ TypeOK
  BY DEF DeletePayment, At, Locking, OneInv
<1>5. lock' = NoReq
  BY <1>4, FreeRow DEF DeletePayment
<1>6. \A s \in Reqs : req'[s].pc = "deleted"
  BY <1>4 DEF DeletePayment, OneAtATime, TypeOK, Call
<1>7. RequestsKnow'
  BY <1>5, <1>6 DEF RequestsKnow, HolderKnows, Knows, KnowsReceipts, ReadsOrder
<1>8. QED
  BY <1>3, <1>7

LEMMA SyncPaidCovers ==
  ASSUME OneInv, OneAtATime, NEW r \in Reqs, SyncPaid(r)
  PROVE  RequestsKnow' /\ Covers' /\ PaymentsKept'
<1>0. Knows(req[r]) /\ KnowsReceipts(req[r]) /\ TypeOK
  BY DEF OneInv, RequestsKnow
<1>1. CommitUnlocked(r, "synced") /\ UNCHANGED charge /\ UNCHANGED order /\ UNCHANGED payments
  BY DEF SyncPaid, shipments
<1>2. req[r].sum >= PaidBy(Verified) /\ invoice.made
  BY <1>0, <1>1 DEF CommitUnlocked, At, Knows, KnowsReceipts
<1>3. /\ invoice'.made = TRUE /\ invoice'.total = invoice.total
      /\ invoice'.courier = invoice.courier /\ invoice'.paid = req[r].sum
  BY DEF SyncPaid, Bill
<1>4. invoice.made = TRUE
  BY <1>0, <1>2, FieldTypes
<1>5. Covers'
  BY <1>1, <1>3, <1>4, OrderAlone
<1>6. PaymentsKept'
  BY <1>1, <1>2, <1>3, PaymentsKeep
<1>7. RequestsKnow'
  BY <1>1, CommitFrees DEF Locking
<1>8. QED
  BY <1>5, <1>6, <1>7

------------------------------------------------------------------------------
(* The courier charge and the notes.                                       *)
LEMMA ShipCovers ==
  ASSUME OneInv, OneAtATime, NEW r \in Reqs, Ship(r), TypeOK'
  PROVE  RequestsKnow' /\ Covers' /\ PaymentsKept'
<1>0. TypeOK /\ Covers /\ PaidCountsVerified
  BY DEF OneInv
<1>1. Commit(r, "ship") /\ UNCHANGED payments
  BY DEF Ship
<1>2. req[r].inv = invoice /\ RequestsKnow'
  BY <1>1, CommitKnows, CommitFrees
<1>3. Sum(charge', Parcels) \in Int
  BY SumTypes DEF TypeOK
<1>4. SyncCourier(invoice, Sum(charge', Parcels))
  BY <1>2 DEF Ship
<1>5. /\ invoice'.made = invoice.made /\ invoice'.paid = invoice.paid
      /\ invoice.made => invoice'.courier = Sum(charge', Parcels)
  BY <1>0, <1>3, <1>4, SyncCourierCovers
<1>6. /\ order'.status = "SHIPPED" /\ order'.total = order.total
      /\ order'.price = order.price /\ Live(order') = Live(order)
  BY DEF Ship, Order, Live
<1>7. TotalCovers' /\ BillCovers'
  BY <1>0, <1>6 DEF Covers, TotalCovers, BillCovers
<1>8. CourierCovers'
  BY <1>3, <1>5 DEF CourierCovers
<1>9. PaymentsKept'
  BY <1>0, <1>1, <1>5, PaymentsKeep
<1>10. QED
  BY <1>2, <1>7, <1>8, <1>9 DEF Covers

LEMMA ReturnCovers ==
  ASSUME OneInv, OneAtATime, NEW r \in Reqs, ReturnToQueue(r)
  PROVE  RequestsKnow' /\ Covers' /\ PaymentsKept'
<1>0. TypeOK /\ Covers /\ PaidCountsVerified
  BY DEF OneInv
<1>1. CommitNow(r, "return") /\ UNCHANGED payments /\ invoice' = invoice
  BY DEF ReturnToQueue, money
<1>2. RequestsKnow'
  BY <1>1, CommitFrees
<1>3. charge' = [q \in Parcels |-> IF q = req[r].id THEN 0 ELSE charge[q]]
  BY DEF ReturnToQueue
<1>4. charge' \in [Parcels -> Charges \cup {0}]
  BY <1>0, <1>3 DEF TypeOK
<1>5. Sum(charge', Parcels) <= Sum(charge, Parcels)
  BY <1>0, <1>3, ChargeTakenOff DEF TypeOK
<1>6. Sum(charge', Parcels) \in Int /\ Sum(charge, Parcels) \in Int /\ invoice.courier \in Int
  BY <1>0, <1>4, SumTypes, FieldTypes DEF TypeOK
<1>7. CourierCovers'
  BY <1>0, <1>1, <1>5, <1>6 DEF Covers, CourierCovers
<1>8. /\ order'.status = "RETURNED" /\ order'.total = order.total
      /\ order'.price = order.price /\ Live(order') = Live(order)
  BY DEF ReturnToQueue, Order, Live
<1>9. TotalCovers' /\ BillCovers'
  BY <1>0, <1>8 DEF Covers, TotalCovers, BillCovers
<1>10. PaymentsKept'
  BY <1>0, <1>1, PaymentsKeep
<1>11. QED
  BY <1>2, <1>7, <1>9, <1>10 DEF Covers

LEMMA UpdateChargeCovers ==
  ASSUME OneInv, OneAtATime, NEW r \in Reqs, UpdateCharge(r), TypeOK'
  PROVE  RequestsKnow' /\ Covers' /\ PaymentsKept'
<1>0. TypeOK /\ Covers /\ PaidCountsVerified /\ Knows(req[r])
  BY DEF OneInv, RequestsKnow
<1>1. CommitUnlocked(r, "charge") /\ UNCHANGED payments /\ UNCHANGED order
  BY DEF UpdateCharge
<1>2. RequestsKnow'
  BY <1>1, CommitFrees DEF Locking
<1>3. req[r].inv = invoice /\ req[r].sum = Sum(charge', Parcels)
  BY <1>0, <1>1 DEF CommitUnlocked, At, Knows, UpdateCharge
<1>4. Sum(charge', Parcels) \in Int
  BY SumTypes DEF TypeOK
<1>5. SyncCourier(invoice, Sum(charge', Parcels))
  BY <1>3 DEF UpdateCharge
<1>6. /\ invoice'.made = invoice.made /\ invoice'.paid = invoice.paid
      /\ invoice.made =>
           /\ invoice'.courier = Sum(charge', Parcels)
           /\ invoice'.total = invoice.total + (Sum(charge', Parcels) - invoice.courier)
  BY <1>0, <1>4, <1>5, SyncCourierCovers
<1>7. CourierCovers'
  BY <1>4, <1>6 DEF CourierCovers
<1>8. Sum(order.price, Live(order)) \in Int /\ invoice.courier \in Int /\ invoice.total \in Int
  BY <1>0, SumTypes, FieldTypes DEF Live
<1>9. BillCovers'
  <2>1. order'.status = order.status /\ Sum(order'.price, Live(order')) = Sum(order.price, Live(order))
    BY <1>1 DEF Live
  <2> DEFINE lines == Sum(order.price, Live(order))
             collected == Sum(charge', Parcels)
  <2>2. order.status = "APPROVED" => invoice.made /\ invoice.total >= lines + invoice.courier
    BY <1>0 DEF Covers, BillCovers
  <2> HIDE DEF lines, collected
  <2>3. order.status = "APPROVED"
          => invoice'.made /\ invoice'.total >= lines + invoice'.courier
    BY <1>4, <1>6, <1>8, <2>2 DEF lines, collected
  <2>4. QED
    BY <2>1, <2>3 DEF BillCovers, lines
<1>10. TotalCovers'
  BY <1>0, <1>1 DEF Covers, TotalCovers, Live
<1>11. PaymentsKept'
  BY <1>0, <1>1, <1>6, PaymentsKeep
<1>12. QED
  BY <1>2, <1>7, <1>9, <1>10, <1>11 DEF Covers

LEMMA WriteNoteCovers ==
  ASSUME OneInv, OneAtATime, NEW r \in Reqs, WriteNote(r)
  PROVE  RequestsKnow' /\ Covers' /\ PaymentsKept'
<1>0. Knows(req[r]) /\ TypeOK /\ PaidCountsVerified
  BY DEF OneInv, RequestsKnow
<1>1. CommitUnlocked(r, "note") /\ UNCHANGED charge /\ UNCHANGED order /\ UNCHANGED payments
  BY DEF WriteNote, shipments
<1>2. invoice.made = TRUE
  BY <1>0, <1>1, FieldTypes DEF CommitUnlocked, At, Knows
<1>3. /\ invoice'.made = TRUE /\ invoice'.total = invoice.total
      /\ invoice'.courier = invoice.courier /\ invoice'.paid = invoice.paid
  BY DEF WriteNote, Bill
<1>4. Covers'
  BY <1>1, <1>2, <1>3, OrderAlone
<1>5. PaymentsKept'
  BY <1>0, <1>1, <1>2, <1>3, PaymentsKeep
<1>6. RequestsKnow'
  BY <1>1, CommitFrees DEF Locking
<1>7. QED
  BY <1>4, <1>5, <1>6

------------------------------------------------------------------------------
(* Every step of the one request, and every one-step handler, keeps what   *)
(* the request knows and what the bill covers.                             *)
Kept == RequestsKnow /\ Covers /\ PaymentsKept

LEMMA OrderStepCovers ==
  ASSUME OneInv, OneAtATime, TypeOK', NEW r \in Reqs, OrderStep(r)
  PROVE  Kept'
<1>0. TypeOK /\ BillCovers
  BY DEF OneInv, Covers
<1>1. CASE ApproveCheck(r)
  <2> DEFINE call == Call("approve", {}, NoId, 0, PaidBy(Verified), order, NoInvoice)
  <2>1. PaidBy(Verified) \in Int
    BY SumTypes DEF Verified
  <2>2. Knows(call) /\ KnowsReceipts(call)
    BY <2>1 DEF Call, Knows, KnowsReceipts, ReadsOrder
  <2>3. Start(r, "approve", call)
    BY <1>1 DEF ApproveCheck
  <2> HIDE DEF call
  <2>4. QED
    BY <2>2, <2>3, StartKnows DEF Kept, PaymentsKept
<1>2. CASE Approve(r)
  BY <1>2, ApproveCovers DEF Kept
<1>3. CASE EditCheck(r)
  <2>1. PICK i \in Live(order), p \in Prices :
          Start(r, "edit", Call("edit", {i}, NoId, p, 0, order, NoInvoice))
    BY <1>3 DEF EditCheck
  <2> DEFINE call == Call("edit", {i}, NoId, p, 0, order, NoInvoice)
  <2>2. Knows(call) /\ KnowsReceipts(call)
    BY DEF Call, Knows, KnowsReceipts, ReadsOrder
  <2> HIDE DEF call
  <2>3. QED
    BY <2>1, <2>2, StartKnows DEF Kept, PaymentsKept, call
<1>4. CASE Edit(r)
  BY <1>4, EditCovers DEF Kept
<1>5. CASE UpsellCheck(r)
  <2>1. PICK i \in Live(order), p \in Prices :
          Start(r, "upsell", Call("upsell", {i}, NoId, p, p - order.price[i], order, NoInvoice))
    BY <1>5 DEF UpsellCheck
  <2> DEFINE call == Call("upsell", {i}, NoId, p, p - order.price[i], order, NoInvoice)
  <2>2. Knows(call) /\ KnowsReceipts(call)
    BY <1>0 DEF Call, Knows, KnowsReceipts, ReadsOrder, BillCovers
  <2> HIDE DEF call
  <2>3. QED
    BY <2>1, <2>2, StartKnows DEF Kept, PaymentsKept, call
<1>6. CASE Upsell(r)
  BY <1>6, UpsellCovers DEF Kept
<1>7. CASE CancelCheck(r)
  <2>1. PICK S \in SUBSET Live(order) :
          Start(r, "cancel", Call("cancel", S, NoId, 0, 0, order, invoice))
    BY <1>7 DEF CancelCheck
  <2> DEFINE call == Call("cancel", S, NoId, 0, 0, order, invoice)
  <2>2. Knows(call) /\ KnowsReceipts(call)
    BY DEF Call, Knows, KnowsReceipts, ReadsOrder
  <2> HIDE DEF call
  <2>3. QED
    BY <2>1, <2>2, StartKnows DEF Kept, PaymentsKept, call
<1>8. CASE Cancel(r)
  BY <1>8, CancelCovers DEF Kept
<1>9. QED
  BY <1>1, <1>2, <1>3, <1>4, <1>5, <1>6, <1>7, <1>8 DEF OrderStep

LEMMA ReceiptStepCovers ==
  ASSUME OneInv, OneAtATime, NEW r \in Reqs, ReceiptStep(r)
  PROVE  Kept'
<1>0. TypeOK /\ Posted /\ KnowsReceipts(req[r])
  BY DEF OneInv, RequestsKnow
<1>1. CASE VerifyCheck(r)
  <2>1. PICK p \in Receipts :
          /\ receipt[p] = "PENDING_VERIFICATION"
          /\ Start(r, "verify", Call("verify", {}, p, 0, 0, Unread, NoInvoice))
    BY <1>1 DEF VerifyCheck
  <2> DEFINE call == Call("verify", {}, p, 0, 0, Unread, NoInvoice)
  <2>2. Knows(call) /\ KnowsReceipts(call)
    BY <1>0, <2>1 DEF Call, Knows, KnowsReceipts, ReadsOrder, Posted
  <2> HIDE DEF call
  <2>3. QED
    BY <2>1, <2>2, StartKnows DEF Kept, PaymentsKept, call
<1>2. CASE VerifyReads(r)
  <2>1. req[r].pc = "verify" /\ posted[req[r].id] = 0 /\ req[r].pc \notin Locking
    BY <1>0, <1>2 DEF VerifyReads, At, KnowsReceipts, Locking
  <2>2. req[r].id \in Receipts
    BY <1>0, <2>1, RequestTypes
  <2>3. Verified \cup {req[r].id} \in SUBSET Receipts
    BY <2>2 DEF Verified
  <2>4. PaidBy(Verified \cup {req[r].id}) \in Int
    BY <2>3, SumTypes
  <2> DEFINE call == Call("verifying", {}, req[r].id, 0, PaidBy(Verified \cup {req[r].id}),
                          Unread, NoInvoice)
  <2>5. Knows(call) /\ KnowsReceipts(call)
    BY <2>1, <2>4 DEF Call, Knows, KnowsReceipts, ReadsOrder
  <2>6. Goto(r, call)
    BY <1>2 DEF VerifyReads
  <2> HIDE DEF call
  <2>7. QED
    BY <2>1, <2>5, <2>6, GotoKnows DEF Kept, PaymentsKept
<1>3. CASE Verify(r)
  BY <1>3, VerifyCovers DEF Kept
<1>4. CASE DeletePayment(r)
  BY <1>4, DeletePaymentCovers DEF Kept
<1>5. CASE SyncPaidReads(r)
  <2>1. PaidBy(Verified) \in Int
    BY SumTypes DEF Verified
  <2> DEFINE call == IF invoice.made
                     THEN Call("synced", {}, NoId, 0, PaidBy(Verified), Unread, invoice)
                     ELSE Idle
  <2>2. Knows(call) /\ KnowsReceipts(call)
    BY <2>1, IdleKnows DEF Call, Knows, KnowsReceipts, ReadsOrder
  <2>3. Goto(r, call) /\ req[r].pc \notin Locking
    BY <1>5 DEF SyncPaidReads, At, Locking
  <2> HIDE DEF call
  <2>4. QED
    BY <2>2, <2>3, GotoKnows DEF Kept, PaymentsKept
<1>6. CASE SyncPaid(r)
  BY <1>6, SyncPaidCovers DEF Kept
<1>7. CASE RefreshOrderPaymentStatus(r)
  <2> DEFINE call == Call("sync", {}, NoId, 0, 0, Unread, NoInvoice)
  <2>1. Knows(call) /\ KnowsReceipts(call)
    BY DEF Call, Knows, KnowsReceipts, ReadsOrder
  <2>2. Goto(r, call) /\ req[r].pc \notin Locking
    BY <1>7 DEF RefreshOrderPaymentStatus, At, Locking
  <2> HIDE DEF call
  <2>3. QED
    BY <2>1, <2>2, GotoKnows DEF Kept, PaymentsKept
<1>8. QED
  BY <1>1, <1>2, <1>3, <1>4, <1>5, <1>6, <1>7 DEF ReceiptStep

LEMMA ChargeStepCovers ==
  ASSUME OneInv, OneAtATime, TypeOK', NEW r \in Reqs, ChargeStep(r)
  PROVE  Kept'
<1>1. CASE ShipCheck(r)
  <2>1. PICK q \in Parcels \ parcels, c \in Charges :
          Start(r, "ship", Call("ship", {}, q, c, 0, Unread, NoInvoice))
    BY <1>1 DEF ShipCheck
  <2> DEFINE call == Call("ship", {}, q, c, 0, Unread, NoInvoice)
  <2>2. Knows(call) /\ KnowsReceipts(call)
    BY DEF Call, Knows, KnowsReceipts, ReadsOrder
  <2> HIDE DEF call
  <2>3. QED
    BY <2>1, <2>2, StartKnows DEF Kept, PaymentsKept, call
<1>2. CASE Ship(r)
  BY <1>2, ShipCovers DEF Kept
<1>3. CASE ReturnCheck(r)
  <2>1. PICK q \in IF parcels = {} THEN {NoId} ELSE parcels :
          Start(r, "return", Call("return", {}, q, 0, 0, Unread, NoInvoice))
    BY <1>3 DEF ReturnCheck
  <2> DEFINE call == Call("return", {}, q, 0, 0, Unread, NoInvoice)
  <2>2. Knows(call) /\ KnowsReceipts(call)
    BY DEF Call, Knows, KnowsReceipts, ReadsOrder
  <2> HIDE DEF call
  <2>3. QED
    BY <2>1, <2>2, StartKnows DEF Kept, PaymentsKept, call
<1>4. CASE ReturnToQueue(r)
  BY <1>4, ReturnCovers DEF Kept
<1>5. CASE ChargeReads(r)
  <2>1. PICK q \in parcels, c \in Charges :
          Start(r, "charge", Call("charge", {}, q, c, Sum([charge EXCEPT ![q] = c], Parcels),
                                  Unread, invoice))
    BY <1>5 DEF ChargeReads
  <2> DEFINE call == Call("charge", {}, q, c, Sum([charge EXCEPT ![q] = c], Parcels),
                          Unread, invoice)
  <2>2. Knows(call) /\ KnowsReceipts(call)
    BY DEF Call, Knows, KnowsReceipts, ReadsOrder
  <2> HIDE DEF call
  <2>3. QED
    BY <2>1, <2>2, StartKnows DEF Kept, PaymentsKept, call
<1>6. CASE UpdateCharge(r)
  BY <1>6, UpdateChargeCovers DEF Kept
<1>7. CASE NoteReads(r)
  <2>1. PICK n \in Notes : Start(r, "note", Call("note", {}, NoId, n, 0, Unread, invoice))
    BY <1>7 DEF NoteReads
  <2> DEFINE call == Call("note", {}, NoId, n, 0, Unread, invoice)
  <2>2. Knows(call) /\ KnowsReceipts(call)
    BY <1>7 DEF NoteReads, Call, Knows, KnowsReceipts, ReadsOrder
  <2> HIDE DEF call
  <2>3. QED
    BY <2>1, <2>2, StartKnows DEF Kept, PaymentsKept, call
<1>8. CASE WriteNote(r)
  BY <1>8, WriteNoteCovers DEF Kept
<1>9. QED
  BY <1>1, <1>2, <1>3, <1>4, <1>5, <1>6, <1>7, <1>8 DEF ChargeStep

LEMMA HandlersCover ==
  ASSUME OneInv, OneAtATime, RejectOrder \/ AddPayment \/ RejectPayment \/ UNCHANGED vars
  PROVE  Kept'
<1>0. TypeOK /\ Covers /\ PaidCountsVerified /\ Posted /\ RequestsKnow
  BY DEF OneInv
<1>1. CASE RejectOrder \/ UNCHANGED vars
  <2>1. /\ UNCHANGED <<lock, req, payments, charge>> /\ invoice' = invoice
        /\ order'.status = order.status \/ order'.status = "CANCELLED"
        /\ order'.price = order.price /\ order'.cancelled = order.cancelled
        /\ order'.total = order.total
    BY <1>1 DEF RejectOrder, vars, money, payments, shipments, Order
  <2>2. Covers'
    BY <1>0, <2>1 DEF Covers, TotalCovers, CourierCovers, BillCovers, Live
  <2>3. PaymentsKept'
    BY <1>0, <2>1, PaymentsKeep
  <2>4. ASSUME NEW r \in Reqs PROVE (Knows(req[r]) /\ KnowsReceipts(req[r]))'
    <3>1. Knows(req[r]) /\ KnowsReceipts(req[r]) /\ req'[r] = req[r]
      BY <1>0, <2>1 DEF RequestsKnow
    <3>2. Knows(req[r])'
      BY <2>1, <3>1 DEF Knows, Live
    <3>3. Verified' = Verified /\ posted' = posted
      BY <2>1 DEF Verified, payments
    <3>4. KnowsReceipts(req[r])'
      BY <3>1, <3>3 DEF KnowsReceipts, PaidBy
    <3>5. QED
      BY <3>2, <3>4
  <2>5. HolderKnows'
    BY <1>0, <2>1 DEF RequestsKnow, HolderKnows
  <2>6. QED
    BY <2>2, <2>3, <2>4, <2>5 DEF Kept, RequestsKnow
<1>2. CASE AddPayment
  <2>1. PICK p \in Receipts : /\ receipt[p] = "NONE"
                              /\ receipt' = [receipt EXCEPT ![p] = "PENDING_VERIFICATION"]
    BY <1>2 DEF AddPayment
  <2>2. UNCHANGED <<order, money, posted, shipments, lock, req>>
    BY <1>2 DEF AddPayment
  <2>3. QED
    BY <2>1, <2>2, ReceiptSetCovers DEF Kept
<1>3. CASE RejectPayment
  <2>1. PICK p \in Receipts : receipt' = [receipt EXCEPT ![p] = "REJECTED"]
    BY <1>3 DEF RejectPayment
  <2>2. UNCHANGED <<order, money, posted, shipments, lock, req>>
    BY <1>3 DEF RejectPayment
  <2>3. QED
    BY <2>1, <2>2, ReceiptSetCovers DEF Kept
<1>4. QED
  BY <1>1, <1>2, <1>3

LEMMA TakeOrderRowCovers ==
  ASSUME OneInv, OneAtATime, NEW r \in Reqs, TakeOrderRow(r)
  PROVE  Kept'
<1>0. TypeOK /\ Covers /\ PaidCountsVerified /\ Posted /\ RequestsKnow
  BY DEF OneInv
<1> DEFINE call == Call(req[r].pc, req[r].items, req[r].id, req[r].amount, req[r].sum,
                        req[r].seen, invoice)
<1>1. \A s \in Reqs : req'[s] = call
  BY <1>0 DEF TakeOrderRow, OneAtATime, TypeOK
<1>2. /\ call.pc = req[r].pc /\ call.items = req[r].items /\ call.id = req[r].id
      /\ call.amount = req[r].amount /\ call.sum = req[r].sum /\ call.seen = req[r].seen
      /\ call.inv = invoice
  BY DEF Call
<1>3. /\ lock' = r /\ req[r].pc \in Locking /\ order' = order /\ invoice' = invoice
      /\ charge' = charge /\ UNCHANGED payments
  BY DEF TakeOrderRow, money, shipments
<1> HIDE DEF call
<1>4. HolderKnows'
  BY <1>1, <1>2, <1>3 DEF HolderKnows
<1>5. Knows(req[r]) /\ KnowsReceipts(req[r])
  BY <1>0 DEF RequestsKnow
<1>6. ASSUME NEW s \in Reqs PROVE (Knows(req[s]) /\ KnowsReceipts(req[s]))'
  <2>1. Knows(req[s])'
    BY <1>1, <1>2, <1>3, <1>5 DEF Knows, Live
  <2>2. Verified' = Verified /\ posted' = posted
    BY <1>3 DEF Verified, payments
  <2>3. KnowsReceipts(req[s])'
    BY <1>1, <1>2, <1>5, <2>2 DEF KnowsReceipts, PaidBy
  <2>4. QED
    BY <2>1, <2>3
<1>7. Covers'
  BY <1>0, <1>3, OrderAlone
<1>8. PaymentsKept'
  BY <1>0, <1>3, PaymentsKeep
<1>9. QED
  BY <1>4, <1>6, <1>7, <1>8 DEF Kept, RequestsKnow

LEMMA FailsCovers ==
  ASSUME OneInv, OneAtATime, NEW r \in Reqs, Fails(r)
  PROVE  Kept'
<1>0. TypeOK /\ PaidCountsVerified
  BY DEF OneInv
<1>1. lock' = NoReq /\ Done(r)
  BY <1>0 DEF Fails, OneAtATime, TypeOK
<1>2. RequestsKnow'
  BY <1>0, <1>1, DoneKnows
<1>3. UNCHANGED <<order, charge, payments>> /\ invoice' = invoice
  BY DEF Fails, money, shipments
<1>4. Covers'
  BY <1>3, OrderAlone
<1>5. PaymentsKept'
  BY <1>0, <1>3, PaymentsKeep
<1>6. QED
  BY <1>2, <1>4, <1>5 DEF Kept

LEMMA OneInit == Init => OneInv
<1> SUFFICES ASSUME Init PROVE OneInv
  OBVIOUS
<1>1. TypeOK
  BY TypeInit
<1>2. \A r \in Reqs : req[r].pc = "idle"
  BY DEF Init, Idle, Call
<1>3. RequestsKnow
  BY <1>2 DEF Init, RequestsKnow, HolderKnows, Knows, KnowsReceipts, ReadsOrder
<1>4. Covers
  <2>1. /\ ~invoice.made /\ order.status = "PENDING_APPROVAL"
        /\ Live(order) = Items /\ order.total = Sum(order.price, Items)
    BY DEF Init, NoInvoice, Order, Live
  <2>2. order.total \in Int
    BY <1>1, FieldTypes
  <2>3. QED
    BY <2>1, <2>2 DEF Covers, TotalCovers, CourierCovers, BillCovers
<1>5. PaidCountsVerified /\ Posted
  BY DEF Init, NoInvoice, PaidCountsVerified, Posted
<1>6. QED
  BY <1>1, <1>3, <1>4, <1>5 DEF OneInv

LEMMA OneNext ==
  ASSUME OneInv, OneAtATime, [Next]_vars
  PROVE  OneInv'
<1>1. TypeOK'
  BY TypeNext DEF OneInv
<1>2. CASE RejectOrder \/ AddPayment \/ RejectPayment \/ UNCHANGED vars
  BY <1>1, <1>2, HandlersCover DEF OneInv, Kept, PaymentsKept
<1>3. ASSUME NEW r \in Reqs, OrderStep(r) \/ ReceiptStep(r) \/ ChargeStep(r) PROVE OneInv'
  BY <1>1, <1>3, OrderStepCovers, ReceiptStepCovers, ChargeStepCovers
     DEF OneInv, Kept, PaymentsKept
<1>4. ASSUME NEW r \in Reqs, TakeOrderRow(r) \/ Fails(r) PROVE OneInv'
  BY <1>1, <1>4, TakeOrderRowCovers, FailsCovers DEF OneInv, Kept, PaymentsKept
<1>5. QED
  BY <1>2, <1>3, <1>4 DEF Next

LEMMA OneInvSays == OneInv => ReceiptPostedOnce /\ PaidCountsVerified /\ ApprovedIsBilled
<1> SUFFICES ASSUME OneInv PROVE ReceiptPostedOnce /\ PaidCountsVerified /\ ApprovedIsBilled
  OBVIOUS
<1>1. ReceiptPostedOnce /\ PaidCountsVerified
  BY DEF OneInv, Posted, ReceiptPostedOnce
<1>2. /\ Sum(order.price, Live(order)) \in Int /\ Sum(charge, Parcels) \in Int
      /\ invoice.total \in Int /\ invoice.courier \in Int
  BY SumTypes, FieldTypes DEF OneInv, TypeOK, Live
<1>3. ApprovedIsBilled
  BY <1>2 DEF OneInv, Covers, CourierCovers, BillCovers, ApprovedIsBilled
<1>4. QED
  BY <1>1, <1>3

(* With one request at a time, no receipt lowers Customer Receivable       *)
(* twice, however often it is verified, rejected and deleted.              *)
THEOREM ReceiptsPostedOnce ==
  ASSUME OneAtATime
  PROVE  Spec => []ReceiptPostedOnce
<1>1. Init => OneInv
  BY OneInit
<1>2. OneInv /\ [Next]_vars => OneInv'
  BY OneNext
<1>3. OneInv => ReceiptPostedOnce
  BY OneInvSays
<1>4. QED
  BY <1>1, <1>2, <1>3, PTL DEF Spec

(* No verified receipt is missing from what the invoice says was paid,     *)
(* those verified before the order was approved included.                  *)
THEOREM PaidMissesNoReceipt ==
  ASSUME OneAtATime
  PROVE  Spec => []PaidCountsVerified
<1>1. Init => OneInv
  BY OneInit
<1>2. OneInv /\ [Next]_vars => OneInv'
  BY OneNext
<1>3. OneInv => PaidCountsVerified
  BY OneInvSays
<1>4. QED
  BY <1>1, <1>2, <1>3, PTL DEF Spec

(* An approved order has an invoice, and the invoice's total covers its    *)
(* live items and the courier charges collected on it, through edits,      *)
(* upsells, cancellations of items, returns and second approvals.          *)
THEOREM ApprovedOrdersAreBilled ==
  ASSUME OneAtATime
  PROVE  Spec => []ApprovedIsBilled
<1>1. Init => OneInv
  BY OneInit
<1>2. OneInv /\ [Next]_vars => OneInv'
  BY OneNext
<1>3. OneInv => ApprovedIsBilled
  BY OneInvSays
<1>4. QED
  BY <1>1, <1>2, <1>3, PTL DEF Spec
=============================================================================
