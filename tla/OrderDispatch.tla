----------------------------- MODULE OrderDispatch -----------------------------
(***************************************************************************)
(* One order from approval to delivery: accounts (accounts.service.ts),    *)
(* production (production.service.ts, clubbing-sheet.service.ts), sales    *)
(* (orders.service.ts) and dispatch (dispatch.service.ts) all write the    *)
(* same order row and item rows, from different screens, with no lock.     *)
(*                                                                         *)
(* A handler reads the order, checks it, and writes after one or more      *)
(* awaits; what it checked may be stale by then.  Each such handler is a   *)
(* read step that fills a request and a write step that spends it.  A      *)
(* transaction's writes are one step: they all touch the order row, and    *)
(* Postgres holds that row until the commit.  At READ COMMITTED a plain    *)
(* read inside a transaction takes no lock, so a transaction that reads    *)
(* and then writes is two steps.  A handler whose check fails changes      *)
(* nothing and has no step here.                                           *)
(*                                                                         *)
(* Abstracted: PROCESSING is PRINTING; a quoted courier charge is the      *)
(* number of the submission that quoted it (0 for none); a parcel is       *)
(* delivered or not; the courier's live answer is whether the parcel is    *)
(* in gone.  Sample orders, upsells (new items) and money are elsewhere.   *)
(***************************************************************************)
EXTENDS Integers, FiniteSets

CONSTANTS
  Items,        \* the items of the order
  Reqs,         \* handles of requests in flight: the bound on concurrency
  Settings,     \* the settings a behaviour can be in (see setting)
  MaxParcels,   \* bound on the parcels booked in a behaviour
  MaxQuotes,    \* bound on the submissions that quote a courier charge
  NoRequest     \* no cancellation is requested

AllHandlers ==
  {"approveOrder", "returnToAccounts", "rejectOrder", "category", "stage", "sheet",
   "submit", "submitAll", "approveDispatch", "rejectDispatch", "cancellation",
   "book", "transport", "direct", "manual", "deliver", "sync", "return"}

Statuses ==
  {"PENDING_APPROVAL", "APPROVED", "IN_PRODUCTION", "READY_FOR_DISPATCH",
   "PENDING_DISPATCH_APPROVAL", "PARTIALLY_DISPATCHED", "DISPATCHED",
   "DELIVERED", "CANCELLED"}
Stages == {"NOT_PRINTED", "PRINTING", "READY_FOR_DISPATCH"}

(* approveDispatch, and a returnToQueue by hand of an order that waits for *)
(* accounts.                                                               *)
Approvers == {"accounts", "return"}

(* How a parcel left: through Bigship, through another courier's API, by   *)
(* a transporter, by hand, or entered by hand for a courier.               *)
Kinds == {"BIGSHIP", "COURIER", "TRANSPORT", "DIRECT", "MANUAL"}
ApiKinds == {"BIGSHIP", "COURIER"}
Parcels == [no : 1..MaxParcels, kind : Kinds, items : SUBSET Items,
            charge : Nat, delivered : BOOLEAN]

ASSUME OrderDispatchAssumption ==
  /\ Items # {} /\ IsFiniteSet(Items)
  /\ MaxParcels \in Nat /\ MaxQuotes \in Nat
  /\ Settings \subseteq [inTurn : BOOLEAN, handlers : SUBSET AllHandlers,
                         parcels : 0..MaxParcels, quotes : 0..MaxQuotes]
  /\ \A S \in SUBSET Items : S # NoRequest

VARIABLES
  setting,     \* who works on the order, fixed for a behaviour: the handlers in use, whether
               \* a handler waits for the one before it, how many parcels and quotes
  status,      \* Order.status
  pending,     \* Order.pendingDispatchItemIds
  quote,       \* Order.courierChargeQuoted
  cancelReq,   \* Order.cancellationRequestedAt and pendingCancelItemIds ({}: the whole order)
  approvals,   \* who wrote a StatusLog row from PENDING_DISPATCH_APPROVAL to READY_FOR_DISPATCH,
               \* which is what the handlers look for as accounts' approval of a dispatch
  stage,       \* OrderItem.itemProductionStage
  cancelled,   \* items with cancelledAt
  dispatched,  \* items with dispatchedAt
  parcels,     \* the Shipment rows
  made,        \* shipment rows ever created; the largest "no" is the latest parcel
  gone,        \* Bigship parcels cancelled at Bigship
  confirmed,   \* bookings the couriers have confirmed
  quotes,      \* submissions that quoted a charge so far
  req          \* the requests in flight

orderRow == <<status, pending, quote, cancelReq, approvals, quotes>>
itemRows == <<stage, cancelled, dispatched>>
courier == <<parcels, made, gone, confirmed>>
vars == <<setting, status, pending, quote, cancelReq, approvals, quotes,
          stage, cancelled, dispatched, parcels, made, gone, confirmed, req>>

Pcs == {"idle", "approveOrder", "returnToAccounts", "category", "stage", "rollup",
        "submit", "submitAll", "approveDispatch", "rejectDispatch", "cancel",
        "book", "booked", "bookTx", "transport", "direct", "manual", "manualTx",
        "autoReturn", "return"}
(* What a request remembers: the ids its caller named, the items it chose, *)
(* a status and a stage it read or will write, and a number (the quote it  *)
(* took, or the parcel it looked at).                                      *)
Requests == [pc : Pcs, ids : SUBSET Items, items : SUBSET Items,
             status : Statuses, stage : Stages, n : Nat]
Call(pc, ids, chosen, s, g, n) ==
  [pc |-> pc, ids |-> ids, items |-> chosen, status |-> s, stage |-> g, n |-> n]
Idle == Call("idle", {}, {}, "PENDING_APPROVAL", "NOT_PRINTED", 0)

Init ==
  /\ setting \in Settings
  /\ status = "PENDING_APPROVAL" /\ pending = {} /\ quote = 0
  /\ cancelReq = NoRequest /\ approvals = {} /\ quotes = 0
  /\ stage = [i \in Items |-> "NOT_PRINTED"] /\ cancelled = {} /\ dispatched = {}
  /\ parcels = {} /\ made = 0 /\ gone = {} /\ confirmed = 0
  /\ req = [r \in Reqs |-> Idle]

------------------------------------------------------------------------------
At(r, pc) == req[r].pc = pc
Start(r, handler, call) ==
  /\ handler \in setting.handlers
  /\ At(r, "idle")
  /\ setting.inTurn => \A q \in Reqs : At(q, "idle")
  /\ req' = [req EXCEPT ![r] = call]
  /\ UNCHANGED <<orderRow, itemRows, courier>>
Goto(r, pc, s, n) ==
  req' = [req EXCEPT ![r] = Call(pc, req[r].ids, req[r].items, s, req[r].stage, n)]
Done(r) == req' = [req EXCEPT ![r] = Idle]
(* A request that remembers nothing but that its check passed.             *)
Checked(pc) == Call(pc, {}, {}, status, "NOT_PRINTED", 0)

(* What the handlers make of the log: some row reads as an approval.       *)
Approved == approvals # {}

Ready == {i \in Items : stage[i] = "READY_FOR_DISPATCH"}

------------------------------------------------------------------------------
(* Accounts: each handler checks the status and then writes it.            *)
ApproveOrderCheck(r) ==
  status = "PENDING_APPROVAL" /\ Start(r, "approveOrder", Checked("approveOrder"))
ApproveOrder(r) ==
  /\ At(r, "approveOrder") /\ Done(r)
  /\ status' = "APPROVED"
  /\ UNCHANGED <<pending, quote, cancelReq, approvals, quotes, itemRows, courier>>

ReturnToAccountsCheck(r) ==
  /\ status \in {"APPROVED", "IN_PRODUCTION"}
  /\ Start(r, "returnToAccounts", Checked("returnToAccounts"))
ReturnToAccounts(r) ==
  /\ At(r, "returnToAccounts") /\ Done(r)
  /\ status' = "PENDING_APPROVAL"
  /\ UNCHANGED <<pending, quote, cancelReq, approvals, quotes, itemRows, courier>>

(* rejectOrder looks at nothing.                                           *)
RejectOrder ==
  /\ "rejectOrder" \in setting.handlers
  /\ status' = "CANCELLED"
  /\ UNCHANGED <<pending, quote, cancelReq, approvals, quotes, itemRows, courier, req>>

ApproveDispatchCheck(r) ==
  /\ status = "PENDING_DISPATCH_APPROVAL"
  /\ Start(r, "approveDispatch", Checked("approveDispatch"))
ApproveDispatch(r) ==
  /\ At(r, "approveDispatch") /\ Done(r)
  /\ status' = "READY_FOR_DISPATCH"
  /\ approvals' = approvals \cup {"accounts"}
  /\ UNCHANGED <<pending, quote, cancelReq, quotes, itemRows, courier>>

RejectDispatchCheck(r) ==
  /\ status = "PENDING_DISPATCH_APPROVAL"
  /\ Start(r, "rejectDispatch", Checked("rejectDispatch"))
RejectDispatch(r) ==
  /\ At(r, "rejectDispatch") /\ Done(r)
  /\ status' = "APPROVED"
  /\ pending' = {}
  /\ UNCHANGED <<quote, cancelReq, approvals, quotes, itemRows, courier>>

------------------------------------------------------------------------------
(* Production.  Assigning a category moves an approved order on.           *)
AssignCategoryRead(r) ==
  status = "APPROVED" /\ Start(r, "category", Checked("category"))
AssignCategory(r) ==
  /\ At(r, "category") /\ Done(r)
  /\ status' = "IN_PRODUCTION"
  /\ UNCHANGED <<pending, quote, cancelReq, approvals, quotes, itemRows, courier>>

(* updateItemStage reads the item with its order, ...                      *)
UpdateItemStageRead(r) ==
  \E i \in Items \ cancelled, g \in Stages :
    Start(r, "stage", Call("stage", {}, {i}, status, g, 0))

(* Mutated form: without the test that the order is still in production.   *)
Rollup_AnyStatus(seen, stages) ==
  IF \A i \in Items : stages[i] = "READY_FOR_DISPATCH" THEN "READY_FOR_DISPATCH"
  ELSE IF \E i \in Items : stages[i] # "NOT_PRINTED" THEN "IN_PRODUCTION"
  ELSE seen
(* The order status the stages call for, given the status read before.     *)
Rollup(seen, stages) ==
  IF seen \notin {"APPROVED", "IN_PRODUCTION"} THEN seen
  ELSE IF \A i \in Items : stages[i] = "READY_FOR_DISPATCH" THEN "READY_FOR_DISPATCH"
  ELSE IF \E i \in Items : stages[i] # "NOT_PRINTED" THEN "IN_PRODUCTION"
  ELSE seen
(* Mutated form: an OrderStatus is written where a stage belongs.          *)
UpdateItemStage_WritesStatus(r) ==
  /\ At(r, "stage") /\ Done(r)
  /\ stage' = [i \in Items |-> IF i \in req[r].items THEN req[r].status ELSE stage[i]]
  /\ UNCHANGED <<orderRow, cancelled, dispatched, courier>>
(* ... writes the item's stage and reads all of them, ...                  *)
UpdateItemStage(r) ==
  /\ At(r, "stage")
  /\ stage' = [i \in Items |-> IF i \in req[r].items THEN req[r].stage ELSE stage[i]]
  /\ IF Rollup(req[r].status, stage') = req[r].status THEN Done(r)
     ELSE Goto(r, "rollup", Rollup(req[r].status, stage'), 0)
  /\ UNCHANGED <<orderRow, cancelled, dispatched, courier>>

(* ... and writes the order's status when that differs from the one read.  *)
WriteRollup(r) ==
  /\ At(r, "rollup") /\ Done(r)
  /\ status' = req[r].status
  /\ UNCHANGED <<pending, quote, cancelReq, approvals, quotes, itemRows, courier>>

(* A sheet changes status: every item on it takes the sheet's stage, in    *)
(* any order status, and nothing is rolled up.  A cancelled item has been  *)
(* taken off its sheets.  The sheet's rows are read and written in one     *)
(* step: what a cancellation in between would do is not modelled.          *)
UpdateSheetStatus ==
  /\ "sheet" \in setting.handlers
  /\ \E onSheet \in SUBSET (Items \ cancelled) \ {{}}, g \in Stages :
       stage' = [i \in Items |-> IF i \in onSheet THEN g ELSE stage[i]]
  /\ UNCHANGED <<orderRow, cancelled, dispatched, courier, req>>

------------------------------------------------------------------------------
(* Cancellation: sales asks, accounts approves or rejects.                 *)
RequestCancellation ==
  /\ "cancellation" \in setting.handlers
  /\ status \notin {"CANCELLED", "DISPATCHED", "DELIVERED"}
  /\ cancelReq = NoRequest
  /\ \E S \in SUBSET Items :
       /\ \A i \in IF S = {} THEN Items ELSE S :
            stage[i] = "NOT_PRINTED" /\ i \notin cancelled
       /\ cancelReq' = S
  /\ UNCHANGED <<status, pending, quote, approvals, quotes, itemRows, courier, req>>

RejectCancellation ==
  /\ "cancellation" \in setting.handlers
  /\ cancelReq # NoRequest
  /\ cancelReq' = NoRequest
  /\ UNCHANGED <<status, pending, quote, approvals, quotes, itemRows, courier, req>>

ApproveCancellationCheck(r) ==
  /\ cancelReq # NoRequest
  /\ LET target == IF cancelReq = {} THEN Items ELSE cancelReq
     IN /\ \A i \in target : stage[i] = "NOT_PRINTED"
        /\ Start(r, "cancellation", Call("cancel", cancelReq, target, status, "NOT_PRINTED", 0))
ApproveCancellation(r) ==
  /\ At(r, "cancel") /\ Done(r)
  /\ cancelled' = cancelled \cup req[r].items
  /\ cancelReq' = NoRequest
  /\ status' = IF req[r].ids = {} THEN "CANCELLED" ELSE status
  /\ UNCHANGED <<pending, quote, approvals, quotes, stage, dispatched, courier>>

------------------------------------------------------------------------------
(* Sales submits ready items for accounts to approve.                      *)
Submittable == {"APPROVED", "IN_PRODUCTION", "READY_FOR_DISPATCH",
                "PARTIALLY_DISPATCHED", "PENDING_DISPATCH_APPROVAL", "DISPATCHED"}

(* resolveLockedItemIds.  A DISPATCHED order locks every item that is not  *)
(* newer than its latest parcel, and every item when it has none: here,    *)
(* where no item is added later, all of them.                              *)
Locked ==
  IF status = "DISPATCHED" THEN Items
  ELSE IF pending # {} THEN pending
  ELSE IF status = "PENDING_DISPATCH_APPROVAL" THEN Items
  ELSE {}

(* Mutated form: the new list replaces the old one.                        *)
SubmitDispatchBatchRead_Overwrites(r) ==
  /\ status \in Submittable
  /\ ~ (status = "READY_FOR_DISPATCH" /\ pending = {} /\ Approved)
  /\ \E S \in SUBSET (Ready \ (dispatched \cup Locked)) \ {{}} :
       Start(r, "submit", Call("submit", S, S, status, "NOT_PRINTED", 0))
(* The request's ids are the list to write: the one read, merged.          *)
SubmitDispatchBatchRead(r) ==
  /\ status \in Submittable
  /\ ~ (status = "READY_FOR_DISPATCH" /\ pending = {} /\ Approved)
  /\ \E S \in SUBSET (Ready \ (dispatched \cup Locked)) \ {{}} :
       Start(r, "submit", Call("submit", pending \cup S, S, status, "NOT_PRINTED", 0))
(* The charge the seller typed, or none; it replaces the quote there was.  *)
Quote ==
  \/ quote' = 0 /\ UNCHANGED quotes
  \/ quotes < setting.quotes /\ quotes' = quotes + 1 /\ quote' = quotes + 1

SubmitDispatchBatch(r) ==
  /\ At(r, "submit") /\ Done(r)
  /\ status' = "PENDING_DISPATCH_APPROVAL"
  /\ pending' = req[r].ids
  /\ Quote
  /\ UNCHANGED <<cancelReq, approvals, itemRows, courier>>

(* submitForDispatch, the older endpoint for a whole order.                *)
SubmitForDispatchCheck(r) ==
  /\ status = "READY_FOR_DISPATCH" /\ Ready # {}
  /\ Start(r, "submitAll", Checked("submitAll"))
SubmitForDispatch(r) ==
  /\ At(r, "submitAll") /\ Done(r)
  /\ status' = "PENDING_DISPATCH_APPROVAL"
  /\ Quote
  /\ UNCHANGED <<pending, cancelReq, approvals, itemRows, courier>>

------------------------------------------------------------------------------
(* Dispatch.                                                               *)
(* Mutated form: without the look-up of accounts' approval.                *)
CanDispatch_StatusOnly == status \in {"READY_FOR_DISPATCH", "PARTIALLY_DISPATCHED"}
CanDispatch == status \in {"READY_FOR_DISPATCH", "PARTIALLY_DISPATCHED"} /\ Approved

(* Mutated form: the items still in production are forgotten.              *)
NextOrderStatus_ReadyOnly(ids) ==
  IF Ready \subseteq ids \cup dispatched
  THEN "DISPATCHED" ELSE "PARTIALLY_DISPATCHED"
(* nextOrderStatusAfterDispatch.                                           *)
NextOrderStatus(ids) ==
  IF Ready = Items /\ Items \subseteq ids \cup dispatched
  THEN "DISPATCHED" ELSE "PARTIALLY_DISPATCHED"

(* Mutated form: without the filter on dispatchedAt.                       *)
ToDispatch_ShippedToo(ids) == ids \cap Ready
ToDispatch(ids) == (ids \cap Ready) \ dispatched

(* The new parcel: chosen items, and the quote on a courier's parcel.      *)
NewParcel(kind, chosen, n) ==
  /\ made < setting.parcels
  /\ made' = made + 1
  /\ parcels' = parcels \cup {[no |-> made + 1, kind |-> kind, items |-> chosen,
                               charge |-> n, delivered |-> FALSE]}
Ship(r, kind, n) ==
  /\ NewParcel(kind, req[r].items, n)
  /\ dispatched' = dispatched \cup req[r].items
  /\ status' = req[r].status

(* bookItems: read and check, then ask the courier, ...                    *)
BookItemsRead(r) ==
  /\ CanDispatch
  /\ \E ids \in SUBSET Items :
       /\ ToDispatch(ids) # {}
       /\ Start(r, "book", Call("book", ids, ToDispatch(ids), status, "NOT_PRINTED", 0))
CourierConfirms(r) ==
  /\ At(r, "book") /\ Goto(r, "booked", status, 0)
  /\ confirmed < setting.parcels
  /\ confirmed' = confirmed + 1
  /\ UNCHANGED <<orderRow, itemRows, parcels, made, gone>>
CourierRefuses(r) ==
  /\ At(r, "book") /\ Done(r)
  /\ UNCHANGED <<orderRow, itemRows, courier>>
(* ... then, in the transaction, read the quote and the items again, ...   *)
BookItemsTx(r) ==
  /\ At(r, "booked")
  /\ Goto(r, "bookTx", NextOrderStatus(req[r].ids), quote)
  /\ UNCHANGED <<orderRow, itemRows, courier>>
(* Mutated form: the quote stays on the order.                             *)
BookItems_KeepsQuote(r) ==
  /\ At(r, "bookTx") /\ Done(r)
  /\ \E kind \in ApiKinds : Ship(r, kind, req[r].n)
  /\ UNCHANGED <<pending, quote, cancelReq, approvals, quotes, stage, cancelled, gone, confirmed>>
(* ... and write everything.                                               *)
BookItems(r) ==
  /\ At(r, "bookTx") /\ Done(r)
  /\ \E kind \in ApiKinds : Ship(r, kind, req[r].n)
  /\ quote' = IF req[r].n # 0 THEN 0 ELSE quote
  /\ UNCHANGED <<pending, cancelReq, approvals, quotes, stage, cancelled, gone, confirmed>>
(* bookTransport and sendDirectOtp: the new status comes from the read     *)
(* before the transaction, and the quote is left where it is.              *)
HandOverRead(r, pc) ==
  /\ CanDispatch
  /\ \E ids \in SUBSET Items :
       /\ ToDispatch(ids) # {}
       /\ Start(r, pc, Call(pc, ids, ToDispatch(ids), NextOrderStatus(ids), "NOT_PRINTED", 0))
HandOver(r, pc, kind) ==
  /\ At(r, pc) /\ Done(r)
  /\ Ship(r, kind, 0)
  /\ UNCHANGED <<pending, quote, cancelReq, approvals, quotes, stage, cancelled, gone, confirmed>>
BookTransportRead(r) == HandOverRead(r, "transport")
BookTransport(r) == HandOver(r, "transport", "TRANSPORT")
SendDirectOtpRead(r) == HandOverRead(r, "direct")
SendDirectOtp(r) == HandOver(r, "direct", "DIRECT")

(* markManuallyDispatched: any order status; the listed items only, when   *)
(* there is a list.                                                        *)
MarkManuallyDispatchedRead(r) ==
  LET chosen == ToDispatch(IF pending = {} THEN Items ELSE pending)
  IN /\ chosen # {}
     /\ Start(r, "manual", Call("manual", chosen, chosen, NextOrderStatus(chosen), "NOT_PRINTED", 0))
MarkManuallyDispatchedTx(r) ==
  /\ At(r, "manual")
  /\ Goto(r, "manualTx", req[r].status, quote)
  /\ UNCHANGED <<orderRow, itemRows, courier>>
MarkManuallyDispatched(r) ==
  /\ At(r, "manualTx") /\ Done(r)
  /\ Ship(r, "MANUAL", req[r].n)
  /\ quote' = IF req[r].n # 0 THEN 0 ELSE quote
  /\ UNCHANGED <<pending, cancelReq, approvals, quotes, stage, cancelled, gone, confirmed>>

------------------------------------------------------------------------------
(* After the parcel has left.                                              *)
Deliver(p) == parcels' = (parcels \ {p}) \cup {[p EXCEPT !.delivered = TRUE]}

(* markDelivered, and the import of the courier's delivery report.         *)
MarkDelivered ==
  /\ "deliver" \in setting.handlers
  /\ \E p \in parcels : ~ p.delivered /\ Deliver(p)
  /\ status' = "DELIVERED"
  /\ UNCHANGED <<pending, quote, cancelReq, approvals, quotes, itemRows, made, gone, confirmed, req>>

(* verifyDirectOtp: the latest hand-over still on the road.                *)
VerifyDirectOtp ==
  /\ "deliver" \in setting.handlers
  /\ \E p \in parcels :
       /\ p.kind = "DIRECT" /\ ~ p.delivered
       /\ \A q \in parcels : q.kind = "DIRECT" /\ ~ q.delivered => q.no <= p.no
       /\ Deliver(p)
  /\ status' = "DELIVERED"
  /\ UNCHANGED <<pending, quote, cancelReq, approvals, quotes, itemRows, made, gone, confirmed, req>>

(* Somebody cancels a parcel at Bigship.                                   *)
BigshipCancels ==
  /\ \E p \in parcels : p.kind = "BIGSHIP" /\ gone' = gone \cup {p.no}
  /\ UNCHANGED <<orderRow, itemRows, parcels, made, confirmed, req>>

(* syncShipmentFromBigship: copies the live status on the parcel only, ... *)
SyncShipmentFromBigship ==
  /\ "sync" \in setting.handlers
  /\ \E p \in parcels, d \in BOOLEAN :
       /\ p.kind = "BIGSHIP" /\ p.no \notin gone
       /\ parcels' = (parcels \ {p}) \cup {[p EXCEPT !.delivered = d]}
  /\ UNCHANGED <<orderRow, itemRows, made, gone, confirmed, req>>

(* ... or, when Bigship cancelled it, puts the order back in the queue.    *)
AutoReturnRead(r) ==
  /\ status \in {"DISPATCHED", "PARTIALLY_DISPATCHED"}
  /\ \E p \in parcels :
       /\ p.kind = "BIGSHIP" /\ p.no \in gone
       /\ Start(r, "sync", Call("autoReturn", {}, {}, status, "NOT_PRINTED", p.no))

(* returnToQueue: the latest parcel, which Bigship must have cancelled if  *)
(* it is Bigship's; without a parcel nothing is asked.                     *)
ReturnToQueueRead(r) ==
  \/ /\ parcels = {}
     /\ Start(r, "return", Call("return", {}, {}, status, "NOT_PRINTED", 0))
  \/ \E p \in parcels :
       /\ \A q \in parcels : q.no <= p.no
       /\ p.kind = "BIGSHIP" => p.no \in gone
       /\ Start(r, "return", Call("return", {}, {}, status, "NOT_PRINTED", p.no))

(* Mutated form: dispatchedAt is not cleared.                              *)
Requeue_KeepsDispatchedAt ==
  /\ stage' = [i \in Items |-> "READY_FOR_DISPATCH"]
  /\ status' = "READY_FOR_DISPATCH"
  /\ UNCHANGED dispatched
(* Mutated form: the order keeps its status.                               *)
Requeue_KeepsStatus ==
  /\ stage' = [i \in Items |-> "READY_FOR_DISPATCH"]
  /\ dispatched' = {}
  /\ UNCHANGED status
(* Both end the same way: that parcel is deleted, every item of the order  *)
(* is ready and undispatched again, and the status read first is logged as *)
(* what the order comes from.  The deletion of a parcel that is no longer  *)
(* there aborts the transaction.                                           *)
Requeue ==
  /\ stage' = [i \in Items |-> "READY_FOR_DISPATCH"]
  /\ dispatched' = {}
  /\ status' = "READY_FOR_DISPATCH"
LogReturn(r) ==
  approvals' = IF req[r].status = "PENDING_DISPATCH_APPROVAL"
               THEN approvals \cup {"return"} ELSE approvals
ReturnToQueue(r) ==
  /\ req[r].pc \in {"autoReturn", "return"} /\ Done(r)
  /\ \/ /\ req[r].n = 0
        /\ Requeue /\ LogReturn(r)
        /\ UNCHANGED parcels
     \/ \E p \in parcels :
          /\ p.no = req[r].n
          /\ parcels' = parcels \ {p}
          /\ Requeue /\ LogReturn(r)
     \/ /\ req[r].n # 0 /\ \A p \in parcels : p.no # req[r].n
        /\ UNCHANGED <<status, stage, dispatched, parcels, approvals>>
  /\ UNCHANGED <<pending, quote, cancelReq, quotes, cancelled, made, gone, confirmed>>

------------------------------------------------------------------------------
(* A request ends half way: an error, or the process restarts.  What it    *)
(* has written stays, and the courier keeps a booking it confirmed.        *)
Fails(r) ==
  /\ ~ At(r, "idle") /\ Done(r)
  /\ UNCHANGED <<orderRow, itemRows, courier>>

Accounts(r) ==
  \/ ApproveOrderCheck(r) \/ ApproveOrder(r)
  \/ ReturnToAccountsCheck(r) \/ ReturnToAccounts(r)
  \/ ApproveDispatchCheck(r) \/ ApproveDispatch(r)
  \/ RejectDispatchCheck(r) \/ RejectDispatch(r)
  \/ ApproveCancellationCheck(r) \/ ApproveCancellation(r)
Production(r) ==
  \/ AssignCategoryRead(r) \/ AssignCategory(r)
  \/ UpdateItemStageRead(r) \/ UpdateItemStage(r) \/ WriteRollup(r)
Sales(r) ==
  \/ SubmitDispatchBatchRead(r) \/ SubmitDispatchBatch(r)
  \/ SubmitForDispatchCheck(r) \/ SubmitForDispatch(r)
Booking(r) ==
  \/ BookItemsRead(r) \/ CourierConfirms(r) \/ CourierRefuses(r)
  \/ BookItemsTx(r) \/ BookItems(r)
  \/ BookTransportRead(r) \/ BookTransport(r)
  \/ SendDirectOtpRead(r) \/ SendDirectOtp(r)
  \/ MarkManuallyDispatchedRead(r) \/ MarkManuallyDispatchedTx(r) \/ MarkManuallyDispatched(r)
  \/ AutoReturnRead(r) \/ ReturnToQueueRead(r) \/ ReturnToQueue(r)
OneStep ==
  \/ RejectOrder \/ UpdateSheetStatus
  \/ RequestCancellation \/ RejectCancellation
  \/ MarkDelivered \/ VerifyDirectOtp
  \/ BigshipCancels \/ SyncShipmentFromBigship

Next ==
  /\ UNCHANGED setting
  /\ \/ \E r \in Reqs : Accounts(r) \/ Production(r) \/ Sales(r) \/ Booking(r) \/ Fails(r)
     \/ OneStep

Spec == Init /\ [][Next]_vars

------------------------------------------------------------------------------
(* Every variable keeps its type; in particular a request never holds a    *)
(* parcel or a quote that was not there.                                   *)
TypeOK ==
  /\ setting \in Settings
  /\ status \in Statuses /\ pending \subseteq Items /\ quote \in 0..MaxQuotes
  /\ cancelReq = NoRequest \/ cancelReq \subseteq Items
  /\ approvals \subseteq Approvers
  /\ quotes \in 0..MaxQuotes
  /\ stage \in [Items -> Stages] /\ cancelled \subseteq Items /\ dispatched \subseteq Items
  /\ parcels \subseteq Parcels /\ made \in 0..MaxParcels
  /\ gone \subseteq 1..MaxParcels /\ confirmed \in 0..MaxParcels
  /\ req \in [Reqs -> Requests]

(* An item marked as dispatched is in some parcel, so that somebody can    *)
(* say where it is: a parcel's deletion by returnToQueue or by a Bigship   *)
(* cancellation takes the mark off, whatever was booked meanwhile          *)
(* (dispatch.service.ts:2151, 2426).                                       *)
ShippedHaveAParcel == dispatched \subseteq UNION {p.items : p \in parcels}

(* An order that reads as shipped or delivered has a parcel: no handler    *)
(* that deletes one leaves that status behind, and no stale write brings   *)
(* it back (dispatch.service.ts:2149-2156, 2420-2431).                     *)
OnTheRoadHasAParcel ==
  status \in {"PARTIALLY_DISPATCHED", "DISPATCHED", "DELIVERED"} => parcels # {}

(* A parcel booked with a courier, a transporter or by hand means accounts *)
(* approved a dispatch of this order (assertCanDispatch, "Sales must       *)
(* submit dispatch payment details and accounts must approve before        *)
(* booking"), although every handler acts on an approval it looked up      *)
(* before its awaits; unless somebody returned the order to the queue      *)
(* while it waited for accounts, which logs the same row (dispatch.        *)
(* service.ts:2388-2440 asks for no status).                               *)
ParcelsNeedApproval ==
  (\E p \in parcels : p.kind # "MANUAL") => "accounts" \in approvals \/ "return" \in approvals

(* An item in a parcel Bigship still carries is not offered again          *)
(* (returnToQueue's safety check, dispatch.service.ts:2378-2383).          *)
LiveParcelsStayShipped ==
  \A p \in parcels : p.kind = "BIGSHIP" /\ p.no \notin gone => p.items \subseteq dispatched

(* The properties below are about handlers that follow each other, each    *)
(* whole or interrupted half-way; the one-step handlers still come in      *)
(* between.  README.md says what an overlap does to them.                  *)
NothingPutBack == setting.handlers \cap {"sync", "return"} = {}

(* No item is in two parcels, while none is put back in the queue (the     *)
(* dispatchedAt filters, dispatch.service.ts:1114-1118, 1750-1754,         *)
(* 1851-1855, 2283-2286).                                                  *)
NoItemShippedTwice ==
  setting.inTurn /\ NothingPutBack =>
    \A p, q \in parcels : p # q => p.items \cap q.items = {}

(* The charge a seller quoted lands on one parcel at most, so the customer *)
(* is billed once (bookItems, dispatch.service.ts:1599-1605), however many *)
(* parcels the submission travels in.                                      *)
QuoteTakenOnce ==
  setting.inTurn =>
    \A p, q \in parcels : p.charge # 0 /\ p.charge = q.charge => p = q

(* While an order waits for accounts, an item that was submitted stays on  *)
(* the list accounts sees (submitDispatchBatch merges the list,            *)
(* orders.service.ts:2320-2333).                                           *)
AwaitingStaysListed ==
  [][/\ setting.inTurn
     /\ status = "PENDING_DISPATCH_APPROVAL" /\ status' = "PENDING_DISPATCH_APPROVAL"
     => pending \subseteq pending']_vars

(* Production never takes a submitted order back to IN_PRODUCTION          *)
(* (updateItemStage's comment, production.service.ts:343-353).             *)
ProductionLeavesSubmitted ==
  [][setting.inTurn /\ status = "PENDING_DISPATCH_APPROVAL"
       => status' # "IN_PRODUCTION"]_vars

(* A step that ships items leaves the order DISPATCHED exactly when every  *)
(* item is finished and shipped (nextOrderStatusAfterDispatch; "DISPATCHED *)
(* only once every item has shipped", manual-dispatch-partial.spec.ts:7),  *)
(* while no sheet changes a stage in the middle of a booking.              *)
DispatchedWhenAllShipped ==
  [][setting.inTurn /\ "sheet" \notin setting.handlers /\ dispatched' # dispatched =>
       (status' = "DISPATCHED") = (dispatched' = Items /\ Ready = Items)]_vars
=============================================================================
