-------------------------- MODULE OrderDispatch_proof --------------------------
(***************************************************************************)
(* Proofs about OrderDispatch for any set of items, any number of          *)
(* requests and any setting.                                               *)
(*                                                                         *)
(* TypeOK is inductive.  The other invariants are not: a request between   *)
(* its check and its write carries part of the argument.  What it carries  *)
(* through every overlap is InFlight, and with it three invariants are     *)
(* proved of every setting.  What it carries when no other request is in   *)
(* flight is Knows, and with it the properties of handlers in turn are.    *)
(***************************************************************************)
EXTENDS OrderDispatch, TLAPS

------------------------------------------------------------------------------
(* Requests.                                                               *)

LEMMA CallType ==
  ASSUME NEW pc \in Pcs, NEW ids \in SUBSET Items, NEW chosen \in SUBSET Items,
         NEW s \in Statuses, NEW g \in Stages, NEW n \in Nat
  PROVE  Call(pc, ids, chosen, s, g, n) \in Requests
BY DEF Call, Requests

LEMMA IdleType == Idle \in Requests
BY CallType DEF Idle, Pcs, Statuses, Stages

LEMMA StartType ==
  ASSUME TypeOK, UNCHANGED setting, NEW r \in Reqs, NEW h, NEW call \in Requests,
         Start(r, h, call)
  PROVE  TypeOK'
<1>1. req' \in [Reqs -> Requests]
  BY DEF TypeOK, Start
<1>2. QED
  BY <1>1 DEF TypeOK, Start, orderRow, itemRows, courier

LEMMA DoneType ==
  ASSUME TypeOK, NEW r \in Reqs, Done(r)
  PROVE  req' \in [Reqs -> Requests]
BY IdleType DEF TypeOK, Done

LEMMA GotoType ==
  ASSUME TypeOK, NEW r \in Reqs, NEW pc \in Pcs, NEW s \in Statuses, NEW n \in Nat,
         Goto(r, pc, s, n)
  PROVE  req' \in [Reqs -> Requests]
<1>1. req[r] \in Requests
  BY DEF TypeOK
<1>2. Call(pc, req[r].ids, req[r].items, s, req[r].stage, n) \in Requests
  BY <1>1, CallType DEF Requests
<1>3. QED
  BY <1>2 DEF TypeOK, Goto

LEMMA CheckedType ==
  ASSUME TypeOK, NEW pc \in Pcs
  PROVE  Checked(pc) \in Requests
BY CallType DEF TypeOK, Checked, Stages

(* The fields of a request in flight.                                      *)
LEMMA FieldTypes ==
  ASSUME TypeOK, NEW r \in Reqs
  PROVE  /\ req[r].pc \in Pcs /\ req[r].ids \subseteq Items /\ req[r].items \subseteq Items
         /\ req[r].status \in Statuses /\ req[r].stage \in Stages /\ req[r].n \in Nat
BY DEF TypeOK, Requests

------------------------------------------------------------------------------
(* TypeOK, one group of actions at a time.                                 *)

LEMMA ChecksType ==
  ASSUME TypeOK, UNCHANGED setting, NEW r \in Reqs,
         \/ ApproveOrderCheck(r) \/ ReturnToAccountsCheck(r) \/ ApproveDispatchCheck(r)
         \/ RejectDispatchCheck(r) \/ AssignCategoryRead(r) \/ SubmitForDispatchCheck(r)
  PROVE  TypeOK'
<1>1. CASE ApproveOrderCheck(r)
  BY <1>1, CheckedType, StartType DEF ApproveOrderCheck, Pcs
<1>2. CASE ReturnToAccountsCheck(r)
  BY <1>2, CheckedType, StartType DEF ReturnToAccountsCheck, Pcs
<1>3. CASE ApproveDispatchCheck(r)
  BY <1>3, CheckedType, StartType DEF ApproveDispatchCheck, Pcs
<1>4. CASE RejectDispatchCheck(r)
  BY <1>4, CheckedType, StartType DEF RejectDispatchCheck, Pcs
<1>5. CASE AssignCategoryRead(r)
  BY <1>5, CheckedType, StartType DEF AssignCategoryRead, Pcs
<1>6. CASE SubmitForDispatchCheck(r)
  BY <1>6, CheckedType, StartType DEF SubmitForDispatchCheck, Pcs
<1>7. QED
  BY <1>1, <1>2, <1>3, <1>4, <1>5, <1>6

LEMMA NextOrderStatusType ==
  ASSUME NEW ids
  PROVE  NextOrderStatus(ids) \in {"DISPATCHED", "PARTIALLY_DISPATCHED"}
BY DEF NextOrderStatus

LEMMA HandOverReadType ==
  ASSUME TypeOK, UNCHANGED setting, NEW r \in Reqs, NEW pc \in Pcs, HandOverRead(r, pc)
  PROVE  TypeOK'
<1>1. PICK ids \in SUBSET Items :
        Start(r, pc, Call(pc, ids, ToDispatch(ids), NextOrderStatus(ids), "NOT_PRINTED", 0))
  BY DEF HandOverRead
<1>2. NextOrderStatus(ids) \in Statuses
  BY NextOrderStatusType DEF Statuses
<1>3. ToDispatch(ids) \subseteq Items
  BY DEF ToDispatch
<1>4. Call(pc, ids, ToDispatch(ids), NextOrderStatus(ids), "NOT_PRINTED", 0) \in Requests
  BY <1>2, <1>3, CallType DEF Stages
<1>5. QED
  BY <1>1, <1>4, StartType

LEMMA ReadsType ==
  ASSUME TypeOK, UNCHANGED setting, NEW r \in Reqs,
         \/ UpdateItemStageRead(r) \/ ApproveCancellationCheck(r) \/ SubmitDispatchBatchRead(r)
         \/ BookItemsRead(r) \/ BookTransportRead(r) \/ SendDirectOtpRead(r)
         \/ MarkManuallyDispatchedRead(r) \/ AutoReturnRead(r) \/ ReturnToQueueRead(r)
  PROVE  TypeOK'
<1> USE DEF Stages
<1>s. status \in Statuses /\ pending \subseteq Items /\ Ready \subseteq Items
  BY DEF TypeOK, Ready
<1>1. CASE UpdateItemStageRead(r)
  <2>1. PICK i \in Items \ cancelled, g \in Stages :
          Start(r, "stage", Call("stage", {}, {i}, status, g, 0))
    BY <1>1 DEF UpdateItemStageRead
  <2>2. Call("stage", {}, {i}, status, g, 0) \in Requests
    BY <1>s, CallType DEF Pcs
  <2>3. QED
    BY <2>1, <2>2, StartType
<1>2. CASE ApproveCancellationCheck(r)
  <2> DEFINE target == IF cancelReq = {} THEN Items ELSE cancelReq
  <2>1. cancelReq \subseteq Items /\ target \subseteq Items
    BY <1>2 DEF ApproveCancellationCheck, TypeOK
  <2>2. Call("cancel", cancelReq, target, status, "NOT_PRINTED", 0) \in Requests
    BY <1>s, <2>1, CallType DEF Pcs
  <2>3. QED
    BY <1>2, <2>2, StartType DEF ApproveCancellationCheck
<1>3. CASE SubmitDispatchBatchRead(r)
  <2>1. PICK S \in SUBSET (Ready \ (dispatched \cup Locked)) :
          Start(r, "submit", Call("submit", pending \cup S, S, status, "NOT_PRINTED", 0))
    BY <1>3 DEF SubmitDispatchBatchRead
  <2>2. Call("submit", pending \cup S, S, status, "NOT_PRINTED", 0) \in Requests
    BY <1>s, CallType DEF Pcs
  <2>3. QED
    BY <2>1, <2>2, StartType
<1>4. CASE BookItemsRead(r)
  <2>1. PICK ids \in SUBSET Items :
          Start(r, "book", Call("book", ids, ToDispatch(ids), status, "NOT_PRINTED", 0))
    BY <1>4 DEF BookItemsRead
  <2>2. Call("book", ids, ToDispatch(ids), status, "NOT_PRINTED", 0) \in Requests
    BY <1>s, CallType DEF Pcs, ToDispatch
  <2>3. QED
    BY <2>1, <2>2, StartType
<1>5. CASE BookTransportRead(r)
  BY <1>5, HandOverReadType DEF BookTransportRead, Pcs
<1>6. CASE SendDirectOtpRead(r)
  BY <1>6, HandOverReadType DEF SendDirectOtpRead, Pcs
<1>7. CASE MarkManuallyDispatchedRead(r)
  <2> DEFINE chosen == ToDispatch(IF pending = {} THEN Items ELSE pending)
  <2>1. chosen \subseteq Items
    BY <1>s DEF ToDispatch
  <2>2. NextOrderStatus(chosen) \in Statuses
    BY NextOrderStatusType DEF Statuses
  <2>3. Call("manual", chosen, chosen, NextOrderStatus(chosen), "NOT_PRINTED", 0) \in Requests
    BY <2>1, <2>2, CallType DEF Pcs
  <2>4. QED
    BY <1>7, <2>3, StartType DEF MarkManuallyDispatchedRead
<1>8. CASE AutoReturnRead(r)
  <2>1. PICK p \in parcels :
          Start(r, "sync", Call("autoReturn", {}, {}, status, "NOT_PRINTED", p.no))
    BY <1>8 DEF AutoReturnRead
  <2>2. p.no \in Nat
    BY DEF TypeOK, Parcels
  <2>3. Call("autoReturn", {}, {}, status, "NOT_PRINTED", p.no) \in Requests
    BY <1>s, <2>2, CallType DEF Pcs
  <2>4. QED
    BY <2>1, <2>3, StartType
<1>9. CASE ReturnToQueueRead(r)
  <2>1. PICK n \in {0} \cup {p.no : p \in parcels} :
          Start(r, "return", Call("return", {}, {}, status, "NOT_PRINTED", n))
    BY <1>9 DEF ReturnToQueueRead
  <2>2. n \in Nat
    BY DEF TypeOK, Parcels
  <2>3. Call("return", {}, {}, status, "NOT_PRINTED", n) \in Requests
    BY <1>s, <2>2, CallType DEF Pcs
  <2>4. QED
    BY <2>1, <2>3, StartType
<1>10. QED
  BY <1>1, <1>2, <1>3, <1>4, <1>5, <1>6, <1>7, <1>8, <1>9

LEMMA OrderWritesType ==
  ASSUME TypeOK, UNCHANGED setting, NEW r \in Reqs,
         \/ ApproveOrder(r) \/ ReturnToAccounts(r) \/ ApproveDispatch(r) \/ RejectDispatch(r)
         \/ AssignCategory(r) \/ ApproveCancellation(r) \/ WriteRollup(r)
         \/ SubmitDispatchBatch(r) \/ SubmitForDispatch(r)
  PROVE  TypeOK'
<1> USE FieldTypes DEF itemRows, courier
<1>1. CASE ApproveOrder(r)
  BY <1>1, DoneType DEF TypeOK, ApproveOrder, Statuses
<1>2. CASE ReturnToAccounts(r)
  BY <1>2, DoneType DEF TypeOK, ReturnToAccounts, Statuses
<1>3. CASE ApproveDispatch(r)
  BY <1>3, DoneType DEF TypeOK, ApproveDispatch, Statuses, Approvers
<1>4. CASE RejectDispatch(r)
  BY <1>4, DoneType DEF TypeOK, RejectDispatch, Statuses
<1>5. CASE AssignCategory(r)
  BY <1>5, DoneType DEF TypeOK, AssignCategory, Statuses
<1>6. CASE ApproveCancellation(r)
  BY <1>6, DoneType DEF TypeOK, ApproveCancellation, Statuses
<1>7. CASE WriteRollup(r)
  BY <1>7, DoneType DEF TypeOK, WriteRollup
<1>8. ASSUME TypeOK, Quote PROVE quote' \in 0..MaxQuotes /\ quotes' \in 0..MaxQuotes
  BY <1>8, OrderDispatchAssumption DEF TypeOK, Quote
<1>9. CASE SubmitDispatchBatch(r)
  BY <1>8, <1>9, DoneType DEF TypeOK, SubmitDispatchBatch, Statuses
<1>10. CASE SubmitForDispatch(r)
  BY <1>8, <1>10, DoneType DEF TypeOK, SubmitForDispatch, Statuses
<1>11. QED
  BY <1>1, <1>2, <1>3, <1>4, <1>5, <1>6, <1>7, <1>9, <1>10

LEMMA RollupType ==
  ASSUME NEW seen \in Statuses, NEW stages
  PROVE  /\ Rollup(seen, stages) \in Statuses
         /\ Rollup(seen, stages) # seen
              => Rollup(seen, stages) \in {"READY_FOR_DISPATCH", "IN_PRODUCTION"}
BY DEF Rollup, Statuses

LEMMA UpdateItemStageType ==
  ASSUME TypeOK, UNCHANGED setting, NEW r \in Reqs, UpdateItemStage(r)
  PROVE  TypeOK'
<1>1. stage' \in [Items -> Stages]
  BY FieldTypes DEF TypeOK, UpdateItemStage
<1>2. Rollup(req[r].status, stage') \in Statuses
  BY FieldTypes, RollupType
<1>3. req' \in [Reqs -> Requests]
  BY <1>2, DoneType, GotoType DEF UpdateItemStage, Pcs
<1>4. QED
  BY <1>1, <1>3 DEF TypeOK, UpdateItemStage, orderRow, courier

LEMMA ShipType ==
  ASSUME TypeOK, NEW r \in Reqs, NEW kind \in Kinds, NEW n \in Nat, Ship(r, kind, n)
  PROVE  /\ parcels' \subseteq Parcels /\ made' \in 0..MaxParcels
         /\ dispatched' \subseteq Items /\ status' \in Statuses
<1>1. made + 1 \in 1..MaxParcels
  BY OrderDispatchAssumption DEF TypeOK, Ship, NewParcel
<1>2. [no |-> made + 1, kind |-> kind, items |-> req[r].items, charge |-> n, delivered |-> FALSE]
        \in Parcels
  BY <1>1, FieldTypes DEF Parcels
<1>3. parcels' \subseteq Parcels
  BY <1>2 DEF TypeOK, Ship, NewParcel
<1>4. made' \in 0..MaxParcels
  BY <1>1 DEF Ship, NewParcel
<1>5. dispatched' \subseteq Items /\ status' \in Statuses
  BY FieldTypes DEF TypeOK, Ship
<1>6. QED
  BY <1>3, <1>4, <1>5

LEMMA BookingType ==
  ASSUME TypeOK, UNCHANGED setting, NEW r \in Reqs,
         \/ CourierConfirms(r) \/ CourierRefuses(r) \/ BookItemsTx(r) \/ BookItems(r)
         \/ BookTransport(r) \/ SendDirectOtp(r)
         \/ MarkManuallyDispatchedTx(r) \/ MarkManuallyDispatched(r) \/ Fails(r)
  PROVE  TypeOK'
<1>0. req[r].n \in Nat /\ quote \in Nat
  BY FieldTypes DEF TypeOK
<1>1. CASE CourierConfirms(r)
  <2>1. req' \in [Reqs -> Requests]
    BY <1>1, GotoType DEF CourierConfirms, TypeOK, Pcs
  <2>2. confirmed' \in 0..MaxParcels
    BY <1>1, OrderDispatchAssumption DEF CourierConfirms, TypeOK
  <2>3. QED
    BY <1>1, <2>1, <2>2 DEF CourierConfirms, TypeOK, orderRow, itemRows
<1>2. CASE CourierRefuses(r)
  BY <1>2, DoneType DEF CourierRefuses, TypeOK, orderRow, itemRows, courier
<1>3. CASE BookItemsTx(r)
  <2>1. NextOrderStatus(req[r].ids) \in Statuses
    BY NextOrderStatusType DEF Statuses
  <2>2. req' \in [Reqs -> Requests]
    BY <1>0, <1>3, <2>1, GotoType DEF BookItemsTx, Pcs
  <2>3. QED
    BY <1>3, <2>2 DEF BookItemsTx, TypeOK, orderRow, itemRows, courier
<1>4. CASE BookItems(r)
  <2>1. PICK kind \in ApiKinds : Ship(r, kind, req[r].n)
    BY <1>4 DEF BookItems
  <2>2. kind \in Kinds
    BY DEF ApiKinds, Kinds
  <2>3. req' \in [Reqs -> Requests]
    BY <1>4, DoneType DEF BookItems
  <2>4. quote' \in 0..MaxQuotes
    BY <1>4, OrderDispatchAssumption DEF BookItems, TypeOK
  <2>5. QED
    BY <1>0, <1>4, <2>1, <2>2, <2>3, <2>4, ShipType DEF BookItems, TypeOK
<1>5. ASSUME NEW pc, NEW kind \in Kinds, HandOver(r, pc, kind) PROVE TypeOK'
  <2>1. req' \in [Reqs -> Requests]
    BY <1>5, DoneType DEF HandOver
  <2>2. QED
    BY <1>5, <2>1, ShipType DEF HandOver, TypeOK
<1>6. CASE BookTransport(r)
  BY <1>5, <1>6 DEF BookTransport, Kinds
<1>7. CASE SendDirectOtp(r)
  BY <1>5, <1>7 DEF SendDirectOtp, Kinds
<1>8. CASE MarkManuallyDispatchedTx(r)
  <2>1. req' \in [Reqs -> Requests]
    BY <1>0, <1>8, GotoType, FieldTypes DEF MarkManuallyDispatchedTx, Pcs
  <2>2. QED
    BY <1>8, <2>1 DEF MarkManuallyDispatchedTx, TypeOK, orderRow, itemRows, courier
<1>9. CASE MarkManuallyDispatched(r)
  <2>1. req' \in [Reqs -> Requests]
    BY <1>9, DoneType DEF MarkManuallyDispatched
  <2>2. quote' \in 0..MaxQuotes
    BY <1>9, OrderDispatchAssumption DEF MarkManuallyDispatched, TypeOK
  <2>3. "MANUAL" \in Kinds
    BY DEF Kinds
  <2>4. QED
    BY <1>0, <1>9, <2>1, <2>2, <2>3, ShipType DEF MarkManuallyDispatched, TypeOK
<1>10. CASE Fails(r)
  BY <1>10, DoneType DEF Fails, TypeOK, orderRow, itemRows, courier
<1>11. QED
  BY <1>1, <1>2, <1>3, <1>4, <1>6, <1>7, <1>8, <1>9, <1>10

LEMMA ReturnToQueueType ==
  ASSUME TypeOK, UNCHANGED setting, NEW r \in Reqs, ReturnToQueue(r)
  PROVE  TypeOK'
<1>1. req' \in [Reqs -> Requests]
  BY DoneType DEF ReturnToQueue
<1>2. ASSUME Requeue
      PROVE  stage' \in [Items -> Stages] /\ dispatched' \subseteq Items /\ status' \in Statuses
  BY <1>2 DEF Requeue, Stages, Statuses
<1>3. /\ stage' \in [Items -> Stages] /\ dispatched' \subseteq Items /\ status' \in Statuses
      /\ parcels' \subseteq Parcels /\ approvals' \subseteq Approvers
  BY <1>2 DEF ReturnToQueue, LogReturn, TypeOK, Approvers
<1>4. QED
  BY <1>1, <1>3 DEF ReturnToQueue, TypeOK

LEMMA ParcelUpdateType ==
  ASSUME TypeOK, NEW p \in parcels, NEW d \in BOOLEAN
  PROVE  (parcels \ {p}) \cup {[p EXCEPT !.delivered = d]} \subseteq Parcels
<1>1. p \in Parcels
  BY DEF TypeOK
<1>2. [p EXCEPT !.delivered = d] \in Parcels
  BY <1>1 DEF Parcels
<1>3. QED
  BY <1>2 DEF TypeOK

LEMMA OneStepType ==
  ASSUME TypeOK, UNCHANGED setting, OneStep
  PROVE  TypeOK'
<1>1. CASE RejectOrder
  BY <1>1 DEF RejectOrder, TypeOK, Statuses, itemRows, courier
<1>2. CASE UpdateSheetStatus
  <2>1. stage' \in [Items -> Stages]
    BY <1>2 DEF UpdateSheetStatus, TypeOK
  <2>2. QED
    BY <1>2, <2>1 DEF UpdateSheetStatus, TypeOK, orderRow, courier
<1>3. CASE RequestCancellation
  BY <1>3 DEF RequestCancellation, TypeOK, itemRows, courier
<1>4. CASE RejectCancellation
  BY <1>4 DEF RejectCancellation, TypeOK, itemRows, courier
<1>5. CASE MarkDelivered
  <2>1. parcels' \subseteq Parcels
    BY <1>5, ParcelUpdateType DEF MarkDelivered, Deliver
  <2>2. QED
    BY <1>5, <2>1 DEF MarkDelivered, TypeOK, Statuses, itemRows
<1>6. CASE VerifyDirectOtp
  <2>1. parcels' \subseteq Parcels
    BY <1>6, ParcelUpdateType DEF VerifyDirectOtp, Deliver
  <2>2. QED
    BY <1>6, <2>1 DEF VerifyDirectOtp, TypeOK, Statuses, itemRows
<1>7. CASE BigshipCancels
  <2>1. gone' \subseteq 1..MaxParcels
    BY <1>7 DEF BigshipCancels, TypeOK, Parcels
  <2>2. QED
    BY <1>7, <2>1 DEF BigshipCancels, TypeOK, orderRow, itemRows
<1>8. CASE SyncShipmentFromBigship
  <2>1. parcels' \subseteq Parcels
    BY <1>8, ParcelUpdateType DEF SyncShipmentFromBigship
  <2>2. QED
    BY <1>8, <2>1 DEF SyncShipmentFromBigship, TypeOK, orderRow, itemRows
<1>9. QED
  BY <1>1, <1>2, <1>3, <1>4, <1>5, <1>6, <1>7, <1>8 DEF OneStep

LEMMA InitType == Init => TypeOK
<1> SUFFICES ASSUME Init PROVE TypeOK
  OBVIOUS
<1>1. status \in Statuses /\ pending \subseteq Items /\ cancelReq = NoRequest
  BY DEF Init, Statuses
<1>2. approvals \subseteq Approvers
  BY DEF Init
<1>3. /\ quote \in 0..MaxQuotes /\ quotes \in 0..MaxQuotes
      /\ made \in 0..MaxParcels /\ confirmed \in 0..MaxParcels
  BY OrderDispatchAssumption DEF Init
<1>4. stage \in [Items -> Stages] /\ cancelled \subseteq Items /\ dispatched \subseteq Items
  BY DEF Init, Stages
<1>5. parcels \subseteq Parcels /\ gone \subseteq 1..MaxParcels
  BY DEF Init
<1>6. req \in [Reqs -> Requests]
  BY IdleType DEF Init
<1>7. setting \in Settings
  BY DEF Init
<1>8. QED
  BY <1>1, <1>2, <1>3, <1>4, <1>5, <1>6, <1>7 DEF TypeOK

LEMMA NextType == TypeOK /\ [Next]_vars => TypeOK'
<1> SUFFICES ASSUME TypeOK, [Next]_vars PROVE TypeOK'
  OBVIOUS
<1>0. UNCHANGED setting
  BY DEF Next, vars
<1>1. CASE OneStep
  BY <1>0, <1>1, OneStepType
<1>2. ASSUME NEW r \in Reqs, Accounts(r) \/ Production(r) \/ Sales(r) PROVE TypeOK'
  BY <1>0, <1>2, ChecksType, ReadsType, OrderWritesType, UpdateItemStageType
     DEF Accounts, Production, Sales
<1>3. ASSUME NEW r \in Reqs, Booking(r) \/ Fails(r) PROVE TypeOK'
  BY <1>0, <1>3, ReadsType, BookingType, ReturnToQueueType DEF Booking
<1>4. CASE UNCHANGED vars
  BY <1>4 DEF TypeOK, vars
<1>5. QED
  BY <1>1, <1>2, <1>3, <1>4 DEF Next

(* Type correctness of the order row, the item rows, the parcels and every *)
(* request in flight, for any number of items and requests.                *)
THEOREM TypeCorrect == Spec => []TypeOK
BY InitType, NextType, PTL DEF Spec
------------------------------------------------------------------------------
(* What a request in flight still guarantees when it comes to its write: a *)
(* rollup writes one of two statuses, and what assertCanDispatch found     *)
(* stays true, for no handler takes a logged approval back.                *)
BookingPcs == {"book", "booked", "bookTx", "transport", "direct"}
Guarantee(call, ok) ==
  /\ call.pc = "rollup" => call.status \in {"READY_FOR_DISPATCH", "IN_PRODUCTION"}
  /\ call.pc \in BookingPcs => ok
InFlight == \A r \in Reqs : Guarantee(req[r], Approved)

IInv == TypeOK /\ InFlight /\ ShippedHaveAParcel /\ OnTheRoadHasAParcel /\ ParcelsNeedApproval

(* A step that changes one request keeps InFlight if the new one keeps its *)
(* guarantee.                                                              *)
LEMMA OneRequest ==
  ASSUME TypeOK, InFlight, Approved => Approved', NEW r \in Reqs, NEW call,
         req' = [req EXCEPT ![r] = call], Guarantee(call, Approved')
  PROVE  InFlight'
BY DEF TypeOK, InFlight, Guarantee

LEMMA DoneInFlight ==
  ASSUME TypeOK, InFlight, Approved => Approved', NEW r \in Reqs, Done(r)
  PROVE  InFlight'
<1>1. Guarantee(Idle, Approved')
  BY DEF Guarantee, Idle, Call, BookingPcs
<1>2. QED
  BY <1>1, OneRequest DEF Done

LEMMA StartInFlight ==
  ASSUME TypeOK, InFlight, NEW r \in Reqs, NEW h, NEW pc, NEW ids, NEW chosen,
         NEW s, NEW g, NEW n, Start(r, h, Call(pc, ids, chosen, s, g, n)),
         pc # "rollup", pc \in BookingPcs => Approved
  PROVE  InFlight'
<1>1. Approved' = Approved
  BY DEF Start, orderRow, Approved
<1>2. Guarantee(Call(pc, ids, chosen, s, g, n), Approved')
  BY <1>1 DEF Guarantee, Call
<1>3. QED
  BY <1>1, <1>2, OneRequest DEF Start

LEMMA GotoInFlight ==
  ASSUME TypeOK, InFlight, approvals' = approvals, NEW r \in Reqs, NEW pc, NEW s, NEW n,
         Goto(r, pc, s, n),
         pc = "rollup" => s \in {"READY_FOR_DISPATCH", "IN_PRODUCTION"},
         pc \in BookingPcs => Approved
  PROVE  InFlight'
<1>1. Approved' = Approved
  BY DEF Approved
<1>2. Guarantee(Call(pc, req[r].ids, req[r].items, s, req[r].stage, n), Approved')
  BY <1>1 DEF Guarantee, Call
<1>3. QED
  BY <1>1, <1>2, OneRequest DEF Goto

(* The steps that only start a request keep everything else.               *)
LEMMA StartKeeps ==
  ASSUME IInv, NEW r \in Reqs, NEW h, NEW call, Start(r, h, call), TypeOK', InFlight'
  PROVE  IInv'
BY DEF IInv, Start, orderRow, itemRows, courier,
       ShippedHaveAParcel, OnTheRoadHasAParcel, ParcelsNeedApproval

LEMMA ChecksKeep ==
  ASSUME IInv, TypeOK', NEW r \in Reqs,
         \/ ApproveOrderCheck(r) \/ ReturnToAccountsCheck(r) \/ ApproveDispatchCheck(r)
         \/ RejectDispatchCheck(r) \/ AssignCategoryRead(r) \/ SubmitForDispatchCheck(r)
  PROVE  IInv'
<1>1. PICK h, pc : /\ Start(r, h, Checked(pc))
                   /\ pc \notin {"rollup"} \cup BookingPcs
  BY DEF ApproveOrderCheck, ReturnToAccountsCheck, ApproveDispatchCheck,
         RejectDispatchCheck, AssignCategoryRead, SubmitForDispatchCheck, BookingPcs
<1>2. InFlight'
  BY <1>1, StartInFlight DEF Checked, IInv
<1>3. QED
  BY <1>1, <1>2, StartKeeps

LEMMA ReadsKeep ==
  ASSUME IInv, TypeOK', NEW r \in Reqs,
         \/ UpdateItemStageRead(r) \/ ApproveCancellationCheck(r) \/ SubmitDispatchBatchRead(r)
         \/ BookItemsRead(r) \/ BookTransportRead(r) \/ SendDirectOtpRead(r)
         \/ MarkManuallyDispatchedRead(r) \/ AutoReturnRead(r) \/ ReturnToQueueRead(r)
  PROVE  IInv'
<1>1. PICK h, pc, ids, chosen, s, g, n :
        /\ Start(r, h, Call(pc, ids, chosen, s, g, n))
        /\ pc # "rollup"
        /\ pc \in BookingPcs => Approved
  <2>1. CASE UpdateItemStageRead(r)
    BY <2>1 DEF UpdateItemStageRead, BookingPcs
  <2>2. CASE ApproveCancellationCheck(r)
    BY <2>2 DEF ApproveCancellationCheck, BookingPcs
  <2>3. CASE SubmitDispatchBatchRead(r)
    BY <2>3 DEF SubmitDispatchBatchRead, BookingPcs
  <2>4. CASE BookItemsRead(r)
    BY <2>4 DEF BookItemsRead, CanDispatch
  <2>5. CASE BookTransportRead(r)
    BY <2>5 DEF BookTransportRead, HandOverRead, CanDispatch
  <2>6. CASE SendDirectOtpRead(r)
    BY <2>6 DEF SendDirectOtpRead, HandOverRead, CanDispatch
  <2>7. CASE MarkManuallyDispatchedRead(r)
    BY <2>7 DEF MarkManuallyDispatchedRead, BookingPcs
  <2>8. CASE AutoReturnRead(r)
    BY <2>8 DEF AutoReturnRead, BookingPcs
  <2>9. CASE ReturnToQueueRead(r)
    BY <2>9 DEF ReturnToQueueRead, BookingPcs
  <2>10. QED
    BY <2>1, <2>2, <2>3, <2>4, <2>5, <2>6, <2>7, <2>8, <2>9
<1>2. InFlight'
  BY <1>1, StartInFlight DEF IInv
<1>3. QED
  BY <1>1, <1>2, StartKeeps

------------------------------------------------------------------------------
(* The writes.                                                             *)

LEMMA OrderWritesKeep ==
  ASSUME IInv, TypeOK', NEW r \in Reqs,
         \/ ApproveOrder(r) \/ ReturnToAccounts(r) \/ ApproveDispatch(r) \/ RejectDispatch(r)
         \/ AssignCategory(r) \/ ApproveCancellation(r) \/ WriteRollup(r)
         \/ SubmitDispatchBatch(r) \/ SubmitForDispatch(r)
  PROVE  IInv'
<1> DEFINE OffRoad == status' \notin {"PARTIALLY_DISPATCHED", "DISPATCHED", "DELIVERED"}
<1>0. approvals \subseteq approvals'
  BY DEF ApproveOrder, ReturnToAccounts, ApproveDispatch, RejectDispatch, AssignCategory,
         ApproveCancellation, WriteRollup, SubmitDispatchBatch, SubmitForDispatch
<1>1. Done(r) /\ dispatched' = dispatched /\ parcels' = parcels
  BY DEF ApproveOrder, ReturnToAccounts, ApproveDispatch, RejectDispatch, AssignCategory,
         ApproveCancellation, WriteRollup, SubmitDispatchBatch, SubmitForDispatch,
         itemRows, courier
<1>2. OffRoad \/ status' = status
  <2>1. CASE WriteRollup(r)
    BY <2>1 DEF WriteRollup, At, IInv, InFlight, Guarantee
  <2>2. CASE ApproveCancellation(r)
    BY <2>2 DEF ApproveCancellation
  <2>3. QED
    BY <2>1, <2>2 DEF ApproveOrder, ReturnToAccounts, ApproveDispatch, RejectDispatch,
       AssignCategory, SubmitDispatchBatch, SubmitForDispatch
<1>3. InFlight'
  <2>1. Approved => Approved'
    BY <1>0 DEF Approved
  <2> QED  BY <1>1, <2>1, DoneInFlight DEF IInv
<1>4. ParcelsNeedApproval'
  BY <1>0, <1>1 DEF IInv, ParcelsNeedApproval
<1>5. QED
  BY <1>1, <1>2, <1>3, <1>4 DEF IInv, ShippedHaveAParcel, OnTheRoadHasAParcel

LEMMA UpdateItemStageKeeps ==
  ASSUME IInv, TypeOK', NEW r \in Reqs, UpdateItemStage(r)
  PROVE  IInv'
<1>1. UNCHANGED <<status, approvals, dispatched, parcels>>
  BY DEF UpdateItemStage, orderRow, courier
<1>2. InFlight'
  <2>1. CASE Done(r)
    BY <1>1, <2>1, DoneInFlight DEF IInv, Approved
  <2>2. CASE /\ Rollup(req[r].status, stage') # req[r].status
             /\ Goto(r, "rollup", Rollup(req[r].status, stage'), 0)
    <3>1. Rollup(req[r].status, stage') \in {"READY_FOR_DISPATCH", "IN_PRODUCTION"}
      BY <2>2, FieldTypes, RollupType DEF IInv
    <3>2. QED
      BY <1>1, <2>2, <3>1, GotoInFlight DEF IInv, BookingPcs
  <2>3. QED
    BY <2>1, <2>2 DEF UpdateItemStage
<1>3. QED
  BY <1>1, <1>2 DEF IInv, ShippedHaveAParcel, OnTheRoadHasAParcel, ParcelsNeedApproval

(* A new parcel holds the items it marks.                                  *)
LEMMA ShipKeeps ==
  ASSUME IInv, TypeOK', InFlight', NEW r \in Reqs, NEW kind, NEW n, Ship(r, kind, n),
         approvals' = approvals, kind # "MANUAL" => Approved
  PROVE  IInv'
<1> DEFINE p == [no |-> made + 1, kind |-> kind, items |-> req[r].items,
                 charge |-> n, delivered |-> FALSE]
<1>1. parcels' = parcels \cup {p} /\ dispatched' = dispatched \cup req[r].items
  BY DEF Ship, NewParcel
<1>2. p \in parcels' /\ p.kind = kind /\ p.items = req[r].items
  BY <1>1
<1> HIDE DEF p
<1>3. ShippedHaveAParcel'
  BY <1>1, <1>2 DEF IInv, ShippedHaveAParcel
<1>4. OnTheRoadHasAParcel'
  BY <1>2 DEF OnTheRoadHasAParcel
<1>5. ParcelsNeedApproval'
  BY <1>1, <1>2 DEF IInv, TypeOK, ParcelsNeedApproval, Approved, Approvers
<1>6. QED
  BY <1>3, <1>4, <1>5 DEF IInv

LEMMA BookingKeeps ==
  ASSUME IInv, TypeOK', NEW r \in Reqs,
         \/ CourierConfirms(r) \/ CourierRefuses(r) \/ BookItemsTx(r) \/ BookItems(r)
         \/ BookTransport(r) \/ SendDirectOtp(r)
         \/ MarkManuallyDispatchedTx(r) \/ MarkManuallyDispatched(r) \/ Fails(r)
  PROVE  IInv'
<1>0. /\ approvals' = approvals
      /\ req[r].pc \in BookingPcs => Approved
  BY DEF CourierConfirms, CourierRefuses, BookItemsTx, BookItems, BookTransport,
         SendDirectOtp, HandOver, MarkManuallyDispatchedTx, MarkManuallyDispatched, Fails,
         orderRow, IInv, InFlight, Guarantee
<1>1. ASSUME UNCHANGED <<status, dispatched, parcels>>, InFlight' PROVE IInv'
  BY <1>0, <1>1 DEF IInv, ShippedHaveAParcel, OnTheRoadHasAParcel, ParcelsNeedApproval
<1>2. ASSUME Done(r) PROVE InFlight'
  BY <1>0, <1>2, DoneInFlight DEF IInv, Approved
<1>3. CASE CourierConfirms(r)
  <2>1. InFlight'
    BY <1>0, <1>3, GotoInFlight DEF CourierConfirms, At, IInv, BookingPcs
  <2>2. QED
    BY <1>1, <1>3, <2>1 DEF CourierConfirms, orderRow, itemRows
<1>4. CASE CourierRefuses(r) \/ Fails(r)
  BY <1>1, <1>2, <1>4 DEF CourierRefuses, Fails, orderRow, itemRows, courier
<1>5. CASE BookItemsTx(r)
  <2>1. InFlight'
    BY <1>0, <1>5, GotoInFlight DEF BookItemsTx, At, IInv, BookingPcs
  <2>2. QED
    BY <1>1, <1>5, <2>1 DEF BookItemsTx, orderRow, itemRows, courier
<1>6. CASE BookItems(r)
  <2>1. PICK kind \in ApiKinds : Ship(r, kind, req[r].n)
    BY <1>6 DEF BookItems
  <2>2. Done(r) /\ Approved
    BY <1>0, <1>6 DEF BookItems, At, BookingPcs
  <2>3. QED
    BY <1>0, <1>2, <2>1, <2>2, ShipKeeps
<1>7. ASSUME NEW pc \in BookingPcs, NEW kind, HandOver(r, pc, kind) PROVE IInv'
  BY <1>0, <1>2, <1>7, ShipKeeps DEF HandOver, At
<1>8. CASE BookTransport(r) \/ SendDirectOtp(r)
  BY <1>7, <1>8 DEF BookTransport, SendDirectOtp, BookingPcs
<1>9. CASE MarkManuallyDispatchedTx(r)
  <2>1. InFlight'
    BY <1>0, <1>9, GotoInFlight DEF MarkManuallyDispatchedTx, IInv, BookingPcs
  <2>2. QED
    BY <1>1, <1>9, <2>1 DEF MarkManuallyDispatchedTx, orderRow, itemRows, courier
<1>10. CASE MarkManuallyDispatched(r)
  BY <1>0, <1>2, <1>10, ShipKeeps DEF MarkManuallyDispatched
<1>11. QED
  BY <1>3, <1>4, <1>5, <1>6, <1>8, <1>9, <1>10

(* A parcel goes only with the mark on its items and the order's status.   *)
LEMMA ReturnToQueueKeeps ==
  ASSUME IInv, TypeOK', NEW r \in Reqs, ReturnToQueue(r)
  PROVE  IInv'
<1>1. approvals \subseteq approvals' /\ Done(r) /\ parcels' \subseteq parcels
  BY DEF ReturnToQueue, LogReturn
<1>2. InFlight'
  <2>1. Approved => Approved'
    BY <1>1 DEF Approved
  <2> QED  BY <1>1, <2>1, DoneInFlight DEF IInv
<1>3. \/ dispatched' = {} /\ status' = "READY_FOR_DISPATCH"
      \/ UNCHANGED <<status, dispatched, parcels>>
  BY DEF ReturnToQueue, Requeue
<1>4. QED
  BY <1>1, <1>2, <1>3
     DEF IInv, ShippedHaveAParcel, OnTheRoadHasAParcel, ParcelsNeedApproval

(* A delivery report changes neither a parcel's items nor its kind.        *)
LEMMA ReportKeeps ==
  ASSUME IInv, NEW p \in parcels, NEW d \in BOOLEAN, UNCHANGED <<approvals, dispatched>>,
         parcels' = (parcels \ {p}) \cup {[p EXCEPT !.delivered = d]}
  PROVE  /\ parcels' # {} /\ ShippedHaveAParcel' /\ ParcelsNeedApproval'
<1> DEFINE np == [p EXCEPT !.delivered = d]
<1>1. p \in Parcels
  BY DEF IInv, TypeOK
<1>2. np \in parcels' /\ np.items = p.items /\ np.kind = p.kind
  BY <1>1 DEF Parcels
<1>3. parcels' = (parcels \ {p}) \cup {np}
  OBVIOUS
<1> HIDE DEF np
<1>4. \A q \in parcels : \E x \in parcels' : x.items = q.items
  BY <1>2, <1>3
<1>5. \A x \in parcels' : \E q \in parcels : x.kind = q.kind
  BY <1>2, <1>3
<1>6. ShippedHaveAParcel'
  BY <1>4 DEF IInv, ShippedHaveAParcel
<1>7. ParcelsNeedApproval'
  BY <1>5 DEF IInv, ParcelsNeedApproval
<1>8. QED
  BY <1>2, <1>6, <1>7

LEMMA OneStepKeeps ==
  ASSUME IInv, TypeOK', OneStep
  PROVE  IInv'
<1>1. InFlight'
  BY DEF OneStep, RejectOrder, UpdateSheetStatus, RequestCancellation, RejectCancellation,
         MarkDelivered, VerifyDirectOtp, BigshipCancels, SyncShipmentFromBigship,
         orderRow, IInv, InFlight, Approved
<1>2. CASE \/ RejectOrder \/ UpdateSheetStatus \/ RequestCancellation
           \/ RejectCancellation \/ BigshipCancels
  <2>1. /\ UNCHANGED <<approvals, dispatched, parcels>>
        /\ status' = status \/ status' = "CANCELLED"
    BY <1>2 DEF RejectOrder, UpdateSheetStatus, RequestCancellation, RejectCancellation,
                BigshipCancels, orderRow, itemRows, courier
  <2>2. QED
    BY <1>1, <2>1 DEF IInv, ShippedHaveAParcel, OnTheRoadHasAParcel, ParcelsNeedApproval
<1>3. CASE MarkDelivered \/ VerifyDirectOtp \/ SyncShipmentFromBigship
  <2>1. PICK p \in parcels, d \in BOOLEAN :
          parcels' = (parcels \ {p}) \cup {[p EXCEPT !.delivered = d]}
    BY <1>3 DEF MarkDelivered, VerifyDirectOtp, SyncShipmentFromBigship, Deliver
  <2>2. UNCHANGED <<approvals, dispatched>>
    BY <1>3 DEF MarkDelivered, VerifyDirectOtp, SyncShipmentFromBigship, orderRow, itemRows
  <2>3. QED
    BY <1>1, <2>1, <2>2, ReportKeeps DEF IInv, OnTheRoadHasAParcel
<1>4. QED
  BY <1>2, <1>3 DEF OneStep

------------------------------------------------------------------------------
LEMMA InitInv == Init => IInv
<1> SUFFICES ASSUME Init PROVE IInv
  OBVIOUS
<1>1. TypeOK
  BY InitType
<1>2. InFlight
  BY DEF Init, InFlight, Guarantee, Idle, Call, BookingPcs
<1>3. ShippedHaveAParcel /\ OnTheRoadHasAParcel /\ ParcelsNeedApproval
  BY DEF Init, ShippedHaveAParcel, OnTheRoadHasAParcel, ParcelsNeedApproval
<1>4. QED
  BY <1>1, <1>2, <1>3 DEF IInv

LEMMA NextInv == IInv /\ [Next]_vars => IInv'
<1> SUFFICES ASSUME IInv, [Next]_vars PROVE IInv'
  OBVIOUS
<1>1. TypeOK'
  BY NextType DEF IInv
<1>2. CASE OneStep
  BY <1>1, <1>2, OneStepKeeps
<1>3. ASSUME NEW r \in Reqs, Accounts(r) \/ Production(r) \/ Sales(r) PROVE IInv'
  BY <1>1, <1>3, ChecksKeep, ReadsKeep, OrderWritesKeep, UpdateItemStageKeeps
     DEF Accounts, Production, Sales
<1>4. ASSUME NEW r \in Reqs, Booking(r) \/ Fails(r) PROVE IInv'
  BY <1>1, <1>4, ReadsKeep, BookingKeeps, ReturnToQueueKeeps DEF Booking
<1>5. CASE UNCHANGED vars
  <2>1. UNCHANGED <<status, approvals, dispatched, parcels, req>>
    BY <1>5 DEF vars
  <2>2. QED
    BY <1>1, <2>1
       DEF IInv, InFlight, Approved, ShippedHaveAParcel, OnTheRoadHasAParcel,
           ParcelsNeedApproval
<1>6. QED
  BY <1>2, <1>3, <1>4, <1>5 DEF Next

LEMMA AlwaysInv == Spec => []IInv
BY InitInv, NextInv, PTL DEF Spec

(* An item marked dispatched is in some parcel, however bookings, sheet    *)
(* changes and returns to the queue interleave.                            *)
THEOREM ShippedItemsAreInParcels == Spec => []ShippedHaveAParcel
<1>1. IInv => ShippedHaveAParcel
  BY DEF IInv
<1>2. QED
  BY <1>1, AlwaysInv, PTL

(* An order that reads as shipped or delivered has a parcel: neither a     *)
(* stale rollup nor a stale return to the queue says otherwise.            *)
THEOREM ShippedOrdersHaveAParcel == Spec => []OnTheRoadHasAParcel
<1>1. IInv => OnTheRoadHasAParcel
  BY DEF IInv
<1>2. QED
  BY <1>1, AlwaysInv, PTL

(* No parcel is booked with a courier, a transporter or by hand unless     *)
(* accounts approved a dispatch of the order, or it was returned to the    *)
(* queue by hand while it waited for them, although every handler acts on  *)
(* an approval it looked up earlier.                                       *)
THEOREM ApprovalBeforeParcels == Spec => []ParcelsNeedApproval
<1>1. IInv => ParcelsNeedApproval
  BY DEF IInv
<1>2. QED
  BY <1>1, AlwaysInv, PTL

------------------------------------------------------------------------------
(* Handlers in turn.                                                       *)

(* What a request in flight knows when no other is: the one-step handlers  *)
(* that come in between cancel or deliver the order, and only a sheet      *)
(* touches what a booking has looked at.                                   *)
ShippingPcs == BookingPcs \cup {"manual", "manualTx"}
Knows(call) ==
  /\ call.pc \in {"category", "rollup"} => status # "PENDING_DISPATCH_APPROVAL"
  /\ call.pc = "stage" /\ status = "PENDING_DISPATCH_APPROVAL"
       => call.status = "PENDING_DISPATCH_APPROVAL"
  /\ call.pc = "submit" => pending \subseteq call.ids
  /\ call.pc \in ShippingPcs => call.items \cap dispatched = {}
  /\ call.pc \in {"bookTx", "manualTx"} => call.n = quote
  /\ call.pc \in {"autoReturn", "return"} => ~ NothingPutBack
  /\ call.pc \in {"bookTx", "transport", "direct", "manual", "manualTx"}
       => call.status \in {"DISPATCHED", "PARTIALLY_DISPATCHED"}
KnowsStages(call) ==
  /\ call.pc \in ShippingPcs => call.items = ToDispatch(call.ids)
  /\ call.pc \in {"bookTx", "transport", "direct", "manual", "manualTx"}
       => call.status = NextOrderStatus(call.ids)

Alone == \A r, q \in Reqs : r # q => At(r, "idle") \/ At(q, "idle")
(* Every parcel's charge was quoted before, and none carries the quote     *)
(* that is still open.                                                     *)
Charges ==
  /\ quote <= quotes
  /\ \A p \in parcels : p.charge <= quotes /\ (p.charge = quote => quote = 0)
  /\ \A p, q \in parcels : p.charge # 0 /\ p.charge = q.charge => p = q
(* What a parcel holds stays marked, so that the next one does without it. *)
Marked ==
  /\ \A p \in parcels : p.items \subseteq dispatched
  /\ \A p, q \in parcels : p # q => p.items \cap q.items = {}

TurnOK ==
  /\ Alone /\ Charges
  /\ \A r \in Reqs : Knows(req[r])
  /\ "sheet" \notin setting.handlers => \A r \in Reqs : KnowsStages(req[r])
  /\ NothingPutBack => Marked
TurnInv == setting.inTurn => TurnOK

LEMMA KnowsIdle ==
  ASSUME NEW c, c.pc = "idle"
  PROVE  Knows(c) /\ KnowsStages(c)
BY DEF Knows, KnowsStages, ShippingPcs, BookingPcs

LEMMA OthersIdle ==
  ASSUME Alone, NEW r \in Reqs, ~ At(r, "idle")
  PROVE  \A q \in Reqs : q # r => At(q, "idle")
BY DEF Alone

(* A step that changes one request, all others being idle.                 *)
LEMMA OneMoves ==
  ASSUME TypeOK, UNCHANGED setting, NEW r \in Reqs, NEW c,
         \A q \in Reqs : q # r => At(q, "idle"),
         req' = [req EXCEPT ![r] = c],
         Knows(c)', "sheet" \notin setting.handlers => KnowsStages(c)'
  PROVE  /\ Alone'
         /\ \A q \in Reqs : Knows(req[q])'
         /\ "sheet" \notin setting'.handlers => \A q \in Reqs : KnowsStages(req[q])'
<1>1. /\ req'[r] = c
      /\ \A q \in Reqs : q # r => req'[q].pc = "idle"
  BY DEF TypeOK, At
<1>2. Alone'
  BY <1>1 DEF Alone, At
<1>3. ASSUME NEW q \in Reqs
      PROVE  Knows(req[q])' /\ ("sheet" \notin setting.handlers => KnowsStages(req[q])')
  <2>1. CASE q = r
    BY <1>1, <2>1 DEF Knows, KnowsStages
  <2>2. CASE q # r
    BY <1>1, <2>2 DEF Knows, KnowsStages, ShippingPcs, BookingPcs
  <2>3. QED
    BY <2>1, <2>2
<1>4. QED
  BY <1>2, <1>3

(* The parcels, what they hold and the quotes, when a step leaves them.    *)
LEMMA ParcelsUnchanged ==
  ASSUME TurnOK, UNCHANGED <<setting, parcels, dispatched, quote, quotes>>
  PROVE  Charges' /\ (NothingPutBack => Marked)'
BY DEF TurnOK, Charges, Marked, NothingPutBack

------------------------------------------------------------------------------
(* Steps that start a request: it knows what it has just read.             *)

LEMMA StartTurn ==
  ASSUME TypeOK, TurnOK, setting.inTurn, UNCHANGED setting,
         NEW r \in Reqs, NEW h, NEW c, Start(r, h, c), Knows(c), KnowsStages(c)
  PROVE  TurnOK'
<1>1. \A q \in Reqs : q # r => At(q, "idle")
  BY DEF Start
<1>2. Knows(c)' /\ KnowsStages(c)'
  BY DEF Start, orderRow, itemRows, Knows, KnowsStages, ToDispatch, NextOrderStatus, Ready,
         NothingPutBack
<1>3. Charges' /\ (NothingPutBack => Marked)'
  BY ParcelsUnchanged DEF Start, orderRow, itemRows, courier
<1>4. req' = [req EXCEPT ![r] = c]
  BY DEF Start
<1>5. QED
  BY <1>1, <1>2, <1>3, <1>4, OneMoves DEF TurnOK

LEMMA ChecksTurn ==
  ASSUME TypeOK, TurnOK, setting.inTurn, UNCHANGED setting, NEW r \in Reqs,
         \/ ApproveOrderCheck(r) \/ ReturnToAccountsCheck(r) \/ ApproveDispatchCheck(r)
         \/ RejectDispatchCheck(r) \/ AssignCategoryRead(r) \/ SubmitForDispatchCheck(r)
  PROVE  TurnOK'
<1>1. PICK h, c : Start(r, h, c) /\ Knows(c) /\ KnowsStages(c)
  <2>1. PICK h, pc : /\ Start(r, h, Checked(pc))
                     /\ pc \notin {"rollup", "submit", "stage", "autoReturn", "return"} \cup ShippingPcs
                     /\ pc = "category" => status = "APPROVED"
    BY DEF ApproveOrderCheck, ReturnToAccountsCheck, ApproveDispatchCheck,
           RejectDispatchCheck, AssignCategoryRead, SubmitForDispatchCheck,
           BookingPcs, ShippingPcs
  <2>2. Knows(Checked(pc)) /\ KnowsStages(Checked(pc))
    BY <2>1 DEF Checked, Call, Knows, KnowsStages, ShippingPcs, BookingPcs
  <2>3. QED
    BY <2>1, <2>2
<1>2. QED
  BY <1>1, StartTurn

(* A list of items is shipped without those shipped already.               *)
LEMMA ToDispatchFacts ==
  ASSUME NEW ids
  PROVE  /\ ToDispatch(ids) \cap dispatched = {}
         /\ ToDispatch(ToDispatch(ids)) = ToDispatch(ids)
BY DEF ToDispatch

LEMMA ReadsTurn ==
  ASSUME TypeOK, TurnOK, setting.inTurn, UNCHANGED setting, NEW r \in Reqs,
         \/ UpdateItemStageRead(r) \/ ApproveCancellationCheck(r) \/ SubmitDispatchBatchRead(r)
         \/ BookItemsRead(r) \/ BookTransportRead(r) \/ SendDirectOtpRead(r)
         \/ MarkManuallyDispatchedRead(r) \/ AutoReturnRead(r) \/ ReturnToQueueRead(r)
  PROVE  TurnOK'
<1> USE DEF Call, Knows, KnowsStages, ShippingPcs, BookingPcs
<1>0. ASSUME NEW pc \in {"transport", "direct"}, HandOverRead(r, pc)
      PROVE  \E h, c : Start(r, h, c) /\ Knows(c) /\ KnowsStages(c)
  <2>1. PICK ids : Start(r, pc, Call(pc, ids, ToDispatch(ids), NextOrderStatus(ids),
                                     "NOT_PRINTED", 0))
    BY <1>0 DEF HandOverRead
  <2>2. QED
    BY <2>1, ToDispatchFacts, NextOrderStatusType
<1>1. PICK h, c : Start(r, h, c) /\ Knows(c) /\ KnowsStages(c)
  <2>1. CASE UpdateItemStageRead(r)
    BY <2>1 DEF UpdateItemStageRead
  <2>2. CASE ApproveCancellationCheck(r)
    BY <2>2 DEF ApproveCancellationCheck
  <2>3. CASE SubmitDispatchBatchRead(r)
    BY <2>3 DEF SubmitDispatchBatchRead
  <2>4. CASE BookItemsRead(r)
    BY <2>4, ToDispatchFacts DEF BookItemsRead
  <2>5. CASE BookTransportRead(r)
    BY <1>0, <2>5 DEF BookTransportRead
  <2>6. CASE SendDirectOtpRead(r)
    BY <1>0, <2>6 DEF SendDirectOtpRead
  <2>7. CASE MarkManuallyDispatchedRead(r)
    BY <2>7, ToDispatchFacts, NextOrderStatusType DEF MarkManuallyDispatchedRead
  <2>8. CASE AutoReturnRead(r)
    <3>1. PICK n : Start(r, "sync", Call("autoReturn", {}, {}, status, "NOT_PRINTED", n))
      BY <2>8 DEF AutoReturnRead
    <3>2. ~ NothingPutBack
      BY <3>1 DEF Start, NothingPutBack
    <3>3. QED
      BY <3>1, <3>2
  <2>9. CASE ReturnToQueueRead(r)
    <3>1. PICK n : Start(r, "return", Call("return", {}, {}, status, "NOT_PRINTED", n))
      BY <2>9 DEF ReturnToQueueRead
    <3>2. ~ NothingPutBack
      BY <3>1 DEF Start, NothingPutBack
    <3>3. QED
      BY <3>1, <3>2
  <2>10. QED
    BY <2>1, <2>2, <2>3, <2>4, <2>5, <2>6, <2>7, <2>8, <2>9
<1>2. QED
  BY <1>1, StartTurn

------------------------------------------------------------------------------
(* Steps that go on with a request or end it.                              *)

LEMMA DoneTurn ==
  ASSUME TypeOK, TurnOK, UNCHANGED setting, NEW r \in Reqs, ~ At(r, "idle"), Done(r),
         Charges', (NothingPutBack => Marked)'
  PROVE  TurnOK'
<1>1. \A q \in Reqs : q # r => At(q, "idle")
  BY OthersIdle DEF TurnOK
<1>2. PICK c : c = Idle
  OBVIOUS
<1>3. Knows(c)' /\ KnowsStages(c)'
  BY <1>2 DEF Idle, Call, Knows, KnowsStages, ShippingPcs, BookingPcs
<1>4. req' = [req EXCEPT ![r] = c]
  BY <1>2 DEF Done
<1>5. QED
  BY <1>1, <1>3, <1>4, OneMoves DEF TurnOK

LEMMA GotoTurn ==
  ASSUME TypeOK, TurnOK, UNCHANGED <<setting, parcels, dispatched, quote, quotes>>,
         NEW r \in Reqs, ~ At(r, "idle"), NEW c, req' = [req EXCEPT ![r] = c],
         Knows(c)', "sheet" \notin setting.handlers => KnowsStages(c)'
  PROVE  TurnOK'
<1>1. \A q \in Reqs : q # r => At(q, "idle")
  BY OthersIdle DEF TurnOK
<1>2. QED
  BY <1>1, OneMoves, ParcelsUnchanged DEF TurnOK

(* The handlers that write the order row and no parcel.                    *)
LEMMA OrderWritesTurn ==
  ASSUME TypeOK, TurnOK, UNCHANGED setting, NEW r \in Reqs,
         \/ ApproveOrder(r) \/ ReturnToAccounts(r) \/ ApproveDispatch(r) \/ RejectDispatch(r)
         \/ AssignCategory(r) \/ ApproveCancellation(r) \/ WriteRollup(r)
         \/ SubmitDispatchBatch(r) \/ SubmitForDispatch(r)
  PROVE  TurnOK'
<1>1. /\ Done(r) /\ ~ At(r, "idle")
      /\ UNCHANGED <<parcels, dispatched>>
      /\ UNCHANGED <<quote, quotes>> \/ Quote
  BY DEF ApproveOrder, ReturnToAccounts, ApproveDispatch, RejectDispatch, AssignCategory,
         ApproveCancellation, WriteRollup, SubmitDispatchBatch, SubmitForDispatch, At,
         itemRows, courier
<1>2. ASSUME Quote PROVE Charges'
  <2>1. /\ quotes \in Nat /\ \A p \in parcels : p.charge \in Nat
        /\ \A p \in parcels : p.charge <= quotes
    BY DEF TypeOK, Parcels, TurnOK, Charges
  <2>2. quote' <= quotes' /\ \A p \in parcels : p.charge <= quotes' /\ (p.charge = quote' => quote' = 0)
    BY <1>2, <2>1 DEF Quote
  <2>3. QED
    BY <1>1, <2>2 DEF Charges, TurnOK
<1>3. (NothingPutBack => Marked)'
  BY <1>1 DEF TurnOK, Marked, NothingPutBack
<1>4. Charges'
  BY <1>1, <1>2, ParcelsUnchanged
<1>5. QED
  BY <1>1, <1>3, <1>4, DoneTurn

(* A stage is written; the rollup that may follow knows that the order was *)
(* not waiting for accounts.                                               *)
LEMMA UpdateItemStageTurn ==
  ASSUME TypeOK, TurnOK, UNCHANGED setting, NEW r \in Reqs, UpdateItemStage(r)
  PROVE  TurnOK'
<1>1. /\ UNCHANGED <<status, quote, quotes, dispatched, parcels>>
      /\ req[r].pc = "stage" /\ ~ At(r, "idle")
  BY DEF UpdateItemStage, At, orderRow, courier
<1>2. CASE Done(r)
  BY <1>1, <1>2, DoneTurn, ParcelsUnchanged
<1>3. CASE /\ Rollup(req[r].status, stage') # req[r].status
           /\ Goto(r, "rollup", Rollup(req[r].status, stage'), 0)
  <2>1. req[r].status \in {"APPROVED", "IN_PRODUCTION"}
    BY <1>3 DEF Rollup
  <2>2. status' # "PENDING_DISPATCH_APPROVAL"
    BY <1>1, <2>1 DEF TurnOK, Knows
  <2>3. PICK c : /\ c = Call("rollup", req[r].ids, req[r].items, Rollup(req[r].status, stage'),
                             req[r].stage, 0)
    OBVIOUS
  <2>4. c.pc = "rollup"
    BY <2>3 DEF Call
  <2>5. Knows(c)' /\ KnowsStages(c)'
    BY <2>2, <2>4 DEF Knows, KnowsStages, ShippingPcs, BookingPcs
  <2>6. req' = [req EXCEPT ![r] = c]
    BY <1>3, <2>3 DEF Goto
  <2>7. QED
    BY <1>1, <2>5, <2>6, GotoTurn
<1>4. QED
  BY <1>2, <1>3 DEF UpdateItemStage

(* A booking goes on: the rows are as it read them.                        *)
LEMMA BookingGoesOnTurn ==
  ASSUME TypeOK, TurnOK, UNCHANGED setting, NEW r \in Reqs,
         CourierConfirms(r) \/ BookItemsTx(r) \/ MarkManuallyDispatchedTx(r)
  PROVE  TurnOK'
<1>1. /\ UNCHANGED <<status, pending, quote, quotes, stage, dispatched, parcels>>
      /\ req[r].pc \in ShippingPcs /\ ~ At(r, "idle")
  BY DEF CourierConfirms, BookItemsTx, MarkManuallyDispatchedTx, At, ShippingPcs, BookingPcs,
         orderRow, itemRows, courier
<1>2. PICK pc, s, n :
        /\ Goto(r, pc, s, n)
        /\ \/ pc = "booked"
           \/ pc = "bookTx" /\ n = quote /\ s = NextOrderStatus(req[r].ids)
           \/ pc = "manualTx" /\ n = quote /\ At(r, "manual") /\ s = req[r].status
  BY DEF CourierConfirms, BookItemsTx, MarkManuallyDispatchedTx
<1>3. PICK c : c = Call(pc, req[r].ids, req[r].items, s, req[r].stage, n)
  OBVIOUS
<1>4. /\ c.pc = pc /\ c.ids = req[r].ids /\ c.items = req[r].items /\ c.status = s /\ c.n = n
      /\ req' = [req EXCEPT ![r] = c]
  BY <1>2, <1>3 DEF Call, Goto
<1>5. Knows(c)
  BY <1>1, <1>2, <1>4, NextOrderStatusType DEF TurnOK, Knows, At
<1>6. "sheet" \notin setting.handlers => KnowsStages(c)
  BY <1>1, <1>2, <1>4 DEF TurnOK, KnowsStages, At
<1>7. Knows(c)' /\ ("sheet" \notin setting.handlers => KnowsStages(c)')
  BY <1>1, <1>5, <1>6
     DEF Knows, KnowsStages, ToDispatch, NextOrderStatus, Ready, NothingPutBack
<1>8. QED
  BY <1>1, <1>4, <1>7, GotoTurn

(* A new parcel holds items no other one holds, and takes the open quote   *)
(* or none.                                                                *)
LEMMA ShipTurn ==
  ASSUME TypeOK, TurnOK, UNCHANGED <<setting, quotes>>, NEW r \in Reqs, NEW kind, NEW n,
         Ship(r, kind, n), Done(r), req[r].pc \in ShippingPcs,
         \/ n = quote /\ quote' = 0
         \/ n = 0 /\ UNCHANGED quote
  PROVE  TurnOK'
<1> DEFINE new == [no |-> made + 1, kind |-> kind, items |-> req[r].items,
                   charge |-> n, delivered |-> FALSE]
<1>1. parcels' = parcels \cup {new} /\ dispatched' = dispatched \cup req[r].items
  BY DEF Ship, NewParcel
<1>2. new.items = req[r].items /\ new.charge = n
  OBVIOUS
<1> HIDE DEF new
<1>3. req[r].items \cap dispatched = {}
  BY DEF TurnOK, Knows
<1>4. /\ quote \in Nat /\ quotes \in Nat /\ quote <= quotes
      /\ \A p \in parcels : p.charge \in Nat
  BY DEF TypeOK, Parcels, TurnOK, Charges
<1>5. Charges'
  <2>1. quote' <= quotes' /\ n <= quotes'
    BY <1>4
  <2>2. ASSUME NEW p \in parcels'
        PROVE  p.charge <= quotes' /\ (p.charge = quote' => quote' = 0)
    BY <1>1, <1>2, <1>4, <2>1, <2>2 DEF TurnOK, Charges
  <2>3. ASSUME NEW p \in parcels', NEW q \in parcels', p.charge # 0, p.charge = q.charge
        PROVE  p = q
    BY <1>1, <1>2, <1>4, <2>3 DEF TurnOK, Charges
  <2>4. QED
    BY <2>1, <2>2, <2>3 DEF Charges
<1>6. (NothingPutBack => Marked)'
  BY <1>1, <1>2, <1>3 DEF TurnOK, Marked, NothingPutBack
<1>7. ~ At(r, "idle")
  BY DEF At, ShippingPcs, BookingPcs
<1>8. QED
  BY <1>5, <1>6, <1>7, DoneTurn

LEMMA BookingEndsTurn ==
  ASSUME TypeOK, TurnOK, UNCHANGED setting, NEW r \in Reqs,
         \/ CourierRefuses(r) \/ BookItems(r) \/ BookTransport(r) \/ SendDirectOtp(r)
         \/ MarkManuallyDispatched(r) \/ Fails(r)
  PROVE  TurnOK'
<1> USE DEF At, ShippingPcs, BookingPcs
<1>1. CASE CourierRefuses(r) \/ Fails(r)
  <2>1. ~ At(r, "idle") /\ Done(r) /\ UNCHANGED <<parcels, dispatched, quote, quotes>>
    BY <1>1 DEF CourierRefuses, Fails, orderRow, itemRows, courier
  <2>2. QED
    BY <2>1, DoneTurn, ParcelsUnchanged
<1>2. CASE BookItems(r)
  <2>1. PICK kind : Ship(r, kind, req[r].n)
    BY <1>2 DEF BookItems
  <2>2. req[r].n = quote
    BY <1>2 DEF BookItems, TurnOK, Knows
  <2>3. QED
    BY <1>2, <2>1, <2>2, ShipTurn DEF BookItems
<1>3. ASSUME NEW pc \in ShippingPcs, NEW kind, HandOver(r, pc, kind) PROVE TurnOK'
  BY <1>3, ShipTurn DEF HandOver
<1>4. CASE BookTransport(r) \/ SendDirectOtp(r)
  BY <1>3, <1>4 DEF BookTransport, SendDirectOtp
<1>5. CASE MarkManuallyDispatched(r)
  <2>1. req[r].n = quote
    BY <1>5 DEF MarkManuallyDispatched, TurnOK, Knows
  <2>2. QED
    BY <1>5, <2>1, ShipTurn DEF MarkManuallyDispatched
<1>6. QED
  BY <1>1, <1>2, <1>4, <1>5

LEMMA ReturnToQueueTurn ==
  ASSUME TypeOK, TurnOK, UNCHANGED setting, NEW r \in Reqs, ReturnToQueue(r)
  PROVE  TurnOK'
<1>1. /\ Done(r) /\ ~ At(r, "idle") /\ UNCHANGED <<quote, quotes>> /\ parcels' \subseteq parcels
  BY DEF ReturnToQueue, At
<1>2. Charges'
  BY <1>1 DEF TurnOK, Charges
<1>3. ~ NothingPutBack
  BY DEF ReturnToQueue, TurnOK, Knows
<1>4. (NothingPutBack => Marked)'
  BY <1>3 DEF NothingPutBack
<1>5. QED
  BY <1>1, <1>2, <1>4, DoneTurn

(* The steps of other screens: they change neither what is submitted, nor  *)
(* what is marked, nor the quote, and only a sheet changes stages.         *)
LEMMA OneStepTurn ==
  ASSUME TypeOK, TurnOK, UNCHANGED setting, OneStep
  PROVE  TurnOK'
<1>1. /\ UNCHANGED <<pending, quote, quotes, dispatched, req>>
      /\ status' = status \/ status' \in {"CANCELLED", "DELIVERED"}
      /\ UNCHANGED stage \/ "sheet" \in setting.handlers
  BY DEF OneStep, RejectOrder, UpdateSheetStatus, RequestCancellation, RejectCancellation,
         MarkDelivered, VerifyDirectOtp, BigshipCancels, SyncShipmentFromBigship,
         orderRow, itemRows, courier
<1>2. \/ UNCHANGED parcels
      \/ \E p \in parcels, d \in BOOLEAN :
           parcels' = (parcels \ {p}) \cup {[p EXCEPT !.delivered = d]}
  BY DEF OneStep, RejectOrder, UpdateSheetStatus, RequestCancellation, RejectCancellation,
         MarkDelivered, VerifyDirectOtp, BigshipCancels, SyncShipmentFromBigship, Deliver,
         orderRow, itemRows, courier
<1>3. Charges' /\ (NothingPutBack => Marked)'
  <2>1. CASE UNCHANGED parcels
    BY <1>1, <2>1, ParcelsUnchanged
  <2>2. ASSUME NEW p \in parcels, NEW d \in BOOLEAN,
               parcels' = (parcels \ {p}) \cup {[p EXCEPT !.delivered = d]}
        PROVE  Charges' /\ (NothingPutBack => Marked)'
    <3> DEFINE np == [p EXCEPT !.delivered = d]
    <3>1. p \in Parcels
      BY DEF TypeOK
    <3>2. np.items = p.items /\ np.charge = p.charge
      BY <3>1 DEF Parcels
    <3>3. parcels' = (parcels \ {p}) \cup {np}
      BY <2>2
    <3> HIDE DEF np
    <3>4. Charges'
      BY <1>1, <3>2, <3>3 DEF TurnOK, Charges
    <3>5. (NothingPutBack => Marked)'
      BY <1>1, <3>2, <3>3 DEF TurnOK, Marked, NothingPutBack
    <3>6. QED
      BY <3>4, <3>5
  <2>3. QED
    BY <1>2, <2>1, <2>2
<1>4. Alone'
  BY <1>1 DEF TurnOK, Alone, At
<1>5. \A r \in Reqs : Knows(req[r])'
  BY <1>1 DEF TurnOK, Knows, NothingPutBack
<1>6. "sheet" \notin setting'.handlers => \A r \in Reqs : KnowsStages(req[r])'
  BY <1>1 DEF TurnOK, KnowsStages, ToDispatch, NextOrderStatus, Ready
<1>7. QED
  BY <1>3, <1>4, <1>5, <1>6 DEF TurnOK

LEMMA InitTurn == Init => TurnInv
<1> SUFFICES ASSUME Init PROVE TurnOK
  BY DEF TurnInv
<1>1. \A r \in Reqs : At(r, "idle") /\ Knows(req[r]) /\ KnowsStages(req[r])
  BY KnowsIdle DEF Init, At, Idle, Call
<1>2. Charges /\ Marked
  BY DEF Init, Charges, Marked
<1>3. QED
  BY <1>1, <1>2 DEF TurnOK, Alone

LEMMA NextTurn == TypeOK /\ TurnInv /\ [Next]_vars => TurnInv'
<1> SUFFICES ASSUME TypeOK, TurnInv, [Next]_vars, setting'.inTurn PROVE TurnOK'
  BY DEF TurnInv
<1>0. UNCHANGED setting /\ setting.inTurn /\ TurnOK
  BY DEF Next, vars, TurnInv
<1>1. CASE OneStep
  BY <1>0, <1>1, OneStepTurn
<1>2. ASSUME NEW r \in Reqs, Accounts(r) \/ Production(r) \/ Sales(r) PROVE TurnOK'
  BY <1>0, <1>2, ChecksTurn, ReadsTurn, OrderWritesTurn, UpdateItemStageTurn
     DEF Accounts, Production, Sales
<1>3. ASSUME NEW r \in Reqs, Booking(r) \/ Fails(r) PROVE TurnOK'
  BY <1>0, <1>3, ReadsTurn, BookingGoesOnTurn, BookingEndsTurn, ReturnToQueueTurn DEF Booking
<1>4. CASE UNCHANGED vars
  <2>1. UNCHANGED <<setting, status, pending, quote, quotes, stage, dispatched, parcels, req>>
    BY <1>4 DEF vars
  <2>2. Charges' /\ (NothingPutBack => Marked)'
    BY <1>0, <2>1, ParcelsUnchanged
  <2>3. Alone'
    BY <1>0, <2>1 DEF TurnOK, Alone, At
  <2>4. \A r \in Reqs : Knows(req[r])'
    BY <1>0, <2>1 DEF TurnOK, Knows, NothingPutBack
  <2>5. "sheet" \notin setting'.handlers => \A r \in Reqs : KnowsStages(req[r])'
    BY <1>0, <2>1 DEF TurnOK, KnowsStages, ToDispatch, NextOrderStatus, Ready
  <2>6. QED
    BY <2>2, <2>3, <2>4, <2>5 DEF TurnOK
<1>5. QED
  BY <1>1, <1>2, <1>3, <1>4 DEF Next

LEMMA AlwaysTurn == Spec => [](TypeOK /\ TurnInv)
<1>1. Init => TypeOK /\ TurnInv
  BY InitType, InitTurn
<1>2. (TypeOK /\ TurnInv) /\ [Next]_vars => (TypeOK /\ TurnInv)'
  BY NextType, NextTurn
<1>3. QED
  BY <1>1, <1>2, PTL DEF Spec

(* Handlers in turn, nothing put back: no item travels in two parcels,     *)
(* whichever way the parcels leave and wherever a booking breaks off.      *)
THEOREM OneParcelPerItem == Spec => []NoItemShippedTwice
<1>1. TurnInv => NoItemShippedTwice
  BY DEF TurnInv, TurnOK, Marked, NoItemShippedTwice
<1>2. QED
  BY <1>1, AlwaysTurn, PTL

(* Handlers in turn: a quoted charge lands on one parcel at most, also     *)
(* when parcels are put back in the queue and booked again.                *)
THEOREM OneParcelPerQuote == Spec => []QuoteTakenOnce
<1>1. TurnInv => QuoteTakenOnce
  BY DEF TurnInv, TurnOK, Charges, QuoteTakenOnce
<1>2. QED
  BY <1>1, AlwaysTurn, PTL

------------------------------------------------------------------------------
(* What a step may not do to the order, handlers being in turn.            *)

(* A step that starts a request writes nothing else.                       *)
LEMMA StartsWriteNothing ==
  ASSUME NEW r \in Reqs,
         \/ ApproveOrderCheck(r) \/ ReturnToAccountsCheck(r) \/ ApproveDispatchCheck(r)
         \/ RejectDispatchCheck(r) \/ AssignCategoryRead(r) \/ SubmitForDispatchCheck(r)
         \/ UpdateItemStageRead(r) \/ ApproveCancellationCheck(r) \/ SubmitDispatchBatchRead(r)
         \/ BookItemsRead(r) \/ BookTransportRead(r) \/ SendDirectOtpRead(r)
         \/ MarkManuallyDispatchedRead(r) \/ AutoReturnRead(r) \/ ReturnToQueueRead(r)
  PROVE  UNCHANGED <<status, pending, stage, dispatched>>
<1>1. \E h, c : Start(r, h, c)
  BY DEF ApproveOrderCheck, ReturnToAccountsCheck, ApproveDispatchCheck, RejectDispatchCheck,
         AssignCategoryRead, SubmitForDispatchCheck, UpdateItemStageRead,
         ApproveCancellationCheck, SubmitDispatchBatchRead, BookItemsRead, BookTransportRead,
         SendDirectOtpRead, HandOverRead, MarkManuallyDispatchedRead, AutoReturnRead,
         ReturnToQueueRead
<1>2. QED
  BY <1>1 DEF Start, orderRow, itemRows

(* The steps that ship items, and what they ship.                          *)
Ships(r) ==
  /\ req[r].pc \in {"bookTx", "transport", "direct", "manualTx"}
  /\ dispatched' = dispatched \cup req[r].items
  /\ status' = req[r].status
  /\ UNCHANGED <<pending, stage>>

LEMMA BookingSteps ==
  ASSUME NEW r \in Reqs,
         \/ CourierConfirms(r) \/ CourierRefuses(r) \/ BookItemsTx(r) \/ BookItems(r)
         \/ BookTransport(r) \/ SendDirectOtp(r)
         \/ MarkManuallyDispatchedTx(r) \/ MarkManuallyDispatched(r) \/ Fails(r)
  PROVE  Ships(r) \/ UNCHANGED <<status, pending, stage, dispatched>>
<1>1. CASE \/ CourierConfirms(r) \/ CourierRefuses(r) \/ BookItemsTx(r)
           \/ MarkManuallyDispatchedTx(r) \/ Fails(r)
  BY <1>1 DEF CourierConfirms, CourierRefuses, BookItemsTx, MarkManuallyDispatchedTx, Fails,
              orderRow, itemRows
<1>2. CASE BookItems(r) \/ BookTransport(r) \/ SendDirectOtp(r) \/ MarkManuallyDispatched(r)
  BY <1>2 DEF BookItems, BookTransport, SendDirectOtp, HandOver, MarkManuallyDispatched,
              Ship, Ships, At
<1>3. QED
  BY <1>1, <1>2

(* Every step leaves the list alone or adds to it, or takes the order away *)
(* from accounts' list; none takes a submitted order back to production;   *)
(* and only Ships marks an item.                                           *)
LEMMA EveryStep ==
  ASSUME TypeOK, TurnOK, Next
  PROVE  /\ pending \subseteq pending' \/ status' # "PENDING_DISPATCH_APPROVAL"
         /\ status = "PENDING_DISPATCH_APPROVAL" => status' # "IN_PRODUCTION"
         /\ \/ UNCHANGED dispatched
            \/ dispatched' = {} /\ status' = "READY_FOR_DISPATCH"
            \/ \E r \in Reqs : Ships(r)
<1> DEFINE Q == /\ pending \subseteq pending' \/ status' # "PENDING_DISPATCH_APPROVAL"
                /\ status = "PENDING_DISPATCH_APPROVAL" => status' # "IN_PRODUCTION"
                /\ \/ UNCHANGED dispatched
                   \/ dispatched' = {} /\ status' = "READY_FOR_DISPATCH"
                   \/ \E r \in Reqs : Ships(r)
<1>0. ASSUME UNCHANGED <<status, pending, dispatched>> PROVE Q
  BY <1>0
<1>1. ASSUME OneStep PROVE Q
  <2>1. /\ UNCHANGED <<pending, dispatched>>
        /\ status' = status \/ status' \in {"CANCELLED", "DELIVERED"}
    BY <1>1 DEF OneStep, RejectOrder, UpdateSheetStatus, RequestCancellation,
                RejectCancellation, MarkDelivered, VerifyDirectOtp, BigshipCancels,
                SyncShipmentFromBigship, orderRow, itemRows
  <2>2. QED
    BY <2>1
<1>2. ASSUME NEW r \in Reqs,
             \/ ApproveOrder(r) \/ ReturnToAccounts(r) \/ ApproveDispatch(r)
             \/ RejectDispatch(r) \/ AssignCategory(r) \/ ApproveCancellation(r)
             \/ WriteRollup(r) \/ SubmitDispatchBatch(r) \/ SubmitForDispatch(r)
      PROVE  Q
  <2>1. dispatched' = dispatched
    BY <1>2 DEF ApproveOrder, ReturnToAccounts, ApproveDispatch, RejectDispatch,
                AssignCategory, ApproveCancellation, WriteRollup, SubmitDispatchBatch,
                SubmitForDispatch, itemRows
  <2>2. CASE ApproveOrder(r) \/ ReturnToAccounts(r) \/ ApproveDispatch(r) \/ RejectDispatch(r)
    BY <2>1, <2>2 DEF ApproveOrder, ReturnToAccounts, ApproveDispatch, RejectDispatch
  <2>3. CASE AssignCategory(r) \/ WriteRollup(r)
    <3>1. status # "PENDING_DISPATCH_APPROVAL" /\ pending' = pending
      BY <2>3 DEF AssignCategory, WriteRollup, At, TurnOK, Knows
    <3>2. QED
      BY <2>1, <3>1
  <2>4. CASE ApproveCancellation(r)
    BY <2>1, <2>4 DEF ApproveCancellation
  <2>5. CASE SubmitDispatchBatch(r)
    BY <2>1, <2>5 DEF SubmitDispatchBatch, At, TurnOK, Knows
  <2>6. CASE SubmitForDispatch(r)
    BY <2>1, <2>6 DEF SubmitForDispatch
  <2>7. QED
    BY <1>2, <2>2, <2>3, <2>4, <2>5, <2>6
<1>3. ASSUME NEW r \in Reqs, UpdateItemStage(r) PROVE Q
  BY <1>0, <1>3 DEF UpdateItemStage, orderRow
<1>4. ASSUME NEW r \in Reqs, Ships(r) PROVE Q
  BY <1>4 DEF Ships, TurnOK, Knows
<1>5. ASSUME NEW r \in Reqs, ReturnToQueue(r) PROVE Q
  BY <1>5 DEF ReturnToQueue, Requeue
<1> HIDE DEF Q
<1>6. ASSUME NEW r \in Reqs, Accounts(r) \/ Production(r) \/ Sales(r) PROVE Q
  BY <1>0, <1>2, <1>3, <1>6, StartsWriteNothing DEF Accounts, Production, Sales
<1>7. ASSUME NEW r \in Reqs, Booking(r) \/ Fails(r) PROVE Q
  BY <1>0, <1>4, <1>5, <1>7, StartsWriteNothing, BookingSteps DEF Booking
<1>8. Q
  BY <1>1, <1>6, <1>7 DEF Next
<1>9. QED
  BY <1>8 DEF Q

(* Handlers in turn: an item on the list accounts sees stays there while   *)
(* the order waits, whatever else is submitted, produced or booked.        *)
THEOREM SubmittedItemsStayListed == Spec => AwaitingStaysListed
<1>1. TypeOK /\ TurnInv /\ [Next]_vars =>
        [/\ setting.inTurn
         /\ status = "PENDING_DISPATCH_APPROVAL" /\ status' = "PENDING_DISPATCH_APPROVAL"
         => pending \subseteq pending']_vars
  BY EveryStep DEF TurnInv
<1>2. QED
  BY <1>1, AlwaysTurn, PTL DEF Spec, AwaitingStaysListed

(* Handlers in turn: production takes no submitted order back, although    *)
(* the status it rolls up was read before a stage was written.             *)
THEOREM SubmittedLeavesProduction == Spec => ProductionLeavesSubmitted
<1>1. TypeOK /\ TurnInv /\ [Next]_vars =>
        [setting.inTurn /\ status = "PENDING_DISPATCH_APPROVAL"
           => status' # "IN_PRODUCTION"]_vars
  BY EveryStep DEF TurnInv
<1>2. QED
  BY <1>1, AlwaysTurn, PTL DEF Spec, ProductionLeavesSubmitted

(* The status of a shipment says whether it was the last, given that the   *)
(* items were chosen and the status computed from rows that still stand.   *)
LEMMA ShipsTell ==
  ASSUME TypeOK, TurnOK, "sheet" \notin setting.handlers, NEW r \in Reqs, Ships(r)
  PROVE  (status' = "DISPATCHED") = (dispatched' = Items /\ Ready = Items)
<1> DEFINE ids == req[r].ids
<1>1. ids \subseteq Items /\ dispatched \subseteq Items /\ Ready \subseteq Items
  BY FieldTypes DEF TypeOK, Ready
<1>2. req[r].items = ToDispatch(ids) /\ req[r].status = NextOrderStatus(ids)
  BY DEF Ships, TurnOK, KnowsStages, ShippingPcs, BookingPcs
<1>3. dispatched' = dispatched \cup ToDispatch(ids) /\ status' = NextOrderStatus(ids)
  BY <1>2 DEF Ships
<1> HIDE DEF ids
<1>4. (status' = "DISPATCHED") <=> (Ready = Items /\ Items \subseteq ids \cup dispatched)
  BY <1>3 DEF NextOrderStatus
<1>5. Ready = Items => (dispatched' = Items <=> Items \subseteq ids \cup dispatched)
  BY <1>1, <1>3 DEF ToDispatch
<1>6. QED
  BY <1>4, <1>5

(* Handlers in turn and no sheet in between: a step that ships leaves the  *)
(* order DISPATCHED exactly when every item is finished and shipped.       *)
THEOREM DispatchedIsAllShipped == Spec => DispatchedWhenAllShipped
<1>1. TypeOK /\ TurnInv /\ [Next]_vars =>
        [setting.inTurn /\ "sheet" \notin setting.handlers /\ dispatched' # dispatched =>
           (status' = "DISPATCHED") = (dispatched' = Items /\ Ready = Items)]_vars
  <2> SUFFICES ASSUME TypeOK, TurnInv, Next, setting.inTurn, "sheet" \notin setting.handlers,
                      dispatched' # dispatched
               PROVE  (status' = "DISPATCHED") = (dispatched' = Items /\ Ready = Items)
    OBVIOUS
  <2>1. CASE dispatched' = {} /\ status' = "READY_FOR_DISPATCH"
    BY <2>1, OrderDispatchAssumption
  <2>2. CASE \E r \in Reqs : Ships(r)
    BY <2>2, ShipsTell DEF TurnInv
  <2>3. QED
    BY <2>1, <2>2, EveryStep DEF TurnInv
<1>2. QED
  BY <1>1, AlwaysTurn, PTL DEF Spec, DispatchedWhenAllShipped
=============================================================================
