SPECIFICATION Spec
CONSTANTS
  i1 = i1  i2 = i2  q1 = q1  q2 = q2  p1 = p1  p2 = p2  r1 = r1  r2 = r2
  Items <- OneItem
  Prices <- MCPrices
  Receipts <- TwoReceipts
  Amount <- MCAmount
  Parcels <- OneParcel
  Charges <- MCCharges
  Notes <- MCNotes
  MaxNotes = 1
  Reqs <- TwoReqs
  Handlers <- NothingReturned
  NoReq = NoReq
  NoId = NoId
INVARIANTS ReceivableIsTotal BalanceIsTotalLessPaid CourierIsCollected
