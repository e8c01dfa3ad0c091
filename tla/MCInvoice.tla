------------------------------ MODULE MCInvoice ------------------------------
(* An order of one or two items, its receipts and its parcels, of 1 or 2.  *)
EXTENDS Invoice

CONSTANTS i1, i2, q1, q2, p1, p2, r1, r2

OneItem == {i1}
TwoItems == {i1, i2}
OneReceipt == {q1}
TwoReceipts == {q1, q2}
OneParcel == {p1}
TwoParcels == {p1, p2}
OneReq == {r1}
TwoReqs == {r1, r2}

(* Without the return to the queue, which takes a charge off no invoice.   *)
NothingReturned == OrderLocked \ {"return"}

MCPrices == {1, 2}
MCAmount == [p \in Receipts |-> IF p = q1 THEN 1 ELSE 2]
MCCharges == {0, 1}
MCNotes == {-1, 1}
=============================================================================
