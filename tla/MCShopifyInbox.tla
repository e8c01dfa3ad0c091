--------------------------- MODULE MCShopifyInbox ---------------------------
(* A shop order of up to two versions, delivered by two hooks.             *)
EXTENDS ShopifyInbox

CONSTANTS u1

OneReviewer == {u1}
Nobody == {}
TwoVersions == {1, 2}
MCTyped == {1, 2}
MCLines == [c \in {1, 2} |-> 1]

Snap(cancelled, paid, content) ==
  [cancelled |-> cancelled, paid |-> paid, content |-> content]

(* Edited and paid more, while Accounts works on the receipts; edited,     *)
(* then cancelled before it was paid, while order and items move on.       *)
PaidMore == <<Snap(FALSE, 1, 1), Snap(FALSE, 2, 2)>>
Withdrawn == <<Snap(FALSE, 0, 1), Snap(TRUE, 0, 2)>>
MCHistories == {PaidMore, Withdrawn}
MCScenes ==
  [h \in MCHistories |->
     IF h = PaidMore THEN {"approval", "receipts"}
     ELSE {"approval", "order", "press", "cancellation", "restart"}]

Edited == {PaidMore}
Receipts == [h \in Edited |-> {"approval", "receipts"}]
Restarts == [h \in Edited |-> {"restart"}]
=============================================================================
