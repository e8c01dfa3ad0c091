--------------------------- MODULE MCOrderDispatch ---------------------------
(***************************************************************************)
(* Two items and two requests, in one of five settings:                    *)
(*   everyone    every handler but cancellation, delivery, the             *)
(*               transporter's and the hand-over with an OTP; one parcel,  *)
(*               in turn;                                                  *)
(*   cancels     cancellations among the rest of an order's life, one      *)
(*               parcel, in turn;                                          *)
(*   forward     two parcels and a quote, nothing put back, in turn;       *)
(*   overlaps    what makes parcels and takes back those Bigship           *)
(*               cancelled, two parcels, every overlap of two handlers;    *)
(*   returns     the same with deliveries and returns by hand, one parcel. *)
(***************************************************************************)
EXTENDS OrderDispatch, TLC

CONSTANTS i1, i2, r1, r2

TwoItems == {i1, i2}
TwoReqs == {r1, r2}
Symmetry == Permutations(Items) \cup Permutations(Reqs)

Shipping == {"approveOrder", "sheet", "submit", "approveDispatch", "book", "sync"}

Everyone ==
  [inTurn |-> TRUE, handlers |-> AllHandlers \ {"cancellation", "transport", "direct", "deliver"},
   parcels |-> 1, quotes |-> 0]
Cancels ==
  [inTurn |-> TRUE, handlers |-> {"approveOrder", "rejectOrder", "stage", "submit",
                                  "approveDispatch", "rejectDispatch", "cancellation",
                                  "book", "manual", "return"},
   parcels |-> 1, quotes |-> 0]
Forward ==
  [inTurn |-> TRUE, handlers |-> {"approveOrder", "stage", "submit", "approveDispatch",
                                  "book", "transport", "direct", "manual", "deliver"},
   parcels |-> 2, quotes |-> 1]
Overlaps ==
  [inTurn |-> FALSE, handlers |-> Shipping, parcels |-> 2, quotes |-> 0]
Returns ==
  [inTurn |-> FALSE, handlers |-> Shipping \cup {"return", "deliver"},
   parcels |-> 1, quotes |-> 0]

AllSettings == {Everyone, Cancels, Forward, Overlaps, Returns}
=============================================================================
