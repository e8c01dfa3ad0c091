------------------------------ MODULE MCLoyalty ------------------------------
(* Two orders of one customer and two overlapping requests; and the        *)
(* arithmetic against declarative references, over orders, wallets and     *)
(* bills on both sides of each threshold.                                  *)
EXTENDS Loyalty

CONSTANTS o1, o2, p1, r1, r2

MCOrders == {o1, o2}
MCPhones == {p1}
MCPhoneOf == [o \in MCOrders |-> p1]
MCReqs == {r1, r2}
(* Money is in paise.  Earning 0 or 30 and a bill of 100.00 at 29%, of    *)
(* which the doubles make 28: the bill caps a redemption from the points   *)
(* of one order, and the balance caps the next.                            *)
MCEarnPoints == {0, 30}
MCBillValues == {10000}

MCFigures ==
  [subtotal : {0, 2000, 2240, 3230, 10000, 13100}, discount : {0, 100, 112, 1230, 3000},
   grossProfit : {-100, 0, 900, 1000, 5000}, hasMissingCost : BOOLEAN]
MCTerms == [earnRatePct : {5, 29}, gpRatePct : {10, 58}, pointCap : {30}]
MCAsks == {0, 1, 2, 99}
MCBills == {-200, 0, 100, 5000, 10000, 20000}

(* What IEEE 754 makes of these: 29% of 100.00, 58% of 50.00 and 5% of     *)
(* 32.30 - 12.30 fall short of a point, as does 29% of 200.00; and 1.12    *)
(* off 22.40 is more than 5%.                                              *)
MCShort == {<<10000, 0, 29>>, <<20000, 0, 29>>, <<5000, 0, 58>>, <<3230, 1230, 5>>}
MCSteep == {<<112, 2240>>}
=============================================================================
