--------------------------- MODULE MCLoyaltyTestMode ---------------------------
(* One real order and up to two simulated ones on the same wallet.       *)
EXTENDS LoyaltyTestMode, TLC

CONSTANTS p1, r1, r2

MCOrders == {0}
MCTestIds == 1..2
MCPhones == {p1}
MCPhoneOf == [o \in 0..2 |-> p1]
MCReqs == {r1, r2}
(* A simulation of a bill of 40 without discount: 2 points.                *)
MCFigures == [subtotal : {40}, discount : {0}, grossProfit : {9}, hasMissingCost : {FALSE}]
MCTerms == [earnRatePct : {5}, gpRatePct : {10}, pointCap : {2000}]
MCEarnPoints == {2}
MCRequests == {9}
MCBills == {4}
Symmetry == Permutations(Reqs)
=============================================================================
