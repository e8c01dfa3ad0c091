----------------------------- MODULE LoyaltyCalc -----------------------------
(***************************************************************************)
(* The arithmetic of the loyalty programme (loyalty/loyalty.calc.ts):      *)
(* what an invoiced order earns, what a bill may redeem, and what a        *)
(* cancelled order claws back.                                             *)
(*                                                                         *)
(* Money and rates are integers in units of the instance's choice, and    *)
(* Whole is how many (money unit * rate unit) make a point: 100 for rupees *)
(* and percents, 10000 for paise and percents.                             *)
(*                                                                         *)
(* The code computes in doubles: Math.floor((a - b) * (r / 100)).  Where   *)
(* the exact share is not a whole number it is at least 1 / Whole away     *)
(* from one, far more than the doubles are off, and the floor is exact.    *)
(* Where it is a whole number the doubles may fall just short of it and    *)
(* lose a point: floor(100 * (29 / 100)) is 28.  Which amounts and rates   *)
(* do is a fact of IEEE 754, here a constant, and so is which discounts of *)
(* exactly 5% come out above 5.                                            *)
(***************************************************************************)
EXTENDS Integers

CONSTANTS
  Whole,   \* how many (money unit * rate unit) make a point
  Short,   \* <<a, b, r>>: (a - b) * (r / 100) falls short of a whole number
  Steep    \* <<discount, subtotal>>: 5%, but (discount / subtotal) * 100 > 5

ASSUME CalcAssumption ==
  /\ Whole \in Nat \ {0}
  /\ \A x \in Short :
       /\ x \in Int \X Int \X Nat
       /\ (x[1] - x[2]) * x[3] > 0
       /\ Whole * (((x[1] - x[2]) * x[3]) \div Whole) = (x[1] - x[2]) * x[3]
  /\ \A x \in Steep : x \in Nat \X Nat /\ x[2] > 0 /\ 100 * x[1] = 5 * x[2]

LesserOf(a, b) == IF a <= b THEN a ELSE b
GreaterOf(a, b) == IF a >= b THEN a ELSE b

(* Math.floor(Math.max(0, a - b) * (r / 100)).                             *)
Share(a, b, r) == GreaterOf(0, a - b) * r
PercentOf(a, b, r) ==
  IF <<a, b, r>> \in Short THEN Share(a, b, r) \div Whole - 1 ELSE Share(a, b, r) \div Whole

(* An order as earnForOrder sees it.  The caller passes discountPct = 0     *)
(* where the subtotal is not positive.  A null gross profit is the same case *)
(* as a missing cost.                                                      *)
LowDiscount(f) ==
  \/ f.subtotal <= 0
  \/ 100 * f.discount <= 5 * f.subtotal /\ <<f.discount, f.subtotal>> \notin Steep
Flagged(f) == f.hasMissingCost \/ f.grossProfit < 0

(* Mutated forms: the cap on the gross-profit tier left out; rounding the  *)
(* bill cap up; a reversal flagged at exactly the balance.                 *)
ComputeEarnPoints_NoFlatCap(f, t) ==
  LET raw == IF LowDiscount(f) THEN PercentOf(f.subtotal, f.discount, t.earnRatePct)
             ELSE PercentOf(f.grossProfit, 0, t.gpRatePct)
  IN  IF Flagged(f) THEN 0 ELSE GreaterOf(0, LesserOf(raw, t.pointCap))

ComputeRedemption_RoundsUp(billValue, availableBalance, requested, capPct) ==
  LesserOf((Share(billValue, 0, capPct) + Whole - 1) \div Whole,
           LesserOf(GreaterOf(0, availableBalance), GreaterOf(0, requested)))

NeedsManualReconciliation_AtBalance(currentBalance, pointsToReverse) ==
  pointsToReverse > 0 /\ currentBalance <= pointsToReverse

(* Rounding down the lesser of the two shares is the lesser of the two     *)
(* rounded down.                                                           *)
ComputeEarnPoints(f, t) ==
  LET flat == PercentOf(f.subtotal, f.discount, t.earnRatePct)
      raw  == IF LowDiscount(f) THEN flat
              ELSE LesserOf(PercentOf(f.grossProfit, 0, t.gpRatePct), flat)
  IN  IF Flagged(f) THEN 0 ELSE GreaterOf(0, LesserOf(raw, t.pointCap))

ComputeRedemption(billValue, availableBalance, requested, capPct) ==
  LesserOf(PercentOf(billValue, 0, capPct),
           LesserOf(GreaterOf(0, availableBalance), GreaterOf(0, requested)))

NeedsManualReconciliation(currentBalance, pointsToReverse) ==
  pointsToReverse > 0 /\ currentBalance < pointsToReverse

ComputeReversal(currentBalance, pointsToReverse) ==
  IF pointsToReverse <= 0 \/ NeedsManualReconciliation(currentBalance, pointsToReverse)
  THEN currentBalance
  ELSE currentBalance - pointsToReverse
=============================================================================
