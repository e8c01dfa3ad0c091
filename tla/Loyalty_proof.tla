---------------------------- MODULE Loyalty_proof ----------------------------
(***************************************************************************)
(* Proofs about the loyalty wallet, for any orders, phones and number of   *)
(* overlapping requests.                                                   *)
(*                                                                         *)
(* NonNegativeBalance is not inductive: a redemption subtracts what it     *)
(* computed one step earlier and a reversal writes a balance computed one  *)
(* step earlier.  HeldInv says why that is sound: such a request holds the *)
(* row lock, so the row still is what it read.                             *)
(***************************************************************************)
EXTENDS Loyalty, SumTheorems, TLAPS

(* An order that has earned has a wallet, and so has one about to earn.    *)
EarnedInv ==
  /\ \A o \in TxnIds : Has(o, "EARN") =>
       PhoneOf[o] \in Phones /\ wallet[PhoneOf[o]] # NoWallet
  /\ \A r \in Reqs : At(r, "earnTx") => Phone(r) \in Phones /\ req[r].points \in Nat
  /\ \A r \in Reqs : At(r, "redeemTx") => Phone(r) \in Phones
  /\ \A r \in Reqs : At(r, "reverseTx") => Has(req[r].order, "EARN")

(* A request that has read the row FOR UPDATE still holds it.              *)
HeldInv ==
  /\ \A r \in Reqs : At(r, "redeemHeld") =>
       /\ Phone(r) \in Phones
       /\ lock[Phone(r)] = r
       /\ wallet[Phone(r)] # NoWallet
       /\ req[r].points <= wallet[Phone(r)]
  /\ \A r \in Reqs : At(r, "reverseHeld") =>
       /\ Phone(r) \in Phones
       /\ lock[Phone(r)] = r
       /\ wallet[Phone(r)] # NoWallet
       /\ req[r].seen = wallet[Phone(r)]

IInv == TypeOK /\ NonNegativeBalance /\ EarnedInv /\ HeldInv

------------------------------------------------------------------------------
(* Dividing by the size of a point and rounding down, as the rules read    *)
(* it: n points fit a share exactly if n is at most its quotient.          *)
LEMMA Floored ==
  ASSUME NEW w \in Nat \ {0}, NEW x \in Int, NEW n \in Int
  PROVE  /\ x \div w \in Int
         /\ w * n <= x <=> n <= x \div w
  OBVIOUS

LEMMA ShareNat ==
  ASSUME NEW a \in Int, NEW b \in Int, NEW r \in Nat
  PROVE  /\ Share(a, b, r) \in Nat
         /\ (a - b) * r \in Int
         /\ (a - b) * r > 0 => Share(a, b, r) = (a - b) * r
         /\ (a - b) * r <= 0 => Share(a, b, r) = 0
<1>1. \A x, y \in Nat : x * y \in Nat
  OBVIOUS
<1>2. GreaterOf(0, a - b) \in Nat
  BY DEF GreaterOf
<1>3. CASE a - b > 0
  <2>1. Share(a, b, r) = (a - b) * r
    BY <1>3 DEF Share, GreaterOf
  <2>2. (a - b) * r \in Nat
    BY <1>1, <1>3
  <2> QED  BY <2>1, <2>2
<1>4. CASE a - b <= 0
  <2>1. \A x \in Int, y \in Nat : x <= 0 => x * y <= 0
    OBVIOUS
  <2>2. Share(a, b, r) = 0
    BY <1>4 DEF Share, GreaterOf
  <2> QED  BY <2>1, <2>2, <1>4
<1> QED  BY <1>3, <1>4

(* PercentOf is the most points that fit the share, or, where the doubles  *)
(* fall short, one less.                                                   *)
LEMMA PercentFits ==
  ASSUME NEW a \in Int, NEW b \in Int, NEW r \in Nat
  PROVE  /\ PercentOf(a, b, r) \in Nat
         /\ \A m \in Nat : m > 0 /\ m <= PercentOf(a, b, r) => Whole * m <= (a - b) * r
         /\ \A m \in Nat : m > 0 /\ Whole * m <= (a - b) * r /\ m > PercentOf(a, b, r) =>
              m = PercentOf(a, b, r) + 1 /\ Slips(a, b, r, m)
<1> DEFINE x == Share(a, b, r)
           y == (a - b) * r
           q == x \div Whole
<1>1. Whole \in Nat \ {0}
  BY CalcAssumption
<1>2. /\ x \in Nat /\ y \in Int
      /\ (y > 0 => x = y) /\ (y <= 0 => x = 0)
  BY ShareNat
<1>3. <<a, b, r>> \in Short => y > 0 /\ Whole * (y \div Whole) = y
  BY CalcAssumption
<1>4. PercentOf(a, b, r) = IF <<a, b, r>> \in Short THEN q - 1 ELSE q
  BY DEF PercentOf
<1> HIDE DEF x, y
<1>5. q \in Int /\ \A m \in Int : Whole * m <= x <=> m <= q
  BY <1>1, <1>2, Floored
<1>6. q >= 0
  <2>1. Whole * 0 <= x
    BY <1>1, <1>2
  <2> QED  BY <1>5, <2>1
<1>7. \A m \in Nat : m > 0 => Whole * m \in Nat /\ Whole * m > 0
  BY <1>1
<1>8. \A m \in Nat : m > 0 => (Whole * m <= y <=> m <= q)
  BY <1>2, <1>5, <1>7
<1>9. <<a, b, r>> \in Short => q >= 1 /\ Whole * q = y
  <2> SUFFICES ASSUME <<a, b, r>> \in Short PROVE q >= 1 /\ Whole * q = y
    OBVIOUS
  <2>1. Whole * q = y /\ y > 0
    BY <1>2, <1>3
  <2>2. q # 0
    BY <1>1, <2>1
  <2> QED  BY <1>5, <1>6, <2>1, <2>2
<1> HIDE DEF q
<1>10. CASE <<a, b, r>> \in Short
  <2>1. PercentOf(a, b, r) = q - 1 /\ q \in Nat
    BY <1>4, <1>5, <1>6, <1>10
  <2>2. Slips(a, b, r, q)
    BY <1>9, <1>10 DEF Slips, y
  <2> QED  BY <1>8, <1>9, <1>10, <2>1, <2>2 DEF y
<1>11. CASE <<a, b, r>> \notin Short
  BY <1>4, <1>5, <1>6, <1>8, <1>11 DEF y
<1> QED  BY <1>10, <1>11

(* computeRedemption never returns more than the balance ...               *)
LEMMA RedemptionBounded ==
  ASSUME NEW v \in Int, NEW b \in Nat, NEW n \in Int, NEW c \in Nat
  PROVE  /\ ComputeRedemption(v, b, n, c) \in Int
         /\ ComputeRedemption(v, b, n, c) <= b
<1>1. PercentOf(v, 0, c) \in Nat
  BY PercentFits
<1> QED  BY <1>1 DEF ComputeRedemption, LesserOf, GreaterOf

(* ... and computeReversal never turns a balance negative.                 *)
LEMMA ReversalNonNegative ==
  ASSUME NEW b \in Nat, NEW n \in Int
  PROVE  ComputeReversal(b, n) \in Nat
  BY DEF ComputeReversal, NeedsManualReconciliation

(* The parts of the assumption that the steps below keep needing.          *)
LEMMA NoRowIsNoRow == NoRow \notin Rows
  BY LoyaltyAssumption

LEMMA TxnIdsFinite == IsFiniteSet(TxnIds)
<1>1. IsFiniteSet(Orders) /\ IsFiniteSet(TestIds)
  BY LoyaltyAssumption
<1> QED  BY <1>1, FS_Union DEF TxnIds

(* Points are natural numbers, whatever the order and the thresholds.      *)
LEMMA EarnPointsNat == EarnPoints \subseteq Nat
<1> SUFFICES ASSUME NEW f \in [subtotal : Nat, discount : Nat, grossProfit : Int,
                                hasMissingCost : BOOLEAN],
                    NEW t \in [earnRatePct : Nat, gpRatePct : Nat, pointCap : Nat]
             PROVE  ComputeEarnPoints(f, t) \in Nat
  BY LoyaltyAssumption
<1>1. /\ f.subtotal \in Int /\ f.discount \in Int /\ f.grossProfit \in Int
      /\ t.earnRatePct \in Nat /\ t.gpRatePct \in Nat /\ t.pointCap \in Nat
  OBVIOUS
<1>2. \A a, b \in Int, r \in Nat : PercentOf(a, b, r) \in Nat
  BY PercentFits
<1>3. /\ PercentOf(f.subtotal, f.discount, t.earnRatePct) \in Nat
      /\ PercentOf(f.grossProfit, 0, t.gpRatePct) \in Nat
  BY <1>1, <1>2
<1> QED  BY <1>1, <1>3 DEF ComputeEarnPoints, GreaterOf, LesserOf

LEMMA InitIInv == Init => IInv
<1> SUFFICES ASSUME Init PROVE IInv
  OBVIOUS
<1>1. TypeOK
  <2>1. status \in [Orders -> Statuses]
    BY DEF Init, Statuses
  <2>2. wallet \in [Phones -> Int \cup {NoWallet}]
    BY DEF Init
  <2>3. ledger \in [TxnIds -> [TxnTypes -> Rows \cup {NoRow}]]
    BY DEF Init
  <2>4. lock \in [Phones -> Reqs \cup {NoReq}]
    BY DEF Init
  <2>5. /\ req \in [Reqs -> ReqType]
        /\ \A r \in Reqs : req[r].pc = "idle"
    BY DEF Init, Idle, Call, ReqType, Pcs
  <2> QED  BY <2>1, <2>2, <2>3, <2>4, <2>5 DEF TypeOK, At
<1>2. NonNegativeBalance
  BY DEF Init, NonNegativeBalance
<1>3. \A r \in Reqs : req[r].pc = "idle"
  BY DEF Init, Idle, Call
<1>4. \A o \in TxnIds : ~ Has(o, "EARN")
  BY DEF Init, Has, TxnTypes
<1>5. EarnedInv /\ HeldInv
  BY <1>3, <1>4 DEF EarnedInv, HeldInv, At
<1> QED  BY <1>1, <1>2, <1>5 DEF IInv

(* A request that is not idle is a well-typed call.                        *)
LEMMA ActiveReq ==
  ASSUME TypeOK, NEW r \in Reqs, req[r].pc # "idle"
  PROVE  /\ req[r] \in ReqType
         /\ req[r].order \in TxnIds
         /\ req[r].points \in Int
         /\ req[r].seen \in Int
  BY DEF TypeOK, At, ReqType

(* A step that leaves the data alone and only starts or ends requests      *)
(* keeps what is known of the others.                                      *)
Outside == {"idle", "earn", "redeem", "reverse"}

LEMMA Frame ==
  ASSUME EarnedInv, HeldInv, UNCHANGED <<wallet, ledger, lock>>,
         \A r \in Reqs : req'[r] = req[r] \/ req'[r].pc \in Outside
  PROVE  EarnedInv' /\ HeldInv'
<1>1. \A r \in Reqs, pc \in Pcs \ Outside :
        At(r, pc)' => At(r, pc) /\ req'[r] = req[r]
  BY DEF At, Outside
<1>2. \A o \in TxnIds : Has(o, "EARN")' <=> Has(o, "EARN")
  BY DEF Has
<1>3. EarnedInv'
  <2>1. \A o \in TxnIds : Has(o, "EARN")' =>
          PhoneOf[o] \in Phones /\ wallet'[PhoneOf[o]] # NoWallet
    BY <1>2 DEF EarnedInv
  <2>2. \A r \in Reqs : At(r, "earnTx")' => Phone(r)' \in Phones /\ req'[r].points \in Nat
    BY <1>1 DEF EarnedInv, Phone, Pcs, Outside
  <2>3. \A r \in Reqs : At(r, "redeemTx")' => Phone(r)' \in Phones
    BY <1>1 DEF EarnedInv, Phone, Pcs, Outside
  <2>4. \A r \in Reqs : At(r, "reverseTx")' => Has(req[r].order, "EARN")'
    BY <1>1 DEF EarnedInv, Has, Pcs, Outside
  <2> QED  BY <2>1, <2>2, <2>3, <2>4, <1>1 DEF EarnedInv, Pcs, Outside, Has
<1>4. HeldInv'
  BY <1>1 DEF HeldInv, Phone, Pcs, Outside
<1> QED  BY <1>3, <1>4

LEMMA OrderStepIInv == ASSUME IInv, NEW o \in Orders, OrderStep(o) PROVE IInv'
<1> USE DEF IInv
<1>0. /\ UNCHANGED <<wallet, ledger, lock>>
      /\ status' \in [Orders -> Statuses]
  BY DEF OrderStep, ApproveOrder, ReturnToAccounts, CancelOrder, PostRedeem,
         PostReverse, TypeOK, Statuses
<1>1. \A r \in Reqs : \/ req'[r] = req[r]
                      \/ \E pc \in {"earn", "redeem", "reverse"}, n \in Nat :
                           req'[r] = Call(pc, o, n)
  <2>1. CASE ApproveOrder(o)
    BY <2>1, LoyaltyAssumption DEF ApproveOrder, TypeOK
  <2>2. CASE ReturnToAccounts(o)
    BY <2>2 DEF ReturnToAccounts
  <2>3. CASE CancelOrder(o)
    BY <2>3 DEF CancelOrder, TypeOK
  <2>4. CASE PostRedeem(o)
    BY <2>4, LoyaltyAssumption DEF PostRedeem, TypeOK
  <2>5. CASE PostReverse(o)
    BY <2>5 DEF PostReverse, TypeOK
  <2> QED  BY <2>1, <2>2, <2>3, <2>4, <2>5 DEF OrderStep
<1>2. DOMAIN req' = Reqs /\ req' = [r \in Reqs |-> req'[r]]
  BY DEF OrderStep, ApproveOrder, ReturnToAccounts, CancelOrder, PostRedeem,
         PostReverse, TypeOK
<1>3. o \in TxnIds
  BY DEF TxnIds
<1>4. \A r \in Reqs : /\ req'[r] \in ReqType
                      /\ req'[r].pc # "idle" => req'[r].order \in TxnIds
  <2> SUFFICES ASSUME NEW r \in Reqs
               PROVE  /\ req'[r] \in ReqType
                      /\ req'[r].pc # "idle" => req'[r].order \in TxnIds
    OBVIOUS
  <2>1. CASE req'[r] = req[r]
    BY <2>1 DEF TypeOK, At
  <2>2. CASE \E pc \in {"earn", "redeem", "reverse"}, n \in Nat : req'[r] = Call(pc, o, n)
    BY <2>2, <1>3 DEF Call, ReqType, Pcs
  <2> QED  BY <1>1, <2>1, <2>2
<1>5. TypeOK'
  BY <1>0, <1>2, <1>4 DEF TypeOK, At
<1>6. NonNegativeBalance'
  BY <1>0 DEF NonNegativeBalance
<1>7. ASSUME NEW r \in Reqs, req'[r] # req[r]
      PROVE  req'[r].pc \in {"earn", "redeem", "reverse"}
  <2>1. PICK pc \in {"earn", "redeem", "reverse"}, n \in Nat : req'[r] = Call(pc, o, n)
    BY <1>1, <1>7
  <2> QED  BY <2>1 DEF Call
<1>8. EarnedInv' /\ HeldInv'
  BY <1>0, <1>7, Frame DEF Outside
<1> QED  BY <1>5, <1>6, <1>8

------------------------------------------------------------------------------
(* How a request moves: the two ways ReqStep changes req.                  *)
ReqTypeOK == /\ req \in [Reqs -> ReqType]
             /\ \A r \in Reqs : ~ At(r, "idle") => req[r].order \in TxnIds

LEMMA GotoReq ==
  ASSUME TypeOK, NEW r \in Reqs, ~ At(r, "idle"),
         NEW pc \in Pcs, NEW n \in Int, NEW v \in Int, Goto(r, pc, n, v)
  PROVE  /\ ReqTypeOK'
         /\ req'[r].pc = pc /\ req'[r].points = n /\ req'[r].seen = v
         /\ req'[r].order = req[r].order
         /\ \A x \in Reqs \ {r} : req'[x] = req[x]
<1>1. req[r].order \in TxnIds
  BY DEF TypeOK
<1>2. req' \in [Reqs -> ReqType]
  BY <1>1 DEF TypeOK, Goto, ReqType
<1>3. \A x \in Reqs \ {r} : req'[x] = req[x]
  BY DEF TypeOK, Goto
<1>4. /\ req'[r].pc = pc /\ req'[r].points = n /\ req'[r].seen = v
      /\ req'[r].order = req[r].order
  BY DEF TypeOK, Goto
<1> QED  BY <1>1, <1>2, <1>3, <1>4 DEF TypeOK, ReqTypeOK, At

LEMMA DoneReq ==
  ASSUME TypeOK, NEW r \in Reqs, Done(r)
  PROVE  /\ ReqTypeOK'
         /\ req'[r].pc = "idle"
         /\ \A x \in Reqs \ {r} : req'[x] = req[x]
<1>1. Idle \in ReqType /\ Idle.pc = "idle"
  BY DEF Idle, Call, ReqType, Pcs
<1>2. /\ req' \in [Reqs -> ReqType] /\ req'[r].pc = "idle"
      /\ \A x \in Reqs \ {r} : req'[x] = req[x]
  BY <1>1 DEF TypeOK, Done
<1> QED  BY <1>2 DEF TypeOK, ReqTypeOK, At

(* Ending a request without touching the data.                             *)
LEMMA GiveUp ==
  ASSUME IInv, NEW r \in Reqs, Done(r), UNCHANGED <<status, wallet, ledger, lock>>
  PROVE  IInv'
<1> USE DEF IInv
<1>1. EarnedInv' /\ HeldInv'
  BY DoneReq, Frame DEF Outside
<1>2. TypeOK' /\ NonNegativeBalance'
  BY DoneReq DEF TypeOK, ReqTypeOK, NonNegativeBalance
<1> QED  BY <1>1, <1>2

(* Taking the first step into a transaction: nothing but req changes.      *)
LEMMA EnterTx ==
  ASSUME IInv, NEW r \in Reqs, ~ At(r, "idle"), NEW pc \in Pcs, NEW n \in Int,
         NEW v \in Int, Goto(r, pc, n, v), UNCHANGED <<status, wallet, ledger, lock>>,
         pc \in {"earnTx", "redeemTx", "reverseTx"},
         pc \in {"earnTx", "redeemTx"} => Phone(r) \in Phones,
         pc = "earnTx" => n \in Nat,
         pc = "reverseTx" => Has(req[r].order, "EARN")
  PROVE  IInv'
<1> USE DEF IInv
<1>1. TypeOK' /\ NonNegativeBalance'
  BY GotoReq DEF TypeOK, ReqTypeOK, NonNegativeBalance
<1>2. /\ req'[r].pc = pc /\ req'[r].points = n /\ req'[r].order = req[r].order
      /\ \A x \in Reqs \ {r} : req'[x] = req[x]
  BY GotoReq
<1>3. EarnedInv'
  BY <1>2 DEF EarnedInv, At, Has, Phone
<1>4. HeldInv'
  BY <1>2 DEF HeldInv, At, Phone
<1> QED  BY <1>1, <1>3, <1>4

LEMMA EarnReadIInv == ASSUME IInv, NEW r \in Reqs, EarnRead(r) PROVE IInv'
<1>1. CASE Done(r)
  BY <1>1, GiveUp DEF EarnRead
<1>2. ASSUME Phone(r) # NoPhone, NEW n \in EarnPoints, Goto(r, "earnTx", n, 0)
      PROVE  IInv'
  <2>1. n \in Nat /\ ~ At(r, "idle") /\ Phone(r) \in Phones
    BY <1>2, EarnPointsNat, LoyaltyAssumption DEF EarnRead, At, Phone, IInv, TypeOK
  <2> QED  BY <1>2, <2>1, EnterTx DEF EarnRead, Pcs
<1> QED  BY <1>1, <1>2 DEF EarnRead

LEMMA RedeemReadIInv == ASSUME IInv, NEW r \in Reqs, RedeemRead(r) PROVE IInv'
<1>1. CASE Done(r)
  BY <1>1, GiveUp DEF RedeemRead
<1>2. ASSUME Phone(r) # NoPhone, NEW v \in BillValues,
             Goto(r, "redeemTx", req[r].points, v)
      PROVE  IInv'
  <2>1. v \in Int /\ ~ At(r, "idle") /\ Phone(r) \in Phones /\ req[r].points \in Int
    BY <1>2, LoyaltyAssumption DEF RedeemRead, At, Phone, IInv, TypeOK, ReqType
  <2> QED  BY <1>2, <2>1, EnterTx DEF RedeemRead, Pcs
<1> QED  BY <1>1, <1>2 DEF RedeemRead

LEMMA ReverseReadIInv == ASSUME IInv, NEW r \in Reqs, ReverseRead(r) PROVE IInv'
<1>1. CASE Done(r)
  BY <1>1, GiveUp DEF ReverseRead
<1>2. CASE Has(req[r].order, "EARN") /\ Goto(r, "reverseTx", ledger[req[r].order]["EARN"].points, 0)
  <2>1. ~ At(r, "idle") /\ req[r].order \in TxnIds
    BY DEF ReverseRead, At, IInv, TypeOK
  <2>2. ledger[req[r].order]["EARN"] \in Rows
    BY <1>2, <2>1 DEF Has, IInv, TypeOK, TxnTypes
  <2>3. ledger[req[r].order]["EARN"].points \in Int
    BY <2>2 DEF Rows
  <2> QED  BY <1>2, <2>1, <2>3, EnterTx DEF ReverseRead, Pcs
<1> QED  BY <1>1, <1>2 DEF ReverseRead

LEMMA EarnConflictIInv == ASSUME IInv, NEW r \in Reqs, EarnConflict(r) PROVE IInv'
  BY GiveUp DEF EarnConflict

------------------------------------------------------------------------------
(* A request that holds a row is not one that finds it free.               *)
LEMMA HolderNotFree ==
  ASSUME IInv, NEW x \in Reqs, At(x, "redeemHeld") \/ At(x, "reverseHeld")
  PROVE  Phone(x) \in Phones /\ lock[Phone(x)] = x /\ ~ Free(Phone(x))
  BY LoyaltyAssumption DEF IInv, HeldInv, Free

LEMMA EarnCommitIInv == ASSUME IInv, NEW r \in Reqs, EarnCommit(r) PROVE IInv'
<1> DEFINE o == req[r].order
           p == Phone(r)
           n == req[r].points
<1> USE DEF IInv
<1>1. /\ o \in TxnIds /\ p \in Phones /\ p = PhoneOf[o] /\ n \in Nat
      /\ ~ At(r, "redeemHeld") /\ ~ At(r, "reverseHeld")
  BY DEF EarnCommit, EarnedInv, TypeOK, At, Phone
<1>2. /\ wallet' = [wallet EXCEPT ![p] = IF @ = NoWallet THEN n ELSE @ + n]
      /\ ledger' = [ledger EXCEPT ![o]["EARN"] = Row(n, FALSE)]
      /\ Done(r) /\ Free(p) /\ UNCHANGED <<status, lock>>
  BY DEF EarnCommit, Credit, Write
<1>3. /\ wallet'[p] \in Nat /\ wallet'[p] # NoWallet
      /\ wallet' \in [Phones -> Int \cup {NoWallet}]
      /\ \A q \in Phones \ {p} : wallet'[q] = wallet[q]
  BY <1>1, <1>2, LoyaltyAssumption DEF TypeOK, NonNegativeBalance
<1>4. /\ ledger' \in [TxnIds -> [TxnTypes -> Rows \cup {NoRow}]]
      /\ \A x \in TxnIds : Has(x, "EARN")' => x = o \/ Has(x, "EARN")
      /\ \A x \in TxnIds : Has(x, "EARN") => x = o \/ Has(x, "EARN")'
  BY <1>1, <1>2 DEF TypeOK, TxnTypes, Rows, Row, Has
<1>5. ledger'[o]["EARN"] # NoRow
  <2>1. ledger'[o]["EARN"] = Row(n, FALSE)
    BY <1>1, <1>2 DEF TypeOK, TxnTypes
  <2>2. Row(n, FALSE) \in Rows
    BY <1>1 DEF Row, Rows
  <2> QED  BY <2>1, <2>2, NoRowIsNoRow
<1>6. /\ ReqTypeOK' /\ req'[r].pc = "idle"
      /\ \A x \in Reqs \ {r} : req'[x] = req[x]
  BY <1>2, DoneReq
<1>7. TypeOK' /\ NonNegativeBalance'
  <2>1. TypeOK'
    BY <1>2, <1>3, <1>4, <1>6 DEF TypeOK, ReqTypeOK
  <2>2. NonNegativeBalance'
    BY <1>3 DEF NonNegativeBalance
  <2> QED  BY <2>1, <2>2
<1>8. EarnedInv'
  <2>1. \A x \in TxnIds : Has(x, "EARN")' =>
          PhoneOf[x] \in Phones /\ wallet'[PhoneOf[x]] # NoWallet
    BY <1>1, <1>3, <1>4 DEF EarnedInv
  <2>2. \A x \in Reqs : At(x, "earnTx")' => Phone(x)' \in Phones /\ req'[x].points \in Nat
    BY <1>6 DEF EarnedInv, At, Phone
  <2>3. \A x \in Reqs : At(x, "redeemTx")' => Phone(x)' \in Phones
    BY <1>6 DEF EarnedInv, At, Phone
  <2>4. \A x \in Reqs : At(x, "reverseTx")' => Has(req[x].order, "EARN")'
    <3> SUFFICES ASSUME NEW x \in Reqs, At(x, "reverseTx")'
                 PROVE  Has(req[x].order, "EARN")'
      OBVIOUS
    <3>1. x # r /\ req'[x] = req[x] /\ At(x, "reverseTx")
      BY <1>6 DEF At
    <3>2. req[x].order \in TxnIds /\ Has(req[x].order, "EARN")
      BY <3>1 DEF EarnedInv, TypeOK, At
    <3>3. CASE req[x].order = o
      BY <3>1, <3>3, <1>5 DEF Has
    <3>4. CASE req[x].order # o
      BY <3>1, <3>2, <3>4, <1>4 DEF Has
    <3> QED  BY <3>3, <3>4
  <2> QED  BY <2>1, <2>2, <2>3, <2>4 DEF EarnedInv
<1>9. HeldInv'
  <2> SUFFICES ASSUME NEW x \in Reqs, At(x, "redeemHeld")' \/ At(x, "reverseHeld")'
               PROVE  /\ req'[x] = req[x] /\ lock' = lock
                      /\ wallet'[Phone(x)] = wallet[Phone(x)]
    BY DEF HeldInv, At, Phone
  <2>1. x # r /\ req'[x] = req[x] /\ (At(x, "redeemHeld") \/ At(x, "reverseHeld"))
    BY <1>6 DEF At
  <2>2. Phone(x) \in Phones \ {p}
    BY <2>1, <1>2, HolderNotFree
  <2> QED  BY <2>1, <2>2, <1>2, <1>3
<1> QED  BY <1>7, <1>8, <1>9

LEMMA CrashIInv == ASSUME IInv, Crash PROVE IInv'
<1> USE DEF IInv
<1>1. Idle \in ReqType /\ Idle.pc = "idle"
  BY DEF Idle, Call, ReqType, Pcs
<1>2. /\ req' \in [Reqs -> ReqType]
      /\ \A r \in Reqs : req'[r].pc = "idle"
  BY <1>1 DEF Crash
<1>3. TypeOK' /\ NonNegativeBalance'
  BY <1>2 DEF Crash, TypeOK, NonNegativeBalance, At
<1>4. EarnedInv' /\ HeldInv'
  BY <1>2 DEF Crash, EarnedInv, HeldInv, At, Has
<1> QED  BY <1>3, <1>4

------------------------------------------------------------------------------
(* SELECT ... FOR UPDATE: the row is free, r takes it and keeps what it    *)
(* read of it.                                                             *)
LEMMA TakeRow ==
  ASSUME IInv, NEW r \in Reqs, NEW p \in Phones, p = Phone(r), Free(p),
         ~ At(r, "idle"), wallet[p] # NoWallet,
         NEW pc \in {"redeemHeld", "reverseHeld"}, NEW n \in Int, NEW v \in Int,
         Goto(r, pc, n, v), lock' = [lock EXCEPT ![p] = r],
         pc = "redeemHeld" => n <= wallet[p],
         pc = "reverseHeld" => v = wallet[p],
         UNCHANGED <<status, wallet, ledger>>
  PROVE  IInv'
<1> USE DEF IInv
<1>1. /\ ReqTypeOK'
      /\ req'[r].pc = pc /\ req'[r].points = n /\ req'[r].seen = v
      /\ req'[r].order = req[r].order
      /\ \A x \in Reqs \ {r} : req'[x] = req[x]
  BY GotoReq DEF Pcs
<1>2. /\ lock'[p] = r /\ lock' \in [Phones -> Reqs \cup {NoReq}]
      /\ \A q \in Phones \ {p} : lock'[q] = lock[q]
  BY DEF TypeOK
<1>3. TypeOK' /\ NonNegativeBalance'
  <2>1. TypeOK'
    BY <1>1, <1>2 DEF TypeOK, ReqTypeOK
  <2>2. NonNegativeBalance'
    BY DEF NonNegativeBalance
  <2> QED  BY <2>1, <2>2
<1>4. EarnedInv'
  BY <1>1 DEF EarnedInv, At, Has, Phone
<1>5. HeldInv'
  <2>1. ASSUME NEW x \in Reqs \ {r}, At(x, "redeemHeld") \/ At(x, "reverseHeld")
        PROVE  Phone(x) \in Phones \ {p} /\ lock'[Phone(x)] = x
    BY <2>1, <1>2, HolderNotFree
  <2>2. \A x \in Reqs \ {r} : At(x, "redeemHeld")' =>
          /\ Phone(x)' \in Phones /\ lock'[Phone(x)'] = x
          /\ wallet'[Phone(x)'] # NoWallet /\ req'[x].points <= wallet'[Phone(x)']
    BY <1>1, <2>1 DEF HeldInv, At, Phone
  <2>3. \A x \in Reqs \ {r} : At(x, "reverseHeld")' =>
          /\ Phone(x)' \in Phones /\ lock'[Phone(x)'] = x
          /\ wallet'[Phone(x)'] # NoWallet /\ req'[x].seen = wallet'[Phone(x)']
    BY <1>1, <2>1 DEF HeldInv, At, Phone
  <2>4. Phone(r)' = p
    BY <1>1 DEF Phone
  <2> QED  BY <1>1, <1>2, <2>2, <2>3, <2>4 DEF HeldInv, At
<1> QED  BY <1>3, <1>4, <1>5

LEMMA RedeemLockIInv == ASSUME IInv, NEW r \in Reqs, RedeemLock(r) PROVE IInv'
<1> DEFINE n == ComputeRedemption(req[r].seen, wallet[Phone(r)], req[r].points, CapPct)
<1>1. /\ Phone(r) \in Phones /\ ~ At(r, "idle") /\ Free(Phone(r))
      /\ req[r].seen \in Int /\ req[r].points \in Int
      /\ UNCHANGED <<status, wallet, ledger>>
  BY DEF IInv, EarnedInv, RedeemLock, At, TypeOK, ReqType
<1>2. CASE Done(r) /\ UNCHANGED lock
  BY <1>1, <1>2, GiveUp
<1>3. CASE /\ wallet[Phone(r)] # NoWallet
           /\ Goto(r, "redeemHeld", n, req[r].seen)
           /\ lock' = [lock EXCEPT ![Phone(r)] = r]
  <2>1. wallet[Phone(r)] \in Nat
    BY <1>1, <1>3 DEF IInv, TypeOK, NonNegativeBalance
  <2>2. n \in Int /\ n <= wallet[Phone(r)]
    <3>1. CapPct \in Nat
      BY LoyaltyAssumption
    <3>2. req[r].seen \in Int /\ req[r].points \in Int
      BY <1>1
    <3> QED  BY ONLY <2>1, <3>1, <3>2, RedemptionBounded
  <2> HIDE DEF n
  <2> QED  BY <1>1, <1>3, <2>2, TakeRow
<1> QED  BY <1>1, <1>2, <1>3 DEF RedeemLock

LEMMA ReverseLockIInv == ASSUME IInv, NEW r \in Reqs, ReverseLock(r) PROVE IInv'
<1>1. /\ ~ At(r, "idle") /\ Free(Phone(r)) /\ Has(req[r].order, "EARN")
      /\ req[r].order \in TxnIds /\ req[r].points \in Int
      /\ UNCHANGED <<status, wallet, ledger>>
  BY DEF IInv, EarnedInv, ReverseLock, At, TypeOK, ReqType
<1>2. Phone(r) \in Phones /\ wallet[Phone(r)] # NoWallet
  BY <1>1 DEF IInv, EarnedInv, Phone
<1>3. wallet[Phone(r)] \in Int
  BY <1>2 DEF IInv, TypeOK
<1> QED  BY <1>1, <1>2, <1>3, TakeRow DEF ReverseLock

------------------------------------------------------------------------------
(* The commit of a request that holds the row: it writes the balance and a *)
(* ledger row, or its row is refused, and the lock goes.                   *)
LEMMA CommitHeld ==
  ASSUME IInv, NEW r \in Reqs, At(r, "redeemHeld") \/ At(r, "reverseHeld"),
         NEW p \in Phones, p = Phone(r), NEW o \in TxnIds, o = req[r].order,
         NEW w \in Nat, NEW k \in {"REDEEM", "REVERSE"}, NEW row \in Rows,
         \/ wallet' = [wallet EXCEPT ![p] = w] /\ Write(o, k, row)
         \/ UNCHANGED <<wallet, ledger>>,
         Unlock(p), Done(r), UNCHANGED status
  PROVE  IInv'
<1> USE DEF IInv
<1>1. /\ ReqTypeOK' /\ req'[r].pc = "idle"
      /\ \A x \in Reqs \ {r} : req'[x] = req[x]
  BY DoneReq
<1>2. /\ lock' \in [Phones -> Reqs \cup {NoReq}]
      /\ \A q \in Phones \ {p} : lock'[q] = lock[q]
  BY DEF TypeOK, Unlock
<1>3. /\ wallet' \in [Phones -> Int \cup {NoWallet}]
      /\ wallet'[p] = w \/ wallet'[p] = wallet[p]
      /\ \A q \in Phones \ {p} : wallet'[q] = wallet[q]
  BY DEF TypeOK
<1>4. wallet[p] # NoWallet
  BY DEF HeldInv
<1>5. /\ ledger' \in [TxnIds -> [TxnTypes -> Rows \cup {NoRow}]]
      /\ \A x \in TxnIds : ledger'[x]["EARN"] = ledger[x]["EARN"]
  <2>1. CASE Write(o, k, row)
    BY <2>1 DEF Write, TypeOK, TxnTypes
  <2>2. CASE UNCHANGED ledger
    BY <2>2 DEF TypeOK
  <2> QED  BY <2>1, <2>2
<1>6. TypeOK' /\ NonNegativeBalance'
  <2>1. TypeOK'
    BY <1>1, <1>2, <1>3, <1>5 DEF TypeOK, ReqTypeOK
  <2>2. NonNegativeBalance'
    BY <1>3 DEF NonNegativeBalance
  <2> QED  BY <2>1, <2>2
<1>7. EarnedInv'
  <2>1. \A q \in Phones : wallet[q] # NoWallet => wallet'[q] # NoWallet
    BY <1>3, LoyaltyAssumption
  <2>2. \A x \in TxnIds : Has(x, "EARN")' =>
          PhoneOf[x] \in Phones /\ wallet'[PhoneOf[x]] # NoWallet
    BY <1>5, <2>1 DEF EarnedInv, Has
  <2>3. \A x \in Reqs : At(x, "earnTx")' => Phone(x)' \in Phones /\ req'[x].points \in Nat
    BY <1>1 DEF EarnedInv, At, Phone
  <2>4. \A x \in Reqs : At(x, "redeemTx")' => Phone(x)' \in Phones
    BY <1>1 DEF EarnedInv, At, Phone
  <2>5. \A x \in Reqs : At(x, "reverseTx")' => Has(req[x].order, "EARN")'
    BY <1>1, <1>5 DEF EarnedInv, At, Has, TypeOK
  <2> QED  BY <2>2, <2>3, <2>4, <2>5 DEF EarnedInv
<1>8. HeldInv'
  <2>1. ASSUME NEW x \in Reqs, At(x, "redeemHeld")' \/ At(x, "reverseHeld")'
        PROVE  /\ x # r /\ req'[x] = req[x]
               /\ At(x, "redeemHeld") \/ At(x, "reverseHeld")
    BY <2>1, <1>1 DEF At
  <2>2. ASSUME NEW x \in Reqs \ {r}, At(x, "redeemHeld") \/ At(x, "reverseHeld")
        PROVE  /\ Phone(x) \in Phones /\ lock'[Phone(x)] = x
               /\ wallet'[Phone(x)] = wallet[Phone(x)]
    <3>1. lock[Phone(x)] = x /\ lock[p] = r /\ Phone(x) \in Phones
      BY <2>2, HolderNotFree
    <3>2. Phone(x) \in Phones \ {p}
      BY <3>1
    <3> QED  BY <3>1, <3>2, <1>2, <1>3
  <2>3. \A x \in Reqs : At(x, "redeemHeld")' =>
          /\ Phone(x)' \in Phones /\ lock'[Phone(x)'] = x
          /\ wallet'[Phone(x)'] # NoWallet /\ req'[x].points <= wallet'[Phone(x)']
    BY <2>1, <2>2 DEF HeldInv, At, Phone
  <2>4. \A x \in Reqs : At(x, "reverseHeld")' =>
          /\ Phone(x)' \in Phones /\ lock'[Phone(x)'] = x
          /\ wallet'[Phone(x)'] # NoWallet /\ req'[x].seen = wallet'[Phone(x)']
    BY <2>1, <2>2 DEF HeldInv, At, Phone
  <2> QED  BY <2>3, <2>4 DEF HeldInv
<1> QED  BY <1>6, <1>7, <1>8

LEMMA RedeemCommitIInv == ASSUME IInv, NEW r \in Reqs, RedeemCommit(r) PROVE IInv'
<1> DEFINE w == wallet[Phone(r)] - req[r].points
           row == Row(-req[r].points, FALSE)
<1>1. /\ At(r, "redeemHeld") /\ ~ At(r, "idle") /\ Phone(r) \in Phones
      /\ req[r].order \in TxnIds /\ req[r].points \in Int
      /\ wallet[Phone(r)] # NoWallet /\ req[r].points <= wallet[Phone(r)]
  BY DEF RedeemCommit, IInv, HeldInv, TypeOK, At, ReqType
<1>2. w \in Nat /\ row \in Rows
  BY <1>1 DEF IInv, TypeOK, Row, Rows
<1>3. \/ wallet' = [wallet EXCEPT ![Phone(r)] = w] /\ Write(req[r].order, "REDEEM", row)
      \/ UNCHANGED <<wallet, ledger>>
  BY DEF RedeemCommit
<1>4. Unlock(Phone(r)) /\ Done(r) /\ UNCHANGED status
  BY DEF RedeemCommit
<1> HIDE DEF w, row
<1> QED  BY <1>1, <1>2, <1>3, <1>4, CommitHeld

LEMMA ReverseCommitIInv == ASSUME IInv, NEW r \in Reqs, ReverseCommit(r) PROVE IInv'
<1> DEFINE w == ComputeReversal(req[r].seen, req[r].points)
           row == Row(-req[r].points,
                      NeedsManualReconciliation(req[r].seen, req[r].points))
<1>1. /\ At(r, "reverseHeld") /\ ~ At(r, "idle") /\ Phone(r) \in Phones
      /\ req[r].order \in TxnIds /\ req[r].points \in Int
      /\ wallet[Phone(r)] # NoWallet /\ req[r].seen = wallet[Phone(r)]
  BY DEF ReverseCommit, IInv, HeldInv, TypeOK, At, ReqType
<1>2. req[r].seen \in Nat
  BY <1>1 DEF IInv, TypeOK, NonNegativeBalance
<1>3. w \in Nat /\ row \in Rows
  <2>1. w \in Nat
    BY <1>1, <1>2, ReversalNonNegative
  <2>2. NeedsManualReconciliation(req[r].seen, req[r].points) \in BOOLEAN
    BY DEF NeedsManualReconciliation
  <2>3. row \in Rows
    BY <1>1, <2>2 DEF Row, Rows
  <2> QED  BY <2>1, <2>3
<1>4. \/ wallet' = [wallet EXCEPT ![Phone(r)] = w] /\ Write(req[r].order, "REVERSE", row)
      \/ UNCHANGED <<wallet, ledger>>
  BY DEF ReverseCommit
<1>5. Unlock(Phone(r)) /\ Done(r) /\ UNCHANGED status
  BY DEF ReverseCommit
<1> HIDE DEF w, row
<1> QED  BY <1>1, <1>3, <1>4, <1>5, CommitHeld

------------------------------------------------------------------------------
LEMMA NextIInv == IInv /\ [Next]_vars => IInv'
<1> SUFFICES ASSUME IInv, [Next]_vars PROVE IInv'
  OBVIOUS
<1>1. ASSUME NEW o \in Orders, OrderStep(o) PROVE IInv'
  BY <1>1, OrderStepIInv
<1>2. ASSUME NEW r \in Reqs, ReqStep(r) PROVE IInv'
  BY <1>2, EarnReadIInv, EarnCommitIInv, EarnConflictIInv, RedeemReadIInv,
     RedeemLockIInv, RedeemCommitIInv, ReverseReadIInv, ReverseLockIInv,
     ReverseCommitIInv DEF ReqStep
<1>3. CASE Crash
  BY <1>3, CrashIInv
<1>4. CASE UNCHANGED vars
  <2>1. TypeOK'
    BY <1>4 DEF vars, IInv, TypeOK, At
  <2>2. NonNegativeBalance'
    BY <1>4 DEF vars, IInv, NonNegativeBalance
  <2>3. EarnedInv' /\ HeldInv'
    BY <1>4, Frame DEF vars, IInv
  <2> QED  BY <2>1, <2>2, <2>3 DEF IInv
<1> QED  BY <1>1, <1>2, <1>3, <1>4 DEF Next, Serve

(* The inductive invariant holds of every behaviour.                       *)
THEOREM Invariance == Spec => []IInv
  BY InitIInv, NextIInv, PTL DEF Spec

(* The wallet's types: what every other fact rests on.                     *)
THEOREM TypeCorrect == Spec => []TypeOK
<1>1. IInv => TypeOK
  BY DEF IInv
<1> QED  BY <1>1, Invariance, PTL

(* RULE 7: no interleaving of approvals, cancellations, redemptions,       *)
(* manual reversals and crashes drives a wallet negative.                  *)
THEOREM WalletNeverNegative == Spec => []NonNegativeBalance
<1>1. IInv => NonNegativeBalance
  BY DEF IInv
<1> QED  BY <1>1, Invariance, PTL

(* A ledger row of a real order is never rewritten or removed: each write  *)
(* is guarded by the unique index.                                         *)
LEMMA WriteOnlyNew ==
  ASSUME TypeOK, NEW x \in TxnIds, NEW j \in TxnTypes, ~ Has(x, j), NEW row,
         Write(x, j, row), NEW o \in TxnIds, NEW k \in TxnTypes, Has(o, k)
  PROVE  ledger'[o][k] = ledger[o][k]
  BY DEF TypeOK, Write, Has

LEMMA StepKeepsRows ==
  ASSUME TypeOK, [Next]_vars, NEW o \in Orders, NEW k \in TxnTypes, Has(o, k)
  PROVE  ledger'[o][k] = ledger[o][k]
<1>1. o \in TxnIds
  BY DEF TxnIds
<1>2. ASSUME NEW r \in Reqs, ReqStep(r) PROVE ledger'[o][k] = ledger[o][k]
  <2>1. CASE EarnCommit(r)
    <3>1. req[r].order \in TxnIds
      BY <2>1 DEF EarnCommit, TypeOK, At
    <3> QED  BY <2>1, <3>1, <1>1, WriteOnlyNew DEF EarnCommit, TxnTypes
  <2>2. CASE RedeemCommit(r)
    <3>1. req[r].order \in TxnIds
      BY <2>2 DEF RedeemCommit, TypeOK, At
    <3> QED  BY <2>2, <3>1, <1>1, WriteOnlyNew DEF RedeemCommit, TxnTypes
  <2>3. CASE ReverseCommit(r)
    <3>1. req[r].order \in TxnIds
      BY <2>3 DEF ReverseCommit, TypeOK, At
    <3> QED  BY <2>3, <3>1, <1>1, WriteOnlyNew DEF ReverseCommit, TxnTypes
  <2>4. CASE ~ (EarnCommit(r) \/ RedeemCommit(r) \/ ReverseCommit(r))
    BY <1>2, <2>4 DEF ReqStep, EarnRead, EarnConflict, RedeemRead, RedeemLock,
                      ReverseRead, ReverseLock
  <2> QED  BY <2>1, <2>2, <2>3, <2>4
<1>3. ASSUME NEW x \in Orders, OrderStep(x) PROVE UNCHANGED ledger
  BY <1>3 DEF OrderStep, ApproveOrder, ReturnToAccounts, CancelOrder, PostRedeem, PostReverse
<1>4. CASE Crash \/ UNCHANGED vars
  BY <1>4 DEF Crash, vars
<1> QED  BY <1>2, <1>3, <1>4 DEF Next, Serve

THEOREM RowsAreFinal == Spec => RealRowsAreFinal
<1>1. TypeOK /\ [Next]_vars =>
        [\A o \in Orders, k \in TxnTypes : Has(o, k) => ledger'[o][k] = ledger[o][k]]_ledger
  BY StepKeepsRows
<1> QED  BY <1>1, TypeCorrect, PTL DEF Spec, RealRowsAreFinal

------------------------------------------------------------------------------
(* What the ledger rows of an order look like, and what a reversal in      *)
(* flight has read: the amount of an EARN row that nothing rewrites.       *)
EarnRow(o) == ledger[o]["EARN"]

RowInv ==
  /\ \A o \in TxnIds : Has(o, "EARN") => EarnRow(o).points \in Nat /\ ~ EarnRow(o).flagged
  /\ \A o \in TxnIds : Has(o, "REDEEM") => ~ ledger[o]["REDEEM"].flagged
  /\ \A o \in TxnIds : Has(o, "REVERSE") =>
       Has(o, "EARN") /\ ledger[o]["REVERSE"].points = - EarnRow(o).points
  /\ \A r \in Reqs : At(r, "reverseTx") \/ At(r, "reverseHeld") =>
       Has(req[r].order, "EARN") /\ req[r].points = EarnRow(req[r].order).points

LedgerInv == RowInv /\ BalanceIsLedgerSum /\ FlaggedMeansSpent

LEMMA OwnerFinite == ASSUME NEW p PROVE IsFiniteSet(Owner(p))
<1>1. IsFiniteSet(TxnIds)
  BY TxnIdsFinite
<1>2. Owner(p) \in SUBSET TxnIds
  BY DEF Owner
<1> QED  BY <1>1, <1>2, FS_Subset

LEMMA AmountInt ==
  ASSUME TypeOK, NEW o \in TxnIds, NEW k \in TxnTypes
  PROVE  Amount(o, k) \in Int
<1>1. ledger[o][k] \in Rows \cup {NoRow}
  BY DEF TypeOK
<1>2. CASE ledger[o][k] = NoRow
  BY <1>2 DEF Amount
<1>3. CASE ledger[o][k] # NoRow
  <2>1. ledger[o][k].points \in Int
    BY <1>1, <1>3 DEF Rows
  <2> QED  BY <2>1, <1>3 DEF Amount
<1> QED  BY <1>2, <1>3

LEMMA NetInt == ASSUME TypeOK, NEW o \in TxnIds PROVE Net(o) \in Int
<1>1. /\ Amount(o, "EARN") \in Int /\ Amount(o, "REDEEM") \in Int
      /\ Amount(o, "REVERSE") \in Int
  BY AmountInt DEF TxnTypes
<1> QED  BY <1>1 DEF Net

LEMMA SameLedger ==
  ASSUME UNCHANGED ledger
  PROVE  /\ \A p \in Phones : LedgerSum(p)' = LedgerSum(p)
         /\ \A o \in TxnIds, k \in TxnTypes : Has(o, k)' <=> Has(o, k)
  BY DEF LedgerSum, Net, Amount, Has

(* One new row moves the sum of its wallet by what it counts for, and of   *)
(* no other wallet.                                                        *)
Counts(row) == IF row.flagged THEN 0 ELSE row.points

LEMMA OneRow ==
  ASSUME TypeOK, TypeOK', NEW o \in TxnIds, NEW k \in TxnTypes, ~ Has(o, k),
         NEW row \in Rows, Write(o, k, row)
  PROVE  /\ ledger'[o][k] = row
         /\ \A x \in TxnIds, j \in TxnTypes : <<x, j>> # <<o, k>> => ledger'[x][j] = ledger[x][j]
         /\ \A x \in TxnIds, j \in TxnTypes :
              Has(x, j)' <=> (Has(x, j) \/ (x = o /\ j = k))
<1>1. ledger'[o][k] = row /\ row # NoRow
  BY NoRowIsNoRow DEF Write, TypeOK
<1>2. \A x \in TxnIds, j \in TxnTypes : <<x, j>> # <<o, k>> => ledger'[x][j] = ledger[x][j]
  <2> SUFFICES ASSUME NEW x \in TxnIds, NEW j \in TxnTypes, x # o \/ j # k
               PROVE  ledger'[x][j] = ledger[x][j]
    OBVIOUS
  <2> QED  BY DEF Write, TypeOK
<1> QED  BY <1>1, <1>2 DEF Has

LEMMA RowMovesSum ==
  ASSUME TypeOK, TypeOK', NEW o \in TxnIds, NEW k \in TxnTypes, ~ Has(o, k),
         NEW row \in Rows, Write(o, k, row), NEW p \in Phones
  PROVE  LedgerSum(p)' = LedgerSum(p) + (IF PhoneOf[o] = p THEN Counts(row) ELSE 0)
<1> DEFINE f == [x \in TxnIds |-> Net(x)]
           g == [x \in TxnIds |-> Net(x)']
           S == Owner(p)
<1>1. IsFiniteSet(S) /\ S \subseteq TxnIds
  BY OwnerFinite DEF Owner
<1>2. /\ ledger'[o][k] = row /\ row # NoRow
      /\ \A x \in TxnIds, j \in TxnTypes : <<x, j>> # <<o, k>> => ledger'[x][j] = ledger[x][j]
  BY OneRow, NoRowIsNoRow
<1>3. ASSUME NEW x \in TxnIds \ {o} PROVE Net(x)' = Net(x)
  <2>1. \A j \in TxnTypes : ledger'[x][j] = ledger[x][j]
    BY <1>2
  <2> QED  BY <2>1 DEF Net, Amount, TxnTypes
<1>4. Net(o)' = Net(o) + Counts(row)
  <2>1. \A j \in TxnTypes : Amount(o, j) \in Int
    BY AmountInt
  <2>2. Amount(o, k) = 0 /\ Amount(o, k)' = Counts(row)
    BY <1>2 DEF Amount, Has, Counts
  <2>3. \A j \in TxnTypes \ {k} : Amount(o, j)' = Amount(o, j)
    BY <1>2 DEF Amount
  <2>4. Counts(row) \in Int
    BY DEF Counts, Rows
  <2> QED  BY <2>1, <2>2, <2>3, <2>4 DEF Net, TxnTypes
<1>5. \A x \in S : f[x] = Net(x) /\ g[x] = Net(x)' /\ f[x] \in Int /\ g[x] \in Int
  <2>1. \A x \in TxnIds : Net(x) \in Int
    BY NetInt
  <2>2. Counts(row) \in Int
    BY DEF Counts, Rows
  <2>3. \A x \in TxnIds : Net(x)' \in Int
    BY <2>1, <2>2, <1>3, <1>4
  <2> QED  BY <1>1, <2>1, <2>3
<1>6. LedgerSum(p) = SumFunctionOnSet(f, S) /\ LedgerSum(p)' = SumFunctionOnSet(g, S)
  BY DEF LedgerSum, Owner
<1>7. SumFunctionOnSet(f, S) \in Int
  BY <1>1, <1>5, SumInt
<1>8. CASE PhoneOf[o] = p
  <2>1. o \in S
    BY <1>8 DEF Owner
  <2>2. \A x \in S \ {o} : g[x] = f[x]
    BY <1>1, <1>3, <1>5
  <2>3. g[o] - f[o] = Counts(row)
    <3>1. g[o] = Net(o)' /\ f[o] = Net(o) /\ Net(o) \in Int
      BY <1>5, <2>1
    <3>2. Counts(row) \in Int
      BY DEF Counts, Rows
    <3> QED  BY <3>1, <3>2, <1>4
  <2> HIDE DEF f, g, S
  <2>4. IsFiniteSet(S) /\ \A x \in S : f[x] \in Int /\ g[x] \in Int
    BY <1>1, <1>5
  <2>5. SumFunctionOnSet(g, S) = SumFunctionOnSet(f, S) + (g[o] - f[o])
    BY <2>1, <2>2, <2>4, SumUpdate
  <2> QED  BY <2>3, <2>5, <1>6, <1>8
<1>9. CASE PhoneOf[o] # p
  <2>1. \A x \in S : g[x] = f[x]
    BY <1>1, <1>3, <1>5, <1>9 DEF Owner
  <2> HIDE DEF f, g, S
  <2>2. SumFunctionOnSet(g, S) = SumFunctionOnSet(f, S)
    BY <1>1, <2>1, SumEqual
  <2> QED  BY <2>2, <1>6, <1>7, <1>9
<1> QED  BY <1>8, <1>9

LEMMA InitLedgerInv == Init => LedgerInv
<1> SUFFICES ASSUME Init PROVE LedgerInv
  OBVIOUS
<1>1. \A o \in TxnIds, k \in TxnTypes : ~ Has(o, k)
  BY DEF Init, Has
<1>2. \A r \in Reqs : req[r].pc = "idle"
  BY DEF Init, Idle, Call
<1>3. RowInv /\ FlaggedMeansSpent
  BY <1>1, <1>2 DEF RowInv, FlaggedMeansSpent, At, TxnTypes
<1>4. ASSUME NEW p \in Phones PROVE LedgerSum(p) = 0
  <2> DEFINE f == [x \in TxnIds |-> Net(x)]
  <2>1. \A x \in TxnIds : Net(x) = 0
    BY <1>1 DEF Net, Amount, Has, TxnTypes
  <2>2. \A x \in Owner(p) : f[x] = 0
    BY <2>1 DEF Owner
  <2> HIDE DEF f
  <2>4. SumFunctionOnSet(f, Owner(p)) = 0
    BY <2>2, OwnerFinite, SumZero
  <2> QED  BY <2>4 DEF LedgerSum, f
<1>5. BalanceIsLedgerSum
  BY <1>4 DEF BalanceIsLedgerSum, Init
<1> QED  BY <1>3, <1>5 DEF LedgerInv

(* A step that writes no ledger row leaves the facts about rows alone.     *)
LEMMA LedgerFrame ==
  ASSUME LedgerInv, UNCHANGED <<wallet, ledger>>,
         \A r \in Reqs : \/ req'[r] = req[r]
                         \/ ~ (At(r, "reverseTx")' \/ At(r, "reverseHeld")')
                         \/ /\ Has(req'[r].order, "EARN")
                            /\ req'[r].points = EarnRow(req'[r].order).points
  PROVE  LedgerInv'
<1>1. RowInv'
  <2>1. \A r \in Reqs : At(r, "reverseTx")' \/ At(r, "reverseHeld")' =>
          Has(req'[r].order, "EARN") /\ req'[r].points = EarnRow(req'[r].order).points
    BY DEF LedgerInv, RowInv, At
  <2> QED  BY <2>1 DEF LedgerInv, RowInv, Has, EarnRow
<1>2. BalanceIsLedgerSum'
  BY SameLedger DEF LedgerInv, BalanceIsLedgerSum
<1>3. FlaggedMeansSpent'
  BY DEF LedgerInv, FlaggedMeansSpent, Has, Owner
<1> QED  BY <1>1, <1>2, <1>3 DEF LedgerInv

(* What a transaction in flight has read of its order's EARN row stays     *)
(* true while rows are only added.                                         *)
LEMMA ReadStaysTrue ==
  ASSUME TypeOK, RowInv, NEW r \in Reqs, Done(r),
         \A x \in TxnIds : Has(x, "EARN") =>
           ledger'[x]["EARN"] = ledger[x]["EARN"]
  PROVE  \A x \in Reqs : At(x, "reverseTx")' \/ At(x, "reverseHeld")' =>
           Has(req[x].order, "EARN")' /\ req'[x].points = EarnRow(req[x].order)'.points
<1> SUFFICES ASSUME NEW x \in Reqs, At(x, "reverseTx")' \/ At(x, "reverseHeld")'
             PROVE  Has(req[x].order, "EARN")' /\ req'[x].points = EarnRow(req[x].order)'.points
  OBVIOUS
<1>1. x # r /\ req'[x] = req[x] /\ (At(x, "reverseTx") \/ At(x, "reverseHeld"))
  BY DoneReq DEF At
<1>2. /\ Has(req[x].order, "EARN") /\ req[x].points = EarnRow(req[x].order).points
      /\ req[x].order \in TxnIds
  BY <1>1 DEF RowInv, TypeOK, At
<1> QED  BY <1>1, <1>2 DEF Has, EarnRow

LEMMA EarnCommitLedger ==
  ASSUME IInv, IInv', LedgerInv, NEW r \in Reqs, EarnCommit(r)
  PROVE  LedgerInv'
<1> DEFINE o == req[r].order
           p == PhoneOf[o]
           n == req[r].points
           row == Row(n, FALSE)
<1> USE DEF IInv, LedgerInv
<1>1. /\ o \in TxnIds /\ p \in Phones /\ n \in Nat /\ ~ Has(o, "EARN")
      /\ wallet' = [wallet EXCEPT ![p] = IF @ = NoWallet THEN n ELSE @ + n]
      /\ Write(o, "EARN", row) /\ Done(r)
  BY DEF EarnCommit, Credit, EarnedInv, TypeOK, At, Phone
<1>2. row \in Rows /\ row.points = n /\ row.flagged = FALSE /\ Counts(row) = n
  BY <1>1 DEF Row, Rows, Counts
<1> HIDE DEF row, o, n
<1>3. /\ ledger'[o]["EARN"] = row
      /\ \A x \in TxnIds, j \in TxnTypes : <<x, j>> # <<o, "EARN">> => ledger'[x][j] = ledger[x][j]
      /\ \A x \in TxnIds, j \in TxnTypes :
           Has(x, j)' <=> (Has(x, j) \/ (x = o /\ j = "EARN"))
  BY <1>1, <1>2, OneRow DEF TxnTypes
<1>4. RowInv'
  <2>1. \A x \in TxnIds : Has(x, "EARN")' => EarnRow(x)'.points \in Nat /\ ~ EarnRow(x)'.flagged
    BY <1>1, <1>2, <1>3 DEF RowInv, EarnRow, TxnTypes
  <2>2. \A x \in TxnIds : Has(x, "REDEEM")' => ~ ledger'[x]["REDEEM"].flagged
    BY <1>3 DEF RowInv, TxnTypes
  <2>3. \A x \in TxnIds : Has(x, "REVERSE")' =>
          Has(x, "EARN")' /\ ledger'[x]["REVERSE"].points = - EarnRow(x)'.points
    <3> SUFFICES ASSUME NEW x \in TxnIds, Has(x, "REVERSE")'
                 PROVE  Has(x, "EARN")' /\ ledger'[x]["REVERSE"].points = - EarnRow(x)'.points
      OBVIOUS
    <3>1. Has(x, "REVERSE") /\ Has(x, "EARN") /\ x # o
      BY <1>1, <1>3 DEF RowInv, TxnTypes
    <3>2. ledger'[x]["REVERSE"] = ledger[x]["REVERSE"] /\ ledger'[x]["EARN"] = ledger[x]["EARN"]
      BY <3>1, <1>3 DEF TxnTypes
    <3> QED  BY <3>1, <3>2 DEF RowInv, EarnRow, Has
  <2>4. \A x \in TxnIds : Has(x, "EARN") => ledger'[x]["EARN"] = ledger[x]["EARN"]
    BY <1>1, <1>3 DEF TxnTypes
  <2>5. \A x \in Reqs : At(x, "reverseTx")' \/ At(x, "reverseHeld")' =>
          Has(req[x].order, "EARN")' /\ req'[x].points = EarnRow(req[x].order)'.points
    BY <1>1, <2>4, ReadStaysTrue
  <2> QED  BY <2>1, <2>2, <2>3, <2>5 DEF RowInv
<1>5. BalanceIsLedgerSum'
  <2> SUFFICES ASSUME NEW q \in Phones
               PROVE  LedgerSum(q)' = (IF wallet'[q] = NoWallet THEN 0 ELSE wallet'[q])
    BY DEF BalanceIsLedgerSum
  <2>1. LedgerSum(q)' = LedgerSum(q) + (IF p = q THEN n ELSE 0)
    BY <1>1, <1>2, RowMovesSum DEF TxnTypes
  <2>2. LedgerSum(q) = (IF wallet[q] = NoWallet THEN 0 ELSE wallet[q])
    BY DEF BalanceIsLedgerSum
  <2>3. wallet[q] \in Int \cup {NoWallet}
    BY DEF TypeOK
  <2>4. wallet'[q] = IF p = q THEN (IF wallet[q] = NoWallet THEN n ELSE wallet[q] + n) ELSE wallet[q]
    BY <1>1 DEF TypeOK
  <2> HIDE DEF p
  <2> QED  BY <1>1, <2>1, <2>2, <2>3, <2>4, LoyaltyAssumption
<1>6. FlaggedMeansSpent'
  <2>1. \A x \in TxnIds : Has(x, "REVERSE")' => ledger'[x]["REVERSE"] = ledger[x]["REVERSE"]
    BY <1>3 DEF TxnTypes
  <2>2. \A x \in TxnIds, j \in {"REDEEM", "REVERSE"} : Has(x, j)' <=> Has(x, j)
    BY <1>3 DEF TxnTypes
  <2> QED  BY <2>1, <2>2 DEF FlaggedMeansSpent, Owner
<1> QED  BY <1>4, <1>5, <1>6

LEMMA RedeemCommitLedger ==
  ASSUME IInv, IInv', LedgerInv, NEW r \in Reqs, RedeemCommit(r)
  PROVE  LedgerInv'
<1> DEFINE o == req[r].order
           p == PhoneOf[o]
           n == req[r].points
           row == Row(- n, FALSE)
<1> USE DEF IInv, LedgerInv
<1>1. /\ o \in TxnIds /\ p \in Phones /\ n \in Int /\ wallet[p] # NoWallet /\ Done(r)
  BY DEF RedeemCommit, HeldInv, TypeOK, At, Phone, ReqType
<1>2. CASE Has(o, "REDEEM")
  <2>1. UNCHANGED <<wallet, ledger>>
    BY <1>2 DEF RedeemCommit
  <2>2. \A x \in Reqs : req'[x] = req[x] \/ ~ (At(x, "reverseTx")' \/ At(x, "reverseHeld")')
    BY <1>1, DoneReq DEF At
  <2> QED  BY <2>1, <2>2, LedgerFrame
<1>3. CASE ~ Has(o, "REDEEM")
  <2>1. /\ wallet' = [wallet EXCEPT ![p] = @ - n]
        /\ Write(o, "REDEEM", row)
    BY <1>3 DEF RedeemCommit, Phone
  <2>2. row \in Rows /\ row.flagged = FALSE /\ Counts(row) = - n
    BY <1>1 DEF Row, Rows, Counts
  <2> HIDE DEF row, o, n
  <2>3. /\ ledger'[o]["REDEEM"] = row
        /\ \A x \in TxnIds, j \in TxnTypes : <<x, j>> # <<o, "REDEEM">> => ledger'[x][j] = ledger[x][j]
        /\ \A x \in TxnIds, j \in TxnTypes :
             Has(x, j)' <=> (Has(x, j) \/ (x = o /\ j = "REDEEM"))
    BY <1>1, <1>3, <2>1, <2>2, OneRow DEF TxnTypes
  <2>4. \A x \in TxnIds, j \in {"EARN", "REVERSE"} :
          ledger'[x][j] = ledger[x][j] /\ (Has(x, j)' <=> Has(x, j))
    BY <2>3 DEF TxnTypes
  <2>5. RowInv'
    <3>1. \A x \in TxnIds : Has(x, "REDEEM")' => ~ ledger'[x]["REDEEM"].flagged
      BY <2>2, <2>3 DEF RowInv, TxnTypes
    <3>2. \A x \in Reqs : At(x, "reverseTx")' \/ At(x, "reverseHeld")' =>
            Has(req[x].order, "EARN")' /\ req'[x].points = EarnRow(req[x].order)'.points
      BY <1>1, <2>4, ReadStaysTrue
    <3> QED  BY <2>4, <3>1, <3>2 DEF RowInv, EarnRow
  <2>6. BalanceIsLedgerSum'
    <3> SUFFICES ASSUME NEW q \in Phones
                 PROVE  LedgerSum(q)' = (IF wallet'[q] = NoWallet THEN 0 ELSE wallet'[q])
      BY DEF BalanceIsLedgerSum
    <3>1. LedgerSum(q)' = LedgerSum(q) + (IF p = q THEN - n ELSE 0)
      BY <1>1, <1>3, <2>1, <2>2, RowMovesSum DEF TxnTypes
    <3>2. LedgerSum(q) = (IF wallet[q] = NoWallet THEN 0 ELSE wallet[q])
      BY DEF BalanceIsLedgerSum
    <3>3. wallet[q] \in Int \cup {NoWallet}
      BY DEF TypeOK
    <3>4. wallet'[q] = IF p = q THEN wallet[q] - n ELSE wallet[q]
      BY <2>1 DEF TypeOK
    <3> HIDE DEF p
    <3> QED  BY <1>1, <3>1, <3>2, <3>3, <3>4, LoyaltyAssumption
  <2>7. FlaggedMeansSpent'
    <3>1. \A x \in TxnIds : Has(x, "REDEEM") => Has(x, "REDEEM")'
      BY <2>3 DEF TxnTypes
    <3> QED  BY <2>4, <3>1 DEF FlaggedMeansSpent, Owner
  <2> QED  BY <2>5, <2>6, <2>7
<1> QED  BY <1>2, <1>3

(* If no order of the wallet was redeemed, no row set takes away points    *)
(* that were not earned, and the wallet holds at least what any order      *)
(* earned and kept.                                                        *)
LEMMA UnspentIsHeld ==
  ASSUME IInv, LedgerInv, NEW p \in Phones,
         \A x \in Owner(p) : ~ Has(x, "REDEEM"),
         NEW o \in Owner(p), Has(o, "EARN"), ~ Has(o, "REVERSE")
  PROVE  LedgerSum(p) >= EarnRow(o).points
<1> DEFINE f == [x \in TxnIds |-> Net(x)]
<1> USE DEF IInv, LedgerInv
<1>1. Owner(p) \subseteq TxnIds
  BY DEF Owner
<1>2. ASSUME NEW x \in Owner(p) PROVE Net(x) \in Nat
  <2>0. x \in TxnIds
    BY <1>1
  <2>1. Amount(x, "REDEEM") = 0
    BY DEF Amount, Has
  <2>2. CASE ~ Has(x, "EARN")
    <3>1. Amount(x, "EARN") = 0 /\ Amount(x, "REVERSE") = 0
      BY <2>0, <2>2 DEF Amount, Has, RowInv
    <3> QED  BY <2>1, <3>1 DEF Net
  <2>3. CASE Has(x, "EARN") /\ ~ Has(x, "REVERSE")
    <3>1. Amount(x, "EARN") \in Nat /\ Amount(x, "REVERSE") = 0
      BY <2>0, <2>3 DEF Amount, Has, RowInv, EarnRow
    <3> QED  BY <2>1, <3>1 DEF Net
  <2>4. CASE Has(x, "EARN") /\ Has(x, "REVERSE")
    <3>1. /\ Amount(x, "EARN") = EarnRow(x).points /\ EarnRow(x).points \in Nat
          /\ Amount(x, "REVERSE") = 0 \/ Amount(x, "REVERSE") = - EarnRow(x).points
      BY <2>0, <2>4 DEF Amount, Has, RowInv, EarnRow
    <3> QED  BY <2>1, <3>1 DEF Net
  <2> QED  BY <2>2, <2>3, <2>4
<1>3. Net(o) = EarnRow(o).points
  <2>1. o \in TxnIds
    BY <1>1
  <2>2. /\ Amount(o, "EARN") = EarnRow(o).points /\ EarnRow(o).points \in Nat
        /\ Amount(o, "REDEEM") = 0 /\ Amount(o, "REVERSE") = 0
    BY <2>1 DEF Amount, Has, RowInv, EarnRow
  <2> QED  BY <2>2 DEF Net
<1>4. \A x \in Owner(p) : f[x] = Net(x)
  BY <1>1
<1>5. LedgerSum(p) = SumFunctionOnSet(f, Owner(p))
  BY DEF LedgerSum
<1> HIDE DEF f
<1>6. /\ SumFunctionOnSet(f, Owner(p)) \in Nat
      /\ f[o] <= SumFunctionOnSet(f, Owner(p))
  <2>1. \A x \in Owner(p) : f[x] \in Nat
    BY <1>2, <1>4
  <2> QED  BY <2>1, OwnerFinite, SumAtLeast
<1> QED  BY <1>2, <1>3, <1>4, <1>5, <1>6

LEMMA ReverseCommitLedger ==
  ASSUME IInv, IInv', LedgerInv, NEW r \in Reqs, ReverseCommit(r)
  PROVE  LedgerInv'
<1> DEFINE o == req[r].order
           p == PhoneOf[o]
           n == req[r].points
           flag == NeedsManualReconciliation(req[r].seen, n)
           row == Row(- n, flag)
<1> USE DEF IInv, LedgerInv
<1>1. /\ o \in TxnIds /\ p \in Phones /\ wallet[p] # NoWallet /\ Done(r)
      /\ req[r].seen = wallet[p] /\ wallet[p] \in Int
      /\ Has(o, "EARN") /\ n = EarnRow(o).points /\ n \in Nat /\ o \in Owner(p)
  BY DEF ReverseCommit, HeldInv, RowInv, TypeOK, At, Phone, ReqType, Owner
<1>2. CASE Has(o, "REVERSE")
  <2>1. UNCHANGED <<wallet, ledger>>
    BY <1>2 DEF ReverseCommit
  <2>2. \A x \in Reqs : req'[x] = req[x] \/ ~ (At(x, "reverseTx")' \/ At(x, "reverseHeld")')
    BY <1>1, DoneReq DEF At
  <2> QED  BY <2>1, <2>2, LedgerFrame
<1>3. CASE ~ Has(o, "REVERSE")
  <2>1. /\ wallet' = [wallet EXCEPT ![p] = ComputeReversal(wallet[p], n)]
        /\ Write(o, "REVERSE", row)
    BY <1>1, <1>3 DEF ReverseCommit, Phone
  <2>2. flag \in BOOLEAN /\ (flag <=> n > 0 /\ wallet[p] < n)
    BY <1>1 DEF NeedsManualReconciliation
  <2>3. row \in Rows /\ row.points = - n /\ row.flagged = flag
        /\ Counts(row) = (IF flag THEN 0 ELSE - n)
    BY <1>1, <2>2 DEF Row, Rows, Counts
  <2>4. ComputeReversal(wallet[p], n) = wallet[p] + Counts(row)
    BY <1>1, <2>2, <2>3 DEF ComputeReversal, NeedsManualReconciliation
  <2> HIDE DEF row, o, n, flag
  <2>5. /\ ledger'[o]["REVERSE"] = row
        /\ \A x \in TxnIds, j \in TxnTypes : <<x, j>> # <<o, "REVERSE">> => ledger'[x][j] = ledger[x][j]
        /\ \A x \in TxnIds, j \in TxnTypes :
             Has(x, j)' <=> (Has(x, j) \/ (x = o /\ j = "REVERSE"))
    BY <1>1, <1>3, <2>1, <2>3, OneRow DEF TxnTypes
  <2>6. \A x \in TxnIds, j \in {"EARN", "REDEEM"} :
          ledger'[x][j] = ledger[x][j] /\ (Has(x, j)' <=> Has(x, j))
    BY <2>5 DEF TxnTypes
  <2>7. RowInv'
    <3>1. \A x \in TxnIds : Has(x, "REVERSE")' =>
            Has(x, "EARN")' /\ ledger'[x]["REVERSE"].points = - EarnRow(x)'.points
      <4> SUFFICES ASSUME NEW x \in TxnIds, Has(x, "REVERSE")'
                   PROVE  Has(x, "EARN")' /\ ledger'[x]["REVERSE"].points = - EarnRow(x)'.points
        OBVIOUS
      <4>1. CASE x = o
        BY <4>1, <1>1, <2>3, <2>5, <2>6 DEF EarnRow
      <4>2. CASE x # o
        BY <4>2, <2>5, <2>6 DEF RowInv, EarnRow, TxnTypes
      <4> QED  BY <4>1, <4>2
    <3>2. \A x \in Reqs : At(x, "reverseTx")' \/ At(x, "reverseHeld")' =>
            Has(req[x].order, "EARN")' /\ req'[x].points = EarnRow(req[x].order)'.points
      BY <1>1, <2>6, ReadStaysTrue
    <3> QED  BY <2>6, <3>1, <3>2 DEF RowInv, EarnRow
  <2>8. BalanceIsLedgerSum'
    <3> SUFFICES ASSUME NEW q \in Phones
                 PROVE  LedgerSum(q)' = (IF wallet'[q] = NoWallet THEN 0 ELSE wallet'[q])
      BY DEF BalanceIsLedgerSum
    <3>1. LedgerSum(q)' = LedgerSum(q) + (IF p = q THEN Counts(row) ELSE 0)
      BY <1>1, <1>3, <2>1, <2>3, RowMovesSum DEF TxnTypes
    <3>2. LedgerSum(q) = (IF wallet[q] = NoWallet THEN 0 ELSE wallet[q])
      BY DEF BalanceIsLedgerSum
    <3>3. wallet[q] \in Int \cup {NoWallet} /\ Counts(row) \in Int
      BY <1>1, <2>3 DEF TypeOK
    <3>4. wallet'[q] = IF p = q THEN wallet[q] + Counts(row) ELSE wallet[q]
      BY <2>1, <2>4 DEF TypeOK
    <3> HIDE DEF p
    <3> QED  BY <1>1, <3>1, <3>2, <3>3, <3>4, LoyaltyAssumption
  <2>9. FlaggedMeansSpent'
    <3> SUFFICES ASSUME NEW x \in TxnIds, Has(x, "REVERSE")', ledger'[x]["REVERSE"].flagged
                 PROVE  \E y \in Owner(PhoneOf[x]) : Has(y, "REDEEM")
      BY <2>6 DEF FlaggedMeansSpent, Owner
    <3>1. CASE x # o
      BY <3>1, <2>5 DEF FlaggedMeansSpent, TxnTypes
    <3>2. CASE x = o
      <4> SUFFICES ASSUME \A y \in Owner(p) : ~ Has(y, "REDEEM") PROVE FALSE
        BY <3>2
      <4>1. wallet[p] < n
        BY <3>2, <2>2, <2>3, <2>5
      <4>2. LedgerSum(p) >= n
        BY <1>1, <1>3, UnspentIsHeld
      <4>3. LedgerSum(p) = wallet[p]
        BY <1>1 DEF BalanceIsLedgerSum
      <4> QED  BY <4>1, <4>2, <4>3, <1>1
    <3> QED  BY <3>1, <3>2
  <2> QED  BY <2>7, <2>8, <2>9
<1> QED  BY <1>2, <1>3

(* Every other step of a request leaves wallet and ledger alone, and       *)
(* enters a reversal with the amount it has just read.                     *)
LEMMA ReadLedger ==
  ASSUME IInv, LedgerInv, NEW r \in Reqs,
         \/ EarnRead(r) \/ EarnConflict(r) \/ RedeemRead(r) \/ RedeemLock(r)
         \/ ReverseRead(r) \/ ReverseLock(r)
  PROVE  LedgerInv'
<1> USE DEF IInv, LedgerInv
<1>1. UNCHANGED <<wallet, ledger>>
  BY DEF EarnRead, EarnConflict, RedeemRead, RedeemLock, ReverseRead, ReverseLock
<1>2. req \in [Reqs -> ReqType] /\ (~ At(r, "idle") => req[r].order \in TxnIds)
  BY DEF TypeOK
<1>3. \A x \in Reqs \ {r} : req'[x] = req[x]
  BY <1>2 DEF EarnRead, EarnConflict, RedeemRead, RedeemLock, ReverseRead, ReverseLock, Done, Goto
<1>4. \/ ~ (At(r, "reverseTx")' \/ At(r, "reverseHeld")')
      \/ /\ Has(req'[r].order, "EARN")
         /\ req'[r].points = EarnRow(req'[r].order).points
  <2>1. CASE Done(r)
    BY <2>1, DoneReq DEF At
  <2>2. ASSUME NEW n \in Int, NEW v \in Int, NEW pc \in {"earnTx", "redeemTx", "redeemHeld"},
               Goto(r, pc, n, v)
        PROVE  ~ (At(r, "reverseTx")' \/ At(r, "reverseHeld")')
    BY <2>2, <1>2 DEF Goto, At
  <2>3. CASE EarnRead(r) \/ RedeemRead(r) \/ RedeemLock(r)
    BY <2>1, <2>3, <1>2 DEF EarnRead, RedeemRead, RedeemLock, Goto, At
  <2>4. CASE EarnConflict(r)
    BY <2>1, <2>4 DEF EarnConflict
  <2>5. CASE ReverseRead(r)
    <3>1. CASE Has(req[r].order, "EARN")
               /\ Goto(r, "reverseTx", ledger[req[r].order]["EARN"].points, 0)
      <4>1. req'[r].order = req[r].order /\ req'[r].points = EarnRow(req[r].order).points
        BY <3>1, <1>2 DEF Goto, EarnRow
      <4> QED  BY <3>1, <4>1
    <3> QED  BY <2>1, <2>5, <3>1 DEF ReverseRead
  <2>6. CASE ReverseLock(r)
    <3>1. req'[r].order = req[r].order /\ req'[r].points = req[r].points
      BY <2>6, <1>2 DEF ReverseLock, Goto
    <3>2. Has(req[r].order, "EARN") /\ req[r].points = EarnRow(req[r].order).points
      BY <2>6 DEF ReverseLock, RowInv
    <3> QED  BY <3>1, <3>2
  <2> QED  BY <2>3, <2>4, <2>5, <2>6
<1> QED  BY <1>1, <1>3, <1>4, LedgerFrame

LEMMA NextLedgerInv == IInv /\ IInv' /\ LedgerInv /\ [Next]_vars => LedgerInv'
<1> SUFFICES ASSUME IInv, IInv', LedgerInv, [Next]_vars PROVE LedgerInv'
  OBVIOUS
<1>1. ASSUME NEW o \in Orders, OrderStep(o) PROVE LedgerInv'
  <2>1. UNCHANGED <<wallet, ledger>>
    BY <1>1 DEF OrderStep, ApproveOrder, ReturnToAccounts, CancelOrder, PostRedeem, PostReverse
  <2>2. \A r \in Reqs : req'[r] = req[r] \/ ~ (At(r, "reverseTx")' \/ At(r, "reverseHeld")')
    BY <1>1 DEF OrderStep, ApproveOrder, ReturnToAccounts, CancelOrder, PostRedeem, PostReverse,
                Call, At, IInv, TypeOK
  <2> QED  BY <2>1, <2>2, LedgerFrame
<1>2. ASSUME NEW r \in Reqs, ReqStep(r) PROVE LedgerInv'
  BY <1>2, EarnCommitLedger, RedeemCommitLedger, ReverseCommitLedger, ReadLedger DEF ReqStep
<1>3. CASE Crash
  <2>1. UNCHANGED <<wallet, ledger>> /\ \A r \in Reqs : req'[r] = Idle
    BY <1>3 DEF Crash
  <2> QED  BY <2>1, LedgerFrame DEF Idle, Call, At
<1>4. CASE UNCHANGED vars
  BY <1>4, LedgerFrame DEF vars
<1> QED  BY <1>1, <1>2, <1>3, <1>4 DEF Next, Serve

LEMMA LedgerInvariance == Spec => []LedgerInv
  BY InitLedgerInv, NextLedgerInv, Invariance, PTL DEF Spec

(* RULE 5 and the promise of the ledger: whatever overlaps, is refused or  *)
(* crashes, a wallet holds exactly what its unflagged rows say.            *)
THEOREM WalletIsItsLedger == Spec => []BalanceIsLedgerSum
<1>1. LedgerInv => BalanceIsLedgerSum
  BY DEF LedgerInv
<1> QED  BY <1>1, LedgerInvariance, PTL

(* A reversal is flagged for manual reconciliation only where some points  *)
(* of the wallet were redeemed.                                            *)
THEOREM FlaggedOnlyIfSpent == Spec => []FlaggedMeansSpent
<1>1. LedgerInv => FlaggedMeansSpent
  BY DEF LedgerInv
<1> QED  BY <1>1, LedgerInvariance, PTL

------------------------------------------------------------------------------
(* RULES 1-4: computeEarnPoints returns the most points the rules allow,   *)
(* or one less where the doubles fall short, for every order and every     *)
(* setting of the thresholds.                                              *)
THEOREM EarnLargest ==
  ASSUME NEW f \in [subtotal : Nat, discount : Nat, grossProfit : Int,
                    hasMissingCost : BOOLEAN],
         NEW t \in [earnRatePct : Nat, gpRatePct : Nat, pointCap : Nat]
  PROVE  EarnsLargest(f, t)
<1> DEFINE s == f.subtotal
           d == f.discount
           g == f.grossProfit
           er == t.earnRatePct
           gr == t.gpRatePct
           cap == t.pointCap
           flat == PercentOf(s, d, er)
           gp == PercentOf(g, 0, gr)
           n == ComputeEarnPoints(f, t)
<1>1. s \in Nat /\ d \in Nat /\ g \in Int /\ er \in Nat /\ gr \in Nat /\ cap \in Nat
  OBVIOUS
<1> HIDE DEF s, d, g, er, gr, cap
<1>2. g - 0 = g
  BY <1>1
<1>3. /\ flat \in Nat
      /\ \A m \in Nat : m > 0 /\ m <= flat => Whole * m <= (s - d) * er
      /\ \A m \in Nat : m > 0 /\ Whole * m <= (s - d) * er /\ m > flat =>
           m = flat + 1 /\ Slips(s, d, er, m)
  <2>1. s \in Int /\ d \in Int
    BY <1>1
  <2> QED  BY <1>1, <2>1, PercentFits, Zenon
<1>4. /\ gp \in Nat
      /\ \A m \in Nat : m > 0 /\ m <= gp => Whole * m <= g * gr
      /\ \A m \in Nat : m > 0 /\ Whole * m <= g * gr /\ m > gp =>
           m = gp + 1 /\ Slips(g, 0, gr, m)
  <2>1. /\ gp \in Nat
        /\ \A m \in Nat : m > 0 /\ m <= gp => Whole * m <= (g - 0) * gr
        /\ \A m \in Nat : m > 0 /\ Whole * m <= (g - 0) * gr /\ m > gp =>
             m = gp + 1 /\ Slips(g, 0, gr, m)
    <3>1. 0 \in Int
      OBVIOUS
    <3> QED  BY <1>1, <3>1, PercentFits, Zenon
  <2> QED  BY <1>2, <2>1, Zenon
(* An order without a subtotal earns nothing, in whichever tier.           *)
<1>5. AboveFive(f) => s > 0 \/ flat = 0
  <2> SUFFICES ASSUME ~ (s > 0) PROVE flat = 0
    OBVIOUS
  <2>1. s - d <= 0 /\ s - d \in Int
    BY <1>1
  <2>2. \A x \in Int, y \in Nat : x <= 0 => x * y <= 0 /\ x * y \in Int
    OBVIOUS
  <2>3. (s - d) * er <= 0 /\ (s - d) * er \in Int
    BY <1>1, <2>1, <2>2
  <2>4. \A m \in Nat : m > 0 => Whole * m > 0 /\ Whole * m \in Nat
    BY CalcAssumption
  <2> HIDE DEF flat
  <2>5. flat > 0 => Whole * flat <= (s - d) * er
    BY <1>3
  <2> QED  BY <1>3, <2>3, <2>4, <2>5
<1>6. s > 0 => (LowDiscount(f) <=> ~ AboveFive(f))
  BY <1>1 DEF LowDiscount, AboveFive, s, d
<1>7. ~ (s > 0) => LowDiscount(f)
  BY <1>1 DEF LowDiscount, s
<1>8. Flagged(f) <=> (f.hasMissingCost \/ ~ (g >= 0))
  BY <1>1 DEF Flagged, g
<1>9. n = IF Flagged(f) THEN 0
          ELSE GreaterOf(0, LesserOf(IF LowDiscount(f) THEN flat ELSE LesserOf(gp, flat), cap))
  BY DEF ComputeEarnPoints, s, d, g, er, gr, cap
<1>10. \A m : m \in EarnAllowed(f, t) <=>
          /\ m \in 0..cap
          /\ m = 0 \/ /\ ~ Flagged(f) /\ Whole * m <= (s - d) * er
                      /\ AboveFive(f) => Whole * m <= g * gr
  BY <1>8 DEF EarnAllowed, s, d, g, er, gr, cap
<1>11. \A m : EarnSlips(f, t, m) <=>
          Slips(s, d, er, m) \/ (AboveFive(f) /\ Slips(g, 0, gr, m))
  BY DEF EarnSlips, s, d, g, er, gr
<1> SUFFICES /\ n \in EarnAllowed(f, t)
             /\ \A m \in EarnAllowed(f, t) : m > n => m = n + 1 /\ EarnSlips(f, t, m)
  BY DEF EarnsLargest
<1> HIDE DEF flat, gp, n
<1>12. CASE Flagged(f)
  <2>1. n = 0 /\ \A m \in EarnAllowed(f, t) : m = 0
    BY <1>9, <1>10, <1>12
  <2> QED  BY <1>1, <1>10, <2>1
<1>13. CASE ~ Flagged(f) /\ LowDiscount(f)
  <2>1. n = LesserOf(flat, cap) /\ n \in 0..cap /\ n <= flat
    BY <1>1, <1>3, <1>9, <1>13 DEF GreaterOf, LesserOf
  <2>2. n > 0 => ~ AboveFive(f) /\ Whole * n <= (s - d) * er
    BY <1>1, <1>3, <1>5, <1>6, <2>1, <1>13
  <2>3. n \in EarnAllowed(f, t)
    BY <1>1, <1>10, <1>13, <2>1, <2>2
  <2>4. ASSUME NEW m \in EarnAllowed(f, t), m > n PROVE m = n + 1 /\ EarnSlips(f, t, m)
    <3>1. m \in 0..cap /\ m > 0 /\ Whole * m <= (s - d) * er
      BY <1>1, <1>10, <2>1, <2>4
    <3>2. n = flat
      BY <1>1, <1>3, <2>1, <2>4, <3>1 DEF LesserOf
    <3> QED  BY <1>1, <1>3, <1>11, <2>4, <3>1, <3>2
  <2> QED  BY <2>3, <2>4
<1>14. CASE ~ Flagged(f) /\ ~ LowDiscount(f)
  <2>1. AboveFive(f)
    BY <1>6, <1>7, <1>14
  <2>2. n = LesserOf(LesserOf(gp, flat), cap) /\ n \in 0..cap /\ n <= flat /\ n <= gp
    BY <1>1, <1>3, <1>4, <1>9, <1>14 DEF GreaterOf, LesserOf
  <2>3. n \in EarnAllowed(f, t)
    <3>1. n > 0 => Whole * n <= (s - d) * er
      BY <1>1, <1>3, <2>2
    <3>2. n > 0 => Whole * n <= g * gr
      BY <1>1, <1>4, <2>2
    <3> QED  BY <1>1, <1>10, <1>14, <2>2, <3>1, <3>2
  <2>4. ASSUME NEW m \in EarnAllowed(f, t), m > n PROVE m = n + 1 /\ EarnSlips(f, t, m)
    <3>1. m \in 0..cap /\ m > 0 /\ Whole * m <= (s - d) * er /\ Whole * m <= g * gr
      BY <1>1, <1>10, <2>1, <2>2, <2>4
    <3>2. n = flat \/ n = gp
      BY <1>1, <1>3, <1>4, <2>2, <2>4, <3>1 DEF LesserOf
    <3>3. CASE n = flat
      BY <1>1, <1>3, <1>11, <2>4, <3>1, <3>3
    <3>4. CASE n = gp
      BY <1>1, <1>4, <1>11, <2>1, <2>4, <3>1, <3>4
    <3> QED  BY <3>2, <3>3, <3>4
  <2> QED  BY <2>3, <2>4
<1> QED  BY <1>12, <1>13, <1>14

(* RULE 6: computeRedemption returns the most points the rules allow, or   *)
(* one less where the doubles fall short of the cap, for every bill,       *)
(* balance and request.                                                    *)
THEOREM RedeemLargest ==
  ASSUME NEW bill \in Int, NEW balance \in Nat, NEW asked \in Nat
  PROVE  RedeemsLargest(bill, balance, asked)
<1> DEFINE part == PercentOf(bill, 0, CapPct)
           n == ComputeRedemption(bill, balance, asked, CapPct)
<1>1. CapPct \in Nat /\ bill - 0 = bill
  BY LoyaltyAssumption
<1>2. /\ part \in Nat
      /\ \A m \in Nat : m > 0 /\ m <= part => Whole * m <= bill * CapPct
      /\ \A m \in Nat : m > 0 /\ Whole * m <= bill * CapPct /\ m > part =>
           m = part + 1 /\ Slips(bill, 0, CapPct, m)
  BY <1>1, PercentFits
<1>3. n = LesserOf(part, LesserOf(balance, asked))
  BY DEF ComputeRedemption, GreaterOf
<1>4. \A m : m \in RedeemAllowed(bill, balance, asked) <=>
         m \in 0..balance /\ m <= asked /\ (m = 0 \/ Whole * m <= bill * CapPct)
  BY DEF RedeemAllowed
<1> SUFFICES /\ n \in RedeemAllowed(bill, balance, asked)
             /\ \A m \in RedeemAllowed(bill, balance, asked) :
                  m > n => m = n + 1 /\ Slips(bill, 0, CapPct, m)
  BY DEF RedeemsLargest
<1> HIDE DEF part, n
<1>5. /\ n \in 0..balance /\ n <= asked /\ n <= part
      /\ \A m \in 0..balance : m <= asked /\ m > n => n = part
  BY <1>2, <1>3 DEF LesserOf
<1>6. n \in RedeemAllowed(bill, balance, asked)
  <2>1. n > 0 => Whole * n <= bill * CapPct
    BY <1>2, <1>5
  <2> QED  BY <1>4, <1>5, <2>1
<1>7. ASSUME NEW m \in RedeemAllowed(bill, balance, asked), m > n
      PROVE  m = n + 1 /\ Slips(bill, 0, CapPct, m)
  <2>1. m \in 0..balance /\ m <= asked /\ m > 0 /\ Whole * m <= bill * CapPct
    BY <1>4, <1>5, <1>7
  <2>2. n = part
    BY <1>5, <1>7, <2>1
  <2> QED  BY <1>2, <1>7, <2>1, <2>2
<1> QED  BY <1>6, <1>7

(* What an order earns is the most that rules 1-4 allow, or one less where *)
(* the doubles fall short, whenever an earn call computes it.              *)
THEOREM EarnsByTheRules == Spec => []EarnIsLargestAllowed
<1>1. EarnIsLargestAllowed
  BY EarnLargest, LoyaltyAssumption DEF EarnIsLargestAllowed, EveryEarnIsLargest
<1> QED  BY <1>1, PTL

(* What a redemption takes from the balance its transaction meets is the   *)
(* most that rule 6 allows, or one less where the doubles fall short: the  *)
(* balance is never negative when it does.                                 *)
THEOREM RedeemsByTheRules == Spec => []RedeemIsLargestAllowed
<1>1. IInv => RedeemIsLargestAllowed
  <2> SUFFICES ASSUME IInv, NEW r \in Reqs, At(r, "redeemTx"), wallet[Phone(r)] # NoWallet,
                      NEW bill \in Bills, NEW asked \in Asks
               PROVE  RedeemsLargest(bill, wallet[Phone(r)], asked)
    BY DEF RedeemIsLargestAllowed
  <2>1. Phone(r) \in Phones
    BY DEF IInv, EarnedInv
  <2>2. wallet[Phone(r)] \in Nat
    BY <2>1 DEF IInv, TypeOK, NonNegativeBalance
  <2>3. bill \in Int /\ asked \in Nat
    BY LoyaltyAssumption
  <2> QED  BY <2>2, <2>3, RedeemLargest
<1> QED  BY <1>1, Invariance, PTL
=============================================================================
