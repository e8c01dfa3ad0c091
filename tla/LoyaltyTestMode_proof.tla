------------------------ MODULE LoyaltyTestMode_proof ------------------------
(***************************************************************************)
(* Proofs about the loyalty test mode, for any wallets, simulations and    *)
(* overlapping requests: no simulation and no clearTestData changes a      *)
(* ledger row of a real order.                                             *)
(*                                                                         *)
(* clearTestData removes EARN rows while a reversal of one is in flight,   *)
(* so the wallet's own invariant (Loyalty_proof) does not hold here.  What *)
(* is left is enough for the types: a wallet once made never goes away,    *)
(* and a transaction only runs on a valid phone.                           *)
(***************************************************************************)
EXTENDS LoyaltyTestMode, Loyalty_proof

ClearType == [sum : Int, ids : SUBSET TestIds, on : BOOLEAN]

OnWallet == {"redeemHeld", "reverseTx", "reverseHeld"}
InTx == {"earnTx", "redeemTx"} \cup OnWallet

Safe(r) ==
  /\ req[r].pc \in InTx => Phone(r) \in Phones
  /\ req[r].pc \in OnWallet => wallet[Phone(r)] # NoWallet

TestInv ==
  /\ TypeOK
  /\ clear \in [Phones -> ClearType]
  /\ \A o \in TxnIds : Has(o, "EARN") => PhoneOf[o] \in Phones /\ wallet[PhoneOf[o]] # NoWallet
  /\ \A r \in Reqs : Safe(r)

LEMMA TestInitInv == TestInit => TestInv
<1> SUFFICES ASSUME TestInit PROVE TestInv
  OBVIOUS
<1>1. TypeOK /\ EarnedInv
  BY InitIInv DEF TestInit, IInv
<1>2. NotClearing \in ClearType
  BY DEF NotClearing, ClearType
<1>3. clear \in [Phones -> ClearType]
  BY <1>2 DEF TestInit
<1>4. \A r \in Reqs : req[r].pc = "idle"
  BY DEF TestInit, Init, Idle, Call
<1> QED  BY <1>1, <1>3, <1>4 DEF TestInv, EarnedInv, Safe, InTx, OnWallet

(* What a step has to show: nothing it leaves alone can lose a wallet.     *)
LEMMA TestFrame ==
  ASSUME TestInv, TypeOK', clear' \in [Phones -> ClearType],
         \A p \in Phones : wallet[p] # NoWallet => wallet'[p] # NoWallet,
         \A o \in TxnIds : Has(o, "EARN")' =>
           Has(o, "EARN") \/ (PhoneOf[o] \in Phones /\ wallet'[PhoneOf[o]] # NoWallet),
         \A r \in Reqs : req'[r] = req[r] \/ Safe(r)'
  PROVE  TestInv'
<1>1. ASSUME NEW r \in Reqs PROVE Safe(r)'
  <2>1. CASE req'[r] = req[r]
    <3>1. Phone(r)' = Phone(r) /\ Safe(r)
      BY <2>1 DEF Phone, TestInv
    <3> QED  BY <2>1, <3>1 DEF Safe, InTx
  <2> QED  BY <2>1
<1>2. \A o \in TxnIds : Has(o, "EARN")' =>
        PhoneOf[o] \in Phones /\ wallet'[PhoneOf[o]] # NoWallet
  BY DEF TestInv
<1> QED  BY <1>1, <1>2 DEF TestInv

(* A step that leaves the data alone and moves one request.                *)
LEMMA TestMove ==
  ASSUME TestInv, NEW r \in Reqs, UNCHANGED <<wallet, ledger, clear>>,
         status' \in [Orders -> Statuses], lock' \in [Phones -> Reqs \cup {NoReq}],
         ReqTypeOK', \A x \in Reqs \ {r} : req'[x] = req[x], Safe(r)'
  PROVE  TestInv'
<1>1. TypeOK'
  BY DEF TestInv, TypeOK, ReqTypeOK
<1>2. clear' \in [Phones -> ClearType]
  BY DEF TestInv
<1> QED  BY <1>1, <1>2, TestFrame DEF Has

LEMMA TestGiveUp ==
  ASSUME TestInv, NEW r \in Reqs, Done(r), UNCHANGED <<status, wallet, ledger, lock, clear>>
  PROVE  TestInv'
<1>1. ReqTypeOK' /\ req'[r].pc = "idle" /\ \A x \in Reqs \ {r} : req'[x] = req[x]
  BY DoneReq DEF TestInv
<1>2. Safe(r)'
  BY <1>1 DEF Safe, InTx, OnWallet
<1> QED  BY <1>1, <1>2, TestMove DEF TestInv, TypeOK

LEMMA TestGoto ==
  ASSUME TestInv, NEW r \in Reqs, ~ At(r, "idle"), NEW pc \in InTx, NEW n \in Int,
         NEW v \in Int, Goto(r, pc, n, v), UNCHANGED <<status, wallet, ledger, clear>>,
         lock' \in [Phones -> Reqs \cup {NoReq}],
         Phone(r) \in Phones, pc \in OnWallet => wallet[Phone(r)] # NoWallet
  PROVE  TestInv'
<1>1. pc \in Pcs
  BY DEF InTx, OnWallet, Pcs
<1>2. /\ ReqTypeOK' /\ req'[r].pc = pc /\ req'[r].order = req[r].order
      /\ \A x \in Reqs \ {r} : req'[x] = req[x]
  BY <1>1, GotoReq DEF TestInv
<1>3. Safe(r)'
  BY <1>2 DEF Safe, Phone
<1>4. status' \in [Orders -> Statuses]
  BY DEF TestInv, TypeOK
<1> QED  BY <1>2, <1>3, <1>4, TestMove

(* Starting a call outside its transaction.                                *)
LEMMA TestOrderStep ==
  ASSUME TestInv, NEW o \in Orders, OrderStep(o), UNCHANGED clear
  PROVE  TestInv'
<1>0. /\ UNCHANGED <<wallet, ledger, lock>>
      /\ status' \in [Orders -> Statuses]
  BY DEF OrderStep, ApproveOrder, ReturnToAccounts, CancelOrder, PostRedeem,
         PostReverse, TestInv, TypeOK, Statuses
<1>1. \A r \in Reqs : \/ req'[r] = req[r]
                      \/ \E pc \in {"earn", "redeem", "reverse"}, n \in Nat :
                           req'[r] = Call(pc, o, n)
  <2>1. req \in [Reqs -> ReqType] /\ Requests \subseteq Nat
    BY LoyaltyAssumption DEF TestInv, TypeOK
  <2>2. CASE ApproveOrder(o)
    BY <2>1, <2>2 DEF ApproveOrder
  <2>3. CASE ReturnToAccounts(o) \/ CancelOrder(o)
    BY <2>1, <2>3 DEF ReturnToAccounts, CancelOrder
  <2>4. CASE PostRedeem(o) \/ PostReverse(o)
    BY <2>1, <2>4 DEF PostRedeem, PostReverse
  <2> QED  BY <2>2, <2>3, <2>4 DEF OrderStep
<1>2. DOMAIN req' = Reqs /\ req' = [r \in Reqs |-> req'[r]]
  BY DEF OrderStep, ApproveOrder, ReturnToAccounts, CancelOrder, PostRedeem,
         PostReverse, TestInv, TypeOK
<1>3. o \in TxnIds
  BY DEF TxnIds
<1>4. ASSUME NEW r \in Reqs
      PROVE  /\ req'[r] \in ReqType
             /\ req'[r].pc # "idle" => req'[r].order \in TxnIds
             /\ req'[r] = req[r] \/ Safe(r)'
  <2>1. CASE req'[r] = req[r]
    BY <2>1 DEF TestInv, TypeOK, At
  <2>2. CASE \E pc \in {"earn", "redeem", "reverse"}, n \in Nat : req'[r] = Call(pc, o, n)
    <3> PICK pc \in {"earn", "redeem", "reverse"}, n \in Nat : req'[r] = Call(pc, o, n)
      BY <2>2
    <3>1. req'[r] \in ReqType /\ req'[r].order = o /\ req'[r].pc = pc
      BY <1>3 DEF Call, ReqType, Pcs
    <3> QED  BY <1>3, <3>1 DEF Safe, InTx, OnWallet
  <2> QED  BY <1>1, <2>1, <2>2
<1>5. TypeOK'
  <2>1. req' \in [Reqs -> ReqType] /\ \A r \in Reqs : ~ At(r, "idle")' => req'[r].order \in TxnIds
    BY <1>2, <1>4 DEF At
  <2> QED  BY <1>0, <2>1 DEF TestInv, TypeOK
<1>6. clear' \in [Phones -> ClearType]
  BY DEF TestInv
<1> QED  BY <1>0, <1>4, <1>5, <1>6, TestFrame DEF Has

------------------------------------------------------------------------------
LEMMA RedemptionInt ==
  ASSUME NEW v \in Int, NEW b \in Int, NEW n \in Int, NEW c \in Nat
  PROVE  ComputeRedemption(v, b, n, c) \in Int
<1> DEFINE x == GreaterOf(0, v - 0)
<1>1. x \in Nat
  BY DEF GreaterOf
<1>2. \A y, z \in Nat : y * z \in Nat
  OBVIOUS
<1>3. \A y \in Nat, w \in Nat \ {0} : y \div w \in Int
  OBVIOUS
<1>4. x * c \in Nat /\ Whole \in Nat \ {0}
  BY <1>1, <1>2, CalcAssumption
<1>5. Share(v, 0, c) \div Whole \in Int
  BY <1>3, <1>4 DEF Share
<1>6. PercentOf(v, 0, c) \in Int
  BY <1>5 DEF PercentOf
<1> QED  BY <1>6 DEF ComputeRedemption, LesserOf, GreaterOf

LEMMA ReversalInt ==
  ASSUME NEW b \in Int, NEW n \in Int
  PROVE  ComputeReversal(b, n) \in Int /\ NeedsManualReconciliation(b, n) \in BOOLEAN
  BY DEF ComputeReversal, NeedsManualReconciliation

(* The steps of a request that leave wallet and ledger alone.              *)
LEMMA TestReadStep ==
  ASSUME TestInv, NEW r \in Reqs, UNCHANGED clear,
         \/ EarnRead(r) \/ EarnConflict(r) \/ RedeemRead(r) \/ RedeemLock(r)
         \/ ReverseRead(r) \/ ReverseLock(r)
  PROVE  TestInv'
<1>1. /\ UNCHANGED <<status, wallet, ledger>> /\ ~ At(r, "idle")
      /\ req[r].order \in TxnIds /\ req[r].points \in Int /\ req[r].seen \in Int
      /\ PhoneOf[req[r].order] \in Phones \cup {NoPhone}
  <2>1. UNCHANGED <<status, wallet, ledger>> /\ req[r].pc # "idle"
    BY DEF EarnRead, EarnConflict, RedeemRead, RedeemLock, ReverseRead, ReverseLock, At
  <2>2. PhoneOf \in [TxnIds -> Phones \cup {NoPhone}]
    BY LoyaltyAssumption
  <2> QED  BY <2>1, <2>2, ActiveReq DEF TestInv, At
<1>2. lock \in [Phones -> Reqs \cup {NoReq}]
      /\ [lock EXCEPT ![Phone(r)] = r] \in [Phones -> Reqs \cup {NoReq}]
  BY DEF TestInv, TypeOK
<1>3. CASE Done(r) /\ UNCHANGED lock
  BY <1>1, <1>3, TestGiveUp
<1>4. CASE EarnRead(r)
  <2>1. ASSUME Phone(r) # NoPhone, NEW n \in EarnPoints, Goto(r, "earnTx", n, 0) PROVE TestInv'
    <3>1. n \in Int /\ Phone(r) \in Phones /\ UNCHANGED lock
      BY <1>1, <1>4, <2>1, EarnPointsNat DEF Phone, EarnRead
    <3> QED  BY <1>1, <1>2, <2>1, <3>1, TestGoto DEF InTx, OnWallet
  <2> QED  BY <1>3, <1>4, <2>1 DEF EarnRead
<1>5. CASE RedeemRead(r)
  <2>1. ASSUME Phone(r) # NoPhone, NEW v \in BillValues, Goto(r, "redeemTx", req[r].points, v)
        PROVE  TestInv'
    <3>1. v \in Int /\ Phone(r) \in Phones /\ UNCHANGED lock
      BY <1>1, <1>5, <2>1, LoyaltyAssumption DEF Phone, RedeemRead
    <3> QED  BY <1>1, <1>2, <2>1, <3>1, TestGoto DEF InTx, OnWallet
  <2> QED  BY <1>3, <1>5, <2>1 DEF RedeemRead
<1>6. CASE RedeemLock(r)
  <2> DEFINE n == ComputeRedemption(req[r].seen, wallet[Phone(r)], req[r].points, CapPct)
  <2>1. CASE /\ wallet[Phone(r)] # NoWallet /\ Goto(r, "redeemHeld", n, req[r].seen)
             /\ lock' = [lock EXCEPT ![Phone(r)] = r]
    <3>1. Phone(r) \in Phones
      BY <1>6 DEF TestInv, Safe, RedeemLock, At, InTx
    <3>2. n \in Int
      <4>1. wallet[Phone(r)] \in Int
        BY <2>1, <3>1 DEF TestInv, TypeOK
      <4>2. CapPct \in Nat
        BY LoyaltyAssumption
      <4> QED  BY <1>1, <4>1, <4>2, RedemptionInt
    <3> HIDE DEF n
    <3> QED  BY <1>1, <1>2, <2>1, <3>1, <3>2, TestGoto DEF InTx, OnWallet
  <2> QED  BY <1>3, <1>6, <2>1 DEF RedeemLock
<1>7. CASE ReverseRead(r)
  <2>1. CASE /\ Has(req[r].order, "EARN")
             /\ Goto(r, "reverseTx", ledger[req[r].order]["EARN"].points, 0)
    <3>1. Phone(r) \in Phones /\ wallet[Phone(r)] # NoWallet
      BY <1>1, <2>1 DEF TestInv, Phone
    <3>2. ledger[req[r].order]["EARN"] \in Rows /\ UNCHANGED lock
      BY <1>1, <1>7, <2>1 DEF TestInv, TypeOK, TxnTypes, Has, ReverseRead
    <3>3. ledger[req[r].order]["EARN"].points \in Int
      BY <3>2 DEF Rows
    <3> QED  BY <1>1, <1>2, <2>1, <3>1, <3>2, <3>3, TestGoto DEF InTx, OnWallet
  <2> QED  BY <1>3, <1>7, <2>1 DEF ReverseRead
<1>8. CASE ReverseLock(r)
  <2>1. Phone(r) \in Phones /\ wallet[Phone(r)] # NoWallet
    BY <1>8 DEF TestInv, Safe, ReverseLock, At, InTx, OnWallet
  <2>2. wallet[Phone(r)] \in Int
    BY <2>1 DEF TestInv, TypeOK
  <2> QED  BY <1>1, <1>2, <1>8, <2>1, <2>2, TestGoto DEF ReverseLock, InTx, OnWallet
<1>9. CASE EarnConflict(r)
  BY <1>3, <1>9 DEF EarnConflict
<1> QED  BY <1>4, <1>5, <1>6, <1>7, <1>8, <1>9

(* The steps that write a balance and a row.                               *)
LEMMA TestWrite ==
  ASSUME TestInv, NEW r \in Reqs, Done(r), UNCHANGED <<status, clear>>,
         lock' \in [Phones -> Reqs \cup {NoReq}],
         NEW p \in Phones, NEW w \in Int, NEW o \in TxnIds, NEW k \in TxnTypes,
         NEW row \in Rows, PhoneOf[o] = p,
         wallet' = [wallet EXCEPT ![p] = w], Write(o, k, row)
  PROVE  TestInv'
<1>1. /\ ReqTypeOK' /\ req'[r].pc = "idle" /\ \A x \in Reqs \ {r} : req'[x] = req[x]
  BY DoneReq DEF TestInv
<1>2. /\ wallet' \in [Phones -> Int \cup {NoWallet}]
      /\ wallet'[p] = w /\ \A q \in Phones \ {p} : wallet'[q] = wallet[q]
  BY DEF TestInv, TypeOK
<1>3. w # NoWallet
  BY LoyaltyAssumption
<1>4. /\ ledger' \in [TxnIds -> [TxnTypes -> Rows \cup {NoRow}]]
      /\ \A x \in TxnIds \ {o} : ledger'[x] = ledger[x]
  BY DEF TestInv, TypeOK, Write
<1>5. TypeOK' /\ clear' \in [Phones -> ClearType]
  BY <1>1, <1>2, <1>4 DEF TestInv, TypeOK, ReqTypeOK
<1>6. Safe(r)'
  BY <1>1 DEF Safe, InTx, OnWallet
<1>7. \A x \in TxnIds : Has(x, "EARN")' =>
        Has(x, "EARN") \/ (PhoneOf[x] \in Phones /\ wallet'[PhoneOf[x]] # NoWallet)
  BY <1>2, <1>3, <1>4 DEF Has
<1>8. \A q \in Phones : wallet[q] # NoWallet => wallet'[q] # NoWallet
  BY <1>2, <1>3
<1> QED  BY <1>1, <1>5, <1>6, <1>7, <1>8, TestFrame

(* A transaction whose row the unique index refuses.                       *)
LEMMA TestRefused ==
  ASSUME TestInv, NEW r \in Reqs, Done(r), UNCHANGED <<status, wallet, ledger, clear>>,
         lock' \in [Phones -> Reqs \cup {NoReq}]
  PROVE  TestInv'
<1>1. ReqTypeOK' /\ req'[r].pc = "idle" /\ \A x \in Reqs \ {r} : req'[x] = req[x]
  BY DoneReq DEF TestInv
<1>2. Safe(r)' /\ status' \in [Orders -> Statuses]
  BY <1>1 DEF Safe, InTx, OnWallet, TestInv, TypeOK
<1> QED  BY <1>1, <1>2, TestMove

LEMMA TestCommitStep ==
  ASSUME TestInv, NEW r \in Reqs, UNCHANGED clear,
         EarnCommit(r) \/ RedeemCommit(r) \/ ReverseCommit(r)
  PROVE  TestInv'
<1> DEFINE o == req[r].order
           p == Phone(r)
           n == req[r].points
<1>1. /\ o \in TxnIds /\ n \in Int /\ req[r].seen \in Int
      /\ p \in Phones /\ wallet[p] \in Int \cup {NoWallet} /\ p = PhoneOf[o] /\ Done(r)
      /\ UNCHANGED status
  <2>1. req[r].pc \in {"earnTx", "redeemHeld", "reverseHeld"}
    BY DEF EarnCommit, RedeemCommit, ReverseCommit, At
  <2>2. p \in Phones
    BY <2>1 DEF TestInv, Safe, InTx, OnWallet
  <2>3. Done(r) /\ UNCHANGED status
    BY DEF EarnCommit, RedeemCommit, ReverseCommit
  <2>4. o \in TxnIds /\ n \in Int /\ req[r].seen \in Int
    BY <2>1, ActiveReq DEF TestInv
  <2> QED  BY <2>2, <2>3, <2>4 DEF TestInv, TypeOK, Phone
<1>2. lock \in [Phones -> Reqs \cup {NoReq}]
      /\ (Unlock(p) => lock' \in [Phones -> Reqs \cup {NoReq}])
  BY DEF TestInv, TypeOK, Unlock
<1>3. CASE EarnCommit(r)
  <2> DEFINE w == IF wallet[p] = NoWallet THEN n ELSE wallet[p] + n
             row == Row(n, FALSE)
  <2>1. w \in Int /\ row \in Rows
    BY <1>1 DEF Row, Rows
  <2>2. wallet' = [wallet EXCEPT ![p] = w] /\ Write(o, "EARN", row) /\ UNCHANGED lock
    BY <1>3 DEF EarnCommit, Credit
  <2> HIDE DEF w, row, o, p, n
  <2> QED  BY <1>1, <1>2, <2>1, <2>2, TestWrite DEF TxnTypes
<1>4. CASE RedeemCommit(r)
  <2> DEFINE w == wallet[p] - n
             row == Row(- n, FALSE)
  <2>0. Unlock(p)
    BY <1>4 DEF RedeemCommit
  <2>1. CASE UNCHANGED <<wallet, ledger>>
    BY <1>1, <1>2, <2>0, <2>1, TestRefused
  <2>2. CASE wallet' = [wallet EXCEPT ![p] = w] /\ Write(o, "REDEEM", row)
    <3>1. wallet[p] # NoWallet
      BY <1>4 DEF RedeemCommit, TestInv, Safe, At, OnWallet
    <3>2. w \in Int /\ row \in Rows
      BY <1>1, <3>1 DEF Row, Rows
    <3> HIDE DEF w, row, o, p, n
    <3> QED  BY <1>1, <1>2, <2>0, <2>2, <3>2, TestWrite DEF TxnTypes
  <2> QED  BY <1>4, <2>1, <2>2 DEF RedeemCommit
<1>5. CASE ReverseCommit(r)
  <2> DEFINE w == ComputeReversal(req[r].seen, n)
             row == Row(- n, NeedsManualReconciliation(req[r].seen, n))
  <2>0. Unlock(p)
    BY <1>5 DEF ReverseCommit
  <2>1. CASE UNCHANGED <<wallet, ledger>>
    BY <1>1, <1>2, <2>0, <2>1, TestRefused
  <2>2. CASE wallet' = [wallet EXCEPT ![p] = w] /\ Write(o, "REVERSE", row)
    <3>1. w \in Int /\ NeedsManualReconciliation(req[r].seen, n) \in BOOLEAN
      BY <1>1, ReversalInt
    <3>2. row \in Rows
      BY <1>1, <3>1 DEF Row, Rows
    <3> HIDE DEF w, row, o, p, n
    <3> QED  BY <1>1, <1>2, <2>0, <2>2, <3>1, <3>2, TestWrite DEF TxnTypes
  <2> QED  BY <1>5, <2>1, <2>2 DEF ReverseCommit
<1> QED  BY <1>3, <1>4, <1>5

------------------------------------------------------------------------------
(* The test mode's own steps.                                              *)
LEMMA TestStart ==
  ASSUME TestInv, NEW r \in Reqs, At(r, "idle"), UNCHANGED <<status, wallet, ledger, lock, clear>>,
         NEW q \in ReqType, q.order \in TxnIds, q.pc \in InTx,
         PhoneOf[q.order] \in Phones,
         q.pc \in OnWallet => wallet[PhoneOf[q.order]] # NoWallet,
         req' = [req EXCEPT ![r] = q]
  PROVE  TestInv'
<1>1. /\ req' \in [Reqs -> ReqType] /\ req'[r] = q
      /\ \A x \in Reqs \ {r} : req'[x] = req[x]
  BY DEF TestInv, TypeOK
<1>2. ReqTypeOK'
  BY <1>1 DEF TestInv, TypeOK, ReqTypeOK, At
<1>3. Safe(r)'
  BY <1>1 DEF Safe, Phone
<1> QED  BY <1>1, <1>2, <1>3, TestMove DEF TestInv, TypeOK

LEMMA SimulateStep ==
  ASSUME TestInv, NEW r \in Reqs,
         SimulateEarn(r) \/ SimulateRedeem(r) \/ SimulateReverse(r)
  PROVE  TestInv'
<1>0. \A o \in TestIds : o \in TxnIds /\ PhoneOf[o] \in Phones
  BY TestModeAssumption DEF TxnIds
<1>1. CASE SimulateEarn(r)
  <2> PICK o \in TestIds, n \in EarnPoints : req' = [req EXCEPT ![r] = Call("earnTx", o, n)]
    BY <1>1 DEF SimulateEarn
  <2> DEFINE q == Call("earnTx", o, n)
  <2>0. n \in Int
    BY EarnPointsNat
  <2>1. q \in ReqType /\ q.order = o /\ q.pc = "earnTx"
    BY <1>0, <2>0 DEF Call, ReqType, Pcs
  <2> HIDE DEF q
  <2> QED  BY <1>0, <1>1, <2>1, TestStart DEF SimulateEarn, InTx, OnWallet, q
<1>2. CASE SimulateRedeem(r)
  <2> PICK o \in TestIds, n \in Requests, v \in BillValues :
        req' = [req EXCEPT ![r] = [Call("redeemTx", o, n) EXCEPT !.seen = v]]
    BY <1>2 DEF SimulateRedeem
  <2> DEFINE q == [Call("redeemTx", o, n) EXCEPT !.seen = v]
  <2>0. n \in Int /\ v \in Int
    BY LoyaltyAssumption
  <2>1. q \in ReqType /\ q.order = o /\ q.pc = "redeemTx"
    BY <1>0, <2>0 DEF Call, ReqType, Pcs
  <2> HIDE DEF q
  <2> QED  BY <1>0, <1>2, <2>1, TestStart DEF SimulateRedeem, InTx, OnWallet, q
<1>3. CASE SimulateReverse(r)
  <2> PICK o \in TestIds :
        Has(o, "EARN") /\ req' = [req EXCEPT ![r] = Call("reverseTx", o, ledger[o]["EARN"].points)]
    BY <1>3 DEF SimulateReverse
  <2> DEFINE q == Call("reverseTx", o, ledger[o]["EARN"].points)
  <2>0. ledger[o]["EARN"] \in Rows /\ wallet[PhoneOf[o]] # NoWallet
    BY <1>0 DEF TestInv, TypeOK, TxnTypes, Has
  <2>1. ledger[o]["EARN"].points \in Int
    BY <2>0 DEF Rows
  <2>2. q \in ReqType /\ q.order = o /\ q.pc = "reverseTx"
    BY <1>0, <2>1 DEF Call, ReqType, Pcs
  <2> HIDE DEF q
  <2> QED  BY <1>0, <1>3, <2>0, <2>2, TestStart DEF SimulateReverse, InTx, OnWallet, q
<1> QED  BY <1>1, <1>2, <1>3

LEMMA ClearBeginInv == ASSUME TestInv, NEW p \in Phones, ClearBegin(p) PROVE TestInv'
<1> DEFINE RowPoints(o, k) == IF Has(o, k) THEN ledger[o][k].points ELSE 0
           f == [o \in TxnIds |-> RowPoints(o, "EARN") + RowPoints(o, "REDEEM")
                                  + RowPoints(o, "REVERSE")]
           gone == {o \in Owner(p) \cap TestIds : \E k \in TxnTypes : Has(o, k)}
           sum == SumFunctionOnSet(f, Owner(p) \ gone)
<1>1. ASSUME NEW o \in TxnIds, NEW k \in TxnTypes PROVE RowPoints(o, k) \in Int
  BY DEF TestInv, TypeOK, Has, Rows
<1>2. \A o \in TxnIds : f[o] \in Int
  BY <1>1 DEF TxnTypes
<1>3. IsFiniteSet(Owner(p) \ gone) /\ Owner(p) \ gone \subseteq TxnIds
  BY OwnerFinite, FS_Subset DEF Owner
<1>4. clear' = [clear EXCEPT ![p] = [on |-> TRUE, ids |-> gone, sum |-> sum]]
      /\ UNCHANGED <<status, wallet, ledger, lock, req>>
  BY DEF ClearBegin
<1>5. gone \in SUBSET TestIds
  OBVIOUS
<1> HIDE DEF f, gone
<1>6. sum \in Int
  BY <1>2, <1>3, SumInt
<1>7. clear' \in [Phones -> ClearType]
  BY <1>4, <1>5, <1>6 DEF TestInv, ClearType
<1>8. TypeOK'
  BY <1>4 DEF TestInv, TypeOK, At
<1> QED  BY <1>4, <1>7, <1>8, TestFrame DEF Has

LEMMA ClearCommitInv == ASSUME TestInv, NEW p \in Phones, ClearCommit(p) PROVE TestInv'
<1>1. /\ wallet' = [wallet EXCEPT ![p] = clear[p].sum]
      /\ ledger' = [o \in TxnIds |-> IF o \in clear[p].ids
                                     THEN [k \in TxnTypes |-> NoRow] ELSE ledger[o]]
      /\ clear' = [clear EXCEPT ![p] = NotClearing]
      /\ UNCHANGED <<status, lock, req>>
  BY DEF ClearCommit
<1>2. clear[p].sum \in Int /\ NotClearing \in ClearType
  BY DEF TestInv, ClearType, NotClearing
<1>3. /\ wallet' \in [Phones -> Int \cup {NoWallet}]
      /\ \A q \in Phones : wallet[q] # NoWallet => wallet'[q] # NoWallet
  BY <1>1, <1>2, LoyaltyAssumption DEF TestInv, TypeOK
<1>4. ledger' \in [TxnIds -> [TxnTypes -> Rows \cup {NoRow}]]
  BY <1>1 DEF TestInv, TypeOK
<1>5. TypeOK'
  BY <1>1, <1>3, <1>4 DEF TestInv, TypeOK, At
<1>6. clear' \in [Phones -> ClearType]
  BY <1>1, <1>2 DEF TestInv
<1>7. \A o \in TxnIds : Has(o, "EARN")' => Has(o, "EARN")
  BY <1>1 DEF Has, TxnTypes
<1> QED  BY <1>1, <1>3, <1>5, <1>6, <1>7, TestFrame

LEMMA TestNextInv == TestInv /\ [TestNext]_tmVars => TestInv'
<1> SUFFICES ASSUME TestInv, [TestNext]_tmVars PROVE TestInv'
  OBVIOUS
<1>1. ASSUME NEW o \in Orders, OrderStep(o), UNCHANGED clear PROVE TestInv'
  BY <1>1, TestOrderStep
<1>2. ASSUME NEW r \in Reqs, ReqStep(r), UNCHANGED clear PROVE TestInv'
  BY <1>2, TestReadStep, TestCommitStep DEF ReqStep
<1>3. CASE TestStep
  BY <1>3, SimulateStep, ClearBeginInv, ClearCommitInv DEF TestStep
<1>4. CASE UNCHANGED tmVars
  <2>1. TypeOK' /\ clear' \in [Phones -> ClearType]
    BY <1>4 DEF tmVars, TestInv, TypeOK, At
  <2> QED  BY <1>4, <2>1, TestFrame DEF tmVars, Has
<1> QED  BY <1>1, <1>2, <1>3, <1>4 DEF TestNext, Serve

LEMMA TestInvariance == TestSpec => []TestInv
  BY TestInitInv, TestNextInv, PTL DEF TestSpec

(* clearTestData deletes only rows of test ids, and no simulated order is  *)
(* a real one.                                                             *)
LEMMA TestStepKeepsRows ==
  ASSUME TestInv, [TestNext]_tmVars, NEW o \in Orders, NEW k \in TxnTypes, Has(o, k)
  PROVE  ledger'[o][k] = ledger[o][k]
<1>1. CASE Serve
  BY <1>1, StepKeepsRows DEF TestInv, Next
<1>2. ASSUME NEW p \in Phones, ClearCommit(p) PROVE ledger'[o][k] = ledger[o][k]
  <2>1. clear[p].ids \subseteq TestIds
    BY DEF TestInv, ClearType
  <2>2. o \notin TestIds /\ o \in TxnIds
    BY LoyaltyAssumption DEF TxnIds
  <2> QED  BY <1>2, <2>1, <2>2 DEF ClearCommit
<1>3. CASE UNCHANGED ledger
  BY <1>3
<1> QED  BY <1>1, <1>2, <1>3 DEF TestNext, TestStep, SimulateEarn, SimulateRedeem,
                                 SimulateReverse, ClearBegin, tmVars

(* The types of the test mode, under which a wallet's balance can be any   *)
(* integer but never goes away.                                            *)
THEOREM TestTypeCorrect == TestSpec => []TypeOK
<1>1. TestInv => TypeOK
  BY DEF TestInv
<1> QED  BY <1>1, TestInvariance, PTL

(* "does not touch any transaction tied to a real order": whatever is      *)
(* simulated, cleared and served at once, every ledger row of a real order *)
(* stays as it was written.                                                *)
THEOREM TestModeIsApart == TestSpec => TestModeKeepsRealRows
<1>1. TestInv /\ [TestNext]_tmVars =>
        [\A o \in Orders, k \in TxnTypes : Has(o, k) => ledger'[o][k] = ledger[o][k]]_ledger
  BY TestStepKeepsRows
<1> QED  BY <1>1, TestInvariance, PTL
           DEF TestSpec, TestModeKeepsRealRows, RealRowsAreFinal
=============================================================================
