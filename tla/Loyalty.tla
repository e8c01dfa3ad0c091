------------------------------- MODULE Loyalty -------------------------------
(***************************************************************************)
(* The loyalty wallet (loyalty/loyalty.service.ts): one wallet row per     *)
(* normalised phone, one ledger row per (order, type), and the three       *)
(* operations accounts starts without waiting for them: earnForOrder,      *)
(* redeemForOrder and reverseForOrder.                                     *)
(*                                                                         *)
(* A request reads outside its transaction, then runs the transaction.     *)
(* Postgres runs it at READ COMMITTED: what was read before may be stale,  *)
(* SELECT ... FOR UPDATE holds the wallet row until the commit, an UPDATE  *)
(* of a held row waits, and the unique index on (orderId, type) aborts     *)
(* the second writer.  Everything between taking the row and the commit    *)
(* is one step for the operation that does not look at the row             *)
(* (earnForOrder increments it) and two for the ones that do.              *)
(*                                                                         *)
(* Abstracted: the order is its status; the invoice balance a redemption   *)
(* is capped by is any value of BillValues when the order has an invoice   *)
(* (module Invoice models how it moves); notifications are left            *)
(* out.                                                                    *)
(***************************************************************************)
EXTENDS Integers, FiniteSetsExt, LoyaltyCalc

CONSTANTS
  Orders,        \* real orders
  TestIds,       \* synthetic order ids of the test mode (TEST-EARN-*, TEST-REDEEM-*)
  Phones,        \* normalised phone numbers
  PhoneOf,       \* the phone of an order's customer, NoPhone when not valid
  NoPhone,
  Exempt,        \* test and sample orders, which never earn
  Reqs,          \* handles of requests in flight: the bound on concurrency
  NoReq,
  NoOrder,
  NoWallet,      \* no row for this phone yet
  NoRow,         \* no ledger row of this (order, type)
  Figures,       \* figures an invoiced order can have ...
  Terms,         \* ... and the programme's thresholds
  Asks,          \* points an agent can ask to redeem
  Bills,         \* invoice balances
  EarnPoints,    \* of what computeEarnPoints makes of them, what the calls earn
  Requests,      \* of the asks and of the bills, those that the calls meet
  BillValues,
  CapPct         \* redemptionCapPct

TxnIds == Orders \cup TestIds
TxnTypes == {"EARN", "REDEEM", "REVERSE"}

Statuses == {"PENDING_APPROVAL", "APPROVED", "CANCELLED"}

(* A ledger row.  "flagged" is the reason text that marks a reversal for   *)
(* manual reconciliation.                                                  *)
Rows == [points : Int, flagged : BOOLEAN]
Row(points, flagged) == [points |-> points, flagged |-> flagged]

ASSUME LoyaltyAssumption ==
  /\ IsFiniteSet(Orders) /\ IsFiniteSet(TestIds)
  /\ PhoneOf \in [TxnIds -> Phones \cup {NoPhone}]
  /\ NoPhone \notin Phones
  /\ NoReq \notin Reqs
  /\ NoWallet \notin Int
  /\ NoRow \notin Rows
  /\ Figures \subseteq [subtotal : Nat, discount : Nat, grossProfit : Int,
                        hasMissingCost : BOOLEAN]
  /\ Terms \subseteq [earnRatePct : Nat, gpRatePct : Nat, pointCap : Nat]
  /\ EarnPoints \subseteq {ComputeEarnPoints(f, t) : f \in Figures, t \in Terms}
  /\ Requests \subseteq Asks /\ Asks \subseteq Nat
  /\ BillValues \subseteq Bills /\ Bills \subseteq Int
  /\ CapPct \in Nat
  /\ Orders \cap TestIds = {}

VARIABLES
  status,   \* Order.status, as far as accounts drives the wallet
  wallet,   \* CustomerLoyaltyWallet.points by phone
  ledger,   \* CustomerLoyaltyTransaction by (order, type)
  lock,     \* who holds the wallet row FOR UPDATE
  req       \* the requests in flight

vars == <<status, wallet, ledger, lock, req>>

Pcs == {"idle", "earn", "earnTx", "redeem", "redeemTx", "redeemHeld",
        "reverse", "reverseTx", "reverseHeld"}
ReqType == [pc : Pcs, order : TxnIds \cup {NoOrder}, points : Int, seen : Int]
Call(pc, o, points) == [pc |-> pc, order |-> o, points |-> points, seen |-> 0]
Idle == Call("idle", NoOrder, 0)

Init ==
  /\ status = [o \in Orders |-> "PENDING_APPROVAL"]
  /\ wallet = [p \in Phones |-> NoWallet]
  /\ ledger = [o \in TxnIds |-> [k \in TxnTypes |-> NoRow]]
  /\ lock = [p \in Phones |-> NoReq]
  /\ req = [r \in Reqs |-> Idle]

------------------------------------------------------------------------------
Has(o, k) == ledger[o][k] # NoRow
At(r, pc) == req[r].pc = pc
Phone(r) == PhoneOf[req[r].order]
Free(p) == lock[p] = NoReq
(* Mutated form: the request stays in the table under another name.        *)
Done_Lingers(r) == req' = [req EXCEPT ![r].pc = "done"]
Done(r) == req' = [req EXCEPT ![r] = Idle]
Goto(r, pc, n, v) ==
  req' = [req EXCEPT ![r] = [pc |-> pc, order |-> req[r].order, points |-> n, seen |-> v]]
Write(o, k, row) == ledger' = [ledger EXCEPT ![o][k] = row]
Unlock(p) == lock' = [lock EXCEPT ![p] = NoReq]

(* accounts.approveOrder, after its own transaction has committed: earn is *)
(* started, and redeem too when the agent asked for one; neither is        *)
(* awaited.                                                                *)
ApproveOrder(o) ==
  /\ status[o] = "PENDING_APPROVAL"
  /\ status' = [status EXCEPT ![o] = "APPROVED"]
  /\ \E e \in Reqs :
       /\ At(e, "idle")
       /\ \/ req' = [req EXCEPT ![e] = Call("earn", o, 0)]
          \/ \E r \in Reqs \ {e}, n \in Requests :
               /\ At(r, "idle") /\ n > 0
               /\ req' = [req EXCEPT ![e] = Call("earn", o, 0),
                                     ![r] = Call("redeem", o, n)]
  /\ UNCHANGED <<wallet, ledger, lock>>

(* accounts.returnToAccounts puts an approved order back in the queue.     *)
ReturnToAccounts(o) ==
  /\ status[o] = "APPROVED"
  /\ status' = [status EXCEPT ![o] = "PENDING_APPROVAL"]
  /\ UNCHANGED <<wallet, ledger, lock, req>>

(* accounts.rejectOrder and a whole-order approveCancellation: the order   *)
(* is cancelled whatever its status was and the reversal is started.       *)
CancelOrder(o) ==
  /\ status' = [status EXCEPT ![o] = "CANCELLED"]
  /\ \E r \in Reqs : /\ At(r, "idle")
                     /\ req' = [req EXCEPT ![r] = Call("reverse", o, 0)]
  /\ UNCHANGED <<wallet, ledger, lock>>

(* POST loyalty/orders/:id/redeem and .../reverse, in any status.          *)
PostRedeem(o) ==
  /\ \E r \in Reqs, n \in Requests :
       /\ At(r, "idle")
       /\ req' = [req EXCEPT ![r] = Call("redeem", o, n)]
  /\ UNCHANGED <<status, wallet, ledger, lock>>

PostReverse(o) ==
  /\ \E r \in Reqs : /\ At(r, "idle")
                     /\ req' = [req EXCEPT ![r] = Call("reverse", o, 0)]
  /\ UNCHANGED <<status, wallet, ledger, lock>>

------------------------------------------------------------------------------
(* earnForOrder: the look-up that saves a round trip, and the points.      *)
EarnRead(r) ==
  /\ At(r, "earn")
  /\ IF req[r].order \in Exempt \/ Has(req[r].order, "EARN") \/ Phone(r) = NoPhone
     THEN Done(r)
     ELSE \E n \in EarnPoints : Goto(r, "earnTx", n, 0)
  /\ UNCHANGED <<status, wallet, ledger, lock>>

Credit(p, n) ==
  wallet' = [wallet EXCEPT ![p] = IF @ = NoWallet THEN n ELSE @ + n]

(* Mutated form: without the unique index on (orderId, type).              *)
EarnCommit_NoUniqueIndex(r) ==
  LET o == req[r].order
  IN  /\ At(r, "earnTx")
      /\ Free(Phone(r))
      /\ Credit(Phone(r), req[r].points)
      /\ Write(o, "EARN", Row(req[r].points, FALSE))
      /\ Done(r)
      /\ UNCHANGED <<status, lock>>

(* Its transaction: upsert the wallet, increment it, write the EARN row.   *)
EarnCommit(r) ==
  LET o == req[r].order
  IN  /\ At(r, "earnTx")
      /\ Free(Phone(r))
      /\ ~ Has(o, "EARN")
      /\ Credit(Phone(r), req[r].points)
      /\ Write(o, "EARN", Row(req[r].points, FALSE))
      /\ Done(r)
      /\ UNCHANGED <<status, lock>>

(* The unique index (orderId, type) refuses the row: P2002, all undone.    *)
EarnConflict(r) ==
  /\ At(r, "earnTx")
  /\ Free(Phone(r))
  /\ Has(req[r].order, "EARN")
  /\ Done(r)
  /\ UNCHANGED <<status, wallet, ledger, lock>>

------------------------------------------------------------------------------
(* redeemForOrder: the checks and the bill value, outside the transaction. *)
RedeemRead(r) ==
  /\ At(r, "redeem")
  /\ IF Has(req[r].order, "REDEEM") \/ Phone(r) = NoPhone
     THEN Done(r)
     ELSE \/ Done(r)                                  \* no invoice yet
          \/ \E v \in BillValues : Goto(r, "redeemTx", req[r].points, v)
  /\ UNCHANGED <<status, wallet, ledger, lock>>

(* Mutated form: a plain SELECT, which neither waits for the row nor keeps *)
(* it.                                                                     *)
RedeemLock_PlainSelect(r) ==
  LET p == Phone(r)
      n == ComputeRedemption(req[r].seen, wallet[p], req[r].points, CapPct)
  IN  /\ At(r, "redeemTx")
      /\ wallet[p] # NoWallet /\ n > 0
      /\ Goto(r, "redeemHeld", n, req[r].seen)
      /\ UNCHANGED <<status, wallet, ledger, lock>>

(* SELECT ... FOR UPDATE, then computeRedemption on the row it returns.    *)
RedeemLock(r) ==
  LET p == Phone(r)
      n == ComputeRedemption(req[r].seen, wallet[p], req[r].points, CapPct)
  IN  /\ At(r, "redeemTx")
      /\ Free(p)
      /\ IF wallet[p] = NoWallet THEN Done(r) /\ UNCHANGED lock
         ELSE IF n <= 0 THEN Done(r) /\ UNCHANGED lock
         ELSE /\ Goto(r, "redeemHeld", n, req[r].seen)
              /\ lock' = [lock EXCEPT ![p] = r]
      /\ UNCHANGED <<status, wallet, ledger>>

(* Mutated forms: without the unique index; an abort that keeps the row.   *)
RedeemCommit_NoUniqueIndex(r) ==
  LET p == Phone(r)
  IN  /\ At(r, "redeemHeld")
      /\ wallet' = [wallet EXCEPT ![p] = @ - req[r].points]
      /\ Write(req[r].order, "REDEEM", Row(-req[r].points, FALSE))
      /\ Unlock(p)
      /\ Done(r)
      /\ UNCHANGED status

RedeemCommit_AbortKeepsRow(r) ==
  LET o == req[r].order
      p == Phone(r)
  IN  /\ At(r, "redeemHeld")
      /\ IF Has(o, "REDEEM")
         THEN UNCHANGED <<wallet, ledger, lock>>
         ELSE /\ wallet' = [wallet EXCEPT ![p] = @ - req[r].points]
              /\ Write(o, "REDEEM", Row(-req[r].points, FALSE))
              /\ Unlock(p)
      /\ Done(r)
      /\ UNCHANGED status

(* decrement, the REDEEM row, commit; the unique index may refuse the row. *)
RedeemCommit(r) ==
  LET o == req[r].order
      p == Phone(r)
  IN  /\ At(r, "redeemHeld")
      /\ IF Has(o, "REDEEM")
         THEN UNCHANGED <<wallet, ledger>>
         ELSE /\ wallet' = [wallet EXCEPT ![p] = @ - req[r].points]
              /\ Write(o, "REDEEM", Row(-req[r].points, FALSE))
      /\ Unlock(p)
      /\ Done(r)
      /\ UNCHANGED status

------------------------------------------------------------------------------
(* reverseForOrder: nothing to do unless points were earned and not yet    *)
(* reversed, as read outside the transaction.                              *)
ReverseRead(r) ==
  LET o == req[r].order
  IN  /\ At(r, "reverse")
      /\ IF ~ Has(o, "EARN") \/ Has(o, "REVERSE")
         THEN Done(r)
         ELSE IF ledger[o]["EARN"].points <= 0 THEN Done(r)
         ELSE Goto(r, "reverseTx", ledger[o]["EARN"].points, 0)
      /\ UNCHANGED <<status, wallet, ledger, lock>>

ReverseLock(r) ==
  LET p == Phone(r)
  IN  /\ At(r, "reverseTx")
      /\ Free(p)
      /\ Goto(r, "reverseHeld", req[r].points, wallet[p])
      /\ lock' = [lock EXCEPT ![p] = r]
      /\ UNCHANGED <<status, wallet, ledger>>

(* The balance is written as an absolute value, computed from the locked   *)
(* read; the row keeps the full amount even when it is only flagged.       *)
ReverseCommit(r) ==
  LET o == req[r].order
      p == Phone(r)
      n == req[r].points
  IN  /\ At(r, "reverseHeld")
      /\ IF Has(o, "REVERSE")
         THEN UNCHANGED <<wallet, ledger>>
         ELSE /\ wallet' = [wallet EXCEPT ![p] = ComputeReversal(req[r].seen, n)]
              /\ Write(o, "REVERSE", Row(-n, NeedsManualReconciliation(req[r].seen, n)))
      /\ Unlock(p)
      /\ Done(r)
      /\ UNCHANGED status

------------------------------------------------------------------------------
(* The process stops: calls in flight are lost, open transactions undone.  *)
Crash ==
  /\ req' = [r \in Reqs |-> Idle]
  /\ lock' = [p \in Phones |-> NoReq]
  /\ UNCHANGED <<status, wallet, ledger>>

OrderStep(o) ==
  \/ ApproveOrder(o) \/ ReturnToAccounts(o) \/ CancelOrder(o)
  \/ PostRedeem(o) \/ PostReverse(o)

ReqStep(r) ==
  \/ EarnRead(r) \/ EarnCommit(r) \/ EarnConflict(r)
  \/ RedeemRead(r) \/ RedeemLock(r) \/ RedeemCommit(r)
  \/ ReverseRead(r) \/ ReverseLock(r) \/ ReverseCommit(r)

Serve == (\E o \in Orders : OrderStep(o)) \/ (\E r \in Reqs : ReqStep(r))

Next == Serve \/ Crash

Spec == Init /\ [][Next]_vars

(* Row locks are queued first come, first served, so a request that keeps  *)
(* finding the row free gets it: strong fairness of each request's steps.  *)
FairSpec == Spec /\ \A r \in Reqs : SF_vars(ReqStep(r))

------------------------------------------------------------------------------
TypeOK ==
  /\ status \in [Orders -> Statuses]
  /\ wallet \in [Phones -> Int \cup {NoWallet}]
  /\ ledger \in [TxnIds -> [TxnTypes -> Rows \cup {NoRow}]]
  /\ lock \in [Phones -> Reqs \cup {NoReq}]
  /\ req \in [Reqs -> ReqType]
  /\ \A r \in Reqs : ~ At(r, "idle") => req[r].order \in TxnIds

(* RULE 7 of loyalty.calc.spec.ts: a wallet is never driven negative,      *)
(* whatever redemptions and reversals overlap.                             *)
NonNegativeBalance == \A p \in Phones : wallet[p] # NoWallet => wallet[p] >= 0

(* What a wallet should hold: its ledger rows, except the reversals that   *)
(* were only flagged because the points were already spent.                *)
Owner(p) == {o \in TxnIds : PhoneOf[o] = p}
Amount(o, k) ==
  IF ledger[o][k] = NoRow THEN 0
  ELSE IF ledger[o][k].flagged THEN 0 ELSE ledger[o][k].points
Net(o) == Amount(o, "EARN") + Amount(o, "REDEEM") + Amount(o, "REVERSE")
LedgerSum(p) == SumFunctionOnSet([o \in TxnIds |-> Net(o)], Owner(p))

(* The wallet always equals its unflagged ledger rows: no credit is given  *)
(* twice (RULE 5), no increment is overwritten by the absolute balance a   *)
(* reversal writes, no refused transaction leaves a trace.                 *)
BalanceIsLedgerSum ==
  \A p \in Phones : LedgerSum(p) = (IF wallet[p] = NoWallet THEN 0 ELSE wallet[p])

(* A reversal is left to manual reconciliation only if the customer really *)
(* spent points: some redemption is on the wallet's ledger.                *)
FlaggedMeansSpent ==
  \A o \in TxnIds :
    (Has(o, "REVERSE") /\ ledger[o]["REVERSE"].flagged)
      => \E x \in Owner(PhoneOf[o]) : Has(x, "REDEEM")

(* What the rules allow an order to earn and a call to redeem, as sets of  *)
(* points with no word on how to compute the most of them.                 *)
AboveFive(f) ==
  100 * f.discount > 5 * f.subtotal \/ <<f.discount, f.subtotal>> \in Steep

EarnAllowed(f, t) ==
  {n \in 0..t.pointCap :
     n = 0 \/ /\ ~ f.hasMissingCost /\ f.grossProfit >= 0
              /\ Whole * n <= (f.subtotal - f.discount) * t.earnRatePct
              /\ AboveFive(f) => Whole * n <= f.grossProfit * t.gpRatePct}

RedeemAllowed(bill, balance, asked) ==
  {n \in 0..balance : n <= asked /\ (n = 0 \/ Whole * n <= bill * CapPct)}

(* m points are the very share r percent of a - b, and the doubles put it  *)
(* just below m.                                                           *)
Slips(a, b, r, m) == <<a, b, r>> \in Short /\ Whole * m = (a - b) * r

EarnSlips(f, t, m) ==
  \/ Slips(f.subtotal, f.discount, t.earnRatePct, m)
  \/ AboveFive(f) /\ Slips(f.grossProfit, 0, t.gpRatePct, m)

(* RULES 1-4 of loyalty.calc.spec.ts: an uncosted or loss-making order     *)
(* earns nothing; any other earns the most points that stay within the     *)
(* earn rate, the gross-profit rate when the discount is above 5%, and the *)
(* cap; and where the doubles fall short of a share, one point less.       *)
EarnsLargest(f, t) ==
  LET n == ComputeEarnPoints(f, t)
  IN  /\ n \in EarnAllowed(f, t)
      /\ \A m \in EarnAllowed(f, t) : m > n => m = n + 1 /\ EarnSlips(f, t, m)

RedeemsLargest(bill, balance, asked) ==
  LET n == ComputeRedemption(bill, balance, asked, CapPct)
  IN  /\ n \in RedeemAllowed(bill, balance, asked)
      /\ \A m \in RedeemAllowed(bill, balance, asked) :
           m > n => m = n + 1 /\ Slips(bill, 0, CapPct, m)

EveryEarnIsLargest == \A f \in Figures, t \in Terms : EarnsLargest(f, t)

(* An earn call that runs alone computes what RULES 1-4 say, one point     *)
(* less where the doubles fall short, whatever the order and the           *)
(* thresholds.                                                             *)
EarnIsLargestAllowed == {req[r].pc : r \in Reqs} = {"earn", "idle"} => EveryEarnIsLargest

(* RULE 6: from the balance that a redemption's transaction meets, it is   *)
(* the most that fits the cap on the bill, the balance and the request     *)
(* (one less where the doubles fall short of the cap), and never a         *)
(* negative amount.                                                        *)
RedeemIsLargestAllowed ==
  \A r \in {q \in Reqs : At(q, "redeemTx") /\ wallet[Phone(q)] # NoWallet},
     bill \in Bills, asked \in Asks : RedeemsLargest(bill, wallet[Phone(r)], asked)

(* A real order's ledger rows are final: nothing rewrites or removes one.  *)
RealRowsAreFinal ==
  [][\A o \in Orders, k \in TxnTypes : Has(o, k) => ledger'[o][k] = ledger[o][k]]_ledger

(* Every call that was started comes to an end: no request is left waiting *)
(* for a wallet row.                                                       *)
EveryCallEnds == \A r \in Reqs : ~ At(r, "idle") ~> At(r, "idle")

(* "Call on order cancellation/refund" (loyalty.service.ts, REVERSE) and   *)
(* "claw back points on cancellation/refund" (loyalty.calc.ts): once every *)
(* call has ended, a cancelled order keeps no points.                      *)
CancelledIsClawedBack ==
  (\A r \in Reqs : At(r, "idle")) =>
    \A o \in Orders :
      (status[o] = "CANCELLED" /\ Has(o, "EARN")) =>
        (ledger[o]["EARN"].points > 0 => Has(o, "REVERSE"))

(* Calls are served and never lost: the specification without crashes.     *)
ServeSpec == Init /\ [][Serve]_vars
=============================================================================
