--------------------------- MODULE LoyaltyTestMode ---------------------------
(***************************************************************************)
(* The loyalty test mode (simulateEarn, simulateRedeem, simulateReverse,   *)
(* clearTestData): the same wallets and ledger, under synthetic order ids. *)
(*                                                                         *)
(* A simulation's transaction is the real one's, so its steps are Loyalty's *)
(* once it has read.  Test ids are 1, 2, ... in order of creation: the     *)
(* code draws a random one and looks the last one up by createdAt.         *)
(***************************************************************************)
EXTENDS Loyalty

(* An id is drawn for a phone that was found valid.                        *)
ASSUME TestModeAssumption ==
  /\ TestIds \subseteq Int
  /\ \A o \in TestIds : PhoneOf[o] \in Phones

VARIABLE clear   \* clearTestData in flight, by phone

tmVars == <<status, wallet, ledger, lock, req, clear>>

NotClearing == [sum |-> 0, ids |-> {}, on |-> FALSE]

TestInit == Init /\ clear = [p \in Phones |-> NotClearing]

(* Ids whose rows exist or are about to.                                   *)
Used(o) == (\E k \in TxnTypes : Has(o, k)) \/ (\E r \in Reqs : req[r].order = o)
FreshId(o) == o \in TestIds /\ \A x \in TestIds : Used(x) => x < o

SimulateEarn(r) ==
  /\ At(r, "idle")
  /\ \E o \in TestIds, n \in EarnPoints :
       /\ FreshId(o)
       /\ req' = [req EXCEPT ![r] = Call("earnTx", o, n)]
  /\ UNCHANGED <<status, wallet, ledger, lock, clear>>

SimulateRedeem(r) ==
  /\ At(r, "idle")
  /\ \E o \in TestIds, n \in Requests, v \in BillValues :
       /\ FreshId(o)
       /\ req' = [req EXCEPT ![r] = [Call("redeemTx", o, n) EXCEPT !.seen = v]]
  /\ UNCHANGED <<status, wallet, ledger, lock, clear>>

(* The last simulated earn of the wallet, unless it was already reversed.  *)
SimulateReverse(r) ==
  /\ At(r, "idle")
  /\ \E o \in TestIds :
       /\ Has(o, "EARN") /\ ~ Has(o, "REVERSE")
       /\ \A x \in Owner(PhoneOf[o]) \cap TestIds : Has(x, "EARN") => x <= o
       /\ req' = [req EXCEPT ![r] = Call("reverseTx", o, ledger[o]["EARN"].points)]
  /\ UNCHANGED <<status, wallet, ledger, lock, clear>>

(* Mutated form: every row of the wallet, not only the test ones.          *)
ClearBegin_EveryRow(p) ==
  /\ ~ clear[p].on
  /\ wallet[p] # NoWallet
  /\ clear' = [clear EXCEPT ![p] = [on |-> TRUE, ids |-> Owner(p), sum |-> 0]]
  /\ UNCHANGED <<status, wallet, ledger, lock, req>>

(* clearTestData deletes the wallet's test rows and sums what is left, in  *)
(* a transaction that does not hold the wallet row ...                     *)
ClearBegin(p) ==
  LET gone == {o \in Owner(p) \cap TestIds : \E k \in TxnTypes : Has(o, k)}
      RowPoints(o, k) == IF Has(o, k) THEN ledger[o][k].points ELSE 0
  IN  /\ ~ clear[p].on
      /\ wallet[p] # NoWallet
      /\ clear' = [clear EXCEPT ![p] =
           [on |-> TRUE, ids |-> gone,
            sum |-> SumFunctionOnSet([o \in TxnIds |-> RowPoints(o, "EARN")
                                       + RowPoints(o, "REDEEM") + RowPoints(o, "REVERSE")],
                                     Owner(p) \ gone)]]
      /\ UNCHANGED <<status, wallet, ledger, lock, req>>

(* ... then writes the sum, waiting for the row, and commits.              *)
ClearCommit(p) ==
  /\ clear[p].on
  /\ Free(p)
  /\ wallet' = [wallet EXCEPT ![p] = clear[p].sum]
  /\ ledger' = [o \in TxnIds |-> IF o \in clear[p].ids
                                 THEN [k \in TxnTypes |-> NoRow] ELSE ledger[o]]
  /\ clear' = [clear EXCEPT ![p] = NotClearing]
  /\ UNCHANGED <<status, lock, req>>

TestStep ==
  \/ \E r \in Reqs : SimulateEarn(r) \/ SimulateRedeem(r) \/ SimulateReverse(r)
  \/ \E p \in Phones : ClearBegin(p) \/ ClearCommit(p)

TestNext == (Serve /\ UNCHANGED clear) \/ TestStep

TestSpec == TestInit /\ [][TestNext]_tmVars

------------------------------------------------------------------------------
(* "does not touch any transaction tied to a real order".                  *)
TestModeKeepsRealRows == RealRowsAreFinal
=============================================================================
