------------------------------ MODULE ShopSale ------------------------------
(***************************************************************************)
(* What the Shopify inbox promises about one order of the shop, without    *)
(* hooks, jobs or retries.  One handler at a time works on it, from the    *)
(* standing it found; a reviewer's refusal waits for nobody.               *)
(*                                                                         *)
(* An order becomes an ERP order only by approval, only from "waiting",    *)
(* and for good; one that was cancelled in the shop never waits again.     *)
(* A refusal stands, unless a handler had begun before it.                 *)
(***************************************************************************)
VARIABLES
  sale,   \* where the order stands
  found   \* what the handler now at work found, or "nobody" works on it

vars == <<sale, found>>

Standings == {"unseen", "waiting", "withdrawn", "declined", "ordered"}

TypeOK == sale \in Standings /\ found \in Standings \cup {"nobody"}

Init == sale = "unseen" /\ found = "nobody"

(* What a handler may leave of an order it found in a standing.            *)
MayLeave ==
  [s \in Standings |->
     CASE s = "unseen"    -> {"waiting", "withdrawn"}
       [] s = "waiting"   -> {"waiting", "withdrawn", "ordered"}
       [] s = "withdrawn" -> {"withdrawn"}
       [] s = "declined"  -> {"declined"}
       [] s = "ordered"   -> {"ordered"}]

Begin ==
  /\ found = "nobody"
  /\ found' = sale
  /\ UNCHANGED sale

Finish ==
  /\ found # "nobody"
  /\ sale' \in MayLeave[found]
  /\ found' = "nobody"

GiveUp ==
  /\ found # "nobody"
  /\ found' = "nobody"
  /\ UNCHANGED sale

Refuse ==
  /\ sale \in {"waiting", "withdrawn"}
  /\ sale' = "declined"
  /\ UNCHANGED found

Next == Begin \/ Finish \/ GiveUp \/ Refuse

Spec == Init /\ [][Next]_vars
=============================================================================
