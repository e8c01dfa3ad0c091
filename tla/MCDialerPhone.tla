---------------------------- MODULE MCDialerPhone ----------------------------
(* One phone, its screen opened twice, and the numbers its queue gives it. *)
EXTENDS DialerPhone

CONSTANTS n1, n2

OneNumber == {n1}
TwoNumbers == {n1, n2}

(* Once the notification's Stop has cut into a save, the properties claim  *)
(* nothing more: such behaviours are followed no further.                  *)
NotCut == ~ hist.cut
=============================================================================
