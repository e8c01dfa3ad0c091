---------------------------- MODULE MCDialerLocks ----------------------------
(* Two agents whose queues have one number in common.                      *)
EXTENDS DialerLocks, TLC

CONSTANTS a1, a2, p1

TwoAgents == {a1, a2}
OnePhone == {p1}
Symmetry == Permutations(Agents)
=============================================================================
