------------------------------ MODULE MCBudget ------------------------------
(* A small instance of Budget for TLC: two counters of different widths,    *)
(* one filled to its width, and up to four leases.                          *)
EXTENDS Budget, TLC

CONSTANTS net, uses, l0, l1, l2, l3

Amounts(n, u) == (net :> n) @@ (uses :> u)
MCMaxAmount == Amounts(3, 2)
MCGrant == Amounts(3, 2)
MCCharges == {Amounts(1, 0), Amounts(1, 1), Amounts(2, 1), Amounts(3, 2)}

ChildSymmetry == Permutations(LeaseId \ {Root})
=============================================================================
