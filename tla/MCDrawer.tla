------------------------------- MODULE MCDrawer -------------------------------
(* Two cashiers, two drawers and five requests.                           *)
EXTENDS Drawer, TLC

CONSTANTS r1, r2, r3, r4, r5, u1, u2, s1, s2

MCSymmetry == Permutations(Request) \cup Permutations(Cashier) \cup Permutations(Shift)
=============================================================================
