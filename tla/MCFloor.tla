------------------------------- MODULE MCFloor -------------------------------
(* Tables, sessions, orders and bills are interchangeable among themselves. *)
EXTENDS Floor, TLC

CONSTANTS l1, l2, s1, s2, o1, o2, o3, b1, b2

MCSymmetry ==
  Permutations(Table) \cup Permutations(Session) \cup Permutations(Order)
    \cup Permutations(Bill)
=============================================================================
