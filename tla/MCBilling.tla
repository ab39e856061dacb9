------------------------------ MODULE MCBilling ------------------------------
(* Two orders, of two units and of one, two bills and two payments.        *)
(* Payments are interchangeable, and so are bills; orders are not, their   *)
(* prices differ.                                                          *)
EXTENDS Billing, TLC

CONSTANTS o1, o2, b1, b2, p1, p2

MCPrice == [o \in Order |-> IF o = o1 THEN 2 ELSE 1]
MCSymmetry == Permutations(Payment) \cup Permutations(Bill)

Bills == {b \in Bill : bill[b].status # "absent"}
Orders == {o \in Order : order[o] # "absent"}

\* Everything that may happen on one bill, with a discount or a flat charge.
OneBill ==
  /\ Cardinality(Bills) <= 1
  /\ \A b \in Bill : bill[b].discount = 0 \/ bill[b].charge = 0

\* One bill after another, of what one order costs.
Rounds ==
  /\ Cardinality(Orders) <= 1
  /\ \A b \in Bill : bill[b].discount = 0 /\ bill[b].charge = 0

\* Bound: a behaviour is continued while it is of either kind.
MCBound == OneBill \/ Rounds
=============================================================================
