----------------------------- MODULE MCFloorDesk -----------------------------
EXTENDS FloorDesk, TLC
CONSTANTS o1, o2, t1, t2, none

(* A ticket is served after five changes, on the screen with one order and *)
(* one request; the others are about two.                                   *)
Steps == [s \in Screen |-> IF s = "orders" THEN 5 ELSE 4]
Orders == [s \in Screen |-> IF s = "orders" THEN 1 ELSE 2]
Requests == [s \in Screen |-> IF s = "orders" THEN 1 ELSE 2]

(* Tables are alike, and so are orders; every property is one of safety. *)
Alike == {f @@ g : f \in Permutations({o1, o2}), g \in Permutations({t1, t2})}
=============================================================================
