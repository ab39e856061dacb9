------------------------------ MODULE MCTakings ------------------------------
(* One payment through Razorpay of two units and one in cash of one unit,  *)
(* on a bill of two.                                                       *)
EXTENDS Takings, TLC

CONSTANTS r1, r2, r3, p1, p2

MCAmount == (p1 :> 2) @@ (p2 :> 1)
=============================================================================
