----------------------------- MODULE MCOrdering -----------------------------
EXTENDS Ordering
CONSTANTS tea, pizza, t1, t2, r1, none
=============================================================================
