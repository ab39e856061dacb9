---------------------------- MODULE MCRecordDesk ----------------------------
EXTENDS RecordDesk
CONSTANTS r1, r2, new

(* Two, so that answers come in either order; the item's dialog, which has  *)
(* most to do, has one.                                                     *)
Requests == [p \in Page |-> IF p = "items" THEN 1 ELSE 2]
=============================================================================
