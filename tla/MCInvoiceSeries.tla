--------------------------- MODULE MCInvoiceSeries ---------------------------
(* Three settlements, two of them of the same bill, in two financial years *)
(* with room for two numbers each.                                       *)
EXTENDS InvoiceSeries, TLC

CONSTANTS t1, t2, t3, b1, b2

MCSettlement == {t1, t2, t3}
MCBill == {b1, b2}
MCBillOf == (t1 :> b1) @@ (t2 :> b1) @@ (t3 :> b2)
MCSeries == {"2526", "2627"}
=============================================================================
