--------------------------- MODULE InvoiceRegister ---------------------------
(***************************************************************************)
(* What the tax-invoice numbering promises, without saying how: a register *)
(* of bills in which a bill receives at most one number, ever, and the     *)
(* number it receives is the next one of the series.  A series is one      *)
(* financial year ("" when numbering does not restart every year).         *)
(* InvoiceSeries, which models the row locks and transactions of           *)
(* invoice_service.allocate and billing_service.finalise, implements it,   *)
(* and so does Billing, which has these as one step of a settlement.       *)
(***************************************************************************)
EXTENDS Integers

CONSTANTS
  Bill,       \* the bills of one business
  Series,     \* the financial_year values a counter row may carry
  NoInvoice   \* a bill whose invoice_number is NULL

VARIABLES
  number,     \* number[b]: the invoice number of bill b
  top         \* top[s]: the last number issued in series s

vars == <<number, top>>

Invoice == [series : Series, seq : Nat \ {0}]

Init ==
  /\ number = [b \in Bill |-> NoInvoice]
  /\ top = [s \in Series |-> 0]

\* A bill that has no number takes the next one of a series.
Issue(b, s) ==
  /\ number[b] = NoInvoice
  /\ top' = [top EXCEPT ![s] = @ + 1]
  /\ number' = [number EXCEPT ![b] = [series |-> s, seq |-> top[s] + 1]]

Next == \E b \in Bill, s \in Series : Issue(b, s)

Spec == Init /\ [][Next]_vars
=============================================================================
