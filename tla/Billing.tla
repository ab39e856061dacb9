------------------------------- MODULE Billing -------------------------------
(***************************************************************************)
(* The bills of one order session and the money on them: billing_service   *)
(* and payment_service, one action per accepted request, each request one  *)
(* committed database transaction.  A request that is refused (role,       *)
(* toggle, closed bill, ...) changes nothing and is a step not taken.      *)
(*                                                                         *)
(* A session is a table's, which takes any number of orders and sends each *)
(* to the kitchen at once, or an online checkout's, which has one order    *)
(* whose kitchen ticket is held until the bill is paid.  An order carries  *)
(* one dish, so a bill line is named by its order.  Amounts are whole      *)
(* units; percentage charges and taxes, which only scale the discounted    *)
(* subtotal, are left out, and a flat charge, which does not, is kept.     *)
(***************************************************************************)
EXTENDS Integers, FiniteSets, FiniteSetsExt

CONSTANTS
  Order,
  Price,        \* Price[o]: line_total of the dish of order o
  Bill,
  Payment,
  CashAmounts,  \* what a guest may hand over in one cash or card payment
  Discounts,    \* what one discount may take off
  FlatCharges,  \* what a flat charge band may add; 0 when no band matches
  MaxDiscount,  \* bound: the discounts of a bill sum to at most this
  Nowhere       \* the bill of a payment that does not exist yet

ASSUME BillingAssumption ==
  /\ Price \in [Order -> Nat \ {0}]
  /\ CashAmounts \subseteq Nat \ {0}
  /\ Discounts \subseteq Nat \ {0}
  /\ FlatCharges \subseteq Nat
  /\ MaxDiscount \in Nat
  /\ IsFiniteSet(Order) /\ IsFiniteSet(Payment)
  /\ Nowhere \notin Bill

VARIABLES
  session,     \* "table" or "checkout"
  order,       \* order[o]: "absent", "PLACED" (any live status) or "CANCELLED"
  kot,         \* the orders that have a kitchen ticket
  bill,        \* bill[b]: the bill with its lines, totals and invoice number
  lastInvoice, \* the invoice counter
  payment      \* payment[p]: a payment of a bill with its refunds

vars == <<session, order, kot, bill, lastInvoice, payment>>
ordering == <<session, order>>

OpenStatus == {"OPEN", "PARTIALLY_PAID"}
BillStatus == OpenStatus \cup {"absent", "PAID", "CANCELLED"}

\* REFUNDED is a value of the enumeration but never stored: see RefundPayment.
PaymentStatus == {"absent", "PENDING", "SUCCESS", "FAILED"}

BillRecord ==
  [status : BillStatus, lines : SUBSET Order, voided : SUBSET Order,
   comped : SUBSET Order, nc : BOOLEAN, discount : Nat, charge : Nat,
   total : Nat, paid : Nat, refunded : Nat, invoice : Nat]

PaymentRecord ==
  [status : PaymentStatus, bill : Bill \cup {Nowhere}, online : BOOLEAN, ordered : BOOLEAN,
   amount : Nat, refunded : Nat]

NoBill ==
  [status |-> "absent", lines |-> {}, voided |-> {}, comped |-> {},
   nc |-> FALSE, discount |-> 0, charge |-> 0, total |-> 0, paid |-> 0,
   refunded |-> 0, invoice |-> 0]

NoPayment ==
  [status |-> "absent", bill |-> Nowhere, online |-> FALSE, ordered |-> FALSE,
   amount |-> 0, refunded |-> 0]

-----------------------------------------------------------------------------
(* _recompute_totals                                                       *)

\* The sum of f over the finite set S.
SumOf(f, S) == MapThenSumSet(LAMBDA x : f[x], S)

Subtotal(r) == SumOf(Price, r.lines \ (r.voided \cup r.comped))

\* Mutant: a discount may exceed the subtotal.
UnclampedTotal(r) == Subtotal(r) - r.discount + r.charge
GrandTotal(r) ==
  LET sub == Subtotal(r)
  IN  sub - (IF r.discount < sub THEN r.discount ELSE sub) + r.charge

\* The status of a bill that is not closed.  amount_paid just set by a payment
\* is a float like grand_total.  Read back from its NUMERIC column it is a
\* Decimal, and compares below the float of the same amount whenever that
\* float lies above it: a bill paid to the unit may then come out either way.
StatusesFor(paid, total, justPaid) ==
  IF paid <= 0 THEN {"OPEN"}
  ELSE IF paid < total THEN {"PARTIALLY_PAID"}
  ELSE IF paid = total /\ ~justPaid THEN {"PARTIALLY_PAID", "PAID"}
  ELSE {"PAID"}

Recomputed(r, justPaid) ==
  LET total == GrandTotal(r)
  IN  {[r EXCEPT !.total = total, !.status = st] :
         st \in IF r.status \in OpenStatus
                  THEN StatusesFor(r.paid, total, justPaid)
                  ELSE {r.status}}

\* Store an edited bill after recomputing its totals.
StoreRecomputed(b, r) ==
  \E new \in Recomputed(r, FALSE) : bill' = [bill EXCEPT ![b] = new]

-----------------------------------------------------------------------------
LiveOrders == {o \in Order : order[o] = "PLACED"}

\* The guard of every edit.  Mutant: only a cancelled bill is closed.
NotCancelled(b) == bill[b].status \notin {"absent", "CANCELLED"}
Editable(b) == bill[b].status \in OpenStatus

\* record_payment_applied: add the money and recompute; the payment that turns
\* the bill PAID also numbers it and sends held orders to the kitchen.
Credit(b, amount) ==
  \E r \in Recomputed([bill[b] EXCEPT !.paid = @ + amount], TRUE) :
    LET settles == r.status = "PAID" /\ bill[b].status # "PAID"
        numbered == settles /\ r.invoice = 0
    IN  /\ bill' = [bill EXCEPT ![b] =
                      IF numbered THEN [r EXCEPT !.invoice = lastInvoice + 1] ELSE r]
        /\ lastInvoice' = IF numbered THEN lastInvoice + 1 ELSE lastInvoice
        /\ kot' = IF settles THEN kot \cup LiveOrders ELSE kot

-----------------------------------------------------------------------------
Init ==
  /\ session \in {"table", "checkout"}
  /\ order = [o \in Order |-> "absent"]
  /\ kot = {}
  /\ bill = [b \in Bill |-> NoBill]
  /\ lastInvoice = 0
  /\ payment = [p \in Payment |-> NoPayment]

\* create_order at a table: the ticket goes to the kitchen with the order.
PlaceOrder(o) ==
  /\ session = "table"
  /\ order[o] = "absent"
  /\ order' = [order EXCEPT ![o] = "PLACED"]
  /\ kot' = kot \cup {o}
  /\ UNCHANGED <<session, bill, lastInvoice, payment>>

\* public_order_service.checkout: order with held ticket, bill and Razorpay
\* order in one transaction.  When Razorpay refuses, the commit that keeps the
\* FAILED payment keeps the order and the bill as well.
Checkout(o, b, p, ok) ==
  /\ session = "checkout"
  /\ \A x \in Order : order[x] = "absent"
  /\ bill[b].status = "absent"
  /\ payment[p].status = "absent"
  /\ \E c \in FlatCharges :
       LET r == [NoBill EXCEPT !.status = "OPEN", !.lines = {o}, !.charge = c]
       IN  /\ StoreRecomputed(b, r)
           /\ payment' = [payment EXCEPT ![p] =
                [status |-> IF ok THEN "PENDING" ELSE "FAILED", bill |-> b,
                 online |-> TRUE, ordered |-> ok, amount |-> GrandTotal(r),
                 refunded |-> 0]]
  /\ order' = [order EXCEPT ![o] = "PLACED"]
  /\ UNCHANGED <<session, kot, lastInvoice>>

CancelOrder(o) ==
  /\ order[o] = "PLACED"
  /\ order' = [order EXCEPT ![o] = "CANCELLED"]
  /\ UNCHANGED <<session, kot, bill, lastInvoice, payment>>

\* The bill that a refresh works on.  Mutant: a settled bill is found.
UncancelledBills == {b \in Bill : bill[b].status \in OpenStatus \cup {"PAID"}}
OpenBills == {b \in Bill : bill[b].status \in OpenStatus}

\* generate_or_refresh_bill: every live order that this bill does not carry yet
\* becomes a line of it, whatever other bills carry.
GenerateBill(b) ==
  /\ \E o \in Order : order[o] # "absent"
  /\ IF OpenBills = {} THEN bill[b].status = "absent" ELSE b \in OpenBills
  /\ \E c \in IF bill[b].charge = 0 THEN FlatCharges ELSE {bill[b].charge} :
       StoreRecomputed(b,
         [bill[b] EXCEPT !.status = IF @ = "absent" THEN "OPEN" ELSE @,
                         !.lines = @ \cup LiveOrders, !.charge = c])
  /\ UNCHANGED <<ordering, kot, lastInvoice, payment>>

ApplyDiscount(b, d) ==
  /\ Editable(b)
  /\ bill[b].discount + d <= MaxDiscount
  /\ StoreRecomputed(b, [bill[b] EXCEPT !.discount = @ + d])
  /\ UNCHANGED <<ordering, kot, lastInvoice, payment>>

VoidBillItem(b, o) ==
  /\ Editable(b)
  /\ o \in bill[b].lines \ bill[b].voided
  /\ StoreRecomputed(b, [bill[b] EXCEPT !.voided = @ \cup {o}])
  /\ UNCHANGED <<ordering, kot, lastInvoice, payment>>

CompBillItem(b, o) ==
  /\ Editable(b)
  /\ o \in bill[b].lines \ (bill[b].voided \cup bill[b].comped)
  /\ StoreRecomputed(b, [bill[b] EXCEPT !.comped = @ \cup {o}])
  /\ UNCHANGED <<ordering, kot, lastInvoice, payment>>

UncompBillItem(b, o) ==
  /\ Editable(b)
  /\ ~bill[b].nc
  /\ o \in bill[b].comped
  /\ StoreRecomputed(b, [bill[b] EXCEPT !.comped = @ \ {o}])
  /\ UNCHANGED <<ordering, kot, lastInvoice, payment>>

\* Mutant: the number of a voided invoice is taken off it.
VoidBillClearingNumber(b) ==
  /\ bill[b].status \notin {"absent", "CANCELLED"}
  /\ bill' = [bill EXCEPT ![b].status = "CANCELLED", ![b].invoice = 0]
  /\ UNCHANGED <<ordering, kot, lastInvoice, payment>>
VoidBill(b) ==
  /\ bill[b].status \notin {"absent", "CANCELLED"}
  /\ bill' = [bill EXCEPT ![b].status = "CANCELLED"]
  /\ UNCHANGED <<ordering, kot, lastInvoice, payment>>

\* mark_bill_nc: every line that is not voided is given away, the bill is PAID
\* without a payment and without a number, and the kitchen still cooks.
\* Mutant: held tickets stay held.
MarkBillNcHolding(b) ==
  /\ bill[b].status \notin {"absent", "CANCELLED"}
  /\ ~bill[b].nc
  /\ bill[b].paid = 0
  /\ LET r == [bill[b] EXCEPT !.nc = TRUE,
                              !.comped = @ \cup (bill[b].lines \ bill[b].voided)]
     IN  bill' = [bill EXCEPT ![b] =
                    [r EXCEPT !.total = GrandTotal(r), !.status = "PAID"]]
  /\ UNCHANGED <<ordering, kot, lastInvoice, payment>>
MarkBillNc(b) ==
  /\ bill[b].status \notin {"absent", "CANCELLED"}
  /\ ~bill[b].nc
  /\ bill[b].paid = 0
  /\ LET r == [bill[b] EXCEPT !.nc = TRUE,
                              !.comped = @ \cup (bill[b].lines \ bill[b].voided)]
     IN  bill' = [bill EXCEPT ![b] =
                    [r EXCEPT !.total = GrandTotal(r), !.status = "PAID"]]
  /\ kot' = kot \cup LiveOrders
  /\ UNCHANGED <<ordering, lastInvoice, payment>>

-----------------------------------------------------------------------------
(* payment_service                                                         *)

\* record_cash_payment: cash or card at the counter, of any amount.
RecordCashPayment(p, b, amount) ==
  /\ payment[p].status = "absent"
  /\ bill[b].status \in OpenStatus
  /\ payment' = [payment EXCEPT ![p] =
       [status |-> "SUCCESS", bill |-> b, online |-> FALSE, ordered |-> FALSE,
        amount |-> amount, refunded |-> 0]]
  /\ Credit(b, amount)
  /\ UNCHANGED ordering

\* create_razorpay_order: a PENDING payment of what remains, or a FAILED one,
\* committed, when Razorpay refuses the order.
CreateRazorpayOrder(p, b, ok) ==
  /\ payment[p].status = "absent"
  /\ bill[b].status \in OpenStatus
  /\ bill[b].total > bill[b].paid
  /\ payment' = [payment EXCEPT ![p] =
       [status |-> IF ok THEN "PENDING" ELSE "FAILED", bill |-> b,
        online |-> TRUE, ordered |-> ok,
        amount |-> bill[b].total - bill[b].paid, refunded |-> 0]]
  /\ UNCHANGED <<ordering, kot, bill, lastInvoice>>

\* A report, with a valid signature, that Razorpay took the guest's money for an
\* order it had accepted: verify_razorpay_payment, called by the browser, or the
\* first delivery of the webhook event payment.captured, which does the same.
\* Both may come for one payment, at any time after the order, in any order.
\* Mutant: a payment that is already SUCCESS is credited again.
ReportCapturedAlways(p) ==
  /\ payment[p].ordered
  /\ payment' = [payment EXCEPT ![p].status = "SUCCESS"]
  /\ Credit(payment[p].bill, payment[p].amount)
  /\ UNCHANGED ordering
ReportCaptured(p) ==
  /\ payment[p].ordered
  /\ payment[p].status # "SUCCESS"
  /\ payment' = [payment EXCEPT ![p].status = "SUCCESS"]
  /\ Credit(payment[p].bill, payment[p].amount)
  /\ UNCHANGED ordering

\* verify_razorpay_payment, with a signature that does not match.
RejectReport(p) ==
  /\ payment[p].ordered
  /\ payment[p].status # "SUCCESS"
  /\ payment' = [payment EXCEPT ![p].status = "FAILED"]
  /\ UNCHANGED <<ordering, kot, bill, lastInvoice>>

\* What refund_payment may still hand back.
Refundable(p) == payment[p].amount - payment[p].refunded

\* refund_payment.  It assigns REFUNDED to the status once all is handed back,
\* but does not flush it (sessions have autoflush off), and get_bill_or_404, whose
\* populate_existing reads the bill's payments again, puts SUCCESS back.
RefundPayment(p, amount) ==
  /\ payment[p].status = "SUCCESS"
  /\ amount <= Refundable(p)
  /\ payment' = [payment EXCEPT ![p].refunded = @ + amount]
  /\ bill' = [bill EXCEPT ![payment[p].bill].refunded = @ + amount]
  /\ UNCHANGED <<ordering, kot, lastInvoice>>

-----------------------------------------------------------------------------
OrderRequests ==
  \E o \in Order :
    \/ PlaceOrder(o)
    \/ CancelOrder(o)
    \/ \E b \in Bill, p \in Payment, ok \in BOOLEAN : Checkout(o, b, p, ok)

BillRequests ==
  \E b \in Bill :
    \/ GenerateBill(b)
    \/ VoidBill(b)
    \/ MarkBillNc(b)
    \/ \E d \in Discounts : ApplyDiscount(b, d)
    \/ \E o \in Order :
         VoidBillItem(b, o) \/ CompBillItem(b, o) \/ UncompBillItem(b, o)

PaymentRequests ==
  \E p \in Payment :
    \/ \E b \in Bill, amount \in CashAmounts : RecordCashPayment(p, b, amount)
    \/ \E b \in Bill, ok \in BOOLEAN : CreateRazorpayOrder(p, b, ok)
    \/ ReportCaptured(p)
    \/ RejectReport(p)
    \/ \E amount \in 1 .. payment[p].amount : RefundPayment(p, amount)

Next == OrderRequests \/ BillRequests \/ PaymentRequests

Spec == Init /\ [][Next]_vars

-----------------------------------------------------------------------------
TypeOK ==
  /\ session \in {"table", "checkout"}
  /\ order \in [Order -> {"absent", "PLACED", "CANCELLED"}]
  /\ kot \subseteq Order
  /\ bill \in [Bill -> BillRecord]
  /\ lastInvoice \in Nat
  /\ payment \in [Payment -> PaymentRecord]

Numbered == {b \in Bill : bill[b].invoice # 0}
PaymentsOf(b) == {p \in Payment : payment[p].bill = b}
Taken(b) == {p \in PaymentsOf(b) : payment[p].status = "SUCCESS"}
Amounts == [p \in Payment |-> payment[p].amount]
Refunds == [p \in Payment |-> payment[p].refunded]

\* The numbers on bills, voided bills included, are 1 up to the counter, each on
\* one bill (invoice_service: a consecutive serial; void_bill keeps the number).
NumbersConsecutive ==
  /\ {bill[b].invoice : b \in Numbered} = 1 .. lastInvoice
  /\ Cardinality(Numbered) = lastInvoice

\* A bill takes the next number of the series when it settles, once, and keeps
\* it through later payments, refunds and voids (finalise,
\* record_payment_applied and void_bill): these requests implement the same
\* register as the statements of InvoiceSeries.
Register ==
  INSTANCE InvoiceRegister
    WITH Series <- {""}, NoInvoice <- [series |-> "", seq |-> 0],
         number <- [b \in Bill |-> [series |-> "", seq |-> bill[b].invoice]],
         top <- [s \in {""} |-> lastInvoice]
ImplementsRegister == Register!Spec

\* Each request takes a payment in once, hands back part of it or voids a bill,
\* on both sides of the books, the payment's and the bill's, or leaves both as
\* they are (payment_service, void_bill).
NoEntry == [bill |-> Nowhere, amount |-> 0, back |-> 0]
Entries ==
  [p \in Payment |->
     IF payment[p].status = "SUCCESS"
       THEN [bill |-> payment[p].bill, amount |-> payment[p].amount, back |-> payment[p].refunded]
       ELSE NoEntry]
Books ==
  [b \in Bill |->
     [paid |-> bill[b].paid, refunded |-> bill[b].refunded, void |-> bill[b].status = "CANCELLED"]]
Ledger == INSTANCE PaymentLedger WITH entry <- Entries, book <- Books
ImplementsLedger == Ledger!Spec

\* A no-charge bill never takes a tax invoice number, not even when a guest's
\* earlier Razorpay order for it is captured afterwards (mark_bill_nc).
NcNeverNumbered == \A b \in Bill : bill[b].nc => bill[b].invoice = 0

\* A settled bill that was not given away is paid for in full, whatever was
\* edited, refreshed or refunded (the status rule of _recompute_totals).
PaidIsCovered ==
  \A b \in Bill :
    bill[b].status = "PAID" /\ ~bill[b].nc => bill[b].paid >= bill[b].total

\* Settled and voided bills are records: no edit, refresh or late payment
\* changes their lines or total, and a voided bill stays voided and unnumbered.
ClosedBillFrozen ==
  [][\A b \in Bill :
       bill[b].status \in {"PAID", "CANCELLED"} =>
         /\ bill'[b].lines = bill[b].lines
         /\ bill'[b].voided = bill[b].voided
         /\ bill'[b].comped = bill[b].comped
         /\ bill'[b].total = bill[b].total
         /\ bill[b].status = "CANCELLED" =>
              bill'[b].status = "CANCELLED" /\ bill'[b].invoice = bill[b].invoice
    ]_vars

\* amount_paid is the sum of the successful payments, so that a bill agrees with
\* "what actually crossed the counter" (refund_payment), whatever the order of
\* verification, webhook, rejected reports, edits and refunds.
PaidAgreesWithTakings ==
  \A b \in Bill : bill[b].paid = SumOf(Amounts, Taken(b))

\* The refunds of a payment never exceed it, and a bill's amount_refunded is
\* what its payments gave back, never more than was credited to it.
RefundsBounded ==
  \A b \in Bill :
    /\ \A p \in PaymentsOf(b) : payment[p].refunded <= payment[p].amount
    /\ bill[b].refunded = SumOf(Refunds, PaymentsOf(b))
    /\ bill[b].refunded <= bill[b].paid

\* Once a bill is invoiced or given away the kitchen has a ticket for every
\* order on it that is not cancelled (release_held_kots_for_session).
KitchenTold ==
  \A b \in Bill :
    bill[b].nc \/ bill[b].invoice # 0 => bill[b].lines \cap LiveOrders \subseteq kot

\* A session never has two bills to pay at once (generate_or_refresh_bill).
OneOpenBill == \A b, c \in Bill : Editable(b) /\ Editable(c) => b = c

-----------------------------------------------------------------------------
(* What the runs check: properties of one kind together.                   *)

\* A bill is settled for what it costs, and invoiced only if it is not given away.
SettlementInv == PaidIsCovered /\ NcNeverNumbered

\* A bill shows what was taken for it and what was handed back, and no more.
TakingsInv == PaidAgreesWithTakings /\ RefundsBounded

\* The series of numbers has no hole, and a session has one bill to number next.
NumberingInv == NumbersConsecutive /\ OneOpenBill

\* What was settled or voided stays as it was, and so does every number given.
ClosedStays == ImplementsRegister /\ ClosedBillFrozen

-----------------------------------------------------------------------------
(* The inductive invariant: what each bill, each payment and the session    *)
(* satisfy between two requests.                                           *)

BillSound(r) ==
  /\ r.status = "absent" =>
       r.lines = {} /\ r.discount = 0 /\ r.charge = 0 /\ r.paid = 0
         /\ r.refunded = 0 /\ r.invoice = 0 /\ ~r.nc
  /\ r.status # "absent" => r.total = GrandTotal(r)
  /\ r.status \in OpenStatus => r.invoice = 0 /\ ~r.nc
  /\ r.status = "PAID" /\ ~r.nc => r.paid > 0 /\ r.paid >= r.total
  /\ r.invoice # 0 => r.paid > 0
  /\ r.nc => r.invoice = 0

BillsSound == \A b \in Bill : BillSound(bill[b])

\* Money is only ever asked for, and handed back, on a bill there is.
PaymentsOfBills ==
  \A p \in Payment :
    payment[p].ordered \/ payment[p].status = "SUCCESS" =>
      payment[p].bill \in Bill /\ bill[payment[p].bill].status # "absent"

\* A session has a bill only once it has had an order.
OrderedBeforeBilled ==
  (\A o \in Order : order[o] = "absent") => \A b \in Bill : bill[b].status = "absent"

BillingInv ==
  /\ TypeOK /\ BillsSound /\ PaymentsOfBills /\ OrderedBeforeBilled
  /\ IsFiniteSet(Numbered) /\ NumberingInv /\ KitchenTold

\* Only what was taken is handed back, and nothing is left of a payment that
\* does not exist.
PaymentSound(q) ==
  /\ q.refunded <= q.amount
  /\ q.status # "SUCCESS" => q.refunded = 0
  /\ q.status = "absent" => q = NoPayment

\* What each bill and its payments say of the same money, beside BillingInv.
MoneyInv ==
  /\ PaidAgreesWithTakings
  /\ \A b \in Bill : bill[b].refunded = SumOf(Refunds, PaymentsOf(b))
  /\ \A p \in Payment : PaymentSound(payment[p])

-----------------------------------------------------------------------------
(* What comments in the code say and the code does not do.                 *)

\* "Settlement is the moment the bill becomes a tax invoice, so this is where
\* its number is allocated" (record_payment_applied).
SettledIsNumbered ==
  \A b \in Bill : bill[b].status = "PAID" /\ ~bill[b].nc => bill[b].invoice # 0

\* "The payment's status becomes REFUNDED only once the whole of it has been
\* returned" (refund_payment).
RefundedIsMarked ==
  \A p \in Payment :
    payment[p].refunded > 0 /\ payment[p].refunded >= payment[p].amount
      => payment[p].status = "REFUNDED"
=============================================================================
