------------------------------- MODULE Takings -------------------------------
(***************************************************************************)
(* Requests of payment_service that take or hand back money on one bill,   *)
(* running at the same time: cash at the counter, the browser's report of  *)
(* a Razorpay payment, the webhook that reports the same, a report with a  *)
(* bad signature, a refund, and billing_service.void_bill.                 *)
(*                                                                         *)
(* Each is one transaction at READ COMMITTED.  A read sees what is         *)
(* committed and takes no lock; an UPDATE takes its row, and an INSERT of  *)
(* a webhook event its key, until the transaction ends.  The variables     *)
(* bill, refunds, payment and event hold committed values; what a running  *)
(* request has read is in its record and what it wrote appears at Commit.  *)
(* A row is written from what was read, not from what is there.            *)
(***************************************************************************)
EXTENDS Integers

CONSTANTS
  Request,    \* the requests; each may fail and be sent again until it commits
  Payment,
  Online,     \* the payments made through Razorpay, all ordered and PENDING
  Amount,     \* Amount[p]: what payment p is of
  Total,      \* grand_total of the bill
  Nobody      \* no request holds the row

ASSUME TakingsAssumption ==
  /\ Online \subseteq Payment
  /\ Amount \in [Payment -> Nat \ {0}]
  /\ Payment # {}
  /\ Total \in Nat \ {0}
  /\ Nobody \notin Request

VARIABLES
  bill,        \* the bill: its status, amount_paid and amount_refunded
  payment,     \* payment[p]: its status
  refunds,     \* refunds[p]: the sum of the refunds of p
  event,       \* event[p]: the row of the webhook event payment.captured of p
  billLock, paymentLock, eventLock, \* who holds the row
  req,         \* req[r]: how far request r has come and what it has read
  credits,     \* history: credits[p][k], how often a request of kind k credited p
  applied,     \* history: all that was credited to the bill
  returned,    \* history: all that was handed back
  racedPayment,\* history: the payments that two requests worked on at a time
  racedBill    \* history: whether two requests worked on the bill at a time

rows == <<bill, payment, refunds, event>>
locks == <<billLock, paymentLock, eventLock>>
history == <<credits, applied, returned>>
vars == <<rows, locks, req, history, racedPayment, racedBill>>

BillStatus == {"OPEN", "PARTIALLY_PAID", "PAID", "CANCELLED"}
PaymentStatus == {"absent", "PENDING", "SUCCESS", "FAILED"}
EventStatus == {"absent", "PROCESSED", "FAILED"}
BillRecord == [status : BillStatus, paid : Nat, refunded : Nat]

Crediting == {"cash", "report", "webhook"}
Kind == Crediting \cup {"reject", "refund", "void"}

\* A request goes through these, or those of them that its kind has.
Active == {"received", "recorded", "begun", "marked", "read", "written"}

\* back is what a refund hands back; bill is the bill as it was read last.
RequestRecord ==
  [pc : Active \cup {"idle", "done"}, kind : Kind, pay : Payment, back : Nat,
   bill : BillRecord]

Running(r) == req[r].pc \in Active

NewBill == [status |-> "OPEN", paid |-> 0, refunded |-> 0]
\* A request that does not run remembers nothing.
Ended(pc) ==
  [pc |-> pc, kind |-> "void", pay |-> CHOOSE p \in Payment : TRUE, back |-> 0, bill |-> NewBill]

-----------------------------------------------------------------------------
(* Which requests overlap.  Two deliveries of one webhook event do not     *)
(* count: the unique key of the event is there to keep them apart.         *)

SameEvent(r, u) ==
  req[r].kind = "webhook" /\ req[u].kind = "webhook" /\ req[r].pay = req[u].pay

Overlap(r, u) == r # u /\ Running(r) /\ Running(u) /\ ~SameEvent(r, u)

OnPayment(r, p) == req[r].kind # "void" /\ req[r].pay = p
PaymentRaces ==
  {p \in Payment : \E r, u \in Request : Overlap(r, u) /\ OnPayment(r, p) /\ OnPayment(u, p)}
BillRace ==
  \E r, u \in Request : Overlap(r, u) /\ "reject" \notin {req[r].kind, req[u].kind}

-----------------------------------------------------------------------------
Init ==
  /\ bill = NewBill
  /\ payment = [p \in Payment |-> IF p \in Online THEN "PENDING" ELSE "absent"]
  /\ refunds = [p \in Payment |-> 0]
  /\ event = [p \in Payment |-> "absent"]
  /\ billLock = Nobody
  /\ paymentLock = [p \in Payment |-> Nobody]
  /\ eventLock = [p \in Payment |-> Nobody]
  /\ req = [r \in Request |-> Ended("idle")]
  /\ credits = [p \in Payment |-> [k \in Crediting |-> 0]]
  /\ applied = 0
  /\ returned = 0
  /\ racedPayment = {}
  /\ racedBill = FALSE

\* Request r begins, having found nothing against it.
Begin(r, kind, p, back, pc) ==
  /\ req[r].pc = "idle"
  /\ req' = [req EXCEPT ![r] =
       [pc |-> pc, kind |-> kind, pay |-> p, back |-> back, bill |-> bill]]
  /\ UNCHANGED <<rows, locks, history>>

\* record_cash_payment: the bill must not be closed.  The payment is a new row.
BeginCash(r, p) ==
  /\ bill.status \notin {"PAID", "CANCELLED"}
  /\ p \notin Online
  /\ payment[p] = "absent"
  /\ \A u \in Request : Running(u) => ~OnPayment(u, p)
  /\ Begin(r, "cash", p, 0, "begun")

\* verify_razorpay_payment: a payment that is SUCCESS already is left alone.
\* With a bad signature (reject) it will be marked FAILED.  Mutant: so is a payment
\* that is SUCCESS.
BeginReportAlways(r, p, kind) ==
  /\ p \in Online
  /\ Begin(r, kind, p, 0, "begun")
BeginReport(r, p, kind) ==
  /\ p \in Online
  /\ payment[p] # "SUCCESS"
  /\ Begin(r, kind, p, 0, "begun")

\* handle_razorpay_webhook: a known event is only noted as a duplicate.
BeginWebhook(r, p) ==
  /\ p \in Online
  /\ event[p] = "absent"
  /\ Begin(r, "webhook", p, 0, "received")

\* What is left to hand back.  Mutant: earlier refunds forgotten.
WholeAmount(p) == Amount[p]
Remaining(p) == Amount[p] - refunds[p]

BeginRefund(r, p, back) ==
  /\ payment[p] = "SUCCESS"
  /\ back <= Remaining(p)
  /\ Begin(r, "refund", p, back, "begun")

\* void_bill reads the bill once and goes on to write it.
BeginVoid(r) ==
  /\ bill.status # "CANCELLED"
  /\ Begin(r, "void", req[r].pay, 0, "read")

-----------------------------------------------------------------------------
Move(r, pc) == req' = [req EXCEPT ![r].pc = pc]
End(r, pc) == req' = [req EXCEPT ![r] = Ended(pc)]

\* INSERT of the event, whose key is unique: wait for a request that is inserting
\* it.  Mutant: no unique key.
InsertAnyway(r) == eventLock' = [eventLock EXCEPT ![req[r].pay] = r]
InsertUnique(r) ==
  /\ event[req[r].pay] = "absent"
  /\ eventLock[req[r].pay] = Nobody
  /\ eventLock' = [eventLock EXCEPT ![req[r].pay] = r]

RecordEvent(r) ==
  /\ req[r].pc = "received"
  /\ InsertUnique(r)
  /\ Move(r, "recorded")
  /\ UNCHANGED <<rows, billLock, paymentLock, history>>

\* The webhook reads the payment; if it is SUCCESS there is nothing to apply.
ReadPayment(r) ==
  /\ req[r].pc = "recorded"
  /\ payment[req[r].pay] # "SUCCESS"
  /\ Move(r, "begun")
  /\ UNCHANGED <<rows, locks, history>>

\* UPDATE of the payment's status; a cash payment is inserted, and waits for nobody.
MarkPayment(r) ==
  LET p == req[r].pay
  IN  /\ req[r].pc = "begun"
      /\ req[r].kind \in Crediting \cup {"reject"}
      /\ paymentLock[p] = Nobody
      /\ paymentLock' = [paymentLock EXCEPT ![p] = r]
      /\ Move(r, "marked")
      /\ UNCHANGED <<rows, billLock, eventLock, history>>

\* record_payment_applied reads the bill, again for cash; so does refund_payment
\* once the refund is inserted.
ReadBill(r) ==
  /\ \/ req[r].kind \in Crediting /\ req[r].pc = "marked"
     \/ req[r].kind = "refund" /\ req[r].pc = "begun"
  /\ req' = [req EXCEPT ![r].pc = "read", ![r].bill = bill]
  /\ UNCHANGED <<rows, locks, history>>

\* UPDATE of the bill.
WriteBill(r) ==
  /\ req[r].pc = "read"
  /\ billLock = Nobody
  /\ billLock' = r
  /\ Move(r, "written")
  /\ UNCHANGED <<rows, paymentLock, eventLock, history>>

-----------------------------------------------------------------------------
(* The end of a request.                                                   *)

\* Mutant: the payment's row stays locked.
ReleaseOthers(r) ==
  /\ billLock' = IF billLock = r THEN Nobody ELSE billLock
  /\ eventLock' = [p \in Payment |-> IF eventLock[p] = r THEN Nobody ELSE eventLock[p]]
  /\ UNCHANGED paymentLock
Release(r) ==
  /\ billLock' = IF billLock = r THEN Nobody ELSE billLock
  /\ paymentLock' = [p \in Payment |-> IF paymentLock[p] = r THEN Nobody ELSE paymentLock[p]]
  /\ eventLock' = [p \in Payment |-> IF eventLock[p] = r THEN Nobody ELSE eventLock[p]]

\* The status that _recompute_totals gives a bill read as old, with paid on it.
StatusAfter(old, paid) ==
  IF old \in {"PAID", "CANCELLED"} THEN old
  ELSE IF paid < Total THEN "PARTIALLY_PAID" ELSE "PAID"

\* An UPDATE sets the columns that differ from what was read.
Written(new, old, current) == IF new = old THEN current ELSE new

\* The bill with the amount of r's payment credited, as r read it.  Mutant: a
\* closed bill takes no money.
CreditedIfOpen(r) ==
  LET seen == req[r].bill
      paid == seen.paid + Amount[req[r].pay]
  IN  IF seen.status \in {"PAID", "CANCELLED"} THEN bill
      ELSE [bill EXCEPT !.paid = paid, !.status = StatusAfter(seen.status, paid)]
Credited(r) ==
  LET seen == req[r].bill
      paid == seen.paid + Amount[req[r].pay]
  IN  [bill EXCEPT !.paid = paid,
                   !.status = Written(StatusAfter(seen.status, paid), seen.status, @)]

\* COMMIT of a request that credited its payment.
CommitCredit(r, processed) ==
  LET p == req[r].pay
      k == req[r].kind
  IN  /\ req[r].pc = "written"
      /\ k \in Crediting
      /\ bill' = Credited(r)
      /\ payment' = [payment EXCEPT ![p] = "SUCCESS"]
      /\ event' = IF k = "webhook" THEN [event EXCEPT ![p] = processed] ELSE event
      /\ credits' = [credits EXCEPT ![p][k] = @ + 1]
      /\ applied' = applied + Amount[p]
      /\ End(r, "done")
      /\ Release(r)
      /\ UNCHANGED <<refunds, returned>>

\* The event is PROCESSED; or the settlement that follows the credit raised an
\* exception (the number does not fit, loyalty), and the handler commits what it has.
Commit(r) == CommitCredit(r, "PROCESSED")
CommitBroken(r) ==
  /\ req[r].kind = "webhook"
  /\ req[r].bill.status # "PAID"
  /\ StatusAfter(req[r].bill.status, req[r].bill.paid + Amount[req[r].pay]) = "PAID"
  /\ CommitCredit(r, "FAILED")

\* A webhook that credits nothing: the payment was SUCCESS when it was read, or
\* the signature does not match.  Mutant: a payment that was read as not SUCCESS
\* is marked by a handler that broke before it reached the bill.
CommitMarked(r) ==
  LET p == req[r].pay
  IN  /\ req[r].pc = "recorded"
      /\ event' = [event EXCEPT ![p] = "FAILED"]
      /\ payment' = [payment EXCEPT ![p] = "SUCCESS"]
      /\ End(r, "done")
      /\ Release(r)
      /\ UNCHANGED <<bill, refunds, history>>
CommitEvent(r) ==
  LET p == req[r].pay
  IN  /\ req[r].pc = "recorded"
      /\ \/ payment[p] = "SUCCESS" /\ event' = [event EXCEPT ![p] = "PROCESSED"]
         \/ event' = [event EXCEPT ![p] = "FAILED"]
      /\ End(r, "done")
      /\ Release(r)
      /\ UNCHANGED <<bill, payment, refunds, history>>

CommitReject(r) ==
  /\ req[r].pc = "marked"
  /\ req[r].kind = "reject"
  /\ payment' = [payment EXCEPT ![req[r].pay] = "FAILED"]
  /\ End(r, "done")
  /\ Release(r)
  /\ UNCHANGED <<bill, refunds, event, history>>

\* The payment's status stays: see Billing!RefundPayment.
CommitRefund(r) ==
  /\ req[r].pc = "written"
  /\ req[r].kind = "refund"
  /\ refunds' = [refunds EXCEPT ![req[r].pay] = @ + req[r].back]
  /\ bill' = [bill EXCEPT !.refunded = req[r].bill.refunded + req[r].back]
  /\ returned' = returned + req[r].back
  /\ End(r, "done")
  /\ Release(r)
  /\ UNCHANGED <<payment, event, credits, applied>>

CommitVoid(r) ==
  /\ req[r].pc = "written"
  /\ req[r].kind = "void"
  /\ bill' = [bill EXCEPT !.status = "CANCELLED"]
  /\ End(r, "done")
  /\ Release(r)
  /\ UNCHANGED <<payment, refunds, event, history>>

\* ROLLBACK.  The event's key turned out to be taken, or anything else failed.
Rollback(r) ==
  /\ End(r, "idle")
  /\ Release(r)
  /\ UNCHANGED <<rows, history>>
DuplicateKey(r) ==
  /\ req[r].pc = "received"
  /\ event[req[r].pay] # "absent"
  /\ Rollback(r)
Fail(r) == Running(r) /\ Rollback(r)

-----------------------------------------------------------------------------
BeginAny(r) ==
  \/ BeginVoid(r)
  \/ \E p \in Payment :
       \/ BeginCash(r, p)
       \/ \E kind \in {"report", "reject"} : BeginReport(r, p, kind)
       \/ BeginWebhook(r, p)
       \/ \E back \in 1 .. Amount[p] : BeginRefund(r, p, back)

Step(r) ==
  \/ RecordEvent(r)
  \/ DuplicateKey(r)
  \/ ReadPayment(r)
  \/ MarkPayment(r)
  \/ ReadBill(r)
  \/ WriteBill(r)
  \/ Commit(r)
  \/ CommitEvent(r)
  \/ CommitReject(r)
  \/ CommitRefund(r)
  \/ CommitVoid(r)

Observe ==
  /\ racedPayment' = racedPayment \cup PaymentRaces'
  /\ racedBill' = (racedBill \/ BillRace')

Next ==
  \E r \in Request : (BeginAny(r) \/ Step(r) \/ CommitBroken(r) \/ Fail(r)) /\ Observe

Spec == Init /\ [][Next]_vars

\* A request that has begun keeps executing, and PostgreSQL serves the waiters of
\* a row in the order they came.  Clients and failures are not fair.
FairSpec == Spec /\ \A r \in Request : SF_vars(Step(r) /\ Observe)

-----------------------------------------------------------------------------
TypeOK ==
  /\ bill \in BillRecord
  /\ payment \in [Payment -> PaymentStatus]
  /\ refunds \in [Payment -> Nat]
  /\ event \in [Payment -> EventStatus]
  /\ billLock \in Request \cup {Nobody}
  /\ paymentLock \in [Payment -> Request \cup {Nobody}]
  /\ eventLock \in [Payment -> Request \cup {Nobody}]
  /\ req \in [Request -> RequestRecord]
  /\ credits \in [Payment -> [Crediting -> Nat]]
  /\ applied \in Nat
  /\ returned \in Nat
  /\ racedPayment \subseteq Payment
  /\ racedBill \in BOOLEAN

Times(p) == credits[p]["cash"] + credits[p]["report"] + credits[p]["webhook"]

\* However often and however concurrently Razorpay delivers an event, the webhook
\* credits its payment at most once (WebhookEvent is "deduplicated by (provider,
\* provider_event_id) before being processed").
EventAppliesOnce == \A p \in Payment : credits[p]["webhook"] <= 1

\* A bill never shows more money than was credited to it, nor more handed back than
\* was refunded, and shows all of both unless two requests worked on it at a time.
PaidIsBacked ==
  /\ bill.paid <= applied /\ bill.refunded <= returned
  /\ ~racedBill => bill.paid = applied /\ bill.refunded = returned

\* A payment that is SUCCESS was credited to its bill, also when the webhook
\* handler failed half way and committed what it had; and exactly once unless two
\* requests worked on it at the same time.
SuccessIsApplied ==
  \A p \in Payment :
    /\ payment[p] = "SUCCESS" => Times(p) >= 1
    /\ p \notin racedPayment => Times(p) = (IF payment[p] = "SUCCESS" THEN 1 ELSE 0)

\* Refunds stay within the payment unless two requests worked on it at a time.
RefundsWithinPayment ==
  \A p \in Payment : p \notin racedPayment => refunds[p] <= Times(p) * Amount[p]

\* A voided bill stays voided, whatever is captured or refunded afterwards, unless
\* two requests worked on the bill at the same time.
VoidIsFinal ==
  [][bill.status = "CANCELLED" /\ ~racedBill' => bill'.status = "CANCELLED"]_vars

\* No two requests have worked on the bill, or on one payment, at a time so far.  The
\* code does not see to it.
NoOverlap == ~racedBill /\ racedPayment = {}

NoEntry == [bill |-> "none", amount |-> 0, back |-> 0]
Entries ==
  [p \in Payment |->
     IF payment[p] = "SUCCESS"
       THEN [bill |-> "bill", amount |-> Amount[p], back |-> refunds[p]]
       ELSE NoEntry]
Books ==
  [b \in {"bill"} |->
     [paid |-> bill.paid, refunded |-> bill.refunded, void |-> bill.status = "CANCELLED"]]
Ledger == INSTANCE PaymentLedger WITH Bill <- {"bill"}, entry <- Entries, book <- Books

\* Up to the first two requests that overlap, whatever fails half way and is sent
\* again, what payments and the bill say is kept as one ledger: a commit takes a
\* payment in, once, hands back part of it or voids the bill, or leaves both sides
\* as they are.
KeepsLedger ==
  Ledger!Init /\ [][NoOverlap' => [Ledger!Next]_(Ledger!vars)]_vars

\* A request that has begun ends: rows are taken in the order event, payment, bill,
\* so requests waiting for each other never wait in a circle.
RequestsEnd == \A r \in Request : Running(r) ~> ~Running(r)

-----------------------------------------------------------------------------
(* What comments in the code say and the code does not do.                 *)

\* Retried requests "(payment capture, webhook delivery, ...) never double-apply"
\* (IdempotencyKey), and a verification is "idempotent".
NeverDoubleApplied == \A p \in Payment : Times(p) <= 1

-----------------------------------------------------------------------------
(* The parts of the inductive invariants that the proofs add.              *)

\* The statements a request of each kind can be between.
Stages(kind) ==
  CASE kind = "webhook" -> Active
    [] kind \in {"cash", "report"} -> {"begun", "marked", "read", "written"}
    [] kind = "reject" -> {"begun", "marked"}
    [] kind = "refund" -> {"begun", "read", "written"}
    [] kind = "void" -> {"read", "written"}
StagesOK == \A r \in Request : Running(r) => req[r].pc \in Stages(req[r].kind)

\* What two requests at a time do is noted.
RacesNoted == PaymentRaces \subseteq racedPayment /\ (BillRace => racedBill)

\* A webhook that has inserted its event holds the key, and nobody else has
\* committed it; an event that is not there was never applied.
EventHeld ==
  \A r \in Request :
    req[r].kind = "webhook" /\ Running(r) /\ req[r].pc # "received" =>
      eventLock[req[r].pay] = r /\ event[req[r].pay] = "absent"
AbsentUnapplied == \A p \in Payment : event[p] = "absent" => credits[p]["webhook"] = 0

BaseInv == TypeOK /\ StagesOK /\ RacesNoted /\ EventHeld /\ AbsentUnapplied /\ EventAppliesOnce

\* What a request has read of the bill is no more than was credited and handed
\* back; without races it is the bill as it is.
SeenBacked ==
  \A r \in Request : req[r].bill.paid <= applied /\ req[r].bill.refunded <= returned
SeenBill ==
  ~racedBill => \A r \in Request : req[r].pc \in {"read", "written"} => req[r].bill = bill
BillInv == SeenBacked /\ SeenBill /\ PaidIsBacked

\* Without races, what a request has found of its payment is still so.
SeenPayment ==
  \A r \in Request :
    /\ Running(r)
    /\ req[r].kind # "void"
    /\ req[r].pay \notin racedPayment
    => /\ req[r].kind = "refund" =>
            payment[req[r].pay] = "SUCCESS" /\ req[r].back + refunds[req[r].pay] <= Amount[req[r].pay]
       /\ req[r].kind # "refund" /\ req[r].pc \notin {"received", "recorded"} =>
            payment[req[r].pay] # "SUCCESS"
RefundedOnlyTaken == \A p \in Payment : p \notin racedPayment /\ Times(p) = 0 => refunds[p] = 0
PaymentInv == SeenPayment /\ RefundedOnlyTaken /\ SuccessIsApplied /\ RefundsWithinPayment
=============================================================================
