---------------------------- MODULE InvoiceSeries ----------------------------
(***************************************************************************)
(* Concurrent settlements of one business taking tax invoice numbers.      *)
(*                                                                         *)
(* A settlement is one database transaction running                        *)
(* billing_service.record_payment_applied with a payment that covers the   *)
(* bill: it reads the bill, writes the payment to it, and, if the bill was *)
(* not settled when it was read, runs finalise, which allocates a number   *)
(* through invoice_service.allocate.  PostgreSQL runs at READ COMMITTED:   *)
(* reads see what is committed, an UPDATE or SELECT .. FOR UPDATE takes    *)
(* the row until the transaction ends, and an INSERT of a key that another *)
(* transaction has inserted and not yet committed waits for it.  Nothing a *)
(* transaction wrote is visible before it commits, so the variables bill   *)
(* and lastNumber below hold committed values only.  The payment is one in *)
(* cash or reported by the browser: the webhook's handler would commit the *)
(* counter of a number that does not fit, instead of rolling it back.      *)
(***************************************************************************)
EXTENDS Integers

CONSTANTS
  Settlement, \* the settling transactions
  Bill,
  BillOf,     \* BillOf[t]: the bill that settlement t pays
  Series,     \* the financial_year values a counter row may carry
  Limit,      \* the last sequence whose number fits in 16 characters
  NoInvoice,  \* invoice_number IS NULL
  Nobody      \* no transaction holds the row

ASSUME SettlementAssumption ==
  /\ BillOf \in [Settlement -> Bill]
  /\ Limit \in Nat
  /\ Nobody \notin Settlement
  /\ NoInvoice \notin [series : Series, seq : Nat]

VARIABLES
  bill,       \* bill[b]: the invoice number committed on bill b
  lastNumber, \* lastNumber[s]: the committed counter row, or Missing
  fy,         \* the series that a number allocated now belongs to
  billLock,   \* billLock[b]: the transaction holding the bill's row
  counterLock,\* counterLock[s]: the transaction holding the counter's row
  pc,         \* pc[t]: how far settlement t has come
  seen,       \* seen[t]: the bill's number as settlement t read it
  mine        \* mine[t]: the series, then the number, t is allocating

vars == <<bill, lastNumber, fy, billLock, counterLock, pc, seen, mine>>
locks == <<billLock, counterLock>>

Missing == -1
Invoice == [series : Series, seq : Nat \ {0}]

\* The steps of record_payment_applied -> finalise -> allocate, named by what
\* has just been done.
Active == {"read", "flushed", "ensured", "numbered"}

\* What the counter row says to a transaction that can see it.
Counted(s) == IF lastNumber[s] = Missing THEN 0 ELSE lastNumber[s]

-----------------------------------------------------------------------------
Init ==
  /\ bill = [b \in Bill |-> NoInvoice]
  /\ lastNumber = [s \in Series |-> Missing]
  /\ fy \in Series
  /\ billLock = [b \in Bill |-> Nobody]
  /\ counterLock = [s \in Series |-> Nobody]
  /\ pc = [t \in Settlement |-> "idle"]
  /\ seen = [t \in Settlement |-> NoInvoice]
  /\ mine = [t \in Settlement |-> [series |-> fy, seq |-> 0]]

\* get_bill_or_404: the bill is read without a lock.
ReadBill(t) ==
  /\ pc[t] = "idle"
  /\ seen' = [seen EXCEPT ![t] = bill[BillOf[t]]]
  /\ pc' = [pc EXCEPT ![t] = "read"]
  /\ UNCHANGED <<bill, lastNumber, fy, locks, mine>>

\* The flush of amount_paid and status: an UPDATE, which waits for the row.
FlushPayment(t) ==
  /\ pc[t] = "read"
  /\ billLock[BillOf[t]] = Nobody
  /\ billLock' = [billLock EXCEPT ![BillOf[t]] = t]
  /\ pc' = [pc EXCEPT ![t] = "flushed"]
  /\ UNCHANGED <<bill, lastNumber, fy, counterLock, seen, mine>>

\* finalise runs only for a bill read as not settled, and returns at once when
\* the bill as read has a number.  Mutant: it always allocates.
Always(t) == t \in Settlement
Unnumbered(t) == seen[t] = NoInvoice

\* INSERT .. ON CONFLICT DO NOTHING on the counter of series s.  The row is
\* there: nothing happens.  It is not: t inserts it and holds it.  Another
\* transaction has inserted it and is still running: wait for that one to end.
InsertOnConflictDoNothing(s, t) ==
  \/ lastNumber[s] # Missing /\ UNCHANGED counterLock
  \/ /\ lastNumber[s] = Missing
     /\ counterLock[s] = Nobody
     /\ counterLock' = [counterLock EXCEPT ![s] = t]

EnsureCounter(t) ==
  /\ pc[t] = "flushed"
  /\ Unnumbered(t)
  /\ InsertOnConflictDoNothing(fy, t)
  /\ mine' = [mine EXCEPT ![t].series = fy]
  /\ pc' = [pc EXCEPT ![t] = "ensured"]
  /\ UNCHANGED <<bill, lastNumber, fy, billLock, seen>>

\* SELECT .. FOR UPDATE returns once no other transaction holds the row.
\* Mutant: a SELECT without FOR UPDATE.
CounterFree(t) == counterLock[mine[t].series] \in {Nobody, t}

\* last_number += 1, then sequence = last_number.
NextNumber(t) == Counted(mine[t].series) + 1

\* The rest of allocate, when the number fits.
Allocate(t) ==
  /\ pc[t] = "ensured"
  /\ CounterFree(t)
  /\ Counted(mine[t].series) < Limit
  /\ counterLock' = [counterLock EXCEPT ![mine[t].series] = t]
  /\ mine' = [mine EXCEPT ![t].seq = NextNumber(t)]
  /\ pc' = [pc EXCEPT ![t] = "numbered"]
  /\ UNCHANGED <<bill, lastNumber, fy, billLock, seen>>

\* Mutant of the end of a transaction: the counter row stays locked.
ReleaseBillOnly(t) ==
  /\ billLock' = [b \in Bill |-> IF billLock[b] = t THEN Nobody ELSE billLock[b]]
  /\ UNCHANGED counterLock

\* The end of a transaction: its rows are free again.
ReleaseAll(t) ==
  /\ billLock' = [b \in Bill |-> IF billLock[b] = t THEN Nobody ELSE billLock[b]]
  /\ counterLock' =
       [s \in Series |-> IF counterLock[s] = t THEN Nobody ELSE counterLock[s]]

\* COMMIT of a settlement that took a number: the bill and the counter it wrote
\* become visible together.
Commit(t) ==
  /\ pc[t] = "numbered"
  /\ bill' = [bill EXCEPT ![BillOf[t]] = mine[t]]
  /\ lastNumber' = [lastNumber EXCEPT ![mine[t].series] = mine[t].seq]
  /\ pc' = [pc EXCEPT ![t] = "done"]
  /\ ReleaseAll(t)
  /\ UNCHANGED <<fy, seen, mine>>

\* A payment on a bill that was read as settled: no number is taken.
CommitRepeat(t) ==
  /\ pc[t] = "flushed"
  /\ ~Unnumbered(t)
  /\ pc' = [pc EXCEPT ![t] = "done"]
  /\ ReleaseAll(t)
  /\ UNCHANGED <<bill, lastNumber, fy, seen, mine>>

\* ROLLBACK: nothing of the attempt remains, and the client may settle again.
\* Mutant: a PostgreSQL sequence, whose increment outlives the transaction.
RollbackOfSequence(t) ==
  /\ pc' = [pc EXCEPT ![t] = "idle"]
  /\ seen' = [seen EXCEPT ![t] = NoInvoice]
  /\ mine' = [mine EXCEPT ![t].seq = 0]
  /\ lastNumber' = IF pc[t] = "numbered"
                     THEN [lastNumber EXCEPT ![mine[t].series] = mine[t].seq]
                     ELSE lastNumber
  /\ ReleaseAll(t)
  /\ UNCHANGED <<bill, fy>>
Rollback(t) ==
  /\ pc' = [pc EXCEPT ![t] = "idle"]
  /\ seen' = [seen EXCEPT ![t] = NoInvoice]
  /\ mine' = [mine EXCEPT ![t].seq = 0]
  /\ ReleaseAll(t)
  /\ UNCHANGED <<bill, lastNumber, fy>>

\* The next number no longer fits in 16 characters: allocate raises.
Overflow(t) ==
  /\ pc[t] = "ensured"
  /\ CounterFree(t)
  /\ Counted(mine[t].series) >= Limit
  /\ Rollback(t)

\* Any other failure after the transaction began: an exception later in the
\* request, a lost connection, a killed worker.
Fail(t) ==
  /\ pc[t] \in Active
  /\ Rollback(t)

\* 1 April, or the owner switching invoice_series_per_year.
ChangeSeries(s) ==
  /\ fy # s
  /\ fy' = s
  /\ UNCHANGED <<bill, lastNumber, locks, pc, seen, mine>>

Step(t) ==
  \/ FlushPayment(t)
  \/ EnsureCounter(t)
  \/ Allocate(t)
  \/ Overflow(t)
  \/ Commit(t)
  \/ CommitRepeat(t)

Next ==
  \/ \E t \in Settlement : ReadBill(t) \/ Step(t) \/ Fail(t)
  \/ \E s \in Series : ChangeSeries(s)

Spec == Init /\ [][Next]_vars

\* A transaction that has begun keeps executing, and PostgreSQL serves the
\* waiters of a row in the order they came.  Nothing is assumed of the clients
\* (ReadBill), of failures (Fail) or of the calendar (ChangeSeries).
FairSpec == Spec /\ \A t \in Settlement : SF_vars(Step(t))

-----------------------------------------------------------------------------
(* The environment in which the numbering is gapless: no two settlements   *)
(* of the same bill run at the same time.  The code does not enforce it.   *)
NoOverlap ==
  \A t, u \in Settlement :
    pc[t] \in Active /\ pc[u] \in Active /\ BillOf[t] = BillOf[u] => t = u

SerialSpec == Init /\ [][Next /\ NoOverlap']_vars

-----------------------------------------------------------------------------
TypeOK ==
  /\ bill \in [Bill -> Invoice \cup {NoInvoice}]
  /\ lastNumber \in [Series -> Nat \cup {Missing}]
  /\ fy \in Series
  /\ billLock \in [Bill -> Settlement \cup {Nobody}]
  /\ counterLock \in [Series -> Settlement \cup {Nobody}]
  /\ pc \in [Settlement -> Active \cup {"idle", "done"}]
  /\ seen \in [Settlement -> Invoice \cup {NoInvoice}]
  /\ mine \in [Settlement -> [series : Series, seq : Nat]]

\* Two bills never carry the same invoice number, whatever the interleaving,
\* the failures and the retries (uq_bills_invoice_series_number is never hit).
UniqueNumbers ==
  \A b, c \in Bill : bill[b] = bill[c] /\ bill[b] # NoInvoice => b = c

\* A settlement that has passed INSERT .. ON CONFLICT finds the counter row:
\* scalar_one never raises, also when several connections make a business's
\* very first settlement at once.
CounterFound ==
  \A t \in Settlement :
    pc[t] = "ensured" =>
      \/ lastNumber[mine[t].series] # Missing
      \/ counterLock[mine[t].series] = t

\* The series has no hole: every number up to the counter is on a bill.
\* Numbers of rolled-back settlements are used again.
Gapless ==
  \A s \in Series : \A n \in 1 .. Counted(s) :
    \E b \in Bill : bill[b] = [series |-> s, seq |-> n]

\* A settlement that has begun ends, committed or rolled back: transactions
\* waiting for each other's bill and counter rows never wait in a circle.
SettlementsEnd ==
  \A t \in Settlement : pc[t] \in Active ~> pc[t] \in {"idle", "done"}

\* With no two settlements of a bill at once, what commits is the register: a
\* bill takes at most one number and it is the next of its series.
Register ==
  INSTANCE InvoiceRegister
    WITH number <- bill, top <- [s \in Series |-> Counted(s)]
ImplementsRegister == Register!Spec

-----------------------------------------------------------------------------
(* The parts of the inductive invariants that the proofs add.              *)

\* A settlement that has its number holds the counter, whose committed value is
\* the one before.
HoldsNext ==
  \A t \in Settlement :
    pc[t] = "numbered" =>
      /\ counterLock[mine[t].series] = t
      /\ mine[t].seq = Counted(mine[t].series) + 1

\* No number on a bill is above its counter.
IssuedByCounter ==
  \A b \in Bill, s \in Series :
    bill[b] # NoInvoice /\ bill[b].series = s => bill[b].seq <= Counted(s)

LockInv == TypeOK /\ HoldsNext /\ CounterFound
NumberInv == IssuedByCounter /\ UniqueNumbers

\* Without overlap, what a running settlement read is still so.
SeenCurrent ==
  \A t \in Settlement : pc[t] \in Active => seen[t] = bill[BillOf[t]]

\* A settlement that is allocating read a bill without a number.
AllocatesUnnumbered ==
  \A t \in Settlement : pc[t] \in {"ensured", "numbered"} => seen[t] = NoInvoice

SerialInv == NoOverlap /\ SeenCurrent /\ AllocatesUnnumbered
=============================================================================
