------------------------- MODULE InvoiceSeriesProofs -------------------------
(***************************************************************************)
(* What InvoiceSeries guarantees for any number of settlements, bills and  *)
(* series.  Under Spec, with every interleaving and failure, numbers are   *)
(* unique and the counter row is found; under SerialSpec the series is     *)
(* gapless and the transactions implement InvoiceRegister.                 *)
(***************************************************************************)
EXTENDS InvoiceSeries, TLAPS

USE SettlementAssumption

-----------------------------------------------------------------------------
(* Typing.                                                                 *)

LEMMA TypeInit == Init => TypeOK
  BY DEF Init, TypeOK, Missing, Active

LEMMA LockInit == Init => LockInv
  BY TypeInit DEF Init, LockInv, HoldsNext, CounterFound

LEMMA LockStep == LockInv /\ [Next]_vars => LockInv'
<1> SUFFICES ASSUME LockInv, [Next]_vars PROVE LockInv'
  OBVIOUS
<1> USE DEF LockInv, TypeOK, HoldsNext, CounterFound, Active, Missing, Counted
<1>1. ASSUME NEW t \in Settlement, ReadBill(t) PROVE LockInv'
  BY <1>1 DEF ReadBill, locks
<1>2. ASSUME NEW t \in Settlement, FlushPayment(t) PROVE LockInv'
  BY <1>2 DEF FlushPayment
<1>3. ASSUME NEW t \in Settlement, EnsureCounter(t) PROVE LockInv'
  <2> USE DEF EnsureCounter, InsertOnConflictDoNothing
  <2>1. TypeOK'
    <3>1. counterLock' \in [Series -> Settlement \cup {Nobody}]
      BY <1>3
    <3>2. mine' \in [Settlement -> [series : Series, seq : Nat]]
      BY <1>3
    <3>. QED
      BY <1>3, <3>1, <3>2
  <2>2. HoldsNext'
    BY <1>3
  <2>3. CounterFound'
    BY <1>3
  <2>. QED
    BY <2>1, <2>2, <2>3
<1>4. ASSUME NEW t \in Settlement, Allocate(t) PROVE LockInv'
  <2> USE DEF Allocate, NextNumber, CounterFree
  <2>1. TypeOK'
    BY <1>4
  <2>2. HoldsNext'
    BY <1>4
  <2>3. CounterFound'
    BY <1>4
  <2>. QED
    BY <2>1, <2>2, <2>3
<1>5. ASSUME NEW t \in Settlement, Commit(t) PROVE LockInv'
  <2> USE DEF Commit, ReleaseAll
  <2>1. mine[t] \in Invoice
    BY <1>5 DEF Invoice
  <2>2. TypeOK'
    BY <1>5, <2>1 DEF Invoice
  <2>3. HoldsNext'
    BY <1>5
  <2>4. CounterFound'
    BY <1>5
  <2>. QED
    BY <2>2, <2>3, <2>4
<1>6. ASSUME NEW t \in Settlement, CommitRepeat(t) PROVE LockInv'
  BY <1>6 DEF CommitRepeat, ReleaseAll
<1>7. ASSUME NEW t \in Settlement, Rollback(t) PROVE LockInv'
  BY <1>7 DEF Rollback, ReleaseAll
<1>8. ASSUME NEW s \in Series, ChangeSeries(s) PROVE LockInv'
  BY <1>8 DEF ChangeSeries, locks
<1>9. CASE UNCHANGED vars
  BY <1>9 DEF vars
<1>. QED
  BY <1>1, <1>2, <1>3, <1>4, <1>5, <1>6, <1>7, <1>8, <1>9
     DEF Next, Step, Overflow, Fail

\* In every reachable state the variables have their types (InvoiceSeries.TypeOK),
\* for any settlements, bills, series and limit.
THEOREM TypeCorrect == Spec => []TypeOK
<1>1. LockInv => TypeOK
  BY DEF LockInv
<1>. QED
  BY <1>1, LockInit, LockStep, PTL DEF Spec

\* Concurrent first settlements of a business never make allocate's SELECT ..
\* FOR UPDATE come back without a row (invoice_service.allocate).
THEOREM CounterAlwaysFound == Spec => []CounterFound
<1>1. LockInv => CounterFound
  BY DEF LockInv
<1>. QED
  BY <1>1, LockInit, LockStep, PTL DEF Spec

-----------------------------------------------------------------------------
(* What the steps publish.                                                 *)

LEMMA OnlyCommitPublishes ==
  Next => UNCHANGED <<bill, lastNumber>> \/ \E t \in Settlement : Commit(t)
  BY DEF Next, Step, ReadBill, FlushPayment, EnsureCounter, Allocate, Overflow,
         CommitRepeat, Fail, Rollback, ChangeSeries

LEMMA CountedNat == TypeOK => \A s \in Series : Counted(s) \in Nat
  BY DEF TypeOK, Counted, Missing

\* A commit puts the next number of one series on its bill and counts it.
LEMMA CommitPublishesNext ==
  ASSUME LockInv, NEW t \in Settlement, Commit(t)
  PROVE  \E s \in Series :
           /\ bill' = [bill EXCEPT ![BillOf[t]] =
                         [series |-> s, seq |-> Counted(s) + 1]]
           /\ \A r \in Series :
                Counted(r)' = IF r = s THEN Counted(s) + 1 ELSE Counted(r)
<1>1. PICK s \in Series : s = mine[t].series
  BY DEF LockInv, TypeOK
<1>2. Counted(s) \in Nat
  BY CountedNat DEF LockInv
<1>3. mine[t] = [series |-> s, seq |-> Counted(s) + 1]
  BY <1>1 DEF Commit, LockInv, TypeOK, HoldsNext
<1>4. lastNumber' = [lastNumber EXCEPT ![s] = Counted(s) + 1]
  BY <1>3 DEF Commit
<1>5. \A r \in Series :
        Counted(r)' = IF r = s THEN Counted(s) + 1 ELSE Counted(r)
  BY <1>2, <1>4 DEF Counted, LockInv, TypeOK, Missing
<1>. QED
  BY <1>3, <1>5 DEF Commit

-----------------------------------------------------------------------------
(* Uniqueness.                                                             *)

LEMMA NumberInit == Init => NumberInv
  BY DEF Init, NumberInv, IssuedByCounter, UniqueNumbers

\* Only a commit changes a bill or a counter; the number it publishes is one
\* above the counter, hence above every number on a bill.
LEMMA NumberStep == LockInv /\ NumberInv /\ [Next]_vars => NumberInv'
<1> SUFFICES ASSUME LockInv, NumberInv, [Next]_vars PROVE NumberInv'
  OBVIOUS
<1> USE DEF NumberInv
<1>1. CASE UNCHANGED <<bill, lastNumber>>
  BY <1>1 DEF IssuedByCounter, UniqueNumbers, Counted
<1>2. ASSUME NEW t \in Settlement, Commit(t) PROVE NumberInv'
  <2>1. PICK s \in Series :
          /\ bill' = [bill EXCEPT ![BillOf[t]] =
                        [series |-> s, seq |-> Counted(s) + 1]]
          /\ \A r \in Series :
               Counted(r)' = IF r = s THEN Counted(s) + 1 ELSE Counted(r)
    BY <1>2, CommitPublishesNext
  <2>2. \A r \in Series : Counted(r) \in Nat
    BY CountedNat DEF LockInv
  <2>3. bill \in [Bill -> Invoice \cup {NoInvoice}]
    BY DEF LockInv, TypeOK
  <2>4. ASSUME NEW b \in Bill, NEW r \in Series,
               bill'[b] # NoInvoice, bill'[b].series = r
        PROVE  bill'[b].seq <= Counted(r)'
    <3>1. CASE b = BillOf[t]
      BY <2>1, <2>2, <2>3, <2>4, <3>1
    <3>2. CASE b # BillOf[t]
      <4>1. bill'[b] = bill[b] /\ bill[b] \in Invoice
        BY <2>1, <2>3, <2>4, <3>2
      <4>2. bill[b].seq \in Nat /\ bill[b].seq <= Counted(r)
        BY <2>4, <4>1 DEF IssuedByCounter, Invoice
      <4>. QED
        BY <2>1, <2>2, <4>1, <4>2
    <3>. QED
      BY <3>1, <3>2
  <2>5. IssuedByCounter'
    BY <2>4 DEF IssuedByCounter
  <2>6. \A b \in Bill : bill[b] # [series |-> s, seq |-> Counted(s) + 1]
    BY <2>2, <2>3 DEF IssuedByCounter
  <2>7. UniqueNumbers'
    BY <2>1, <2>3, <2>6 DEF UniqueNumbers
  <2>. QED
    BY <2>5, <2>7
<1>. QED
  BY <1>1, <1>2, OnlyCommitPublishes DEF vars

\* No two bills of a business carry the same invoice number, whatever the
\* interleaving, failures, retries and changes of series.
THEOREM NumbersUnique == Spec => []UniqueNumbers
<1>1. LockInv /\ NumberInv => UniqueNumbers
  BY DEF NumberInv
<1>. QED
  BY <1>1, LockInit, LockStep, NumberInit, NumberStep, PTL DEF Spec

-----------------------------------------------------------------------------
(* Gaplessness, when no two settlements of one bill overlap.               *)

LEMMA SerialInit == Init => SerialInv
  BY DEF Init, SerialInv, NoOverlap, SeenCurrent, AllocatesUnnumbered, Active

LEMMA SerialStep == LockInv /\ SerialInv /\ [Next /\ NoOverlap']_vars => SerialInv'
<1> SUFFICES ASSUME LockInv, SerialInv, [Next /\ NoOverlap']_vars PROVE SerialInv'
  OBVIOUS
<1> USE DEF SerialInv, SeenCurrent, AllocatesUnnumbered, Active
<1>0. CASE UNCHANGED vars
  BY <1>0 DEF vars, NoOverlap
<1> SUFFICES ASSUME Next, NoOverlap' PROVE SeenCurrent' /\ AllocatesUnnumbered'
  BY <1>0
<1>1. TypeOK
  BY DEF LockInv
<1>2. ASSUME NEW t \in Settlement, ReadBill(t)
      PROVE  SeenCurrent' /\ AllocatesUnnumbered'
  BY <1>1, <1>2 DEF ReadBill, TypeOK
<1>3. ASSUME NEW t \in Settlement, FlushPayment(t)
      PROVE  SeenCurrent' /\ AllocatesUnnumbered'
  BY <1>1, <1>3 DEF FlushPayment, TypeOK
<1>4. ASSUME NEW t \in Settlement, EnsureCounter(t)
      PROVE  SeenCurrent' /\ AllocatesUnnumbered'
  BY <1>1, <1>4 DEF EnsureCounter, Unnumbered, TypeOK
<1>5. ASSUME NEW t \in Settlement, Allocate(t)
      PROVE  SeenCurrent' /\ AllocatesUnnumbered'
  BY <1>1, <1>5 DEF Allocate, TypeOK
<1>6. ASSUME NEW t \in Settlement, Commit(t)
      PROVE  SeenCurrent' /\ AllocatesUnnumbered'
  \* Another active settlement is of another bill, whose number stays.
  <2>1. \A u \in Settlement : u # t /\ pc[u] \in Active => BillOf[u] # BillOf[t]
    BY <1>6 DEF Commit, NoOverlap
  <2>. QED
    BY <1>1, <1>6, <2>1 DEF Commit, TypeOK
<1>7. ASSUME NEW t \in Settlement, CommitRepeat(t)
      PROVE  SeenCurrent' /\ AllocatesUnnumbered'
  BY <1>1, <1>7 DEF CommitRepeat, TypeOK
<1>8. ASSUME NEW t \in Settlement, Rollback(t)
      PROVE  SeenCurrent' /\ AllocatesUnnumbered'
  BY <1>1, <1>8 DEF Rollback, TypeOK
<1>9. ASSUME NEW s \in Series, ChangeSeries(s)
      PROVE  SeenCurrent' /\ AllocatesUnnumbered'
  BY <1>9 DEF ChangeSeries
<1>. QED
  BY <1>2, <1>3, <1>4, <1>5, <1>6, <1>7, <1>8, <1>9
     DEF Next, Step, Overflow, Fail

LEMMA SerialInvariant == SerialSpec => [](LockInv /\ SerialInv)
<1>1. LockInv /\ SerialInv /\ [Next /\ NoOverlap']_vars => (LockInv /\ SerialInv)'
  BY LockStep, SerialStep
<1>. QED
  BY <1>1, LockInit, SerialInit, PTL DEF SerialSpec

LEMMA GaplessStep ==
  LockInv /\ SerialInv /\ Gapless /\ [Next /\ NoOverlap']_vars => Gapless'
<1> SUFFICES ASSUME LockInv, SerialInv, Gapless, [Next]_vars PROVE Gapless'
  OBVIOUS
<1>1. CASE UNCHANGED <<bill, lastNumber>>
  BY <1>1 DEF Gapless, Counted
<1>2. ASSUME NEW t \in Settlement, Commit(t) PROVE Gapless'
  <2>1. PICK s \in Series :
          /\ bill' = [bill EXCEPT ![BillOf[t]] =
                        [series |-> s, seq |-> Counted(s) + 1]]
          /\ \A r \in Series :
               Counted(r)' = IF r = s THEN Counted(s) + 1 ELSE Counted(r)
    BY <1>2, CommitPublishesNext
  <2>2. \A r \in Series : Counted(r) \in Nat
    BY CountedNat DEF LockInv
  <2>3. bill \in [Bill -> Invoice \cup {NoInvoice}] /\ BillOf[t] \in Bill
    BY DEF LockInv, TypeOK
  \* The bill had no number, so no number leaves the register.
  <2>4. bill[BillOf[t]] = NoInvoice
    BY <1>2 DEF Commit, SerialInv, SeenCurrent, AllocatesUnnumbered, Active
  <2>5. ASSUME NEW r \in Series, NEW k \in 1 .. Counted(r)'
        PROVE  \E b \in Bill : bill'[b] = [series |-> r, seq |-> k]
    <3>1. CASE r = s /\ k = Counted(s) + 1
      BY <2>1, <2>3, <3>1
    <3>2. CASE ~(r = s /\ k = Counted(s) + 1)
      <4>1. k \in 1 .. Counted(r)
        BY <2>1, <2>2, <2>5, <3>2
      <4>2. PICK b \in Bill : bill[b] = [series |-> r, seq |-> k]
        BY <4>1 DEF Gapless
      <4>3. k \in Nat
        BY <4>1, <2>2
      <4>4. b # BillOf[t]
        BY <2>4, <4>2, <4>3
      <4>. QED
        BY <2>1, <2>3, <4>2, <4>4
    <3>. QED
      BY <3>1, <3>2
  <2>. QED
    BY <2>5 DEF Gapless
<1>. QED
  BY <1>1, <1>2, OnlyCommitPublishes DEF vars

\* Every number of a series up to its counter is on a bill: a rollback between
\* allocate and commit leaves no hole, provided no two settlements of the same
\* bill run at once.
THEOREM SeriesGapless == SerialSpec => []Gapless
<1>1. Init => Gapless
  BY DEF Init, Gapless, Counted
<1>. QED
  BY <1>1, GaplessStep, SerialInvariant, PTL DEF SerialSpec

-----------------------------------------------------------------------------
(* The register.                                                           *)

\* The settling transactions implement InvoiceRegister: a commit is Issue, every
\* other step leaves the register alone.
THEOREM RegisterImplemented == SerialSpec => ImplementsRegister
<1>1. Init => Register!Init
  BY DEF Init, Register!Init, Counted
<1>2. LockInv /\ SerialInv /\ [Next /\ NoOverlap']_vars
        => [Register!Next]_(Register!vars)
  <2> SUFFICES ASSUME LockInv, SerialInv, [Next]_vars
               PROVE  [Register!Next]_(Register!vars)
    OBVIOUS
  <2>1. CASE UNCHANGED <<bill, lastNumber>>
    BY <2>1 DEF Register!vars, Counted
  <2>2. ASSUME NEW t \in Settlement, Commit(t) PROVE Register!Next
    <3>1. PICK s \in Series :
            /\ bill' = [bill EXCEPT ![BillOf[t]] =
                          [series |-> s, seq |-> Counted(s) + 1]]
            /\ \A r \in Series :
                 Counted(r)' = IF r = s THEN Counted(s) + 1 ELSE Counted(r)
      BY <2>2, CommitPublishesNext
    <3>2. bill[BillOf[t]] = NoInvoice
      BY <2>2 DEF Commit, SerialInv, SeenCurrent, AllocatesUnnumbered, Active
    <3>3. [r \in Series |-> Counted(r)]'
            = [[r \in Series |-> Counted(r)] EXCEPT ![s] = @ + 1]
      BY <3>1
    <3>4. Register!Issue(BillOf[t], s)
      BY <3>1, <3>2, <3>3 DEF Register!Issue
    <3>. QED
      BY <3>4 DEF Register!Next
  <2>. QED
    BY <2>1, <2>2, OnlyCommitPublishes DEF vars
<1>. QED
  BY <1>1, <1>2, SerialInvariant, PTL
     DEF SerialSpec, ImplementsRegister, Register!Spec
=============================================================================
