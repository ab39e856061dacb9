---------------------------- MODULE TakingsProofs ----------------------------
(***************************************************************************)
(* What Takings guarantees for any number of requests and payments: an     *)
(* event applies once, the bill shows no money that was not taken, and     *)
(* without races it shows all of it, a SUCCESS payment was credited,       *)
(* refunds stay within it and a voided bill stays voided.  Up to the first *)
(* race, payments and bill are kept as in a PaymentLedger.                 *)
(***************************************************************************)
EXTENDS Takings, TLAPS

USE TakingsAssumption DEF BillStatus, PaymentStatus, EventStatus, BillRecord, Crediting,
  Kind, Active, RequestRecord, NewBill

-----------------------------------------------------------------------------
LEMMA EndedType == \A pc \in {"idle", "done"} : Ended(pc) \in RequestRecord
<1>1. (CHOOSE p \in Payment : TRUE) \in Payment
  OBVIOUS
<1>. QED
  BY <1>1 DEF Ended

\* Changing fields of a bill's or a request's record.
LEMMA BillFields ==
  /\ \A b \in BillRecord, s \in BillStatus : [b EXCEPT !.status = s] \in BillRecord
  /\ \A b \in BillRecord, n \in Nat : [b EXCEPT !.refunded = n] \in BillRecord
<1>1. \A b \in BillRecord, s \in BillStatus : [b EXCEPT !.status = s] \in BillRecord
  OBVIOUS
<1>2. \A b \in BillRecord, n \in Nat : [b EXCEPT !.refunded = n] \in BillRecord
  OBVIOUS
<1>. QED
  BY <1>1, <1>2

LEMMA RequestFields ==
  /\ \A q \in RequestRecord, pc \in Active : [q EXCEPT !.pc = pc] \in RequestRecord
  /\ \A q \in RequestRecord, pc \in Active, b \in BillRecord :
       [q EXCEPT !.pc = pc, !.bill = b] \in RequestRecord
<1>1. \A q \in RequestRecord, pc \in Active : [q EXCEPT !.pc = pc] \in RequestRecord
  OBVIOUS
<1>2. \A q \in RequestRecord, pc \in Active, b \in BillRecord :
        [q EXCEPT !.pc = pc, !.bill = b] \in RequestRecord
  OBVIOUS
<1>. QED
  BY <1>1, <1>2

LEMMA InitType == Init => TypeOK
<1> SUFFICES ASSUME Init PROVE TypeOK
  OBVIOUS
<1>1. req \in [Request -> RequestRecord]
  BY EndedType DEF Init
<1>2. bill \in BillRecord
  BY DEF Init
<1>. QED
  BY <1>1, <1>2 DEF Init, TypeOK

LEMMA BeginType ==
  ASSUME TypeOK, NEW r \in Request, NEW kind \in Kind, NEW p \in Payment, NEW back \in Nat,
         NEW pc \in Active, Begin(r, kind, p, back, pc), Observe
  PROVE  TypeOK'
  BY DEF TypeOK, Begin, rows, locks, history, Observe, PaymentRaces

LEMMA ReleaseType ==
  ASSUME TypeOK, NEW r \in Request, Release(r)
  PROVE  /\ billLock' \in Request \cup {Nobody}
         /\ paymentLock' \in [Payment -> Request \cup {Nobody}]
         /\ eventLock' \in [Payment -> Request \cup {Nobody}]
  BY DEF TypeOK, Release

LEMMA ObserveType ==
  ASSUME TypeOK, Observe
  PROVE  racedPayment' \subseteq Payment /\ racedBill' \in BOOLEAN
  BY DEF TypeOK, Observe, PaymentRaces, BillRace

LEMMA MoveType ==
  ASSUME TypeOK, NEW r \in Request, NEW pc \in Active, Move(r, pc)
  PROVE  req' \in [Request -> RequestRecord]
<1>. HIDE DEF RequestRecord
<1>1. req \in [Request -> RequestRecord]
  BY DEF TypeOK
<1>2. [req[r] EXCEPT !.pc = pc] \in RequestRecord
  BY <1>1, RequestFields
<1>. QED
  BY <1>1, <1>2 DEF Move

LEMMA EndType ==
  ASSUME TypeOK, NEW r \in Request, NEW pc \in {"idle", "done"}, End(r, pc)
  PROVE  req' \in [Request -> RequestRecord]
  BY EndedType DEF TypeOK, End

LEMMA CreditedType ==
  ASSUME TypeOK, NEW r \in Request PROVE Credited(r) \in BillRecord
<1>1. /\ req[r].pay \in Payment /\ req[r].bill \in BillRecord /\ bill \in BillRecord
      /\ Amount[req[r].pay] \in Nat
  BY DEF TypeOK
<1> DEFINE paid == req[r].bill.paid + Amount[req[r].pay]
           status == Written(StatusAfter(req[r].bill.status, paid), req[r].bill.status, bill.status)
<1>2. paid \in Nat /\ status \in BillStatus
  BY <1>1 DEF StatusAfter, Written
<1>3. Credited(r) = [bill EXCEPT !.paid = paid, !.status = status]
  BY <1>1 DEF Credited
<1>. HIDE DEF paid, status
<1>. QED
  BY <1>1, <1>2, <1>3

LEMMA CommitCreditType ==
  ASSUME TypeOK, NEW r \in Request, NEW processed \in EventStatus,
         CommitCredit(r, processed), Observe
  PROVE  TypeOK'
<1> USE DEF CommitCredit
<1>1. bill' \in BillRecord
  BY CreditedType
<1>2. req' \in [Request -> RequestRecord]
  BY EndType
<1>3. req[r].pay \in Payment /\ Amount[req[r].pay] \in Nat
  BY DEF TypeOK
<1>4. credits' \in [Payment -> [Crediting -> Nat]] /\ applied' \in Nat
  BY <1>3 DEF TypeOK
<1>5. payment' \in [Payment -> PaymentStatus] /\ event' \in [Payment -> EventStatus]
  BY <1>3 DEF TypeOK
<1>. QED
  BY <1>1, <1>2, <1>4, <1>5, ReleaseType, ObserveType DEF TypeOK

LEMMA StepType ==
  ASSUME TypeOK, Next PROVE TypeOK'
<1> SUFFICES ASSUME NEW r \in Request,
                    BeginAny(r) \/ Step(r) \/ CommitBroken(r) \/ Fail(r), Observe
             PROVE  TypeOK'
  BY DEF Next
<1>1. CASE BeginAny(r)
  <2>1. CASE BeginVoid(r)
    BY <2>1, BeginType DEF BeginVoid, TypeOK
  <2>2. ASSUME NEW p \in Payment, BeginCash(r, p) PROVE TypeOK'
    BY <2>2, BeginType DEF BeginCash
  <2>3. ASSUME NEW p \in Payment, NEW kind \in {"report", "reject"}, BeginReport(r, p, kind)
        PROVE  TypeOK'
    BY <2>3, BeginType DEF BeginReport
  <2>4. ASSUME NEW p \in Payment, BeginWebhook(r, p) PROVE TypeOK'
    BY <2>4, BeginType DEF BeginWebhook
  <2>5. ASSUME NEW p \in Payment, NEW back \in 1 .. Amount[p], BeginRefund(r, p, back)
        PROVE  TypeOK'
    <3>1. back \in Nat
      OBVIOUS
    <3>. QED
      BY <2>5, <3>1, BeginType DEF BeginRefund
  <2>. QED
    BY <1>1, <2>1, <2>2, <2>3, <2>4, <2>5 DEF BeginAny
<1>2. CASE RecordEvent(r)
  BY <1>2, ObserveType, MoveType DEF RecordEvent, InsertUnique, rows, history, TypeOK
<1>3. CASE ReadPayment(r)
  BY <1>3, ObserveType, MoveType DEF ReadPayment, rows, locks, history, TypeOK
<1>4. CASE MarkPayment(r)
  BY <1>4, ObserveType, MoveType DEF MarkPayment, rows, history, TypeOK
<1>5. CASE ReadBill(r)
  <2>1. req' \in [Request -> RequestRecord]
    <3>. HIDE DEF RequestRecord
    <3>1. req \in [Request -> RequestRecord] /\ bill \in BillRecord
      BY DEF TypeOK
    <3>2. [req[r] EXCEPT !.pc = "read", !.bill = bill] \in RequestRecord
      BY <3>1, RequestFields
    <3>. QED
      BY <1>5, <3>1, <3>2 DEF ReadBill
  <2>. QED
    BY <1>5, <2>1, ObserveType DEF ReadBill, rows, locks, history, TypeOK
<1>6. CASE WriteBill(r)
  BY <1>6, ObserveType, MoveType DEF WriteBill, rows, history, TypeOK
<1>7. CASE DuplicateKey(r) \/ Fail(r)
  BY <1>7, ObserveType, EndType, ReleaseType
  DEF DuplicateKey, Fail, Rollback, rows, history, TypeOK
<1>8. CASE Commit(r) \/ CommitBroken(r)
  BY <1>8, CommitCreditType DEF Commit, CommitBroken
<1>9. CASE CommitEvent(r)
  BY <1>9, ObserveType, EndType, ReleaseType DEF CommitEvent, history, TypeOK
<1>10. CASE CommitReject(r)
  BY <1>10, ObserveType, EndType, ReleaseType DEF CommitReject, history, TypeOK
<1>11. CASE CommitRefund(r)
  <2>1. req[r].back \in Nat /\ req[r].bill \in BillRecord /\ req[r].pay \in Payment
    BY DEF TypeOK
  <2>2. refunds' \in [Payment -> Nat] /\ returned' \in Nat
    BY <1>11, <2>1 DEF CommitRefund, TypeOK
  <2>3. bill' \in BillRecord
    <3>1. req[r].bill.refunded + req[r].back \in Nat /\ bill \in BillRecord
      BY <2>1 DEF TypeOK
    <3>. HIDE DEF BillRecord
    <3>. QED
      BY <1>11, <3>1, BillFields DEF CommitRefund
  <2>. QED
    BY <1>11, <2>2, <2>3, ObserveType, EndType, ReleaseType DEF CommitRefund, TypeOK
<1>12. CASE CommitVoid(r)
  BY <1>12, BillFields, ObserveType, EndType, ReleaseType DEF CommitVoid, history, TypeOK
<1>. QED
  BY <1>1, <1>2, <1>3, <1>4, <1>5, <1>6, <1>7, <1>8, <1>9, <1>10, <1>11, <1>12 DEF Step

\* TypeOK of Takings: committed rows, locks and requests stay well typed, for any
\* requests, payments and amounts (payment_service).
THEOREM TakingsTyped == Spec => []TypeOK
<1>1. TypeOK /\ [Next]_vars => TypeOK'
  <2>1. TypeOK /\ UNCHANGED vars => TypeOK'
    BY DEF TypeOK, vars, rows, locks, history
  <2>. QED
    BY <2>1, StepType
<1>. QED
  BY InitType, <1>1, PTL DEF Spec

-----------------------------------------------------------------------------
(* The effect of a statement on the requests.                              *)

LEMMA BeginEffect ==
  ASSUME TypeOK, NEW r \in Request, NEW kind, NEW p, NEW back, NEW pc,
         Begin(r, kind, p, back, pc)
  PROVE  /\ req'[r] = [pc |-> pc, kind |-> kind, pay |-> p, back |-> back, bill |-> bill]
         /\ \A u \in Request : u # r => req'[u] = req[u]
         /\ req[r].pc = "idle"
  BY DEF TypeOK, Begin

LEMMA MoveEffect ==
  ASSUME TypeOK, NEW r \in Request, NEW pc \in Active, Move(r, pc)
  PROVE  /\ req'[r].pc = pc /\ req'[r].kind = req[r].kind /\ req'[r].pay = req[r].pay
         /\ req'[r].back = req[r].back /\ req'[r].bill = req[r].bill
         /\ \A u \in Request : u # r => req'[u] = req[u]
  BY DEF TypeOK, Move

LEMMA ReadBillEffect ==
  ASSUME TypeOK, NEW r \in Request, ReadBill(r)
  PROVE  /\ req'[r].pc = "read" /\ req'[r].kind = req[r].kind /\ req'[r].pay = req[r].pay
         /\ req'[r].back = req[r].back /\ req'[r].bill = bill
         /\ \A u \in Request : u # r => req'[u] = req[u]
         /\ req[r].kind \in {"cash", "report", "webhook", "refund"}
         /\ req[r].pc \in {"begun", "marked"}
  BY DEF TypeOK, ReadBill

LEMMA EndEffect ==
  ASSUME TypeOK, NEW r \in Request, NEW pc \in {"idle", "done"}, End(r, pc)
  PROVE  /\ req'[r].pc = pc /\ req'[r].bill = NewBill
         /\ \A u \in Request : u # r => req'[u] = req[u]
  BY DEF TypeOK, End, Ended

LEMMA ReleaseEffect ==
  ASSUME TypeOK, NEW r \in Request, Release(r)
  PROVE  \A p \in Payment, u \in Request :
           u # r /\ eventLock[p] = u => eventLock'[p] = u
  BY DEF TypeOK, Release

-----------------------------------------------------------------------------
(* Events.                                                                 *)

LEMMA StagesValues ==
  /\ Stages("webhook") = Active
  /\ \A k \in {"cash", "report"} : Stages(k) = {"begun", "marked", "read", "written"}
  /\ Stages("reject") = {"begun", "marked"}
  /\ Stages("refund") = {"begun", "read", "written"}
  /\ Stages("void") = {"read", "written"}
  BY DEF Stages

\* Each stage leads to one that the kind has.
LEMMA StagesFollow ==
  ASSUME NEW k \in Kind
  PROVE  /\ "received" \in Stages(k) => "recorded" \in Stages(k)
         /\ "recorded" \in Stages(k) => "begun" \in Stages(k)
         /\ "read" \in Stages(k) => "written" \in Stages(k)
         /\ k \in Crediting \cup {"reject"} => "marked" \in Stages(k)
         /\ k \in Crediting \cup {"refund"} => "read" \in Stages(k)
<1>1. CASE k = "webhook"
  BY <1>1, StagesValues
<1>2. CASE k \in {"cash", "report"}
  BY <1>2, StagesValues
<1>3. CASE k \in {"reject", "refund", "void"}
  BY <1>3, StagesValues
<1>. QED
  BY <1>1, <1>2, <1>3

LEMMA EarlyIsWebhook ==
  ASSUME NEW k \in Kind, "received" \in Stages(k) \/ "recorded" \in Stages(k)
  PROVE  k = "webhook"
<1>1. CASE k \in {"cash", "report"}
  BY <1>1, StagesValues
<1>2. CASE k \in {"reject", "refund", "void"}
  BY <1>2, StagesValues
<1>. QED
  BY <1>1, <1>2

LEMMA StagesMoved ==
  ASSUME StagesOK, NEW r \in Request, req'[r].kind = req[r].kind,
         req'[r].pc \in Stages(req[r].kind), \A u \in Request : u # r => req'[u] = req[u]
  PROVE  StagesOK'
  BY DEF StagesOK, Running

LEMMA BeginBase ==
  ASSUME BaseInv, NEW r \in Request, NEW kind \in Kind, NEW p \in Payment, NEW back \in Nat,
         NEW pc \in Stages(kind), kind = "webhook" => pc = "received",
         Begin(r, kind, p, back, pc)
  PROVE  (StagesOK /\ EventHeld /\ AbsentUnapplied /\ EventAppliesOnce)'
<1> USE DEF BaseInv
<1>1. StagesOK'
  <2>. HIDE DEF BaseInv
  <2>a. TypeOK
    BY DEF BaseInv
  <2>b. req'[r] = [pc |-> pc, kind |-> kind, pay |-> p, back |-> back, bill |-> bill]
    BY <2>a, BeginEffect
  <2>1. req'[r].pc = pc /\ req'[r].kind = kind
    BY <2>b
  <2>2. \A u \in Request : u # r => req'[u] = req[u]
    BY <2>a, BeginEffect
  <2>. QED
    BY <2>1, <2>2 DEF BaseInv, StagesOK, Running
<1>2. EventHeld'
  BY BeginEffect DEF EventHeld, Running, Begin, rows, locks
<1>3. (AbsentUnapplied /\ EventAppliesOnce)'
  BY DEF Begin, rows, history, AbsentUnapplied, EventAppliesOnce
<1>. QED
  BY <1>1, <1>2, <1>3

LEMMA StepBase ==
  ASSUME BaseInv, NEW r \in Request,
         BeginAny(r) \/ Step(r) \/ CommitBroken(r) \/ Fail(r)
  PROVE  (StagesOK /\ EventHeld /\ AbsentUnapplied /\ EventAppliesOnce)'
<1> USE DEF BaseInv
<1>a. req[r].pay \in Payment /\ req[r].kind \in Kind
  BY DEF TypeOK
<1>1. CASE BeginAny(r)
  <2>1. CASE BeginVoid(r)
    BY <2>1, <1>a, BeginBase DEF BeginVoid, Stages
  <2>2. ASSUME NEW p \in Payment, BeginCash(r, p)
        PROVE  (StagesOK /\ EventHeld /\ AbsentUnapplied /\ EventAppliesOnce)'
    BY <2>2, BeginBase DEF BeginCash, Stages
  <2>3. ASSUME NEW p \in Payment, NEW kind \in {"report", "reject"}, BeginReport(r, p, kind)
        PROVE  (StagesOK /\ EventHeld /\ AbsentUnapplied /\ EventAppliesOnce)'
    BY <2>3, BeginBase DEF BeginReport, Stages
  <2>4. ASSUME NEW p \in Payment, BeginWebhook(r, p)
        PROVE  (StagesOK /\ EventHeld /\ AbsentUnapplied /\ EventAppliesOnce)'
    BY <2>4, BeginBase DEF BeginWebhook, Stages
  <2>5. ASSUME NEW p \in Payment, NEW back \in 1 .. Amount[p], BeginRefund(r, p, back)
        PROVE  (StagesOK /\ EventHeld /\ AbsentUnapplied /\ EventAppliesOnce)'
    <3>1. back \in Nat
      OBVIOUS
    <3>. QED
      BY <2>5, <3>1, BeginBase DEF BeginRefund, Stages
  <2>. QED
    BY <1>1, <2>1, <2>2, <2>3, <2>4, <2>5 DEF BeginAny
<1>2. CASE RecordEvent(r)
  <2>1. StagesOK'
    <3>1. Move(r, "recorded") /\ "received" \in Stages(req[r].kind)
      BY <1>2 DEF RecordEvent, StagesOK, Running
    <3>2. "recorded" \in Stages(req[r].kind)
      BY <1>a, <3>1, StagesFollow
    <3>. QED
      BY <3>1, <3>2, MoveEffect, StagesMoved
  <2>2. EventHeld'
    BY <1>2, <1>a, MoveEffect DEF RecordEvent, InsertUnique, EventHeld, Running, rows, TypeOK
  <2>. QED
    BY <1>2, <2>1, <2>2 DEF RecordEvent, rows, history, AbsentUnapplied, EventAppliesOnce
<1>3. CASE ReadPayment(r) \/ MarkPayment(r) \/ WriteBill(r)
  <2>1. StagesOK'
    <3>1. PICK pc \in {"begun", "marked", "written"} :
            Move(r, pc) /\ pc \in Stages(req[r].kind)
      <4>1. CASE ReadPayment(r)
        BY <4>1, <1>a, StagesFollow DEF ReadPayment, StagesOK, Running
      <4>2. CASE MarkPayment(r)
        BY <4>2, <1>a, StagesFollow DEF MarkPayment
      <4>3. CASE WriteBill(r)
        BY <4>3, <1>a, StagesFollow DEF WriteBill, StagesOK, Running
      <4>. QED
        BY <1>3, <4>1, <4>2, <4>3
    <3>. QED
      BY <3>1, MoveEffect, StagesMoved
  <2>2. EventHeld'
    <3>1. PICK pc \in {"begun", "marked", "written"} : Move(r, pc)
      BY <1>3 DEF ReadPayment, MarkPayment, WriteBill
    <3>2. Running(r) /\ req[r].pc # "received"
      BY <1>3 DEF ReadPayment, MarkPayment, WriteBill, Running
    <3>3. event' = event /\ eventLock' = eventLock
      BY <1>3 DEF ReadPayment, MarkPayment, WriteBill, rows, locks
    <3>. QED
      BY <3>1, <3>2, <3>3, MoveEffect DEF EventHeld, Running
  <2>. QED
    BY <1>3, <2>1, <2>2
    DEF ReadPayment, MarkPayment, WriteBill, rows, history, AbsentUnapplied, EventAppliesOnce
<1>4. CASE ReadBill(r)
  <2>1. StagesOK'
    <3>1. req[r].kind \in Crediting \cup {"refund"}
      BY <1>4, ReadBillEffect
    <3>2. "read" \in Stages(req[r].kind)
      BY <1>a, <3>1, StagesFollow
    <3>. QED
      BY <1>4, <3>2, ReadBillEffect, StagesMoved
  <2>2. EventHeld'
    <3>1. eventLock' = eventLock /\ event' = event
      BY <1>4 DEF ReadBill, rows, locks
    <3>2. Running(r) /\ req[r].pc # "received"
      BY <1>4, ReadBillEffect DEF Running
    <3>. QED
      BY <1>4, <3>1, <3>2, ReadBillEffect DEF EventHeld, Running
  <2>. QED
    BY <1>4, <2>1, <2>2 DEF ReadBill, rows, history, AbsentUnapplied, EventAppliesOnce
<1>5. CASE DuplicateKey(r) \/ Fail(r) \/ CommitReject(r) \/ CommitRefund(r) \/ CommitVoid(r)
  <2> USE DEF DuplicateKey, Fail, Rollback, CommitReject, CommitRefund, CommitVoid
  <2>1. StagesOK'
    BY <1>5, EndEffect DEF StagesOK, Running
  <2>2. EventHeld'
    <3>1. /\ event' = event /\ Release(r)
          /\ ~Running(r)' /\ \A u \in Request : u # r => req'[u] = req[u]
      BY <1>5, EndEffect DEF rows, Running
    <3>2. \A u \in Request : req[u].pay \in Payment
      BY DEF TypeOK
    <3>. QED
      BY <3>1, <3>2, ReleaseEffect DEF EventHeld, Running
  <2>. QED
    BY <1>5, <2>1, <2>2 DEF rows, history, AbsentUnapplied, EventAppliesOnce
<1>6. ASSUME NEW status \in {"PROCESSED", "FAILED"}, CommitCredit(r, status)
      PROVE  (StagesOK /\ EventHeld /\ AbsentUnapplied /\ EventAppliesOnce)'
  <2>1. StagesOK'
    BY <1>6, EndEffect DEF CommitCredit, StagesOK, Running
  <2>2. req[r].kind = "webhook" => event[req[r].pay] = "absent" /\ eventLock[req[r].pay] = r
    BY <1>6 DEF CommitCredit, EventHeld, Running
  <2>3. EventHeld'
    <3>1. /\ Release(r) /\ ~Running(r)'
          /\ \A u \in Request : u # r => req'[u] = req[u]
      BY <1>6, EndEffect DEF CommitCredit, Running
    <3>2. \A u \in Request : req[u].pay \in Payment
      BY DEF TypeOK
    <3>3. \A p \in Payment : eventLock[p] # r => event'[p] = event[p]
      BY <1>6, <2>2 DEF CommitCredit, TypeOK
    <3>. QED
      BY <3>1, <3>2, <3>3, ReleaseEffect DEF EventHeld, Running
  <2>4. AbsentUnapplied' /\ EventAppliesOnce'
    <3>1. CASE req[r].kind = "webhook"
      BY <1>6, <2>2, <3>1, <1>a DEF CommitCredit, AbsentUnapplied, EventAppliesOnce, TypeOK
    <3>2. CASE req[r].kind # "webhook"
      BY <1>6, <3>2, <1>a DEF CommitCredit, AbsentUnapplied, EventAppliesOnce, TypeOK
    <3>. QED
      BY <3>1, <3>2
  <2>. QED
    BY <2>1, <2>3, <2>4
<1>7. CASE CommitEvent(r)
  <2>1. req[r].kind = "webhook"
    BY <1>7, <1>a DEF CommitEvent, StagesOK, Stages, Running
  <2>2. eventLock[req[r].pay] = r
    BY <1>7, <2>1 DEF CommitEvent, EventHeld, Running
  <2>3. StagesOK'
    BY <1>7, EndEffect DEF CommitEvent, StagesOK, Running
  <2>4. EventHeld'
    BY <1>7, <2>2, EndEffect, ReleaseEffect DEF CommitEvent, EventHeld, Running, TypeOK
  <2>. QED
    BY <1>7, <2>3, <2>4, <1>a
    DEF CommitEvent, history, AbsentUnapplied, EventAppliesOnce, TypeOK
<1>8. CASE Commit(r) \/ CommitBroken(r)
  BY <1>6, <1>8 DEF Commit, CommitBroken
<1>. QED
  BY <1>1, <1>2, <1>3, <1>4, <1>5, <1>7, <1>8 DEF Step

LEMMA InitBase == Init => BaseInv
<1> SUFFICES ASSUME Init PROVE BaseInv
  OBVIOUS
<1>1. \A r \in Request : ~Running(r)
  BY DEF Init, Ended, Running
<1>2. StagesOK /\ RacesNoted /\ EventHeld
  BY <1>1 DEF StagesOK, RacesNoted, EventHeld, PaymentRaces, BillRace, Overlap
<1>3. AbsentUnapplied /\ EventAppliesOnce
  BY DEF Init, AbsentUnapplied, EventAppliesOnce
<1>. QED
  BY <1>2, <1>3, InitType DEF BaseInv

LEMMA NextBase == BaseInv /\ [Next]_vars => BaseInv'
<1> SUFFICES ASSUME BaseInv, [Next]_vars PROVE BaseInv'
  OBVIOUS
<1>1. CASE Next
  <2>1. TypeOK'
    BY <1>1, StepType DEF BaseInv
  <2>2. RacesNoted'
    BY <1>1 DEF Next, Observe, RacesNoted
  <2>3. (StagesOK /\ EventHeld /\ AbsentUnapplied /\ EventAppliesOnce)'
    BY <1>1, StepBase DEF Next
  <2>. QED
    BY <2>1, <2>2, <2>3 DEF BaseInv
<1>2. CASE UNCHANGED vars
  BY <1>2 DEF vars, rows, locks, history, BaseInv, TypeOK, StagesOK, RacesNoted, EventHeld,
              AbsentUnapplied, EventAppliesOnce, Running, PaymentRaces, BillRace, Overlap,
              OnPayment, SameEvent
<1>. QED
  BY <1>1, <1>2

\* EventAppliesOnce of Takings: however many handlers receive an event, and
\* whatever fails, it credits its payment at most once (handle_razorpay_webhook).
THEOREM EventsApplyOnce == Spec => []EventAppliesOnce
<1>1. BaseInv => EventAppliesOnce
  BY DEF BaseInv
<1>. QED
  BY InitBase, NextBase, <1>1, PTL DEF Spec

-----------------------------------------------------------------------------
(* The bill.                                                               *)

\* Without races, one request at a time is past its reading of the bill.
LEMMA OneBillWriter ==
  ASSUME BaseInv, ~racedBill, NEW r \in Request, NEW u \in Request,
         req[r].pc \in {"read", "written"}, req[u].pc \in {"read", "written"}
  PROVE  r = u
<1> SUFFICES ASSUME r # u PROVE FALSE
  OBVIOUS
<1> USE DEF BaseInv
<1>1. Running(r) /\ Running(u)
  BY DEF Running
<1>2. req[r].kind # "reject" /\ req[u].kind # "reject"
  BY <1>1, StagesValues DEF StagesOK
<1>3. ~SameEvent(r, u)
  BY <1>1 DEF SameEvent, EventHeld
<1>4. BillRace
  BY <1>1, <1>2, <1>3 DEF BillRace, Overlap
<1>. QED
  BY <1>4 DEF RacesNoted

LEMMA CreditedFields ==
  ASSUME TypeOK, NEW r \in Request
  PROVE  /\ Credited(r).paid = req[r].bill.paid + Amount[req[r].pay]
         /\ Credited(r).refunded = bill.refunded
         /\ Credited(r).status =
              LET new == StatusAfter(req[r].bill.status, req[r].bill.paid + Amount[req[r].pay])
              IN  IF new = req[r].bill.status THEN bill.status ELSE new
<1>1. bill \in BillRecord
  BY DEF TypeOK
<1>. QED
  BY <1>1 DEF Credited, Written

\* A statement that leaves the bill alone.
LEMMA BillKept ==
  ASSUME BaseInv, BillInv, Observe, bill' = bill, applied' = applied, returned' = returned,
         NEW r \in Request, \A u \in Request : u # r => req'[u] = req[u],
         \/ req'[r].bill = bill
         \/ req'[r].bill = req[r].bill /\ (req'[r].pc = "written" => req[r].pc = "read")
            /\ req'[r].pc # "read"
         \/ req'[r].bill = NewBill /\ req'[r].pc \in {"idle", "done"}
  PROVE  BillInv'
<1> USE DEF BaseInv, BillInv
<1>1. applied \in Nat /\ returned \in Nat
  BY DEF TypeOK
<1>2. ~racedBill' => ~racedBill
  BY DEF Observe
<1>3. SeenBacked'
  BY <1>1 DEF SeenBacked, PaidIsBacked
<1>4. SeenBill'
  BY <1>2 DEF SeenBill
<1>5. PaidIsBacked'
  BY <1>2 DEF PaidIsBacked
<1>. QED
  BY <1>3, <1>4, <1>5

\* A statement that commits a change of the bill.
LEMMA BillWritten ==
  ASSUME BaseInv, BillInv, Observe, NEW r \in Request, req[r].pc = "written",
         \A u \in Request : u # r => req'[u] = req[u],
         req'[r].bill = NewBill, req'[r].pc = "done",
         NEW m \in Nat, NEW n \in Nat, applied' = applied + m, returned' = returned + n,
         \/ m = 0 /\ bill'.paid = bill.paid
         \/ bill'.paid = req[r].bill.paid + m,
         \/ n = 0 /\ bill'.refunded = bill.refunded
         \/ bill'.refunded = req[r].bill.refunded + n
  PROVE  BillInv'
<1> USE DEF BaseInv, BillInv
<1>1. /\ applied \in Nat /\ returned \in Nat
      /\ bill.paid \in Nat /\ bill.refunded \in Nat
      /\ \A u \in Request : req[u].bill.paid \in Nat /\ req[u].bill.refunded \in Nat
  BY DEF TypeOK
<1>2. ~racedBill' => ~racedBill
  BY DEF Observe
<1>3. SeenBacked'
  BY <1>1 DEF SeenBacked
<1>4. ~racedBill => \A u \in Request : req'[u].pc \notin {"read", "written"}
  BY OneBillWriter
<1>5. SeenBill'
  BY <1>2, <1>4 DEF SeenBill
<1>6. ~racedBill => req[r].bill = bill
  BY DEF SeenBill
<1>7. PaidIsBacked'
  BY <1>1, <1>2, <1>6 DEF SeenBacked, PaidIsBacked
<1>. QED
  BY <1>3, <1>5, <1>7

LEMMA CommitCreditBill ==
  ASSUME BaseInv, BillInv, Observe, NEW r \in Request, NEW status, CommitCredit(r, status)
  PROVE  BillInv' /\ (~racedBill' /\ bill.status = "CANCELLED" => bill'.status = "CANCELLED")
<1> DEFINE m == Amount[req[r].pay]
<1>1. TypeOK /\ req[r].pc = "written" /\ End(r, "done") /\ bill' = Credited(r)
  BY DEF CommitCredit, BaseInv
<1>2. m \in Nat \ {0}
  BY <1>1 DEF TypeOK
<1>3. applied' = applied + m /\ returned' = returned + 0
  BY <1>1 DEF CommitCredit, TypeOK
<1>4. bill'.paid = req[r].bill.paid + m /\ bill'.refunded = bill.refunded
  BY <1>1, CreditedFields
<1>5. BillInv'
  <2>1. /\ req'[r].bill = NewBill /\ req'[r].pc = "done"
        /\ \A u \in Request : u # r => req'[u] = req[u]
    BY <1>1, EndEffect
  <2>. HIDE DEF m
  <2>. QED
    BY <1>1, <1>2, <1>3, <1>4, <2>1, BillWritten
<1>6. ASSUME ~racedBill', bill.status = "CANCELLED" PROVE bill'.status = "CANCELLED"
  <2>1. req[r].bill = bill
    BY <1>1, <1>6 DEF Observe, BillInv, SeenBill
  <2>. QED
    BY <1>1, <1>6, <2>1, CreditedFields DEF StatusAfter
<1>. QED
  BY <1>5, <1>6

LEMMA StepBill ==
  ASSUME BaseInv, BillInv, NEW r \in Request,
         BeginAny(r) \/ Step(r) \/ CommitBroken(r) \/ Fail(r), Observe
  PROVE  BillInv' /\ (~racedBill' /\ bill.status = "CANCELLED" => bill'.status = "CANCELLED")
<1>0. TypeOK
  BY DEF BaseInv
<1>1. CASE BeginAny(r)
  <2>1. PICK kind, p, back, pc : Begin(r, kind, p, back, pc)
    BY <1>1 DEF BeginAny, BeginVoid, BeginCash, BeginReport, BeginWebhook, BeginRefund
  <2>2. bill' = bill /\ applied' = applied /\ returned' = returned
    BY <2>1 DEF Begin, rows, history
  <2>3. req'[r] = [pc |-> pc, kind |-> kind, pay |-> p, back |-> back, bill |-> bill]
    BY <1>0, <2>1, BeginEffect
  <2>4. \A u \in Request : u # r => req'[u] = req[u]
    BY <1>0, <2>1, BeginEffect
  <2>5. req'[r].bill = bill
    BY <2>3
  <2>. QED
    BY <2>2, <2>4, <2>5, BillKept
<1>2. CASE RecordEvent(r) \/ ReadPayment(r) \/ MarkPayment(r) \/ WriteBill(r)
  <2>1. PICK pc \in {"recorded", "begun", "marked", "written"} :
          Move(r, pc) /\ (pc = "written" => req[r].pc = "read")
    BY <1>2 DEF RecordEvent, ReadPayment, MarkPayment, WriteBill
  <2>2. bill' = bill /\ applied' = applied /\ returned' = returned
    BY <1>2 DEF RecordEvent, ReadPayment, MarkPayment, WriteBill, rows, history
  <2>3. /\ req'[r].pc = pc /\ req'[r].bill = req[r].bill
        /\ \A u \in Request : u # r => req'[u] = req[u]
    BY <1>0, <2>1, MoveEffect
  <2>. QED
    BY <2>1, <2>2, <2>3, BillKept
<1>3. CASE ReadBill(r)
  <2>1. bill' = bill /\ applied' = applied /\ returned' = returned
    BY <1>3 DEF ReadBill, rows, history
  <2>. QED
    BY <1>0, <1>3, <2>1, ReadBillEffect, BillKept
<1>4. CASE DuplicateKey(r) \/ Fail(r) \/ CommitReject(r) \/ CommitEvent(r)
  <2> USE DEF DuplicateKey, Fail, Rollback, CommitReject, CommitEvent
  <2>1. bill' = bill /\ applied' = applied /\ returned' = returned
    BY <1>4 DEF rows, history
  <2>2. PICK pc \in {"idle", "done"} : End(r, pc)
    BY <1>4
  <2>3. /\ req'[r].pc = pc /\ req'[r].bill = NewBill
        /\ \A u \in Request : u # r => req'[u] = req[u]
    BY <1>0, <2>2, EndEffect
  <2>. QED
    BY <2>1, <2>3, BillKept
<1>5. CASE Commit(r) \/ CommitBroken(r)
  BY <1>5, CommitCreditBill DEF Commit, CommitBroken
<1>6. CASE CommitRefund(r)
  <2>1. /\ req[r].pc = "written" /\ End(r, "done")
        /\ applied' = applied + 0 /\ returned' = returned + req[r].back
    BY <1>0, <1>6 DEF CommitRefund, TypeOK
  <2>2. bill \in BillRecord /\ req[r].back \in Nat
        /\ bill.refunded \in Nat /\ req[r].bill.refunded \in Nat
    BY <1>0 DEF TypeOK
  <2>3. /\ bill'.refunded = req[r].bill.refunded + req[r].back
        /\ bill'.paid = bill.paid /\ bill'.status = bill.status
    BY <1>6, <2>2 DEF CommitRefund
  <2>4. /\ req'[r].bill = NewBill /\ req'[r].pc = "done"
        /\ \A u \in Request : u # r => req'[u] = req[u]
    BY <1>0, <2>1, EndEffect
  <2>. QED
    BY <2>1, <2>2, <2>3, <2>4, BillWritten
<1>7. CASE CommitVoid(r)
  <2>1. /\ req[r].pc = "written" /\ End(r, "done")
        /\ applied' = applied + 0 /\ returned' = returned + 0
    BY <1>0, <1>7 DEF CommitVoid, history, TypeOK
  <2>2. bill \in BillRecord
    BY <1>0 DEF TypeOK
  <2>3. bill'.refunded = bill.refunded /\ bill'.paid = bill.paid /\ bill'.status = "CANCELLED"
    BY <1>7, <2>2 DEF CommitVoid
  <2>4. /\ req'[r].bill = NewBill /\ req'[r].pc = "done"
        /\ \A u \in Request : u # r => req'[u] = req[u]
    BY <1>0, <2>1, EndEffect
  <2>. QED
    BY <2>1, <2>3, <2>4, BillWritten
<1>. QED
  BY <1>1, <1>2, <1>3, <1>4, <1>5, <1>6, <1>7 DEF Step

LEMMA InitBill == Init => BillInv
  BY DEF Init, Ended, BillInv, SeenBacked, SeenBill, PaidIsBacked

LEMMA NextBill ==
  BaseInv /\ BillInv /\ [Next]_vars =>
    BillInv' /\ (~racedBill' /\ bill.status = "CANCELLED" => bill'.status = "CANCELLED")
<1> SUFFICES ASSUME BaseInv, BillInv, [Next]_vars
             PROVE  BillInv' /\ (~racedBill' /\ bill.status = "CANCELLED"
                                   => bill'.status = "CANCELLED")
  OBVIOUS
<1>1. CASE Next
  BY <1>1, StepBill DEF Next
<1>2. CASE UNCHANGED vars
  BY <1>2 DEF vars, rows, locks, history, BillInv, SeenBacked, SeenBill, PaidIsBacked
<1>. QED
  BY <1>1, <1>2

\* PaidIsBacked of Takings: the bill never shows more than was credited or handed
\* back, and without races all of it (record_payment_applied, refund_payment).
THEOREM BillBacked == Spec => []PaidIsBacked
<1>1. BillInv => PaidIsBacked
  BY DEF BillInv
<1>. QED
  BY InitBase, NextBase, InitBill, NextBill, <1>1, PTL DEF Spec

\* VoidIsFinal of Takings: without races, no payment or refund brings a voided
\* bill back (void_bill, _recompute_totals).
THEOREM VoidStays == Spec => VoidIsFinal
<1>1. BaseInv /\ BillInv /\ [Next]_vars =>
        [bill.status = "CANCELLED" /\ ~racedBill' => bill'.status = "CANCELLED"]_vars
  BY NextBill
<1>. QED
  BY InitBase, NextBase, InitBill, NextBill, <1>1, PTL DEF Spec, VoidIsFinal

-----------------------------------------------------------------------------
(* The payments.                                                           *)

\* Two requests that work on a payment at a time, and are not two deliveries of
\* its event past the insertion, are a race.
LEMMA OnePaymentUser ==
  ASSUME BaseInv, NEW r \in Request, NEW u \in Request, r # u,
         Running(r), Running(u), req[r].pay = req[u].pay,
         req[r].kind # "void", req[u].kind # "void",
         req[r].pc # "received", req[u].pc # "received"
  PROVE  req[r].pay \in racedPayment
<1> USE DEF BaseInv
<1>1. ~SameEvent(r, u)
  BY DEF SameEvent, EventHeld
<1>2. req[r].pay \in Payment
  BY DEF TypeOK
<1>3. req[r].pay \in PaymentRaces
  BY <1>1, <1>2 DEF PaymentRaces, Overlap, OnPayment
<1>. QED
  BY <1>3 DEF RacesNoted

LEMMA TimesNat == TypeOK => \A p \in Payment : Times(p) \in Nat
  BY DEF TypeOK, Times

\* A request that changes nothing of the payments, and claims nothing new.
LEMMA PaymentsKept ==
  ASSUME BaseInv, PaymentInv, Observe,
         payment' = payment, refunds' = refunds, credits' = credits,
         NEW r \in Request, \A u \in Request : u # r => req'[u] = req[u],
         \/ ~Running(r)'
         \/ /\ Running(r)
            /\ req'[r].kind = req[r].kind /\ req'[r].pay = req[r].pay /\ req'[r].back = req[r].back
            /\ \/ req'[r].pc = "recorded" /\ req[r].kind = "webhook"
               \/ req[r].pc \notin {"received", "recorded"}
               \/ payment[req[r].pay] # "SUCCESS" /\ req[r].kind # "refund"
         \/ /\ req'[r].kind = "refund"
            /\ payment[req'[r].pay] = "SUCCESS"
            /\ req'[r].back + refunds[req'[r].pay] <= Amount[req'[r].pay]
         \/ req'[r].kind = "webhook" /\ req'[r].pc = "received"
         \/ req'[r].kind \notin {"refund", "void"} /\ payment[req'[r].pay] # "SUCCESS"
         \/ req'[r].kind = "void"
  PROVE  PaymentInv'
<1> USE DEF PaymentInv
<1>1. racedPayment \subseteq racedPayment'
  BY DEF Observe
<1>2. \A p : Times(p)' = Times(p)
  BY DEF Times
<1>3. SeenPayment'
  BY <1>1 DEF SeenPayment, Running
<1>4. (RefundedOnlyTaken /\ SuccessIsApplied /\ RefundsWithinPayment)'
  BY <1>1, <1>2 DEF RefundedOnlyTaken, SuccessIsApplied, RefundsWithinPayment
<1>. QED
  BY <1>3, <1>4

\* What SuccessIsApplied, RefundedOnlyTaken and RefundsWithinPayment say of p.
PaymentOK(p) ==
  /\ payment[p] = "SUCCESS" => Times(p) >= 1
  /\ p \notin racedPayment =>
       /\ Times(p) = (IF payment[p] = "SUCCESS" THEN 1 ELSE 0)
       /\ Times(p) = 0 => refunds[p] = 0
       /\ refunds[p] <= Times(p) * Amount[p]

\* A request that commits a change of its payment.
LEMMA PaymentChanged ==
  ASSUME BaseInv, PaymentInv, Observe, NEW r \in Request, Running(r), ~Running(r)',
         NEW p \in Payment, req[r].pay = p, req[r].kind # "void", req[r].pc # "received",
         \A u \in Request : u # r => req'[u] = req[u],
         \A q \in Payment : q # p =>
           payment'[q] = payment[q] /\ refunds'[q] = refunds[q] /\ credits'[q] = credits[q],
         PaymentOK(p)'
  PROVE  PaymentInv'
<1> USE DEF PaymentInv
<1>1. racedPayment \subseteq racedPayment'
  BY DEF Observe
<1>2. \A u \in Request : req[u].pay \in Payment /\ req[u].kind \in Kind
  BY DEF BaseInv, TypeOK
<1>3. SeenPayment'
  <2> SUFFICES ASSUME NEW u \in Request, u # r, Running(u), req[u].kind # "void",
                      req[u].pay \notin racedPayment', req'[u] = req[u]
               PROVE  /\ req[u].kind = "refund" =>
                           /\ payment'[req[u].pay] = "SUCCESS"
                           /\ req[u].back + refunds'[req[u].pay] <= Amount[req[u].pay]
                      /\ req[u].kind # "refund" /\ req[u].pc \notin {"received", "recorded"} =>
                           payment'[req[u].pay] # "SUCCESS"
    BY DEF SeenPayment, Running
  <2>1. CASE req[u].pay = p
    <3>1. req[u].pc = "received"
      BY <1>1, <2>1, OnePaymentUser
    <3>2. req[u].kind # "refund"
      BY <1>2, <3>1, StagesValues DEF BaseInv, StagesOK
    <3>. QED
      BY <3>1, <3>2
  <2>2. CASE req[u].pay # p
    BY <1>1, <1>2, <2>2 DEF SeenPayment
  <2>. QED
    BY <2>1, <2>2
<1>4. \A q \in Payment : PaymentOK(q)'
  <2> SUFFICES ASSUME NEW q \in Payment, q # p PROVE PaymentOK(q)'
    OBVIOUS
  <2>1. Times(q)' = Times(q)
    BY DEF Times
  <2>2. PaymentOK(q)
    BY DEF PaymentOK, SuccessIsApplied, RefundedOnlyTaken, RefundsWithinPayment
  <2>. QED
    BY <1>1, <2>1, <2>2 DEF PaymentOK
<1>5. (SuccessIsApplied /\ RefundedOnlyTaken /\ RefundsWithinPayment)'
  BY <1>4 DEF PaymentOK, SuccessIsApplied, RefundedOnlyTaken, RefundsWithinPayment
<1>. QED
  BY <1>3, <1>5

LEMMA CommitCreditPayment ==
  ASSUME BaseInv, PaymentInv, Observe, NEW r \in Request, NEW status, CommitCredit(r, status)
  PROVE  PaymentInv'
<1>0. PICK p \in Payment : p = req[r].pay
  BY DEF BaseInv, TypeOK
<1>1. /\ TypeOK /\ End(r, "done") /\ Running(r)
      /\ req[r].pc = "written" /\ req[r].kind \in Crediting
  BY DEF CommitCredit, Running, BaseInv
<1>2. /\ ~Running(r)'
      /\ \A u \in Request : u # r => req'[u] = req[u]
  BY <1>1, EndEffect DEF Running
<1>3. Amount[p] \in Nat \ {0}
  OBVIOUS
<1>4. /\ payment' = [payment EXCEPT ![p] = "SUCCESS"] /\ refunds' = refunds
      /\ credits' = [credits EXCEPT ![p][req[r].kind] = @ + 1]
  BY <1>0 DEF CommitCredit
<1>5. /\ payment'[p] = "SUCCESS" /\ Times(p)' = Times(p) + 1
      /\ \A q \in Payment : q # p =>
           payment'[q] = payment[q] /\ refunds'[q] = refunds[q] /\ credits'[q] = credits[q]
  <2>1. /\ payment'[p] = "SUCCESS"
        /\ \A q \in Payment : q # p =>
             payment'[q] = payment[q] /\ refunds'[q] = refunds[q] /\ credits'[q] = credits[q]
    BY <1>1, <1>4 DEF TypeOK
  <2>2. \A k \in Crediting :
          /\ credits[p][k] \in Nat
          /\ credits'[p][k] = IF k = req[r].kind THEN credits[p][k] + 1 ELSE credits[p][k]
    BY <1>1, <1>4 DEF TypeOK
  <2>3. Times(p)' = Times(p) + 1
    BY <1>1, <2>2 DEF Times
  <2>. QED
    BY <2>1, <2>3
<1>6. Times(p) \in Nat /\ racedPayment \subseteq racedPayment'
  BY <1>1, <1>3, TimesNat DEF Observe
<1>7. p \notin racedPayment => payment[p] # "SUCCESS"
  BY <1>0, <1>1 DEF PaymentInv, SeenPayment
<1>8. p \notin racedPayment => Times(p) = 0 /\ refunds[p] = 0
  BY <1>3, <1>7 DEF PaymentInv, SuccessIsApplied, RefundedOnlyTaken
<1>9. p \notin racedPayment => Times(p)' * Amount[p] = Amount[p]
  <2>1. ASSUME p \notin racedPayment PROVE Times(p)' * Amount[p] = Amount[p]
    <3>1. Times(p)' = 1
      BY <1>5, <1>8, <2>1
    <3>. QED
      BY <1>3, <3>1
  <2>. QED
    BY <2>1
<1>10. PaymentOK(p)'
  BY <1>3, <1>4, <1>5, <1>6, <1>8, <1>9 DEF PaymentOK
<1>. QED
  BY <1>1, <1>2, <1>5, <1>10, <1>0, PaymentChanged

LEMMA CommitRejectPayment ==
  ASSUME BaseInv, PaymentInv, Observe, NEW r \in Request, CommitReject(r)
  PROVE  PaymentInv'
<1>0. PICK p \in Payment : p = req[r].pay
  BY DEF BaseInv, TypeOK
<1>1. /\ TypeOK /\ End(r, "done") /\ Running(r)
      /\ req[r].pc = "marked" /\ req[r].kind = "reject"
  BY DEF CommitReject, Running, BaseInv
<1>2. /\ ~Running(r)'
      /\ \A u \in Request : u # r => req'[u] = req[u]
  BY <1>1, EndEffect DEF Running
<1>4. /\ payment' = [payment EXCEPT ![p] = "FAILED"] /\ refunds' = refunds /\ credits' = credits
  BY <1>0 DEF CommitReject, history
<1>5. racedPayment \subseteq racedPayment' /\ Times(p)' = Times(p)
  BY <1>4 DEF Observe, Times
<1>6. /\ payment'[p] = "FAILED"
      /\ \A q \in Payment : q # p =>
           payment'[q] = payment[q] /\ refunds'[q] = refunds[q] /\ credits'[q] = credits[q]
  BY <1>1, <1>4 DEF TypeOK
<1>7. p \notin racedPayment => payment[p] # "SUCCESS"
  BY <1>0, <1>1 DEF PaymentInv, SeenPayment
<1>8. p \notin racedPayment =>
        Times(p) = 0 /\ refunds[p] = 0 /\ refunds[p] <= Times(p) * Amount[p]
  BY <1>7 DEF PaymentInv, SuccessIsApplied, RefundedOnlyTaken, RefundsWithinPayment
<1>9. PaymentOK(p)'
  BY <1>4, <1>5, <1>6, <1>8 DEF PaymentOK
<1>. QED
  BY <1>1, <1>2, <1>6, <1>9, <1>0, PaymentChanged

LEMMA CommitRefundPayment ==
  ASSUME BaseInv, PaymentInv, Observe, NEW r \in Request, CommitRefund(r)
  PROVE  PaymentInv'
<1>0. PICK p \in Payment, back \in Nat : p = req[r].pay /\ back = req[r].back
  BY DEF BaseInv, TypeOK
<1>1. /\ TypeOK /\ End(r, "done") /\ Running(r)
      /\ req[r].pc = "written" /\ req[r].kind = "refund"
  BY DEF CommitRefund, Running, BaseInv
<1>2. /\ ~Running(r)'
      /\ \A u \in Request : u # r => req'[u] = req[u]
  BY <1>1, EndEffect DEF Running
<1>3. Amount[p] \in Nat
  OBVIOUS
<1>4. /\ refunds' = [refunds EXCEPT ![p] = @ + back] /\ payment' = payment /\ credits' = credits
  BY <1>0 DEF CommitRefund
<1>5. racedPayment \subseteq racedPayment' /\ Times(p)' = Times(p)
  BY <1>4 DEF Observe, Times
<1>6. p \notin racedPayment => payment[p] = "SUCCESS" /\ back + refunds[p] <= Amount[p]
  BY <1>0, <1>1 DEF PaymentInv, SeenPayment
<1>7. /\ refunds'[p] = refunds[p] + back /\ refunds[p] \in Nat
      /\ \A q \in Payment : q # p =>
           payment'[q] = payment[q] /\ refunds'[q] = refunds[q] /\ credits'[q] = credits[q]
  BY <1>1, <1>3, <1>4 DEF TypeOK
<1>8. /\ payment[p] = "SUCCESS" => Times(p) >= 1
      /\ p \notin racedPayment => Times(p) = 1
  BY <1>3, <1>6 DEF PaymentInv, SuccessIsApplied
<1>9. p \notin racedPayment => refunds'[p] <= Times(p) * Amount[p]
  <2>1. ASSUME p \notin racedPayment PROVE refunds'[p] <= Times(p) * Amount[p]
    <3>1. Times(p) * Amount[p] = Amount[p]
      BY <1>3, <1>8, <2>1
    <3>. QED
      BY <1>3, <1>6, <1>7, <2>1, <3>1
  <2>. QED
    BY <2>1
<1>10. PaymentOK(p)'
  BY <1>4, <1>5, <1>6, <1>8, <1>9 DEF PaymentOK
<1>. QED
  BY <1>1, <1>2, <1>7, <1>10, <1>0, PaymentChanged

LEMMA BeginPayment ==
  ASSUME BaseInv, PaymentInv, Observe, NEW r \in Request, NEW kind, NEW p, NEW back, NEW pc,
         Begin(r, kind, p, back, pc),
         \/ kind = "refund" /\ payment[p] = "SUCCESS" /\ back + refunds[p] <= Amount[p]
         \/ kind = "webhook" /\ pc = "received"
         \/ kind \notin {"refund", "void"} /\ payment[p] # "SUCCESS"
         \/ kind = "void"
  PROVE  PaymentInv'
<1>1. payment' = payment /\ refunds' = refunds /\ credits' = credits
  BY DEF Begin, rows, history
<1>2. /\ req'[r] = [pc |-> pc, kind |-> kind, pay |-> p, back |-> back, bill |-> bill]
      /\ \A u \in Request : u # r => req'[u] = req[u]
  BY BeginEffect DEF BaseInv
<1>3. req'[r].pc = pc /\ req'[r].kind = kind /\ req'[r].pay = p /\ req'[r].back = back
  BY <1>2
<1>. QED
  BY <1>1, <1>2, <1>3, PaymentsKept

LEMMA StepPayment ==
  ASSUME BaseInv, PaymentInv, NEW r \in Request,
         BeginAny(r) \/ Step(r) \/ CommitBroken(r) \/ Fail(r), Observe
  PROVE  PaymentInv'
<1>0. TypeOK
  BY DEF BaseInv
<1>1. CASE BeginAny(r)
  <2>1. CASE BeginVoid(r)
    BY <2>1, BeginPayment DEF BeginVoid
  <2>2. ASSUME NEW p \in Payment, NEW back \in 1 .. Amount[p], BeginRefund(r, p, back)
        PROVE  PaymentInv'
    <3>1. refunds[p] \in Nat /\ Amount[p] \in Nat /\ back \in Nat
      BY <1>0 DEF TypeOK
    <3>2. back + refunds[p] <= Amount[p]
      BY <2>2, <3>1 DEF BeginRefund, Remaining
    <3>. QED
      BY <2>2, <3>2, BeginPayment DEF BeginRefund
  <2>3. ASSUME NEW p \in Payment, BeginCash(r, p) \/ BeginWebhook(r, p) PROVE PaymentInv'
    BY <2>3, BeginPayment DEF BeginCash, BeginWebhook
  <2>4. ASSUME NEW p \in Payment, NEW kind \in {"report", "reject"}, BeginReport(r, p, kind)
        PROVE  PaymentInv'
    BY <2>4, BeginPayment DEF BeginReport
  <2>. QED
    BY <1>1, <2>1, <2>2, <2>3, <2>4 DEF BeginAny
<1>2. CASE RecordEvent(r) \/ ReadPayment(r) \/ MarkPayment(r) \/ WriteBill(r)
  <2> USE DEF RecordEvent, ReadPayment, MarkPayment, WriteBill
  <2>1. payment' = payment /\ refunds' = refunds /\ credits' = credits
    BY <1>2 DEF rows, history
  <2>2. PICK pc \in {"recorded", "begun", "marked", "written"} :
          /\ Move(r, pc) /\ Running(r)
          /\ \/ pc = "recorded" /\ req[r].pc = "received"
             \/ req[r].pc = "recorded" /\ payment[req[r].pay] # "SUCCESS"
             \/ req[r].pc \notin {"received", "recorded"}
    BY <1>2 DEF Running
  <2>3. req[r].pc \in {"received", "recorded"} => req[r].kind = "webhook"
    <3>1. req[r].pc \in Stages(req[r].kind) /\ req[r].kind \in Kind
      BY <1>0, <2>2 DEF BaseInv, StagesOK, TypeOK
    <3>. QED
      BY <3>1, EarlyIsWebhook
  <2>4. /\ req'[r].pc = pc /\ req'[r].kind = req[r].kind /\ req'[r].pay = req[r].pay
        /\ req'[r].back = req[r].back
        /\ \A u \in Request : u # r => req'[u] = req[u]
    BY <1>0, <2>2, MoveEffect
  <2>. QED
    BY <2>1, <2>2, <2>3, <2>4, PaymentsKept
<1>3. CASE ReadBill(r)
  <2>1. payment' = payment /\ refunds' = refunds /\ credits' = credits
    BY <1>3 DEF ReadBill, rows, history
  <2>2. Running(r)
    BY <1>0, <1>3, ReadBillEffect DEF Running
  <2>. QED
    BY <1>0, <1>3, <2>1, <2>2, ReadBillEffect, PaymentsKept
<1>4. CASE DuplicateKey(r) \/ Fail(r) \/ CommitEvent(r) \/ CommitVoid(r)
  <2> USE DEF DuplicateKey, Fail, Rollback, CommitEvent, CommitVoid
  <2>1. payment' = payment /\ refunds' = refunds /\ credits' = credits
    BY <1>4 DEF rows, history
  <2>2. PICK pc \in {"idle", "done"} : End(r, pc)
    BY <1>4
  <2>3. ~Running(r)' /\ \A u \in Request : u # r => req'[u] = req[u]
    BY <1>0, <2>2, EndEffect DEF Running
  <2>. QED
    BY <2>1, <2>3, PaymentsKept
<1>5. CASE Commit(r) \/ CommitBroken(r)
  BY <1>5, CommitCreditPayment DEF Commit, CommitBroken
<1>. QED
  BY <1>1, <1>2, <1>3, <1>4, <1>5, CommitRejectPayment, CommitRefundPayment DEF Step

LEMMA InitPayment == Init => PaymentInv
  BY DEF Init, Ended, Running, PaymentInv, SeenPayment, RefundedOnlyTaken, SuccessIsApplied,
         RefundsWithinPayment, Times

LEMMA NextPayment == BaseInv /\ PaymentInv /\ [Next]_vars => PaymentInv'
<1> SUFFICES ASSUME BaseInv, PaymentInv, [Next]_vars PROVE PaymentInv'
  OBVIOUS
<1>1. CASE Next
  BY <1>1, StepPayment DEF Next
<1>2. CASE UNCHANGED vars
  BY <1>2 DEF vars, rows, locks, history, Running, PaymentInv, SeenPayment, RefundedOnlyTaken,
              SuccessIsApplied, RefundsWithinPayment, Times
<1>. QED
  BY <1>1, <1>2

\* SuccessIsApplied of Takings: a SUCCESS payment was credited to its bill,
\* whatever failed half way, and without races exactly once.
THEOREM SuccessApplied == Spec => []SuccessIsApplied
<1>1. PaymentInv => SuccessIsApplied
  BY DEF PaymentInv
<1>. QED
  BY InitBase, NextBase, InitPayment, NextPayment, <1>1, PTL DEF Spec

\* RefundsWithinPayment of Takings: without races, refunds stay within what the
\* payment brought in (refund_payment).
THEOREM RefundsWithin == Spec => []RefundsWithinPayment
<1>1. PaymentInv => RefundsWithinPayment
  BY DEF PaymentInv
<1>. QED
  BY InitBase, NextBase, InitPayment, NextPayment, <1>1, PTL DEF Spec
-----------------------------------------------------------------------------
(* The ledger.  Without races, the end of a request is one of its actions. *)

LEMMA BooksAreFunctions ==
  /\ Entries = [p \in Payment |-> Entries[p]] /\ Entries' = [p \in Payment |-> Entries'[p]]
  /\ Books = [b \in {"bill"} |-> Books[b]] /\ Books' = [b \in {"bill"} |-> Books'[b]]
  BY DEF Entries, Books

LEMMA CreditEntered ==
  ASSUME BaseInv, BillInv, PaymentInv, NEW r \in Request, NEW status, CommitCredit(r, status),
         ~racedBill, racedPayment = {}
  PROVE  \E p \in Payment : Ledger!Take(p, "bill", Entries'[p].amount)
<1>0. PICK p \in Payment, n \in Nat : p = req[r].pay /\ n = Amount[p]
  BY DEF BaseInv, TypeOK
<1>1. /\ TypeOK /\ n \in Nat \ {0}
      /\ bill \in BillRecord /\ bill.paid \in Nat
      /\ req[r].pc = "written" /\ req[r].kind \in Crediting
  BY <1>0 DEF CommitCredit, BaseInv, TypeOK
<1>2. req[r].bill = bill
  BY <1>1 DEF BillInv, SeenBill
<1>3. payment[p] # "SUCCESS" /\ refunds[p] = 0
  <2>1. payment[p] # "SUCCESS"
    BY <1>0, <1>1 DEF PaymentInv, SeenPayment, Running, Active
  <2>. QED
    BY <1>1, <2>1 DEF PaymentInv, SuccessIsApplied, RefundedOnlyTaken
<1>4. payment' = [payment EXCEPT ![p] = "SUCCESS"] /\ refunds' = refunds
  BY <1>0 DEF CommitCredit
<1>5. Entries' = [Entries EXCEPT ![p] = [bill |-> "bill", amount |-> n, back |-> 0]]
  <2>1. Entries'[p] = [bill |-> "bill", amount |-> n, back |-> 0]
    BY <1>0, <1>1, <1>3, <1>4 DEF Entries, TypeOK
  <2>2. \A q \in Payment : q # p => Entries'[q] = Entries[q]
    BY <1>1, <1>4 DEF Entries, TypeOK
  <2>. QED
    BY <2>1, <2>2, BooksAreFunctions
<1>6. Books'["bill"] = [Books["bill"] EXCEPT !.paid = @ + n]
  <2>1. bill' = Credited(r)
    BY DEF CommitCredit
  <2>2. bill'.paid = bill.paid + n /\ bill'.refunded = bill.refunded
    BY <1>0, <1>1, <1>2, <2>1, CreditedFields
  <2>3. bill'.status = "CANCELLED" <=> bill.status = "CANCELLED"
    BY <1>0, <1>1, <1>2, <2>1, CreditedFields DEF StatusAfter
  <2>. QED
    BY <2>2, <2>3 DEF Books
<1>7. Entries[p] = NoEntry
  BY <1>0, <1>3 DEF Entries
<1>8. Books' = [Books EXCEPT !["bill"].paid = @ + n]
  BY <1>6 DEF Books
<1>. QED
  <2>1. Ledger!Take(p, "bill", n)
    BY <1>5, <1>7, <1>8 DEF Ledger!Take
  <2>2. Entries'[p].amount = n
    BY <1>0, <1>1, <1>4 DEF Entries, TypeOK
  <2>. QED
    BY <2>1, <2>2

LEMMA RefundEntered ==
  ASSUME BaseInv, BillInv, PaymentInv, NEW r \in Request, CommitRefund(r),
         ~racedBill, racedPayment = {}
  PROVE  \E p \in Payment : Ledger!GiveBack(p, Entries'[p].back - Entries[p].back)
<1>0. PICK p \in Payment, n \in Nat : p = req[r].pay /\ n = req[r].back
  BY DEF BaseInv, TypeOK
<1>1. /\ TypeOK /\ Amount[p] \in Nat /\ refunds[p] \in Nat
      /\ bill \in BillRecord /\ bill.refunded \in Nat
      /\ req[r].pc = "written" /\ req[r].kind = "refund"
  BY DEF CommitRefund, BaseInv, TypeOK
<1>2. req[r].bill = bill
  BY <1>1 DEF BillInv, SeenBill
<1>3. payment[p] = "SUCCESS" /\ n + refunds[p] <= Amount[p]
  BY <1>0, <1>1 DEF PaymentInv, SeenPayment, Running, Active
<1>4. refunds' = [refunds EXCEPT ![p] = @ + n] /\ payment' = payment
      /\ bill' = [bill EXCEPT !.refunded = bill.refunded + n]
  BY <1>0, <1>2 DEF CommitRefund
<1>5. Entries[p] = [bill |-> "bill", amount |-> Amount[p], back |-> refunds[p]]
  BY <1>3 DEF Entries
<1>6. Entries' = [Entries EXCEPT ![p].back = @ + n]
  <2>1. Entries'[p] = [bill |-> "bill", amount |-> Amount[p], back |-> refunds[p] + n]
    BY <1>1, <1>3, <1>4 DEF Entries, TypeOK
  <2>2. \A q \in Payment : q # p => Entries'[q] = Entries[q]
    BY <1>1, <1>4 DEF Entries, TypeOK
  <2>3. Entries'[p] = [Entries[p] EXCEPT !.back = @ + n]
    BY <1>5, <2>1
  <2>. QED
    BY <2>2, <2>3, BooksAreFunctions
<1>7. Books'["bill"] = [Books["bill"] EXCEPT !.refunded = @ + n]
  BY <1>1, <1>4 DEF Books
<1>8. Books' = [Books EXCEPT !["bill"].refunded = @ + n]
  BY <1>7 DEF Books
<1>9. /\ Entries[p].bill = "bill" /\ Entries[p].back = refunds[p] /\ Entries[p].amount = Amount[p]
      /\ Entries[p] # NoEntry
  BY <1>5 DEF NoEntry
<1>10. Entries[p].back + n <= Entries[p].amount
  BY <1>1, <1>3, <1>9
<1>. QED
  <2>1. Ledger!GiveBack(p, n)
    BY <1>6, <1>8, <1>9, <1>10 DEF Ledger!GiveBack
  <2>2. Entries'[p].back = refunds[p] + n
    BY <1>1, <1>3, <1>4 DEF Entries, TypeOK
  <2>3. Entries'[p].back - Entries[p].back = n
    BY <1>1, <1>9, <2>2
  <2>. QED
    BY <2>1, <2>3

LEMMA VoidEntered ==
  ASSUME BaseInv, NEW r \in Request, CommitVoid(r)
  PROVE  Ledger!Void("bill") \/ UNCHANGED Ledger!vars
<1>1. bill \in BillRecord /\ bill' = [bill EXCEPT !.status = "CANCELLED"]
      /\ payment' = payment /\ refunds' = refunds
  BY DEF BaseInv, TypeOK, CommitVoid
<1>2. Books'["bill"] = [Books["bill"] EXCEPT !.void = TRUE]
  <2>1. bill'.paid = bill.paid /\ bill'.refunded = bill.refunded /\ bill'.status = "CANCELLED"
    BY <1>1 DEF BillRecord
  <2>2. (bill'.status = "CANCELLED") = TRUE
    BY <2>1
  <2>3. Books'["bill"] = [paid |-> bill.paid, refunded |-> bill.refunded, void |-> TRUE]
    BY <2>1, <2>2 DEF Books
  <2>4. ASSUME NEW v PROVE [Books["bill"] EXCEPT !.void = v]
                             = [paid |-> bill.paid, refunded |-> bill.refunded, void |-> v]
    BY DEF Books
  <2>. QED
    BY <2>3, <2>4
<1>3. Books' = [Books EXCEPT !["bill"].void = TRUE]
  BY <1>2 DEF Books
<1>4. Entries' = Entries
  BY <1>1 DEF Entries
<1>5. CASE Books["bill"].void
  <2>1. Books'["bill"] = Books["bill"]
    BY <1>2, <1>5 DEF Books
  <2>. QED
    BY <1>4, <2>1, BooksAreFunctions DEF Ledger!vars
<1>. QED
  BY <1>3, <1>4, <1>5 DEF Ledger!Void

LEMMA RejectLeaves ==
  ASSUME BaseInv, PaymentInv, NEW r \in Request, CommitReject(r), racedPayment = {}
  PROVE  UNCHANGED Ledger!vars
<1>1. /\ req[r].pay \in Payment /\ payment \in [Payment -> PaymentStatus]
      /\ req[r].pc = "marked" /\ req[r].kind = "reject"
  BY DEF CommitReject, BaseInv, TypeOK
<1>2. payment[req[r].pay] # "SUCCESS"
  BY <1>1 DEF PaymentInv, SeenPayment, Running, Active
<1>3. payment' = [payment EXCEPT ![req[r].pay] = "FAILED"] /\ bill' = bill /\ refunds' = refunds
  BY DEF CommitReject
<1>4. \A q \in Payment : Entries'[q] = Entries[q]
  BY <1>1, <1>2, <1>3 DEF Entries
<1>. QED
  BY <1>3, <1>4, BooksAreFunctions DEF Ledger!vars, Books

LEMMA StepEntered ==
  ASSUME BaseInv, BillInv, PaymentInv, NEW r \in Request,
         BeginAny(r) \/ Step(r) \/ CommitBroken(r) \/ Fail(r), ~racedBill, racedPayment = {}
  PROVE  [Ledger!Next]_(Ledger!vars)
<1>1. ASSUME UNCHANGED <<bill, payment, refunds>> PROVE UNCHANGED Ledger!vars
  BY <1>1 DEF Ledger!vars, Entries, Books
<1>2. CASE BeginAny(r)
  <2>1. PICK kind, p, back, pc : Begin(r, kind, p, back, pc)
    BY <1>2 DEF BeginAny, BeginVoid, BeginCash, BeginReport, BeginWebhook, BeginRefund
  <2>. QED
    BY <1>1, <2>1 DEF Begin, rows
<1>3. CASE \/ RecordEvent(r) \/ ReadPayment(r) \/ MarkPayment(r) \/ ReadBill(r) \/ WriteBill(r)
           \/ DuplicateKey(r) \/ Fail(r) \/ CommitEvent(r)
  BY <1>1, <1>3 DEF RecordEvent, ReadPayment, MarkPayment, ReadBill, WriteBill, DuplicateKey,
                    Fail, Rollback, CommitEvent, rows
<1>4. CASE Commit(r) \/ CommitBroken(r)
  <2>1. PICK status : CommitCredit(r, status)
    BY <1>4 DEF Commit, CommitBroken
  <2>2. PICK p \in Payment : Ledger!Take(p, "bill", Entries'[p].amount)
    BY <2>1, CreditEntered
  <2>. QED
    BY <2>2 DEF Ledger!Next
<1>5. CASE CommitRefund(r)
  <2>1. PICK p \in Payment : Ledger!GiveBack(p, Entries'[p].back - Entries[p].back)
    BY <1>5, RefundEntered
  <2>. QED
    BY <2>1 DEF Ledger!Next
<1>6. CASE CommitVoid(r)
  BY <1>6, VoidEntered DEF Ledger!Next
<1>7. CASE CommitReject(r)
  BY <1>7, RejectLeaves
<1>. QED
  BY <1>2, <1>3, <1>4, <1>5, <1>6, <1>7 DEF Step

LEMMA InitEntered == Init => Ledger!Init
<1> SUFFICES ASSUME Init PROVE Ledger!Init
  OBVIOUS
<1>1. \A p \in Payment : Entries[p] = NoEntry
  BY DEF Init, Entries
<1>2. Books["bill"] = [paid |-> 0, refunded |-> 0, void |-> FALSE]
  BY DEF Init, Books, NewBill
<1>. QED
  BY <1>1, <1>2, BooksAreFunctions DEF Ledger!Init

LEMMA NextEntered ==
  BaseInv /\ BillInv /\ PaymentInv /\ NoOverlap /\ [Next]_vars => [Ledger!Next]_(Ledger!vars)
<1> SUFFICES ASSUME BaseInv, BillInv, PaymentInv, NoOverlap, [Next]_vars
             PROVE  [Ledger!Next]_(Ledger!vars)
  OBVIOUS
<1>1. CASE UNCHANGED vars
  BY <1>1 DEF vars, rows, Ledger!vars, Entries, Books
<1>. QED
  BY <1>1, StepEntered DEF Next, NoOverlap

\* Up to the first two requests that overlap, requests that run statement by
\* statement, fail and are sent again enter what they take and hand back as the
\* ledger promises (payment_service, void_bill).
THEOREM LedgerKept == Spec => KeepsLedger
<1>1. [Next]_vars /\ NoOverlap' => NoOverlap
  <2>1. Observe /\ NoOverlap' => NoOverlap
    BY DEF Observe, NoOverlap
  <2>2. UNCHANGED vars /\ NoOverlap' => NoOverlap
    BY DEF NoOverlap, vars
  <2>. QED
    BY <2>1, <2>2 DEF Next
<1>2. BaseInv /\ BillInv /\ PaymentInv /\ [Next]_vars
        => [NoOverlap' => [Ledger!Next]_(Ledger!vars)]_vars
  BY <1>1, NextEntered
<1>. QED
  BY InitBase, NextBase, InitBill, NextBill, InitPayment, NextPayment,
     InitEntered, <1>2, PTL DEF Spec, KeepsLedger
=============================================================================
