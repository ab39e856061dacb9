--------------------------- MODULE BillDeskProofs ---------------------------
(***************************************************************************)
(* What a till shows and offers is right, for any number of orders, bills, *)
(* transactions and requests and any price.                                *)
(* DeskInv is inductive: TxnInv, FetchInv and ReqsInv say what is under    *)
(* way, FieldInv what is in the payment's field, SightInv why a till that  *)
(* could see everything comes to show the bill as it is.                   *)
(***************************************************************************)
EXTENDS BillDesk, FiniteSetTheorems, SequenceTheorems, TLAPS

-----------------------------------------------------------------------------
(* Amounts.                                                                *)

LEMMA Constants ==
  /\ Price \in Nat /\ MaxOrder \in Nat /\ MaxBill \in Nat /\ MaxPaid \in Nat
  /\ MaxTxn \in Nat /\ MaxReq \in Nat /\ Price > 0 /\ MaxOrder > 0
  BY Bounds

\* The larger of an amount and nothing.
LEMMA NotBelowZero ==
  ASSUME NEW x \in Int
  PROVE  Max({0, x}) = IF x > 0 THEN x ELSE 0
<1>1. \A y \in {0, x} : (\A z \in {0, x} : y >= z) <=> y = IF x > 0 THEN x ELSE 0
  OBVIOUS
<1>2. \E y \in {0, x} : y = IF x > 0 THEN x ELSE 0
  OBVIOUS
<1>. QED
  BY <1>1, <1>2 DEF Max

\* A bill costs something between nothing and the price of every order.
LEMMA TotalTyped ==
  ASSUME NEW b \in Bill
  PROVE  Total(b) \in 0..Price * MaxOrder
<1>1. IsFiniteSet(Order) /\ Cardinality(Order) = MaxOrder
  BY Constants, FS_Interval DEF Order
<1>2. Live(b) \in SUBSET Order
  BY DEF Live
<1>3. PICK k \in Nat : k = Cardinality(Live(b)) /\ k <= MaxOrder
  BY <1>1, <1>2, FS_Subset, FS_CardinalityType
<1>4. Price * k \in Nat /\ Price * k <= Price * MaxOrder
  <2>1. MaxOrder - k \in Nat
    BY <1>3, Constants
  <2>2. Price * (MaxOrder - k) \in Nat
    BY <2>1, Constants
  <2>3. Price * MaxOrder = Price * k + Price * (MaxOrder - k)
    BY <1>3, <2>1, Constants
  <2>4. Price * k \in Nat /\ Price * MaxOrder \in Nat
    BY <1>3, Constants
  <2>. QED
    BY <2>2, <2>3, <2>4
<1>5. PICK p \in Nat : p = Price * k
  BY <1>4
<1>6. PICK d \in Nat : d = b.disc
  BY DEF Bill
<1>7. Max({0, p - d}) = IF p - d > 0 THEN p - d ELSE 0
  BY NotBelowZero
<1>8. Total(b) = Max({0, p - d})
  BY <1>3, <1>5, <1>6 DEF Total
<1>9. Price * MaxOrder \in Nat
  BY Constants
<1>. QED
  BY <1>4, <1>5, <1>7, <1>8, <1>9

LEMMA RemainingTyped ==
  ASSUME NEW b \in Bill
  PROVE  /\ Remaining(b) \in 0..Price * MaxOrder /\ Remaining(b) \in Nat
         /\ Max({0, Total(b) - b.paid}) = Remaining(b)
<1>1. PICK p \in Nat : p = b.paid
  BY DEF Bill
<1>2. Price * MaxOrder \in Nat
  BY Constants
<1>3. PICK t \in Nat : t = Total(b) /\ t <= Price * MaxOrder
  BY <1>2, TotalTyped
<1>4. Max({0, t - p}) = IF t - p > 0 THEN t - p ELSE 0
  BY NotBelowZero
<1>. QED
  BY <1>1, <1>2, <1>3, <1>4 DEF Remaining

\* What can be in the payment's field.
LEMMA AmountTyped ==
  /\ 0 \in Amount /\ 1..MaxPaid \subseteq Amount /\ Amount \subseteq Int
  /\ \A b \in Bill : Remaining(b) \in Amount
<1>1. PICK k \in Nat : k = Price * MaxOrder
  BY Constants
<1>2. Amount = 0..MaxPaid + k
  BY <1>1 DEF Amount
<1>3. 0 \in Amount /\ 1..MaxPaid \subseteq Amount /\ Amount \subseteq Int /\ 0..k \subseteq Amount
  BY <1>2, Constants
<1>4. \A b \in Bill : Remaining(b) \in 0..k
  BY <1>1, RemainingTyped
<1>. QED
  BY <1>3, <1>4

-----------------------------------------------------------------------------
(* What the server makes of a bill.                                        *)

LEMMA RecomputedTyped ==
  ASSUME NEW b \in Bill
  PROVE  Recomputed(b) \in Bill
  BY DEF Recomputed, Bill

LEMMA SyncedTyped ==
  ASSUME NEW b \in Bill
  PROVE  Synced(b) \in Bill
<1>1. [b EXCEPT !.line = [i \in Order |-> IF i <= n /\ @[i] = "off" THEN "live" ELSE @[i]]] \in Bill
  BY DEF Bill
<1>. QED
  BY <1>1, RecomputedTyped DEF Synced

LEMMA NewBillTyped == NewBill \in Bill
  BY Constants DEF NewBill, Bill

LEMMA GeneratedTyped ==
  ASSUME bills \in Seq(Bill)
  PROVE  Generated.bill \in 1..Len(bills) + 1 /\ Generated.bill \in Nat /\ Generated.rec \in Bill
<1>1. CASE bills # <<>> /\ IsOpen(bills[Len(bills)])
  <2>1. Len(bills) \in 1..Len(bills) /\ bills[Len(bills)] \in Bill
    BY <1>1
  <2>. QED
    BY <1>1, <2>1, SyncedTyped DEF Generated
<1>2. CASE ~(bills # <<>> /\ IsOpen(bills[Len(bills)]))
  BY <1>2, NewBillTyped, SyncedTyped DEF Generated
<1>. QED
  BY <1>1, <1>2

LEMMA EffectTyped ==
  ASSUME NEW b \in Bill, NEW op \in Ops, op # "generate", NEW arg \in Nat, Allowed(op, b, arg),
         op = "pay" => b.paid + arg <= MaxPaid,
         op = "discount" => b.disc = 0
  PROVE  Effect(op, b, arg) \in Bill /\ (op = "print" => Effect(op, b, arg) = b)
<1> USE DEF Effect
<1>1. CASE op = "discount"
  <2>1. [b EXCEPT !.disc = @ + 1] \in Bill
    BY <1>1 DEF Bill
  <2>. QED
    BY <1>1, <2>1, RecomputedTyped
<1>2. CASE op = "pay"
  <2>1. [b EXCEPT !.paid = @ + arg] \in Bill
    BY <1>2, Constants DEF Bill
  <2>. QED
    BY <1>2, <2>1, RecomputedTyped
<1>3. CASE op = "void"
  <2>1. [b EXCEPT !.line[arg] = "void"] \in Bill
    BY <1>3 DEF Bill
  <2>. QED
    BY <1>3, <2>1, RecomputedTyped
<1>4. CASE op = "comp"
  <2>1. [b EXCEPT !.line[arg] = "comp"] \in Bill
    BY <1>4 DEF Bill
  <2>. QED
    BY <1>4, <2>1, RecomputedTyped
<1>5. CASE op = "uncomp"
  <2>1. [b EXCEPT !.line[arg] = "live"] \in Bill
    BY <1>5 DEF Bill
  <2>. QED
    BY <1>5, <2>1, RecomputedTyped
<1>6. CASE op = "nc"
  BY <1>6 DEF Bill
<1>7. CASE op = "voidBill"
  BY <1>7 DEF Bill
<1>8. CASE op = "print"
  BY <1>8
<1>. QED
  BY <1>1, <1>2, <1>3, <1>4, <1>5, <1>6, <1>7, <1>8 DEF Ops, ItemOps

\* A transaction starts from the bills as they are.
LEMMA BeginTyped ==
  ASSUME DeskInv, NEW op \in Ops, NEW b \in Nat, NEW arg \in Nat, NEW mine \in BOOLEAN,
         Begin(op, b, arg, mine)
  PROVE  /\ txn = None /\ txn' \in Transaction /\ txn' # None
         /\ txn'.op = op /\ txn'.mine = mine /\ txn'.bill \in 1..Len(bills) + 1 /\ txn'.since \in 0..n
         /\ op # "generate" => txn'.bill = b /\ b \in DOMAIN bills
         /\ op = "print" => txn'.rec = bills[b]
         /\ txns' \in 0..MaxTxn /\ note' \in BOOLEAN /\ (note => note')
         /\ n' = n /\ bills' = bills /\ since' = since
<1>1. /\ txn = None /\ n' = n /\ bills' = bills /\ since' = since
      /\ txns < MaxTxn /\ txns' = txns + 1
      /\ note' = (note \/ op \in Notifying)
  BY DEF Begin
<1>2. txns' \in 0..MaxTxn /\ n \in Nat /\ bills \in Seq(Bill) /\ note \in BOOLEAN
  BY <1>1, Constants DEF DeskInv, TypeOK
<1>3. CASE op = "generate"
  <2>1. txn' = [bill |-> Generated.bill, rec |-> Generated.rec, since |-> n,
                mine |-> mine, op |-> op]
    BY <1>3 DEF Begin
  <2>2. txn' \in Transaction
    BY <1>2, <2>1, GeneratedTyped DEF Transaction
  <2>. QED
    BY <1>1, <1>2, <1>3, <2>1, <2>2, GeneratedTyped, NoneAssumption
<1>4. CASE op # "generate"
  <2>1. /\ b \in DOMAIN bills /\ Allowed(op, bills[b], arg)
        /\ op = "pay" => bills[b].paid + arg <= MaxPaid
        /\ op = "discount" => bills[b].disc = 0
        /\ txn' = [bill |-> b, rec |-> Effect(op, bills[b], arg), since |-> n,
                   mine |-> mine, op |-> op]
    BY <1>4 DEF Begin
  <2>2. bills[b] \in Bill /\ b \in 1..Len(bills)
    BY <1>2, <2>1
  <2>3. Effect(op, bills[b], arg) \in Bill /\ (op = "print" => Effect(op, bills[b], arg) = bills[b])
    BY <1>4, <2>1, <2>2, EffectTyped
  <2>4. txn' \in Transaction
    BY <1>2, <2>1, <2>3 DEF Transaction
  <2>. QED
    BY <1>1, <1>2, <1>4, <2>1, <2>2, <2>3, <2>4, NoneAssumption
<1>. QED
  BY <1>3, <1>4

-----------------------------------------------------------------------------
(* Frames.                                                                 *)

\* The same answers are on their way.
SameAnswers ==
  /\ \A r \in reqs' : r.state = "done" =>
       \E q \in reqs : q.state = "done" /\ q.op = r.op /\ q.bill = r.bill /\ q.answer = r.answer
  /\ \A q \in reqs : q.state = "done" =>
       \E r \in reqs' : r.state = "done" /\ r.op = q.op /\ r.bill = q.bill /\ r.answer = q.answer

\* What a till sees stays as right as it was.
LEMMA SightStays ==
  ASSUME SightInv, UNCHANGED <<open, cache, fetch, bills, blind>>, note => note', SameAnswers
  PROVE  SightInv'
<1> SUFFICES ASSUME open # 0, ~blind
             PROVE  AnswersCurrent' /\ ReadCurrent' /\ CopyFollows'
  BY DEF SightInv
<1>1. AnswersCurrent /\ ReadCurrent /\ CopyFollows
  BY DEF SightInv
<1>2. AnswersCurrent'
  BY <1>1 DEF AnswersCurrent, SameAnswers
<1>3. ReadCurrent'
  BY <1>1 DEF ReadCurrent
<1>4. CopyFollows'
  <2>1. ASSUME NEW q \in reqs, Corrects(q)
        PROVE  \E r \in reqs' : Corrects(r)'
    BY <2>1 DEF Corrects, SameAnswers
  <2>. QED
    BY <1>1, <2>1 DEF CopyFollows
<1>. QED
  BY <1>2, <1>3, <1>4

\* A transaction stays as it was, its request with it.
LEMMA TxnStays ==
  ASSUME TxnInv, UNCHANGED <<txn, n, bills>>,
         \A q \in reqs : q.state = "doing" =>
           \E r \in reqs' : r.state = "doing" /\ r.op = q.op /\ r.bill = q.bill
  PROVE  TxnInv'
  BY DEF TxnInv

\* Nothing but requests of the till changes, and of these nothing that is
\* done or being done.
LEMMA RequestsChange ==
  ASSUME DeskInv, UNCHANGED <<server, list, stale, dialog, note>>, SameAnswers,
         \A q \in reqs : q.state = "doing" =>
           \E r \in reqs' : r.state = "doing" /\ r.op = q.op /\ r.bill = q.bill,
         ReqsInv', FreshOfferAccepted'
  PROVE  DeskInv'
<1> USE DEF DeskInv, server, dialog
<1>1. TypeOK'
  BY DEF TypeOK
<1>2. TxnInv'
  BY TxnStays
<1>3. FetchInv'
  BY DEF FetchInv
<1>4. FieldInv'
  BY DEF FieldInv
<1>5. SightInv'
  BY SightStays
<1>. QED
  BY <1>1, <1>2, <1>3, <1>4, <1>5

\* A request is taken from the till, before or after it was handled.
LEMMA FewerRequests ==
  ASSUME ReqsInv, FreshOfferAccepted, reqs' \subseteq reqs, UNCHANGED <<txn, bills>>
  PROVE  ReqsInv' /\ FreshOfferAccepted'
  BY DEF ReqsInv, FreshOfferAccepted

LEMMA RefusedInv ==
  ASSUME DeskInv, NEW r \in reqs, Refused(r)
  PROVE  DeskInv'
<1>1. /\ r.state = "sent" /\ reqs' = reqs \ {r}
      /\ UNCHANGED <<server, list, stale, dialog, note>>
  BY DEF Refused
<1>2. SameAnswers
  BY <1>1 DEF SameAnswers
<1>3. ReqsInv' /\ FreshOfferAccepted'
  BY <1>1, FewerRequests DEF DeskInv, server
<1>. QED
  BY <1>1, <1>2, <1>3, RequestsChange

LEMMA CloseFormInv ==
  ASSUME DeskInv, NEW r \in reqs, CloseForm(r)
  PROVE  DeskInv'
<1> DEFINE u == [r EXCEPT !.shown = FALSE]
<1>1. reqs' = (reqs \ {r}) \cup {u} /\ UNCHANGED <<server, list, stale, dialog, note>>
  BY DEF CloseForm
<1>2. /\ u \in Request /\ u.state = r.state /\ u.op = r.op /\ u.bill = r.bill /\ u.answer = r.answer
      /\ u.fresh = r.fresh /\ u.arg = r.arg
  BY DEF DeskInv, ReqsInv, Request
<1> HIDE DEF u
<1>3. SameAnswers
  BY <1>1, <1>2 DEF SameAnswers
<1>4. ReqsInv'
  BY <1>1, <1>2 DEF DeskInv, ReqsInv, server
<1>5. FreshOfferAccepted'
  BY <1>1, <1>2 DEF DeskInv, FreshOfferAccepted, server
<1>. QED
  BY <1>1, <1>2, <1>3, <1>4, <1>5, RequestsChange

\* A request is sent; one that is fresh the server would accept.
LEMMA SendInv ==
  ASSUME DeskInv, NEW op \in Ops, NEW b \in Nat, NEW arg \in Nat, NEW fresh \in BOOLEAN,
         Send(op, b, arg, fresh),
         fresh => /\ b \in DOMAIN bills /\ Allowed(op, bills[b], arg)
                  /\ op = "pay" => arg <= Max({0, Total(bills[b]) - bills[b].paid})
  PROVE  DeskInv'
<1> DEFINE u == [op |-> op, bill |-> b, arg |-> arg, state |-> "sent",
                 answer |-> <<>>, shown |-> TRUE, fresh |-> fresh]
<1>1. reqs' = reqs \cup {u} /\ UNCHANGED <<server, list, stale, dialog, note>>
  BY DEF Send
<1>2. /\ u \in Request /\ u.state = "sent" /\ u.op = op /\ u.bill = b /\ u.arg = arg
      /\ u.fresh = fresh
  BY DEF Request, Answer
<1> HIDE DEF u
<1>3. SameAnswers
  BY <1>1, <1>2 DEF SameAnswers
<1>4. ReqsInv'
  BY <1>1, <1>2 DEF DeskInv, ReqsInv, server
<1>5. FreshOfferAccepted'
  BY <1>1, <1>2 DEF DeskInv, FreshOfferAccepted, server
<1>. QED
  BY <1>1, <1>2, <1>3, <1>4, <1>5, RequestsChange

LEMMA OpenSessionInv ==
  ASSUME DeskInv, OpenSession
  PROVE  DeskInv'
  BY SendInv DEF OpenSession, Ops

\* What the dialog offers on a copy of the bill, the server would accept.
LEMMA OffersAllowed ==
  ASSUME cache \in Bill, NEW op, NEW arg, <<op, arg>> \in Offers
  PROVE  /\ Allowed(op, cache, arg) /\ op \in Ops
         /\ op = "pay" => arg = amount /\ IsOpen(cache)
<1>1. CASE <<op, arg>> \in ItemOffers /\ IsOpen(cache)
  BY <1>1 DEF ItemOffers, Live, Allowed, Ops, ItemOps
<1>2. CASE <<op, arg>> \in UncompOffers /\ IsOpen(cache)
  BY <1>2 DEF UncompOffers, Allowed, Ops, ItemOps
<1>3. CASE <<op, arg>> \in NoChargeOffer
  BY <1>3 DEF NoChargeOffer, Allowed, IsOpen, Ops
<1>4. CASE <<op, arg>> \in DiscountOffer
  BY <1>4 DEF DiscountOffer, Allowed, Ops
<1>5. CASE <<op, arg>> \in VoidBillOffer
  BY <1>5 DEF VoidBillOffer, Allowed, Ops
<1>6. CASE <<op, arg>> \in PaymentOffer
  BY <1>6 DEF PaymentOffer, Allowed, Ops
<1>. QED
  BY <1>1, <1>2, <1>3, <1>4, <1>5, <1>6 DEF Offers

LEMMA PressInv ==
  ASSUME DeskInv, NEW op \in Ops, NEW arg \in Nat, Press(op, arg)
  PROVE  DeskInv'
<1>1. /\ open # 0 /\ <<op, arg>> \in Offers
      /\ Send(op, open, arg, txn = None /\ cache = bills[open] /\ (op = "pay" => ~typed))
  BY DEF Press
<1>2. PICK fresh \in BOOLEAN : fresh <=> txn = None /\ cache = bills[open] /\ (op = "pay" => ~typed)
  OBVIOUS
<1>3. cache \in Bill /\ cache # None /\ open \in DOMAIN bills /\ open \in Nat
  BY <1>1, NoneAssumption DEF DeskInv, TypeOK
<1>4. /\ Allowed(op, cache, arg)
      /\ op = "pay" => arg = amount /\ IsOpen(cache)
  BY <1>1, <1>3, OffersAllowed
<1>5. fresh => /\ Allowed(op, bills[open], arg)
               /\ op = "pay" => arg <= Max({0, Total(bills[open]) - bills[open].paid})
  <2>1. op = "pay" /\ ~typed => arg = Remaining(cache)
    BY <1>3, <1>4 DEF DeskInv, FieldInv
  <2>2. Max({0, Total(cache) - cache.paid}) = Remaining(cache)
    BY <1>3, RemainingTyped
  <2>3. Remaining(cache) \in Nat
    BY <1>3, RemainingTyped
  <2>4. arg = Remaining(cache) => arg <= Remaining(cache)
    BY <2>3
  <2>. QED
    BY <1>2, <1>4, <2>1, <2>2, <2>4
<1>6. Send(op, open, arg, fresh)
  BY <1>1, <1>2
<1>. QED
  BY <1>3, <1>5, <1>6, SendInv

-----------------------------------------------------------------------------
(* The server's steps.                                                     *)

\* A transaction begins; one of this till is one of its requests.
LEMMA BeginInv ==
  ASSUME DeskInv, NEW op \in Ops, NEW b \in Nat, NEW arg \in Nat, NEW mine \in BOOLEAN,
         Begin(op, b, arg, mine), UNCHANGED <<list, stale, dialog>>, SameAnswers,
         mine /\ op # "print" =>
           \E r \in reqs' : r.state = "doing" /\ r.op = op /\ (op = "pay" => r.bill = b),
         ReqsInv', FreshOfferAccepted'
  PROVE  DeskInv'
<1>1. /\ txn' \in Transaction /\ txn' # None
      /\ txn'.op = op /\ txn'.mine = mine /\ txn'.bill \in 1..Len(bills) + 1 /\ txn'.since \in 0..n
      /\ op # "generate" => txn'.bill = b /\ b \in DOMAIN bills
      /\ op = "print" => txn'.rec = bills[b]
      /\ txns' \in 0..MaxTxn /\ note' \in BOOLEAN /\ (note => note')
      /\ n' = n /\ bills' = bills /\ since' = since
  BY BeginTyped
<1>2. UNCHANGED <<open, cache, fetch, amount, typed, blind>>
  BY DEF dialog
<1>3. TypeOK'
  BY <1>1, <1>2 DEF DeskInv, TypeOK
<1>4. TxnInv'
  BY <1>1, <1>2 DEF TxnInv
<1>5. FetchInv' /\ FieldInv'
  BY <1>1, <1>2 DEF DeskInv, FetchInv, FieldInv
<1>6. SightInv'
  BY <1>1, <1>2, SightStays DEF DeskInv
<1>. QED
  BY <1>1, <1>3, <1>4, <1>5, <1>6 DEF DeskInv

LEMMA BeginOtherInv ==
  ASSUME DeskInv, NEW op \in Ops, NEW b \in Nat, NEW arg \in Nat, BeginOther(op, b, arg)
  PROVE  DeskInv'
<1>1. Begin(op, b, arg, FALSE) /\ UNCHANGED <<list, stale, dialog, reqs>>
  BY DEF BeginOther
<1>2. txn = None /\ bills' = bills
  BY <1>1, BeginTyped
<1>3. SameAnswers
  BY <1>1 DEF SameAnswers
<1>4. ReqsInv'
  BY <1>1, <1>2 DEF DeskInv, ReqsInv
<1>5. FreshOfferAccepted'
  BY <1>1, <1>2 DEF DeskInv, FreshOfferAccepted
<1>. QED
  BY <1>1, <1>3, <1>4, <1>5, BeginInv

LEMMA PrintBillInv ==
  ASSUME DeskInv, PrintBill
  PROVE  DeskInv'
<1>1. Begin("print", open, 0, TRUE) /\ UNCHANGED <<list, stale, dialog, reqs>>
  BY DEF PrintBill
<1>2. open \in Nat /\ "print" \in Ops
  BY DEF DeskInv, TypeOK, Ops
<1>3. txn = None /\ bills' = bills
  BY <1>1, <1>2, BeginTyped
<1>4. SameAnswers
  BY <1>1 DEF SameAnswers
<1>5. ReqsInv'
  BY <1>1, <1>3 DEF DeskInv, ReqsInv
<1>6. FreshOfferAccepted'
  BY <1>1, <1>3 DEF DeskInv, FreshOfferAccepted
<1>. QED
  BY <1>1, <1>2, <1>4, <1>5, <1>6, BeginInv

LEMMA BeginMineInv ==
  ASSUME DeskInv, NEW r \in reqs, BeginMine(r)
  PROVE  DeskInv'
<1> DEFINE u == [r EXCEPT !.state = "doing", !.arg = 0, !.fresh = FALSE]
<1>1. /\ r.state = "sent" /\ Begin(r.op, r.bill, r.arg, TRUE)
      /\ reqs' = (reqs \ {r}) \cup {u} /\ UNCHANGED <<list, stale, dialog>>
  BY DEF BeginMine
<1>2. r \in Request
  BY DEF DeskInv, ReqsInv
<1>3. u \in Request /\ u.state = "doing" /\ u.op = r.op /\ u.bill = r.bill /\ ~u.fresh
  BY <1>2 DEF Request
<1> HIDE DEF u
<1>4. r.op \in Ops /\ r.bill \in Nat /\ r.arg \in Nat
  BY <1>2 DEF Request
<1>5. txn = None /\ txn' # None /\ txn'.mine /\ bills' = bills
  BY <1>1, <1>4, BeginTyped
<1>6. SameAnswers
  BY <1>1, <1>3 DEF SameAnswers
<1>7. ReqsInv'
  BY <1>1, <1>3, <1>5 DEF DeskInv, ReqsInv
<1>8. FreshOfferAccepted'
  BY <1>1, <1>3, <1>5 DEF DeskInv, FreshOfferAccepted
<1>. QED
  BY <1>1, <1>3, <1>4, <1>6, <1>7, <1>8, BeginInv

LEMMA PlaceOrderInv ==
  ASSUME DeskInv, PlaceOrder
  PROVE  DeskInv'
<1>1. /\ n < MaxOrder /\ n' = n + 1
      /\ UNCHANGED <<bills, since, txn, txns, list, stale, reqs, note>>
      /\ UNCHANGED <<open, cache, fetch, amount, typed, blind>>
  BY DEF PlaceOrder, dialog
<1>2. TypeOK'
  BY <1>1, Constants DEF DeskInv, TypeOK
<1>3. TxnInv'
  <2>1. n \in Nat
    BY DEF DeskInv, TypeOK
  <2>. QED
    BY <1>1, <2>1 DEF DeskInv, TxnInv, Transaction
<1>4. FetchInv' /\ FieldInv'
  BY <1>1 DEF DeskInv, FetchInv, FieldInv
<1>5. ReqsInv' /\ FreshOfferAccepted'
  BY <1>1 DEF DeskInv, ReqsInv, FreshOfferAccepted
<1>6. SightInv'
  BY <1>1, SightStays DEF DeskInv, SameAnswers
<1>. QED
  BY <1>1, <1>2, <1>3, <1>4, <1>5, <1>6 DEF DeskInv

\* What was read is neither of the other two states of a query.
LEMMA ReadsDiffer ==
  ASSUME NEW b
  PROVE  Read(b) # Idle /\ Read(b) # Asked /\ Idle # Asked /\ Read(b)[2] = b
<1>1. Len(Read(b)) = 2 /\ Len(Idle) = 0 /\ Len(Asked) = 1
  BY DEF Read, Idle, Asked
<1>. QED
  BY <1>1 DEF Read

\* What a commit makes of the bills.
LEMMA CommitBills ==
  ASSUME DeskInv, Commit
  PROVE  /\ bills' \in Seq(Bill) /\ Len(bills') >= Len(bills)
         /\ txn.bill \in DOMAIN bills' /\ bills'[txn.bill] = txn.rec
         /\ \A b \in DOMAIN bills :
              b \in DOMAIN bills' /\ (b # txn.bill => bills'[b] = bills[b])
<1>1. /\ txn \in Transaction /\ txn.bill \in 1..Len(bills) + 1
      /\ bills \in Seq(Bill)
      /\ bills' = IF txn.bill > Len(bills) THEN Append(bills, txn.rec)
                  ELSE [bills EXCEPT ![txn.bill] = txn.rec]
  BY DEF Commit, DeskInv, TxnInv
<1>2. txn.rec \in Bill
  BY <1>1 DEF Transaction
<1>3. CASE txn.bill > Len(bills)
  BY <1>1, <1>2, <1>3
<1>4. CASE ~(txn.bill > Len(bills))
  BY <1>1, <1>2, <1>4
<1>. QED
  BY <1>3, <1>4

\* A commit makes the answers of the requests that are being done.
LEMMA CommitRequests ==
  ASSUME DeskInv, Commit
  PROVE  /\ \A u \in reqs' :
              /\ u \in Request /\ ~u.fresh /\ u.state # "doing"
              /\ u.state = "done" =>
                   \E r \in reqs : /\ r.op = u.op /\ r.bill = u.bill
                                   /\ \/ r.state = "done" /\ u.answer = r.answer
                                      \/ r.state = "doing" /\ (u.op # "pay" => u.answer = <<txn.bill, txn.rec>>)
         /\ \A r \in reqs : r.state = "doing" =>
              \E u \in reqs' : /\ u.state = "done" /\ u.op = r.op /\ u.bill = r.bill
                               /\ u.op # "pay" => u.answer = <<txn.bill, txn.rec>>
<1> DEFINE after(r) == [r EXCEPT !.fresh = FALSE,
                          !.state = IF @ = "doing" THEN "done" ELSE @,
                          !.answer = IF r.state = "doing" /\ r.op # "pay"
                                     THEN <<txn.bill, txn.rec>> ELSE @]
<1>1. reqs' = {after(r) : r \in reqs}
  BY DEF Commit
<1>2. <<txn.bill, txn.rec>> \in Answer
  BY DEF DeskInv, TxnInv, Commit, Transaction, Answer
<1>3. ASSUME NEW r \in reqs
      PROVE  /\ after(r) \in Request /\ ~after(r).fresh /\ after(r).op = r.op /\ after(r).bill = r.bill
             /\ after(r).state = (IF r.state = "doing" THEN "done" ELSE r.state)
             /\ after(r).answer = (IF r.state = "doing" /\ r.op # "pay"
                                   THEN <<txn.bill, txn.rec>> ELSE r.answer)
  <2>1. r \in Request
    BY DEF DeskInv, ReqsInv
  <2>. QED
    BY <1>2, <2>1 DEF Request
<1> HIDE DEF after
<1>4. ASSUME NEW u \in reqs'
      PROVE  /\ u \in Request /\ ~u.fresh /\ u.state # "doing"
             /\ u.state = "done" =>
                  \E r \in reqs : /\ r.op = u.op /\ r.bill = u.bill
                                  /\ \/ r.state = "done" /\ u.answer = r.answer
                                     \/ r.state = "doing" /\ (u.op # "pay" => u.answer = <<txn.bill, txn.rec>>)
  <2>1. PICK r \in reqs : u = after(r)
    BY <1>1
  <2>. QED
    BY <1>3, <2>1
<1>5. ASSUME NEW r \in reqs, r.state = "doing"
      PROVE  \E u \in reqs' : /\ u.state = "done" /\ u.op = r.op /\ u.bill = r.bill
                              /\ u.op # "pay" => u.answer = <<txn.bill, txn.rec>>
  <2>1. after(r) \in reqs'
    BY <1>1
  <2>. QED
    BY <1>3, <1>5, <2>1
<1>. QED
  BY <1>4, <1>5

\* After a commit that the till has the means to see, either a message or an
\* answer is on its way, or the copy on the screen is not concerned.
LEMMA CommitSight ==
  ASSUME DeskInv, Commit
  PROVE  SightInv'
<1>0. /\ txn # None
      /\ blind' = (open # 0 /\ (\/ blind \/ \E r \in reqs : r.state = "done"
                                \/ IF txn.mine THEN fetch \notin {Idle, Asked} ELSE ~note))
      /\ UNCHANGED <<open, cache, fetch, note>>
  BY DEF Commit
<1> SUFFICES ASSUME open # 0, ~blind'
             PROVE  AnswersCurrent' /\ ReadCurrent' /\ CopyFollows'
  BY <1>0 DEF SightInv
<1>1. /\ ~blind /\ ~\E r \in reqs : r.state = "done"
      /\ txn.mine => fetch \in {Idle, Asked}
      /\ ~txn.mine => note
  BY <1>0
<1>2. AnswersCurrent /\ ReadCurrent /\ CopyFollows
  BY <1>1 DEF DeskInv, SightInv
<1>3. open \in DOMAIN bills
  BY DEF DeskInv, TypeOK
<1>4. AnswersCurrent'
  <2>1. ASSUME NEW u \in reqs', u.state = "done", u.op # "pay", u.answer[1] = open
        PROVE  u.answer[2] = bills'[open]
    <3>1. u.answer = <<txn.bill, txn.rec>>
      BY <1>1, <2>1, CommitRequests
    <3>. QED
      BY <2>1, <3>1, CommitBills
  <2>. QED
    BY <1>0, <2>1 DEF AnswersCurrent
<1>5. ReadCurrent'
  BY <1>0, <1>1, ReadsDiffer DEF ReadCurrent
<1>6. CopyFollows'
  <2>1. CASE note \/ fetch # Idle
    BY <1>0, <2>1 DEF CopyFollows
  <2>2. CASE ~note /\ fetch = Idle
    <3>1. cache = bills[open] /\ txn.mine
      BY <1>1, <1>2, <2>2 DEF CopyFollows, Corrects
    <3>2. CASE txn.bill # open \/ txn.op = "print"
      <4>1. bills'[open] = bills[open]
        BY <1>0, <1>3, <3>2, CommitBills DEF DeskInv, TxnInv
      <4>. QED
        BY <1>0, <3>1, <4>1 DEF CopyFollows
    <3>3. CASE txn.bill = open /\ txn.op # "print"
      <4>1. PICK r \in reqs : r.state = "doing" /\ (r.op = "pay" => r.bill = txn.bill)
        BY <1>0, <3>1, <3>3 DEF DeskInv, TxnInv
      <4>2. PICK u \in reqs' : /\ u.state = "done" /\ u.op = r.op /\ u.bill = r.bill
                               /\ u.op # "pay" => u.answer = <<txn.bill, txn.rec>>
        BY <4>1, CommitRequests
      <4>3. Corrects(u)'
        BY <1>0, <3>3, <4>1, <4>2 DEF Corrects
      <4>. QED
        BY <4>3 DEF CopyFollows
    <3>. QED
      BY <3>2, <3>3
  <2>. QED
    BY <2>1, <2>2
<1>. QED
  BY <1>4, <1>5, <1>6

LEMMA CommitInv ==
  ASSUME DeskInv, Commit
  PROVE  DeskInv'
<1>1. /\ txn # None /\ txn' = None
      /\ since' = IF txn.bill >= Len(bills) THEN txn.since ELSE since
      /\ UNCHANGED <<n, txns, list, stale, open, cache, fetch, amount, typed, note>>
  BY DEF Commit
<1>2. /\ bills \in Seq(Bill) /\ bills' \in Seq(Bill) /\ Len(bills') >= Len(bills)
  BY CommitBills DEF DeskInv
<1>3. TypeOK'
  <2>1. since' \in 0..n'
    BY <1>1 DEF DeskInv, TxnInv, TypeOK
  <2>2. \A b \in DOMAIN bills' : bills'[b] \in Bill
    BY <1>2
  <2>3. open' \in 0..Len(bills')
    BY <1>1, <1>2 DEF DeskInv, TypeOK
  <2>. QED
    BY <1>1, <2>1, <2>2, <2>3 DEF DeskInv, TypeOK
<1>4. TxnInv' /\ FetchInv' /\ FieldInv'
  BY <1>1 DEF DeskInv, TxnInv, FetchInv, FieldInv
<1>5. ReqsInv'
  <2>1. ASSUME NEW u \in reqs', u.state = "done", u.op # "pay"
        PROVE  u.answer # <<>> /\ u.answer[1] \in DOMAIN bills'
    <3>1. PICK r \in reqs : /\ r.op = u.op
                            /\ \/ r.state = "done" /\ u.answer = r.answer
                               \/ r.state = "doing" /\ u.answer = <<txn.bill, txn.rec>>
      BY <2>1, CommitRequests
    <3>2. CASE r.state = "done" /\ u.answer = r.answer
      BY <2>1, <3>1, <3>2, CommitBills DEF DeskInv, ReqsInv
    <3>3. CASE u.answer = <<txn.bill, txn.rec>>
      BY <3>3, CommitBills
    <3>. QED
      BY <3>1, <3>2, <3>3
  <2>. QED
    BY <2>1, CommitRequests DEF ReqsInv
<1>6. FreshOfferAccepted'
  BY CommitRequests DEF FreshOfferAccepted
<1>. QED
  BY <1>2, <1>3, <1>4, <1>5, <1>6, CommitSight DEF DeskInv

-----------------------------------------------------------------------------
(* The till's queries.                                                     *)

\* A copy is shown: the field follows the balance unless it stays the same.
LEMMA ShowField ==
  ASSUME DeskInv, NEW b \in Bill, Show(b)
  PROVE  /\ cache' = b /\ FieldInv' /\ typed' \in BOOLEAN
         /\ amount' \in Amount
         /\ amount' > 0 => b.status = "OPEN"
<1>1. cache' = b /\ amount' = AmountAfter(b) /\ typed' = TypedAfter(b)
  BY DEF Show
<1>2. amount' = 0 \/ amount' = amount \/ amount' = Remaining(b)
  BY <1>1 DEF AmountAfter
<1>4. amount \in Amount /\ typed \in BOOLEAN
  BY DEF DeskInv, TypeOK
<1>5. amount' \in Amount
  BY <1>2, <1>4, AmountTyped
<1>6. amount' > 0 => b.status = "OPEN"
  BY <1>1 DEF AmountAfter, IsOpen
<1>7. typed' \in BOOLEAN
  BY <1>1, <1>4 DEF TypedAfter
<1>8. IsOpen(b) /\ ~typed' => amount' = Remaining(b)
  <2> SUFFICES ASSUME IsOpen(b), ~typed'
               PROVE  amount' = Remaining(b)
    OBVIOUS
  <2>1. CASE cache # None /\ IsOpen(cache) /\ Remaining(cache) = Remaining(b)
    <3>1. amount' = amount /\ ~typed
      BY <1>1, <1>4, <2>1 DEF AmountAfter, TypedAfter
    <3>. QED
      BY <2>1, <3>1 DEF DeskInv, FieldInv
  <2>2. CASE ~(cache # None /\ IsOpen(cache) /\ Remaining(cache) = Remaining(b))
    BY <1>1, <2>2 DEF AmountAfter
  <2>. QED
    BY <2>1, <2>2
<1>9. FieldInv'
  BY <1>1, <1>8 DEF FieldInv
<1>. QED
  BY <1>1, <1>5, <1>6, <1>7, <1>9

\* A query's state or the message changes; the till still comes to see what
\* it could see before.
LEMMA QueryChanges ==
  ASSUME DeskInv, UNCHANGED <<n, bills, since, txn, txns, open, cache, amount, typed, reqs>>,
         list' \subseteq Order, stale' \in BOOLEAN, note' \in BOOLEAN, FetchInv', SightInv'
  PROVE  DeskInv'
<1>1. TypeOK'
  BY DEF DeskInv, TypeOK
<1>2. TxnInv' /\ FieldInv'
  BY DEF DeskInv, TxnInv, FieldInv
<1>3. ReqsInv' /\ FreshOfferAccepted'
  BY DEF DeskInv, ReqsInv, FreshOfferAccepted
<1>. QED
  BY <1>1, <1>2, <1>3 DEF DeskInv

LEMMA HearInv ==
  ASSUME DeskInv, Hear
  PROVE  DeskInv'
<1>1. /\ note' = FALSE /\ stale' = TRUE /\ fetch' = IF open = 0 THEN Idle ELSE Asked
      /\ UNCHANGED <<n, bills, since, txn, txns, list, open, cache, amount, typed, reqs, blind>>
  BY DEF Hear, BillInvalidated, server
<1>2. FetchInv'
  BY <1>1 DEF FetchInv
<1>3. SightInv'
  BY <1>1, ReadsDiffer DEF DeskInv, SightInv, AnswersCurrent, ReadCurrent, CopyFollows
<1>. QED
  BY <1>1, <1>2, <1>3, QueryChanges DEF DeskInv, TypeOK

LEMMA LoseMessageInv ==
  ASSUME DeskInv, LoseMessage
  PROVE  DeskInv'
<1>1. /\ note' = FALSE /\ blind' = (open # 0)
      /\ UNCHANGED <<n, bills, since, txn, txns, list, stale, open, cache, fetch, amount, typed, reqs>>
  BY DEF LoseMessage, server
<1>2. FetchInv' /\ SightInv'
  BY <1>1 DEF DeskInv, FetchInv, SightInv
<1>. QED
  BY <1>1, <1>2, QueryChanges DEF DeskInv, TypeOK

LEMMA ReadBillInv ==
  ASSUME DeskInv, ReadBill
  PROVE  DeskInv'
<1>1. /\ fetch = Asked /\ fetch' = Read(bills[open])
      /\ UNCHANGED <<n, bills, since, txn, txns, list, stale, open, cache, amount, typed, blind, reqs, note>>
  BY DEF ReadBill, Read, server
<1>2. open \in DOMAIN bills /\ bills[open] \in Bill
  BY <1>1, ReadsDiffer DEF DeskInv, FetchInv, TypeOK
<1>3. FetchInv'
  BY <1>1, <1>2, ReadsDiffer DEF DeskInv, FetchInv
<1>4. SightInv'
  <2>1. ReadCurrent'
    <3>1. ASSUME NEW b \in Bill, fetch' = Read(b)
          PROVE  b = bills'[open']
      <4>1. Read(b)[2] = b /\ Read(bills[open])[2] = bills[open]
        BY ReadsDiffer
      <4>. QED
        BY <1>1, <3>1, <4>1
    <3>. QED
      BY <3>1 DEF ReadCurrent
  <2>2. CopyFollows'
    BY <1>1, ReadsDiffer DEF CopyFollows
  <2>. QED
    BY <1>1, <2>1, <2>2 DEF DeskInv, SightInv, AnswersCurrent
<1>. QED
  BY <1>1, <1>3, <1>4, QueryChanges DEF DeskInv, TypeOK

LEMMA BillFetchFailsInv ==
  ASSUME DeskInv, BillFetchFails
  PROVE  DeskInv'
<1>1. /\ fetch' = Idle /\ blind'
      /\ UNCHANGED <<n, bills, since, txn, txns, list, stale, open, cache, amount, typed, reqs, note>>
  BY DEF BillFetchFails, server
<1>2. FetchInv' /\ SightInv'
  BY <1>1 DEF FetchInv, SightInv
<1>. QED
  BY <1>1, <1>2, QueryChanges DEF DeskInv, TypeOK

LEMMA ListFetchedInv ==
  ASSUME DeskInv, ListFetched
  PROVE  DeskInv'
<1>1. /\ stale' = FALSE /\ list' = Unbilled
      /\ UNCHANGED <<n, bills, since, txn, txns, open, cache, fetch, amount, typed, reqs, note, blind>>
  BY DEF ListFetched, server, dialog
<1>2. list' \subseteq Order
  BY <1>1, Constants DEF DeskInv, TypeOK, Unbilled, Order
<1>3. FetchInv' /\ SightInv'
  BY <1>1, SightStays DEF DeskInv, FetchInv, SameAnswers
<1>. QED
  BY <1>1, <1>2, <1>3, QueryChanges DEF DeskInv, TypeOK

LEMMA BillFetchedInv ==
  ASSUME DeskInv, BillFetched
  PROVE  DeskInv'
<1>1. /\ fetch \notin {Idle, Asked} /\ fetch' = Idle /\ Show(fetch[2])
      /\ UNCHANGED <<n, bills, since, txn, txns, list, stale, open, blind, reqs, note>>
  BY DEF BillFetched, server
<1>2. PICK b \in Bill : fetch = Read(b)
  BY <1>1 DEF DeskInv, FetchInv
<1>3. Show(b) /\ open # 0
  BY <1>1, <1>2, ReadsDiffer DEF DeskInv, FetchInv
<1>4. /\ cache' = b /\ FieldInv' /\ typed' \in BOOLEAN
      /\ amount' \in Amount
      /\ amount' > 0 => b.status = "OPEN"
  BY <1>3, ShowField
<1>5. TypeOK'
  BY <1>1, <1>3, <1>4, NoneAssumption DEF DeskInv, TypeOK
<1>6. TxnInv' /\ FetchInv'
  BY <1>1 DEF DeskInv, TxnInv, FetchInv
<1>7. ReqsInv' /\ FreshOfferAccepted'
  BY <1>1 DEF DeskInv, ReqsInv, FreshOfferAccepted
<1>8. SightInv'
  <2> SUFFICES ASSUME ~blind
               PROVE  AnswersCurrent' /\ ReadCurrent' /\ CopyFollows'
    BY <1>1 DEF SightInv
  <2>1. AnswersCurrent /\ ReadCurrent
    BY <1>3 DEF DeskInv, SightInv
  <2>2. note \/ b = bills[open]
    BY <1>2, <2>1 DEF ReadCurrent
  <2>3. AnswersCurrent'
    BY <1>1, <2>1 DEF AnswersCurrent
  <2>4. ReadCurrent'
    BY <1>1, ReadsDiffer DEF ReadCurrent
  <2>5. CopyFollows'
    BY <1>1, <1>4, <2>2 DEF CopyFollows
  <2>. QED
    BY <2>3, <2>4, <2>5
<1>. QED
  BY <1>1, <1>4, <1>5, <1>6, <1>7, <1>8 DEF DeskInv

-----------------------------------------------------------------------------
(* The dialog.                                                             *)

\* The payment's field changes, and nothing else.
LEMMA FieldChanges ==
  ASSUME DeskInv,
         UNCHANGED <<n, bills, since, txn, txns, list, stale, open, cache, fetch, blind, reqs, note>>,
         amount' \in Amount, typed' \in BOOLEAN, FieldInv',
         cache # None, cache.status = "OPEN"
  PROVE  DeskInv'
<1>1. TypeOK'
  BY DEF DeskInv, TypeOK
<1>2. TxnInv' /\ FetchInv'
  BY DEF DeskInv, TxnInv, FetchInv
<1>3. ReqsInv' /\ FreshOfferAccepted'
  BY DEF DeskInv, ReqsInv, FreshOfferAccepted
<1>4. SightInv'
  BY SightStays DEF DeskInv, SameAnswers
<1>. QED
  BY <1>1, <1>2, <1>3, <1>4 DEF DeskInv

LEMMA TypeAmountInv ==
  ASSUME DeskInv, NEW a \in 1..MaxPaid, TypeAmount(a)
  PROVE  DeskInv'
<1>1. /\ open # 0 /\ IsOpen(cache) /\ amount' = a /\ typed' = TRUE
      /\ UNCHANGED <<n, bills, since, txn, txns, list, stale, open, cache, fetch, blind, reqs, note>>
  BY DEF TypeAmount, server
<1>2. amount' \in Amount
  BY <1>1, AmountTyped
<1>3. FieldInv'
  BY <1>1 DEF FieldInv
<1>. QED
  BY <1>1, <1>2, <1>3, FieldChanges DEF DeskInv, TypeOK, IsOpen

LEMMA ChooseMethodInv ==
  ASSUME DeskInv, ChooseMethod
  PROVE  DeskInv'
<1>1. /\ open # 0 /\ IsOpen(cache) /\ amount' = Remaining(cache) /\ typed' = FALSE
      /\ UNCHANGED <<n, bills, since, txn, txns, list, stale, open, cache, fetch, blind, reqs, note>>
  BY DEF ChooseMethod, server
<1>2. cache \in Bill /\ cache # None
  BY <1>1 DEF DeskInv, TypeOK
<1>3. amount' \in Amount
  BY <1>1, <1>2, AmountTyped
<1>4. FieldInv'
  BY <1>1 DEF FieldInv
<1>. QED
  BY <1>1, <1>2, <1>3, <1>4, FieldChanges DEF IsOpen

LEMMA CloseDialogInv ==
  ASSUME DeskInv, CloseDialog
  PROVE  DeskInv'
<1> DEFINE hidden(r) == [r EXCEPT !.shown = FALSE]
<1>1. /\ open' = 0 /\ cache' = None /\ fetch' = Idle /\ amount' = 0 /\ typed' = FALSE
      /\ reqs' = {hidden(r) : r \in reqs}
      /\ UNCHANGED <<n, bills, since, txn, txns, list, stale, note>>
  BY DEF CloseDialog, server
<1>2. ASSUME NEW r \in reqs
      PROVE  /\ hidden(r) \in Request /\ hidden(r).state = r.state /\ hidden(r).op = r.op
             /\ hidden(r).bill = r.bill /\ hidden(r).answer = r.answer
             /\ hidden(r).fresh = r.fresh /\ hidden(r).arg = r.arg
  BY DEF DeskInv, ReqsInv, Request
<1> HIDE DEF hidden
<1>3. \A u \in reqs' : \E r \in reqs :
        /\ u \in Request /\ u.state = r.state /\ u.op = r.op /\ u.bill = r.bill
        /\ u.answer = r.answer /\ u.fresh = r.fresh /\ u.arg = r.arg
  BY <1>1, <1>2
<1>4. \A r \in reqs : r.state = "doing" =>
        \E u \in reqs' : u.state = "doing" /\ u.op = r.op /\ u.bill = r.bill
  BY <1>1, <1>2
<1>5. TypeOK'
  <2>1. bills \in Seq(Bill) /\ Len(bills) \in Nat
    BY DEF DeskInv
  <2>2. amount' \in Amount
    BY <1>1, AmountTyped
  <2>3. /\ n' \in 0..MaxOrder /\ since' \in 0..n' /\ txns' \in 0..MaxTxn
        /\ \A b \in DOMAIN bills' : bills'[b] \in Bill
        /\ list' \subseteq Order /\ stale' \in BOOLEAN /\ note' \in BOOLEAN
    BY <1>1 DEF DeskInv, TypeOK
  <2>4. open' \in 0..Len(bills')
    BY <1>1, <2>1
  <2>5. cache' = None /\ open' = 0 /\ ~(amount' > 0)
    BY <1>1
  <2>6. typed' \in BOOLEAN
    BY <1>1
  <2>. QED
    BY <2>2, <2>3, <2>4, <2>5, <2>6 DEF TypeOK
<1>6. TxnInv'
  BY <1>1, <1>4, TxnStays DEF DeskInv
<1>7. FetchInv' /\ FieldInv' /\ SightInv'
  BY <1>1 DEF FetchInv, FieldInv, SightInv
<1>8. ReqsInv'
  BY <1>1, <1>3 DEF DeskInv, ReqsInv
<1>9. FreshOfferAccepted'
  <2>1. ASSUME NEW u \in reqs', u.fresh, u.state = "sent"
        PROVE  /\ Allowed(u.op, bills'[u.bill], u.arg)
               /\ u.op = "pay" => u.arg <= Max({0, Total(bills'[u.bill]) - bills'[u.bill].paid})
    <3>1. PICK r \in reqs : /\ r.fresh /\ r.state = "sent"
                            /\ u.op = r.op /\ u.bill = r.bill /\ u.arg = r.arg
      BY <1>3, <2>1
    <3>2. /\ Allowed(r.op, bills[r.bill], r.arg)
          /\ r.op = "pay" => r.arg <= Max({0, Total(bills[r.bill]) - bills[r.bill].paid})
      BY <3>1 DEF DeskInv, FreshOfferAccepted
    <3>. QED
      BY <1>1, <3>1, <3>2
  <2>. QED
    BY <2>1 DEF FreshOfferAccepted
<1>. QED
  BY <1>1, <1>5, <1>6, <1>7, <1>8, <1>9 DEF DeskInv

\* A transaction does not wait for a request that is done.
LEMMA TxnKeeps ==
  ASSUME DeskInv, NEW r \in reqs, r.state = "done", reqs' = reqs \ {r}, UNCHANGED server
  PROVE  TxnInv' /\ ReqsInv' /\ FreshOfferAccepted'
<1>1. UNCHANGED <<n, bills, txn>>
  BY DEF server
<1>2. TxnInv'
  BY <1>1, TxnStays DEF DeskInv
<1>. QED
  BY <1>1, <1>2, FewerRequests DEF DeskInv

LEMMA LoseAnswerInv ==
  ASSUME DeskInv, NEW r \in reqs, LoseAnswer(r)
  PROVE  DeskInv'
<1>1. /\ r.state = "done" /\ reqs' = reqs \ {r} /\ blind' = (open # 0) /\ UNCHANGED server
      /\ UNCHANGED <<n, bills, since, txn, txns, list, stale, open, cache, fetch, amount, typed, note>>
  BY DEF LoseAnswer, server
<1>2. TxnInv' /\ ReqsInv' /\ FreshOfferAccepted'
  BY <1>1, TxnKeeps
<1>3. TypeOK'
  BY <1>1 DEF DeskInv, TypeOK
<1>4. FetchInv' /\ FieldInv' /\ SightInv'
  BY <1>1 DEF DeskInv, FetchInv, FieldInv, SightInv
<1>. QED
  BY <1>1, <1>2, <1>3, <1>4 DEF DeskInv

LEMMA SessionOpenedInv ==
  ASSUME DeskInv, NEW r \in reqs, SessionOpened(r)
  PROVE  DeskInv'
<1>1. /\ r.state = "done" /\ r.op = "generate" /\ reqs' = reqs \ {r} /\ UNCHANGED server
      /\ UNCHANGED <<n, bills, since, txn, txns, list, note>>
      /\ open' = r.answer[1] /\ cache' = r.answer[2] /\ fetch' = Idle /\ typed' = FALSE /\ stale' = TRUE
      /\ amount' = IF IsOpen(r.answer[2]) THEN Remaining(r.answer[2]) ELSE 0
      /\ blind' = (bills[r.answer[1]] # r.answer[2] \/ \E q \in reqs \ {r} : q.state = "done")
  BY DEF SessionOpened, server
<1>2. r.answer \in Answer /\ r.answer # <<>> /\ r.answer[1] \in DOMAIN bills
  BY <1>1 DEF DeskInv, ReqsInv, Request
<1>3. r.answer[2] \in Bill /\ r.answer[2] # None
  BY <1>2, NoneAssumption DEF Answer
<1>4. open' \in 1..Len(bills) /\ Len(bills) \in Nat
  BY <1>1, <1>2 DEF DeskInv
<1>5. TxnInv' /\ ReqsInv' /\ FreshOfferAccepted'
  BY <1>1, TxnKeeps
<1>6. amount' \in Amount
  BY <1>1, <1>3, AmountTyped
<1>7. TypeOK'
  <2>1. amount' > 0 => cache' # None /\ cache'.status = "OPEN"
    BY <1>1, <1>3 DEF IsOpen
  <2>2. /\ n' \in 0..MaxOrder /\ since' \in 0..n' /\ txns' \in 0..MaxTxn
        /\ \A b \in DOMAIN bills' : bills'[b] \in Bill
        /\ list' \subseteq Order /\ stale' \in BOOLEAN /\ note' \in BOOLEAN
    BY <1>1 DEF DeskInv, TypeOK
  <2>3. open' \in 0..Len(bills') /\ open' # 0
    BY <1>1, <1>4
  <2>4. cache' \in Bill /\ cache' # None
    BY <1>1, <1>3
  <2>5. typed' \in BOOLEAN
    BY <1>1
  <2>. QED
    BY <1>6, <2>1, <2>2, <2>3, <2>4, <2>5 DEF TypeOK
<1>8. FetchInv' /\ FieldInv'
  BY <1>1, <1>4 DEF FetchInv, FieldInv
<1>9. SightInv'
  BY <1>1, ReadsDiffer DEF SightInv, AnswersCurrent, ReadCurrent, CopyFollows
<1>. QED
  BY <1>1, <1>5, <1>7, <1>8, <1>9 DEF DeskInv

\* The answer of an edit is put into the cache of its bill: it is the bill.
LEMMA EditedInv ==
  ASSUME DeskInv, NEW r \in reqs, Edited(r)
  PROVE  DeskInv'
<1>1. /\ r.state = "done" /\ r.op # "pay" /\ reqs' = reqs \ {r} /\ SetBill(r) /\ UNCHANGED server
      /\ UNCHANGED <<n, bills, since, txn, txns, list, open, fetch, blind, note>>
      /\ stale' = IF r.op \in {"nc", "voidBill"} THEN TRUE ELSE stale
  BY DEF Edited, server
<1>2. r.answer \in Answer /\ r.answer # <<>> /\ r.answer[1] \in DOMAIN bills
  BY <1>1 DEF DeskInv, ReqsInv, Request
<1>3. r.answer[2] \in Bill /\ r.answer[1] # 0
  BY <1>2 DEF Answer, DeskInv
<1>4. TxnInv' /\ ReqsInv' /\ FreshOfferAccepted'
  BY <1>1, TxnKeeps
<1>5. stale' \in BOOLEAN
  BY <1>1 DEF DeskInv, TypeOK
<1>6. FetchInv'
  BY <1>1 DEF DeskInv, FetchInv
<1>7. CASE open = r.answer[1]
  <2>1. Show(r.answer[2])
    BY <1>1, <1>7 DEF SetBill
  <2>2. /\ cache' = r.answer[2] /\ FieldInv' /\ typed' \in BOOLEAN /\ amount' \in Amount
        /\ amount' > 0 => r.answer[2].status = "OPEN"
    BY <1>3, <2>1, ShowField
  <2>3. TypeOK'
    <3>1. r.answer[2] # None
      BY <1>3, NoneAssumption
    <3>. QED
      BY <1>1, <1>3, <1>5, <1>7, <2>2, <3>1 DEF DeskInv, TypeOK
  <2>4. SightInv'
    <3> SUFFICES ASSUME open # 0, ~blind
                 PROVE  AnswersCurrent' /\ ReadCurrent' /\ CopyFollows'
      BY <1>1 DEF SightInv
    <3>1. AnswersCurrent /\ ReadCurrent
      BY DEF DeskInv, SightInv
    <3>2. cache' = bills[open]
      BY <1>1, <1>7, <2>2, <3>1 DEF AnswersCurrent
    <3>. QED
      BY <1>1, <3>1, <3>2 DEF AnswersCurrent, ReadCurrent, CopyFollows
  <2>. QED
    BY <1>1, <1>4, <1>6, <2>2, <2>3, <2>4 DEF DeskInv
<1>8. CASE open # r.answer[1]
  <2>1. UNCHANGED <<cache, amount, typed>>
    BY <1>1, <1>8 DEF SetBill
  <2>2. TypeOK'
    BY <1>1, <1>5, <2>1 DEF DeskInv, TypeOK
  <2>3. FieldInv'
    BY <2>1 DEF DeskInv, FieldInv
  <2>4. SightInv'
    <3> SUFFICES ASSUME open # 0, ~blind
                 PROVE  AnswersCurrent' /\ ReadCurrent' /\ CopyFollows'
      BY <1>1 DEF SightInv
    <3>1. AnswersCurrent /\ ReadCurrent /\ CopyFollows
      BY DEF DeskInv, SightInv
    <3>2. ASSUME NEW q \in reqs, Corrects(q)
          PROVE  q \in reqs' /\ Corrects(q)'
      BY <1>1, <1>8, <3>2 DEF Corrects
    <3>. QED
      BY <1>1, <2>1, <3>1, <3>2 DEF AnswersCurrent, ReadCurrent, CopyFollows
  <2>. QED
    BY <1>1, <1>4, <1>6, <2>2, <2>3, <2>4 DEF DeskInv
<1>. QED
  BY <1>7, <1>8

\* The answer of a payment is not the bill: the bill is fetched again.
LEMMA PaymentTakenInv ==
  ASSUME DeskInv, NEW r \in reqs, PaymentTaken(r)
  PROVE  DeskInv'
<1>1. /\ r.state = "done" /\ r.op = "pay" /\ reqs' = reqs \ {r} /\ stale' = TRUE /\ UNCHANGED server
      /\ UNCHANGED <<n, bills, since, txn, txns, list, open, cache, amount, typed, blind, note>>
      /\ IF r.bill = open THEN fetch' = IF open = 0 THEN Idle ELSE Asked ELSE fetch' = fetch
  BY DEF PaymentTaken, BillInvalidated, server
<1>2. TxnInv' /\ ReqsInv' /\ FreshOfferAccepted'
  BY <1>1, TxnKeeps
<1>3. TypeOK' /\ FetchInv' /\ FieldInv'
  BY <1>1 DEF DeskInv, TypeOK, FetchInv, FieldInv
<1>4. SightInv'
  <2> SUFFICES ASSUME open # 0, ~blind
               PROVE  AnswersCurrent' /\ ReadCurrent' /\ CopyFollows'
    BY <1>1 DEF SightInv
  <2>1. AnswersCurrent /\ ReadCurrent /\ CopyFollows
    BY DEF DeskInv, SightInv
  <2>2. AnswersCurrent'
    BY <1>1, <2>1 DEF AnswersCurrent
  <2>3. ReadCurrent'
    BY <1>1, <2>1, ReadsDiffer DEF ReadCurrent
  <2>4. CopyFollows'
    <3>1. CASE r.bill = open
      BY <1>1, <3>1, ReadsDiffer DEF CopyFollows
    <3>2. CASE r.bill # open
      <4>1. ASSUME NEW q \in reqs, Corrects(q)
            PROVE  q \in reqs' /\ Corrects(q)'
        BY <1>1, <3>2, <4>1 DEF Corrects
      <4>. QED
        BY <1>1, <2>1, <3>2, <4>1 DEF CopyFollows
    <3>. QED
      BY <3>1, <3>2
  <2>. QED
    BY <2>2, <2>3, <2>4
<1>. QED
  BY <1>1, <1>2, <1>3, <1>4 DEF DeskInv

-----------------------------------------------------------------------------
(* The specification.                                                      *)

LEMMA InitInv ==
  ASSUME Init
  PROVE  DeskInv
<1>1. /\ n = 0 /\ bills = <<>> /\ since = 0 /\ txn = None /\ txns = 0 /\ list = {} /\ stale = TRUE
      /\ open = 0 /\ cache = None /\ fetch = Idle /\ amount = 0 /\ typed = FALSE
      /\ reqs = {} /\ note = FALSE
  BY DEF Init
<1>2. bills \in Seq(Bill) /\ Len(bills) = 0 /\ DOMAIN bills = {}
  BY <1>1
<1>3. TypeOK
  <2>1. n \in 0..MaxOrder /\ since \in 0..n /\ txns \in 0..MaxTxn
    BY <1>1, Constants
  <2>2. amount \in Amount /\ ~(amount > 0)
    BY <1>1, AmountTyped
  <2>3. open \in 0..Len(bills)
    BY <1>1, <1>2
  <2>4. stale \in BOOLEAN /\ typed \in BOOLEAN /\ note \in BOOLEAN
    BY <1>1
  <2>. QED
    BY <1>1, <1>2, <2>1, <2>2, <2>3, <2>4 DEF TypeOK
<1>4. TxnInv /\ FetchInv /\ ReqsInv /\ FieldInv /\ SightInv /\ FreshOfferAccepted
  BY <1>1 DEF TxnInv, FetchInv, ReqsInv, FieldInv, SightInv, FreshOfferAccepted
<1>. QED
  BY <1>2, <1>3, <1>4 DEF DeskInv

LEMMA StutterInv ==
  ASSUME DeskInv, UNCHANGED vars
  PROVE  DeskInv'
<1>1. UNCHANGED <<n, bills, since, txn, txns, list, stale, open, cache, fetch, amount, typed, reqs, note, blind>>
  BY DEF vars, server, dialog
<1>2. FetchInv' /\ SightInv'
  BY <1>1, SightStays DEF DeskInv, FetchInv, SameAnswers
<1>. QED
  BY <1>1, <1>2, QueryChanges DEF DeskInv, TypeOK

LEMMA StepInv ==
  ASSUME DeskInv, [Next]_vars
  PROVE  DeskInv'
<1>1. ASSUME NEW op \in Ops, NEW b \in 0..MaxBill, NEW arg \in 0..MaxOrder, BeginOther(op, b, arg)
      PROVE  DeskInv'
  BY <1>1, BeginOtherInv
<1>2. ASSUME NEW r \in reqs, BeginMine(r)
      PROVE  DeskInv'
  BY <1>2, BeginMineInv
<1>3. ASSUME NEW a \in 1..MaxPaid, TypeAmount(a)
      PROVE  DeskInv'
  BY <1>3, TypeAmountInv
<1>4. ASSUME NEW op \in Ops, NEW arg \in 0..MaxOrder, Press(op, arg)
      PROVE  DeskInv'
  BY <1>4, PressInv
<1>5. ASSUME NEW r \in reqs,
             \/ CloseForm(r) \/ Refused(r) \/ LoseAnswer(r) \/ SessionOpened(r)
             \/ Edited(r) \/ PaymentTaken(r)
      PROVE  DeskInv'
  BY <1>5, CloseFormInv, RefusedInv, LoseAnswerInv, SessionOpenedInv, EditedInv, PaymentTakenInv
<1>6. ASSUME \/ Commit \/ PlaceOrder \/ Hear \/ LoseMessage \/ ReadBill \/ BillFetched \/ BillFetchFails
             \/ ListFetched \/ OpenSession \/ CloseDialog \/ PrintBill \/ ChooseMethod
      PROVE  DeskInv'
  BY <1>6, CommitInv, PlaceOrderInv, HearInv, LoseMessageInv, ReadBillInv, BillFetchedInv,
     BillFetchFailsInv, ListFetchedInv, OpenSessionInv, CloseDialogInv, PrintBillInv, ChooseMethodInv
<1>. QED
  BY <1>1, <1>2, <1>3, <1>4, <1>5, <1>6, StutterInv DEF Next

\* What DeskInv says of the till, of what is on its way and of the server's
\* transaction holds in every state, whoever acts on the bills.
THEOREM DeskInvariant == Spec => []DeskInv
<1>1. Init => DeskInv
  BY InitInv
<1>2. DeskInv /\ [Next]_vars => DeskInv'
  BY StepInv
<1>. QED
  BY <1>1, <1>2, PTL DEF Spec

\* A till whose dialog is at rest shows the bill as the server has it, unless
\* it lost a message, an answer or a fetch, or acted while an older answer
\* was on its way (setQueryData and useInvalidateBillingViews).
THEOREM TillIsRight == Spec => []TillInv
<1>1. DeskInv => TillInv
  <2> SUFFICES ASSUME DeskInv PROVE TypeOK /\ QuietTillIsRight
    BY DEF TillInv
  <2>1. TypeOK
    BY DEF DeskInv
  <2>2. QuietTillIsRight
    <3> SUFFICES ASSUME open # 0, ~blind, ~note, fetch = Idle, \A r \in reqs : r.state # "done"
                 PROVE  cache = bills[open]
      BY DEF QuietTillIsRight
    <3>1. CopyFollows
      BY DEF DeskInv, SightInv
    <3>. QED
      BY <3>1 DEF CopyFollows, Corrects
  <2>. QED
    BY <2>1, <2>2
<1>. QED
  BY <1>1, DeskInvariant, PTL

\* What the dialog offers on an up-to-date copy of the bill the server does
\* not refuse for the state of the bill, and the amount that it proposes is
\* no more than what remains (NoChargeButton, BillItemsList and PaymentPanel).
THEOREM FreshOffersAccepted == Spec => []FreshOfferAccepted
<1>1. DeskInv => FreshOfferAccepted
  BY DEF DeskInv
<1>. QED
  BY <1>1, DeskInvariant, PTL
=============================================================================
