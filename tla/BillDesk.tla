------------------------------- MODULE BillDesk -------------------------------
(***************************************************************************)
(* A till at the billing desk (frontend/src/features/billing and payments, *)
(* hooks/useLiveUpdates.ts) and the server behind it, for one table        *)
(* session: the list of sessions to bill, polled every 20 seconds; the     *)
(* dialog of one bill, whose copy in the query cache is replaced by the    *)
(* answers of the till's own requests and fetched again when a payment or  *)
(* a message of the socket says so; and every button the dialog offers.    *)
(*                                                                         *)
(* Other tills, waiters and Razorpay act on the same bills.  The server    *)
(* does one request at a time (Billing and Takings look inside), in two    *)
(* steps, for its message to the tills leaves before its commit.           *)
(*                                                                         *)
(* An order is one item, a discount takes 1 off, PARTIALLY_PAID is OPEN    *)
(* with something paid, and a refusal for a reason the client does not     *)
(* look at (a toggle, a role, no open shift) may meet any request.         *)
(***************************************************************************)
EXTENDS Integers, Sequences, FiniteSetsExt

CONSTANTS Manager,    \* the user is OWNER or MANAGER
          OthersDo,   \* the operations other tills carry out
          None,
          Price,      \* of an order
          MaxOrder,   \* bound: orders of the session
          MaxBill,    \* bound: bills of the session
          MaxPaid,    \* bound: money taken on a bill
          MaxTxn,     \* bound: transactions of the server
          MaxReq      \* bound: requests of the till under way

ItemOps == {"void", "comp", "uncomp"}
Ops == ItemOps \cup {"generate", "discount", "pay", "nc", "voidBill", "print"}
Notifying == {"pay", "nc", "voidBill"}

ASSUME Bounds ==
  /\ Manager \in BOOLEAN /\ OthersDo \subseteq Ops
  /\ {Price, MaxOrder, MaxBill, MaxPaid, MaxTxn, MaxReq} \subseteq Nat \ {0}

Order == 1..MaxOrder

(* A query without a request, or with one that no answer is on its way to. *)
Idle == <<>>
Asked == <<"asked">>

VARIABLES
  n,        \* server: orders placed
  bills,    \* server: the session's bills, oldest first
  since,    \* server: orders placed when the latest bill last changed
  txn,      \* server: the transaction under way
  txns,     \* bound: transactions so far
  list,     \* till: orders on the page, what GET /unbilled-orders answered
  stale,    \* till: the list was invalidated and is being asked for again
  open,     \* till: the bill in the dialog
  cache,    \* till: what it shows
  fetch,    \* till: GET /billing/{id}, likewise
  amount, typed,  \* till: field of the payment panel; typed into since set
  reqs,     \* till: requests under way
  note,     \* a message to the tills is on its way to this one
  blind     \* ghost: something happened that the till had no means to see

server == <<n, bills, since, txn, txns>>
dialog == <<open, cache, fetch, amount, typed, blind>>
vars == <<server, list, stale, dialog, reqs, note>>

Init ==
  /\ n = 0 /\ bills = <<>> /\ since = 0 /\ txn = None /\ txns = 0
  /\ list = {} /\ stale = TRUE
  /\ open = 0 /\ cache = None /\ fetch = Idle /\ amount = 0 /\ typed = FALSE
  /\ reqs = {} /\ note = FALSE /\ blind = FALSE

-----------------------------------------------------------------------------
(* The server *)

Live(b) == {i \in Order : b.line[i] = "live"}

Total(b) == Max({0, Price * Cardinality(Live(b)) - b.disc})

IsOpen(b) == b.status = "OPEN"

(* PAID once something was paid and it covers the total. *)
Recomputed(b) ==
  [b EXCEPT !.status = IF @ = "OPEN" /\ b.paid > 0 /\ b.paid >= Total(b) THEN "PAID" ELSE @]

(* Orders that still need billing: all while the latest bill is open, else *)
(* those placed after it last changed.                                     *)
Unbilled ==
  IF bills = <<>> \/ IsOpen(bills[Len(bills)]) THEN 1..n ELSE since + 1..n

(* What the server checks before it carries out an operation. *)
Allowed(op, b, arg) ==
  CASE op \in {"discount", "pay"} -> IsOpen(b)
    [] op = "void" -> arg \in Order /\ IsOpen(b) /\ b.line[arg] \in {"live", "comp"}
    [] op = "comp" -> arg \in Order /\ IsOpen(b) /\ b.line[arg] = "live"
    [] op = "uncomp" -> arg \in Order /\ IsOpen(b) /\ ~b.nc /\ b.line[arg] = "comp"
    [] op = "nc" -> b.status # "CANCELLED" /\ ~b.nc /\ b.paid = 0
    [] op = "voidBill" -> b.status # "CANCELLED"
    [] op = "print" -> TRUE

Effect(op, b, arg) ==
  CASE op = "discount" -> Recomputed([b EXCEPT !.disc = @ + 1])
    [] op = "pay" -> Recomputed([b EXCEPT !.paid = @ + arg])
    [] op = "void" -> Recomputed([b EXCEPT !.line[arg] = "void"])
    [] op = "comp" -> Recomputed([b EXCEPT !.line[arg] = "comp"])
    [] op = "uncomp" -> Recomputed([b EXCEPT !.line[arg] = "live"])
    [] op = "nc" -> [b EXCEPT !.nc = TRUE, !.status = "PAID",
                       !.line = [i \in Order |-> IF @[i] = "live" THEN "comp" ELSE @[i]]]
    [] op = "voidBill" -> [b EXCEPT !.status = "CANCELLED"]
    [] op = "print" -> b

(* A bill with every order of the session that it does not carry yet. *)
Synced(b) ==
  Recomputed([b EXCEPT !.line = [i \in Order |-> IF i <= n /\ @[i] = "off" THEN "live" ELSE @[i]]])

NewBill == [status |-> "OPEN", line |-> [i \in Order |-> "off"], disc |-> 0, paid |-> 0,
            nc |-> FALSE]

(* generate_or_refresh_bill: the open bill brought up to date, or another *)
(* bill over all of the session's orders.                                  *)
Generated ==
  IF bills # <<>> /\ IsOpen(bills[Len(bills)])
  THEN [bill |-> Len(bills), rec |-> Synced(bills[Len(bills)])]
  ELSE [bill |-> Len(bills) + 1, rec |-> Synced(NewBill)]

(* The transaction of operation op on bill b, by this till or another. *)
Begin(op, b, arg, mine) ==
  /\ txn = None /\ txns < MaxTxn /\ txns' = txns + 1
  /\ IF op = "generate"
     THEN /\ n > 0 /\ Generated.bill <= MaxBill
          /\ txn' = [bill |-> Generated.bill, rec |-> Generated.rec, since |-> n,
                     mine |-> mine, op |-> op]
     ELSE /\ b \in DOMAIN bills /\ Allowed(op, bills[b], arg)
          /\ op = "pay" => bills[b].paid + arg <= MaxPaid
          /\ op = "discount" => bills[b].disc = 0
          /\ txn' = [bill |-> b, rec |-> Effect(op, bills[b], arg), since |-> n,
                     mine |-> mine, op |-> op]
  /\ note' = (note \/ op \in Notifying)
  /\ UNCHANGED <<n, bills, since>>

BeginOther(op, b, arg) ==
  /\ op \in OthersDo /\ Begin(op, b, arg, FALSE)
  /\ UNCHANGED <<list, stale, dialog, reqs>>

BeginMine(r) ==
  /\ r.state = "sent" /\ Begin(r.op, r.bill, r.arg, TRUE)
  /\ reqs' = (reqs \ {r}) \cup {[r EXCEPT !.state = "doing", !.arg = 0, !.fresh = FALSE]}
  /\ UNCHANGED <<list, stale, dialog>>

(* The ghost: a change of this till is seen through its answer, unless an  *)
(* older answer or fetch may still come after it; another's through the    *)
(* message, unless there is none or it came before the commit.             *)
Commit ==
  /\ txn # None /\ txn' = None
  /\ bills' = IF txn.bill > Len(bills) THEN Append(bills, txn.rec)
              ELSE [bills EXCEPT ![txn.bill] = txn.rec]
  /\ since' = IF txn.bill >= Len(bills) THEN txn.since ELSE since
  /\ reqs' = {[r EXCEPT !.fresh = FALSE,
                        !.state = IF @ = "doing" THEN "done" ELSE @,
                        !.answer = IF r.state = "doing" /\ r.op # "pay"
                                   THEN <<txn.bill, txn.rec>> ELSE @] :
                r \in reqs}
  /\ blind' = (open # 0 /\ (\/ blind \/ \E r \in reqs : r.state = "done"
                            \/ IF txn.mine THEN fetch \notin {Idle, Asked} ELSE ~note))
  /\ UNCHANGED <<n, txns, list, stale, open, cache, fetch, amount, typed, note>>

(* Another order of the table; its message is not about bills. *)
PlaceOrder ==
  /\ n < MaxOrder /\ n' = n + 1
  /\ UNCHANGED <<bills, since, txn, txns, list, stale, dialog, reqs, note>>

-----------------------------------------------------------------------------
(* The till's queries *)

Remaining(b) == Max({0, Total(b) - b.paid})

(* Mutant: the field keeps the figure of the payment just taken. *)
AmountKept(b) == IF ~IsOpen(b) THEN 0 ELSE IF amount = 0 THEN Remaining(b) ELSE amount

(* The payment panel is mounted for an open bill, and its field follows    *)
(* the remaining balance whenever that changes.                            *)
AmountAfter(b) ==
  CASE ~IsOpen(b) -> 0
    [] IsOpen(b) /\ cache # None /\ IsOpen(cache) /\ Remaining(cache) = Remaining(b) -> amount
    [] OTHER -> Remaining(b)

TypedAfter(b) ==
  typed /\ IsOpen(b) /\ cache # None /\ IsOpen(cache) /\ Remaining(cache) = Remaining(b)

Show(b) ==
  /\ cache' = b /\ amount' = AmountAfter(b) /\ typed' = TypedAfter(b)

(* Invalidating a query cancels the request under way and asks again, if  *)
(* somebody looks at it.                                                   *)
BillInvalidated == fetch' = IF open = 0 THEN Idle ELSE Asked

Hear ==
  /\ note /\ note' = FALSE
  /\ BillInvalidated /\ stale' = TRUE
  /\ UNCHANGED <<server, list, open, cache, amount, typed, reqs, blind>>

(* The socket is down; nothing is asked again when it comes back. *)
LoseMessage ==
  /\ note /\ note' = FALSE /\ blind' = (open # 0)
  /\ UNCHANGED <<server, list, stale, open, cache, fetch, amount, typed, reqs>>

ReadBill ==
  /\ fetch = Asked /\ fetch' = <<"read", bills[open]>>
  /\ UNCHANGED <<server, list, stale, open, cache, amount, typed, blind, reqs, note>>

BillFetched ==
  /\ fetch \notin {Idle, Asked} /\ fetch' = Idle /\ Show(fetch[2])
  /\ UNCHANGED <<server, list, stale, open, blind, reqs, note>>

(* The request failed, also when tried again: the old copy stays. *)
BillFetchFails ==
  /\ fetch # Idle /\ fetch' = Idle /\ blind' = TRUE
  /\ UNCHANGED <<server, list, stale, open, cache, amount, typed, reqs, note>>

(* Mutant: without refetchInterval. *)
NeverDue == FALSE

(* refetchInterval *)
PollDue == TRUE

ListFetched ==
  /\ stale \/ PollDue
  /\ stale' = FALSE /\ list' = Unbilled
  /\ UNCHANGED <<server, dialog, reqs, note>>

-----------------------------------------------------------------------------
(* The page and the dialog *)

Send(op, b, arg, fresh) ==
  /\ Cardinality(reqs) < MaxReq
  /\ reqs' = reqs \cup {[op |-> op, bill |-> b, arg |-> arg, state |-> "sent",
                         answer |-> <<>>, shown |-> TRUE, fresh |-> fresh]}
  /\ UNCHANGED <<server, list, stale, dialog, note>>

(* A card of the page; the dialog, when open, covers it. *)
OpenSession ==
  /\ open = 0 /\ list # {} /\ \A r \in reqs : r.op # "generate"
  /\ Send("generate", 0, 0, FALSE)

CloseDialog ==
  /\ open # 0 /\ open' = 0 /\ cache' = None /\ fetch' = Idle
  /\ amount' = 0 /\ typed' = FALSE /\ blind' = FALSE
  /\ reqs' = {[r EXCEPT !.shown = FALSE] : r \in reqs}
  /\ UNCHANGED <<server, list, stale, note>>

(* A form is cancelled while its request is under way. *)
CloseForm(r) ==
  /\ r.op \in {"void", "comp"} /\ r.shown
  /\ reqs' = (reqs \ {r}) \cup {[r EXCEPT !.shown = FALSE]}
  /\ UNCHANGED <<server, list, stale, dialog, note>>

TypeAmount(a) ==
  /\ open # 0 /\ IsOpen(cache) /\ a # amount
  /\ amount' = a /\ typed' = TRUE
  /\ UNCHANGED <<server, list, stale, open, cache, fetch, blind, reqs, note>>

(* The buttons of the payment methods set the field back. *)
ChooseMethod ==
  /\ open # 0 /\ IsOpen(cache)
  /\ amount' = Remaining(cache) /\ typed' = FALSE
  /\ UNCHANGED <<server, list, stale, open, cache, fetch, blind, reqs, note>>

(* Each mutation disables its own button while it is under way. *)
IsPending(op) == \E r \in reqs : r.op = op /\ r.shown

ItemOffers ==
  {<<"void", i>> : i \in Live(cache)} \cup {<<"comp", i>> : i \in Live(cache)}

UncompOffers == {<<"uncomp", i>> : i \in {j \in Order : cache.line[j] = "comp" /\ ~cache.nc}}

(* Once money is on the bill the server refuses this. *)
NoChargeOffer == IF ~cache.nc /\ cache.paid = 0 /\ IsOpen(cache) THEN {<<"nc", 0>>} ELSE {}

DiscountOffer == IF IsOpen(cache) THEN {<<"discount", 0>>} ELSE {}

VoidBillOffer == IF cache.status # "CANCELLED" THEN {<<"voidBill", 0>>} ELSE {}

PaymentOffer == IF IsOpen(cache) /\ amount > 0 THEN {<<"pay", amount>>} ELSE {}

(* The buttons the dialog shows and does not disable. *)
Offers ==
  (IF Manager THEN DiscountOffer \cup NoChargeOffer ELSE {})
    \cup (IF IsOpen(cache) THEN ItemOffers \cup UncompOffers ELSE {})
    \cup VoidBillOffer \cup PaymentOffer

Press(op, arg) ==
  /\ open # 0 /\ <<op, arg>> \in Offers /\ ~IsPending(op)
  /\ Send(op, open, arg, /\ txn = None /\ cache = bills[open]
                         /\ op = "pay" => ~typed)

(* The server refuses, or the request does not arrive: the error is shown *)
(* beside the button and nothing else changes.                             *)
Refused(r) ==
  /\ r.state = "sent" /\ reqs' = reqs \ {r}
  /\ UNCHANGED <<server, list, stale, dialog, note>>

(* The answer is lost: an error, whatever the server did. *)
LoseAnswer(r) ==
  /\ r.state = "done" /\ reqs' = reqs \ {r} /\ blind' = (open # 0)
  /\ UNCHANGED <<server, list, stale, open, cache, fetch, amount, typed, note>>

(* onSuccess of useGenerateBill: the dialog opens on the answer. *)
SessionOpened(r) ==
  /\ r.op = "generate" /\ r.state = "done" /\ reqs' = reqs \ {r}
  /\ open' = r.answer[1] /\ cache' = r.answer[2] /\ fetch' = Idle
  /\ amount' = IF IsOpen(r.answer[2]) THEN Remaining(r.answer[2]) ELSE 0
  /\ typed' = FALSE
  /\ blind' = (bills[r.answer[1]] # r.answer[2] \/ \E q \in reqs \ {r} : q.state = "done")
  /\ stale' = TRUE
  /\ UNCHANGED <<server, list, note>>

(* Mutant: the answer is not put into the cache. *)
CacheKept(r) == UNCHANGED <<cache, amount, typed>>

(* setQueryData *)
SetBill(r) ==
  IF open = r.answer[1] THEN Show(r.answer[2]) ELSE UNCHANGED <<cache, amount, typed>>

(* onSuccess of the other mutations. *)
Edited(r) ==
  /\ r.op \in {"discount", "void", "comp", "uncomp", "nc", "voidBill"}
  /\ r.state = "done" /\ reqs' = reqs \ {r}
  /\ SetBill(r)
  /\ stale' = IF r.op \in {"nc", "voidBill"} THEN TRUE ELSE stale
  /\ UNCHANGED <<server, list, open, fetch, blind, note>>

(* useInvalidateBillingViews: a payment's answer is not the bill. *)
PaymentTaken(r) ==
  /\ r.op = "pay" /\ r.state = "done" /\ reqs' = reqs \ {r}
  /\ IF r.bill = open THEN BillInvalidated ELSE UNCHANGED fetch
  /\ stale' = TRUE
  /\ UNCHANGED <<server, list, open, cache, amount, typed, blind, note>>

(* Printing is offered for any bill; nothing is done with its answer. *)
PrintBill ==
  /\ open # 0 /\ Begin("print", open, 0, TRUE)
  /\ UNCHANGED <<list, stale, dialog, reqs>>

Next ==
  \/ \E op \in Ops, b \in 0..MaxBill, arg \in 0..MaxOrder : BeginOther(op, b, arg)
  \/ \E r \in reqs : BeginMine(r)
  \/ Commit \/ PlaceOrder
  \/ Hear \/ LoseMessage \/ ReadBill \/ BillFetched \/ BillFetchFails
  \/ ListFetched
  \/ OpenSession \/ CloseDialog \/ PrintBill
  \/ ChooseMethod \/ \E a \in 1..MaxPaid : TypeAmount(a)
  \/ \E op \in Ops, arg \in 0..MaxOrder : Press(op, arg)
  \/ \E r \in reqs : \/ CloseForm(r) \/ Refused(r) \/ LoseAnswer(r) \/ SessionOpened(r)
                     \/ Edited(r) \/ PaymentTaken(r)

(* The page's timer and its requests go on; a transaction ends.  Nothing   *)
(* is assumed of users, of the dialog's requests or of the socket.         *)
Fairness == WF_vars(ListFetched) /\ WF_vars(Commit)

Spec == Init /\ [][Next]_vars /\ Fairness

-----------------------------------------------------------------------------
Bill == [status : {"OPEN", "PAID", "CANCELLED"},
         line : [Order -> {"off", "live", "void", "comp"}],
         disc : 0..1, paid : 0..MaxPaid, nc : BOOLEAN]

Amount == 0..MaxPaid + Price * MaxOrder

(* Types; an amount is only ever in a field of a bill that can be paid. *)
TypeOK ==
  /\ n \in 0..MaxOrder /\ since \in 0..n /\ txns \in 0..MaxTxn
  /\ \A b \in DOMAIN bills : bills[b] \in Bill
  /\ list \subseteq Order /\ stale \in BOOLEAN
  /\ open \in 0..Len(bills) /\ (cache = None \/ cache \in Bill) /\ (open = 0) = (cache = None)
  /\ amount > 0 => cache # None /\ cache.status = "OPEN"
  /\ amount \in Amount /\ typed \in BOOLEAN /\ note \in BOOLEAN

(* What the dialog offers on a copy that is up to date the server accepts, *)
(* and the amount it proposes is no more than what remains: the client's   *)
(* rules (NoChargeButton, BillItemsList, PaymentPanel) mirror the server's. *)
FreshOfferAccepted ==
  \A r \in reqs :
    r.fresh /\ r.state = "sent" =>
      /\ Allowed(r.op, bills[r.bill], r.arg)
      /\ r.op = "pay" => r.arg <= Max({0, Total(bills[r.bill]) - bills[r.bill].paid})

(* A till at rest shows the bill as it is, unless something happened that  *)
(* it had no means to see: its own edits through their answers, its        *)
(* payments and the other tills' through another fetch.                    *)
QuietTillIsRight ==
  (/\ open # 0 /\ ~blind /\ txn = None /\ ~note /\ fetch = Idle
   /\ \A r \in reqs : r.state # "done")
    => cache = bills[open]

(* Whatever messages are lost, the page comes to list what is to be billed. *)
SessionsCatchUp == <>[](list = Unbilled)

(* What list_unbilled_orders and BillingPage say they answer, orders with  *)
(* no money settled against them yet, holds at least for those that are on *)
(* no bill whatever.                                                       *)
UnsettledIsListed ==
  \A i \in 1..n : (\A b \in DOMAIN bills : bills[b].line[i] = "off") => i \in Unbilled

(* The till is well formed and, at rest, right.                            *)
TillInv == TypeOK /\ QuietTillIsRight
-----------------------------------------------------------------------------
(* The inductive invariant behind these properties.                        *)

Transaction == [bill : Nat, rec : Bill, since : Nat, mine : BOOLEAN, op : Ops]
Answer == {<<>>} \cup (Nat \X Bill)
Request == [op : Ops, bill : Nat, arg : Nat, state : {"sent", "doing", "done"},
            answer : Answer, shown : BOOLEAN, fresh : BOOLEAN]

ASSUME NoneAssumption == None \notin Bill /\ None \notin Transaction

(* A transaction started from the bills as they are; one of this till but  *)
(* for a print has its request.                                            *)
TxnInv ==
  txn # None =>
    /\ txn \in Transaction
    /\ txn.bill \in 1..Len(bills) + 1 /\ txn.since \in 0..n
    /\ txn.op = "print" => txn.bill \in DOMAIN bills /\ txn.rec = bills[txn.bill]
    /\ txn.mine /\ txn.op # "print" =>
         \E r \in reqs : r.state = "doing" /\ r.op = txn.op /\ (r.op = "pay" => r.bill = txn.bill)

Read(b) == <<"read", b>>

FetchInv ==
  /\ fetch \in {Idle, Asked} \/ \E b \in Bill : fetch = Read(b)
  /\ open = 0 => fetch = Idle

ReqsInv ==
  /\ reqs \subseteq Request
  /\ \A r \in reqs :
       /\ r.state = "doing" => txn # None /\ txn.mine
       /\ r.state = "done" /\ r.op # "pay" =>
            r.answer # <<>> /\ r.answer[1] \in DOMAIN bills
       /\ r.fresh => r.bill \in DOMAIN bills

(* A field that nobody typed into has the balance.                         *)
FieldInv == cache # None /\ IsOpen(cache) /\ ~typed => amount = Remaining(cache)

(* While the ghost says that the till could see everything, what is on its *)
(* way is right: answers, what was read, and something comes if the copy   *)
(* is not.                                                                 *)
AnswersCurrent ==
  \A r \in reqs : r.state = "done" /\ r.op # "pay" /\ r.answer[1] = open => r.answer[2] = bills[open]

ReadCurrent == \A b \in Bill : fetch = Read(b) => note \/ b = bills[open]

Corrects(r) ==
  r.state = "done" /\ (IF r.op = "pay" THEN r.bill ELSE r.answer[1]) = open

CopyFollows ==
  note \/ fetch # Idle \/ cache = bills[open] \/ \E r \in reqs : Corrects(r)

SightInv == open # 0 /\ ~blind => AnswersCurrent /\ ReadCurrent /\ CopyFollows

DeskInv ==
  /\ TypeOK /\ bills \in Seq(Bill)
  /\ TxnInv /\ FetchInv /\ ReqsInv /\ FieldInv /\ SightInv /\ FreshOfferAccepted
=============================================================================
