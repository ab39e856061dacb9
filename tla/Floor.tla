-------------------------------- MODULE Floor --------------------------------
(***************************************************************************)
(* Tables, the order sessions at them, their orders and kitchen tickets:   *)
(* order_service and kot_service, with the bills of billing_service as far *)
(* as the floor sees them.                                                 *)
(*                                                                         *)
(* Each action is one committed request, except create_order at a table,   *)
(* which guests run by themselves from their phones: it finds its session  *)
(* in one step and commits in another, and any request of the staff may    *)
(* commit in between.  A refused request is a step not taken.  Of a        *)
(* table's status only AVAILABLE is ever tested, so the status is whether  *)
(* the table is in the set available; the others are display.              *)
(***************************************************************************)
EXTENDS Naturals, FiniteSets

CONSTANTS
  Table,
  Session,
  Order,
  Bill,
  MaxAway,   \* bound: at most this many orders for pickup or delivery
  None       \* no table, no session, or not a delivery order

VARIABLES
  available, \* the tables whose status is AVAILABLE
  session,   \* session[s]: whether it is open and the table it is at
  order,     \* order[o]: its two statuses, its session and its table
  kot,       \* kot[o]: the kitchen ticket of order o
  bill,      \* bill[b]: status, session, table and the orders on it
  placing    \* placing[o]: what create_order has found for o and not committed

vars == <<available, session, order, kot, bill, placing>>

DeliveryStatus == {"PLACED", "DELIVERED", "CANCELLED"}
OrderStatus == {"absent", "PLACED", "SERVED", "DELIVERED", "CANCELLED"}
KotStatus == {"absent", "NEW", "READY", "SERVED", "CANCELLED"}

TableOrNone == Table \cup {None}

ASSUME FloorAssumption ==
  /\ MaxAway \in Nat
  /\ None \notin Table \cup Session \cup DeliveryStatus

SessionRecord == [status : {"absent", "open", "closed"}, at : TableOrNone]
OrderRecord ==
  [status : OrderStatus, delivery : DeliveryStatus \cup {None},
   session : Session \cup {None}, at : TableOrNone]
KotRecord == [status : KotStatus, at : TableOrNone]
BillRecord ==
  [status : {"absent", "OPEN", "PAID", "CANCELLED"}, session : Session \cup {None},
   at : TableOrNone, lines : SUBSET Order]
PlacingRecord == [table : TableOrNone, session : Session \cup {None}, free : BOOLEAN]

NoSession == [status |-> "absent", at |-> None]
NoOrder == [status |-> "absent", delivery |-> None, session |-> None, at |-> None]
NoKot == [status |-> "absent", at |-> None]
NoBill == [status |-> "absent", session |-> None, at |-> None, lines |-> {}]
Idle == [table |-> None, session |-> None, free |-> FALSE]

-----------------------------------------------------------------------------
OpenAt(l) == {s \in Session : session[s].status = "open" /\ session[s].at = l}

\* The orders of a session that are not cancelled.
LiveOrders(s) ==
  {o \in Order : order[o].status \notin {"absent", "CANCELLED"} /\ order[o].session = s}

\* The tickets the kitchen still works on.
LiveKots == {o \in Order : kot[o].status \notin {"absent", "SERVED", "CANCELLED"}}

\* The guard of transfer and merge: any bill, in any status, counts.  Mutants:
\* only a bill that is still to be paid counts; only one that is settled does.
HasUnpaidBill(s) == \E b \in Bill : bill[b].session = s /\ bill[b].status = "OPEN"
HasPaidBill(s) == \E b \in Bill : bill[b].session = s /\ bill[b].status = "PAID"
HasBill(s) == \E b \in Bill : bill[b].session = s

Init ==
  /\ available = Table
  /\ session = [s \in Session |-> NoSession]
  /\ order = [o \in Order |-> NoOrder]
  /\ kot = [o \in Order |-> NoKot]
  /\ bill = [b \in Bill |-> NoBill]
  /\ placing = [o \in Order |-> Idle]

-----------------------------------------------------------------------------
(* order_service                                                           *)

\* create_order at table l, up to _get_or_create_session: the table is read, any
\* open session of it may come first, and if there is none one will be inserted.
FindSession(o, l) ==
  /\ order[o].status = "absent"
  /\ placing[o] = Idle
  /\ \E s \in IF OpenAt(l) = {} THEN {None} ELSE OpenAt(l) :
       placing' = [placing EXCEPT ![o] =
         [table |-> l, session |-> s, free |-> l \in available]]
  /\ UNCHANGED <<available, session, order, kot, bill>>

\* The commit of create_order: order, ticket, table and, if need be, session.
\* The table becomes KITCHEN, but if it was read as KITCHEN nothing is written.
PlaceOrder(o, s) ==
  LET l == placing[o].table
  IN  /\ placing[o] # Idle
      /\ IF placing[o].session = None
           THEN /\ session[s].status = "absent"
                /\ session' = [session EXCEPT ![s] = [status |-> "open", at |-> l]]
           ELSE s = placing[o].session /\ UNCHANGED session
      /\ order' = [order EXCEPT ![o] =
           [status |-> "PLACED", delivery |-> None, session |-> s, at |-> l]]
      /\ kot' = [kot EXCEPT ![o] = [status |-> "NEW", at |-> l]]
      /\ available' \in {available \ {l}} \cup (IF placing[o].free THEN {} ELSE {available})
      /\ placing' = [placing EXCEPT ![o] = Idle]
      /\ UNCHANGED bill

\* The request fails (an item is out of stock, the connection drops).
GiveUpOrder(o) ==
  /\ placing[o] # Idle
  /\ placing' = [placing EXCEPT ![o] = Idle]
  /\ UNCHANGED <<available, session, order, kot, bill>>

\* create_order for pickup or delivery: a session of its own at no table, with
\* the ticket held back when payment is awaited (hold_kot).
PlaceAway(o, s, delivers, hold) ==
  /\ Cardinality({x \in Order : order[x].status # "absent" /\ order[x].at = None}) < MaxAway
  /\ order[o].status = "absent"
  /\ placing[o] = Idle
  /\ session[s].status = "absent"
  /\ session' = [session EXCEPT ![s] = [status |-> "open", at |-> None]]
  /\ order' = [order EXCEPT ![o] =
       [status |-> "PLACED", delivery |-> IF delivers THEN "PLACED" ELSE None,
        session |-> s, at |-> None]]
  /\ kot' = IF hold THEN kot ELSE [kot EXCEPT ![o] = [status |-> "NEW", at |-> None]]
  /\ UNCHANGED <<available, bill, placing>>

\* cancel_order: the ticket stays as it is.
CancelOrder(o) ==
  /\ order[o].status \notin {"absent", "SERVED", "DELIVERED"}
  /\ order' = [order EXCEPT ![o].status = "CANCELLED"]
  /\ UNCHANGED <<available, session, kot, bill, placing>>

\* Tickets that follow their orders to another table.  Mutant: only those the
\* kitchen has not accepted yet.
KotsMovedIfNew(S, l) ==
  [o \in Order |-> IF o \in S /\ kot[o].status = "NEW"
                     THEN [kot[o] EXCEPT !.at = l] ELSE kot[o]]
KotsMoved(S, l) ==
  [o \in Order |-> IF o \in S \cap LiveKots
                     THEN [kot[o] EXCEPT !.at = l] ELSE kot[o]]

\* transfer_session.  The new table takes over the old one's status;
\* sessions at no table are refused.
TransferSession(s, l) ==
  LET old == session[s].at
  IN  /\ session[s].status = "open"
      /\ old \notin {None, l}
      /\ l \in available
      /\ ~HasBill(s)
      /\ available' = IF old \in available THEN available ELSE (available \ {l}) \cup {old}
      /\ session' = [session EXCEPT ![s].at = l]
      /\ order' = [o \in Order |-> IF o \in LiveOrders(s)
                                     THEN [order[o] EXCEPT !.at = l] ELSE order[o]]
      /\ kot' = KotsMoved(LiveOrders(s), l)
      /\ UNCHANGED <<bill, placing>>

\* merge_sessions: the orders of s that are not cancelled go to session u, and
\* s closes.
MergeSessions(s, u) ==
  /\ s # u
  /\ \A x \in {s, u} :
       session[x].status = "open" /\ session[x].at # None /\ ~HasBill(x)
  /\ order' = [o \in Order |-> IF o \in LiveOrders(s)
                 THEN [order[o] EXCEPT !.session = u, !.at = session[u].at]
                 ELSE order[o]]
  /\ kot' = KotsMoved(LiveOrders(s), session[u].at)
  /\ available' = available \cup {session[s].at}
  /\ session' = [session EXCEPT ![s].status = "closed"]
  /\ UNCHANGED <<bill, placing>>

\* DELIVERY_STATUS_TRANSITIONS: from each unfinished status one goes on, or out.
DeliveryTransitions == {"PLACED"} \X {"PLACED", "DELIVERED", "CANCELLED"}

\* update_delivery_status
UpdateDelivery(o, new) ==
  /\ <<order[o].delivery, new>> \in DeliveryTransitions
  /\ order' = [order EXCEPT ![o].delivery = new, ![o].status = new]
  /\ UNCHANGED <<available, session, kot, bill, placing>>

-----------------------------------------------------------------------------
(* kot_service                                                             *)

\* _ALLOWED_TRANSITIONS: a ticket that is READY can only be served.
KotTransitions ==
  {"NEW"} \X {"NEW", "READY", "CANCELLED"} \cup {<<"READY", "SERVED">>}

\* _KOT_TO_ORDER_STATUS
OrderStatusOf(k) == IF k \in {"NEW", "READY"} THEN "PLACED" ELSE k

\* update_kot_status: the order takes the ticket's status, whatever its own is.
UpdateKot(o, new) ==
  /\ <<kot[o].status, new>> \in KotTransitions
  /\ kot' = [kot EXCEPT ![o].status = new]
  /\ order' = [order EXCEPT ![o].status = OrderStatusOf(new)]
  /\ UNCHANGED <<available, session, bill, placing>>

\* release_held_kots_for_session
HeldReleased(s) ==
  [o \in Order |-> IF o \in LiveOrders(s) /\ kot[o].status = "absent"
                     THEN [status |-> "NEW", at |-> order[o].at] ELSE kot[o]]

-----------------------------------------------------------------------------
(* billing_service: bills by their effect on the floor.  OPEN stands for   *)
(* PARTIALLY_PAID too.                                                     *)

OpenBillsOf(s) == {b \in Bill : bill[b].session = s /\ bill[b].status = "OPEN"}

\* generate_or_refresh_bill: the bill is at the table where its session was when
\* the bill was created.  A closed session is not refused.
GenerateBill(s, b) ==
  /\ session[s].status # "absent"
  /\ IF OpenBillsOf(s) = {} THEN bill[b].status = "absent" ELSE b \in OpenBillsOf(s)
  /\ bill' = [bill EXCEPT ![b] =
       IF bill[b].status = "absent"
         THEN [status |-> "OPEN", session |-> s, at |-> session[s].at, lines |-> LiveOrders(s)]
         ELSE [bill[b] EXCEPT !.lines = @ \cup LiveOrders(s)]]
  /\ UNCHANGED <<available, session, order, kot, placing>>

\* The bill is paid in full or marked no-charge.
SettleBill(b) ==
  /\ bill[b].status = "OPEN"
  /\ bill' = [bill EXCEPT ![b].status = "PAID"]
  /\ available' = available \ {bill[b].at}
  /\ kot' = HeldReleased(bill[b].session)
  /\ UNCHANGED <<session, order, placing>>

\* An edit lets _recompute_totals find the bill paid: nothing else happens.
SettleByEdit(b) ==
  /\ bill[b].status = "OPEN"
  /\ bill' = [bill EXCEPT ![b].status = "PAID"]
  /\ UNCHANGED <<available, session, order, kot, placing>>

\* A payment captured late, on a bill that is already PAID.
PayAgain(b) ==
  /\ bill[b].status = "PAID"
  /\ available' = available \ {bill[b].at}
  /\ UNCHANGED <<session, order, kot, bill, placing>>

VoidBill(b) ==
  /\ bill[b].status \in {"OPEN", "PAID"}
  /\ bill' = [bill EXCEPT ![b].status = "CANCELLED"]
  /\ available' = available \cup ({bill[b].at} \cap Table)
  /\ UNCHANGED <<session, order, kot, placing>>

\* update_location: staff set a table's status by hand.
SetTable(l) ==
  /\ available' \in {available \cup {l}, available \ {l}}
  /\ UNCHANGED <<session, order, kot, bill, placing>>

-----------------------------------------------------------------------------
OrderRequests ==
  \E o \in Order :
    \/ \E l \in Table : FindSession(o, l)
    \/ \E s \in Session : PlaceOrder(o, s)
    \/ GiveUpOrder(o)
    \/ \E s \in Session, delivers, hold \in BOOLEAN : PlaceAway(o, s, delivers, hold)
    \/ CancelOrder(o)
    \/ \E new \in DeliveryStatus : UpdateDelivery(o, new)
    \/ \E new \in KotStatus : UpdateKot(o, new)

FloorRequests ==
  \/ \E s \in Session, l \in Table : TransferSession(s, l)
  \/ \E s, u \in Session : MergeSessions(s, u)
  \/ \E l \in Table : SetTable(l)

BillRequests ==
  \E b \in Bill :
    \/ \E s \in Session : GenerateBill(s, b)
    \/ SettleBill(b)
    \/ SettleByEdit(b)
    \/ PayAgain(b)
    \/ VoidBill(b)

Next == OrderRequests \/ FloorRequests \/ BillRequests

Spec == Init /\ [][Next]_vars

-----------------------------------------------------------------------------
TypeOK ==
  /\ available \subseteq Table
  /\ session \in [Session -> SessionRecord]
  /\ order \in [Order -> OrderRecord]
  /\ kot \in [Order -> KotRecord]
  /\ bill \in [Bill -> BillRecord]
  /\ placing \in [Order -> PlacingRecord]

\* "Once billing has started for a table, its floor position is frozen"
\* (_reject_if_billed): a bill, also a settled or voided one, stays at the table
\* of its session and never loses an order to another session.
BillStaysWithSession ==
  \A b \in Bill : bill[b].status # "absent" =>
    /\ bill[b].at = session[bill[b].session].at
    /\ \A o \in bill[b].lines : order[o].session = bill[b].session

\* No order is on two bills that are both still to be paid, however sessions
\* were merged and bills generated, voided and generated again.
OneOpenBillPerOrder ==
  \A b, c \in Bill :
    bill[b].status = "OPEN" /\ bill[c].status = "OPEN" /\ b # c
      => bill[b].lines \cap bill[c].lines = {}

\* A ticket the kitchen works on names the table its order names, through every
\* transfer and merge, also for a cancelled order that stays behind.
KotFollowsOrder == \A o \in LiveKots : kot[o].at = order[o].at

-----------------------------------------------------------------------------
(* What comments in the code say and the code does not do.                 *)

\* "[The session] can never receive another order again by construction"
\* (merge_sessions).
ClosedTakesNoOrder ==
  [][\A s \in Session : session[s].status = "closed" =>
       {o \in Order : order'[o].session = s} \subseteq {o \in Order : order[o].session = s}
    ]_vars

\* "DELIVERED and CANCELLED are terminal -- nothing may follow them" and
\* "OrderStatus mirrors DeliveryStatus's values 1:1" (update_delivery_status).
DeliveryIsOver ==
  \A o \in Order :
    order[o].delivery \in {"DELIVERED", "CANCELLED"} => order[o].status = order[o].delivery
-----------------------------------------------------------------------------
(* The parts of the inductive invariant that the proofs add.               *)

\* An order that create_order is still working on is not in the database.
PlacingIsNew == \A o \in Order : placing[o] # Idle => order[o].status = "absent"

\* A bill is of a session that exists, and its lines are orders that exist.
BillsOfSessions ==
  \A b \in Bill : bill[b].status # "absent" =>
    /\ bill[b].session \in Session
    /\ session[bill[b].session].status # "absent"
    /\ \A o \in bill[b].lines : order[o].status # "absent"

OneOpenBillPerSession ==
  \A b, c \in Bill :
    bill[b].status = "OPEN" /\ bill[c].status = "OPEN" /\ bill[b].session = bill[c].session
      => b = c

\* An order that does not exist is no delivery and has no ticket.
AbsentIsBare ==
  \A o \in Order : order[o].status = "absent" =>
    order[o].delivery = None /\ kot[o].status = "absent"

FloorInv ==
  /\ TypeOK
  /\ PlacingIsNew
  /\ BillsOfSessions
  /\ BillStaysWithSession
  /\ OneOpenBillPerSession
  /\ AbsentIsBare
  /\ KotFollowsOrder
=============================================================================
