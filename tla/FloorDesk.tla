------------------------------ MODULE FloorDesk ------------------------------
(***************************************************************************)
(* The screens of the staff on the floor: the kitchen's queue, the orders  *)
(* with their detail dialog, deliveries, and tables with the dialog that   *)
(* moves a party (frontend/src/features/kitchen, kot, orders, delivery and *)
(* tables).  Each shows copies that it fetches every 15 to 30 seconds, or  *)
(* when one of its own requests has succeeded or a message of the socket   *)
(* says so, and offers what the copies allow.                              *)
(*                                                                         *)
(* A behaviour follows one screen, chosen by Init with the user's role;    *)
(* the others, guests and tills act on the server in any order, one        *)
(* transaction at a time: its message is out before it commits.  A party   *)
(* at a table is a session, named after its first order.                   *)
(***************************************************************************)
EXTENDS Integers, FiniteSets

CONSTANTS Order, Table,
          None,
          MaxStep,  \* bound, of each screen: changes on the server
          MaxOrder, \* bound, of each screen: orders placed
          MaxReq    \* bound, of each screen: its requests under way

Screen == {"kitchen", "orders", "delivery", "tables"}

ASSUME Bounds == /\ None \notin Order \cup Table
                 /\ {MaxStep, MaxOrder, MaxReq} \subseteq [Screen -> Nat \ {0}]

KotStatus == {"NEW", "ACCEPTED", "PREPARING", "READY", "SERVED", "CANCELLED"}
DeliveryStatus == {"PLACED", "CONFIRMED", "PREPARING", "READY", "OUT_FOR_DELIVERY",
                   "DELIVERED", "CANCELLED"}
OrderStatus == DeliveryStatus \cup {"SERVED", "COMPLETED"}

VARIABLES
  screen, role,
  orders,   \* server: [st, del, at, ses] of the orders placed
  kots,     \* server: status of their tickets, if any
  tables,   \* server: tables that are not AVAILABLE
  place,    \* server: where each open session is
  billed,   \* server: sessions that have had a bill
  txn,      \* server: the transaction under way, [op, x, y]
  steps,    \* bound: transactions so far
  seen,     \* screen: its copies, by query
  due,      \* screen: queries invalidated and being asked again
  sel,      \* orders: the row in the dialog, as it was when it was clicked
  bill,     \* orders: the session whose bill lies over the dialog
  move,     \* tables: the dialog, [table, mode, target]
  reqs,     \* screen: requests under way
  blind,    \* ghost: queries that nothing told the screen to ask again
  revived   \* ghost: orders the kitchen went on with after their cancellation

rows == <<orders, kots, tables, place, billed, revived>>
server == <<rows, txn, steps>>
dialogs == <<sel, bill, move>>
copies == <<seen, due, blind>>
vars == <<screen, role, server, copies, dialogs, reqs>>

Queries ==
  CASE screen = "kitchen" -> {"kots"}
    [] screen = "orders" -> IF role = "CASH_COUNTER" THEN {"orders"} ELSE {"orders", "kots"}
    [] screen = "delivery" -> {"delivery"}
    [] screen = "tables" -> {"tables", "orders"}

Queued == {"NEW", "ACCEPTED", "PREPARING"}

Placed == {o \in Order : orders[o] # None}
Active == {o \in Placed : orders[o].st \notin {"SERVED", "DELIVERED", "COMPLETED", "CANCELLED"}}

(* What the server answers: the kitchen gets the tickets it still works    *)
(* on, managers all of them, the service counter those that are ready; the *)
(* pages of tables and deliveries ask for active orders only.              *)
Answer(q) ==
  CASE q = "kots" ->
         LET wanted == IF screen = "kitchen" THEN Queued
                       ELSE IF role = "SERVICE_COUNTER" THEN {"READY"} ELSE KotStatus
         IN {<<o, kots[o]>> : o \in {p \in Order : kots[p] \in wanted}}
    [] q = "orders" ->
         {<<o, orders[o]>> : o \in IF screen = "tables" THEN Active ELSE Placed}
    [] q = "delivery" ->
         {<<o, orders[o]>> : o \in {p \in Active : orders[p].del # None}}
    [] q = "tables" -> tables

(* Who sees which screen: config/navigation.ts. *)
Init ==
  /\ role \in {"MANAGER", "SERVICE_COUNTER", "CASH_COUNTER"}
  /\ screen \in IF role = "MANAGER" THEN Screen
                ELSE {"orders"}
  /\ orders = [o \in Order |-> None] /\ kots = [o \in Order |-> None]
  /\ tables = {} /\ place = [o \in Order |-> None] /\ billed = {}
  /\ txn = None /\ steps = 0
  /\ seen = [q \in Queries |-> {}] /\ due = {} /\ reqs = {}
  /\ sel = None /\ bill = None /\ move = None
  /\ blind = {} /\ revived = {}

-----------------------------------------------------------------------------
(* The server *)

(* Mutant: a repeated request for the status a ticket has is a success. *)
RepeatAllowed(from) ==
  CASE from = "NEW" -> {"ACCEPTED", "CANCELLED"}
    [] from = "ACCEPTED" -> {"ACCEPTED", "PREPARING", "CANCELLED"}
    [] from = "PREPARING" -> {"PREPARING", "READY", "CANCELLED"}
    [] from = "READY" -> {"READY", "SERVED"}
    [] OTHER -> {}

KotTransitions(from) ==
  CASE from = "NEW" -> {"ACCEPTED", "CANCELLED"}
    [] from = "ACCEPTED" -> {"PREPARING", "CANCELLED"}
    [] from = "PREPARING" -> {"READY", "CANCELLED"}
    [] from = "READY" -> {"SERVED"}
    [] OTHER -> {}

DeliveryTransitions(from) ==
  CASE from = "PLACED" -> {"CONFIRMED", "CANCELLED"}
    [] from = "CONFIRMED" -> {"PREPARING", "CANCELLED"}
    [] from = "PREPARING" -> {"READY", "CANCELLED"}
    [] from = "READY" -> {"OUT_FOR_DELIVERY", "CANCELLED"}
    [] from = "OUT_FOR_DELIVERY" -> {"DELIVERED", "CANCELLED"}
    [] OTHER -> {}

OrderStatusOf(k) ==
  CASE k = "NEW" -> "PLACED" [] k = "ACCEPTED" -> "CONFIRMED" [] OTHER -> k

(* What the server checks, for op on x with argument y: of a ticket, of an *)
(* order, of a delivery, of one session or two.                            *)
Allowed(op, x, y) ==
  CASE op \in {"place", "deliver"} -> orders[x] = None
    [] op \in {"kot", "serve"} -> y \in KotTransitions(kots[x])
    [] op = "cancel" -> orders[x].st \notin {"SERVED", "DELIVERED"}
    [] op = "delivery" -> y \in DeliveryTransitions(orders[x].del)
    [] op = "transfer" -> place[x] \notin {None, y} /\ x \notin billed /\ y \notin tables
    [] op = "merge" -> x # y /\ None \notin {place[x], place[y]} /\ {x, y} \cap billed = {}
    [] op = "bill" -> TRUE
    [] op = "voidBill" -> x \in billed /\ place[x] \in tables

(* Live orders of a session follow it; a cancelled one stays behind. *)
Moved(s, ses, t) ==
  [o \in Order |-> IF o \in Placed /\ orders[o].ses = s /\ orders[o].st # "CANCELLED"
                   THEN [orders[o] EXCEPT !.ses = ses, !.at = t] ELSE orders[o]]

(* create_order at a table: in a session that is open there, or a new one. *)
PlaceOrder(o, t) ==
  /\ LET here == {s \in Order : place[s] = t}
     IN \E s \in IF here = {} THEN {o} ELSE here :
          /\ orders' = [orders EXCEPT ![o] = [st |-> "PLACED", del |-> None, at |-> t, ses |-> s]]
          /\ place' = [place EXCEPT ![s] = t]
  /\ tables' = tables \cup {t} /\ kots' = [kots EXCEPT ![o] = "NEW"]
  /\ UNCHANGED <<billed, revived>>

(* create_order for a delivery; its ticket may be held until it is paid. *)
PlaceDelivery(o, k) ==
  /\ orders' = [orders EXCEPT ![o] = [st |-> "PLACED", del |-> "PLACED", at |-> None, ses |-> o]]
  /\ kots' = [kots EXCEPT ![o] = k]
  /\ UNCHANGED <<tables, place, billed, revived>>

Apply(op, x, y) ==
  /\ orders' = CASE op \in {"kot", "serve"} -> [orders EXCEPT ![x].st = OrderStatusOf(y)]
                 [] op = "cancel" -> [orders EXCEPT ![x].st = "CANCELLED"]
                 [] op = "delivery" -> [orders EXCEPT ![x].st = y, ![x].del = y]
                 [] op = "transfer" -> Moved(x, x, y)
                 [] op = "merge" -> Moved(x, y, place[y])
                 [] OTHER -> orders
  /\ kots' = IF op \in {"kot", "serve"} THEN [kots EXCEPT ![x] = y] ELSE kots
  /\ tables' = CASE op = "transfer" -> (tables \ {place[x]}) \cup {y}
                 [] op \in {"merge", "voidBill"} -> tables \ {place[x]}
                 [] OTHER -> tables
  /\ place' = CASE op = "transfer" -> [place EXCEPT ![x] = y]
                [] op = "merge" -> [place EXCEPT ![x] = None]
                [] OTHER -> place
  /\ billed' = IF op = "bill" THEN billed \cup {x} ELSE billed
  /\ revived' = IF op \in {"kot", "serve"} /\ orders[x].st = "CANCELLED"
                THEN revived \cup {x} ELSE revived

(* The keys of the message, as the queries that they begin. *)
Told(op) ==
  CASE op \in {"kot", "serve", "cancel"} -> {"kots", "orders"}
    [] op = "delivery" -> {"orders", "delivery"}
    [] op \in {"place", "deliver", "transfer", "merge"} -> {"orders", "tables", "kots"}
    [] op = "voidBill" -> {"tables", "orders"}
    [] op = "bill" -> {}

(* A request passes the server's checks and the message goes out: it is    *)
(* heard or, while the socket is down, it is not.  Until the commit every  *)
(* answer is the old one.                                                  *)
Begin(op, x, y) ==
  /\ txn = None /\ Allowed(op, x, y) /\ txn' = [op |-> op, x |-> x, y |-> y]
  /\ steps < MaxStep[screen] /\ steps' = steps + 1
  /\ due' \in {due, due \cup (Told(op) \cap Queries)}
  /\ UNCHANGED <<screen, role, rows, seen, blind, dialogs>>

BeginOther(op, x, y) == Begin(op, x, y) /\ UNCHANGED reqs

BeginMine(r) ==
  /\ r \in reqs /\ r.stage = "sent" /\ Begin(r.op, r.x, r.y)
  /\ reqs' = (reqs \ {r}) \cup {[r EXCEPT !.stage = "run"]}

Mine == \E r \in reqs : r.stage = "run"

(* What another's transaction was to tell and the screen did not hear, or  *)
(* asked for again too early, it does not know of.                         *)
Missed(op) == (Told(op) \cap Queries) \ due

Commit ==
  /\ txn # None /\ txn' = None
  /\ UNCHANGED <<screen, role, steps, seen, due, dialogs>>
  /\ CASE txn.op = "place" -> PlaceOrder(txn.x, txn.y)
       [] txn.op = "deliver" -> PlaceDelivery(txn.x, txn.y)
       [] OTHER -> Apply(txn.op, txn.x, txn.y)
  /\ blind' = IF Mine THEN blind ELSE blind \cup Missed(txn.op)
  /\ reqs' = {[r EXCEPT !.fresh = FALSE, !.stage = IF @ = "run" THEN "done" ELSE @] : r \in reqs}

(* It fails after all, and its screen shows an error. *)
Rollback ==
  /\ txn # None /\ txn' = None /\ reqs' = {r \in reqs : r.stage # "run"}
  /\ UNCHANGED <<screen, role, rows, steps, copies, dialogs>>

-----------------------------------------------------------------------------
(* The screen's queries *)

(* At the next poll, or when the query is invalidated. *)
Fetch(q) ==
  /\ seen[q] # Answer(q) \/ q \in due \cup blind
  /\ seen' = [seen EXCEPT ![q] = Answer(q)]
  /\ due' = due \ {q} /\ blind' = blind \ {q}
  /\ UNCHANGED <<screen, role, server, dialogs, reqs>>

FetchFails(q) ==
  /\ q \in due /\ due' = due \ {q} /\ blind' = blind \cup {q}
  /\ UNCHANGED <<screen, role, server, seen, dialogs, reqs>>

(* Mutant: only the list of orders is asked for again. *)
OnlyOrders(op) == {"orders"}

(* onSuccess of the screen's mutations. *)
Invalidated(op) ==
  CASE op \in {"kot", "serve", "cancel"} -> {"kots", "orders"}
    [] op = "delivery" -> {"delivery", "orders"}
    [] op \in {"transfer", "merge"} -> {"orders", "tables", "kots"}
    [] op = "bill" -> {}

-----------------------------------------------------------------------------
(* What the screen offers *)

(* sessionIdByLocation: the session of the table's latest active order. *)
SessionsShown(t) == {row[2].ses : row \in {w \in seen["orders"] : w[2].at = t}}

Options ==
  {t \in Table \ {move.table} :
     IF move.mode = "transfer" THEN t \notin seen["tables"]
     ELSE t \in seen["tables"] /\ SessionsShown(t) # {}}

(* Ghost: all the user looks at is as it is at the server now. *)
UpToDate ==
  /\ \A q \in Queries : seen[q] = Answer(q)
  /\ sel # None => sel \in seen["orders"]
  /\ move # None => move.target \in Options

IsPending(op) == \E r \in reqs : r.op = op /\ r.top

(* Only the newest request of a mutation is known to it. *)
Send(op, x, y, from) ==
  /\ Cardinality(reqs) < MaxReq[screen]
  /\ reqs' = {[r EXCEPT !.top = @ /\ r.op # op] : r \in reqs}
               \cup {[op |-> op, x |-> x, y |-> y, from |-> from, stage |-> "sent", top |-> TRUE,
                      fresh |-> UpToDate]}
  /\ UNCHANGED <<screen, role, server, copies, dialogs>>

NextStatus(k) ==
  CASE k = "NEW" -> "ACCEPTED" [] k = "ACCEPTED" -> "PREPARING" [] k = "PREPARING" -> "READY"

(* A card of the kitchen: the buttons wait only for a request of its own,  *)
(* and only for the newest one of all.                                     *)
AdvanceKot(o, k) ==
  /\ screen = "kitchen" /\ <<o, k>> \in seen["kots"]
  /\ ~\E r \in reqs : r.op = "kot" /\ r.top /\ r.x = o
  /\ \E next \in {NextStatus(k), "CANCELLED"} : Send("kot", o, next, k)

UpdateDelivery(o, d) ==
  /\ screen = "delivery" /\ ~IsPending("delivery")
  /\ \E row \in seen["delivery"] : row[1] = o /\ row[2].del = d
  /\ \E next \in DeliveryTransitions(d) : Send("delivery", o, next, d)

(* A click on a row: the dialog keeps the order as it is in the list now. *)
SelectOrder(o) ==
  /\ screen = "orders" /\ sel = None
  /\ \E row \in seen["orders"] : row[1] = o /\ sel' = row
  /\ UNCHANGED <<screen, role, server, copies, bill, move, reqs>>

CloseOrder ==
  /\ sel # None /\ bill = None /\ sel' = None
  /\ UNCHANGED <<screen, role, server, copies, bill, move, reqs>>

CloseBill ==
  /\ sel # None /\ bill # None /\ bill' = None
  /\ UNCHANGED <<screen, role, server, copies, sel, move, reqs>>

(* Tickets are those of the list; the order is that of the click. *)
Serve ==
  /\ sel # None /\ bill = None /\ role \in {"MANAGER", "SERVICE_COUNTER"}
  /\ <<sel[1], "READY">> \in seen["kots"] /\ ~IsPending("serve")
  /\ Send("serve", sel[1], "SERVED", "READY")

(* Mutant: a served order, too, has the button. *)
NotYetCancelled == OrderStatus \ {"CANCELLED"}

Cancellable == OrderStatus \ {"SERVED", "DELIVERED", "COMPLETED", "CANCELLED"}

Cancel ==
  /\ sel # None /\ bill = None /\ role = "MANAGER" /\ sel[2].st \in Cancellable
  /\ ~IsPending("cancel")
  /\ Send("cancel", sel[1], None, sel[2].st)

ViewBill ==
  /\ sel # None /\ bill = None /\ role \in {"MANAGER", "CASH_COUNTER"} /\ ~IsPending("bill")
  /\ Send("bill", sel[2].ses, None, None)

OpenMove(t) ==
  /\ screen = "tables" /\ move = None /\ SessionsShown(t) # {}
  /\ move' = [table |-> t, mode |-> "transfer", target |-> None]
  /\ UNCHANGED <<screen, role, server, copies, sel, bill, reqs>>

CloseMove ==
  /\ move # None /\ move' = None
  /\ UNCHANGED <<screen, role, server, copies, sel, bill, reqs>>

(* Choosing a mode forgets the target; a target is one of the options now, *)
(* and stays chosen when it is no longer one.                              *)
ChooseMode(m) ==
  /\ move # None /\ move.mode # m
  /\ move' = [move EXCEPT !.mode = m, !.target = None]
  /\ UNCHANGED <<screen, role, server, copies, sel, bill, reqs>>

ChooseTarget(t) ==
  /\ move # None /\ t \in Options /\ t # move.target
  /\ move' = [move EXCEPT !.target = t]
  /\ UNCHANGED <<screen, role, server, copies, sel, bill, reqs>>

ConfirmMove ==
  /\ move # None /\ move.target # None /\ ~IsPending("transfer") /\ ~IsPending("merge")
  /\ \E x \in SessionsShown(move.table) :
       IF move.mode = "transfer" THEN Send("transfer", x, move.target, None)
       ELSE \E y \in SessionsShown(move.target) : Send("merge", x, y, None)

-----------------------------------------------------------------------------
(* Requests *)

(* An error is shown; the dialogs stay. *)
Refused(r) ==
  /\ r \in reqs /\ r.stage = "sent" /\ reqs' = reqs \ {r}
  /\ UNCHANGED <<screen, role, server, copies, dialogs>>

LoseAnswer(r) ==
  /\ r \in reqs /\ r.stage # "sent" /\ reqs' = reqs \ {r} /\ blind' = Queries
  /\ UNCHANGED <<screen, role, server, seen, due, dialogs>>

(* The answer of the newest request also closes the dialog, or opens the   *)
(* bill over it, whatever has been put into the dialog meanwhile.          *)
Answered(r) ==
  /\ r \in reqs /\ r.stage = "done" /\ reqs' = reqs \ {r}
  /\ due' = due \cup (Invalidated(r.op) \cap Queries)
  /\ sel' = IF r.op = "cancel" /\ r.top THEN None ELSE sel
  /\ bill' = IF r.op = "bill" /\ r.top THEN r.x ELSE bill
  /\ move' = IF r.op \in {"transfer", "merge"} /\ r.top THEN None ELSE move
  /\ UNCHANGED <<screen, role, server, seen, blind>>

(* As a bound, others deliver, move parties and bill them only where the   *)
(* screen followed is about that.                                          *)
Next ==
  \/ \E o \in Order :
       \/ /\ Cardinality(Placed) < MaxOrder[screen]
          /\ \/ \E t \in Table : BeginOther("place", o, t)
             \/ screen # "tables" /\ \E k \in {"NEW", None} : BeginOther("deliver", o, k)
       \/ orders[o] # None /\ kots[o] # None /\ \E k \in KotStatus : BeginOther("kot", o, k)
       \/ orders[o] # None /\ BeginOther("cancel", o, None)
       \/ screen = "delivery" /\ orders[o] # None
            /\ \E d \in DeliveryStatus : BeginOther("delivery", o, d)
       \/ /\ screen = "tables"
          /\ \/ \E t \in Table : BeginOther("transfer", o, t)
             \/ \E p \in Order : BeginOther("merge", o, p)
             \/ place[o] # None /\ BeginOther("bill", o, None)
             \/ BeginOther("voidBill", o, None)
  \/ Commit \/ Rollback
  \/ \E q \in Queries : Fetch(q) \/ FetchFails(q)
  \/ \E o \in Order, k \in Queued : AdvanceKot(o, k)
  \/ \E o \in Order, d \in DeliveryStatus : UpdateDelivery(o, d)
  \/ \E o \in Order : SelectOrder(o)
  \/ CloseOrder \/ CloseBill \/ Serve \/ Cancel \/ ViewBill
  \/ \E t \in Table : OpenMove(t) \/ ChooseTarget(t)
  \/ \E m \in {"transfer", "merge"} : ChooseMode(m)
  \/ CloseMove \/ ConfirmMove
  \/ \E r \in reqs : BeginMine(r) \/ Refused(r) \/ LoseAnswer(r) \/ Answered(r)

Spec == Init /\ [][Next]_vars

-----------------------------------------------------------------------------
OrderRow == [st : OrderStatus, del : DeliveryStatus \cup {None}, at : Table \cup {None}, ses : Order]

(* Types; only an open session is at a table. *)
TypeOK ==
  /\ \A o \in Order : orders[o] = None \/ orders[o] \in OrderRow
  /\ \A o \in Order : kots[o] # None => kots[o] \in KotStatus /\ orders[o] # None
  /\ tables \subseteq Table /\ place \in [Order -> Table \cup {None}] /\ billed \subseteq Order
  /\ due \cup blind \subseteq Queries
  /\ sel # None => screen = "orders" /\ sel[1] \in Order /\ sel[2] \in OrderRow
  /\ move # None => screen = "tables" /\ move.target \in (Table \cup {None}) \ {move.table}

(* What a screen offers on copies that are up to date the server accepts:  *)
(* NEXT_STATUS, DELIVERY_TRANSITIONS, canCancel and the tables' options    *)
(* mirror its rules ("staff are only ever offered a legal next status").   *)
(* A bill stops a move by the server's rule alone (TableMoveDialog), and a *)
(* cancelled order that the kitchen goes on with comes back in a session   *)
(* that may be closed.                                                     *)
FreshOfferLegal ==
  \A r \in reqs :
    /\ r.fresh
    /\ r.op \in {"transfer", "merge"} => {r.x, r.y} \cap billed = {} /\ revived = {}
    => Allowed(r.op, r.x, r.y)

(* What its own requests and the messages tell a screen of: everything it  *)
(* shows, and on the page of deliveries how far the deliveries shown are.  *)
(* That page's list also loses the orders that are cancelled or served and *)
(* gets new ones, and its rows show the orders' own status: no message or  *)
(* mutation of those names the deliveries, and only the poll brings them.  *)
RightAbout(q) ==
  IF q = "delivery" THEN \A row \in seen[q] : row[2].del = orders[row[1]].del
  ELSE seen[q] = Answer(q)

(* A screen whose requests are answered and whose queries are not being    *)
(* asked again is right about that, unless an answer or another's message  *)
(* was lost, or the message was followed before its transaction committed. *)
QuietScreenIsRight ==
  \A q \in Queries :
    q \notin due \cup blind /\ (\A r \in reqs : r.stage # "done") => RightAbout(q)

(* The same of all that the page of deliveries shows.  No run checks it,   *)
(* because it does not hold: a ticket's step, a cancellation or a new      *)
(* order is not told to it.                                                *)
DeliveriesAreCurrent ==
  screen = "delivery" /\ "delivery" \notin due \cup blind /\ reqs = {}
    => seen["delivery"] = Answer("delivery")

(* However old the copy, and however often the button was pressed, a step  *)
(* forward is taken only from the status that its user saw: of two presses *)
(* for one step the second is refused.                                     *)
ActsOnWhatWasSeen ==
  [][\A r \in reqs :
       /\ r.stage = "sent" /\ r.y # "CANCELLED" /\ r.op \in {"kot", "serve", "delivery"}
       /\ steps' # steps /\ r \notin reqs'
       => r.from = IF r.op = "delivery" THEN orders[r.x].del ELSE kots[r.x]]_vars

(* The screen is well formed and, at rest, right.                          *)
ScreenInv == TypeOK /\ QuietScreenIsRight

-----------------------------------------------------------------------------
(* The inductive invariant behind these properties.                        *)

ScreenOp == {"kot", "serve", "cancel", "delivery", "transfer", "merge", "bill"}
Argument == KotStatus \cup DeliveryStatus \cup Table \cup Order \cup {None}
Transaction == [op : ScreenOp \cup {"place", "deliver", "voidBill"}, x : Order, y : Argument]

ASSUME NoneAssumption ==
  None \notin KotStatus \cup DeliveryStatus \cup OrderRow \cup Transaction

(* Orders belong to sessions of orders that were placed; a delivery and    *)
(* its session are at no table.  As long as no cancelled order has come    *)
(* back, a live order is where its session is.                             *)
SessionInv ==
  /\ \A o \in Placed :
       /\ orders[o].ses \in Placed
       /\ orders[o].del # None => orders[o].at = None /\ place[orders[o].ses] = None
  /\ \A s \in Order : place[s] # None => s \in Placed
  /\ revived = {} =>
       \A o \in Placed : orders[o].at # None /\ orders[o].st # "CANCELLED"
                          => place[orders[o].ses] = orders[o].at

(* What the screen holds is of the kinds that it asked for. *)
CopiesInv ==
  /\ seen = [q \in Queries |-> seen[q]]
  /\ \A q \in Queries :
       /\ q = "kots" => seen[q] \subseteq Order \X KotStatus
       /\ q \in {"orders", "delivery"} => seen[q] \subseteq Placed \X OrderRow
       /\ q = "tables" => seen[q] \subseteq Table

DialogInv ==
  /\ sel # None => sel \in Placed \X OrderRow
  /\ move # None => move \in [table : Table, mode : {"transfer", "merge"}, target : Table \cup {None}]

Request == [op : ScreenOp, x : Order, y : Argument, from : OrderStatus \cup KotStatus \cup {None},
            stage : {"sent", "run", "done"}, top : BOOLEAN, fresh : BOOLEAN]

(* A request for a step forward was sent from the status before it. *)
RequestOK(r) ==
  /\ r.op = "transfer" => r.y \in Table
  /\ r.op = "merge" => r.y \in Order
  /\ r.op \in {"cancel", "delivery"} => r.x \in Placed
  /\ r.op \in {"kot", "serve"} => r.y \in KotTransitions(r.from)
  /\ r.op = "delivery" => r.y \in DeliveryTransitions(r.from)

RequestsInv == reqs \subseteq Request /\ \A r \in reqs : RequestOK(r)

(* A copy is right, or will be asked for again: now, at the next poll or   *)
(* when the answer of a request comes.                                     *)
SightInv ==
  \A q \in Queries \ (due \cup blind) :
    RightAbout(q) \/ \E r \in reqs : r.stage = "done" /\ q \in Invalidated(r.op)

(* A transaction under way goes through, and belongs to the request that   *)
(* waits for it, if any.                                                   *)
TxnInv ==
  /\ txn # None =>
       /\ txn \in Transaction /\ Allowed(txn.op, txn.x, txn.y)
       /\ txn.op \in {"transfer", "place"} => txn.y \in Table
       /\ txn.op = "deliver" => txn.y \in {"NEW", None}
       /\ txn.op = "merge" => txn.y \in Order
       /\ txn.op \in {"cancel", "delivery"} => txn.x \in Placed
  /\ \A r \in reqs : r.stage = "run" => txn = [op |-> r.op, x |-> r.x, y |-> r.y]

ScreensInv ==
  /\ screen \in Screen /\ role \in {"MANAGER", "SERVICE_COUNTER", "CASH_COUNTER"}
  /\ TypeOK /\ orders \in [Order -> OrderRow \cup {None}] /\ kots \in [Order -> KotStatus \cup {None}]
  /\ SessionInv /\ CopiesInv /\ DialogInv /\ RequestsInv /\ TxnInv /\ SightInv /\ FreshOfferLegal
=============================================================================
