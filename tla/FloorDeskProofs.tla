--------------------------- MODULE FloorDeskProofs ---------------------------
(***************************************************************************)
(* What the screens of the floor show and offer is right, for any number   *)
(* of orders and tables and any bounds.                                    *)
(* ScreensInv is inductive: SessionInv says how orders, sessions and       *)
(* tables belong together at the server, TxnInv that a transaction which   *)
(* has passed its checks can still be carried out, CopiesInv, DialogInv    *)
(* and RequestsInv what a screen holds, SightInv why its copies come to be *)
(* right.                                                                  *)
(***************************************************************************)
EXTENDS FloorDesk, TLAPS

-----------------------------------------------------------------------------
(* What the server answers.                                                *)

LEMMA NoneDiffers ==
  /\ None \notin KotStatus /\ None \notin DeliveryStatus /\ None \notin OrderRow
  /\ None \notin Order /\ None \notin Table
  BY NoneAssumption, Bounds

LEMMA QueryNames ==
  ASSUME screen \in Screen
  PROVE  /\ Queries \subseteq {"kots", "orders", "delivery", "tables"}
         /\ "tables" \in Queries => screen = "tables"
  BY DEF Queries, Screen

\* What the server answers is of the kind that was asked for.
LEMMA AnswerTyped ==
  ASSUME ScreensInv, NEW q \in Queries
  PROVE  /\ q = "kots" => Answer(q) \subseteq Order \X KotStatus
         /\ q \in {"orders", "delivery"} => Answer(q) \subseteq Placed \X OrderRow
         /\ q = "tables" => Answer(q) \subseteq Table
<1>1. CASE q = "kots"
  <2>1. Queued \subseteq KotStatus /\ {"READY"} \subseteq KotStatus
    BY DEF Queued, KotStatus
  <2>. QED
    BY <1>1, <2>1 DEF Answer
<1>2. CASE q = "orders"
  <2>1. \A o \in Placed : orders[o] \in OrderRow
    BY DEF ScreensInv, Placed
  <2>. QED
    BY <1>2, <2>1 DEF Answer, Active
<1>3. CASE q = "delivery"
  <2>1. \A o \in Placed : orders[o] \in OrderRow
    BY DEF ScreensInv, Placed
  <2>. QED
    BY <1>3, <2>1 DEF Answer, Active
<1>4. CASE q = "tables"
  BY <1>4 DEF Answer, ScreensInv, TypeOK
<1>. QED
  BY <1>1, <1>2, <1>3, <1>4

\* What a copy is right about changes only with what it is about.
LEMMA RightStays ==
  ASSUME UNCHANGED <<screen, role, seen>>, NEW q \in {"kots", "orders", "delivery", "tables"},
         q = "kots" => kots' = kots,
         q = "orders" => orders' = orders,
         q = "delivery" => \A row \in seen[q] : orders'[row[1]].del = orders[row[1]].del,
         q = "tables" => tables' = tables,
         RightAbout(q)
  PROVE  RightAbout(q)'
<1>1. CASE q = "kots"
  BY <1>1 DEF RightAbout, Answer
<1>2. CASE q = "orders"
  BY <1>2 DEF RightAbout, Answer, Active, Placed
<1>3. CASE q = "delivery"
  BY <1>3 DEF RightAbout
<1>4. CASE q = "tables"
  BY <1>4 DEF RightAbout, Answer
<1>. QED
  BY <1>1, <1>2, <1>3, <1>4

\* As long as nothing is committed, the server's answers are the same.
LEMMA ServerStays ==
  ASSUME screen \in Screen, UNCHANGED <<screen, role, rows>>
  PROVE  /\ Queries' = Queries /\ Placed' = Placed
         /\ seen' = seen => \A q \in Queries : RightAbout(q) => RightAbout(q)'
<1>1. UNCHANGED <<orders, kots, tables>>
  BY DEF rows
<1>2. Queries' = Queries /\ Placed' = Placed
  BY <1>1 DEF Queries, Placed
<1>. QED
  BY <1>1, <1>2, RightStays, QueryNames

-----------------------------------------------------------------------------
(* What the server does.                                                   *)

\* Types and sessions of the server.
ServerInv ==
  /\ orders \in [Order -> OrderRow \cup {None}] /\ kots \in [Order -> KotStatus \cup {None}]
  /\ \A o \in Order : kots[o] # None => orders[o] # None
  /\ tables \subseteq Table /\ place \in [Order -> Table \cup {None}] /\ billed \subseteq Order
  /\ SessionInv

\* What an operation is about.
ArgsOK(op, x, y) ==
  /\ op \in ScreenOp \cup {"place", "deliver", "voidBill"} /\ x \in Order /\ y \in Argument
  /\ op \in {"transfer", "place"} => y \in Table
  /\ op = "deliver" => y \in {"NEW", None}
  /\ op = "merge" => y \in Order
  /\ op \in {"cancel", "delivery"} => x \in Placed

LEMMA TransitionsTyped ==
  /\ \A k : KotTransitions(k) \subseteq KotStatus /\ (KotTransitions(k) # {} => k \in KotStatus)
  /\ \A d : DeliveryTransitions(d) \subseteq DeliveryStatus
            /\ (DeliveryTransitions(d) # {} => d \in DeliveryStatus)
<1>1. ASSUME NEW k
      PROVE  KotTransitions(k) \subseteq KotStatus /\ (KotTransitions(k) # {} => k \in KotStatus)
  BY DEF KotTransitions, KotStatus
<1>2. ASSUME NEW d
      PROVE  /\ DeliveryTransitions(d) \subseteq DeliveryStatus
             /\ DeliveryTransitions(d) # {} => d \in DeliveryStatus
  BY DEF DeliveryTransitions, DeliveryStatus
<1>. QED
  BY <1>1, <1>2

LEMMA StatusTyped ==
  ASSUME NEW k \in KotStatus
  PROVE  OrderStatusOf(k) \in OrderStatus
  BY DEF OrderStatusOf, KotStatus, OrderStatus, DeliveryStatus

\* One order gets another status: it stays in its session and at its table.
LEMMA StatusChanges ==
  ASSUME ServerInv, NEW x \in Placed, NEW row \in OrderRow,
         orders' = [orders EXCEPT ![x] = row],
         row.ses = orders[x].ses, row.at = orders[x].at, row.del # None => orders[x].del # None,
         kots' \in [Order -> KotStatus \cup {None}],
         \A o \in Order : kots'[o] # None => orders[o] # None,
         tables' = tables, place' = place, billed' \subseteq Order,
         revived' = {} => revived = {} /\ (orders[x].st = "CANCELLED" => row.st = "CANCELLED" \/ row.at = None)
  PROVE  ServerInv' /\ Placed' = Placed
<1>1. /\ x \in Order /\ orders \in [Order -> OrderRow \cup {None}]
      /\ orders' \in [Order -> OrderRow \cup {None}]
      /\ orders'[x] = row /\ orders[x] # None /\ row # None
      /\ \A o \in Order : o # x => orders'[o] = orders[o]
  BY NoneDiffers DEF ServerInv, Placed
<1>2. Placed' = Placed
  BY <1>1 DEF Placed
<1>3. \A o \in Order : kots'[o] # None => orders'[o] # None
  BY <1>1
<1>4. SessionInv'
  <2>1. ASSUME NEW o \in Placed
        PROVE  /\ orders'[o].ses \in Placed
               /\ orders'[o].del # None => orders'[o].at = None /\ place[orders'[o].ses] = None
    <3>1. /\ orders[o].ses \in Placed /\ o \in Order
          /\ orders[o].del # None => orders[o].at = None /\ place[orders[o].ses] = None
      BY DEF ServerInv, SessionInv, Placed
    <3>. QED
      BY <1>1, <3>1
  <2>2. \A s \in Order : place'[s] # None => s \in Placed
    BY DEF ServerInv, SessionInv
  <2>3. ASSUME revived' = {}, NEW o \in Placed, orders'[o].at # None, orders'[o].st # "CANCELLED"
        PROVE  place[orders'[o].ses] = orders'[o].at
    <3>1. orders[o].ses = orders'[o].ses /\ orders[o].at = orders'[o].at /\ orders[o].st # "CANCELLED"
      BY <1>1, <2>3 DEF Placed
    <3>. QED
      BY <2>3, <3>1 DEF ServerInv, SessionInv
  <2>. QED
    BY <1>2, <2>1, <2>2, <2>3 DEF SessionInv
<1>. QED
  BY <1>1, <1>2, <1>3, <1>4 DEF ServerInv

\* The live orders of a session move with it.
LEMMA MovedTyped ==
  ASSUME ServerInv, NEW s \in Order, NEW ses \in Order, NEW t \in Table
  PROVE  /\ Moved(s, ses, t) \in [Order -> OrderRow \cup {None}]
         /\ \A o \in Order : (Moved(s, ses, t)[o] # None) <=> o \in Placed
         /\ \A o \in Placed :
              /\ Moved(s, ses, t)[o].st = orders[o].st /\ Moved(s, ses, t)[o].del = orders[o].del
              /\ IF orders[o].ses = s /\ orders[o].st # "CANCELLED"
                 THEN Moved(s, ses, t)[o].ses = ses /\ Moved(s, ses, t)[o].at = t
                 ELSE Moved(s, ses, t)[o] = orders[o]
<1>1. \A o \in Placed : orders[o] \in OrderRow /\ o \in Order
  BY DEF ServerInv, Placed
<1>2. ASSUME NEW o \in Order
      PROVE  Moved(s, ses, t)[o] = IF o \in Placed /\ orders[o].ses = s /\ orders[o].st # "CANCELLED"
                                   THEN [orders[o] EXCEPT !.ses = ses, !.at = t] ELSE orders[o]
  BY DEF Moved
<1>3. ASSUME NEW o \in Placed
      PROVE  /\ [orders[o] EXCEPT !.ses = ses, !.at = t] \in OrderRow
             /\ [orders[o] EXCEPT !.ses = ses, !.at = t].st = orders[o].st
             /\ [orders[o] EXCEPT !.ses = ses, !.at = t].del = orders[o].del
             /\ [orders[o] EXCEPT !.ses = ses, !.at = t].ses = ses
             /\ [orders[o] EXCEPT !.ses = ses, !.at = t].at = t
  BY <1>1 DEF OrderRow
<1>4. Moved(s, ses, t) \in [Order -> OrderRow \cup {None}]
  <2>1. Moved(s, ses, t) = [o \in Order |-> Moved(s, ses, t)[o]]
    BY DEF Moved
  <2>2. \A o \in Order : Moved(s, ses, t)[o] \in OrderRow \cup {None}
    BY <1>2, <1>3 DEF ServerInv
  <2>. QED
    BY <2>1, <2>2
<1>5. ASSUME NEW o \in Order
      PROVE  (Moved(s, ses, t)[o] # None) <=> o \in Placed
  BY <1>2, <1>3, NoneDiffers DEF Placed
<1>. QED
  BY <1>1, <1>2, <1>3, <1>4, <1>5

\* A party moves to another table, or joins another party: session s is at
\* no table but t afterwards, and nothing else is elsewhere than before.
LEMMA SessionMoves ==
  ASSUME ServerInv, NEW s \in Order, place[s] # None, NEW ses \in Placed, NEW t \in Table,
         orders' = Moved(s, ses, t), kots' = kots, billed' = billed, revived' = revived,
         tables' \subseteq Table, place' \in [Order -> Table \cup {None}],
         place'[ses] = t, ses = s \/ (place[ses] = t /\ place'[s] = None),
         \A p \in Order \ {s, ses} : place'[p] = place[p]
  PROVE  ServerInv' /\ Placed' = Placed
<1>1. /\ orders' \in [Order -> OrderRow \cup {None}]
      /\ \A o \in Order : (orders'[o] # None) <=> o \in Placed
      /\ \A o \in Placed :
           /\ orders'[o].st = orders[o].st /\ orders'[o].del = orders[o].del
           /\ IF orders[o].ses = s /\ orders[o].st # "CANCELLED"
              THEN orders'[o].ses = ses /\ orders'[o].at = t
              ELSE orders'[o] = orders[o]
  BY MovedTyped DEF Placed
<1>2. Placed' = Placed /\ Placed \subseteq Order
  BY <1>1 DEF Placed
<1>3. \A o \in Order : kots'[o] # None => orders'[o] # None
  BY <1>1 DEF ServerInv, Placed
<1>4. SessionInv'
  <2>1. ASSUME NEW o \in Placed
        PROVE  /\ orders'[o].ses \in Placed
               /\ orders'[o].del # None => orders'[o].at = None /\ place'[orders'[o].ses] = None
    <3>1. /\ orders[o].ses \in Placed
          /\ orders[o].del # None => orders[o].at = None /\ place[orders[o].ses] = None
      BY DEF ServerInv, SessionInv
    <3>2. orders'[o].ses \in Placed
      BY <1>1, <3>1
    <3>3. ASSUME orders'[o].del # None
          PROVE  orders'[o].at = None /\ place'[orders'[o].ses] = None
      <4>1. orders[o].at = None /\ place[orders[o].ses] = None /\ orders[o].ses # s
        BY <1>1, <3>1, <3>3
      <4>2. orders'[o] = orders[o]
        BY <1>1, <4>1
      <4>3. orders[o].ses # ses
        BY <4>1, NoneDiffers
      <4>. QED
        BY <1>2, <3>1, <4>1, <4>2, <4>3
    <3>. QED
      BY <3>2, <3>3
  <2>2. ASSUME NEW p \in Order, place'[p] # None
        PROVE  p \in Placed
    BY <2>2 DEF ServerInv, SessionInv
  <2>3. ASSUME revived' = {}, NEW o \in Placed, orders'[o].at # None, orders'[o].st # "CANCELLED"
        PROVE  place'[orders'[o].ses] = orders'[o].at
    <3>1. CASE orders[o].ses = s
      BY <1>1, <2>3, <3>1
    <3>2. CASE orders[o].ses # s
      <4>1. orders'[o] = orders[o] /\ orders[o].ses \in Order
        BY <1>1, <1>2, <3>2 DEF ServerInv, SessionInv
      <4>2. place[orders[o].ses] = orders[o].at
        BY <2>3, <4>1 DEF ServerInv, SessionInv
      <4>. QED
        BY <3>2, <4>1, <4>2
    <3>. QED
      BY <3>1, <3>2
  <2>. QED
    BY <1>2, <2>1, <2>2, <2>3 DEF SessionInv
<1>. QED
  BY <1>1, <1>2, <1>3, <1>4 DEF ServerInv

\* Whatever operation the server carries out.
LEMMA ApplyInv ==
  ASSUME ServerInv, NEW op \in ScreenOp \cup {"voidBill"}, NEW x, NEW y, ArgsOK(op, x, y),
         Allowed(op, x, y), Apply(op, x, y)
  PROVE  ServerInv' /\ Placed' = Placed
<1>1. x \in Order /\ Allowed(op, x, y) /\ billed' \subseteq Order
  BY DEF ArgsOK, Apply, ServerInv
<1>2. ASSUME x \in Placed, NEW st \in OrderStatus
      PROVE  /\ [orders[x] EXCEPT !.st = st] \in OrderRow
             /\ [orders EXCEPT ![x].st = st] = [orders EXCEPT ![x] = [orders[x] EXCEPT !.st = st]]
             /\ [orders[x] EXCEPT !.st = st].st = st
             /\ [orders[x] EXCEPT !.st = st].ses = orders[x].ses
             /\ [orders[x] EXCEPT !.st = st].at = orders[x].at
             /\ [orders[x] EXCEPT !.st = st].del = orders[x].del
  <2>1. orders[x] \in OrderRow
    BY <1>2 DEF ServerInv, Placed
  <2>. QED
    BY <2>1 DEF OrderRow
<1>3. CASE op \in {"kot", "serve"}
  <2>1. y \in KotTransitions(kots[x])
    BY <1>1, <1>3 DEF Allowed
  <2>2. y \in KotStatus /\ kots[x] # None
    BY <2>1, TransitionsTyped, NoneDiffers
  <2>3. x \in Placed /\ OrderStatusOf(y) \in OrderStatus
    BY <1>1, <2>2, StatusTyped DEF ServerInv, Placed
  <2>4. /\ orders' = [orders EXCEPT ![x].st = OrderStatusOf(y)] /\ kots' = [kots EXCEPT ![x] = y]
        /\ tables' = tables /\ place' = place
        /\ revived' = IF orders[x].st = "CANCELLED" THEN revived \cup {x} ELSE revived
    BY <1>3 DEF Apply
  <2>5. /\ kots' \in [Order -> KotStatus \cup {None}]
        /\ \A o \in Order : kots'[o] # None => orders[o] # None
    BY <1>1, <2>2, <2>4 DEF ServerInv
  <2>6. revived' = {} => revived = {} /\ orders[x].st # "CANCELLED"
    BY <2>4
  <2>. QED
    BY <1>1, <1>2, <2>3, <2>4, <2>5, <2>6, StatusChanges
<1>4. CASE op = "cancel"
  <2>1. x \in Placed /\ "CANCELLED" \in OrderStatus
    BY <1>4 DEF ArgsOK, OrderStatus, DeliveryStatus
  <2>2. /\ orders' = [orders EXCEPT ![x].st = "CANCELLED"] /\ kots' = kots
        /\ tables' = tables /\ place' = place /\ revived' = revived
    BY <1>4 DEF Apply
  <2>3. /\ kots' \in [Order -> KotStatus \cup {None}]
        /\ \A o \in Order : kots'[o] # None => orders[o] # None
    BY <2>2 DEF ServerInv
  <2>. QED
    BY <1>1, <1>2, <2>1, <2>2, <2>3, StatusChanges
<1>5. CASE op = "delivery"
  <2>1. y \in DeliveryTransitions(orders[x].del) /\ x \in Placed
    BY <1>1, <1>5 DEF Allowed, ArgsOK
  <2>2. y \in DeliveryStatus /\ y \in OrderStatus /\ orders[x].del # None
    BY <2>1, TransitionsTyped, NoneDiffers DEF OrderStatus
  <2>3. /\ orders' = [orders EXCEPT ![x].st = y, ![x].del = y] /\ kots' = kots
        /\ tables' = tables /\ place' = place /\ revived' = revived
    BY <1>5 DEF Apply
  <2> DEFINE row == [orders[x] EXCEPT !.st = y, !.del = y]
  <2>4. orders[x] \in OrderRow /\ orders[x].at = None
    BY <2>1, <2>2 DEF ServerInv, SessionInv, Placed
  <2>5. row \in OrderRow /\ row.ses = orders[x].ses /\ row.at = orders[x].at
    BY <2>2, <2>4 DEF OrderRow
  <2>6. orders' = [orders EXCEPT ![x] = row]
    <3>1. [orders EXCEPT ![x].st = y, ![x].del = y]
            = [[orders EXCEPT ![x].st = y] EXCEPT ![x].del = y]
      OBVIOUS
    <3>. QED
      BY <1>1, <2>3, <3>1 DEF ServerInv
  <2> HIDE DEF row
  <2>7. /\ kots' \in [Order -> KotStatus \cup {None}]
        /\ \A o \in Order : kots'[o] # None => orders[o] # None
    BY <2>3 DEF ServerInv
  <2>. QED
    BY <1>1, <2>1, <2>2, <2>3, <2>4, <2>5, <2>6, <2>7, StatusChanges
<1>6. CASE op = "transfer"
  <2>1. place[x] # None /\ y \in Table
    BY <1>1, <1>6 DEF Allowed, ArgsOK
  <2>2. x \in Placed
    BY <1>1, <2>1 DEF ServerInv, SessionInv
  <2>3. /\ orders' = Moved(x, x, y) /\ kots' = kots /\ billed' = billed /\ revived' = revived
        /\ tables' = (tables \ {place[x]}) \cup {y} /\ place' = [place EXCEPT ![x] = y]
    BY <1>6 DEF Apply
  <2>4. /\ tables' \subseteq Table /\ place' \in [Order -> Table \cup {None}] /\ place'[x] = y
        /\ \A p \in Order \ {x} : place'[p] = place[p]
    BY <1>1, <2>1, <2>3 DEF ServerInv
  <2>. QED
    BY <1>1, <2>1, <2>2, <2>3, <2>4, SessionMoves
<1>7. CASE op = "merge"
  <2>1. x # y /\ place[x] # None /\ place[y] # None /\ y \in Order
    BY <1>1, <1>7 DEF Allowed, ArgsOK
  <2>2. y \in Placed /\ place[y] \in Table
    BY <2>1 DEF ServerInv, SessionInv
  <2>3. /\ orders' = Moved(x, y, place[y]) /\ kots' = kots /\ billed' = billed /\ revived' = revived
        /\ tables' = tables \ {place[x]} /\ place' = [place EXCEPT ![x] = None]
    BY <1>7 DEF Apply
  <2>4. /\ tables' \subseteq Table /\ place' \in [Order -> Table \cup {None}] /\ place'[x] = None
        /\ \A p \in Order \ {x} : place'[p] = place[p]
    BY <1>1, <2>3 DEF ServerInv
  <2>. QED
    BY <1>1, <2>1, <2>2, <2>3, <2>4, SessionMoves
<1>8. CASE op \in {"bill", "voidBill"}
  <2>1. /\ orders' = orders /\ kots' = kots /\ place' = place /\ revived' = revived
        /\ tables' \subseteq tables
    BY <1>8 DEF Apply
  <2>2. Placed' = Placed
    BY <2>1 DEF Placed
  <2>3. SessionInv'
    BY <2>1, <2>2 DEF ServerInv, SessionInv
  <2>. QED
    BY <1>1, <2>1, <2>2, <2>3 DEF ServerInv
<1>. QED
  BY <1>3, <1>4, <1>5, <1>6, <1>7, <1>8 DEF ScreenOp

\* An operation changes only what its message names.
LEMMA ApplyFrame ==
  ASSUME ScreensInv, ServerInv, UNCHANGED <<screen, role, seen>>,
         NEW op \in ScreenOp \cup {"voidBill"}, NEW x, NEW y, ArgsOK(op, x, y),
         Allowed(op, x, y), Apply(op, x, y),
         NEW q \in Queries, q \notin Told(op), RightAbout(q)
  PROVE  RightAbout(q)'
<1>1. /\ x \in Order /\ q \in {"kots", "orders", "delivery", "tables"}
      /\ q = "delivery" => \A row \in seen[q] : row[1] \in Placed
  BY QueryNames DEF ArgsOK, ScreensInv, CopiesInv
<1>2. CASE op \in {"kot", "serve", "cancel"}
  <2>1. q \in {"delivery", "tables"}
    BY <1>1, <1>2 DEF Told
  <2>2. tables' = tables
    BY <1>2 DEF Apply
  <2>3. \E st : orders' = [orders EXCEPT ![x].st = st]
    BY <1>2 DEF Apply
  <2>4. \A o \in Placed : orders'[o].del = orders[o].del
    BY <2>3 DEF ServerInv, Placed, OrderRow
  <2>. QED
    BY <1>1, <2>1, <2>2, <2>4, RightStays
<1>3. CASE op = "delivery"
  <2>1. q \in {"kots", "tables"}
    BY <1>1, <1>3 DEF Told
  <2>2. tables' = tables /\ kots' = kots
    BY <1>3 DEF Apply
  <2>. QED
    BY <2>1, <2>2, RightStays
<1>4. CASE op \in {"transfer", "merge"}
  <2>1. q = "delivery"
    BY <1>1, <1>4 DEF Told
  <2>2. \A o \in Placed : orders'[o].del = orders[o].del
    <3>1. CASE op = "transfer"
      <4>1. orders' = Moved(x, x, y) /\ y \in Table
        BY <3>1 DEF Apply, ArgsOK
      <4>. QED
        BY <1>1, <4>1, MovedTyped
    <3>2. CASE op = "merge"
      <4>1. orders' = Moved(x, y, place[y]) /\ y \in Order /\ place[y] \in Table
        BY <3>2 DEF Apply, Allowed, ArgsOK, ServerInv
      <4>. QED
        BY <1>1, <4>1, MovedTyped
    <3>. QED
      BY <1>4, <3>1, <3>2
  <2>. QED
    BY <1>1, <2>1, <2>2, RightStays
<1>5. CASE op \in {"bill", "voidBill"}
  <2>1. orders' = orders /\ kots' = kots
    BY <1>5 DEF Apply
  <2>2. q = "tables" => tables' = tables
    BY <1>5 DEF Told, Apply
  <2>. QED
    BY <1>1, <2>1, <2>2, RightStays
<1>. QED
  BY <1>2, <1>3, <1>4, <1>5 DEF ScreenOp

\* An order is placed, in a session that is at its table or in one of its own.
LEMMA PlacedInv ==
  ASSUME ServerInv, NEW o \in Order, orders[o] = None, NEW row \in OrderRow,
         orders' = [orders EXCEPT ![o] = row],
         kots' \in [Order -> KotStatus \cup {None}], \A p \in Order \ {o} : kots'[p] = kots[p],
         tables' \subseteq Table, billed' = billed, revived' = revived,
         place' = [place EXCEPT ![row.ses] = row.at],
         row.ses = o \/ (row.ses \in Placed /\ place[row.ses] = row.at /\ row.at # None),
         row.del # None => row.at = None
  PROVE  ServerInv' /\ Placed' = Placed \cup {o} /\ \A p \in Placed : orders'[p] = orders[p]
<1>1. /\ orders \in [Order -> OrderRow \cup {None}]
      /\ orders' \in [Order -> OrderRow \cup {None}] /\ orders'[o] = row /\ row # None
      /\ \A p \in Order \ {o} : orders'[p] = orders[p]
  BY NoneDiffers DEF ServerInv
<1>2. Placed' = Placed \cup {o} /\ o \notin Placed /\ Placed \subseteq Order
  BY <1>1 DEF Placed
<1>3. \A p \in Order : kots'[p] # None => orders'[p] # None
  BY <1>1 DEF ServerInv
<1>4. /\ place' \in [Order -> Table \cup {None}] /\ place'[row.ses] = row.at
      /\ \A p \in Order : p # row.ses => place'[p] = place[p]
      /\ row.ses \in Order
  BY DEF ServerInv, OrderRow
<1>5. \A p \in Placed : orders[p].ses \in Placed /\ (row.ses # o \/ orders[p].ses # row.ses)
  BY <1>2 DEF ServerInv, SessionInv
<1>6. \A p \in Placed : place'[orders[p].ses] = place[orders[p].ses]
  BY <1>2, <1>4, <1>5
<1>7. SessionInv'
  <2>1. ASSUME NEW p \in Placed'
        PROVE  /\ orders'[p].ses \in Placed'
               /\ orders'[p].del # None => orders'[p].at = None /\ place'[orders'[p].ses] = None
    <3>1. CASE p = o
      BY <1>1, <1>2, <1>4, <3>1
    <3>2. CASE p # o
      <4>1. p \in Placed /\ orders'[p] = orders[p]
        BY <1>1, <1>2, <3>2
      <4>. QED
        BY <1>2, <1>5, <1>6, <4>1 DEF ServerInv, SessionInv
    <3>. QED
      BY <3>1, <3>2
  <2>2. ASSUME NEW s \in Order, place'[s] # None
        PROVE  s \in Placed'
    BY <1>2, <1>4, <2>2 DEF ServerInv, SessionInv
  <2>3. ASSUME revived' = {}, NEW p \in Placed', orders'[p].at # None, orders'[p].st # "CANCELLED"
        PROVE  place'[orders'[p].ses] = orders'[p].at
    <3>1. CASE p = o
      BY <1>1, <1>4, <3>1
    <3>2. CASE p # o
      <4>1. p \in Placed /\ orders'[p] = orders[p]
        BY <1>1, <1>2, <3>2
      <4>. QED
        BY <1>6, <2>3, <4>1 DEF ServerInv, SessionInv
    <3>. QED
      BY <3>1, <3>2
  <2>. QED
    BY <2>1, <2>2, <2>3 DEF SessionInv
<1>. QED
  BY <1>1, <1>2, <1>3, <1>4, <1>7 DEF ServerInv

LEMMA PlaceOrderInv ==
  ASSUME ServerInv, NEW o \in Order, NEW t \in Table, orders[o] = None, PlaceOrder(o, t)
  PROVE  ServerInv' /\ Placed' = Placed \cup {o} /\ \A p \in Placed : orders'[p] = orders[p]
<1>1. /\ tables' = tables \cup {t} /\ kots' = [kots EXCEPT ![o] = "NEW"]
      /\ billed' = billed /\ revived' = revived
  BY DEF PlaceOrder
<1>2. PICK s \in Order :
        /\ s = o \/ place[s] = t
        /\ orders' = [orders EXCEPT ![o] = [st |-> "PLACED", del |-> None, at |-> t, ses |-> s]]
        /\ place' = [place EXCEPT ![s] = t]
  BY DEF PlaceOrder
<1> DEFINE row == [st |-> "PLACED", del |-> None, at |-> t, ses |-> s]
<1>3. row \in OrderRow /\ row.ses = s /\ row.at = t /\ row.del = None
  BY DEF OrderRow, OrderStatus, DeliveryStatus
<1>4. orders' = [orders EXCEPT ![o] = row]
  BY <1>2
<1> HIDE DEF row
<1>5. t # None /\ (s = o \/ (s \in Placed /\ place[s] = t))
  BY <1>2, NoneDiffers DEF ServerInv, SessionInv
<1>6. /\ kots' \in [Order -> KotStatus \cup {None}] /\ \A p \in Order \ {o} : kots'[p] = kots[p]
      /\ tables' \subseteq Table
  BY <1>1 DEF ServerInv, KotStatus
<1>. QED
  BY <1>1, <1>2, <1>3, <1>4, <1>5, <1>6, PlacedInv

LEMMA PlaceDeliveryInv ==
  ASSUME ServerInv, NEW o \in Order, NEW k \in {"NEW", None}, orders[o] = None, PlaceDelivery(o, k)
  PROVE  ServerInv' /\ Placed' = Placed \cup {o} /\ \A p \in Placed : orders'[p] = orders[p]
<1>1. /\ orders' = [orders EXCEPT ![o] = [st |-> "PLACED", del |-> "PLACED", at |-> None, ses |-> o]]
      /\ kots' = [kots EXCEPT ![o] = k]
      /\ UNCHANGED <<tables, place, billed, revived>>
  BY DEF PlaceDelivery
<1> DEFINE row == [st |-> "PLACED", del |-> "PLACED", at |-> None, ses |-> o]
<1>2. row \in OrderRow /\ row.ses = o /\ row.at = None
  BY DEF OrderRow, OrderStatus, DeliveryStatus
<1>3. orders' = [orders EXCEPT ![o] = row]
  BY <1>1
<1> HIDE DEF row
<1>4. /\ kots' \in [Order -> KotStatus \cup {None}] /\ \A p \in Order \ {o} : kots'[p] = kots[p]
      /\ tables' \subseteq Table
  BY <1>1 DEF ServerInv, KotStatus
<1>5. place' = [place EXCEPT ![o] = None]
  <2>1. place[o] = None
    BY DEF ServerInv, SessionInv, Placed
  <2>. QED
    BY <1>1, <2>1 DEF ServerInv
<1>6. place' = [place EXCEPT ![row.ses] = row.at] /\ billed' = billed /\ revived' = revived
  BY <1>1, <1>2, <1>5
<1>. QED
  BY <1>2, <1>3, <1>4, <1>6, PlacedInv

-----------------------------------------------------------------------------
(* What the screen holds when something happens at the server.             *)

LEMMA ServerOfScreens ==
  ASSUME ScreensInv
  PROVE  ServerInv
  BY DEF ScreensInv, TypeOK, ServerInv

\* Copies and dialogs are what they were.
LEMMA ScreenStays ==
  ASSUME ScreensInv, UNCHANGED <<screen, role, seen, dialogs>>, ServerInv', Placed \subseteq Placed',
         due' \cup blind' \subseteq Queries, RequestsInv', TxnInv', SightInv', FreshOfferLegal'
  PROVE  ScreensInv'
<1>1. UNCHANGED <<sel, bill, move>> /\ Queries' = Queries
  BY DEF dialogs, Queries
<1>2. TypeOK'
  <2>1. \A o \in Order : orders'[o] = None \/ orders'[o] \in OrderRow
    BY DEF ServerInv
  <2>2. \A o \in Order : kots'[o] # None => kots'[o] \in KotStatus /\ orders'[o] # None
    BY DEF ServerInv
  <2>3. tables' \subseteq Table /\ place' \in [Order -> Table \cup {None}] /\ billed' \subseteq Order
    BY DEF ServerInv
  <2>4. /\ sel' # None => screen' = "orders" /\ sel'[1] \in Order /\ sel'[2] \in OrderRow
        /\ move' # None => screen' = "tables" /\ move'.target \in (Table \cup {None}) \ {move'.table}
    BY <1>1 DEF ScreensInv, TypeOK
  <2>. QED
    BY <1>1, <2>1, <2>2, <2>3, <2>4 DEF TypeOK
<1>3. CopiesInv'
  BY <1>1 DEF ScreensInv, CopiesInv
<1>4. DialogInv'
  BY <1>1 DEF ScreensInv, DialogInv
<1>. QED
  BY <1>2, <1>3, <1>4 DEF ScreensInv, ServerInv

\* What makes a request well formed stays, whatever is placed.
LEMMA RequestStays ==
  ASSUME NEW r, RequestOK(r), Placed \subseteq Placed', NEW u,
         u.op = r.op, u.x = r.x, u.y = r.y, u.from = r.from
  PROVE  RequestOK(u)'
  BY DEF RequestOK

\* A request that is under way is about something there is.
LEMMA RequestArgs ==
  ASSUME ScreensInv, NEW r \in reqs
  PROVE  r \in Request /\ RequestOK(r) /\ r.op \in ScreenOp /\ ArgsOK(r.op, r.x, r.y)
  BY DEF ScreensInv, RequestsInv, Request, RequestOK, ArgsOK, ScreenOp

\* A copy that is right stays so, and an answer on its way stays on its way.
LEMMA SightStays ==
  ASSUME ScreensInv, Queries' = Queries,
         \A q \in Queries \ (due' \cup blind') : q \notin due \cup blind,
         \A q \in Queries \ (due' \cup blind') : RightAbout(q) => RightAbout(q)',
         \A r \in reqs : r.stage = "done" =>
           \/ \E u \in reqs' : u.stage = "done" /\ u.op = r.op
           \/ Invalidated(r.op) \cap Queries \subseteq due' \cup blind'
  PROVE  SightInv'
<1>1. ASSUME NEW q \in Queries, q \notin due' \cup blind'
      PROVE  RightAbout(q)' \/ \E u \in reqs' : u.stage = "done" /\ q \in Invalidated(u.op)
  <2>1. RightAbout(q) \/ \E r \in reqs : r.stage = "done" /\ q \in Invalidated(r.op)
    BY <1>1 DEF ScreensInv, SightInv
  <2>. QED
    BY <1>1, <2>1
<1>. QED
  BY <1>1 DEF SightInv

-----------------------------------------------------------------------------
(* Transactions.                                                           *)

\* A transaction under way is about something there is.
LEMMA TxnArgs ==
  ASSUME ScreensInv, txn # None
  PROVE  ArgsOK(txn.op, txn.x, txn.y) /\ Allowed(txn.op, txn.x, txn.y)
  BY DEF ScreensInv, TxnInv, Transaction, ArgsOK

\* Nothing at the server but its transaction changes.
LEMMA RowsStay ==
  ASSUME ScreensInv, UNCHANGED <<screen, role, rows>>
  PROVE  ServerInv' /\ Placed' = Placed /\ Queries' = Queries
<1>1. UNCHANGED <<orders, kots, tables, place, billed, revived>>
  BY DEF rows
<1>2. Placed' = Placed /\ Queries' = Queries
  BY ServerStays DEF ScreensInv
<1>. QED
  BY <1>1, <1>2, ServerOfScreens DEF ServerInv, SessionInv

\* A transaction begins: nothing is to be seen of it yet.
LEMMA BeginInv ==
  ASSUME ScreensInv, NEW op, NEW x, NEW y, ArgsOK(op, x, y), Begin(op, x, y),
         \A u \in reqs' : \E r \in reqs :
           /\ u \in Request /\ u.op = r.op /\ u.x = r.x /\ u.y = r.y /\ u.from = r.from
           /\ u.fresh = r.fresh
           /\ u.stage = r.stage \/ (u.stage = "run" /\ r.op = op /\ r.x = x /\ r.y = y),
         \A r \in reqs : r.stage = "done" => r \in reqs'
  PROVE  ScreensInv'
<1>1. /\ txn = None /\ Allowed(op, x, y) /\ txn' = [op |-> op, x |-> x, y |-> y]
      /\ due' \in {due, due \cup (Told(op) \cap Queries)}
      /\ UNCHANGED <<screen, role, rows>> /\ UNCHANGED <<seen, blind, dialogs>>
  BY DEF Begin
<1>2. ServerInv' /\ Placed' = Placed /\ Queries' = Queries
  BY <1>1, RowsStay
<1>3. UNCHANGED <<orders, kots, tables, place, billed, revived>>
  BY <1>1 DEF rows
<1>4. due' \cup blind' \subseteq Queries
  BY <1>1 DEF ScreensInv, TypeOK
<1>5. SightInv'
  <2>1. \A q \in Queries : RightAbout(q) => RightAbout(q)'
    BY <1>1, ServerStays DEF ScreensInv
  <2>2. due \cup blind \subseteq due' \cup blind'
    BY <1>1
  <2>. QED
    BY <1>2, <2>1, <2>2, SightStays
<1>6. RequestsInv'
  BY <1>2, RequestArgs, RequestStays DEF RequestsInv
<1>7. FreshOfferLegal'
  <2>1. ASSUME NEW u \in reqs', u.fresh,
               u.op \in {"transfer", "merge"} => {u.x, u.y} \cap billed = {} /\ revived = {}
        PROVE  Allowed(u.op, u.x, u.y)
    <3>1. PICK r \in reqs : u.op = r.op /\ u.x = r.x /\ u.y = r.y /\ u.fresh = r.fresh
      OBVIOUS
    <3>2. /\ r.fresh
          /\ r.op \in {"transfer", "merge"} => {r.x, r.y} \cap billed = {} /\ revived = {}
      BY <2>1, <3>1
    <3>3. Allowed(r.op, r.x, r.y)
      BY <3>2 DEF ScreensInv, FreshOfferLegal
    <3>. QED
      BY <3>1, <3>3
  <2>. QED
    BY <1>3, <2>1 DEF FreshOfferLegal, Allowed
<1>8. TxnInv'
  <2>1. txn' \in Transaction /\ txn'.op = op /\ txn'.x = x /\ txn'.y = y
    BY <1>1 DEF ArgsOK, Transaction
  <2>2. Allowed(op, x, y)'
    BY <1>1, <1>3 DEF Allowed
  <2>3. ASSUME NEW u \in reqs', u.stage = "run"
        PROVE  txn' = [op |-> u.op, x |-> u.x, y |-> u.y]
    <3>1. PICK r \in reqs :
            /\ u.op = r.op /\ u.x = r.x /\ u.y = r.y
            /\ u.stage = r.stage \/ (r.op = op /\ r.x = x /\ r.y = y)
      OBVIOUS
    <3>2. r.stage # "run"
      <4>1. r.stage = "run" => txn = [op |-> r.op, x |-> r.x, y |-> r.y]
        BY DEF ScreensInv, TxnInv
      <4>2. [op |-> r.op, x |-> r.x, y |-> r.y] \in Transaction
        BY RequestArgs DEF Transaction, ArgsOK
      <4>. QED
        BY <1>1, <4>1, <4>2, NoneAssumption
    <3>. QED
      BY <1>1, <2>3, <3>1, <3>2
  <2>. QED
    BY <1>2, <2>1, <2>2, <2>3 DEF TxnInv, ArgsOK
<1>. QED
  BY <1>1, <1>2, <1>4, <1>5, <1>6, <1>7, <1>8, ScreenStays

LEMMA BeginOtherInv ==
  ASSUME ScreensInv, NEW op, NEW x, NEW y, ArgsOK(op, x, y), BeginOther(op, x, y)
  PROVE  ScreensInv'
<1>1. Begin(op, x, y) /\ reqs' = reqs
  BY DEF BeginOther
<1>. QED
  BY <1>1, BeginInv, RequestArgs

LEMMA BeginMineInv ==
  ASSUME ScreensInv, NEW q \in reqs, BeginMine(q)
  PROVE  ScreensInv'
<1> DEFINE new == [q EXCEPT !.stage = "run"]
<1>1. /\ q.stage = "sent" /\ Begin(q.op, q.x, q.y) /\ reqs' = (reqs \ {q}) \cup {new}
  BY DEF BeginMine
<1>2. q \in Request /\ ArgsOK(q.op, q.x, q.y)
  BY RequestArgs
<1>3. /\ new \in Request /\ new.op = q.op /\ new.x = q.x /\ new.y = q.y /\ new.from = q.from
      /\ new.fresh = q.fresh /\ new.stage = "run"
  BY <1>2 DEF Request
<1> HIDE DEF new
<1>4. \A u \in reqs' : \E r \in reqs :
        /\ u \in Request /\ u.op = r.op /\ u.x = r.x /\ u.y = r.y /\ u.from = r.from
        /\ u.fresh = r.fresh
        /\ u.stage = r.stage \/ (u.stage = "run" /\ r.op = q.op /\ r.x = q.x /\ r.y = q.y)
  BY <1>1, <1>3, RequestArgs
<1>5. \A r \in reqs : r.stage = "done" => r \in reqs'
  BY <1>1
<1>. QED
  BY <1>1, <1>2, <1>4, <1>5, BeginInv

\* What a commit does to the server, and which copies it leaves right.
LEMMA CommitEffect ==
  ASSUME ScreensInv, Commit
  PROVE  /\ ServerInv' /\ Placed \subseteq Placed'
         /\ \A q \in Queries \ Told(txn.op) : RightAbout(q) => RightAbout(q)'
<1>1. /\ txn # None
      /\ CASE txn.op = "place" -> PlaceOrder(txn.x, txn.y)
           [] txn.op = "deliver" -> PlaceDelivery(txn.x, txn.y)
           [] OTHER -> Apply(txn.op, txn.x, txn.y)
      /\ UNCHANGED <<screen, role, seen>>
  BY DEF Commit
<1>2. ArgsOK(txn.op, txn.x, txn.y) /\ Allowed(txn.op, txn.x, txn.y)
  BY <1>1, TxnArgs
<1>3. ServerInv
  BY ServerOfScreens
<1>4. CASE txn.op \in {"place", "deliver"}
  <2>1. orders[txn.x] = None
    BY <1>2, <1>4 DEF Allowed
  <2>2. ServerInv' /\ Placed' = Placed \cup {txn.x} /\ \A p \in Placed : orders'[p] = orders[p]
    <3>1. CASE txn.op = "place"
      BY <1>1, <1>2, <1>3, <2>1, <3>1, PlaceOrderInv DEF ArgsOK
    <3>2. CASE txn.op = "deliver"
      BY <1>1, <1>2, <1>3, <2>1, <3>2, PlaceDeliveryInv DEF ArgsOK
    <3>. QED
      BY <1>4, <3>1, <3>2
  <2>3. ASSUME NEW q \in Queries, q \notin Told(txn.op), RightAbout(q)
        PROVE  RightAbout(q)'
    <3>1. q = "delivery"
      BY <1>4, <2>3, QueryNames DEF ScreensInv, Told
    <3>2. \A row \in seen[q] : row[1] \in Placed
      BY <2>3, <3>1 DEF ScreensInv, CopiesInv
    <3>. QED
      BY <1>1, <2>2, <2>3, <3>1, <3>2, RightStays
  <2>. QED
    BY <2>2, <2>3
<1>5. CASE txn.op \notin {"place", "deliver"}
  <2>1. txn.op \in ScreenOp \cup {"voidBill"}
    BY <1>2, <1>5 DEF ArgsOK
  <2>2. Apply(txn.op, txn.x, txn.y)
    BY <1>1, <1>5
  <2>3. ServerInv' /\ Placed' = Placed
    BY <1>2, <1>3, <2>1, <2>2, ApplyInv
  <2>4. \A q \in Queries \ Told(txn.op) : RightAbout(q) => RightAbout(q)'
    BY <1>1, <1>2, <1>3, <2>1, <2>2, ApplyFrame
  <2>. QED
    BY <2>3, <2>4
<1>. QED
  BY <1>4, <1>5

\* A request after a commit: no longer fresh, and done if it was its own.
Committed(r) == [r EXCEPT !.fresh = FALSE, !.stage = IF @ = "run" THEN "done" ELSE @]

LEMMA CommittedRequest ==
  ASSUME ScreensInv, NEW r \in reqs
  PROVE  /\ Committed(r) \in Request /\ ~Committed(r).fresh
         /\ Committed(r).op = r.op /\ Committed(r).x = r.x /\ Committed(r).y = r.y
         /\ Committed(r).from = r.from
         /\ Committed(r).stage = IF r.stage = "run" THEN "done" ELSE r.stage
<1>1. r \in Request
  BY RequestArgs
<1>. QED
  BY <1>1 DEF Committed, Request

\* The server's message and the answer of a request name the same queries.
LEMMA ToldInvalidated ==
  ASSUME NEW op \in ScreenOp
  PROVE  Invalidated(op) = Told(op)
  BY DEF ScreenOp, Told, Invalidated

LEMMA CommitInv ==
  ASSUME ScreensInv, Commit
  PROVE  ScreensInv'
<1>1. /\ txn # None /\ txn' = None /\ UNCHANGED <<screen, role>>
      /\ seen' = seen /\ due' = due /\ dialogs' = dialogs
      /\ blind' = IF Mine THEN blind ELSE blind \cup Missed(txn.op)
  BY DEF Commit
<1>2. reqs' = {Committed(r) : r \in reqs}
  BY DEF Commit, Committed
<1>3. /\ ServerInv' /\ Placed \subseteq Placed'
      /\ \A q \in Queries \ Told(txn.op) : RightAbout(q) => RightAbout(q)'
  BY CommitEffect
<1>4. Queries' = Queries
  BY <1>1 DEF Queries
<1>5. due' \cup blind' \subseteq Queries
  BY <1>1, <1>4 DEF ScreensInv, TypeOK, Missed
<1>6. RequestsInv' /\ FreshOfferLegal' /\ TxnInv'
  <2>1. ASSUME NEW u \in reqs'
        PROVE  u \in Request /\ RequestOK(u)' /\ ~u.fresh /\ u.stage # "run"
    <3>1. PICK r \in reqs : u = Committed(r)
      BY <1>2
    <3>. QED
      BY <1>3, <3>1, CommittedRequest, RequestArgs, RequestStays
  <2>. QED
    BY <1>1, <2>1 DEF RequestsInv, FreshOfferLegal, TxnInv
<1>7. \A r \in reqs : r.stage = "done" => \E u \in reqs' : u.stage = "done" /\ u.op = r.op
  BY <1>2, CommittedRequest
<1>8. SightInv'
  <2>1. ASSUME NEW q \in Queries, q \notin due' \cup blind'
        PROVE  RightAbout(q)' \/ \E u \in reqs' : u.stage = "done" /\ q \in Invalidated(u.op)
    <3>1. q \notin due \cup blind
      BY <1>1, <2>1
    <3>2. CASE q \in Told(txn.op)
      <4>1. Mine
        BY <1>1, <2>1, <3>1, <3>2 DEF Missed
      <4>2. PICK r \in reqs : r.stage = "run"
        BY <4>1 DEF Mine
      <4>3. r.op = txn.op /\ r.op \in ScreenOp
        BY <4>2, RequestArgs DEF ScreensInv, TxnInv
      <4>. QED
        BY <1>2, <3>2, <4>2, <4>3, CommittedRequest, ToldInvalidated
    <3>3. CASE q \notin Told(txn.op)
      <4>1. RightAbout(q) \/ \E r \in reqs : r.stage = "done" /\ q \in Invalidated(r.op)
        BY <3>1 DEF ScreensInv, SightInv
      <4>. QED
        BY <1>3, <1>7, <3>3, <4>1
    <3>. QED
      BY <3>2, <3>3
  <2>. QED
    BY <1>4, <2>1 DEF SightInv
<1>. QED
  BY <1>1, <1>3, <1>5, <1>6, <1>8, ScreenStays

-----------------------------------------------------------------------------
(* The screen's own requests.                                              *)

\* A request goes, answered or not.
LEMMA RequestGone ==
  ASSUME ScreensInv, reqs' \subseteq reqs, UNCHANGED <<screen, role, rows>>
  PROVE  /\ RequestsInv' /\ FreshOfferLegal' /\ ServerInv' /\ Placed' = Placed
         /\ Queries' = Queries
         /\ seen' = seen => \A q \in Queries : RightAbout(q) => RightAbout(q)'
         /\ txn' = txn => TxnInv'
<1>1. UNCHANGED <<orders, kots, tables, place, billed, revived>>
  BY DEF rows
<1>2. /\ ServerInv' /\ Placed' = Placed /\ Queries' = Queries
      /\ seen' = seen => \A q \in Queries : RightAbout(q) => RightAbout(q)'
  BY RowsStay, ServerStays DEF ScreensInv
<1>3. RequestsInv'
  BY <1>2 DEF ScreensInv, RequestsInv, RequestOK
<1>4. FreshOfferLegal'
  BY <1>1 DEF ScreensInv, FreshOfferLegal, Allowed
<1>5. txn' = txn => TxnInv'
  BY <1>1, <1>2 DEF ScreensInv, TxnInv, Allowed
<1>. QED
  BY <1>2, <1>3, <1>4, <1>5

LEMMA RollbackInv ==
  ASSUME ScreensInv, Rollback
  PROVE  ScreensInv'
<1>1. /\ txn' = None /\ reqs' = {r \in reqs : r.stage # "run"}
      /\ UNCHANGED <<screen, role, rows>> /\ UNCHANGED <<seen, due, blind, dialogs>>
  BY DEF Rollback, copies
<1>2. /\ RequestsInv' /\ FreshOfferLegal' /\ ServerInv' /\ Placed' = Placed
      /\ Queries' = Queries /\ \A q \in Queries : RightAbout(q) => RightAbout(q)'
  BY <1>1, RequestGone
<1>3. TxnInv'
  BY <1>1 DEF TxnInv
<1>4. SightInv'
  BY <1>1, <1>2, SightStays
<1>5. due' \cup blind' \subseteq Queries
  BY <1>1 DEF ScreensInv, TypeOK
<1>. QED
  BY <1>1, <1>2, <1>3, <1>4, <1>5, ScreenStays

LEMMA RefusedInv ==
  ASSUME ScreensInv, NEW r \in reqs, Refused(r)
  PROVE  ScreensInv'
<1>1. /\ r.stage = "sent" /\ reqs' = reqs \ {r} /\ txn' = txn
      /\ UNCHANGED <<screen, role, rows>> /\ UNCHANGED <<seen, due, blind, dialogs>>
  BY DEF Refused, copies, server
<1>2. /\ RequestsInv' /\ FreshOfferLegal' /\ ServerInv' /\ Placed' = Placed /\ TxnInv'
      /\ Queries' = Queries /\ \A q \in Queries : RightAbout(q) => RightAbout(q)'
  BY <1>1, RequestGone
<1>3. SightInv'
  BY <1>1, <1>2, SightStays
<1>4. due' \cup blind' \subseteq Queries
  BY <1>1 DEF ScreensInv, TypeOK
<1>. QED
  BY <1>1, <1>2, <1>3, <1>4, ScreenStays

LEMMA LoseAnswerInv ==
  ASSUME ScreensInv, NEW r \in reqs, LoseAnswer(r)
  PROVE  ScreensInv'
<1>1. /\ reqs' = reqs \ {r} /\ blind' = Queries /\ txn' = txn
      /\ UNCHANGED <<screen, role, rows>> /\ UNCHANGED <<seen, due, dialogs>>
  BY DEF LoseAnswer, server
<1>2. /\ RequestsInv' /\ FreshOfferLegal' /\ ServerInv' /\ Placed' = Placed /\ TxnInv'
      /\ Queries' = Queries
  BY <1>1, RequestGone
<1>3. SightInv' /\ due' \cup blind' \subseteq Queries
  BY <1>1, <1>2 DEF ScreensInv, SightInv, TypeOK
<1>. QED
  BY <1>1, <1>2, <1>3, ScreenStays

-----------------------------------------------------------------------------
(* The screen's queries.                                                   *)

LEMMA FetchInv ==
  ASSUME ScreensInv, NEW q \in Queries, Fetch(q)
  PROVE  ScreensInv'
<1>1. /\ seen' = [seen EXCEPT ![q] = Answer(q)] /\ due' = due \ {q} /\ blind' = blind \ {q}
      /\ txn' = txn /\ UNCHANGED <<screen, role, rows>> /\ UNCHANGED <<sel, bill, move, reqs>>
  BY DEF Fetch, dialogs, server
<1>2. /\ RequestsInv' /\ FreshOfferLegal' /\ ServerInv' /\ Placed' = Placed /\ TxnInv'
      /\ Queries' = Queries
  BY <1>1, RequestGone
<1>8. UNCHANGED <<orders, kots, tables, place, billed>>
  BY <1>1 DEF rows
<1>3. seen'[q] = Answer(q) /\ \A k \in Queries \ {q} : seen'[k] = seen[k]
  BY <1>1 DEF ScreensInv, CopiesInv
<1>4. CopiesInv'
  <2>1. seen' = [k \in Queries |-> seen'[k]]
    BY <1>1 DEF ScreensInv, CopiesInv
  <2>2. ASSUME NEW k \in Queries
        PROVE  /\ k = "kots" => seen'[k] \subseteq Order \X KotStatus
               /\ k \in {"orders", "delivery"} => seen'[k] \subseteq Placed \X OrderRow
               /\ k = "tables" => seen'[k] \subseteq Table
    <3>1. CASE k = q
      BY <1>3, <3>1, AnswerTyped
    <3>2. CASE k # q
      BY <1>3, <3>2 DEF ScreensInv, CopiesInv
    <3>. QED
      BY <3>1, <3>2
  <2>. QED
    BY <1>2, <2>1, <2>2 DEF CopiesInv
<1>5. SightInv'
  <2>1. ASSUME NEW k \in Queries, k \notin due' \cup blind'
        PROVE  RightAbout(k)' \/ \E r \in reqs' : r.stage = "done" /\ k \in Invalidated(r.op)
    <3>1. CASE k = q
      <4>1. Answer(k)' = Answer(k)
        BY <1>8, <1>1 DEF Answer, Active, Placed
      <4>2. CASE q = "delivery"
        BY <1>8, <1>3, <3>1, <4>2 DEF RightAbout, Answer
      <4>3. CASE q # "delivery"
        BY <1>3, <3>1, <4>1, <4>3 DEF RightAbout
      <4>. QED
        BY <4>2, <4>3
    <3>2. CASE k # q
      <4>1. RightAbout(k) \/ \E r \in reqs : r.stage = "done" /\ k \in Invalidated(r.op)
        BY <1>1, <2>1, <3>2 DEF ScreensInv, SightInv
      <4>2. Answer(k)' = Answer(k)
        BY <1>8, <1>1 DEF Answer, Active, Placed
      <4>3. RightAbout(k) => RightAbout(k)'
        BY <1>8, <1>3, <3>2, <4>2 DEF RightAbout
      <4>. QED
        BY <1>1, <4>1, <4>3
    <3>. QED
      BY <3>1, <3>2
  <2>. QED
    BY <1>2, <2>1 DEF SightInv
<1>6. DialogInv'
  BY <1>1, <1>2 DEF ScreensInv, DialogInv
<1>7. TypeOK'
  BY <1>8, <1>1, <1>2 DEF ScreensInv, TypeOK
<1>. QED
  BY <1>1, <1>2, <1>4, <1>5, <1>6, <1>7 DEF ScreensInv, ServerInv

LEMMA FetchFailsInv ==
  ASSUME ScreensInv, NEW q \in Queries, FetchFails(q)
  PROVE  ScreensInv'
<1>1. /\ due' = due \ {q} /\ blind' = blind \cup {q}
      /\ txn' = txn /\ UNCHANGED <<screen, role, rows>> /\ UNCHANGED <<seen, dialogs, reqs>>
  BY DEF FetchFails, server
<1>2. /\ RequestsInv' /\ FreshOfferLegal' /\ ServerInv' /\ Placed' = Placed /\ TxnInv'
      /\ Queries' = Queries /\ \A k \in Queries : RightAbout(k) => RightAbout(k)'
  BY <1>1, RequestGone
<1>3. SightInv'
  BY <1>1, <1>2, SightStays
<1>4. due' \cup blind' \subseteq Queries
  BY <1>1 DEF ScreensInv, TypeOK
<1>. QED
  BY <1>1, <1>2, <1>3, <1>4, ScreenStays

-----------------------------------------------------------------------------
(* The dialogs.                                                            *)

\* What can be in the dialog of an order, and in that of a table.
SelOK(s) == s # None => screen = "orders" /\ s \in Placed \X OrderRow
MoveOK(m) ==
  m # None =>
    /\ screen = "tables" /\ m.target # m.table
    /\ m \in [table : Table, mode : {"transfer", "merge"}, target : Table \cup {None}]

LEMMA DialogsTyped ==
  ASSUME ScreensInv
  PROVE  SelOK(sel) /\ MoveOK(move) /\ SelOK(None) /\ MoveOK(None)
<1>1. SelOK(sel)
  BY DEF ScreensInv, TypeOK, DialogInv, SelOK
<1>2. MoveOK(move)
  BY DEF ScreensInv, TypeOK, DialogInv, MoveOK
<1>. QED
  BY <1>1, <1>2 DEF SelOK, MoveOK

LEMMA DialogsChange ==
  ASSUME ScreensInv, UNCHANGED <<screen, role, server>>, seen' = seen, due' \cup blind' \subseteq Queries,
         reqs' \subseteq reqs, SightInv', SelOK(sel'), MoveOK(move')
  PROVE  ScreensInv'
<1>0. UNCHANGED <<orders, kots, tables, place, billed, txn>> /\ UNCHANGED rows
  BY DEF server, rows
<1>1. /\ RequestsInv' /\ FreshOfferLegal' /\ ServerInv' /\ Placed' = Placed /\ Queries' = Queries
      /\ TxnInv'
  BY <1>0, RequestGone
<1>2. CopiesInv'
  BY <1>1 DEF ScreensInv, CopiesInv
<1>3. DialogInv'
  BY <1>1 DEF DialogInv, SelOK, MoveOK
<1>4. TypeOK'
  <2>1. sel' # None => screen' = "orders" /\ sel'[1] \in Order /\ sel'[2] \in OrderRow
    BY DEF SelOK, Placed
  <2>2. move' # None => screen' = "tables" /\ move'.target \in (Table \cup {None}) \ {move'.table}
    BY DEF MoveOK
  <2>. QED
    BY <1>0, <1>1, <2>1, <2>2 DEF ScreensInv, TypeOK
<1>. QED
  BY <1>1, <1>2, <1>3, <1>4 DEF ScreensInv, ServerInv

\* Only a dialog changes.
LEMMA DialogStep ==
  ASSUME ScreensInv, UNCHANGED <<screen, role, server, copies, reqs>>, SelOK(sel'), MoveOK(move')
  PROVE  ScreensInv'
<1>1. UNCHANGED <<screen, role, server, rows>> /\ UNCHANGED <<seen, due, blind, reqs>>
  BY DEF copies, server
<1>2. Queries' = Queries /\ \A q \in Queries : RightAbout(q) => RightAbout(q)'
  BY <1>1, ServerStays DEF ScreensInv
<1>3. SightInv'
  BY <1>1, <1>2, SightStays
<1>4. due' \cup blind' \subseteq Queries
  BY <1>1 DEF ScreensInv, TypeOK
<1>. QED
  BY <1>1, <1>3, <1>4, DialogsChange

LEMMA SelectOrderInv ==
  ASSUME ScreensInv, NEW o \in Order, SelectOrder(o)
  PROVE  ScreensInv'
<1>1. /\ screen = "orders" /\ sel' \in seen["orders"] /\ move' = move
      /\ UNCHANGED <<screen, role, server, copies, reqs>>
  BY DEF SelectOrder
<1>2. "orders" \in Queries
  BY <1>1 DEF Queries
<1>3. sel' \in Placed \X OrderRow
  BY <1>1, <1>2 DEF ScreensInv, CopiesInv
<1>. QED
  BY <1>1, <1>3, DialogStep, DialogsTyped DEF SelOK

LEMMA CloseOrderInv ==
  ASSUME ScreensInv, CloseOrder
  PROVE  ScreensInv'
  BY DialogStep, DialogsTyped DEF CloseOrder

LEMMA CloseBillInv ==
  ASSUME ScreensInv, CloseBill
  PROVE  ScreensInv'
  BY DialogStep, DialogsTyped DEF CloseBill

LEMMA OpenMoveInv ==
  ASSUME ScreensInv, NEW t \in Table, OpenMove(t)
  PROVE  ScreensInv'
<1>1. /\ screen = "tables" /\ move' = [table |-> t, mode |-> "transfer", target |-> None]
      /\ sel' = sel /\ UNCHANGED <<screen, role, server, copies, reqs>>
  BY DEF OpenMove
<1>2. MoveOK(move')
  BY <1>1, NoneDiffers DEF MoveOK
<1>. QED
  BY <1>1, <1>2, DialogStep, DialogsTyped

LEMMA CloseMoveInv ==
  ASSUME ScreensInv, CloseMove
  PROVE  ScreensInv'
  BY DialogStep, DialogsTyped DEF CloseMove

LEMMA ChooseModeInv ==
  ASSUME ScreensInv, NEW m \in {"transfer", "merge"}, ChooseMode(m)
  PROVE  ScreensInv'
<1>1. /\ move # None /\ move' = [move EXCEPT !.mode = m, !.target = None]
      /\ sel' = sel /\ UNCHANGED <<screen, role, server, copies, reqs>>
  BY DEF ChooseMode
<1>2. MoveOK(move')
  BY <1>1, NoneDiffers, DialogsTyped DEF MoveOK
<1>. QED
  BY <1>1, <1>2, DialogStep, DialogsTyped

LEMMA ChooseTargetInv ==
  ASSUME ScreensInv, NEW t \in Table, ChooseTarget(t)
  PROVE  ScreensInv'
<1>1. /\ move # None /\ t # move.table /\ move' = [move EXCEPT !.target = t]
      /\ sel' = sel /\ UNCHANGED <<screen, role, server, copies, reqs>>
  BY DEF ChooseTarget, Options
<1>2. MoveOK(move')
  BY <1>1, DialogsTyped DEF MoveOK
<1>. QED
  BY <1>1, <1>2, DialogStep, DialogsTyped

\* An answer also has what it names asked for again.
LEMMA AnsweredInv ==
  ASSUME ScreensInv, NEW r \in reqs, Answered(r)
  PROVE  ScreensInv'
<1>1. /\ reqs' = reqs \ {r} /\ due' = due \cup (Invalidated(r.op) \cap Queries)
      /\ sel' \in {sel, None} /\ move' \in {move, None}
      /\ UNCHANGED <<screen, role, server, rows>> /\ seen' = seen /\ blind' = blind
  BY DEF Answered, server
<1>2. Queries' = Queries /\ \A q \in Queries : RightAbout(q) => RightAbout(q)'
  BY <1>1, ServerStays DEF ScreensInv
<1>3. \A p \in reqs \ reqs' : Invalidated(p.op) \cap Queries \subseteq due' \cup blind'
  BY <1>1
<1>4. SightInv'
  BY <1>1, <1>2, <1>3, SightStays
<1>5. due' \cup blind' \subseteq Queries
  BY <1>1 DEF ScreensInv, TypeOK
<1>6. SelOK(sel') /\ MoveOK(move')
  BY <1>1, DialogsTyped
<1>. QED
  BY <1>1, <1>4, <1>5, <1>6, DialogsChange

-----------------------------------------------------------------------------
(* What the screen sends.                                                  *)

\* A request is sent; sent on copies that are right, the server accepts it.
LEMMA SendInv ==
  ASSUME ScreensInv, NEW op \in ScreenOp, NEW x \in Order,
         NEW y \in KotStatus \cup DeliveryStatus \cup Table \cup Order \cup {None},
         NEW from \in OrderStatus \cup KotStatus \cup {None}, Send(op, x, y, from),
         op = "transfer" => y \in Table,
         op = "merge" => y \in Order,
         op \in {"cancel", "delivery"} => x \in Placed,
         op \in {"kot", "serve"} => y \in KotTransitions(from),
         op = "delivery" => y \in DeliveryTransitions(from),
         UpToDate /\ (op \in {"transfer", "merge"} => {x, y} \cap billed = {} /\ revived = {})
           => Allowed(op, x, y)
  PROVE  ScreensInv'
<1> DEFINE new == [op |-> op, x |-> x, y |-> y, from |-> from, stage |-> "sent", top |-> TRUE,
                   fresh |-> UpToDate]
           under(r) == [r EXCEPT !.top = @ /\ r.op # op]
<1>1. /\ reqs' = {under(r) : r \in reqs} \cup {new}
      /\ UNCHANGED <<screen, role, rows, txn>> /\ UNCHANGED <<seen, due, blind, dialogs>>
  BY DEF Send, copies, server
<1>2. UpToDate \in BOOLEAN
  BY DEF UpToDate
<1>3. /\ new \in Request /\ new.op = op /\ new.x = x /\ new.y = y /\ new.from = from
      /\ new.stage = "sent" /\ new.fresh = UpToDate
  BY <1>2 DEF Request, Argument
<1>4. ASSUME NEW r \in reqs
      PROVE  /\ under(r) \in Request /\ under(r).op = r.op /\ under(r).x = r.x /\ under(r).y = r.y
             /\ under(r).from = r.from /\ under(r).stage = r.stage /\ under(r).fresh = r.fresh
  <2>1. r \in Request
    BY RequestArgs
  <2>. QED
    BY <2>1 DEF Request
<1> HIDE DEF new, under
<1>5. UNCHANGED <<orders, kots, tables, place, billed, revived>>
  BY <1>1 DEF rows
<1>6. Placed' = Placed /\ Queries' = Queries /\ \A q \in Queries : RightAbout(q) => RightAbout(q)'
  BY <1>1, ServerStays DEF ScreensInv
<1>7. ServerInv'
  BY <1>1, RowsStay
<1>8. ASSUME NEW u \in reqs'
      PROVE  \/ u = new
             \/ \E r \in reqs : /\ u \in Request /\ u.op = r.op /\ u.x = r.x /\ u.y = r.y
                                /\ u.from = r.from /\ u.stage = r.stage /\ u.fresh = r.fresh
  BY <1>1, <1>4
<1>9. RequestsInv'
  <2>1. ASSUME NEW u \in reqs'
        PROVE  u \in Request /\ RequestOK(u)'
    <3>1. CASE u = new
      <4>1. u \in Request /\ u.op = op /\ u.x = x /\ u.y = y /\ u.from = from
        BY <1>3, <3>1
      <4>2. RequestOK(u)'
        BY <1>6, <4>1 DEF RequestOK
      <4>. QED
        BY <4>1, <4>2
    <3>2. CASE u # new
      <4>1. PICK r \in reqs : u \in Request /\ u.op = r.op /\ u.x = r.x /\ u.y = r.y /\ u.from = r.from
        BY <1>8, <3>2
      <4>. QED
        BY <1>6, <4>1, RequestArgs, RequestStays
    <3>. QED
      BY <3>1, <3>2
  <2>. QED
    BY <2>1 DEF RequestsInv
<1>10. FreshOfferLegal'
  <2>1. ASSUME NEW u \in reqs', u.fresh,
               u.op \in {"transfer", "merge"} => {u.x, u.y} \cap billed = {} /\ revived = {}
        PROVE  Allowed(u.op, u.x, u.y)
    <3>1. CASE u = new
      <4>1. u.op = op /\ u.x = x /\ u.y = y /\ UpToDate
        BY <1>3, <2>1, <3>1
      <4>2. op \in {"transfer", "merge"} => {x, y} \cap billed = {} /\ revived = {}
        BY <2>1, <4>1
      <4>3. Allowed(op, x, y)
        BY <4>1, <4>2
      <4>. QED
        BY <4>1, <4>3
    <3>2. CASE u # new
      <4>1. PICK r \in reqs : u.op = r.op /\ u.x = r.x /\ u.y = r.y /\ u.fresh = r.fresh
        BY <1>8, <3>2
      <4>2. /\ r.fresh
            /\ r.op \in {"transfer", "merge"} => {r.x, r.y} \cap billed = {} /\ revived = {}
        BY <2>1, <4>1
      <4>3. Allowed(r.op, r.x, r.y)
        BY <4>2 DEF ScreensInv, FreshOfferLegal
      <4>. QED
        BY <4>1, <4>3
    <3>. QED
      BY <3>1, <3>2
  <2>. QED
    BY <1>5, <2>1 DEF FreshOfferLegal, Allowed
<1>11. SightInv'
  <2>1. \A r \in reqs : r.stage = "done" => \E u \in reqs' : u.stage = "done" /\ u.op = r.op
    BY <1>1, <1>4
  <2>. QED
    BY <1>1, <1>6, <2>1, SightStays
<1>12. due' \cup blind' \subseteq Queries
  BY <1>1 DEF ScreensInv, TypeOK
<1>13. TxnInv'
  <2>1. ASSUME NEW u \in reqs', u.stage = "run"
        PROVE  txn = [op |-> u.op, x |-> u.x, y |-> u.y]
    <3>1. PICK r \in reqs : r.stage = "run" /\ u.op = r.op /\ u.x = r.x /\ u.y = r.y
      BY <1>3, <1>8, <2>1
    <3>. QED
      BY <3>1 DEF ScreensInv, TxnInv
  <2>. QED
    BY <1>1, <1>5, <1>6, <2>1 DEF ScreensInv, TxnInv, Allowed
<1>. QED
  BY <1>1, <1>6, <1>7, <1>9, <1>10, <1>11, <1>12, <1>13, ScreenStays

\* Copies that are right show what there is at the server.
LEMMA CopiesAreRight ==
  ASSUME ScreensInv, UpToDate
  PROVE  /\ "kots" \in Queries => \A o \in Order : \A k : <<o, k>> \in seen["kots"] => kots[o] = k
         /\ "delivery" \in Queries =>
              \A row \in seen["delivery"] : orders[row[1]] = row[2]
         /\ "orders" \in Queries =>
              \A o \in Order : \A row : <<o, row>> \in seen["orders"] =>
                /\ orders[o] = row /\ o \in Placed
                /\ screen = "tables" => row.st # "CANCELLED"
         /\ "tables" \in Queries => seen["tables"] = tables
<1>1. \A q \in Queries : seen[q] = Answer(q)
  BY DEF UpToDate
<1>2. ASSUME "kots" \in Queries, NEW o \in Order, NEW k, <<o, k>> \in seen["kots"]
      PROVE  kots[o] = k
  <2>1. <<o, k>> \in Answer("kots")
    BY <1>1, <1>2
  <2>. QED
    BY <2>1 DEF Answer
<1>3. ASSUME "delivery" \in Queries, NEW row \in seen["delivery"]
      PROVE  orders[row[1]] = row[2]
  <2>1. row \in Answer("delivery")
    BY <1>1, <1>3
  <2>. QED
    BY <2>1 DEF Answer
<1>4. ASSUME "orders" \in Queries, NEW o \in Order, NEW row, <<o, row>> \in seen["orders"]
      PROVE  orders[o] = row /\ o \in Placed /\ (screen = "tables" => row.st # "CANCELLED")
  <2>1. <<o, row>> \in Answer("orders")
    BY <1>1, <1>4
  <2>2. PICK p \in IF screen = "tables" THEN Active ELSE Placed : <<o, row>> = <<p, orders[p]>>
    BY <2>1 DEF Answer
  <2>. QED
    BY <2>2 DEF Active
<1>5. "tables" \in Queries => seen["tables"] = tables
  BY <1>1 DEF Answer
<1>. QED
  BY <1>2, <1>3, <1>4, <1>5

LEMMA AdvanceKotInv ==
  ASSUME ScreensInv, NEW o \in Order, NEW k \in Queued, AdvanceKot(o, k)
  PROVE  ScreensInv'
<1>1. screen = "kitchen" /\ <<o, k>> \in seen["kots"]
  BY DEF AdvanceKot
<1>2. PICK next \in {NextStatus(k), "CANCELLED"} : Send("kot", o, next, k)
  BY DEF AdvanceKot
<1>3. next \in KotTransitions(k)
  BY <1>2 DEF NextStatus, KotTransitions, Queued
<1>4. next \in KotStatus /\ k \in KotStatus
  BY <1>3, TransitionsTyped
<1>5. UpToDate => kots[o] = k
  BY <1>1, CopiesAreRight DEF Queries
<1>6. UpToDate => Allowed("kot", o, next)
  BY <1>3, <1>5 DEF Allowed
<1>. QED
  BY <1>2, <1>3, <1>4, <1>6, SendInv DEF ScreenOp

LEMMA UpdateDeliveryInv ==
  ASSUME ScreensInv, NEW o \in Order, NEW d \in DeliveryStatus, UpdateDelivery(o, d)
  PROVE  ScreensInv'
<1>1. /\ screen = "delivery" /\ "delivery" \in Queries
      /\ \E row \in seen["delivery"] : row[1] = o /\ row[2].del = d
  BY DEF UpdateDelivery, Queries
<1>2. PICK next \in DeliveryTransitions(d) : Send("delivery", o, next, d)
  BY DEF UpdateDelivery
<1>3. next \in DeliveryStatus /\ d \in OrderStatus
  BY <1>2, TransitionsTyped DEF OrderStatus
<1>4. o \in Placed
  BY <1>1 DEF ScreensInv, CopiesInv
<1>5. UpToDate => orders[o].del = d
  BY <1>1, CopiesAreRight
<1>6. UpToDate => Allowed("delivery", o, next)
  BY <1>2, <1>5 DEF Allowed
<1>. QED
  BY <1>2, <1>3, <1>4, <1>6, SendInv DEF ScreenOp

LEMMA ServeInv ==
  ASSUME ScreensInv, Serve
  PROVE  ScreensInv'
<1>1. /\ sel # None /\ role # "CASH_COUNTER" /\ <<sel[1], "READY">> \in seen["kots"]
      /\ Send("serve", sel[1], "SERVED", "READY")
  BY DEF Serve
<1>2. screen = "orders" /\ sel[1] \in Order /\ "kots" \in Queries
  BY <1>1 DEF ScreensInv, TypeOK, Queries
<1>3. "SERVED" \in KotTransitions("READY") /\ {"SERVED", "READY"} \subseteq KotStatus
  BY DEF KotTransitions, KotStatus
<1>4. UpToDate => kots[sel[1]] = "READY"
  BY <1>1, <1>2, CopiesAreRight
<1>5. UpToDate => Allowed("serve", sel[1], "SERVED")
  BY <1>3, <1>4 DEF Allowed
<1>. QED
  BY <1>1, <1>2, <1>3, <1>5, SendInv DEF ScreenOp

LEMMA CancelInv ==
  ASSUME ScreensInv, Cancel
  PROVE  ScreensInv'
<1>1. sel # None /\ sel[2].st \in Cancellable /\ Send("cancel", sel[1], None, sel[2].st)
  BY DEF Cancel
<1>2. /\ screen = "orders" /\ sel[1] \in Placed /\ sel[1] \in Order /\ "orders" \in Queries
      /\ sel = <<sel[1], sel[2]>>
  BY <1>1 DEF ScreensInv, TypeOK, DialogInv, Queries
<1>3. sel[2].st \in OrderStatus /\ sel[2].st \notin {"SERVED", "DELIVERED"}
  BY <1>1 DEF Cancellable
<1>4. UpToDate => <<sel[1], sel[2]>> \in seen["orders"]
  BY <1>1, <1>2 DEF UpToDate
<1>5. UpToDate => orders[sel[1]] = sel[2]
  BY <1>2, <1>4, CopiesAreRight
<1>6. UpToDate => Allowed("cancel", sel[1], None)
  BY <1>3, <1>5 DEF Allowed
<1>. QED
  BY <1>1, <1>2, <1>3, <1>6, SendInv DEF ScreenOp

LEMMA ViewBillInv ==
  ASSUME ScreensInv, ViewBill
  PROVE  ScreensInv'
<1>1. sel # None /\ Send("bill", sel[2].ses, None, None)
  BY DEF ViewBill
<1>2. sel[2].ses \in Order
  BY <1>1 DEF ScreensInv, TypeOK, OrderRow
<1>3. Allowed("bill", sel[2].ses, None)
  BY DEF Allowed
<1>. QED
  BY <1>1, <1>2, <1>3, SendInv DEF ScreenOp

\* The tables page, when up to date, shows where the open sessions are.
LEMMA SessionsShownRight ==
  ASSUME ScreensInv, screen = "tables", NEW t \in Table, NEW x \in SessionsShown(t)
  PROVE  x \in Order /\ (UpToDate /\ revived = {} => place[x] = t)
<1>1. "orders" \in Queries
  BY DEF Queries
<1>2. PICK w \in seen["orders"] : w[2].at = t /\ x = w[2].ses
  BY DEF SessionsShown
<1>3. w \in Placed \X OrderRow /\ w = <<w[1], w[2]>> /\ w[1] \in Order
  BY <1>1, <1>2 DEF ScreensInv, CopiesInv, Placed
<1>4. x \in Order
  BY <1>2, <1>3 DEF OrderRow
<1>5. ASSUME UpToDate, revived = {}
      PROVE  place[x] = t
  <2>1. orders[w[1]] = w[2] /\ w[1] \in Placed /\ w[2].st # "CANCELLED"
    BY <1>1, <1>2, <1>3, <1>5, CopiesAreRight
  <2>2. orders[w[1]].at # None
    BY <1>2, <2>1, NoneDiffers
  <2>. QED
    BY <1>2, <1>5, <2>1, <2>2 DEF ScreensInv, SessionInv
<1>. QED
  BY <1>4, <1>5

LEMMA ConfirmMoveInv ==
  ASSUME ScreensInv, ConfirmMove
  PROVE  ScreensInv'
<1>1. move # None /\ move.target # None
  BY DEF ConfirmMove
<1>2. PICK x \in SessionsShown(move.table) :
        IF move.mode = "transfer" THEN Send("transfer", x, move.target, None)
        ELSE \E y \in SessionsShown(move.target) : Send("merge", x, y, None)
  BY DEF ConfirmMove
<1>3. /\ screen = "tables" /\ move.table \in Table /\ move.target \in Table
      /\ move.target # move.table /\ move.mode \in {"transfer", "merge"}
  BY <1>1 DEF ScreensInv, TypeOK, DialogInv
<1>4. x \in Order /\ (UpToDate /\ revived = {} => place[x] = move.table)
  BY <1>2, <1>3, SessionsShownRight
<1>5. UpToDate => move.target \in Options
  BY <1>1 DEF UpToDate
<1>6. CASE move.mode = "transfer"
  <2>1. Send("transfer", x, move.target, None)
    BY <1>2, <1>6
  <2>2. UpToDate => move.target \notin tables
    BY <1>3, <1>5, <1>6, CopiesAreRight DEF Options, Queries
  <2>3. UpToDate /\ {x, move.target} \cap billed = {} /\ revived = {}
          => Allowed("transfer", x, move.target)
    <3>1. ASSUME UpToDate, {x, move.target} \cap billed = {}, revived = {}
          PROVE  Allowed("transfer", x, move.target)
      <4>1. place[x] = move.table /\ move.table # None /\ move.table # move.target /\ x \notin billed
        BY <1>3, <1>4, <3>1, NoneDiffers
      <4>. QED
        BY <2>2, <3>1, <4>1 DEF Allowed
    <3>. QED
      BY <3>1
  <2>. QED
    BY <1>3, <1>4, <2>1, <2>3, SendInv DEF ScreenOp
<1>7. CASE move.mode = "merge"
  <2>1. PICK y \in SessionsShown(move.target) : Send("merge", x, y, None)
    BY <1>2, <1>7
  <2>2. y \in Order /\ (UpToDate /\ revived = {} => place[y] = move.target)
    BY <1>3, <2>1, SessionsShownRight
  <2>3. UpToDate /\ {x, y} \cap billed = {} /\ revived = {} => Allowed("merge", x, y)
    BY <1>3, <1>4, <2>2, NoneDiffers DEF Allowed
  <2>. QED
    BY <1>4, <2>1, <2>2, <2>3, SendInv DEF ScreenOp
<1>. QED
  BY <1>3, <1>6, <1>7

-----------------------------------------------------------------------------
(* The invariant of the screens.                                           *)

LEMMA InitInv ==
  ASSUME Init
  PROVE  ScreensInv
<1>1. /\ screen \in Screen /\ role \in {"MANAGER", "SERVICE_COUNTER", "CASH_COUNTER"}
      /\ orders = [o \in Order |-> None] /\ kots = [o \in Order |-> None]
      /\ tables = {} /\ place = [o \in Order |-> None] /\ billed = {}
      /\ txn = None /\ seen = [q \in Queries |-> {}] /\ due = {} /\ blind = {} /\ reqs = {}
      /\ sel = None /\ bill = None /\ move = None
  BY DEF Init, Screen
<1>2. Placed = {} /\ Active = {}
  BY <1>1 DEF Placed, Active
<1>3. TypeOK
  BY <1>1 DEF TypeOK
<1>4. SessionInv /\ CopiesInv /\ DialogInv /\ RequestsInv /\ TxnInv /\ FreshOfferLegal
  BY <1>1, <1>2 DEF SessionInv, CopiesInv, DialogInv, RequestsInv, TxnInv, FreshOfferLegal
<1>5. ASSUME NEW q \in Queries
      PROVE  Answer(q) = {}
  <2>1. CASE q = "kots"
    <3>1. Queued \subseteq KotStatus /\ {"READY"} \subseteq KotStatus
      BY DEF Queued, KotStatus
    <3>. QED
      BY <1>1, <2>1, <3>1, NoneDiffers DEF Answer
  <2>2. CASE q # "kots"
    BY <1>1, <1>2, <2>2, QueryNames DEF Answer
  <2>. QED
    BY <2>1, <2>2
<1>6. SightInv
  BY <1>1, <1>5 DEF SightInv, RightAbout
<1>. QED
  BY <1>1, <1>3, <1>4, <1>6 DEF ScreensInv

LEMMA StutterInv ==
  ASSUME ScreensInv, UNCHANGED vars
  PROVE  ScreensInv'
<1>1. UNCHANGED <<screen, role, server, copies, reqs>> /\ sel' = sel /\ move' = move
  BY DEF vars, dialogs
<1>. QED
  BY <1>1, DialogStep, DialogsTyped

\* What others begin at the server, and what the screen does.
OthersStep == \E op, x, y : ArgsOK(op, x, y) /\ BeginOther(op, x, y)

ScreenStep ==
  \/ \E q \in Queries : Fetch(q) \/ FetchFails(q)
  \/ \E o \in Order, k \in Queued : AdvanceKot(o, k)
  \/ \E o \in Order, d \in DeliveryStatus : UpdateDelivery(o, d)
  \/ \E o \in Order : SelectOrder(o)
  \/ CloseOrder \/ CloseBill \/ Serve \/ Cancel \/ ViewBill
  \/ \E t \in Table : OpenMove(t) \/ ChooseTarget(t)
  \/ \E m \in {"transfer", "merge"} : ChooseMode(m)
  \/ CloseMove \/ ConfirmMove
  \/ \E r \in reqs : Refused(r) \/ LoseAnswer(r) \/ Answered(r)

LEMMA NextSteps ==
  ASSUME Next
  PROVE  OthersStep \/ ScreenStep \/ Commit \/ Rollback \/ \E r \in reqs : BeginMine(r)
<1>1. ASSUME NEW o \in Order
      PROVE  /\ \A t \in Table : ArgsOK("place", o, t) /\ ArgsOK("transfer", o, t)
             /\ \A k \in {"NEW", None} : ArgsOK("deliver", o, k)
             /\ \A k \in KotStatus : ArgsOK("kot", o, k)
             /\ orders[o] # None => ArgsOK("cancel", o, None)
             /\ orders[o] # None => \A d \in DeliveryStatus : ArgsOK("delivery", o, d)
             /\ \A p \in Order : ArgsOK("merge", o, p)
             /\ ArgsOK("bill", o, None) /\ ArgsOK("voidBill", o, None)
  BY DEF ArgsOK, ScreenOp, Argument, KotStatus, Placed
<1>2. CASE \E o \in Order :
             \/ /\ Cardinality(Placed) < MaxOrder[screen]
                /\ \/ \E t \in Table : BeginOther("place", o, t)
                   \/ screen # "tables" /\ \E k \in {"NEW", None} : BeginOther("deliver", o, k)
             \/ orders[o] # None /\ kots[o] # None /\ \E k \in KotStatus : BeginOther("kot", o, k)
             \/ orders[o] # None /\ BeginOther("cancel", o, None)
             \/ screen = "delivery" /\ orders[o] # None
                  /\ \E d \in DeliveryStatus : BeginOther("delivery", o, d)
             \/ /\ screen = "tables"
                /\ \/ \E t \in Table : BeginOther("transfer", o, t)
                   \/ \E p \in Order : BeginOther("merge", o, p)
                   \/ place[o] # None /\ BeginOther("bill", o, None)
                   \/ BeginOther("voidBill", o, None)
  BY <1>1, <1>2 DEF OthersStep
<1>3. CASE ScreenStep \/ Commit \/ Rollback \/ \E r \in reqs : BeginMine(r)
  BY <1>3
<1>. QED
  BY <1>2, <1>3 DEF Next, ScreenStep

LEMMA StepInv ==
  ASSUME ScreensInv, [Next]_vars
  PROVE  ScreensInv'
<1>1. CASE OthersStep
  BY <1>1, BeginOtherInv DEF OthersStep
<1>2. CASE ScreenStep
  BY <1>2, FetchInv, FetchFailsInv, AdvanceKotInv, UpdateDeliveryInv, SelectOrderInv, CloseOrderInv,
     CloseBillInv, ServeInv, CancelInv, ViewBillInv, OpenMoveInv, ChooseTargetInv, ChooseModeInv,
     CloseMoveInv, ConfirmMoveInv, RefusedInv, LoseAnswerInv, AnsweredInv DEF ScreenStep
<1>3. CASE Commit \/ Rollback \/ \E r \in reqs : BeginMine(r)
  BY <1>3, CommitInv, RollbackInv, BeginMineInv
<1>4. CASE UNCHANGED vars
  BY <1>4, StutterInv
<1>. QED
  BY <1>1, <1>2, <1>3, <1>4, NextSteps

(* Whatever others do, and in whatever order requests, answers and         *)
(* messages come: the server's orders, sessions and tables belong          *)
(* together, the screen holds what it asked for, and a copy that is not as *)
(* it is at the server will be asked for again.                            *)
THEOREM ScreensInvariant == Spec => []ScreensInv
<1>1. Init => ScreensInv
  BY InitInv
<1>2. ScreensInv /\ [Next]_vars => ScreensInv'
  BY StepInv
<1>. QED
  BY <1>1, <1>2, PTL DEF Spec

(* The screens of the floor are well formed and, at rest, right: when none *)
(* of its answers is on its way and nothing is being asked again, a screen *)
(* that missed no message, and followed none before its commit, shows what *)
(* the server has.  Every mutation's onSuccess and every message names all *)
(* that changes, but for the page of deliveries: of that it is said only   *)
(* that the deliveries it shows are as far as it shows them.               *)
THEOREM ScreensAreRight == Spec => []ScreenInv
<1>1. ScreensInv => ScreenInv
  BY DEF ScreensInv, ScreenInv, SightInv, QuietScreenIsRight
<1>. QED
  BY <1>1, ScreensInvariant, PTL

(* Staff are only ever offered a legal next step: what is tapped on copies *)
(* that are up to date the server accepts, as long as it is not billed     *)
(* and no cancelled order came back, until the first change at the server. *)
THEOREM FreshOffersLegal == Spec => []FreshOfferLegal
<1>1. ScreensInv => FreshOfferLegal
  BY DEF ScreensInv
<1>. QED
  BY <1>1, ScreensInvariant, PTL

-----------------------------------------------------------------------------
(* Steps forward.                                                          *)

\* A status but CANCELLED is the next one of a single status.
LEMMA OneStepBefore ==
  /\ \A j, k, y : y \in KotTransitions(j) /\ y \in KotTransitions(k) /\ y # "CANCELLED" => j = k
  /\ \A j, k, y : y \in DeliveryTransitions(j) /\ y \in DeliveryTransitions(k) /\ y # "CANCELLED"
                    => j = k
<1>1. ASSUME NEW j, NEW k, NEW y, y \in KotTransitions(j), y \in KotTransitions(k), y # "CANCELLED"
      PROVE  j = k
  BY <1>1 DEF KotTransitions
<1>2. ASSUME NEW j, NEW k, NEW y, y \in DeliveryTransitions(j), y \in DeliveryTransitions(k),
             y # "CANCELLED"
      PROVE  j = k
  BY <1>2 DEF DeliveryTransitions
<1>. QED
  BY <1>1, <1>2

\* The screen itself changes nothing at the server.
LEMMA ScreenStepFrame ==
  ASSUME ScreenStep
  PROVE  steps' = steps
<1>1. UNCHANGED server
  BY DEF ScreenStep, Fetch, FetchFails, AdvanceKot, UpdateDelivery, SelectOrder, CloseOrder, CloseBill,
         Serve, Cancel, ViewBill, OpenMove, ChooseTarget, ChooseMode, CloseMove, ConfirmMove,
         Refused, LoseAnswer, Answered, Send
<1>. QED
  BY <1>1 DEF server

(* However old the copy and however often the button was pressed, a ticket *)
(* or a delivery goes forward only from the status that the user of this   *)
(* screen saw: the server's TRANSITIONS refuse the second of two requests  *)
(* for one step, as long as its transactions do not overlap.               *)
THEOREM StepsFromWhatWasSeen == Spec => ActsOnWhatWasSeen
<1>1. ScreensInv /\ [Next]_vars =>
        [\A r \in reqs :
           /\ r.stage = "sent" /\ r.y # "CANCELLED" /\ r.op \in {"kot", "serve", "delivery"}
           /\ steps' # steps /\ r \notin reqs'
           => r.from = IF r.op = "delivery" THEN orders[r.x].del ELSE kots[r.x]]_vars
  <2> SUFFICES ASSUME ScreensInv, Next, NEW r \in reqs, r.stage = "sent", r.y # "CANCELLED",
                      r.op \in {"kot", "serve", "delivery"}, steps' # steps, r \notin reqs'
               PROVE  r.from = IF r.op = "delivery" THEN orders[r.x].del ELSE kots[r.x]
    OBVIOUS
  <2>1. ~OthersStep
    BY DEF OthersStep, BeginOther
  <2>2. ~ScreenStep
    BY ScreenStepFrame
  <2>3. ~Commit /\ ~Rollback
    BY DEF Commit, Rollback
  <2>4. PICK q \in reqs : BeginMine(q)
    BY <2>1, <2>2, <2>3, NextSteps
  <2>5. Allowed(r.op, r.x, r.y) /\ RequestOK(r)
    BY <2>4, RequestArgs DEF BeginMine, Begin
  <2>6. CASE r.op = "delivery"
    BY <2>5, <2>6, OneStepBefore DEF Allowed, RequestOK
  <2>7. CASE r.op \in {"kot", "serve"}
    BY <2>5, <2>7, OneStepBefore DEF Allowed, RequestOK
  <2>. QED
    BY <2>6, <2>7
<1>. QED
  BY <1>1, ScreensInvariant, PTL DEF Spec, ActsOnWhatWasSeen
=============================================================================
