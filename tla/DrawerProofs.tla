----------------------------- MODULE DrawerProofs -----------------------------
(***************************************************************************)
(* What Drawer guarantees for any number of requests, cashiers and shifts: *)
(* a cashier has one open drawer, money is in the drawer of who took it,   *)
(* and a closed drawer's expected cash is what is in it and stays.         *)
(* DrawerInv is inductive.  A request goes on by changing its own record   *)
(* (GoesOn), then by committing.                                           *)
(***************************************************************************)
EXTENDS Drawer, TLAPS

LEMMA InitInv == Init => DrawerInv
<1> SUFFICES ASSUME Init PROVE DrawerInv
  OBVIOUS
<1> USE DEF Init
<1>1. TypeOK
  BY DEF TypeOK, ShiftRecord, Status, RequestRecord, Idle
<1>2. \A r \in Request : req[r] = Idle
  OBVIOUS
<1>3. /\ OpeningIsNew /\ KeyIsHeld /\ SeenIsOpen /\ ClosingIsOfShift
      /\ CountIsCurrent /\ RacesAreNoted
  BY <1>2 DEF OpeningIsNew, Opening, KeyIsHeld, SeenIsOpen, ClosingIsOfShift, Closing,
     CountIsCurrent, RacesAreNoted, Race, Idle
<1>4. AttachedIsDone /\ OneOpenDrawer /\ CountIsWhole
  BY DEF AttachedIsDone, OneOpenDrawer, OpenShift, CountIsWhole
<1>. QED
  BY <1>1, <1>3, <1>4 DEF DrawerInv

\* History only grows, and notes the races there are.
LEMMA ObserveInv ==
  ASSUME DrawerInv, Observe
  PROVE  raced \subseteq raced' /\ raced' \subseteq Shift /\ RacesAreNoted'
  BY DEF Observe, RacesAreNoted, DrawerInv, TypeOK

\* A request that is not done goes on, rolls back or begins: rows stay.
LEMMA RowsStay ==
  ASSUME DrawerInv, NEW r \in Request, req[r].pc # "done", NEW x \in RequestRecord,
         req' = [req EXCEPT ![r] = x], UNCHANGED rows, Observe
  PROVE  /\ req'[r] = x /\ \A q \in Request : q # r => req'[q] = req[q]
         /\ req' \in [Request -> RequestRecord]
         /\ \A s \in Shift : CashIn(s)' = CashIn(s)
         /\ \A u : OpenShift(u)' = OpenShift(u)
         /\ AttachedIsDone' /\ OneOpenDrawer' /\ CountIsWhole'
<1>1. /\ req'[r] = x /\ \A q \in Request : q # r => req'[q] = req[q]
      /\ req' \in [Request -> RequestRecord]
  BY DEF DrawerInv, TypeOK
<1>2. shift' = shift /\ attached' = attached
  BY DEF rows
<1>3. \A s \in Shift : attached[s] \subseteq Request /\ r \notin attached[s]
  BY DEF DrawerInv, AttachedIsDone, TypeOK
<1>4. \A s \in Shift : \A q \in attached[s] : req'[q] = req[q]
  BY <1>1, <1>3
<1>5. \A s \in Shift : CashIn(s)' = CashIn(s)
  BY <1>2, <1>4 DEF CashIn
<1>6. \A u : OpenShift(u)' = OpenShift(u)
  BY <1>2 DEF OpenShift
<1>7. AttachedIsDone'
  BY <1>2, <1>4 DEF DrawerInv, AttachedIsDone
<1>8. OneOpenDrawer'
  BY <1>6 DEF DrawerInv, OneOpenDrawer
<1>9. CountIsWhole'
  BY <1>2, <1>5, ObserveInv DEF DrawerInv, CountIsWhole
<1>. QED
  BY <1>1, <1>5, <1>6, <1>7, <1>8, <1>9

\* What x must be for the invariant to hold when request r becomes x.
LEMMA GoesOn ==
  ASSUME DrawerInv, NEW r \in Request, req[r].pc # "done", NEW x \in RequestRecord,
         req' = [req EXCEPT ![r] = x], UNCHANGED rows, Observe,
         openKey' \in [Cashier -> Request \cup {Nobody}],
         rowLock' \in [Shift -> Request \cup {Nobody}],
         \A q \in Request : q # r /\ req[q].pc = "inserted" =>
           openKey'[req[q].user] = openKey[req[q].user],
         x.pc \in {"opening", "inserted"} =>
           /\ x.user \in Cashier /\ x.shift \in Shift /\ shift[x.shift].status = "absent"
           /\ \A q \in Opening : req[q].shift = x.shift => q = r,
         x.pc = "inserted" => openKey'[x.user] = r /\ OpenShift(x.user) = {},
         x.pc \in Closing \cup {"moving"} /\ x.shift \in Shift =>
           /\ shift[x.shift].status # "absent"
           /\ x.pc = "moving" => x.user = shift[x.shift].opener
           /\ shift[x.shift].status = "CLOSED" => x.shift \in raced,
         x.pc \in Closing => x.shift \in Shift,
         x.pc \in {"counted", "updated"} /\ x.shift \notin raced => x.counted = CashIn(x.shift)
  PROVE  DrawerInv'
<1>1. /\ req'[r] = x /\ \A q \in Request : q # r => req'[q] = req[q]
      /\ req' \in [Request -> RequestRecord]
      /\ \A s \in Shift : CashIn(s)' = CashIn(s)
      /\ \A u : OpenShift(u)' = OpenShift(u)
      /\ AttachedIsDone' /\ OneOpenDrawer' /\ CountIsWhole'
  BY RowsStay
<1>2. shift' = shift /\ attached' = attached
  BY DEF rows
<1>3. raced \subseteq raced' /\ raced' \subseteq Shift /\ RacesAreNoted'
  BY ObserveInv
<1>4. TypeOK'
  BY <1>1, <1>2, <1>3 DEF DrawerInv, TypeOK
<1>5. OpeningIsNew'
  BY <1>1, <1>2 DEF DrawerInv, OpeningIsNew, Opening
<1>6. KeyIsHeld'
  BY <1>1 DEF DrawerInv, KeyIsHeld
<1>7. SeenIsOpen'
  BY <1>1, <1>2, <1>3 DEF DrawerInv, SeenIsOpen
<1>8. ClosingIsOfShift'
  BY <1>1 DEF DrawerInv, ClosingIsOfShift
<1>9. CountIsCurrent'
  <2> SUFFICES ASSUME NEW q \in Request, req'[q].pc \in {"counted", "updated"},
                      req'[q].shift \notin raced'
               PROVE  req'[q].counted = {p \in attached'[req'[q].shift] : req'[p].cash}
    BY DEF CountIsCurrent, CashIn
  <2>1. req'[q].shift \in Shift
    BY <1>8 DEF ClosingIsOfShift, Closing
  <2>2. req'[q].counted = CashIn(req'[q].shift)
    <3>1. CASE q = r
      BY <1>1, <1>3, <3>1
    <3>2. CASE q # r
      BY <1>1, <1>3, <3>2 DEF DrawerInv, CountIsCurrent
    <3>. QED
      BY <3>1, <3>2
  <2>3. \A s \in Shift : CashIn(s) = {p \in attached'[s] : req'[p].cash}
    BY <1>1 DEF CashIn
  <2>. QED
    BY <2>1, <2>2, <2>3
<1>. QED
  BY <1>1, <1>3, <1>4, <1>5, <1>6, <1>7, <1>8, <1>9 DEF DrawerInv

-----------------------------------------------------------------------------
(* Requests that begin, go on or fail.                                     *)

LEMMA BeginOpenInv ==
  ASSUME DrawerInv, NEW r \in Request, NEW u \in Cashier, NEW s \in Shift,
         BeginOpen(r, u, s), Observe
  PROVE  DrawerInv'
<1> USE DEF BeginOpen
<1> DEFINE x == [Idle EXCEPT !.pc = "opening", !.user = u, !.shift = s]
<1>1. x \in RequestRecord /\ x.pc = "opening" /\ x.user = u /\ x.shift = s
  BY DEF Idle, RequestRecord, Active
<1>2. openKey' = openKey /\ rowLock' = rowLock
  BY DEF locks
<1>3. /\ openKey' \in [Cashier -> Request \cup {Nobody}]
      /\ rowLock' \in [Shift -> Request \cup {Nobody}]
  BY <1>2 DEF DrawerInv, TypeOK
<1>4. \A q \in Opening : req[q].shift = s => q = r
  BY DEF Opening
<1>5. req[r].pc # "done" /\ req' = [req EXCEPT ![r] = x] /\ UNCHANGED rows
  OBVIOUS
<1> HIDE DEF x
<1>. QED
  BY <1>1, <1>2, <1>3, <1>4, <1>5, GoesOn DEF Closing

LEMMA BeginMoveInv ==
  ASSUME DrawerInv, NEW r \in Request, NEW u \in Cashier, NEW s \in Shift \cup {NoShift},
         NEW cash \in BOOLEAN, BeginMove(r, u, s, cash), Observe
  PROVE  DrawerInv'
<1> USE DEF BeginMove
<1> DEFINE x == [pc |-> "moving", user |-> u, shift |-> s, cash |-> cash, counted |-> {}]
<1>1. x \in RequestRecord /\ x.pc = "moving" /\ x.user = u /\ x.shift = s
  BY DEF RequestRecord, Active
<1>2. openKey' = openKey /\ rowLock' = rowLock
  BY DEF locks
<1>3. /\ openKey' \in [Cashier -> Request \cup {Nobody}]
      /\ rowLock' \in [Shift -> Request \cup {Nobody}]
  BY <1>2 DEF DrawerInv, TypeOK
<1>4. s \in Shift => shift[s].status = "OPEN" /\ shift[s].opener = u
  BY DrawerAssumption DEF OpenShift
<1>5. req[r].pc # "done" /\ req' = [req EXCEPT ![r] = x] /\ UNCHANGED rows
  OBVIOUS
<1> HIDE DEF x
<1>. QED
  BY <1>1, <1>2, <1>3, <1>4, <1>5, GoesOn DEF Closing

LEMMA BeginCloseInv ==
  ASSUME DrawerInv, NEW r \in Request, NEW s \in Shift, BeginClose(r, s), Observe
  PROVE  DrawerInv'
<1> USE DEF BeginClose
<1> DEFINE x == [Idle EXCEPT !.pc = "closing", !.shift = s]
<1>1. x \in RequestRecord /\ x.pc = "closing" /\ x.shift = s
  BY DEF Idle, RequestRecord, Active, Closing
<1>2. openKey' = openKey /\ rowLock' = rowLock
  BY DEF locks
<1>3. /\ openKey' \in [Cashier -> Request \cup {Nobody}]
      /\ rowLock' \in [Shift -> Request \cup {Nobody}]
  BY <1>2 DEF DrawerInv, TypeOK
<1>5. req[r].pc # "done" /\ req' = [req EXCEPT ![r] = x] /\ UNCHANGED rows
  OBVIOUS
<1> HIDE DEF x
<1>. QED
  BY <1>1, <1>2, <1>3, <1>5, GoesOn DEF Closing

LEMMA InsertInv ==
  ASSUME DrawerInv, NEW r \in Request, Insert(r), Observe PROVE DrawerInv'
<1> USE DEF Insert
<1> DEFINE x == [req[r] EXCEPT !.pc = "inserted"]
<1>1. /\ x \in RequestRecord /\ x.pc = "inserted" /\ x.user = req[r].user
      /\ x.shift = req[r].shift
  BY DEF DrawerInv, TypeOK, RequestRecord, Active
<1>2. /\ r \in Opening /\ req[r].user \in Cashier /\ req[r].shift \in Shift
      /\ shift[req[r].shift].status = "absent"
      /\ \A q \in Opening : req[q].shift = req[r].shift => q = r
  BY DEF DrawerInv, OpeningIsNew, Opening
<1>3. /\ openKey' \in [Cashier -> Request \cup {Nobody}]
      /\ rowLock' \in [Shift -> Request \cup {Nobody}]
      /\ openKey'[req[r].user] = r
  BY <1>2 DEF DrawerInv, TypeOK
<1>4. ASSUME NEW q \in Request, q # r, req[q].pc = "inserted"
      PROVE  openKey'[req[q].user] = openKey[req[q].user]
  BY <1>4, <1>2, DrawerAssumption DEF DrawerInv, TypeOK, KeyIsHeld
<1>5. req[r].pc # "done" /\ req' = [req EXCEPT ![r] = x] /\ UNCHANGED rows
  BY DEF Move
<1>6. OpenShift(x.user) = {}
  BY <1>1
<1> HIDE DEF x
<1>. QED
  BY <1>1, <1>2, <1>3, <1>4, <1>5, <1>6, GoesOn DEF Closing

LEMMA CountInv ==
  ASSUME DrawerInv, NEW r \in Request, Count(r), Observe PROVE DrawerInv'
<1> USE DEF Count
<1> DEFINE x == [req[r] EXCEPT !.pc = "counted", !.counted = CashIn(req[r].shift)]
<1>1. req[r].shift \in Shift
  BY DEF DrawerInv, ClosingIsOfShift, Closing
<1>2. CashIn(req[r].shift) \subseteq Request
  BY <1>1 DEF DrawerInv, TypeOK, CashIn
<1>3. /\ x \in RequestRecord /\ x.pc = "counted" /\ x.shift = req[r].shift
      /\ x.counted = CashIn(req[r].shift)
  BY <1>2 DEF DrawerInv, TypeOK, RequestRecord, Active, Closing
<1>4. openKey' = openKey /\ rowLock' = rowLock
  BY DEF locks
<1>5. /\ openKey' \in [Cashier -> Request \cup {Nobody}]
      /\ rowLock' \in [Shift -> Request \cup {Nobody}]
  BY <1>4 DEF DrawerInv, TypeOK
<1>6. /\ shift[req[r].shift].status # "absent"
      /\ shift[req[r].shift].status = "CLOSED" => req[r].shift \in raced
  BY <1>1 DEF DrawerInv, SeenIsOpen, Closing
<1>7. req[r].pc # "done" /\ req' = [req EXCEPT ![r] = x] /\ UNCHANGED rows
  OBVIOUS
<1> HIDE DEF x
<1>. QED
  BY <1>1, <1>3, <1>4, <1>5, <1>6, <1>7, GoesOn DEF Closing

LEMMA UpdateInv ==
  ASSUME DrawerInv, NEW r \in Request, Update(r), Observe PROVE DrawerInv'
<1> USE DEF Update
<1> DEFINE x == [req[r] EXCEPT !.pc = "updated"]
<1>1. req[r].shift \in Shift
  BY DEF DrawerInv, ClosingIsOfShift, Closing
<1>2. /\ x \in RequestRecord /\ x.pc = "updated" /\ x.shift = req[r].shift
      /\ x.counted = req[r].counted
  BY DEF DrawerInv, TypeOK, RequestRecord, Active, Closing
<1>3. /\ openKey' \in [Cashier -> Request \cup {Nobody}]
      /\ rowLock' \in [Shift -> Request \cup {Nobody}] /\ openKey' = openKey
  BY DEF DrawerInv, TypeOK
<1>4. /\ shift[req[r].shift].status # "absent"
      /\ shift[req[r].shift].status = "CLOSED" => req[r].shift \in raced
  BY <1>1 DEF DrawerInv, SeenIsOpen, Closing
<1>5. req[r].shift \notin raced => req[r].counted = CashIn(req[r].shift)
  BY DEF DrawerInv, CountIsCurrent
<1>6. req[r].pc # "done" /\ req' = [req EXCEPT ![r] = x] /\ UNCHANGED rows
  BY DEF Move
<1> HIDE DEF x
<1>. QED
  BY <1>1, <1>2, <1>3, <1>4, <1>5, <1>6, GoesOn DEF Closing

\* A request that ends gives back what it holds, and nothing else.
LEMMA ReleaseInv ==
  ASSUME DrawerInv, NEW r \in Request, Release(r)
  PROVE  /\ openKey' \in [Cashier -> Request \cup {Nobody}]
         /\ rowLock' \in [Shift -> Request \cup {Nobody}]
         /\ \A q \in Request : q # r /\ req[q].pc = "inserted" =>
              openKey'[req[q].user] = openKey[req[q].user]
<1>1. \A q \in Request : req[q].pc = "inserted" =>
        req[q].user \in Cashier /\ openKey[req[q].user] = q
  BY DEF DrawerInv, OpeningIsNew, Opening, KeyIsHeld
<1>. QED
  BY <1>1 DEF Release, DrawerInv, TypeOK

LEMMA FailInv ==
  ASSUME DrawerInv, NEW r \in Request, Fail(r), Observe PROVE DrawerInv'
<1>1. Idle \in RequestRecord /\ Idle.pc = "idle"
  BY DEF Idle, RequestRecord
<1>2. req[r].pc # "done" /\ req' = [req EXCEPT ![r] = Idle] /\ UNCHANGED rows /\ Release(r)
  BY DEF Fail, Active, Closing
<1>. QED
  BY <1>1, <1>2, ReleaseInv, GoesOn DEF Closing

-----------------------------------------------------------------------------
(* Requests that commit.                                                   *)

\* A request is done: it remembers what it did.
LEMMA IsDone ==
  ASSUME DrawerInv, NEW r \in Request, Move(r, "done")
  PROVE  /\ req' \in [Request -> RequestRecord] /\ req'[r].pc = "done"
         /\ req'[r].user = req[r].user /\ req'[r].shift = req[r].shift
         /\ \A q \in Request : req'[q].cash = req[q].cash
         /\ \A q \in Request : q # r => req'[q] = req[q]
<1>1. req \in [Request -> RequestRecord]
  BY DEF DrawerInv, TypeOK
<1>2. \A q \in Request : q # r => req'[q] = req[q]
  BY <1>1 DEF Move
<1>3. req' \in [Request -> RequestRecord]
  BY <1>1 DEF Move, RequestRecord, Active
<1>4. /\ req'[r].pc = "done" /\ req'[r].user = req[r].user
      /\ req'[r].shift = req[r].shift /\ req'[r].cash = req[r].cash
  BY <1>1 DEF Move, RequestRecord
<1>. QED
  BY <1>2, <1>3, <1>4

LEMMA CommitOpenInv ==
  ASSUME DrawerInv, NEW r \in Request, CommitOpen(r), Observe PROVE DrawerInv'
<1> USE DEF CommitOpen
<1> DEFINE s == req[r].shift
           u == req[r].user
<1>1. /\ r \in Opening /\ u \in Cashier /\ s \in Shift /\ shift[s].status = "absent"
      /\ \A q \in Opening : req[q].shift = s => q = r
  BY DEF DrawerInv, OpeningIsNew, Opening
<1>2. /\ req' \in [Request -> RequestRecord] /\ req'[r].pc = "done"
      /\ \A q \in Request : req'[q].cash = req[q].cash
      /\ \A q \in Request : q # r => req'[q] = req[q]
  BY IsDone
<1>3. /\ openKey' \in [Cashier -> Request \cup {Nobody}]
      /\ rowLock' \in [Shift -> Request \cup {Nobody}]
      /\ \A q \in Request : q # r /\ req[q].pc = "inserted" =>
           openKey'[req[q].user] = openKey[req[q].user]
  BY ReleaseInv
<1>4. raced \subseteq raced' /\ raced' \subseteq Shift /\ RacesAreNoted'
  BY ObserveInv
<1>5. /\ shift' \in [Shift -> ShiftRecord] /\ shift'[s].status = "OPEN"
      /\ shift'[s].opener = u /\ \A t \in Shift : t # s => shift'[t] = shift[t]
  BY <1>1 DEF DrawerInv, TypeOK, ShiftRecord, Status
<1>6. attached' = attached /\ attached \in [Shift -> SUBSET Request]
  BY DEF DrawerInv, TypeOK
<1>7. TypeOK'
  BY <1>2, <1>3, <1>4, <1>5, <1>6 DEF TypeOK
<1>8. \A t \in Shift : CashIn(t) = {p \in attached'[t] : req'[p].cash}
  BY <1>2, <1>6 DEF CashIn
<1>9. OpeningIsNew'
  BY <1>1, <1>2, <1>5 DEF DrawerInv, OpeningIsNew, Opening
<1>11. ASSUME NEW q \in Request, q # r, req[q].pc = "inserted" PROVE req[q].user # u
  BY <1>11 DEF DrawerInv, KeyIsHeld
<1>12. KeyIsHeld'
  <2> SUFFICES ASSUME NEW q \in Request, req'[q].pc = "inserted"
               PROVE  /\ openKey'[req'[q].user] = q
                      /\ \A t \in Shift : shift'[t].status = "OPEN" => shift'[t].opener # req'[q].user
    BY DEF KeyIsHeld, OpenShift
  <2>1. q # r /\ req'[q] = req[q]
    BY <1>2
  <2>2. openKey[req[q].user] = q /\ OpenShift(req[q].user) = {} /\ req[q].user # u
    BY <1>11, <2>1 DEF DrawerInv, KeyIsHeld
  <2>. QED
    BY <1>3, <1>5, <2>1, <2>2 DEF OpenShift
<1>13. SeenIsOpen'
  BY <1>1, <1>2, <1>4, <1>5 DEF DrawerInv, SeenIsOpen, Closing
<1>14. ClosingIsOfShift'
  BY <1>2 DEF DrawerInv, ClosingIsOfShift, Closing
<1>15. CountIsCurrent'
  BY <1>2, <1>4, <1>8, <1>14 DEF DrawerInv, CountIsCurrent, CashIn, ClosingIsOfShift, Closing
<1>16. \A t \in Shift : r \notin attached[t]
  BY DEF DrawerInv, AttachedIsDone
<1>17. AttachedIsDone'
  BY <1>1, <1>2, <1>5, <1>6, <1>16 DEF DrawerInv, AttachedIsDone
<1>18. OpenShift(u) = {}
  BY DEF DrawerInv, KeyIsHeld
<1>19. \A t \in Shift : shift'[t].status = "OPEN" /\ shift'[t].opener = u => t = s
  BY <1>5, <1>18 DEF OpenShift
<1>20. OneOpenDrawer'
  <2> SUFFICES ASSUME NEW v \in Cashier, NEW x \in Shift, NEW y \in Shift,
                      shift'[x].status = "OPEN", shift'[x].opener = v,
                      shift'[y].status = "OPEN", shift'[y].opener = v
               PROVE  x = y
    BY DEF OneOpenDrawer, OpenShift
  <2>1. CASE v = u
    BY <1>19, <2>1
  <2>2. CASE v # u
    BY <1>5, <2>2 DEF DrawerInv, OneOpenDrawer, OpenShift
  <2>. QED
    BY <2>1, <2>2
<1>21. CountIsWhole'
  BY <1>4, <1>5, <1>8 DEF DrawerInv, CountIsWhole, CashIn
<1>. QED
  BY <1>4, <1>7, <1>9, <1>12, <1>13, <1>14, <1>15, <1>17, <1>20, <1>21 DEF DrawerInv

LEMMA CommitMoveInv ==
  ASSUME DrawerInv, NEW r \in Request, CommitMove(r), Observe PROVE DrawerInv'
<1> USE DEF CommitMove
<1> DEFINE s == req[r].shift
<1>1. s \in Shift =>
        /\ shift[s].status # "absent" /\ req[r].user = shift[s].opener
        /\ shift[s].status = "CLOSED" => s \in raced
  BY DEF DrawerInv, SeenIsOpen
<1>2. /\ req' \in [Request -> RequestRecord] /\ req'[r].pc = "done"
      /\ req'[r].user = req[r].user /\ req'[r].shift = s
      /\ \A q \in Request : req'[q].cash = req[q].cash
      /\ \A q \in Request : q # r => req'[q] = req[q]
  BY IsDone
<1>3. /\ openKey' \in [Cashier -> Request \cup {Nobody}]
      /\ rowLock' \in [Shift -> Request \cup {Nobody}]
      /\ \A q \in Request : q # r /\ req[q].pc = "inserted" =>
           openKey'[req[q].user] = openKey[req[q].user]
  BY ReleaseInv
<1>4. raced \subseteq raced' /\ raced' \subseteq Shift /\ RacesAreNoted'
  BY ObserveInv
<1>5. shift' = shift /\ \A v : OpenShift(v)' = OpenShift(v)
  BY DEF OpenShift
<1>6. attached \in [Shift -> SUBSET Request] /\ attached' \in [Shift -> SUBSET Request]
  BY DEF DrawerInv, TypeOK
<1>7. TypeOK'
  BY <1>2, <1>3, <1>4, <1>5, <1>6 DEF DrawerInv, TypeOK
<1>8. \A t \in Shift : t # s => CashIn(t) = {p \in attached'[t] : req'[p].cash}
  BY <1>2, <1>6 DEF CashIn
<1>9. OpeningIsNew'
  BY <1>2, <1>5 DEF DrawerInv, OpeningIsNew, Opening
<1>10. KeyIsHeld'
  BY <1>2, <1>3, <1>5 DEF DrawerInv, KeyIsHeld
<1>11. SeenIsOpen'
  BY <1>2, <1>4, <1>5 DEF DrawerInv, SeenIsOpen, Closing
<1>12. ClosingIsOfShift'
  BY <1>2 DEF DrawerInv, ClosingIsOfShift, Closing
<1>13. ASSUME NEW q \in Request, req'[q].pc \in {"counted", "updated"},
              req'[q].shift \notin raced'
       PROVE  req'[q].counted = {p \in attached'[req'[q].shift] : req'[p].cash}
  <2>1. q # r /\ req'[q] = req[q] /\ req[q].shift \in Shift
    BY <1>2, <1>13 DEF DrawerInv, ClosingIsOfShift, Closing
  <2>2. req[q].shift # s
    BY <1>4, <1>13, <2>1 DEF DrawerInv, RacesAreNoted, Race
  <2>. QED
    BY <1>4, <1>8, <1>13, <2>1, <2>2 DEF DrawerInv, CountIsCurrent
<1>14. CountIsCurrent'
  BY <1>13 DEF CountIsCurrent, CashIn
<1>15. \A t \in Shift : r \notin attached[t]
  BY DEF DrawerInv, AttachedIsDone
<1>16. AttachedIsDone'
  BY <1>1, <1>2, <1>5, <1>6, <1>15 DEF DrawerInv, AttachedIsDone
<1>17. OneOpenDrawer'
  BY <1>5 DEF DrawerInv, OneOpenDrawer
<1>18. CountIsWhole'
  BY <1>1, <1>4, <1>5, <1>8 DEF DrawerInv, CountIsWhole, CashIn
<1>. QED
  BY <1>4, <1>7, <1>9, <1>10, <1>11, <1>12, <1>14, <1>16, <1>17, <1>18 DEF DrawerInv

LEMMA CommitCloseInv ==
  ASSUME DrawerInv, NEW r \in Request, CommitClose(r), Observe PROVE DrawerInv'
<1> USE DEF CommitClose
<1> DEFINE s == req[r].shift
<1>1. s \in Shift /\ shift[s].status # "absent"
  BY DEF DrawerInv, ClosingIsOfShift, SeenIsOpen, Closing
<1>2. s \notin raced => req[r].counted = CashIn(s)
  BY DEF DrawerInv, CountIsCurrent
<1>3. /\ req' \in [Request -> RequestRecord] /\ req'[r].pc = "done"
      /\ \A q \in Request : req'[q].cash = req[q].cash
      /\ \A q \in Request : q # r => req'[q] = req[q]
  BY IsDone
<1>4. /\ openKey' \in [Cashier -> Request \cup {Nobody}]
      /\ rowLock' \in [Shift -> Request \cup {Nobody}]
      /\ \A q \in Request : q # r /\ req[q].pc = "inserted" =>
           openKey'[req[q].user] = openKey[req[q].user]
  BY ReleaseInv
<1>5. raced \subseteq raced' /\ raced' \subseteq Shift /\ RacesAreNoted'
  BY ObserveInv
<1>6. /\ shift' \in [Shift -> ShiftRecord] /\ shift'[s].status = "CLOSED"
      /\ shift'[s].counted = req[r].counted /\ shift'[s].opener = shift[s].opener
      /\ \A t \in Shift : t # s => shift'[t] = shift[t]
  BY <1>1 DEF DrawerInv, TypeOK, ShiftRecord, Status, RequestRecord
<1>7. \A v : OpenShift(v)' \subseteq OpenShift(v)
  BY <1>6 DEF OpenShift
<1>8. attached' = attached /\ attached \in [Shift -> SUBSET Request]
  BY DEF DrawerInv, TypeOK
<1>9. TypeOK'
  BY <1>3, <1>4, <1>5, <1>6, <1>8 DEF TypeOK
<1>10. \A t \in Shift : CashIn(t) = {p \in attached'[t] : req'[p].cash}
  BY <1>3, <1>8 DEF CashIn
<1>11. OpeningIsNew'
  BY <1>1, <1>3, <1>6 DEF DrawerInv, OpeningIsNew, Opening
<1>12. KeyIsHeld'
  <2> SUFFICES ASSUME NEW q \in Request, req'[q].pc = "inserted"
               PROVE  /\ openKey'[req'[q].user] = q
                      /\ \A t \in Shift : shift'[t].status = "OPEN" => shift'[t].opener # req'[q].user
    BY DEF KeyIsHeld, OpenShift
  <2>1. q # r /\ req'[q] = req[q]
    BY <1>3
  <2>2. openKey[req[q].user] = q /\ OpenShift(req[q].user) = {}
    BY <2>1 DEF DrawerInv, KeyIsHeld
  <2>. QED
    BY <1>4, <1>6, <2>1, <2>2 DEF OpenShift
<1>13. ASSUME NEW q \in Request, q # r, req[q].pc \in Closing \cup {"moving"}, req[q].shift = s
       PROVE  s \in raced
  BY <1>1, <1>13 DEF DrawerInv, RacesAreNoted, Race
<1>14. SeenIsOpen'
  BY <1>1, <1>3, <1>5, <1>6, <1>13 DEF DrawerInv, SeenIsOpen, Closing
<1>15. ClosingIsOfShift'
  BY <1>3 DEF DrawerInv, ClosingIsOfShift, Closing
<1>16. CountIsCurrent'
  BY <1>3, <1>5, <1>10, <1>15 DEF DrawerInv, CountIsCurrent, CashIn, ClosingIsOfShift, Closing
<1>17. \A t \in Shift : r \notin attached[t]
  BY DEF DrawerInv, AttachedIsDone
<1>18. AttachedIsDone'
  BY <1>1, <1>3, <1>6, <1>8, <1>17 DEF DrawerInv, AttachedIsDone
<1>19. OneOpenDrawer'
  BY <1>7 DEF DrawerInv, OneOpenDrawer
<1>20. CountIsWhole'
  BY <1>2, <1>5, <1>6, <1>10 DEF DrawerInv, CountIsWhole, CashIn
<1>. QED
  BY <1>5, <1>9, <1>11, <1>12, <1>14, <1>15, <1>16, <1>18, <1>19, <1>20 DEF DrawerInv

-----------------------------------------------------------------------------
(* The theorems.                                                           *)

LEMMA StutterInv == DrawerInv /\ UNCHANGED vars => DrawerInv'
  BY DEF vars, rows, locks, DrawerInv, TypeOK, OpeningIsNew, Opening, KeyIsHeld, OpenShift,
     SeenIsOpen, ClosingIsOfShift, CountIsCurrent, CashIn, AttachedIsDone, RacesAreNoted, Race,
     OneOpenDrawer, CountIsWhole

\* DrawerInv holds in every reachable state: what a request has read of a drawer
\* is still so, or a race is noted.
THEOREM DrawerInvariant == Spec => []DrawerInv
<1>1. DrawerInv /\ Next => DrawerInv'
  BY BeginOpenInv, BeginMoveInv, BeginCloseInv, InsertInv, CountInv, UpdateInv, FailInv,
     CommitOpenInv, CommitMoveInv, CommitCloseInv DEF Next, Begin, Step
<1>2. DrawerInv /\ [Next]_vars => DrawerInv'
  BY <1>1, StutterInv
<1>. QED
  BY <1>2, InitInv, PTL DEF Spec

\* The variables keep their types.
THEOREM DrawerTyped == Spec => []TypeOK
<1>1. DrawerInv => TypeOK
  BY DEF DrawerInv
<1>. QED
  BY <1>1, DrawerInvariant, PTL

\* A cashier has one open drawer at most, and money is in no drawer but that of
\* the cashier who took it (open_shift and its index, _current_shift).
THEOREM DrawersApart == Spec => []DrawersInv
<1>1. DrawerInv => DrawersInv
  BY DEF DrawerInv, DrawersInv, OwnDrawer, AttachedIsDone
<1>. QED
  BY <1>1, DrawerInvariant, PTL

\* What was expected of a closed drawer is all the cash in it, unless money or
\* another close reached it after the count (close_shift, expected_cash).
THEOREM CountsAreWhole == Spec => []CountIsWhole
<1>1. DrawerInv => CountIsWhole
  BY DEF DrawerInv
<1>. QED
  BY <1>1, DrawerInvariant, PTL

-----------------------------------------------------------------------------
(* Closed drawers.                                                         *)

\* The rows of drawer s, and the cash in it, stay.
Frozen(s) ==
  /\ shift'[s].status = "CLOSED"
  /\ s \notin raced => shift'[s] = shift[s] /\ CashIn(s)' = CashIn(s)

LEMMA RowsFrozen ==
  ASSUME DrawerInv, NEW r \in Request, req[r].pc # "done", NEW x,
         req' = [req EXCEPT ![r] = x], UNCHANGED rows, NEW s \in Shift,
         shift[s].status = "CLOSED"
  PROVE  Frozen(s)
<1>1. \A q \in Request : q # r => req'[q] = req[q]
  BY DEF DrawerInv, TypeOK
<1>2. attached[s] \subseteq Request /\ r \notin attached[s]
  BY DEF DrawerInv, AttachedIsDone, TypeOK
<1>. QED
  BY <1>1, <1>2 DEF Frozen, CashIn, rows

LEMMA StepFrozen ==
  ASSUME DrawerInv, NEW r \in Request, Begin(r) \/ Step(r) \/ Fail(r), NEW s \in Shift,
         shift[s].status = "CLOSED"
  PROVE  Frozen(s)
<1>1. CASE Begin(r)
  <2>1. PICK x : req' = [req EXCEPT ![r] = x]
    BY <1>1 DEF Begin, BeginOpen, BeginMove, BeginClose
  <2>2. req[r].pc # "done" /\ UNCHANGED rows
    BY <1>1 DEF Begin, BeginOpen, BeginMove, BeginClose
  <2>. QED
    BY <2>1, <2>2, RowsFrozen
<1>2. CASE Insert(r) \/ Count(r) \/ Update(r) \/ Fail(r)
  <2>1. PICK x : req' = [req EXCEPT ![r] = x]
    BY <1>2 DEF Insert, Count, Update, Fail, Move
  <2>2. req[r].pc # "done" /\ UNCHANGED rows
    BY <1>2 DEF Insert, Count, Update, Fail, Active, Closing
  <2>. QED
    BY <2>1, <2>2, RowsFrozen
<1>3. CASE CommitOpen(r)
  <2>1. req[r].shift \in Shift /\ shift[req[r].shift].status = "absent"
    BY <1>3 DEF DrawerInv, OpeningIsNew, Opening, CommitOpen
  <2>2. shift'[s] = shift[s] /\ attached' = attached
    BY <1>3, <2>1 DEF DrawerInv, TypeOK, CommitOpen
  <2>3. \A q \in Request : req'[q].cash = req[q].cash
    BY <1>3, IsDone DEF CommitOpen
  <2>4. attached[s] \subseteq Request
    BY DEF DrawerInv, TypeOK
  <2>. QED
    BY <2>2, <2>3, <2>4 DEF Frozen, CashIn
<1>4. CASE CommitMove(r)
  <2>1. req[r].shift = s => s \in raced
    BY <1>4 DEF DrawerInv, SeenIsOpen, CommitMove
  <2>2. shift' = shift /\ (req[r].shift # s => attached'[s] = attached[s])
    BY <1>4 DEF CommitMove
  <2>3. \A q \in Request : req'[q].cash = req[q].cash
    BY <1>4, IsDone DEF CommitMove
  <2>4. attached[s] \subseteq Request
    BY DEF DrawerInv, TypeOK
  <2>. QED
    BY <2>1, <2>2, <2>3, <2>4 DEF Frozen, CashIn
<1>5. CASE CommitClose(r)
  <2>1. req[r].shift = s => s \in raced
    BY <1>5 DEF DrawerInv, SeenIsOpen, CommitClose, Closing
  <2>2. /\ shift'[s].status = "CLOSED" /\ attached' = attached
        /\ req[r].shift # s => shift'[s] = shift[s]
    BY <1>5 DEF DrawerInv, TypeOK, ShiftRecord, CommitClose
  <2>3. \A q \in Request : req'[q].cash = req[q].cash
    BY <1>5, IsDone DEF CommitClose
  <2>4. attached[s] \subseteq Request
    BY DEF DrawerInv, TypeOK
  <2>. QED
    BY <2>1, <2>2, <2>3, <2>4 DEF Frozen, CashIn
<1>. QED
  BY <1>1, <1>2, <1>3, <1>4, <1>5 DEF Step

\* A closed drawer stays closed with the expected cash it was closed with, and no
\* cash enters or leaves it, unless requests overlapped on it (close_shift).
THEOREM ClosedDrawersStay == Spec => ClosedIsFrozen
<1>1. DrawerInv /\ [Next]_vars =>
        [\A s \in Shift : shift[s].status = "CLOSED" =>
           /\ shift'[s].status = "CLOSED"
           /\ s \notin raced => shift'[s] = shift[s] /\ CashIn(s)' = CashIn(s)]_vars
  BY StepFrozen DEF Next, Frozen
<1>. QED
  BY <1>1, DrawerInvariant, PTL DEF Spec, ClosedIsFrozen
=============================================================================
