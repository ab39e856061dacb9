-------------------------------- MODULE Drawer --------------------------------
(***************************************************************************)
(* Cash drawers: shift_service, and what payment_service puts on a shift.  *)
(* A cashier opens a drawer, cash payments and refunds recorded by the     *)
(* cashier are attached to it, and anyone who handles money may close it   *)
(* against the cash that the system expects in it.                         *)
(*                                                                         *)
(* Each request is one transaction at READ COMMITTED, as in Takings: shift *)
(* and attached are committed, req[r] is what request r has read.  A sum   *)
(* of money is the set of the payments and refunds in it, each of which is *)
(* named by the request that recorded it.                                  *)
(***************************************************************************)
CONSTANTS
  Request,    \* the requests; each may fail and be sent again until it commits
  Cashier,
  Shift,
  Nobody,     \* no request holds the key or the row; no cashier
  NoShift     \* money that is in no drawer

ASSUME DrawerAssumption == Nobody \notin Request \cup Cashier /\ NoShift \notin Shift

VARIABLES
  shift,      \* shift[s]: its status, its opener and, once closed, what was counted
  attached,   \* attached[s]: the payments and refunds whose shift_id is s
  openKey,    \* openKey[u]: the request that is inserting an open shift of u
  rowLock,    \* rowLock[s]: the request that is updating s
  req,        \* req[r]: how far request r has come and what it has read
  raced       \* history: the shifts that money reached, or that were closed
              \* again, between the count of a close and its commit

rows == <<shift, attached>>
locks == <<openKey, rowLock>>
vars == <<rows, locks, req, raced>>

Status == {"absent", "OPEN", "CLOSED"}
ShiftRecord == [status : Status, opener : Cashier \cup {Nobody}, counted : SUBSET Request]

Closing == {"closing", "counted", "updated"}
Active == Closing \cup {"opening", "inserted", "moving"}

RequestRecord ==
  [pc : Active \cup {"idle", "done"}, user : Cashier \cup {Nobody},
   shift : Shift \cup {NoShift}, cash : BOOLEAN, counted : SUBSET Request]

Idle == [pc |-> "idle", user |-> Nobody, shift |-> NoShift, cash |-> FALSE, counted |-> {}]

Init ==
  /\ shift = [s \in Shift |-> [status |-> "absent", opener |-> Nobody, counted |-> {}]]
  /\ attached = [s \in Shift |-> {}]
  /\ openKey = [u \in Cashier |-> Nobody]
  /\ rowLock = [s \in Shift |-> Nobody]
  /\ req = [r \in Request |-> Idle]
  /\ raced = {}

\* get_open_shift.  Mutant: a closed drawer is found.
StaleShift(u) == {s \in Shift : shift[s].status # "absent" /\ shift[s].opener = u}
OpenShift(u) == {s \in Shift : shift[s].status = "OPEN" /\ shift[s].opener = u}

\* _cash_movement: the cash of a drawer, of what is committed.
CashIn(s) == {r \in attached[s] : req[r].cash}

-----------------------------------------------------------------------------
Move(r, pc) == req' = [req EXCEPT ![r].pc = pc]

\* open_shift: the cashier has no open shift that is committed.
BeginOpen(r, u, s) ==
  /\ req[r].pc = "idle"
  /\ OpenShift(u) = {}
  /\ shift[s].status = "absent"
  /\ \A q \in Request : req[q].pc \in {"opening", "inserted"} => req[q].shift # s
  /\ req' = [req EXCEPT ![r] = [Idle EXCEPT !.pc = "opening", !.user = u, !.shift = s]]
  /\ UNCHANGED <<rows, locks>>

\* INSERT of the shift: uq_one_open_shift_per_user makes it wait for another that
\* is inserting, and refuses it (Fail) if there is one.  Mutant: no index.
InsertAnyway(r) ==
  /\ req[r].pc = "opening"
  /\ openKey' = [openKey EXCEPT ![req[r].user] = r]
  /\ Move(r, "inserted")
  /\ UNCHANGED <<rows, rowLock>>
Insert(r) ==
  /\ req[r].pc = "opening"
  /\ OpenShift(req[r].user) = {}
  /\ openKey[req[r].user] = Nobody
  /\ openKey' = [openKey EXCEPT ![req[r].user] = r]
  /\ Move(r, "inserted")
  /\ UNCHANGED <<rows, rowLock>>

\* _current_shift, in record_cash_payment (cash or card) and refund_payment: the
\* drawer that the member of staff has open.  None, when none is required.
BeginMove(r, u, s, cash) ==
  /\ req[r].pc = "idle"
  /\ IF OpenShift(u) = {} THEN s = NoShift ELSE s \in OpenShift(u)
  /\ req' = [req EXCEPT ![r] =
       [pc |-> "moving", user |-> u, shift |-> s, cash |-> cash, counted |-> {}]]
  /\ UNCHANGED <<rows, locks>>

\* close_shift: any shift that is open, by anyone.
BeginClose(r, s) ==
  /\ req[r].pc = "idle"
  /\ shift[s].status = "OPEN"
  /\ req' = [req EXCEPT ![r] = [Idle EXCEPT !.pc = "closing", !.shift = s]]
  /\ UNCHANGED <<rows, locks>>

\* expected_cash.  Mutant: card payments are expected in the drawer.
CountAll(r) ==
  /\ req[r].pc = "closing"
  /\ req' = [req EXCEPT ![r].pc = "counted", ![r].counted = attached[req[r].shift]]
  /\ UNCHANGED <<rows, locks>>
Count(r) ==
  /\ req[r].pc = "closing"
  /\ req' = [req EXCEPT ![r].pc = "counted", ![r].counted = CashIn(req[r].shift)]
  /\ UNCHANGED <<rows, locks>>

\* UPDATE of the shift, by its id only.
Update(r) ==
  /\ req[r].pc = "counted"
  /\ rowLock[req[r].shift] = Nobody
  /\ rowLock' = [rowLock EXCEPT ![req[r].shift] = r]
  /\ Move(r, "updated")
  /\ UNCHANGED <<rows, openKey>>

-----------------------------------------------------------------------------
Release(r) ==
  /\ openKey' = [u \in Cashier |-> IF openKey[u] = r THEN Nobody ELSE openKey[u]]
  /\ rowLock' = [s \in Shift |-> IF rowLock[s] = r THEN Nobody ELSE rowLock[s]]

CommitOpen(r) ==
  /\ req[r].pc = "inserted"
  /\ shift' = [shift EXCEPT ![req[r].shift] =
       [status |-> "OPEN", opener |-> req[r].user, counted |-> {}]]
  /\ Move(r, "done")
  /\ Release(r)
  /\ UNCHANGED attached

CommitMove(r) ==
  /\ req[r].pc = "moving"
  /\ attached' = [s \in Shift |->
       IF s = req[r].shift THEN attached[s] \cup {r} ELSE attached[s]]
  /\ Move(r, "done")
  /\ Release(r)
  /\ UNCHANGED shift

CommitClose(r) ==
  /\ req[r].pc = "updated"
  /\ shift' = [shift EXCEPT ![req[r].shift].status = "CLOSED",
                            ![req[r].shift].counted = req[r].counted]
  /\ Move(r, "done")
  /\ Release(r)
  /\ UNCHANGED attached

\* ROLLBACK: the database refused, or anything else failed.
Fail(r) ==
  /\ req[r].pc \in Active
  /\ req' = [req EXCEPT ![r] = Idle]
  /\ Release(r)
  /\ UNCHANGED rows

-----------------------------------------------------------------------------
\* Another request that has read s as open while a close of s has been counted.
Race(s) ==
  \E r, q \in Request :
    /\ r # q
    /\ req[r].pc \in {"counted", "updated"} /\ req[r].shift = s
    /\ req[q].pc \in Closing \cup {"moving"} /\ req[q].shift = s

Observe == raced' = raced \cup {s \in Shift : Race(s)'}

Begin(r) ==
  \/ \E u \in Cashier, s \in Shift : BeginOpen(r, u, s)
  \/ \E u \in Cashier, s \in Shift \cup {NoShift}, cash \in BOOLEAN : BeginMove(r, u, s, cash)
  \/ \E s \in Shift : BeginClose(r, s)

Step(r) ==
  \/ Insert(r) \/ Count(r) \/ Update(r)
  \/ CommitOpen(r) \/ CommitMove(r) \/ CommitClose(r)

Next == \E r \in Request : (Begin(r) \/ Step(r) \/ Fail(r)) /\ Observe

Spec == Init /\ [][Next]_vars

-----------------------------------------------------------------------------
TypeOK ==
  /\ shift \in [Shift -> ShiftRecord]
  /\ attached \in [Shift -> SUBSET Request]
  /\ openKey \in [Cashier -> Request \cup {Nobody}]
  /\ rowLock \in [Shift -> Request \cup {Nobody}]
  /\ req \in [Request -> RequestRecord]
  /\ raced \subseteq Shift

\* A cashier has one open drawer at most, however many requests to open one run
\* at once ("One open shift per user", models/shift.py).
OneOpenDrawer == \A u \in Cashier : \A s, t \in OpenShift(u) : s = t

\* Money is in one drawer at most, that of the cashier who took it or handed it
\* back: "A drawer belongs to the person on duty" (models/shift.py).
OwnDrawer ==
  \A s \in Shift : \A r \in attached[s] :
    /\ req[r].user = shift[s].opener
    /\ \A t \in Shift : r \in attached[t] => t = s

DrawersInv == OneOpenDrawer /\ OwnDrawer

\* What was expected of a closed drawer is all the cash attached to it, so that the
\* frozen variance agrees with the report, unless money reached the drawer, or
\* another close did, between the count and the commit (close_shift).
CountIsWhole ==
  \A s \in Shift \ raced : shift[s].status = "CLOSED" => shift[s].counted = CashIn(s)

\* A closed drawer stays closed, and the expected cash is "Frozen at close ..., so a
\* later correction elsewhere cannot quietly rewrite a variance" (models/shift.py):
\* it changes only if two closes overlapped.
ClosedIsFrozen ==
  [][\A s \in Shift : shift[s].status = "CLOSED" =>
       /\ shift'[s].status = "CLOSED"
       /\ s \notin raced => shift'[s] = shift[s] /\ CashIn(s)' = CashIn(s)]_vars

-----------------------------------------------------------------------------
(* What comments in the code say and the code does not do.                 *)

\* "What the system says should be there: float + cash taken - cash returned"
\* (expected_cash in models/shift.py), also when a payment was under way.
ExpectedIsTaken ==
  \A s \in Shift : shift[s].status = "CLOSED" => shift[s].counted = CashIn(s)

-----------------------------------------------------------------------------
(* The parts of the inductive invariant that the proofs add.               *)

Opening == {r \in Request : req[r].pc \in {"opening", "inserted"}}

\* A shift that is being opened is not there yet, and one request opens it.
OpeningIsNew ==
  \A r \in Opening :
    /\ req[r].user \in Cashier /\ req[r].shift \in Shift
    /\ shift[req[r].shift].status = "absent"
    /\ \A q \in Opening : req[q].shift = req[r].shift => q = r

\* Whoever has inserted a shift holds its key, and no other is committed.
KeyIsHeld ==
  \A r \in Request :
    req[r].pc = "inserted" => openKey[req[r].user] = r /\ OpenShift(req[r].user) = {}

\* A shift that a request read as open is one of its cashier's, and still open
\* unless a close of it was counted meanwhile.
SeenIsOpen ==
  \A r \in Request :
    LET s == req[r].shift
    IN  req[r].pc \in Closing \cup {"moving"} /\ s \in Shift =>
          /\ shift[s].status # "absent"
          /\ req[r].pc = "moving" => req[r].user = shift[s].opener
          /\ shift[s].status = "CLOSED" => s \in raced

ClosingIsOfShift == \A r \in Request : req[r].pc \in Closing => req[r].shift \in Shift

\* What was counted is still what there is.
CountIsCurrent ==
  \A r \in Request :
    req[r].pc \in {"counted", "updated"} /\ req[r].shift \notin raced =>
      req[r].counted = CashIn(req[r].shift)

\* What is in a drawer was put there by a request that is done.
AttachedIsDone ==
  \A s \in Shift : \A r \in attached[s] :
    /\ req[r].pc = "done" /\ req[r].shift = s
    /\ req[r].user = shift[s].opener /\ shift[s].status # "absent"

RacesAreNoted == \A s \in Shift : Race(s) => s \in raced

DrawerInv ==
  /\ TypeOK /\ OpeningIsNew /\ KeyIsHeld /\ SeenIsOpen /\ ClosingIsOfShift
  /\ CountIsCurrent /\ AttachedIsDone /\ RacesAreNoted /\ OneOpenDrawer /\ CountIsWhole
=============================================================================
