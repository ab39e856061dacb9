------------------------------ MODULE Ordering ------------------------------
(***************************************************************************)
(* How an order leaves a screen: the cart of the counter's point of sale   *)
(* (frontend/src/features/pos, stores/cartStore.ts) and the cart of a      *)
(* guest's phone opened from a QR code (features/qr, stores/qrCartStore.ts *)
(* and qrSessionStore.ts), with the part of the server they talk to.       *)
(*                                                                         *)
(* The two screens share one design: lines are edited locally, "Place      *)
(* order" posts them, a successful answer empties the cart, a failed one   *)
(* keeps it.  A behaviour follows one screen (OrderingInit): the counter,  *)
(* whose cart lives in memory and which has two instances of the cart      *)
(* panel, or the phone, whose cart survives a reload in sessionStorage and *)
(* which orders for the location its scanned code belongs to.              *)
(*                                                                         *)
(* A cart line keeps the item and the quantity; names, notes, options,     *)
(* prices, customer and address are data no property here tells apart.     *)
(***************************************************************************)
EXTENDS Integers, Sequences, FiniteSetsExt

CONSTANTS Item,         \* items of the menu
          Simple,       \* those without variants and option groups
          Table, Room,  \* the two kinds of location
          Enabled,      \* feature toggles: contexts beside DINE_IN that are on
          None,
          MaxQuantity,  \* units a line may hold (50 in the stepper and the server)
          MaxSlot,      \* bound: lines of a cart
          MaxUnits,     \* bound: units in the cart
          MaxSend       \* bound: order requests

ASSUME OrderingBounds ==
  /\ Simple \subseteq Item /\ Table \cap Room = {}
  /\ Enabled \subseteq {"ROOM_SERVICE", "PICKUP", "DELIVERY"}
  /\ None \notin Item \cup Table \cup Room
  /\ {MaxQuantity, MaxSlot, MaxUnits, MaxSend} \subseteq Nat \ {0}

Place == Table \cup Room
Slot == 1..MaxSlot
Context == {"DINE_IN", "ROOM_SERVICE", "PICKUP", "DELIVERY"}

VARIABLES
  device,   \* "counter" or "phone"
  cart,     \* the lines, [item, n] in the slots in use
  ctx, place,  \* counter: context of the order, its location
  sheet,    \* the cart sheet is open
  page,     \* "menu", "status", or "away" from both
  at, code, \* phone: location of the URL, whether it carries a code
  link,     \* phone: what useQrSessionBootstrap says
  store,    \* phone: the location of the stored session while it is open
  watched, view,  \* phone: order of the status page, status it shows
  flight,   \* order requests under way; owner: the panel that sent it is
            \* "mounted", "unmounted" (its handler goes on), or nobody
            \* waits for the answer any more ("gone")
  orders,   \* server: orders created, [status, loc, kot]: loc of the phone's;
            \* kot, how far the ticket is
  owed,     \* ghost: units of each item the user asked for, less those ordered
  slip      \* ghost: what may have put the two apart so far, the
            \* gravest of: "no"; "unheard", an answer was never heard; "resent",
            \* sent again while a request of another panel was unsettled;
            \* "touched", the cart changed or went while one was unsettled

cartVars == <<cart, owed>>
counterVars == <<ctx, place>>
phoneVars == <<at, code, link, store, watched, view>>
orderingVars == <<device, cartVars, counterVars, sheet, page, phoneVars, flight, orders,
                  slip>>

NoLine == [item |-> None, n |-> 0]

EmptyCart == [s \in Slot |-> NoLine]

Lines(c) == {s \in Slot : c[s] # NoLine}

Total(f, S) == MapThenSumSet(LAMBDA s : f[s], S)

Units(c, i) == Total([s \in Slot |-> IF c[s].item = i THEN c[s].n ELSE 0], Slot)

Worse(x) ==
  CASE x = "unheard" -> IF slip = "no" THEN x ELSE slip
    [] x = "resent" -> IF slip = "touched" THEN slip ELSE x

InCart == Total([s \in Slot |-> cart[s].n], Slot)

OrderingInit ==
  /\ device \in {"counter", "phone"}
  /\ cart = EmptyCart
  /\ ctx = "DINE_IN" /\ place = None
  /\ sheet = FALSE
  /\ page = IF device = "counter" THEN "menu" ELSE "away"
  /\ at = None /\ code = FALSE /\ link = "loading" /\ store = None
  /\ watched = 0 /\ view = "none"
  /\ flight = {} /\ orders = <<>>
  /\ owed = [i \in Item |-> 0] /\ slip = "no"

-----------------------------------------------------------------------------
(* The cart *)

(* The panels the user can reach.  The sheet covers whatever is beside it;  *)
(* the counter's fixed panel is only hidden on a narrow screen, and a      *)
(* tablet may be turned at any time.                                       *)
Shown ==
  IF page # "menu" \/ (device = "phone" /\ link # "ready") THEN {}
  ELSE IF sheet THEN {"sheet"}
  ELSE IF device = "counter" THEN {"fixed"} ELSE {}

MenuShown == page = "menu" /\ ~sheet /\ (device = "phone" => link = "ready")

(* Every change of the lines goes through here: the store's new lines, and *)
(* what the user now wants of item i.                                      *)
Change(c, i, d) ==
  /\ cart' = c
  /\ slip' = IF slip = "no" /\ flight = {} THEN "no" ELSE "touched"
  /\ owed' = [j \in Item |-> IF slip' = "touched" THEN 0 ELSE owed[j] + IF i = j THEN d ELSE 0]

(* addLine: a line of its own, at the end. *)
AddLine(i, n) ==
  \E s \in Slot :
    /\ cart[s] = NoLine /\ \A t \in 1..s - 1 : cart[t] # NoLine
    /\ Change([cart EXCEPT ![s] = [item |-> i, n |-> n]], i, n)

(* setQuantity: a line at zero or below is dropped. *)
SetQuantity(s, q) == [cart EXCEPT ![s] = IF q <= 0 THEN NoLine ELSE [@ EXCEPT !.n = q]]

(* A tap on a simple item raises its line without the stepper's limit. *)
TapItem(i) ==
  /\ MenuShown /\ i \in Simple /\ InCart < MaxUnits
  /\ \/ \E s \in Slot :
          /\ cart[s].item = i
          /\ Change(SetQuantity(s, cart[s].n + 1), i, 1)
     \/ /\ \A s \in Slot : cart[s].item # i
        /\ AddLine(i, 1)
  /\ UNCHANGED <<device, counterVars, sheet, page, phoneVars, flight, orders>>

(* Any other item opens a dialog, whose stepper gives 1 to MaxQuantity.    *)
(* The counter and the phone have one each.                                *)
Customised(i, n) ==
  /\ MenuShown /\ i \in Item \ Simple /\ InCart + n <= MaxUnits
  /\ AddLine(i, n)
  /\ UNCHANGED <<device, counterVars, sheet, page, phoneVars, flight, orders>>

AddCustomised(i, n) == device = "counter" /\ Customised(i, n)
GuestCustomised(i, n) == device = "phone" /\ Customised(i, n)

(* The stepper of a line. *)
StepLine(s, q) ==
  /\ Shown # {} /\ cart[s] # NoLine
  /\ \/ q = cart[s].n - 1
     \/ q = cart[s].n + 1 /\ cart[s].n < MaxQuantity /\ InCart < MaxUnits
  /\ Change(SetQuantity(s, q), cart[s].item, q - cart[s].n)
  /\ UNCHANGED <<device, counterVars, sheet, page, phoneVars, flight, orders>>

RemoveLine(s) ==
  /\ Shown # {} /\ cart[s] # NoLine
  /\ Change([cart EXCEPT ![s] = NoLine], cart[s].item, -cart[s].n)
  /\ UNCHANGED <<device, counterVars, sheet, page, phoneVars, flight, orders>>

-----------------------------------------------------------------------------
(* The counter's panel *)

NeedsLocation == ctx \in {"DINE_IN", "ROOM_SERVICE"}

(* Mutant: the table carries over to the next context. *)
PlaceKept(c) == place

(* A table does not carry over to room service, nor into pickup. *)
PlaceAfter(c) == None

SetContext(c) ==
  /\ device = "counter" /\ Shown # {} /\ c \in Enabled \cup {"DINE_IN"}
  /\ ctx' = c /\ place' = PlaceAfter(c)
  /\ UNCHANGED <<device, cartVars, sheet, page, phoneVars, flight, orders, slip>>

SelectPlace(l) ==
  /\ device = "counter" /\ Shown # {} /\ NeedsLocation
  /\ l \in IF ctx = "ROOM_SERVICE" THEN Room ELSE Table
  /\ place' = l
  /\ UNCHANGED <<device, cartVars, ctx, sheet, page, phoneVars, flight, orders, slip>>

(* The button that opens the sheet, at the counter only on a narrow screen. *)
OpenSheet ==
  /\ MenuShown /\ Lines(cart) # {}
  /\ sheet' = TRUE
  /\ UNCHANGED <<device, cartVars, counterVars, page, phoneVars, flight, orders, slip>>

(* The requests once the panels ps are unmounted: their handlers go on. *)
Unmounted(ps) ==
  {[r EXCEPT !.owner = IF r.panel \in ps /\ @ = "mounted" THEN "unmounted" ELSE @] :
     r \in flight}

(* The requests rs once nobody waits for their answers; of those, only one *)
(* that may still reach the server matters.                                *)
Abandoned(rs) == {[r EXCEPT !.owner = "gone"] : r \in {q \in rs : q.state = "sent"}}

(* The panel is a child of the counter's Dialog, which renders nothing     *)
(* while closed; the phone's sheet holds the Dialog and stays mounted.     *)
CloseSheet ==
  /\ "sheet" \in Shown /\ sheet' = FALSE
  /\ flight' = IF device = "counter" THEN Unmounted({"sheet"}) ELSE flight
  /\ UNCHANGED <<device, cartVars, counterVars, page, phoneVars, orders, slip>>

(* Another page of the application and back: the store keeps the cart. *)
LeaveCounter ==
  /\ device = "counter" /\ page = "menu" /\ ~sheet
  /\ page' = "away" /\ flight' = Unmounted({"fixed"})
  /\ UNCHANGED <<device, cartVars, counterVars, sheet, phoneVars, orders, slip>>

ReturnToCounter ==
  /\ device = "counter" /\ page = "away"
  /\ page' = "menu"
  /\ UNCHANGED <<device, cartVars, counterVars, sheet, phoneVars, flight, orders, slip>>

(* A reload ends every handler; the counter's cart is not persisted. *)
ReloadCounter ==
  /\ device = "counter"
  /\ cart' = EmptyCart /\ slip' = "touched" /\ owed' = [i \in Item |-> 0]
  /\ ctx' = "DINE_IN" /\ place' = None
  /\ sheet' = FALSE
  /\ flight' = Abandoned(flight)
  /\ UNCHANGED <<device, page, phoneVars, orders>>

-----------------------------------------------------------------------------
(* Placing the order *)

(* What the button needs to be enabled, beside the address of a delivery. *)
CanPlaceOrder ==
  /\ Lines(cart) # {}
  /\ device = "counter" /\ NeedsLocation => place # None

(* Mutant: the button does not look at the request in flight. *)
NeverPending(p) == FALSE

(* isLoading of the button: the mutation of this instance of the panel. *)
IsPending(p) == \E r \in flight : r.panel = p /\ r.owner = "mounted"

SubmitOrder(p) ==
  /\ p \in Shown /\ CanPlaceOrder /\ ~IsPending(p)
  /\ Len(orders) + Cardinality(flight) < MaxSend
  /\ flight' = flight \cup
       {[n |-> Min(1..MaxSend \ {r.n : r \in flight}), panel |-> p, owner |-> "mounted",
         state |-> "sent", order |-> 0, units |-> [i \in Item |-> Units(cart, i)],
         source |-> IF device = "phone" THEN "QR" ELSE ctx,
         valid |-> /\ \A s \in Slot : cart[s].n <= MaxQuantity
                   /\ device = "phone" => store # None,
         loc |-> IF device = "phone" THEN store ELSE IF NeedsLocation THEN place ELSE None,
         from |-> at]}
  /\ slip' = IF slip = "unheard" \/ \E r \in flight : r.panel # p \/ r.owner # "mounted"
             THEN Worse("resent") ELSE slip
  /\ UNCHANGED <<device, cartVars, counterVars, sheet, page, phoneVars, orders>>

(* The server; a line above the limit or a closed session is refused. *)
Accept(r) ==
  /\ r.state = "sent" /\ r.valid
  /\ owed' = [i \in Item |-> IF slip = "touched" THEN 0 ELSE owed[i] - r.units[i]]
  /\ orders' = Append(orders, [status |-> "open", kot |-> "cooking",
                               loc |-> IF device = "phone" THEN r.loc ELSE None])
  /\ flight' = (flight \ {r}) \cup
       IF r.owner = "gone" THEN {}
       ELSE {[r EXCEPT !.state = "accepted", !.order = Len(orders) + 1]}
  /\ UNCHANGED <<device, cart, counterVars, sheet, page, phoneVars, slip>>

(* The handler's catch: the lines stay for another try. *)
CartAfterError == cart

(* It also refuses for reasons of its own, an item sold out or a toggle    *)
(* off; the handler shows the error and keeps the cart.  A refusal nobody  *)
(* waits for is the same as a request never handled.                       *)
Refused(r) ==
  /\ r.state = "sent" /\ r.owner # "gone"
  /\ flight' = flight \ {r} /\ cart' = CartAfterError
  /\ UNCHANGED <<device, owed, counterVars, sheet, page, phoneVars, orders, slip>>

(* The connection breaks: the handler shows an error, the request may     *)
(* still reach the server.                                                 *)
LoseAnswer(r) ==
  /\ r.owner # "gone"
  /\ flight' = (flight \ {r}) \cup Abandoned({r}) /\ cart' = CartAfterError
  /\ slip' = Worse("unheard")
  /\ UNCHANGED <<device, owed, counterVars, sheet, page, phoneVars, orders>>

(* clearCart leaves the context and the location for the next order. *)
CartAfter(r) == EmptyCart

(* The counter closes its sheet and shows the order's number. *)
Placed(r) ==
  /\ device = "counter" /\ r.owner # "gone" /\ r.state = "accepted"
  /\ cart' = CartAfter(r)
  /\ sheet' = IF r.panel = "sheet" THEN FALSE ELSE sheet
  /\ flight' = IF r.panel = "sheet" /\ sheet
               THEN Unmounted({"sheet"}) \ {r, [r EXCEPT !.owner = "unmounted"]}
               ELSE flight \ {r}
  /\ UNCHANGED <<device, owed, ctx, place, page, phoneVars, orders, slip>>

-----------------------------------------------------------------------------
(* The guest's phone *)

(* hasValidExisting *)
HasValidExisting(l) == store = l

(* The effect of useQrSessionBootstrap on a page for location l, code c. *)
Bootstrap(l, c) ==
  IF HasValidExisting(l) THEN "ready" ELSE IF ~c THEN "error" ELSE "loading"

(* A code is scanned, or a link followed, in this tab: the page loads anew, *)
(* sessionStorage keeps the session and the cart.                          *)
OpenPage(l, c) ==
  /\ device = "phone"
  /\ page' = "menu" /\ at' = l /\ code' = c /\ link' = Bootstrap(l, c)
  /\ sheet' = FALSE /\ watched' = 0 /\ view' = "none"
  /\ flight' = Abandoned(flight)
  /\ slip' = IF flight = {} THEN slip ELSE Worse("unheard")
  /\ UNCHANGED <<device, cartVars, counterVars, store, orders>>

ReloadPhone ==
  /\ device = "phone" /\ page # "away"
  /\ link' = Bootstrap(at, code) /\ sheet' = FALSE /\ view' = "none"
  /\ flight' = Abandoned(flight)
  /\ slip' = IF flight = {} THEN slip ELSE Worse("unheard")
  /\ UNCHANGED <<device, cartVars, counterVars, page, at, code, store, watched,
                 orders>>

(* GET /qr/scan: the server checks that the code is the location's own and *)
(* still active, and opens a session there.                                *)
ScanAnswer ==
  /\ page # "away" /\ link = "loading" /\ device = "phone"
  /\ \/ /\ code /\ store' = at /\ link' = "ready"
     \/ /\ link' = "error"
        /\ UNCHANGED store
  /\ UNCHANGED <<device, cartVars, counterVars, sheet, page, at, code, watched, view, flight,
                 orders, slip>>

(* The hours of a session pass, for the server and the phone alike; a      *)
(* request nobody waits for may carry an earlier token.                    *)
Expire ==
  /\ store # None /\ store' = None
  /\ flight' = {[r EXCEPT !.valid = @ /\ r.owner = "gone"] : r \in flight}
  /\ UNCHANGED <<device, cartVars, counterVars, sheet, page, at, code, link, watched, view,
                 orders, slip>>

(* A render after the expiry runs the effect again; the cart sheet is not  *)
(* rendered while the page loads or is in error.                           *)
Rerender ==
  /\ device = "phone" /\ page # "away" /\ link = "ready" /\ ~HasValidExisting(at)
  /\ link' = Bootstrap(at, code)
  /\ flight' = Unmounted({"sheet"})
  /\ UNCHANGED <<device, cartVars, counterVars, sheet, page, at, code, store, watched,
                 view, orders, slip>>

(* The order was placed: to its status page, whose URL has no code. *)
GuestPlaced(r) ==
  /\ device = "phone" /\ r.owner # "gone" /\ r.state = "accepted"
  /\ cart' = CartAfter(r)
  /\ sheet' = FALSE /\ page' = "status" /\ at' = r.from /\ code' = FALSE
  /\ link' = Bootstrap(r.from, FALSE)
  /\ watched' = r.order /\ view' = "none"
  /\ flight' = {[q EXCEPT !.owner = IF @ = "mounted" THEN "unmounted" ELSE @] : q \in flight \ {r}}
  /\ UNCHANGED <<device, owed, counterVars, store, orders, slip>>

(* "Order more", on the page of an order that was read: back to the menu. *)
OrderMore ==
  /\ page = "status" /\ link = "ready" /\ view \notin {"none", "error"}
  /\ page' = "menu" /\ link' = Bootstrap(at, FALSE) /\ watched' = 0 /\ view' = "none"
  /\ UNCHANGED <<device, cartVars, counterVars, sheet, at, code, store, flight, orders, slip>>

(* Mutant: an order that is still being worked on ends the polling. *)
EndsAtOnce == {"open", "ended", "cancelled"}

(* TERMINAL_STATUSES: served, delivered and completed are one status       *)
(* "ended" here; "open" stands for every status before them.               *)
TerminalStatuses == {"ended", "cancelled"}

(* The status page asks every 6 seconds until the answer is a terminal     *)
(* status.  The server answers for an order of the session's location.     *)
Polling == page = "status" /\ link = "ready" /\ view \notin TerminalStatuses

Poll ==
  /\ Polling /\ store = orders[watched].loc
  /\ view' = orders[watched].status
  /\ UNCHANGED <<device, cartVars, counterVars, sheet, page, at, code, link, store,
                 watched, flight, orders, slip>>

(* A poll that fails puts an error in the place of the order, and the next *)
(* one comes all the same: the interval looks at the last answer only.     *)
PollFails ==
  /\ Polling /\ view' = "error"
  /\ UNCHANGED <<device, cartVars, counterVars, sheet, page, at, code, link, store,
                 watched, flight, orders, slip>>

(* Order o comes to status st with its ticket at k.  No screen here shows  *)
(* what becomes of the counter's orders.                                   *)
Becomes(o, st, k) ==
  /\ device = "phone"
  /\ orders' = [orders EXCEPT ![o].status = st, ![o].kot = k]
  /\ UNCHANGED <<device, cartVars, counterVars, sheet, page, phoneVars, flight, slip>>

(* The staff cancel an order that was not served yet; its ticket stays     *)
(* where it is.                                                            *)
StaffCancel(o) ==
  orders[o].status # "ended" /\ Becomes(o, "cancelled", orders[o].kot)

(* A step of the ticket, which says what the order's status is, whatever   *)
(* it was: taken up, prepared and ready; cancelled by the kitchen until    *)
(* then; served.  "cooking" stands for every status before ready.          *)
TicketMoves(o) ==
  \/ /\ orders[o].kot = "cooking"
     /\ \/ Becomes(o, "open", "cooking") \/ Becomes(o, "open", "ready")
        \/ Becomes(o, "cancelled", "over")
  \/ orders[o].kot = "ready" /\ Becomes(o, "ended", "over")

OrderingNext ==
  \/ \E i \in Item : TapItem(i)
  \/ \E i \in Item, n \in 1..MaxQuantity : AddCustomised(i, n) \/ GuestCustomised(i, n)
  \/ \E s \in Slot, q \in 0..MaxUnits : StepLine(s, q)
  \/ \E s \in Slot : RemoveLine(s)
  \/ \E c \in Context : SetContext(c)
  \/ \E l \in Place : SelectPlace(l)
  \/ OpenSheet \/ CloseSheet \/ LeaveCounter \/ ReturnToCounter \/ ReloadCounter
  \/ \E p \in {"fixed", "sheet"} : SubmitOrder(p)
  \/ \E r \in flight : Accept(r) \/ Refused(r) \/ LoseAnswer(r) \/ Placed(r)
  \/ \E r \in flight : GuestPlaced(r)
  \/ \E l \in Place, c \in BOOLEAN : OpenPage(l, c)
  \/ ReloadPhone \/ ScanAnswer \/ Rerender \/ OrderMore \/ Poll \/ PollFails
  \/ Expire
  \/ \E o \in DOMAIN orders : StaffCancel(o) \/ TicketMoves(o)

(* The scan is answered in the end, a poll is in spite of those that fail, *)
(* and a page renders what changed; nothing is assumed of users, staff and *)
(* order requests.                                                         *)
Fairness == WF_orderingVars(Poll) /\ WF_orderingVars(ScanAnswer) /\ WF_orderingVars(Rerender)

OrderingSpec == OrderingInit /\ [][OrderingNext]_orderingVars /\ Fairness

-----------------------------------------------------------------------------
(* Types. *)
OrderingTypeOK ==
  /\ device \in {"counter", "phone"}
  /\ \A s \in Slot : cart[s] \in {NoLine} \cup [item : Item, n : 1..MaxUnits]
  /\ ctx \in Context /\ place \in Place \cup {None} /\ sheet \in BOOLEAN
  /\ page \in {"menu", "status", "away"} /\ at \in Place \cup {None}
  /\ code \in BOOLEAN /\ link \in {"loading", "ready", "error"}
  /\ store \in Place \cup {None} /\ watched \in 0..Len(orders)
  /\ view \in {"none", "error", "open", "ended", "cancelled"}
  /\ \A r \in flight : /\ r.owner \in {"mounted", "unmounted", "gone"}
                       /\ r.state \in {"sent", "accepted"}
                       /\ r.order \in 0..Len(orders)
  /\ \A i \in Item : owed[i] \in -MaxSend * MaxUnits..MaxUnits

(* What the user put in the cart is in the cart or ordered, as long as the *)
(* cart was left alone while a request was unsettled: clearing the cart    *)
(* after an order loses nothing but what was added meanwhile.              *)
NothingVanishes ==
  slip = "touched" \/ \A i \in Item : Units(cart, i) >= owed[i]

(* Nothing is ordered twice unless the cart was sent again while a request *)
(* of another panel, of an unmounted one or of one that lost its answer    *)
(* was unsettled: within a panel the pending button is enough.             *)
NothingTwice ==
  slip \in {"resent", "touched"} \/ \A i \in Item : owed[i] >= 0

(* An order names the kind of place its source needs, and the server does  *)
(* not check it: a dine-in order is at a table, room service in a room,    *)
(* pickup and delivery nowhere, a guest's order where the guest's page is. *)
SourceMatchesPlace ==
  \A r \in flight :
    CASE r.source = "DINE_IN" -> r.loc \in Table
      [] r.source = "ROOM_SERVICE" -> r.loc \in Room
      [] r.source = "QR" -> r.valid => r.loc = r.from
      [] OTHER -> r.loc = None

(* A guest who stays on the status page sees how the order ended, in spite *)
(* of polls that fail, or is told that the link no longer works.  One is   *)
(* left alone with it: who was shown a cancellation that the kitchen, with *)
(* the ticket still before it, went on from (TerminalIsFinal below).       *)
GuestSeesTheEnd ==
  \A o \in 1..MaxSend :
    (page = "status" /\ watched = o /\ orders[o].status # "open")
      ~> \/ page # "status" \/ watched # o \/ link = "error"
         \/ orders[o].status = "open" \/ view = orders[o].status
         \/ view = "cancelled" /\ orders[o].status = "ended"

(* What TERMINAL_STATUSES is commented with: an order that reached one of  *)
(* them stays there.  No run checks it, because it does not hold: a ticket *)
(* outlives the cancellation of its order, and its next step sets the      *)
(* order's status again, when the phone no longer asks.                    *)
TerminalIsFinal ==
  [][\A o \in DOMAIN orders :
       orders[o].status \in TerminalStatuses => orders'[o].status = orders[o].status]_orderingVars

(* All is well formed, and every order is for a place of its kind.         *)
PlacesInv == OrderingTypeOK /\ SourceMatchesPlace

(* What is ordered is what was tapped, neither less nor more.              *)
OrderedAsTapped == NothingVanishes /\ NothingTwice
=============================================================================
