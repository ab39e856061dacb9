---------------------------- MODULE PaymentLedger ----------------------------
(***************************************************************************)
(* What taking money promises, without saying how: a ledger in which a     *)
(* payment is entered once, on one bill, and some of it may be handed back *)
(* later, never more than it was of; the bill's own figures change by the  *)
(* same amounts.  A bill may be voided, for good, and still take what a    *)
(* guest pays afterwards.  Billing, one step a request, implements it;     *)
(* Takings, where the requests run statement by statement, keeps to it     *)
(* until two of them work on the same rows at a time.                      *)
(***************************************************************************)
EXTENDS Integers

CONSTANTS
  Payment,
  Bill,
  NoEntry   \* a payment that brought in nothing (yet)

VARIABLES
  entry,    \* entry[p]: the bill and amount of payment p, and what was handed back
  book      \* book[b]: what bill b shows as paid and as refunded, and whether it is void

vars == <<entry, book>>

Init ==
  /\ entry = [p \in Payment |-> NoEntry]
  /\ book = [b \in Bill |-> [paid |-> 0, refunded |-> 0, void |-> FALSE]]

Take(p, b, amount) ==
  /\ entry[p] = NoEntry
  /\ amount \in Nat
  /\ entry' = [entry EXCEPT ![p] = [bill |-> b, amount |-> amount, back |-> 0]]
  /\ book' = [book EXCEPT ![b].paid = @ + amount]

GiveBack(p, amount) ==
  /\ entry[p] # NoEntry
  /\ amount \in Nat
  /\ entry[p].back + amount <= entry[p].amount
  /\ entry' = [entry EXCEPT ![p].back = @ + amount]
  /\ book' = [book EXCEPT ![entry[p].bill].refunded = @ + amount]

Void(b) ==
  /\ ~book[b].void
  /\ book' = [book EXCEPT ![b].void = TRUE]
  /\ UNCHANGED entry

\* Any amount may be taken or handed back: it is the one that the step shows.
Next ==
  \/ \E p \in Payment, b \in Bill : Take(p, b, entry'[p].amount)
  \/ \E p \in Payment : GiveBack(p, entry'[p].back - entry[p].back)
  \/ \E b \in Bill : Void(b)

Spec == Init /\ [][Next]_vars
=============================================================================
