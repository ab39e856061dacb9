------------------------------ MODULE RecordDesk ------------------------------
(***************************************************************************)
(* The pages where an owner keeps records: the menu, staff, tables, rooms, *)
(* charges, customers, loyalty rules, integrations, settings, the shift,   *)
(* and the platform's businesses (frontend/src/features).  A page shows a  *)
(* list that it fetched, and a form that outlives its dialog; what is      *)
(* saved is whatever the form holds when the button is pressed.            *)
(*                                                                         *)
(* A behaviour follows one page, chosen by RecordsInit; others change the  *)
(* same records.  What a record or a form says is abstracted to the record *)
(* that the text is about, to one bit that every edit flips, and to        *)
(* whether a variant or option group in it was typed for another record.   *)
(***************************************************************************)
EXTENDS Integers, SequencesExt

CONSTANTS Row, Business,  \* Business: on the settings page, the business's own record
          New,       \* what a form is about that creates a record; no record
          MaxOther,  \* bound: changes of other users
          MaxReq     \* bound, of each page: requests under way

DialogPages == {"categories", "items", "staff", "tables", "rooms", "bands"}
CreatePages == {"customers", "picker", "loyalty", "businesses"}
FixedPages == {"integrations", "settings", "rules", "modules", "translations"}
Page == DialogPages \cup CreatePages \cup FixedPages \cup {"prices", "import", "website", "shift"}

ASSUME RecordsBounds == /\ Business \in Row /\ New \notin Row
                 /\ MaxOther \in Nat \ {0} /\ MaxReq \in [Page -> Nat \ {0}]

Text == [of : Row \cup {New}, v : {0, 1}, astray : BOOLEAN]
Blank == [of |-> New, v |-> 0, astray |-> FALSE]
Nothing == [r \in {} |-> Blank]

VARIABLES
  page,
  rows,     \* server: text of the records there are
  used,     \* server: ids that were given
  others,   \* bound: changes of other users so far
  list,     \* page: its copy of rows
  due,      \* page: keys of queries being asked (again)
  blind,    \* ghost: keys of queries that nothing told the page to ask again
  open,     \* page: its dialog is open, or its panel has a form
  on,       \* page: the record clicked last, or New
  at,       \* page: the record that the form was filled for
  form,     \* page: the form's text
  drafts,   \* page: text per record, of forms that are about several
  part,     \* items: what the next variant or group, if any, was typed for
  reqs      \* page: requests under way

server == <<rows, used, others>>
copies == <<list, due, blind>>
forms == <<open, on, at, form, drafts, part>>
recordsVars == <<page, server, copies, forms, reqs>>

(* The key under which the page's list, or each record of it, is cached. *)
KeyOf(r) ==
  CASE page = "categories" -> <<"categories">>
    [] page = "items" -> <<"menu-items">>
    [] page = "staff" -> <<"staff">>
    [] page = "tables" -> <<"tables">>
    [] page = "rooms" -> <<"rooms">>
    [] page = "bands" -> <<"charge-bands">>
    [] page \in {"customers", "picker"} -> <<"customers">>
    [] page = "loyalty" -> <<"loyalty", "rules">>
    [] page = "prices" -> <<"pricing-rules", "item">>
    [] page = "integrations" -> <<"integrations">>
    [] page = "settings" -> IF r = Business THEN <<"business", "me">> ELSE <<"business-settings">>
    [] page = "rules" -> <<"toggles">>
    [] page = "modules" -> <<"platform", "features", "id">>
    [] page = "website" -> <<"platform", "website", "id">>
    [] page = "translations" -> <<"menu-item-translations", "item">>
    [] page = "businesses" -> <<"platform", "businesses">>
    [] page = "shift" -> <<"shift-current">>
    [] page = "import" -> <<>>

Keys == IF page = "import" THEN {} ELSE {KeyOf(r) : r \in Row}

RecordsInit ==
  /\ page \in Page
  /\ \E S \in SUBSET Row :
       /\ page \in FixedPages => S = Row
       /\ page \in {"website", "shift"} => Cardinality(S) <= 1
       /\ page = "website" => S # {}
       /\ used = S /\ rows = [r \in S |-> [Blank EXCEPT !.of = r]]
       /\ on \in IF page = "website" THEN S ELSE IF page = "translations" THEN Row ELSE {New}
  /\ others = 0 /\ list = Nothing /\ due = Keys /\ blind = {}
  /\ open = (page \in {"prices", "translations", "shift"})
  /\ at = New /\ form = Blank /\ drafts = Nothing /\ part = {} /\ reqs = {}

-----------------------------------------------------------------------------
(* The server, and its other users *)

Put(f, r, x) == [y \in DOMAIN f \cup {r} |-> IF y = r THEN x ELSE f[y]]
Without(f, r) == [x \in DOMAIN f \ {r} |-> f[x]]

(* One shift is open at a time. *)
Created(t) ==
  /\ page = "shift" => rows = Nothing
  /\ \E r \in Row \ used :
       /\ rows' = Put(rows, r, [t EXCEPT !.of = IF @ = New THEN r ELSE @])
       /\ used' = used \cup {r}

(* A form that is saved leaves the variants and groups; those that are     *)
(* added come one by one.                                                  *)
Apply(q) ==
  \/ q.op = "create" /\ Created(q.text)
  \/ /\ q.op = "update" /\ q.row \in DOMAIN rows
     /\ rows' = [rows EXCEPT ![q.row] = [q.text EXCEPT !.astray = rows[q.row].astray]]
     /\ UNCHANGED used
  \/ /\ q.op = "part" /\ q.row \in DOMAIN rows
     /\ rows' = [rows EXCEPT ![q.row].v = 1 - @, ![q.row].astray = @ \/ q.text.astray]
     /\ UNCHANGED used
  \/ /\ q.op = "delete" /\ q.row \in DOMAIN rows
     /\ rows' = Without(rows, q.row) /\ UNCHANGED used
  \/ q.op \in {"access", "extract"} /\ UNCHANGED <<rows, used>>

Deletable == {"categories", "items", "tables", "rooms", "bands", "prices", "shift"}

(* Nothing tells the page. *)
OtherActs ==
  /\ page # "import" /\ others < MaxOther /\ others' = others + 1
  /\ \/ page \notin FixedPages \cup {"website"} /\ Created(Blank)
     \/ \E r \in DOMAIN rows :
          /\ UNCHANGED used
          /\ \/ page # "shift" /\ rows' = [rows EXCEPT ![r].v = 1 - @]
             \/ page \in Deletable /\ rows' = Without(rows, r)
  /\ LET same == {r \in DOMAIN rows \cap DOMAIN rows' : rows'[r] = rows[r]}
     IN blind' = blind \cup ({KeyOf(r) : r \in Row \ same} \ due)
  /\ UNCHANGED <<page, list, due, forms, reqs>>

-----------------------------------------------------------------------------
(* What the page shows, and what its form holds *)

(* The menu's dialogs are about the record as the list has it now, and so  *)
(* about none when it is gone; the others keep the record that was clicked.*)
Shown(l) == IF page \in {"items", "categories"} /\ on \notin DOMAIN l THEN New ELSE on

(* Mutant: nothing but opening fills a form. *)
FillsOnOpening(t, opening) == page \in {"items", "bands"} /\ opening

(* The dialogs stay mounted when they are closed: each fills its form when *)
(* it is about another record than last time; the item's also whenever it  *)
(* opens; that of a charge band is mounted anew.                           *)
Resets(t, opening) ==
  CASE page = "items" -> t # at \/ opening
    [] page = "bands" -> opening
    [] OTHER -> t # at

Filled(t, l) == IF t = New THEN Blank ELSE l[t]

Rendered(t, l, opening) ==
  /\ at' = IF Resets(t, opening) /\ page # "bands" THEN t ELSE at
  /\ form' = IF Resets(t, opening) THEN Filled(t, l) ELSE form

(* Mutant: the settings are copied into the form whenever they arrive. *)
HydratesAgain(l) == page = "settings" /\ DOMAIN l = Row

(* The settings are copied into the form once, when both have arrived. *)
Hydrates(l) == page = "settings" /\ ~open /\ DOMAIN l = Row

(* The website's panel copies its configuration whenever that has changed. *)
Follows(l) == page = "website" /\ l # list

Refreshed(k) ==
  LET S == {r \in Row : r \in IF KeyOf(r) = k THEN DOMAIN rows ELSE DOMAIN list}
  IN [r \in S |-> IF KeyOf(r) = k THEN rows[r] ELSE list[r]]

(* When invalidated, when the network is back, or at a poll. *)
Fetch(k) ==
  /\ k \in due \cup blind
  /\ list' = Refreshed(k) /\ due' = due \ {k} /\ blind' = blind \ {k}
  /\ \/ Hydrates(list') /\ open' = TRUE /\ drafts' = list' /\ UNCHANGED <<at, form>>
     \/ Follows(list') /\ open' = TRUE /\ form' = list'[on] /\ UNCHANGED <<at, drafts>>
     \/ /\ ~Hydrates(list') /\ ~Follows(list') /\ UNCHANGED <<open, drafts>>
        /\ IF open /\ page \in DialogPages THEN Rendered(Shown(list'), list', FALSE)
           ELSE UNCHANGED <<at, form>>
  /\ UNCHANGED <<page, server, on, part, reqs>>

FetchFails(k) ==
  /\ k \in due /\ due' = due \ {k} /\ blind' = blind \cup {k}
  /\ UNCHANGED <<page, server, list, forms, reqs>>

OpenDialog(t) ==
  /\ ~open /\ t \in DOMAIN list \cup {New} /\ open' = TRUE /\ on' = t
  /\ Rendered(t, list, TRUE)
  /\ UNCHANGED <<page, server, copies, drafts, part, reqs>>

OpenCategory(t) == page = "categories" /\ OpenDialog(t)
OpenItem(t) == page = "items" /\ OpenDialog(t)
OpenStaff(t) == page = "staff" /\ OpenDialog(t)
OpenTable(t) == page = "tables" /\ OpenDialog(t)
OpenRoom(t) == page = "rooms" /\ OpenDialog(t)
OpenBand(t) == page = "bands" /\ OpenDialog(t)

(* These have one form, which keeps its text while the dialog is closed. *)
OpenForm ==
  /\ page \in CreatePages /\ ~open /\ open' = TRUE
  /\ UNCHANGED <<page, server, copies, on, at, form, drafts, part, reqs>>

OpenConnect(r) ==
  /\ page = "integrations" /\ ~open /\ r \in DOMAIN list /\ list[r].v = 0
  /\ open' = TRUE /\ on' = r
  /\ UNCHANGED <<page, server, copies, at, form, drafts, part, reqs>>

(* The dialog can be closed while its request is under way.  That of a     *)
(* band is unmounted, with its form and what it knows of the request; that *)
(* of a new business is emptied.                                           *)
Close ==
  /\ page \in DialogPages \cup CreatePages \cup {"integrations"} /\ open /\ open' = FALSE
  /\ form' = IF page \in {"businesses", "bands"} THEN Blank ELSE form
  /\ reqs' = {[q EXCEPT !.here = @ /\ page # "bands"] : q \in reqs}
  /\ UNCHANGED <<page, server, copies, on, at, drafts, part>>

(* Credentials typed for another provider stay among the values. *)
Type ==
  /\ open /\ page \notin {"settings", "translations"}
  /\ form' = IF page = "integrations" /\ form = Blank THEN [Blank EXCEPT !.of = on, !.v = 1]
             ELSE [form EXCEPT !.v = 1 - @]
  /\ UNCHANGED <<page, server, copies, open, on, at, drafts, part, reqs>>

Drafted(r) == IF r \in DOMAIN drafts THEN drafts[r] ELSE list[r]

TypeDraft(r) ==
  /\ \/ page = "settings" /\ open
     \/ page = "translations" /\ on = r /\ r \in DOMAIN list
  /\ drafts' = Put(drafts, r, [Drafted(r) EXCEPT !.v = 1 - @])
  /\ UNCHANGED <<page, server, copies, open, on, at, form, part, reqs>>

ChooseLanguage(r) ==
  /\ page = "translations" /\ on # r /\ on' = r
  /\ UNCHANGED <<page, server, copies, open, at, form, drafts, part, reqs>>

(* The inputs for a new variant or group are never reset. *)
TypePart ==
  /\ page = "items" /\ open /\ part = {} /\ part' = {Shown(list)}
  /\ UNCHANGED <<page, server, copies, open, on, at, form, drafts, reqs>>

-----------------------------------------------------------------------------
(* What it sends *)

Send(Q) ==
  /\ Cardinality(reqs \cup Q) <= MaxReq[page] /\ reqs' = reqs \cup Q
  /\ UNCHANGED <<page, server, copies, open, at, form, drafts, part>>

Request(op, r, t, sent) == [op |-> op, row |-> r, text |-> t, sent |-> sent, here |-> TRUE]

IsPending(ops) == \E q \in reqs : q.sent = "form" /\ q.here /\ q.op \in ops

(* The form of a new record has to be filled in. *)
Submit(t) ==
  /\ open /\ ~IsPending({"create", "update"}) /\ (t = New => form.v = 1)
  /\ Send({Request(IF t = New THEN "create" ELSE "update", t, form, "form")})
  /\ UNCHANGED on

SaveCategory == page = "categories" /\ Submit(Shown(list))
SaveItem == page = "items" /\ Submit(Shown(list))
SaveStaff == page = "staff" /\ Submit(on)
SaveTable == page = "tables" /\ Submit(on)
SaveRoom == page = "rooms" /\ Submit(on)
SaveBand == page = "bands" /\ Submit(on)

AddCustomer == page = "customers" /\ Submit(New)
AddPicked == page = "picker" /\ Submit(New)
AddRule == page = "loyalty" /\ Submit(New)
AddPrice == page = "prices" /\ Submit(New)
Provision == page = "businesses" /\ Submit(New)

Connect ==
  /\ page = "integrations" /\ open /\ form.v = 1 /\ ~IsPending({"update"})
  /\ Send({Request("update", on, form, "form")}) /\ UNCHANGED on

(* One button, two requests: either can fail. *)
SaveSettings ==
  /\ page = "settings" /\ open /\ ~IsPending({"update"})
  /\ Send({Request("update", r, drafts[r], "form") : r \in Row}) /\ UNCHANGED on

SaveWebsite ==
  /\ page = "website" /\ open /\ ~IsPending({"update"})
  /\ Send({Request("update", on, form, "form")}) /\ UNCHANGED on

SaveTranslation ==
  /\ page = "translations" /\ on \in DOMAIN list /\ ~IsPending({"update"})
  /\ Send({Request("update", on, Drafted(on), "form")}) /\ UNCHANGED on

(* The photos of a menu are read into a draft, which is then published. *)
Extract ==
  /\ page = "import" /\ ~open /\ ~IsPending({"extract"})
  /\ Send({Request("extract", New, Blank, "form")}) /\ UNCHANGED on

Publish == page = "import" /\ Submit(New)

StartOver ==
  /\ page = "import" /\ open /\ open' = FALSE /\ form' = Blank
  /\ UNCHANGED <<page, server, copies, on, at, drafts, part, reqs>>

DeleteItem ==
  /\ page = "items" /\ open /\ Shown(list) # New /\ ~IsPending({"delete"})
  /\ Send({Request("delete", Shown(list), Blank, "form")}) /\ UNCHANGED on

(* Variants and groups of an item that exists are saved one by one. *)
SendPart(r, astray, sent) ==
  /\ page = "items" /\ open /\ Shown(list) = r /\ r # New
  /\ Send({Request("part", r, [Blank EXCEPT !.astray = astray], sent)}) /\ UNCHANGED on

AddPartLive(r) == part # {} /\ ~IsPending({"part"}) /\ SendPart(r, part # {r}, "form")
DeletePart(r) == SendPart(r, FALSE, "list")

(* Those of a new item wait in its form. *)
AddPartDraft ==
  /\ page = "items" /\ open /\ Shown(list) = New /\ part # {} /\ part' = {}
  /\ form' = [form EXCEPT !.astray = @ \/ part # {New}]
  /\ UNCHANGED <<page, server, copies, open, on, at, drafts, reqs>>

(* Buttons and switches of the list; a switch asks for the other value of  *)
(* the one it shows.                                                       *)
Delete(r) ==
  /\ ~open /\ r \in DOMAIN list /\ Send({Request("delete", r, Blank, "list")}) /\ UNCHANGED on

DeleteCategory(r) == page = "categories" /\ Delete(r)
DeleteTable(r) == page = "tables" /\ Delete(r)
DeleteRoom(r) == page = "rooms" /\ Delete(r)
DeleteBand(r) == page = "bands" /\ Delete(r)

DeletePrice(r) ==
  /\ page = "prices" /\ r \in DOMAIN list /\ Send({Request("delete", r, Blank, "list")})
  /\ UNCHANGED on

ResetAccess(r) ==
  /\ page = "staff" /\ ~open /\ r \in DOMAIN list
  /\ Send({Request("access", r, Blank, "list")}) /\ UNCHANGED on

Switch(r, v) ==
  r \in DOMAIN list /\ Send({Request("update", r, [Blank EXCEPT !.of = r, !.v = v], "list")})

Disconnect(r) ==
  page = "integrations" /\ ~open /\ r \in DOMAIN list /\ list[r].v = 1 /\ Switch(r, 0) /\ UNCHANGED on

SwitchLoyaltyRule(r) == page = "loyalty" /\ ~open /\ Switch(r, 1 - list[r].v) /\ UNCHANGED on
SwitchPrice(r) == page = "prices" /\ Switch(r, 1 - list[r].v) /\ UNCHANGED on
SwitchToggle(r) == page = "rules" /\ Switch(r, 1 - list[r].v) /\ UNCHANGED on
ResetToggle(r) == page = "rules" /\ Switch(r, 0) /\ UNCHANGED on
SwitchBusiness(r) ==
  page = "businesses" /\ ~open /\ ~(\E q \in reqs : q.op = "update") /\ Switch(r, 1 - list[r].v)
  /\ UNCHANGED on

(* on: the module whose request was sent last. *)
SwitchModule(r) == page = "modules" /\ on # r /\ Switch(r, 1 - list[r].v) /\ on' = r

PickCustomer(r) ==
  /\ page = "picker" /\ open /\ r \in DOMAIN list /\ on' = r /\ open' = FALSE
  /\ UNCHANGED <<page, server, copies, at, form, drafts, part, reqs>>

(* The drawer: what was counted is about the shift that is shown; on is    *)
(* the shift whose summary stays until it is dismissed.                    *)
OpenShift ==
  /\ page = "shift" /\ due = {} /\ list = Nothing /\ on = New /\ ~IsPending({"create"})
  /\ Send({Request("create", New, Blank, "form")}) /\ UNCHANGED on

CloseShift(r) ==
  /\ page = "shift" /\ r \in DOMAIN list /\ form.v = 1 /\ ~IsPending({"delete"})
  /\ Send({Request("delete", r, form, "form")}) /\ UNCHANGED on

DismissSummary ==
  /\ page = "shift" /\ on # New /\ on' = New
  /\ UNCHANGED <<page, server, copies, open, at, form, drafts, part, reqs>>

-----------------------------------------------------------------------------
(* What comes back *)

MenuKeys == {<<"categories">>, <<"menu-items">>}
StaffKeys == {<<"staff">>}
TableKeys == {<<"tables">>}
RoomKeys == {<<"rooms">>}
ChargeKeys == {<<"charge-bands">>}
ToggleKeys == {<<"toggles">>}
CustomerKeys == {<<"customers">>}
LoyaltyKeys == {<<"loyalty", "rules">>}
PricingKeys == {<<"pricing-rules">>}
IntegrationKeys == {<<"integrations">>}
TranslationKeys == {<<"menu-item-translations", "item">>}
ShiftKeys == {<<"shift-current">>, <<"shifts">>, <<"shift-report">>}
PlatformKeys ==
  IF page = "modules" THEN {<<"platform", "features", "id">>}
  ELSE {<<"platform", "businesses">>, <<"platform", "businesses", "id">>}

(* onSuccess of each mutation; the import changes nothing that it shows. *)
Touched(q) ==
  CASE page \in {"categories", "items"} -> MenuKeys
    [] page = "staff" -> StaffKeys
    [] page = "tables" -> TableKeys
    [] page = "rooms" -> RoomKeys
    [] page = "bands" -> ChargeKeys
    [] page = "rules" -> ToggleKeys
    [] page = "settings" -> IF q.row = Business THEN {<<"business">>} ELSE {<<"business-settings">>}
    [] page \in {"customers", "picker"} -> CustomerKeys
    [] page = "loyalty" -> LoyaltyKeys
    [] page = "prices" -> PricingKeys
    [] page = "integrations" -> IntegrationKeys
    [] page = "translations" -> TranslationKeys
    [] page = "shift" -> ShiftKeys
    [] page \in {"modules", "businesses"} -> PlatformKeys
    [] page \in {"website", "import"} -> {}

(* Mutant: a query is asked again only for its very key. *)
SameKey(q) == {k \in Keys : k \in Touched(q)}

(* A key stands for all that begin with it. *)
Invalidated(q) == {k \in Keys : \E p \in Touched(q) : IsPrefix(p, k)}

Closes(q) ==
  /\ q.sent = "form" /\ q.op \in {"create", "update", "delete"}
  /\ page \in DialogPages \cup CreatePages \cup {"integrations", "import"}

Clears(q) ==
  /\ q.sent = "form" /\ q.op # "extract"
  /\ \/ page \in CreatePages \cup {"integrations", "prices", "import", "bands"}
     \/ page = "shift" /\ q.op = "delete"

(* An answer does to the page what its request was to do, whatever is in   *)
(* the dialog by now; that of the website is put into the cache.           *)
Accept(q) ==
  /\ q \in reqs /\ Apply(q) /\ reqs' = reqs \ {q}
  /\ open' = ((open /\ ~Closes(q)) \/ q.op = "extract")
  /\ form' = CASE Clears(q) -> Blank
               [] q.op = "extract" -> [Blank EXCEPT !.v = 1]
               [] page = "website" /\ rows' # list -> q.text
               [] OTHER -> form
  /\ on' = CASE page = "picker" -> CHOOSE r \in DOMAIN rows' : r \notin DOMAIN rows
             [] page = "shift" /\ q.op = "delete" -> q.row
             [] page = "modules" -> New
             [] OTHER -> on
  /\ drafts' = IF page = "translations" THEN Without(drafts, q.row) ELSE drafts
  /\ part' = IF q.op = "part" /\ q.sent = "form" THEN {} ELSE part
  /\ list' = IF page = "website" THEN rows' ELSE list
  /\ due' = due \cup Invalidated(q)
  /\ blind' = IF page = "website" THEN {} ELSE blind \ Invalidated(q)
  /\ UNCHANGED <<page, others, at>>

(* An error is shown, and the form stays. *)
Refused(q) ==
  /\ q \in reqs /\ reqs' = reqs \ {q} /\ on' = IF page = "modules" THEN New ELSE on
  /\ UNCHANGED <<page, server, copies, open, at, form, drafts, part>>

LoseAnswer(q) ==
  /\ q \in reqs /\ Apply(q) /\ reqs' = reqs \ {q} /\ blind' = Keys \ due
  /\ on' = IF page = "modules" THEN New ELSE on
  /\ UNCHANGED <<page, others, list, due, open, at, form, drafts, part>>

RecordsNext ==
  \/ OtherActs
  \/ \E k \in Keys : Fetch(k) \/ FetchFails(k)
  \/ \E t \in Row \cup {New} :
       OpenCategory(t) \/ OpenItem(t) \/ OpenStaff(t) \/ OpenTable(t) \/ OpenRoom(t) \/ OpenBand(t)
  \/ OpenForm \/ Close \/ Type \/ TypePart \/ AddPartDraft \/ DeleteItem
  \/ \E r \in Row : OpenConnect(r) \/ TypeDraft(r) \/ ChooseLanguage(r) \/ AddPartLive(r) \/ DeletePart(r)
  \/ SaveCategory \/ SaveItem \/ SaveStaff \/ SaveTable \/ SaveRoom \/ SaveBand
  \/ AddCustomer \/ AddPicked \/ AddRule \/ AddPrice \/ Provision \/ Connect
  \/ SaveSettings \/ SaveWebsite \/ SaveTranslation \/ Extract \/ Publish \/ StartOver
  \/ \E r \in Row :
       \/ DeleteCategory(r) \/ DeleteTable(r) \/ DeleteRoom(r) \/ DeleteBand(r) \/ DeletePrice(r)
       \/ ResetAccess(r) \/ Disconnect(r) \/ SwitchLoyaltyRule(r) \/ SwitchPrice(r)
       \/ SwitchToggle(r) \/ ResetToggle(r) \/ SwitchBusiness(r) \/ SwitchModule(r)
       \/ PickCustomer(r) \/ CloseShift(r)
  \/ OpenShift \/ DismissSummary
  \/ \E q \in reqs : Accept(q) \/ Refused(q) \/ LoseAnswer(q)

RecordsSpec == RecordsInit /\ [][RecordsNext]_recordsVars

-----------------------------------------------------------------------------
(* Types. *)
RecordsTypeOK ==
  /\ DOMAIN rows \subseteq used /\ \A r \in DOMAIN rows : rows[r] \in Text
  /\ \A r \in DOMAIN list : list[r] \in Text
  /\ {on, at} \subseteq Row \cup {New} /\ form \in Text /\ part \subseteq Row \cup {New}
  /\ due \cup blind \subseteq Keys
  /\ \A q \in reqs : q.op \in {"update", "delete", "part"} => q.row \in Row

(* A form that was filled for one record, and is still there when another  *)
(* is clicked or the record has gone from under it, is never saved into    *)
(* the other.  Of the credentials of an integration this is not so, and of *)
(* the variants and groups beside an item's form neither (PartsWhereMeant).*)
SavedWhereMeant ==
  page # "integrations" => \A r \in DOMAIN rows : rows[r].of = r

(* The same of the variants and groups.  No run checks it, because it does *)
(* not hold: a name typed for one item and not added is still in the input *)
(* when another item is opened, and "Add" sends it there.                  *)
PartsWhereMeant == \A r \in DOMAIN rows : ~rows[r].astray

(* The dialogs of an item, of a charge band and of a new business open     *)
(* with what the list has now, or blank: never with what was typed and     *)
(* given up before (MenuItemDialog: "reopening it for a brand-new item").  *)
OpensAfresh ==
  [][~open /\ open' /\ page \in {"items", "bands", "businesses"}
     => form' = IF on' = New THEN Blank ELSE list[on']]_recordsVars

(* A list that arrives while the user types takes nothing from the form,   *)
(* nor a summary from the screen, unless the record has gone; variants are *)
(* added from within the item's dialog.  The website's panel does follow.  *)
TypingSurvivesFetch ==
  [][/\ open /\ list' # list /\ reqs' = reqs /\ page # "website"
     /\ on = New \/ on \in DOMAIN list'
     => UNCHANGED <<open, on, form, drafts>>]_recordsVars

(* A list that is not being asked for again is as the server has it,       *)
(* unless another user or a lost answer changed it: every mutation         *)
(* invalidates a key that the list's own begins with.                      *)
QuietListIsRight ==
  \A r \in Row :
    KeyOf(r) \in Keys \ (due \cup blind)
    => /\ r \in DOMAIN list <=> r \in DOMAIN rows
       /\ r \in DOMAIN rows => list[r] = rows[r]

(* The page is well formed and, at rest, right.                            *)
ListInv == RecordsTypeOK /\ QuietListIsRight

(* Its form changes by the user's hand alone, from a fresh start.          *)
FormFollowsUser == OpensAfresh /\ TypingSurvivesFetch
=============================================================================
