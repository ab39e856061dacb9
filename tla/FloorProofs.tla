----------------------------- MODULE FloorProofs -----------------------------
(***************************************************************************)
(* What Floor guarantees for any number of tables, sessions, orders and    *)
(* bills: a bill stays with its session, no order is on two bills to pay,  *)
(* and a ticket names the table of its order.  The invariant FloorInv is   *)
(* inductive; each request preserves it by a lemma of its own.             *)
(* The tables and rooms of the floor, like the rest of the house, are kept *)
(* on the pages of RecordDesk.  What these guarantee comes first:          *)
(* RecordsInv is inductive, for any records and any number of requests and *)
(* of changes by other users.                                              *)
(***************************************************************************)
EXTENDS Floor, RecordDesk, TLAPS

-----------------------------------------------------------------------------
(* The record-keeping pages: the inductive invariant.                      *)

Ops == {"create", "update", "part", "delete", "access", "extract"}
RequestType == [op : Ops, row : Row \cup {New}, text : Text, sent : {"form", "list"}, here : BOOLEAN]

\* Except for the credentials of an integration, a text that is sent for a record is
\* about it, and one that creates a record is about none.
AboutItsRow(q) ==
  page # "integrations" =>
    /\ q.op = "create" => q.text.of = New
    /\ q.op = "update" => q.text.of = q.row

\* What each page sends.
OpsOf ==
  CASE page = "items" -> {"create", "update", "delete", "part"}
    [] page \in {"categories", "tables", "rooms", "bands"} -> {"create", "update", "delete"}
    [] page = "staff" -> {"create", "update", "access"}
    [] page \in {"customers", "picker"} -> {"create"}
    [] page \in {"loyalty", "businesses"} -> {"create", "update"}
    [] page \in FixedPages \cup {"website"} -> {"update"}
    [] page = "prices" -> {"create", "update", "delete"}
    [] page = "import" -> {"create", "extract"}
    [] page = "shift" -> {"create", "delete"}

GoodRequest(q) ==
  /\ q \in RequestType
  /\ q.op \in OpsOf
  /\ q.op \in {"update", "delete", "part"} => q.row \in Row
  /\ AboutItsRow(q)
  /\ page = "bands" /\ q.sent = "form" => q.op \in {"create", "update"}
  /\ page = "website" => q.row = on

RequestsInv == \A q \in reqs : GoodRequest(q)

\* The server's records.
ServerInv ==
  /\ page \in Page /\ used \subseteq Row /\ DOMAIN rows \subseteq used
  /\ rows \in [DOMAIN rows -> Text]
  /\ SavedWhereMeant
  /\ page = "website" => on \in DOMAIN rows

\* The page's copy of them.
CopyInv ==
  /\ list \in [DOMAIN list -> Text] /\ DOMAIN list \subseteq used
  /\ due \subseteq Keys /\ blind \subseteq Keys
  /\ page # "integrations" => \A r \in DOMAIN list : list[r].of = r
  /\ QuietListIsRight

\* Whom the form is about: the record that it was filled for and, while the dialog is
\* open, the one that is shown; elsewhere a new record, or nothing.
FormIsAbout ==
  /\ page \in DialogPages \ {"bands"} => form.of = at /\ (open => at = Shown(list))
  /\ page \in {"bands", "website"} /\ open => form.of = on
  /\ page \notin DialogPages \cup {"website", "integrations"} => form.of = New
  /\ page = "businesses" => on = New /\ (~open => form = Blank)
  /\ page = "integrations" /\ open => on # New

DraftsAreAbout ==
  /\ page # "integrations" => \A r \in DOMAIN drafts : drafts[r].of = r
  /\ page = "settings" /\ open => DOMAIN drafts = Row

\* A record that has gone from under the dialog never comes back.
GoneForGood ==
  page \in {"items", "categories"} /\ open /\ on # New
    => on \in used /\ (on \in DOMAIN list \/ on \notin DOMAIN rows)

FormsInv ==
  /\ open \in BOOLEAN /\ on \in Row \cup {New} /\ at \in Row \cup {New}
  /\ form \in Text /\ part \subseteq Row \cup {New}
  /\ drafts \in [DOMAIN drafts -> Text] /\ DOMAIN drafts \subseteq Row
  /\ FormIsAbout /\ DraftsAreAbout /\ GoneForGood

RecordsInv == ServerInv /\ CopyInv /\ FormsInv /\ RequestsInv

-----------------------------------------------------------------------------
(* Keys, and the helpers of the server.                                    *)

LEMMA PrefixOfOne == \A a : IsPrefix(<<a>>, <<a>>)
  BY DEF IsPrefix
LEMMA PrefixOfPair == \A a, b : IsPrefix(<<a>>, <<a, b>>) /\ IsPrefix(<<a, b>>, <<a, b>>)
  BY DEF IsPrefix
LEMMA PrefixOfTriple == \A a, b, c : IsPrefix(<<a, b, c>>, <<a, b, c>>)
  BY DEF IsPrefix

LEMMA PageKeeps ==
  ASSUME page' = page
  PROVE  Keys' = Keys /\ \A r : KeyOf(r)' = KeyOf(r)
<1>1. \A r : KeyOf(r)' = KeyOf(r)
  BY DEF KeyOf
<1>. QED
  BY <1>1 DEF Keys

\* Every mutation invalidates a key that the key of the record's list begins with.
LEMMA TouchesTheList ==
  ASSUME page \in Page \ {"website", "import"}, NEW q, NEW r \in Row,
         q.op = "update" => r = q.row, q.op \in OpsOf
  PROVE  q.op \in {"access", "extract"} \/ KeyOf(r) \in Invalidated(q)
<1>0. SUFFICES \E p \in Touched(q) : IsPrefix(p, KeyOf(r))
  BY DEF Keys, Invalidated
<1> USE PrefixOfOne, PrefixOfPair, PrefixOfTriple DEF Touched, KeyOf
<1>1. CASE page \in {"categories", "items"}
  BY <1>1 DEF MenuKeys
<1>2. CASE page \in {"staff", "tables", "rooms", "bands"}
  BY <1>2 DEF StaffKeys, TableKeys, RoomKeys, ChargeKeys
<1>3. CASE page \in {"customers", "picker", "loyalty", "prices", "rules", "integrations"}
  BY <1>3 DEF CustomerKeys, LoyaltyKeys, PricingKeys, ToggleKeys, IntegrationKeys
<1>4. CASE page \in {"translations", "shift", "modules", "businesses"}
  BY <1>4 DEF TranslationKeys, ShiftKeys, PlatformKeys
<1>5. CASE page = "settings"
  <2>1. r = q.row
    BY <1>5 DEF OpsOf, FixedPages
  <2>. QED
    BY <1>5, <2>1
<1>. QED
  BY <1>1, <1>2, <1>3, <1>4, <1>5 DEF Page, DialogPages, CreatePages, FixedPages

LEMMA FlipsText ==
  ASSUME NEW t \in Text
  PROVE  [t EXCEPT !.v = 1 - @] \in Text /\ [t EXCEPT !.v = 1 - @].of = t.of
  BY DEF Text

LEMMA MarksText ==
  ASSUME NEW t \in Text, NEW b \in BOOLEAN
  PROVE  [t EXCEPT !.astray = b] \in Text /\ [t EXCEPT !.astray = b].of = t.of
  BY DEF Text

LEMMA BlankIsText == Blank \in Text /\ Blank.of = New
  BY DEF Blank, Text

LEMMA FilledBlank ==
  ASSUME NEW r \in Row \cup {New}, NEW v \in {0, 1}
  PROVE  [Blank EXCEPT !.of = r, !.v = v] \in Text /\ [Blank EXCEPT !.of = r, !.v = v].of = r
  BY DEF Blank, Text

LEMMA FlagIs ==
  ASSUME NEW t \in Text
  PROVE  t.astray \in BOOLEAN
  BY DEF Text

\* The server's records change so that they stay records, one by one; an id that was
\* given and is gone is not given again.
ServerMoves ==
  /\ used \subseteq used' /\ used' \subseteq Row /\ DOMAIN rows' \subseteq used'
  /\ rows' \in [DOMAIN rows' -> Text]
  /\ SavedWhereMeant'
  /\ \A r \in used \ DOMAIN rows : r \notin DOMAIN rows'
  /\ page = "website" => DOMAIN rows' = DOMAIN rows

Unchanged(r) ==
  (r \in DOMAIN rows' <=> r \in DOMAIN rows) /\ (r \in DOMAIN rows => rows'[r] = rows[r])

LEMMA CreatedMoves ==
  ASSUME ServerInv, page' = page, page # "website", NEW t \in Text, t.of = New, Created(t)
  PROVE  ServerMoves /\ \E r \in Row : r \in DOMAIN rows' /\ r \notin DOMAIN rows
<1>1. PICK r \in Row \ used : /\ rows' = Put(rows, r, [t EXCEPT !.of = IF @ = New THEN r ELSE @])
                             /\ used' = used \cup {r}
  BY DEF Created
<1> DEFINE x == [t EXCEPT !.of = IF @ = New THEN r ELSE @]
<1>2. x \in Text /\ x.of = r
  BY DEF Text
<1>3. rows' = Put(rows, r, x)
  BY <1>1
<1> HIDE DEF x
<1>4. /\ rows' \in [DOMAIN rows \cup {r} -> Text] /\ DOMAIN rows' = DOMAIN rows \cup {r}
      /\ rows'[r] = x /\ \A y \in DOMAIN rows : y # r => rows'[y] = rows[y]
  <2>1. rows \in [DOMAIN rows -> Text]
    BY DEF ServerInv
  <2>. QED
    BY <1>2, <1>3, <2>1 DEF Put
<1>5. SavedWhereMeant'
  BY <1>2, <1>4 DEF ServerInv, SavedWhereMeant
<1>. QED
  BY <1>1, <1>4, <1>5 DEF ServerInv, ServerMoves

LEMMA DeletedMoves ==
  ASSUME ServerInv, page' = page, page # "website", NEW d \in DOMAIN rows,
         rows' = Without(rows, d), used' = used
  PROVE  ServerMoves /\ \A r \in Row : r # d => Unchanged(r)
<1>1. /\ rows' \in [DOMAIN rows \ {d} -> Text] /\ DOMAIN rows' = DOMAIN rows \ {d}
      /\ \A y \in DOMAIN rows \ {d} : rows'[y] = rows[y]
  <2>1. rows \in [DOMAIN rows -> Text]
    BY DEF ServerInv
  <2>. QED
    BY <2>1 DEF Without
<1>2. SavedWhereMeant'
  BY <1>1 DEF ServerInv, SavedWhereMeant
<1>. QED
  BY <1>1, <1>2 DEF ServerInv, ServerMoves, Unchanged

LEMMA UpdatedMoves ==
  ASSUME ServerInv, page' = page, NEW d \in DOMAIN rows, NEW x \in Text,
         page # "integrations" => x.of = d,
         rows' = [rows EXCEPT ![d] = x], used' = used
  PROVE  ServerMoves /\ \A r \in Row : r # d => Unchanged(r)
<1>1. /\ rows' \in [DOMAIN rows -> Text] /\ DOMAIN rows' = DOMAIN rows
      /\ rows'[d] = x /\ \A y \in DOMAIN rows : y # d => rows'[y] = rows[y]
  BY DEF ServerInv
<1>2. SavedWhereMeant'
  BY <1>1 DEF ServerInv, SavedWhereMeant
<1>. QED
  BY <1>1, <1>2 DEF ServerInv, ServerMoves, Unchanged

\* One of the other users.
LEMMA FlippedMoves ==
  ASSUME ServerInv, page' = page, NEW d \in DOMAIN rows,
         rows' = [rows EXCEPT ![d].v = 1 - @], used' = used
  PROVE  ServerMoves /\ \A r \in Row : r # d => Unchanged(r)
<1>1. rows[d] \in Text
  BY DEF ServerInv
<1> DEFINE x == [rows[d] EXCEPT !.v = 1 - @]
<1>2. x \in Text /\ x.of = rows[d].of
  BY <1>1, FlipsText
<1>3. rows' = [rows EXCEPT ![d] = x]
  OBVIOUS
<1>4. page # "integrations" => x.of = d
  BY <1>2 DEF ServerInv, SavedWhereMeant
<1> HIDE DEF x
<1>. QED
  BY <1>2, <1>3, <1>4, UpdatedMoves

LEMMA ApplyMoves ==
  ASSUME ServerInv, page' = page, NEW q, GoodRequest(q), Apply(q)
  PROVE  /\ ServerMoves
         /\ q.op = "create" => \E r \in Row : r \in DOMAIN rows' /\ r \notin DOMAIN rows
         /\ \A r \in Row : Unchanged(r) \/ q.op \in {"create", "part", "delete"} \/ (q.op = "update" /\ r = q.row)
<1>0. /\ q.op \in Ops /\ q.text \in Text
      /\ page = "website" => q.op = "update"
      /\ page = "integrations" => q.op = "update"
      /\ q.op = "create" => q.text.of = New
      /\ q.op = "update" /\ page # "integrations" => q.text.of = q.row
  BY DEF GoodRequest, RequestType, AboutItsRow, OpsOf, FixedPages
<1>1. CASE q.op = "create"
  <2>1. Created(q.text)
    BY <1>1 DEF Apply
  <2>. QED
    BY <1>0, <1>1, <2>1, CreatedMoves
<1>2. CASE q.op = "update"
  <2> DEFINE x == [q.text EXCEPT !.astray = rows[q.row].astray]
  <2>1. q.row \in DOMAIN rows /\ rows' = [rows EXCEPT ![q.row] = x] /\ used' = used
    BY <1>2 DEF Apply
  <2>2. rows[q.row] \in Text
    BY <2>1 DEF ServerInv
  <2>3. x \in Text /\ x.of = q.text.of
    BY <1>0, <2>2, FlagIs, MarksText
  <2> HIDE DEF x
  <2>. QED
    BY <1>0, <1>2, <2>1, <2>3, UpdatedMoves
<1>3. CASE q.op = "part"
  <2> DEFINE b == rows[q.row].astray \/ q.text.astray
             y == [rows[q.row] EXCEPT !.astray = b]
             x == [y EXCEPT !.v = 1 - @]
  <2>1. /\ q.row \in DOMAIN rows /\ used' = used
        /\ rows' = [rows EXCEPT ![q.row].v = 1 - @, ![q.row].astray = @ \/ q.text.astray]
    BY <1>3 DEF Apply
  <2>2. rows[q.row] \in Text
    BY <2>1 DEF ServerInv
  <2>3. y \in Text /\ y.of = rows[q.row].of
    BY <2>2, MarksText
  <2>4. x \in Text /\ x.of = rows[q.row].of
    BY <2>3, FlipsText
  <2>5. rows' = [rows EXCEPT ![q.row] = x]
    <3>1. x = [rows[q.row] EXCEPT !.v = 1 - @, !.astray = @ \/ q.text.astray]
      BY <2>2 DEF Text
    <3>. QED
      BY <2>1, <3>1
  <2>6. page # "integrations" => x.of = q.row
    BY <2>1, <2>4 DEF ServerInv, SavedWhereMeant
  <2> HIDE DEF x
  <2>. QED
    BY <1>3, <2>1, <2>4, <2>5, <2>6, UpdatedMoves
<1>4. CASE q.op = "delete"
  <2>1. q.row \in DOMAIN rows /\ rows' = Without(rows, q.row) /\ used' = used
    BY <1>4 DEF Apply
  <2>. QED
    BY <1>0, <1>4, <2>1, DeletedMoves
<1>5. CASE q.op \in {"access", "extract"}
  <2>1. rows' = rows /\ used' = used
    BY <1>5 DEF Apply
  <2>. QED
    BY <1>5, <2>1 DEF ServerInv, ServerMoves, SavedWhereMeant, Unchanged
<1>. QED
  BY <1>0, <1>1, <1>2, <1>3, <1>4, <1>5 DEF Ops

LEMMA OthersMove ==
  ASSUME ServerInv, OtherActs
  PROVE  /\ ServerMoves /\ page' = page /\ UNCHANGED <<list, due, forms, reqs>>
         /\ blind' = blind \cup ({KeyOf(r) : r \in {x \in Row : ~Unchanged(x) \/ x \notin DOMAIN rows}} \ due)
<1>1. page' = page /\ page # "import" /\ UNCHANGED <<list, due, forms, reqs>>
  BY DEF OtherActs
<1>2. ServerMoves
  <2>1. CASE page \notin FixedPages \cup {"website"} /\ Created(Blank)
    BY <1>1, <2>1, BlankIsText, CreatedMoves
  <2>2. CASE \E r \in DOMAIN rows : used' = used /\ rows' = [rows EXCEPT ![r].v = 1 - @]
    BY <1>1, <2>2, FlippedMoves
  <2>3. CASE \E r \in DOMAIN rows : used' = used /\ page \in Deletable /\ rows' = Without(rows, r)
    BY <1>1, <2>3, DeletedMoves DEF Deletable
  <2>. QED
    BY <2>1, <2>2, <2>3 DEF OtherActs
<1>3. blind' = blind \cup ({KeyOf(r) : r \in Row \ {r \in DOMAIN rows \cap DOMAIN rows' : rows'[r] = rows[r]}} \ due)
  BY DEF OtherActs
<1>4. Row \ {r \in DOMAIN rows \cap DOMAIN rows' : rows'[r] = rows[r]}
        = {x \in Row : ~Unchanged(x) \/ x \notin DOMAIN rows}
  BY DEF Unchanged
<1>. QED
  BY <1>1, <1>2, <1>3, <1>4

-----------------------------------------------------------------------------
(* What keeps each part of the invariant.                                  *)

\* A record that changed is in a list that is being asked for again, or of which
\* nothing told the page.
LEMMA CopyStays ==
  ASSUME CopyInv, ServerMoves, page' = page, list' = list,
         due \cup blind \subseteq due' \cup blind', due' \cup blind' \subseteq Keys,
         \A r \in Row : Unchanged(r) \/ KeyOf(r) \notin Keys \ (due' \cup blind')
  PROVE  CopyInv'
<1>1. Keys' = Keys /\ \A r : KeyOf(r)' = KeyOf(r)
  BY PageKeeps
<1>2. QuietListIsRight'
  BY <1>1 DEF CopyInv, QuietListIsRight, Unchanged
<1>3. DOMAIN list \subseteq used'
  BY DEF CopyInv, ServerMoves
<1>. QED
  BY <1>1, <1>2, <1>3 DEF CopyInv

LEMMA FormsStay ==
  ASSUME ServerInv, FormsInv, ServerMoves, page' = page, list' = list, UNCHANGED forms
  PROVE  FormsInv' /\ ServerInv'
<1>1. UNCHANGED <<open, on, at, form, drafts, part>>
  BY DEF forms
<1>2. FormIsAbout'
  BY <1>1 DEF FormsInv, FormIsAbout, Shown
<1>3. DraftsAreAbout'
  BY <1>1 DEF FormsInv, DraftsAreAbout
<1>4. GoneForGood'
  BY <1>1 DEF FormsInv, GoneForGood, ServerMoves
<1>5. ServerInv'
  BY <1>1 DEF ServerInv, ServerMoves
<1>. QED
  BY <1>1, <1>2, <1>3, <1>4, <1>5 DEF FormsInv

LEMMA RequestsStay ==
  ASSUME RequestsInv, page' = page, page = "website" => on' = on,
         \A q \in reqs' : q \in reqs \/ GoodRequest(q)
  PROVE  RequestsInv'
<1>1. \A q \in reqs' : GoodRequest(q)
  BY DEF RequestsInv
<1>2. OpsOf' = OpsOf
  BY DEF OpsOf
<1>. QED
  BY <1>1, <1>2 DEF RequestsInv, GoodRequest, AboutItsRow

LEMMA ServerIsSame ==
  ASSUME ServerInv, UNCHANGED <<page, rows, used>>
  PROVE  ServerMoves /\ \A r \in Row : Unchanged(r)
  BY DEF ServerInv, ServerMoves, SavedWhereMeant, Unchanged

LEMMA CopyIsSame ==
  ASSUME ServerInv, CopyInv, UNCHANGED <<page, server, copies>>
  PROVE  CopyInv'
<1>1. UNCHANGED <<rows, used, list, due, blind>>
  BY DEF server, copies
<1>2. ServerMoves /\ \A r \in Row : Unchanged(r)
  BY <1>1, ServerIsSame
<1>. QED
  BY <1>1, <1>2, CopyStays DEF CopyInv

\* The other users.
LEMMA OtherActsKeeps ==
  ASSUME RecordsInv, OtherActs
  PROVE  RecordsInv'
<1>1. /\ ServerMoves /\ page' = page /\ list' = list /\ due' = due /\ reqs' = reqs
      /\ UNCHANGED forms
      /\ blind' = blind \cup ({KeyOf(r) : r \in {x \in Row : ~Unchanged(x) \/ x \notin DOMAIN rows}} \ due)
  BY OthersMove DEF RecordsInv
<1>2. page # "import"
  BY DEF OtherActs
<1>3. CopyInv'
  <2>1. \A r \in Row : KeyOf(r) \in Keys
    BY <1>2 DEF Keys
  <2>. QED
    BY <1>1, <2>1, CopyStays DEF RecordsInv, CopyInv
<1>4. FormsInv' /\ ServerInv'
  BY <1>1, FormsStay DEF RecordsInv
<1>5. RequestsInv'
  BY <1>1, RequestsStay DEF RecordsInv, forms
<1>. QED
  BY <1>3, <1>4, <1>5 DEF RecordsInv

-----------------------------------------------------------------------------
(* Requests.                                                               *)

LEMMA RequestIsGood ==
  ASSUME page \in Page, NEW op \in OpsOf, NEW r \in Row \cup {New}, NEW t \in Text,
         NEW sent \in {"form", "list"},
         op \in {"update", "delete", "part"} => r \in Row,
         page # "integrations" => (op = "create" => t.of = New) /\ (op = "update" => t.of = r),
         page = "bands" /\ sent = "form" => op \in {"create", "update"},
         page = "website" => r = on
  PROVE  GoodRequest(Request(op, r, t, sent))
<1> DEFINE q == Request(op, r, t, sent)
<1>1. op \in Ops
  BY DEF OpsOf, Ops, Page, DialogPages, CreatePages, FixedPages
<1>2. q.op = op /\ q.row = r /\ q.text = t /\ q.sent = sent
  BY DEF Request
<1>3. q \in RequestType
  BY <1>1 DEF Request, RequestType
<1> HIDE DEF q
<1>4. GoodRequest(q)
  BY <1>2, <1>3 DEF GoodRequest, AboutItsRow
<1>. QED
  BY <1>4 DEF q

LEMMA SendKeeps ==
  ASSUME RecordsInv, NEW Q, Send(Q), \A q \in Q : GoodRequest(q),
         on' = on \/ (page = "modules" /\ on' \in Row)
  PROVE  RecordsInv'
<1>1. /\ reqs' = reqs \cup Q /\ page' = page
      /\ UNCHANGED <<server, copies>>
      /\ UNCHANGED <<open, at, form, drafts, part, list, rows, used>>
  BY DEF Send, server, copies
<1>2. CopyInv'
  BY <1>1, CopyIsSame DEF RecordsInv
<1>3. RequestsInv'
  BY <1>1, RequestsStay DEF RecordsInv
<1>4. ServerMoves
  BY <1>1, ServerIsSame DEF RecordsInv
<1>5. CASE on' = on
  BY <1>1, <1>2, <1>3, <1>4, <1>5, FormsStay DEF RecordsInv, forms
<1>6. CASE page = "modules" /\ on' \in Row
  <2>1. page \notin DialogPages \cup {"website", "businesses"}
    BY <1>6 DEF DialogPages
  <2>2. FormIsAbout'
    BY <1>1, <2>1 DEF RecordsInv, FormsInv, FormIsAbout
  <2>3. GoneForGood'
    BY <1>1, <1>6 DEF GoneForGood
  <2>4. DraftsAreAbout'
    BY <1>1 DEF RecordsInv, FormsInv, DraftsAreAbout
  <2>5. FormsInv'
    BY <1>1, <1>6, <2>2, <2>3, <2>4 DEF RecordsInv, FormsInv
  <2>6. ServerInv'
    BY <1>1, <1>4, <1>6 DEF RecordsInv, ServerInv, ServerMoves
  <2>. QED
    BY <1>2, <1>3, <2>5, <2>6 DEF RecordsInv
<1>. QED
  BY <1>5, <1>6

\* What is submitted is about the record that the form was filled for.
LEMMA SubmitKeeps ==
  ASSUME RecordsInv, NEW t \in Row \cup {New}, Submit(t), on' = on, page # "website",
         IF t = New THEN "create" \in OpsOf ELSE "update" \in OpsOf,
         page # "integrations" => form.of = t
  PROVE  RecordsInv'
<1>1. Send({Request(IF t = New THEN "create" ELSE "update", t, form, "form")})
  BY DEF Submit
<1>2. GoodRequest(Request(IF t = New THEN "create" ELSE "update", t, form, "form"))
  <2>1. page \in Page /\ form \in Text
    BY DEF RecordsInv, ServerInv, FormsInv
  <2>2. CASE t = New
    BY <2>1, <2>2, RequestIsGood
  <2>3. CASE t # New
    BY <2>1, <2>3, RequestIsGood
  <2>. QED
    BY <2>2, <2>3
<1>. QED
  BY <1>1, <1>2, SendKeeps

LEMMA SavesKeep ==
  ASSUME RecordsInv,
         SaveCategory \/ SaveItem \/ SaveStaff \/ SaveTable \/ SaveRoom \/ SaveBand
  PROVE  RecordsInv'
<1>1. PICK t \in {Shown(list), on} : Submit(t) /\ on' = on /\ page \in DialogPages
                                   /\ (t = on => page \notin {"categories", "items"} \/ t = Shown(list))
                                   /\ (t = Shown(list) => page # "bands" \/ t = on)
  BY DEF SaveCategory, SaveItem, SaveStaff, SaveTable, SaveRoom, SaveBand, Submit, DialogPages, Shown
<1>2. open /\ t \in Row \cup {New}
  BY <1>1 DEF Submit, RecordsInv, FormsInv, Shown
<1>3. page = "bands" \/ t = Shown(list)
  BY <1>1 DEF Shown
<1>4. form.of = t
  BY <1>1, <1>2, <1>3 DEF RecordsInv, FormsInv, FormIsAbout, Shown
<1>5. "create" \in OpsOf /\ "update" \in OpsOf /\ page # "website"
  BY <1>1 DEF OpsOf, DialogPages, FixedPages
<1>. QED
  BY <1>1, <1>2, <1>4, <1>5, SubmitKeeps

LEMMA CreatesKeep ==
  ASSUME RecordsInv, AddCustomer \/ AddPicked \/ AddRule \/ AddPrice \/ Provision \/ Publish
  PROVE  RecordsInv'
<1>1. /\ Submit(New) /\ on' = on
      /\ page \in {"customers", "picker", "loyalty", "prices", "businesses", "import"}
  BY DEF AddCustomer, AddPicked, AddRule, AddPrice, Provision, Publish, Submit
<1>2. "create" \in OpsOf /\ page # "website" /\ page \notin DialogPages
  BY <1>1 DEF OpsOf, DialogPages, FixedPages
<1>3. page # "integrations" => form.of = New
  BY <1>1, <1>2 DEF RecordsInv, FormsInv, FormIsAbout
<1>. QED
  BY <1>1, <1>2, <1>3, SubmitKeeps

\* A form that is saved for the page's one record, and texts per record.
LEMMA UpdatesKeep ==
  ASSUME RecordsInv, Connect \/ SaveWebsite \/ SaveSettings \/ SaveTranslation
  PROVE  RecordsInv'
<1>0. page \in Page /\ form \in Text /\ on \in Row \cup {New}
  BY DEF RecordsInv, ServerInv, FormsInv
<1>1. CASE Connect
  <2>1. page = "integrations" /\ on' = on /\ open /\ Send({Request("update", on, form, "form")})
    BY <1>1 DEF Connect
  <2>2. "update" \in OpsOf
    BY <2>1 DEF OpsOf, FixedPages
  <2>3. on \in Row
    BY <1>0, <2>1 DEF RecordsInv, FormsInv, FormIsAbout
  <2>4. GoodRequest(Request("update", on, form, "form"))
    BY <1>0, <2>1, <2>2, <2>3, RequestIsGood
  <2>. QED
    BY <2>1, <2>4, SendKeeps
<1>2. CASE SaveWebsite
  <2>1. page = "website" /\ on' = on /\ open /\ Send({Request("update", on, form, "form")})
    BY <1>2 DEF SaveWebsite
  <2>2. "update" \in OpsOf /\ on \in Row /\ form.of = on
    BY <2>1 DEF OpsOf, FixedPages, RecordsInv, ServerInv, FormsInv, FormIsAbout
  <2>4. GoodRequest(Request("update", on, form, "form"))
    BY <1>0, <2>1, <2>2, RequestIsGood
  <2>. QED
    BY <2>1, <2>4, SendKeeps
<1>3. CASE SaveSettings
  <2>1. page = "settings" /\ on' = on /\ open
    BY <1>3 DEF SaveSettings
  <2>2. "update" \in OpsOf
    BY <2>1 DEF OpsOf, FixedPages
  <2>3. ASSUME NEW r \in Row
        PROVE  GoodRequest(Request("update", r, drafts[r], "form"))
    <3>1. drafts[r] \in Text /\ drafts[r].of = r
      BY <2>1 DEF RecordsInv, FormsInv, DraftsAreAbout
    <3>. QED
      BY <1>0, <2>1, <2>2, <3>1, RequestIsGood
  <2>4. Send({Request("update", r, drafts[r], "form") : r \in Row})
    BY <1>3 DEF SaveSettings
  <2>. QED
    BY <2>1, <2>3, <2>4, SendKeeps
<1>4. CASE SaveTranslation
  <2>1. /\ page = "translations" /\ on' = on /\ on \in DOMAIN list
        /\ Send({Request("update", on, Drafted(on), "form")})
    BY <1>4 DEF SaveTranslation
  <2>2. "update" \in OpsOf /\ on \in Row
    BY <2>1 DEF OpsOf, FixedPages, RecordsInv, ServerInv, CopyInv
  <2>3. Drafted(on) \in Text /\ Drafted(on).of = on
    BY <2>1 DEF Drafted, RecordsInv, CopyInv, FormsInv, DraftsAreAbout
  <2>4. GoodRequest(Request("update", on, Drafted(on), "form"))
    BY <1>0, <2>1, <2>2, <2>3, RequestIsGood
  <2>. QED
    BY <2>1, <2>4, SendKeeps
<1>. QED
  BY <1>1, <1>2, <1>3, <1>4

\* Requests that carry no text of a form.
LEMMA PlainRequestIsGood ==
  ASSUME RecordsInv, NEW op \in OpsOf \ {"update"}, NEW r \in Row \cup {New}, NEW sent \in {"form", "list"},
         op \in {"delete", "part"} => r \in Row,
         page = "bands" => sent = "list", page # "website"
  PROVE  GoodRequest(Request(op, r, Blank, sent))
  BY BlankIsText, RequestIsGood DEF RecordsInv, ServerInv

LEMMA SwitchIsGood ==
  ASSUME RecordsInv, "update" \in OpsOf, NEW r \in Row, NEW v \in {0, 1}, page # "website"
  PROVE  GoodRequest(Request("update", r, [Blank EXCEPT !.of = r, !.v = v], "list"))
<1>1. [Blank EXCEPT !.of = r, !.v = v] \in Text /\ [Blank EXCEPT !.of = r, !.v = v].of = r
  BY FilledBlank
<1>. QED
  BY <1>1, RequestIsGood DEF RecordsInv, ServerInv

LEMMA DialogRequestsKeep ==
  ASSUME RecordsInv, Extract \/ DeleteItem \/ (\E r \in Row : AddPartLive(r) \/ DeletePart(r))
  PROVE  RecordsInv'
<1>1. CASE Extract
  <2>1. page = "import" /\ on' = on /\ Send({Request("extract", New, Blank, "form")})
    BY <1>1 DEF Extract
  <2>2. "extract" \in OpsOf
    BY <2>1 DEF OpsOf, FixedPages
  <2>. QED
    BY <2>1, <2>2, PlainRequestIsGood, SendKeeps
<1>2. CASE DeleteItem
  <2>1. /\ page = "items" /\ on' = on /\ Shown(list) # New
        /\ Send({Request("delete", Shown(list), Blank, "form")})
    BY <1>2 DEF DeleteItem
  <2>2. "delete" \in OpsOf /\ Shown(list) \in Row
    BY <2>1 DEF OpsOf, FixedPages, Shown, RecordsInv, FormsInv
  <2>. QED
    BY <2>1, <2>2, PlainRequestIsGood, SendKeeps
<1>3. ASSUME NEW r \in Row, AddPartLive(r) \/ DeletePart(r)
      PROVE  RecordsInv'
  <2>1. PICK b \in BOOLEAN, sent \in {"form", "list"} : SendPart(r, b, sent)
    BY <1>3 DEF AddPartLive, DeletePart
  <2> DEFINE t == [Blank EXCEPT !.astray = b]
  <2>2. page = "items" /\ on' = on /\ Send({Request("part", r, t, sent)})
    BY <2>1 DEF SendPart
  <2>3. "part" \in OpsOf
    BY <2>2 DEF OpsOf, FixedPages
  <2>4. t \in Text
    BY BlankIsText, MarksText
  <2> HIDE DEF t
  <2>5. GoodRequest(Request("part", r, t, sent))
    BY <2>2, <2>3, <2>4, RequestIsGood DEF RecordsInv, ServerInv
  <2>. QED
    BY <2>2, <2>5, SendKeeps
<1>. QED
  BY <1>1, <1>2, <1>3

LEMMA ListRequestsKeep ==
  ASSUME RecordsInv, NEW r \in Row,
         \/ DeleteCategory(r) \/ DeleteTable(r) \/ DeleteRoom(r) \/ DeleteBand(r) \/ DeletePrice(r)
         \/ ResetAccess(r)
  PROVE  RecordsInv'
<1>1. PICK op \in {"delete", "access"} :
        /\ Send({Request(op, r, Blank, "list")}) /\ on' = on
        /\ op = "delete" => page \in {"categories", "tables", "rooms", "bands", "prices"}
        /\ op = "access" => page = "staff"
  BY DEF DeleteCategory, DeleteTable, DeleteRoom, DeleteBand, DeletePrice, Delete, ResetAccess
<1>2. op \in OpsOf \ {"update"} /\ page # "website"
  BY <1>1 DEF OpsOf, FixedPages
<1>. QED
  BY <1>1, <1>2, PlainRequestIsGood, SendKeeps

LEMMA SwitchesKeep ==
  ASSUME RecordsInv, NEW r \in Row,
         \/ Disconnect(r) \/ SwitchLoyaltyRule(r) \/ SwitchPrice(r)
         \/ SwitchToggle(r) \/ ResetToggle(r) \/ SwitchBusiness(r) \/ SwitchModule(r)
  PROVE  RecordsInv'
<1>1. /\ page \in {"integrations", "loyalty", "prices", "rules", "businesses", "modules"}
      /\ on' = on \/ (page = "modules" /\ on' \in Row)
      /\ Switch(r, 0) \/ Switch(r, 1 - list[r].v)
  BY DEF Disconnect, SwitchLoyaltyRule, SwitchPrice, SwitchToggle, ResetToggle, SwitchBusiness, SwitchModule
<1>2. r \in DOMAIN list
  BY <1>1 DEF Switch
<1>3. list[r] \in Text
  BY <1>2 DEF RecordsInv, CopyInv
<1>4. PICK v \in {0, 1} : Send({Request("update", r, [Blank EXCEPT !.of = r, !.v = v], "list")})
  <2>1. 1 - list[r].v \in {0, 1}
    BY <1>3 DEF Text
  <2>. QED
    BY <1>1, <2>1 DEF Switch
<1>5. "update" \in OpsOf /\ page # "website"
  BY <1>1 DEF OpsOf, FixedPages
<1>. QED
  BY <1>1, <1>4, <1>5, SwitchIsGood, SendKeeps

LEMMA ShiftRequestsKeep ==
  ASSUME RecordsInv, OpenShift \/ (\E r \in Row : CloseShift(r))
  PROVE  RecordsInv'
<1>1. page = "shift" /\ on' = on /\ page # "website"
  BY DEF OpenShift, CloseShift
<1>2. "create" \in OpsOf /\ "delete" \in OpsOf
  BY <1>1 DEF OpsOf, FixedPages
<1>3. CASE OpenShift
  BY <1>1, <1>2, <1>3, PlainRequestIsGood, SendKeeps DEF OpenShift
<1>4. ASSUME NEW r \in Row, CloseShift(r)
      PROVE  RecordsInv'
  <2>1. Send({Request("delete", r, form, "form")})
    BY <1>4 DEF CloseShift
  <2>2. GoodRequest(Request("delete", r, form, "form"))
    BY <1>1, <1>2, RequestIsGood DEF RecordsInv, ServerInv, FormsInv
  <2>. QED
    BY <1>1, <2>1, <2>2, SendKeeps
<1>. QED
  BY <1>3, <1>4

-----------------------------------------------------------------------------
(* The user's hands on the forms.                                          *)

LEMMA FormMoves ==
  ASSUME RecordsInv, UNCHANGED <<page, server, copies>>, page = "website" => on' = on,
         FormsInv', \A q \in reqs' : q \in reqs \/ GoodRequest(q)
  PROVE  RecordsInv'
<1>1. UNCHANGED <<rows, used>>
  BY DEF server
<1>2. CopyInv' /\ RequestsInv'
  BY CopyIsSame, RequestsStay DEF RecordsInv
<1>3. ServerInv'
  BY <1>1 DEF RecordsInv, ServerInv, SavedWhereMeant
<1>. QED
  BY <1>2, <1>3 DEF RecordsInv

LEMMA FilledIs ==
  ASSUME NEW l, l \in [DOMAIN l -> Text], \A r \in DOMAIN l : l[r].of = r,
         NEW t \in DOMAIN l \cup {New}
  PROVE  Filled(t, l) \in Text /\ Filled(t, l).of = t
  BY BlankIsText DEF Filled

LEMMA OpenDialogKeeps ==
  ASSUME RecordsInv, page \in DialogPages, NEW t, OpenDialog(t)
  PROVE  RecordsInv'
<1>1. /\ t \in DOMAIN list \cup {New} /\ open' = TRUE /\ on' = t /\ Rendered(t, list, TRUE)
      /\ UNCHANGED <<page, server, copies, drafts, part, reqs>>
      /\ UNCHANGED <<list, rows, used>>
  BY DEF OpenDialog, server, copies
<1>2. page \notin {"integrations", "website", "businesses", "settings"}
  BY DEF DialogPages
<1>3. DOMAIN list \subseteq used /\ used \subseteq Row
  BY DEF RecordsInv, CopyInv, ServerInv
<1>4. Filled(t, list) \in Text /\ Filled(t, list).of = t
  BY <1>1, <1>2, FilledIs DEF RecordsInv, CopyInv
<1>5. Shown(list)' = t
  BY <1>1 DEF Shown
<1>6. /\ form' \in Text /\ form'.of = t /\ at' \in Row \cup {New}
      /\ page # "bands" => at' = t
  BY <1>1, <1>3, <1>4 DEF Rendered, Resets, RecordsInv, FormsInv, FormIsAbout
<1>7. FormIsAbout'
  BY <1>1, <1>2, <1>5, <1>6 DEF FormIsAbout
<1>8. DraftsAreAbout'
  BY <1>1, <1>2 DEF RecordsInv, FormsInv, DraftsAreAbout
<1>9. GoneForGood'
  BY <1>1, <1>3 DEF GoneForGood
<1>10. FormsInv'
  BY <1>1, <1>3, <1>6, <1>7, <1>8, <1>9 DEF RecordsInv, FormsInv
<1>. QED
  BY <1>1, <1>2, <1>10, FormMoves

LEMMA DialogsKeep ==
  ASSUME RecordsInv, NEW t,
         OpenCategory(t) \/ OpenItem(t) \/ OpenStaff(t) \/ OpenTable(t) \/ OpenRoom(t) \/ OpenBand(t)
  PROVE  RecordsInv'
<1>1. page \in DialogPages /\ OpenDialog(t)
  BY DEF OpenCategory, OpenItem, OpenStaff, OpenTable, OpenRoom, OpenBand, DialogPages
<1>. QED
  BY <1>1, OpenDialogKeeps

LEMMA OpenFormKeeps ==
  ASSUME RecordsInv, OpenForm
  PROVE  RecordsInv'
<1>1. /\ page \in CreatePages /\ open' = TRUE
      /\ UNCHANGED <<page, server, copies, on, at, form, drafts, part, reqs>>
      /\ UNCHANGED <<list, rows, used>>
  BY DEF OpenForm, server, copies
<1>2. page \notin DialogPages \cup {"website", "integrations", "settings", "items", "categories", "bands"}
  BY <1>1 DEF DialogPages, CreatePages
<1>3. FormIsAbout' /\ DraftsAreAbout' /\ GoneForGood'
  BY <1>1, <1>2 DEF RecordsInv, FormsInv, FormIsAbout, DraftsAreAbout, GoneForGood
<1>4. FormsInv'
  BY <1>1, <1>3 DEF RecordsInv, FormsInv
<1>. QED
  BY <1>1, <1>4, FormMoves

LEMMA OpenConnectKeeps ==
  ASSUME RecordsInv, NEW r \in Row, OpenConnect(r)
  PROVE  RecordsInv'
<1>1. /\ page = "integrations" /\ open' = TRUE /\ on' = r
      /\ UNCHANGED <<page, server, copies, at, form, drafts, part, reqs>>
      /\ UNCHANGED <<list, rows, used>>
  BY DEF OpenConnect, server, copies
<1>2. page \notin DialogPages \cup {"website", "businesses", "settings", "items", "categories", "bands"}
  BY <1>1 DEF DialogPages
<1>3. FormIsAbout' /\ DraftsAreAbout' /\ GoneForGood'
  BY <1>1, <1>2, RecordsBounds DEF RecordsInv, FormsInv, FormIsAbout, DraftsAreAbout, GoneForGood
<1>4. FormsInv'
  BY <1>1, <1>3 DEF RecordsInv, FormsInv
<1>. QED
  BY <1>1, <1>2, <1>4, FormMoves

LEMMA CloseKeeps ==
  ASSUME RecordsInv, Close
  PROVE  RecordsInv'
<1>1. /\ page \in DialogPages \cup CreatePages \cup {"integrations"} /\ open' = FALSE
      /\ form' = IF page \in {"businesses", "bands"} THEN Blank ELSE form
      /\ reqs' = {[q EXCEPT !.here = @ /\ page # "bands"] : q \in reqs}
      /\ UNCHANGED <<page, server, copies, on, at, drafts, part>>
      /\ UNCHANGED <<list, rows, used>>
  BY DEF Close, server, copies
<1>2. page # "website"
  BY <1>1 DEF DialogPages, CreatePages
<1>3. FormIsAbout'
  BY <1>1, <1>2, BlankIsText DEF RecordsInv, FormsInv, FormIsAbout, DialogPages
<1>4. DraftsAreAbout' /\ GoneForGood'
  BY <1>1 DEF RecordsInv, FormsInv, DraftsAreAbout, GoneForGood
<1>5. FormsInv'
  BY <1>1, <1>3, <1>4, BlankIsText DEF RecordsInv, FormsInv
<1>6. ASSUME NEW q \in reqs
      PROVE  GoodRequest([q EXCEPT !.here = @ /\ page # "bands"])
  <2>1. GoodRequest(q) /\ q \in RequestType
    BY DEF RecordsInv, RequestsInv, GoodRequest
  <2>2. \A b \in BOOLEAN : [q EXCEPT !.here = b] \in RequestType
    BY <2>1 DEF RequestType
  <2>3. (q.here /\ page # "bands") \in BOOLEAN
    OBVIOUS
  <2> DEFINE p == [q EXCEPT !.here = @ /\ page # "bands"]
  <2>4. p \in RequestType
    BY <2>2, <2>3, Zenon
  <2>5. p.op = q.op /\ p.row = q.row /\ p.text = q.text /\ p.sent = q.sent
    BY <2>1 DEF RequestType
  <2> HIDE DEF p
  <2>6. GoodRequest(p)
    BY <2>1, <2>4, <2>5 DEF GoodRequest, AboutItsRow
  <2>. QED
    BY <2>6 DEF p
<1>. QED
  BY <1>1, <1>2, <1>5, <1>6, FormMoves

LEMMA TypeKeeps ==
  ASSUME RecordsInv, Type
  PROVE  RecordsInv'
<1>1. /\ open /\ page \notin {"settings", "translations"}
      /\ form' = IF page = "integrations" /\ form = Blank
                 THEN [Blank EXCEPT !.of = on, !.v = 1] ELSE [form EXCEPT !.v = 1 - @]
      /\ UNCHANGED <<page, server, copies, open, on, at, drafts, part, reqs>>
      /\ UNCHANGED <<list, rows, used>>
  BY DEF Type, server, copies
<1>2. form \in Text /\ on \in Row \cup {New}
  BY DEF RecordsInv, FormsInv
<1>3. form' \in Text /\ (page # "integrations" => form'.of = form.of)
  BY <1>1, <1>2, FlipsText, FilledBlank
<1>4. FormIsAbout'
  BY <1>1, <1>3 DEF RecordsInv, FormsInv, FormIsAbout, Shown
<1>5. DraftsAreAbout' /\ GoneForGood'
  BY <1>1 DEF RecordsInv, FormsInv, DraftsAreAbout, GoneForGood
<1>6. FormsInv'
  BY <1>1, <1>3, <1>4, <1>5 DEF RecordsInv, FormsInv
<1>. QED
  BY <1>1, <1>6, FormMoves

LEMMA TypeDraftKeeps ==
  ASSUME RecordsInv, NEW r \in Row, TypeDraft(r)
  PROVE  RecordsInv'
<1>1. /\ \/ page = "settings" /\ open
         \/ page = "translations" /\ r \in DOMAIN list
      /\ drafts' = Put(drafts, r, [Drafted(r) EXCEPT !.v = 1 - @])
      /\ UNCHANGED <<page, server, copies, open, on, at, form, part, reqs>>
      /\ UNCHANGED <<list, rows, used>>
  BY DEF TypeDraft, server, copies
<1>2. Drafted(r) \in Text /\ Drafted(r).of = r
  BY <1>1 DEF Drafted, RecordsInv, CopyInv, FormsInv, DraftsAreAbout
<1> DEFINE x == [Drafted(r) EXCEPT !.v = 1 - @]
<1>3. x \in Text /\ x.of = r
  BY <1>2, FlipsText
<1>4. drafts' = Put(drafts, r, x)
  BY <1>1
<1> HIDE DEF x
<1>5. drafts \in [DOMAIN drafts -> Text] /\ DOMAIN drafts \subseteq Row
  BY DEF RecordsInv, FormsInv
<1>6. /\ drafts' \in [DOMAIN drafts \cup {r} -> Text] /\ DOMAIN drafts' = DOMAIN drafts \cup {r}
      /\ drafts'[r] = x /\ \A y \in DOMAIN drafts : y # r => drafts'[y] = drafts[y]
  BY <1>3, <1>4, <1>5 DEF Put
<1>7. DraftsAreAbout'
  BY <1>1, <1>3, <1>6 DEF RecordsInv, FormsInv, DraftsAreAbout
<1>8. FormIsAbout' /\ GoneForGood'
  BY <1>1 DEF RecordsInv, FormsInv, FormIsAbout, GoneForGood, Shown
<1>9. FormsInv'
  BY <1>1, <1>5, <1>6, <1>7, <1>8 DEF RecordsInv, FormsInv
<1>. QED
  BY <1>1, <1>9, FormMoves

\* The rest: the language, the inputs of a variant, the photos, the customer picked,
\* the summary of a shift.
LEMMA HandsKeep ==
  ASSUME RecordsInv,
         \/ TypePart \/ AddPartDraft \/ StartOver \/ DismissSummary
         \/ \E r \in Row : ChooseLanguage(r) \/ PickCustomer(r)
  PROVE  RecordsInv'
<1>1. CASE TypePart \/ AddPartDraft
  <2>1. /\ UNCHANGED <<page, server, copies, open, on, at, drafts, reqs>>
        /\ UNCHANGED <<list, rows, used>> /\ page = "items"
        /\ form' = form \/ \E b \in BOOLEAN : form' = [form EXCEPT !.astray = b]
    BY <1>1, FlagIs DEF TypePart, AddPartDraft, server, copies, RecordsInv, FormsInv
  <2>2. part' \subseteq Row \cup {New}
    BY <1>1 DEF TypePart, AddPartDraft, Shown, RecordsInv, FormsInv
  <2>3. form' \in Text /\ form'.of = form.of
    BY <2>1, MarksText DEF RecordsInv, FormsInv
  <2>5. FormIsAbout' /\ DraftsAreAbout' /\ GoneForGood'
    BY <2>1, <2>3 DEF RecordsInv, FormsInv, FormIsAbout, DraftsAreAbout, GoneForGood, Shown
  <2>4. FormsInv'
    BY <2>1, <2>2, <2>3, <2>5 DEF RecordsInv, FormsInv
  <2>. QED
    BY <2>1, <2>4, FormMoves
<1>2. CASE StartOver \/ DismissSummary \/ \E r \in Row : ChooseLanguage(r) \/ PickCustomer(r)
  <2>1. /\ page \in {"import", "shift", "translations", "picker"}
        /\ open' \in {open, FALSE} /\ on' \in Row \cup {New} /\ form' \in {form, Blank}
        /\ UNCHANGED <<page, server, copies, at, drafts, part, reqs>>
        /\ UNCHANGED <<list, rows, used>>
    BY <1>2 DEF StartOver, DismissSummary, ChooseLanguage, PickCustomer, server, copies, RecordsInv, FormsInv
  <2>2. page \notin DialogPages \cup {"website", "businesses", "integrations", "settings", "items", "categories", "bands"}
    BY <2>1 DEF DialogPages
  <2>3. FormIsAbout' /\ DraftsAreAbout' /\ GoneForGood'
    BY <2>1, <2>2, BlankIsText DEF RecordsInv, FormsInv, FormIsAbout, DraftsAreAbout, GoneForGood
  <2>4. FormsInv'
    BY <2>1, <2>3, BlankIsText DEF RecordsInv, FormsInv
  <2>. QED
    BY <2>1, <2>2, <2>4, FormMoves
<1>. QED
  BY <1>1, <1>2

-----------------------------------------------------------------------------
(* What arrives.                                                           *)

LEMMA OneKey ==
  ASSUME page # "settings", NEW k \in Keys, NEW r \in Row
  PROVE  KeyOf(r) = k
<1>1. PICK x \in Row : k = KeyOf(x)
  BY DEF Keys
<1>. QED
  BY <1>1 DEF KeyOf

\* What the list becomes when the query of a key is answered.
LEMMA RefreshedIs ==
  ASSUME RecordsInv, NEW k \in Keys, NEW l, l = Refreshed(k)
  PROVE  /\ l \in [DOMAIN l -> Text] /\ DOMAIN l \subseteq used
         /\ \A r \in Row : (r \in DOMAIN l <=> r \in IF KeyOf(r) = k THEN DOMAIN rows ELSE DOMAIN list)
         /\ \A r \in DOMAIN l : l[r] = IF KeyOf(r) = k THEN rows[r] ELSE list[r]
         /\ page # "integrations" => \A r \in DOMAIN l : l[r].of = r
         /\ page # "settings" => DOMAIN l = DOMAIN rows
<1> DEFINE S == {r \in Row : r \in IF KeyOf(r) = k THEN DOMAIN rows ELSE DOMAIN list}
<1>1. l = [r \in S |-> IF KeyOf(r) = k THEN rows[r] ELSE list[r]]
  BY DEF Refreshed
<1>2. /\ rows \in [DOMAIN rows -> Text] /\ list \in [DOMAIN list -> Text]
      /\ DOMAIN rows \subseteq used /\ DOMAIN list \subseteq used /\ used \subseteq Row
  BY DEF RecordsInv, ServerInv, CopyInv
<1>3. DOMAIN l = S /\ \A r \in S : l[r] = IF KeyOf(r) = k THEN rows[r] ELSE list[r]
  BY <1>1
<1>4. S \subseteq used /\ \A r \in S : (IF KeyOf(r) = k THEN rows[r] ELSE list[r]) \in Text
  BY <1>2
<1>5. l \in [S -> Text]
  BY <1>1, <1>4
<1>6. page # "integrations" => \A r \in S : l[r].of = r
  BY <1>3 DEF RecordsInv, ServerInv, CopyInv, SavedWhereMeant
<1>7. page # "settings" => S = DOMAIN rows
  BY <1>2, OneKey
<1>. QED
  BY <1>3, <1>4, <1>5, <1>6, <1>7

\* A dialog that is open is about the same record still, or about none when it has
\* gone: only then its form is filled anew.
LEMMA RenderedIs ==
  ASSUME RecordsInv, page \in DialogPages, open, NEW l, l \in [DOMAIN l -> Text],
         DOMAIN l \subseteq Row, \A r \in DOMAIN l : l[r].of = r, Rendered(Shown(l), l, FALSE)
  PROVE  /\ form' \in Text /\ at' \in Row \cup {New}
         /\ page # "bands" => form'.of = at' /\ at' = Shown(l)
         /\ page = "bands" => form' = form /\ at' = at
         /\ Shown(l) = Shown(list) => form' = form
<1>1. /\ form \in Text /\ at \in Row \cup {New} /\ on \in Row \cup {New}
      /\ page # "bands" => form.of = at /\ at = Shown(list)
  BY DEF RecordsInv, FormsInv, FormIsAbout
<1>2. CASE page = "bands"
  BY <1>1, <1>2 DEF Rendered, Resets
<1>3. CASE page # "bands" /\ Shown(l) = at
  BY <1>1, <1>3 DEF Rendered, Resets
<1>4. CASE page # "bands" /\ Shown(l) # at
  <2>1. at' = Shown(l) /\ form' = Filled(Shown(l), l)
    BY <1>4 DEF Rendered, Resets
  <2>2. CASE page \in {"items", "categories"}
    <3>1. Shown(l) \in DOMAIN l \cup {New}
      BY <1>1, <2>2 DEF Shown
    <3>. QED
      BY <1>1, <1>4, <2>1, <3>1, FilledIs
  <2>3. CASE page \notin {"items", "categories"}
    BY <1>1, <1>4, <2>3 DEF Shown
  <2>. QED
    BY <2>2, <2>3
<1>. QED
  BY <1>2, <1>3, <1>4

LEMMA FetchKeeps ==
  ASSUME RecordsInv, NEW k \in Keys, Fetch(k)
  PROVE  RecordsInv'
<1>1. /\ list' = Refreshed(k) /\ due' = due \ {k} /\ blind' = blind \ {k}
      /\ UNCHANGED <<page, server, on, part, reqs>> /\ UNCHANGED <<rows, used>>
  BY DEF Fetch, server
<1> DEFINE l == list'
<1>2. /\ l \in [DOMAIN l -> Text] /\ DOMAIN l \subseteq used
      /\ \A r \in Row : (r \in DOMAIN l <=> r \in IF KeyOf(r) = k THEN DOMAIN rows ELSE DOMAIN list)
      /\ \A r \in DOMAIN l : l[r] = IF KeyOf(r) = k THEN rows[r] ELSE list[r]
      /\ page # "integrations" => \A r \in DOMAIN l : l[r].of = r
      /\ page # "settings" => DOMAIN l = DOMAIN rows
  BY <1>1, RefreshedIs
<1>3. Keys' = Keys /\ \A r : KeyOf(r)' = KeyOf(r)
  BY <1>1, PageKeeps
<1>4. CopyInv'
  <2>1. QuietListIsRight'
    BY <1>1, <1>2, <1>3 DEF RecordsInv, ServerInv, CopyInv, QuietListIsRight
  <2>. QED
    BY <1>1, <1>2, <1>3, <2>1 DEF RecordsInv, CopyInv
<1>5. ServerInv' /\ RequestsInv'
  BY <1>1, RequestsStay DEF RecordsInv, ServerInv, SavedWhereMeant
<1>6. GoneForGood'
  <2>1. CASE page \in {"items", "categories"} /\ open' /\ on # New
    <3>1. open' = open \/ page \in {"settings", "website"}
      BY DEF Fetch, Hydrates, Follows
    <3>. QED
      BY <1>1, <1>2, <2>1, <3>1 DEF RecordsInv, FormsInv, GoneForGood
  <2>. QED
    BY <1>1, <2>1 DEF GoneForGood
<1>7. /\ FormIsAbout' /\ DraftsAreAbout' /\ form' \in Text /\ at' \in Row \cup {New} /\ open' \in BOOLEAN
      /\ drafts' \in [DOMAIN drafts' -> Text] /\ DOMAIN drafts' \subseteq Row
  <2>1. CASE Hydrates(l) /\ open' = TRUE /\ drafts' = l /\ UNCHANGED <<at, form>>
    <3>1. page = "settings" /\ DOMAIN l = Row
      BY <2>1 DEF Hydrates
    <3>2. FormIsAbout'
      BY <1>1, <2>1, <3>1 DEF RecordsInv, FormsInv, FormIsAbout, DialogPages
    <3>. QED
      BY <1>1, <1>2, <2>1, <3>1, <3>2 DEF RecordsInv, FormsInv, DraftsAreAbout
  <2>2. CASE Follows(l) /\ open' = TRUE /\ form' = l[on] /\ UNCHANGED <<at, drafts>>
    <3>1. page = "website" /\ on \in DOMAIN l
      BY <1>2, <2>2 DEF Follows, RecordsInv, ServerInv
    <3>2. FormIsAbout' /\ form' \in Text
      BY <1>1, <1>2, <2>2, <3>1 DEF FormIsAbout, DialogPages
    <3>. QED
      BY <1>1, <2>2, <3>1, <3>2 DEF RecordsInv, FormsInv, DraftsAreAbout
  <2>3. CASE /\ UNCHANGED <<open, drafts>>
             /\ IF open /\ page \in DialogPages THEN Rendered(Shown(l), l, FALSE)
                ELSE UNCHANGED <<at, form>>
    <3>1. DraftsAreAbout'
      BY <1>1, <2>3 DEF RecordsInv, FormsInv, DraftsAreAbout
    <3>2. CASE open /\ page \in DialogPages
      <4>0. page # "integrations" /\ page # "website" /\ page # "businesses" /\ DOMAIN l \subseteq Row
        BY <1>2, <3>2 DEF DialogPages, RecordsInv, ServerInv
      <4>1. /\ form' \in Text /\ at' \in Row \cup {New}
            /\ page # "bands" => form'.of = at' /\ at' = Shown(l)
            /\ page = "bands" => form' = form /\ at' = at
        <5> HIDE DEF l
        <5>. QED
          BY <1>2, <2>3, <3>2, <4>0, RenderedIs
      <4>2. Shown(list)' = Shown(l)
        BY <1>1 DEF Shown
      <4>3. FormIsAbout'
        BY <1>1, <2>3, <3>2, <4>0, <4>1, <4>2 DEF RecordsInv, FormsInv, FormIsAbout
      <4>. QED
        BY <2>3, <3>1, <4>1, <4>3 DEF RecordsInv, FormsInv
    <3>3. CASE ~(open /\ page \in DialogPages)
      <4>1. FormIsAbout'
        BY <1>1, <2>3, <3>3 DEF RecordsInv, FormsInv, FormIsAbout
      <4>. QED
        BY <2>3, <3>1, <3>3, <4>1 DEF RecordsInv, FormsInv
    <3>. QED
      BY <3>2, <3>3
  <2>. QED
    BY <1>1, <2>1, <2>2, <2>3 DEF Fetch
<1>8. FormsInv'
  BY <1>1, <1>6, <1>7 DEF RecordsInv, FormsInv
<1>. QED
  BY <1>4, <1>5, <1>8 DEF RecordsInv

LEMMA FetchFailsKeeps ==
  ASSUME RecordsInv, NEW k \in Keys, FetchFails(k)
  PROVE  RecordsInv'
<1>1. /\ due' = due \ {k} /\ blind' = blind \cup {k} /\ k \in due
      /\ UNCHANGED <<page, server, list, forms, reqs>> /\ UNCHANGED <<rows, used, on>>
  BY DEF FetchFails, server, forms
<1>2. ServerMoves /\ \A r \in Row : Unchanged(r)
  BY <1>1, ServerIsSame DEF RecordsInv
<1>3. FormsInv' /\ ServerInv' /\ RequestsInv'
  BY <1>1, <1>2, FormsStay, RequestsStay DEF RecordsInv
<1>4. CopyInv'
  <2>1. Keys' = Keys /\ \A r : KeyOf(r)' = KeyOf(r)
    BY <1>1, PageKeeps
  <2>2. QuietListIsRight'
    BY <1>1, <2>1 DEF RecordsInv, CopyInv, QuietListIsRight
  <2>. QED
    BY <1>1, <2>1, <2>2 DEF RecordsInv, CopyInv
<1>. QED
  BY <1>3, <1>4 DEF RecordsInv

\* Where the request of a page leaves its records, and which lists it has asked again.
LEMMA AppliedAsksAgain ==
  ASSUME RecordsInv, page' = page, NEW q, GoodRequest(q), Apply(q)
  PROVE  /\ ServerMoves
         /\ page # "website" =>
              \A r \in Row : Unchanged(r) \/ KeyOf(r) \notin Keys \/ KeyOf(r) \in Invalidated(q)
<1>1. /\ ServerMoves
      /\ \A r \in Row : Unchanged(r) \/ q.op \in {"create", "part", "delete"} \/ (q.op = "update" /\ r = q.row)
  BY ApplyMoves DEF RecordsInv
<1>2. page \in Page /\ q.op \in OpsOf
  BY DEF RecordsInv, ServerInv, GoodRequest
<1>3. CASE page = "import"
  BY <1>1, <1>3 DEF Keys
<1>4. CASE page \notin {"import", "website"}
  <2>1. ASSUME NEW r \in Row, ~Unchanged(r)
        PROVE  KeyOf(r) \in Invalidated(q)
    <3>1. q.op \notin {"access", "extract"} /\ (q.op = "update" => r = q.row)
      BY <1>1, <2>1
    <3>. QED
      BY <1>2, <1>4, <3>1, TouchesTheList
  <2>. QED
    BY <1>1, <2>1
<1>. QED
  BY <1>1, <1>3, <1>4

\* The record that on names afterwards.
LEMMA AcceptedOn ==
  ASSUME RecordsInv, NEW q \in reqs, Accept(q)
  PROVE  /\ on' \in Row \cup {New}
         /\ page \notin {"picker", "shift", "modules"} => on' = on
<1>1. /\ Apply(q) /\ page' = page /\ GoodRequest(q)
      /\ on' = CASE page = "picker" -> CHOOSE r \in DOMAIN rows' : r \notin DOMAIN rows
                 [] page = "shift" /\ q.op = "delete" -> q.row
                 [] page = "modules" -> New
                 [] OTHER -> on
  BY DEF Accept, RecordsInv, RequestsInv
<1>2. on \in Row \cup {New}
  BY DEF RecordsInv, FormsInv
<1>3. CASE page = "picker"
  <2>1. q.op = "create"
    BY <1>1, <1>3 DEF GoodRequest, OpsOf, FixedPages
  <2>2. /\ \E r \in Row : r \in DOMAIN rows' /\ r \notin DOMAIN rows
        /\ DOMAIN rows' \subseteq Row
    BY <1>1, <2>1, ApplyMoves DEF RecordsInv, ServerMoves
  <2>3. on' = CHOOSE r \in DOMAIN rows' : r \notin DOMAIN rows
    BY <1>1, <1>3
  <2>. QED
    BY <1>3, <2>2, <2>3
<1>4. CASE page # "picker"
  <2>1. q.op = "delete" => q.row \in Row
    BY <1>1 DEF GoodRequest
  <2>. QED
    BY <1>1, <1>2, <1>4, <2>1
<1>. QED
  BY <1>3, <1>4

LEMMA AcceptKeeps ==
  ASSUME RecordsInv, NEW q \in reqs, Accept(q)
  PROVE  RecordsInv'
<1>1. /\ Apply(q) /\ reqs' = reqs \ {q} /\ page' = page /\ at' = at /\ GoodRequest(q)
      /\ open' = ((open /\ ~Closes(q)) \/ q.op = "extract")
      /\ form' = CASE Clears(q) -> Blank
                   [] q.op = "extract" -> [Blank EXCEPT !.v = 1]
                   [] page = "website" /\ rows' # list -> q.text
                   [] OTHER -> form
      /\ drafts' = IF page = "translations" THEN Without(drafts, q.row) ELSE drafts
      /\ part' = IF q.op = "part" /\ q.sent = "form" THEN {} ELSE part
      /\ list' = IF page = "website" THEN rows' ELSE list
      /\ due' = due \cup Invalidated(q)
      /\ blind' = IF page = "website" THEN {} ELSE blind \ Invalidated(q)
  BY DEF Accept, RecordsInv, RequestsInv
<1>2. /\ ServerMoves
      /\ page # "website" =>
           \A r \in Row : Unchanged(r) \/ KeyOf(r) \notin Keys \/ KeyOf(r) \in Invalidated(q)
  BY <1>1, AppliedAsksAgain
<1>3. /\ on' \in Row \cup {New}
      /\ page \notin {"picker", "shift", "modules"} => on' = on
  BY AcceptedOn
<1>4. ServerInv'
  BY <1>1, <1>2, <1>3 DEF RecordsInv, ServerInv, ServerMoves
<1>5. RequestsInv'
  BY <1>1, <1>3, RequestsStay DEF RecordsInv
<1>6. CopyInv'
  <2>1. Invalidated(q) \subseteq Keys
    BY DEF Invalidated
  <2>2. CASE page = "website"
    <3>1. Keys' = Keys
      BY <1>1, PageKeeps
    <3>2. list' = rows' /\ QuietListIsRight'
      BY <1>1, <2>2 DEF QuietListIsRight
    <3>. QED
      BY <1>1, <1>2, <2>1, <2>2, <3>1, <3>2 DEF RecordsInv, CopyInv, ServerMoves, SavedWhereMeant
  <2>3. CASE page # "website"
    BY <1>1, <1>2, <2>1, <2>3, CopyStays DEF RecordsInv, CopyInv
  <2>. QED
    BY <2>2, <2>3
<1>7. q.text \in Text /\ (page = "website" => q.op = "update" /\ q.text.of = on)
  BY <1>1 DEF GoodRequest, RequestType, AboutItsRow, OpsOf, FixedPages
<1>8. q.op = "extract" => page = "import"
  BY <1>1 DEF GoodRequest, OpsOf, FixedPages, RecordsInv, ServerInv, Page, DialogPages, CreatePages
<1>9. form' \in Text /\ (page \notin DialogPages \cup {"website", "integrations"} => form'.of = New)
  <2>1. [Blank EXCEPT !.v = 1] \in Text /\ [Blank EXCEPT !.v = 1].of = New
    BY DEF Blank, Text
  <2>. QED
    BY <1>1, <1>7, <2>1, BlankIsText DEF RecordsInv, FormsInv, FormIsAbout
<1>10. page \in DialogPages \ {"bands"} => form' = form /\ on' = on /\ list' = list /\ (open' => open)
  BY <1>1, <1>3, <1>8 DEF Clears, DialogPages, CreatePages
<1>11. page = "bands" /\ open' => form' = form /\ on' = on /\ open
  <2>1. CASE page = "bands" /\ q.sent = "form"
    <3>1. Closes(q) /\ q.op # "extract"
      BY <1>1, <2>1 DEF GoodRequest, Closes, DialogPages
    <3>. QED
      BY <1>1, <3>1
  <2>2. CASE page = "bands" /\ q.sent # "form"
    BY <1>1, <1>3, <1>8, <2>2 DEF Clears
  <2>. QED
    BY <2>1, <2>2
<1>12. page = "website" /\ open' => form'.of = on
  BY <1>1, <1>7 DEF Clears, CreatePages, RecordsInv, FormsInv, FormIsAbout
<1>13. page = "businesses" => on' = New /\ (~open' => form' = Blank)
  BY <1>1, <1>3, <1>8 DEF Closes, Clears, CreatePages, RecordsInv, FormsInv, FormIsAbout
<1>14. FormIsAbout'
  <2>1. page \in DialogPages \ {"bands"} => form'.of = at' /\ (open' => at' = Shown(list)')
    BY <1>1, <1>10 DEF RecordsInv, FormsInv, FormIsAbout, Shown
  <2>2. page \in {"bands", "website"} /\ open' => form'.of = on'
    BY <1>3, <1>11, <1>12 DEF RecordsInv, FormsInv, FormIsAbout
  <2>3. page = "integrations" /\ open' => on' # New
    BY <1>1, <1>3, <1>8 DEF RecordsInv, FormsInv, FormIsAbout
  <2>. QED
    BY <1>1, <1>9, <1>13, <2>1, <2>2, <2>3 DEF FormIsAbout
<1>15. /\ drafts' \in [DOMAIN drafts' -> Text] /\ DOMAIN drafts' \subseteq Row
       /\ DraftsAreAbout'
  <2>1. drafts \in [DOMAIN drafts -> Text] /\ DOMAIN drafts \subseteq Row
    BY DEF RecordsInv, FormsInv
  <2>2. CASE page = "translations"
    <3>1. /\ drafts' \in [DOMAIN drafts' -> Text] /\ DOMAIN drafts' \subseteq DOMAIN drafts
          /\ \A r \in DOMAIN drafts' : drafts'[r] = drafts[r]
      BY <1>1, <2>1, <2>2 DEF Without
    <3>. QED
      BY <1>1, <2>1, <2>2, <3>1 DEF DraftsAreAbout, RecordsInv, FormsInv
  <2>3. CASE page # "translations"
    BY <1>1, <1>8, <2>1, <2>3 DEF DraftsAreAbout, RecordsInv, FormsInv
  <2>. QED
    BY <2>2, <2>3
<1>16. GoneForGood'
  BY <1>1, <1>2, <1>3, <1>8 DEF RecordsInv, FormsInv, GoneForGood, ServerMoves
<1>17. FormsInv'
  <2>1. open' \in BOOLEAN /\ at' \in Row \cup {New} /\ part' \subseteq Row \cup {New}
    BY <1>1 DEF RecordsInv, FormsInv
  <2>. QED
    BY <1>3, <1>9, <1>14, <1>15, <1>16, <2>1 DEF FormsInv
<1>. QED
  BY <1>4, <1>5, <1>6, <1>17 DEF RecordsInv

\* Of a module's switch, which request is under way is forgotten when it ends.
LEMMA OnEnds ==
  ASSUME RecordsInv, ServerMoves, page' = page, list' = list,
         UNCHANGED <<open, at, form, drafts, part>>, on' = IF page = "modules" THEN New ELSE on
  PROVE  FormsInv' /\ ServerInv'
<1>1. CASE page # "modules"
  BY <1>1, FormsStay DEF RecordsInv, forms
<1>2. CASE page = "modules"
  <2>1. page \notin DialogPages \cup {"website", "businesses", "integrations"}
    BY <1>2 DEF DialogPages
  <2>2. FormIsAbout' /\ DraftsAreAbout' /\ GoneForGood'
    BY <1>2, <2>1 DEF RecordsInv, FormsInv, FormIsAbout, DraftsAreAbout, GoneForGood
  <2>3. FormsInv'
    BY <1>2, <2>2 DEF RecordsInv, FormsInv
  <2>4. ServerInv'
    BY <1>2 DEF RecordsInv, ServerInv, ServerMoves
  <2>. QED
    BY <2>3, <2>4
<1>. QED
  BY <1>1, <1>2

LEMMA RefusedKeeps ==
  ASSUME RecordsInv, NEW q \in reqs, Refused(q)
  PROVE  RecordsInv'
<1>1. /\ reqs' = reqs \ {q} /\ on' = IF page = "modules" THEN New ELSE on
      /\ UNCHANGED <<page, server, copies, open, at, form, drafts, part>>
      /\ UNCHANGED <<rows, used, list>>
  BY DEF Refused, server, copies
<1>2. ServerMoves /\ CopyInv' /\ RequestsInv'
  BY <1>1, ServerIsSame, CopyIsSame, RequestsStay DEF RecordsInv
<1>. QED
  BY <1>1, <1>2, OnEnds DEF RecordsInv

LEMMA LoseAnswerKeeps ==
  ASSUME RecordsInv, NEW q \in reqs, LoseAnswer(q)
  PROVE  RecordsInv'
<1>1. /\ reqs' = reqs \ {q} /\ on' = IF page = "modules" THEN New ELSE on
      /\ blind' = Keys \ due /\ Apply(q) /\ GoodRequest(q)
      /\ UNCHANGED <<page, list, due, open, at, form, drafts, part>>
  BY DEF LoseAnswer, RecordsInv, RequestsInv
<1>2. ServerMoves
  BY <1>1, ApplyMoves DEF RecordsInv
<1>3. CopyInv'
  BY <1>1, <1>2, CopyStays DEF RecordsInv, CopyInv
<1>4. RequestsInv'
  BY <1>1, RequestsStay DEF RecordsInv
<1>. QED
  BY <1>1, <1>2, <1>3, <1>4, OnEnds DEF RecordsInv

-----------------------------------------------------------------------------
(* The specification.                                                      *)

LEMMA RecordsInitInv == RecordsInit => RecordsInv
<1> SUFFICES ASSUME RecordsInit
             PROVE  RecordsInv
  OBVIOUS
<1>1. PICK S \in SUBSET Row :
        /\ page = "website" => S # {}
        /\ used = S /\ rows = [r \in S |-> [Blank EXCEPT !.of = r]]
        /\ on \in IF page = "website" THEN S ELSE IF page = "translations" THEN Row ELSE {New}
  BY DEF RecordsInit
<1>2. /\ page \in Page /\ list = Nothing /\ due = Keys /\ blind = {}
      /\ open = (page \in {"prices", "translations", "shift"})
      /\ at = New /\ form = Blank /\ drafts = Nothing /\ part = {} /\ reqs = {}
  BY DEF RecordsInit
<1>3. DOMAIN rows = S /\ \A r \in S : rows[r] \in Text /\ rows[r].of = r
  BY <1>1 DEF Blank, Text
<1>4. ServerInv
  <2>1. rows \in [S -> Text]
    BY <1>1, <1>3
  <2>. QED
    BY <1>1, <1>2, <1>3, <2>1 DEF ServerInv, SavedWhereMeant
<1>5. Nothing \in [DOMAIN Nothing -> Text] /\ DOMAIN Nothing = {}
  BY DEF Nothing
<1>6. CopyInv
  BY <1>2, <1>5 DEF CopyInv, QuietListIsRight
<1>7. FormIsAbout
  BY <1>1, <1>2, BlankIsText DEF FormIsAbout, DialogPages, Shown
<1>8. DraftsAreAbout /\ GoneForGood
  BY <1>2, <1>5 DEF DraftsAreAbout, GoneForGood
<1>9. FormsInv
  <2>1. open \in BOOLEAN
    BY <1>2
  <2>2. on \in Row \cup {New}
    BY <1>1
  <2>. QED
    BY <1>2, <1>5, <1>7, <1>8, <2>1, <2>2, BlankIsText DEF FormsInv
<1>. QED
  BY <1>2, <1>4, <1>6, <1>9 DEF RecordsInv, RequestsInv

LEMMA RecordsStep ==
  ASSUME RecordsInv, [RecordsNext]_recordsVars
  PROVE  RecordsInv'
<1>1. CASE OtherActs
  BY <1>1, OtherActsKeeps
<1>2. CASE \E k \in Keys : Fetch(k) \/ FetchFails(k)
  BY <1>2, FetchKeeps, FetchFailsKeeps
<1>3. CASE \E t \in Row \cup {New} :
             OpenCategory(t) \/ OpenItem(t) \/ OpenStaff(t) \/ OpenTable(t) \/ OpenRoom(t) \/ OpenBand(t)
  BY <1>3, DialogsKeep
<1>4. CASE OpenForm \/ Close \/ Type
  BY <1>4, OpenFormKeeps, CloseKeeps, TypeKeeps
<1>5. CASE TypePart \/ AddPartDraft \/ StartOver \/ DismissSummary
  BY <1>5, HandsKeep
<1>6. CASE Extract \/ DeleteItem
  BY <1>6, DialogRequestsKeep
<1>7. CASE \E r \in Row : OpenConnect(r) \/ TypeDraft(r) \/ ChooseLanguage(r) \/ AddPartLive(r) \/ DeletePart(r)
  BY <1>7, OpenConnectKeeps, TypeDraftKeeps, HandsKeep, DialogRequestsKeep
<1>8. CASE SaveCategory \/ SaveItem \/ SaveStaff \/ SaveTable \/ SaveRoom \/ SaveBand
  BY <1>8, SavesKeep
<1>9. CASE AddCustomer \/ AddPicked \/ AddRule \/ AddPrice \/ Provision \/ Publish
  BY <1>9, CreatesKeep
<1>10. CASE Connect \/ SaveSettings \/ SaveWebsite \/ SaveTranslation
  BY <1>10, UpdatesKeep
<1>11. CASE \E r \in Row :
       \/ DeleteCategory(r) \/ DeleteTable(r) \/ DeleteRoom(r) \/ DeleteBand(r) \/ DeletePrice(r)
       \/ ResetAccess(r) \/ Disconnect(r) \/ SwitchLoyaltyRule(r) \/ SwitchPrice(r)
       \/ SwitchToggle(r) \/ ResetToggle(r) \/ SwitchBusiness(r) \/ SwitchModule(r)
       \/ PickCustomer(r) \/ CloseShift(r)
  BY <1>11, ListRequestsKeep, SwitchesKeep, HandsKeep, ShiftRequestsKeep
<1>12. CASE OpenShift
  BY <1>12, ShiftRequestsKeep
<1>13. CASE \E q \in reqs : Accept(q) \/ Refused(q) \/ LoseAnswer(q)
  BY <1>13, AcceptKeeps, RefusedKeeps, LoseAnswerKeeps
<1>14. CASE UNCHANGED recordsVars
  <2>1. /\ UNCHANGED <<page, server, copies, forms, reqs>>
        /\ UNCHANGED <<rows, used, list, open, on, at, form, drafts, part>>
    BY <1>14 DEF recordsVars, server, copies, forms
  <2>2. FormsInv'
    BY <2>1, ServerIsSame, FormsStay DEF RecordsInv
  <2>. QED
    BY <2>1, <2>2, FormMoves
<1>. QED
  BY <1>1, <1>2, <1>3, <1>4, <1>5, <1>6, <1>7, <1>8, <1>9, <1>10, <1>11, <1>12, <1>13, <1>14 DEF RecordsNext

-----------------------------------------------------------------------------
(* Who changes what.                                                       *)

\* What a request's button leaves alone.
LEMMA AsksOnly ==
  ASSUME \/ SaveCategory \/ SaveItem \/ SaveStaff \/ SaveTable \/ SaveRoom \/ SaveBand
         \/ AddCustomer \/ AddPicked \/ AddRule \/ AddPrice \/ Provision \/ Publish
         \/ Connect \/ SaveSettings \/ SaveWebsite \/ SaveTranslation \/ Extract \/ DeleteItem \/ OpenShift
         \/ \E r \in Row :
              \/ AddPartLive(r) \/ DeletePart(r)
              \/ DeleteCategory(r) \/ DeleteTable(r) \/ DeleteRoom(r) \/ DeleteBand(r) \/ DeletePrice(r)
              \/ ResetAccess(r) \/ Disconnect(r) \/ SwitchLoyaltyRule(r) \/ SwitchPrice(r)
              \/ SwitchToggle(r) \/ ResetToggle(r) \/ SwitchBusiness(r) \/ SwitchModule(r) \/ CloseShift(r)
  PROVE  UNCHANGED <<open, list>>
<1>1. ASSUME NEW Q, Send(Q)
      PROVE  UNCHANGED <<open, list>>
  BY <1>1 DEF Send, copies
<1>2. ASSUME NEW t, Submit(t)
      PROVE  UNCHANGED <<open, list>>
  BY <1>1, <1>2 DEF Submit
<1>3. CASE SaveCategory \/ SaveItem \/ SaveStaff \/ SaveTable \/ SaveRoom \/ SaveBand
  BY <1>2, <1>3 DEF SaveCategory, SaveItem, SaveStaff, SaveTable, SaveRoom, SaveBand
<1>4. CASE AddCustomer \/ AddPicked \/ AddRule \/ AddPrice \/ Provision \/ Publish
  BY <1>2, <1>4 DEF AddCustomer, AddPicked, AddRule, AddPrice, Provision, Publish
<1>5. CASE Connect \/ SaveSettings \/ SaveWebsite \/ SaveTranslation
  BY <1>1, <1>5 DEF Connect, SaveSettings, SaveWebsite, SaveTranslation
<1>6. CASE Extract \/ DeleteItem \/ OpenShift
  BY <1>1, <1>6 DEF Extract, DeleteItem, OpenShift
<1>7. ASSUME NEW r \in Row, AddPartLive(r) \/ DeletePart(r) \/ CloseShift(r) \/ ResetAccess(r)
      PROVE  UNCHANGED <<open, list>>
  BY <1>1, <1>7 DEF AddPartLive, DeletePart, SendPart, CloseShift, ResetAccess
<1>8. ASSUME NEW r \in Row,
             DeleteCategory(r) \/ DeleteTable(r) \/ DeleteRoom(r) \/ DeleteBand(r) \/ DeletePrice(r)
      PROVE  UNCHANGED <<open, list>>
  BY <1>1, <1>8 DEF DeleteCategory, DeleteTable, DeleteRoom, DeleteBand, DeletePrice, Delete
<1>9. ASSUME NEW r \in Row,
             \/ Disconnect(r) \/ SwitchLoyaltyRule(r) \/ SwitchPrice(r)
             \/ SwitchToggle(r) \/ ResetToggle(r) \/ SwitchBusiness(r) \/ SwitchModule(r)
      PROVE  UNCHANGED <<open, list>>
  <2>1. \E v : Switch(r, v)
    BY <1>9 DEF Disconnect, SwitchLoyaltyRule, SwitchPrice, SwitchToggle, ResetToggle, SwitchBusiness, SwitchModule
  <2>. QED
    BY <1>1, <2>1 DEF Switch
<1>. QED
  BY <1>3, <1>4, <1>5, <1>6, <1>7, <1>8, <1>9

\* The user's other gestures: only these open or close a form.
Gestures ==
  \/ OpenForm \/ Close \/ Type \/ TypePart \/ AddPartDraft \/ StartOver \/ DismissSummary
  \/ \E r \in Row : OpenConnect(r) \/ TypeDraft(r) \/ ChooseLanguage(r) \/ PickCustomer(r)

LEMMA GesturesOnly ==
  ASSUME Gestures
  PROVE  list' = list /\ (open' /\ ~open => OpenForm \/ page = "integrations")
<1>1. CASE OpenForm \/ Close \/ Type \/ TypePart \/ AddPartDraft \/ StartOver \/ DismissSummary
  BY <1>1 DEF OpenForm, Close, Type, TypePart, AddPartDraft, StartOver, DismissSummary, copies
<1>2. ASSUME NEW r \in Row, OpenConnect(r) \/ TypeDraft(r) \/ ChooseLanguage(r) \/ PickCustomer(r)
      PROVE  list' = list /\ (open' /\ ~open => page = "integrations")
  BY <1>2 DEF OpenConnect, TypeDraft, ChooseLanguage, PickCustomer, copies
<1>. QED
  BY <1>1, <1>2 DEF Gestures

LEMMA Steps ==
  ASSUME RecordsInv, RecordsNext
  PROVE  \/ page \in DialogPages /\ \E t : OpenDialog(t)
         \/ Gestures
         \/ UNCHANGED <<open, list>>
         \/ \E k \in Keys : Fetch(k)
         \/ \E q \in reqs : Accept(q)
<1>1. CASE OtherActs
  BY <1>1 DEF OtherActs, forms
<1>2. CASE \E k \in Keys : Fetch(k) \/ FetchFails(k)
  BY <1>2 DEF FetchFails, forms
<1>3. CASE \E t \in Row \cup {New} :
             OpenCategory(t) \/ OpenItem(t) \/ OpenStaff(t) \/ OpenTable(t) \/ OpenRoom(t) \/ OpenBand(t)
  BY <1>3 DEF OpenCategory, OpenItem, OpenStaff, OpenTable, OpenRoom, OpenBand, DialogPages
<1>4. CASE Gestures
  BY <1>4
<1>5. CASE \E q \in reqs : Accept(q) \/ Refused(q) \/ LoseAnswer(q)
  BY <1>5 DEF Refused, LoseAnswer, copies
<1>6. CASE \/ SaveCategory \/ SaveItem \/ SaveStaff \/ SaveTable \/ SaveRoom \/ SaveBand
           \/ AddCustomer \/ AddPicked \/ AddRule \/ AddPrice \/ Provision \/ Publish
           \/ Connect \/ SaveSettings \/ SaveWebsite \/ SaveTranslation \/ Extract \/ DeleteItem \/ OpenShift
           \/ \E r \in Row :
                \/ AddPartLive(r) \/ DeletePart(r)
                \/ DeleteCategory(r) \/ DeleteTable(r) \/ DeleteRoom(r) \/ DeleteBand(r) \/ DeletePrice(r)
                \/ ResetAccess(r) \/ Disconnect(r) \/ SwitchLoyaltyRule(r) \/ SwitchPrice(r)
                \/ SwitchToggle(r) \/ ResetToggle(r) \/ SwitchBusiness(r) \/ SwitchModule(r) \/ CloseShift(r)
  BY <1>6, AsksOnly
<1>. QED
  BY <1>1, <1>2, <1>3, <1>4, <1>5, <1>6 DEF RecordsNext, Gestures

LEMMA OpensWithTheList ==
  ASSUME RecordsInv, RecordsNext, ~open, open', page \in {"items", "bands", "businesses"}
  PROVE  form' = IF on' = New THEN Blank ELSE list[on']
<1>1. page \notin {"settings", "website", "integrations", "import"}
  OBVIOUS
<1>2. ASSUME NEW t, page \in DialogPages, OpenDialog(t)
      PROVE  form' = IF on' = New THEN Blank ELSE list[on']
  <2>1. on' = t /\ Rendered(t, list, TRUE) /\ page # "businesses"
    BY <1>2 DEF OpenDialog, DialogPages
  <2>. QED
    BY <2>1 DEF Rendered, Resets, Filled
<1>3. CASE OpenForm
  <2>1. page = "businesses" /\ on' = on /\ form' = form
    BY <1>3 DEF OpenForm, CreatePages
  <2>. QED
    BY <2>1 DEF RecordsInv, FormsInv, FormIsAbout
<1>4. ASSUME NEW k \in Keys, Fetch(k)
      PROVE  FALSE
  BY <1>1, <1>4 DEF Fetch, Hydrates, Follows
<1>5. ASSUME NEW q \in reqs, Accept(q)
      PROVE  FALSE
  <2>1. q.op = "extract" /\ GoodRequest(q)
    BY <1>5 DEF Accept, RecordsInv, RequestsInv
  <2>. QED
    BY <1>1, <2>1 DEF GoodRequest, OpsOf, FixedPages
<1>. QED
  BY <1>1, <1>2, <1>3, <1>4, <1>5, Steps, GesturesOnly

LEMMA FetchLeavesTyping ==
  ASSUME RecordsInv, RecordsNext, open, list' # list, reqs' = reqs, page # "website",
         on = New \/ on \in DOMAIN list'
  PROVE  UNCHANGED <<open, on, form, drafts>>
<1>1. ASSUME NEW q \in reqs, Accept(q)
      PROVE  FALSE
  BY <1>1 DEF Accept
<1>2. ASSUME NEW t, OpenDialog(t)
      PROVE  FALSE
  BY <1>2 DEF OpenDialog
<1>3. PICK k \in Keys : Fetch(k)
  BY <1>1, <1>2, Steps, GesturesOnly
<1> DEFINE l == list'
<1>4. /\ l = Refreshed(k) /\ on' = on /\ UNCHANGED <<open, drafts>>
      /\ IF page \in DialogPages THEN Rendered(Shown(l), l, FALSE) ELSE UNCHANGED <<at, form>>
  BY <1>3 DEF Fetch, Hydrates, Follows
<1>5. CASE page \in DialogPages
  <2>1. /\ l \in [DOMAIN l -> Text] /\ DOMAIN l \subseteq used
        /\ page # "integrations" => \A r \in DOMAIN l : l[r].of = r
        /\ page # "settings" => DOMAIN l = DOMAIN rows
    BY <1>4, RefreshedIs
  <2>2. page # "integrations" /\ page # "settings" /\ DOMAIN l \subseteq Row
    BY <1>5, <2>1 DEF DialogPages, RecordsInv, ServerInv
  <2>3. Shown(l) = Shown(list)
    BY <2>1, <2>2 DEF Shown, RecordsInv, FormsInv, GoneForGood
  <2> HIDE DEF l
  <2>4. form' = form
    BY <1>4, <1>5, <2>1, <2>2, <2>3, RenderedIs
  <2>. QED
    BY <1>4, <2>4
<1>6. CASE page \notin DialogPages
  BY <1>4, <1>6
<1>. QED
  BY <1>5, <1>6

-----------------------------------------------------------------------------
(* What the pages guarantee.                                               *)

\* RecordsInv holds in every state of a page: what the server and the page hold, whom
\* the form and the drafts are about and what the requests under way carry fit
\* together, whatever other users change and whichever answers are lost.
THEOREM RecordsInvariant == RecordsSpec => []RecordsInv
<1>1. RecordsInv /\ [RecordsNext]_recordsVars => RecordsInv'
  BY RecordsStep
<1>. QED
  BY <1>1, RecordsInitInv, PTL DEF RecordsSpec

\* A form is never saved into a record that it was not filled for: handleSubmit and
\* handleSave of the dialogs and pages, which send whatever the form holds.
THEOREM FormsAreSavedWhereMeant == RecordsSpec => []SavedWhereMeant
<1>1. RecordsInv => SavedWhereMeant
  BY DEF RecordsInv, ServerInv
<1>. QED
  BY <1>1, RecordsInvariant, PTL

\* A list that is not being asked for is what the server has, unless another user or
\* a lost answer changed it: every mutation invalidates the list that it belongs to.
THEOREM QuietListsAreRight == RecordsSpec => []ListInv
<1>1. RecordsInv => ListInv
  BY DEF RecordsInv, ServerInv, CopyInv, FormsInv, RequestsInv, GoodRequest, ListInv, RecordsTypeOK
<1>. QED
  BY <1>1, RecordsInvariant, PTL

\* A dialog opens with what the list has, by its reset effect, and a list that arrives
\* while the user types takes nothing from the form.
THEOREM FormsFollowTheUser == RecordsSpec => FormFollowsUser
<1>1. RecordsInv /\ [RecordsNext]_recordsVars
        => [~open /\ open' /\ page \in {"items", "bands", "businesses"}
             => form' = IF on' = New THEN Blank ELSE list[on']]_recordsVars
  BY OpensWithTheList
<1>2. RecordsInv /\ [RecordsNext]_recordsVars
        => [/\ open /\ list' # list /\ reqs' = reqs /\ page # "website"
            /\ on = New \/ on \in DOMAIN list'
            => UNCHANGED <<open, on, form, drafts>>]_recordsVars
  BY FetchLeavesTyping
<1>3. RecordsSpec => OpensAfresh
  BY <1>1, RecordsInvariant, PTL DEF RecordsSpec, OpensAfresh
<1>4. RecordsSpec => TypingSurvivesFetch
  BY <1>2, RecordsInvariant, PTL DEF RecordsSpec, TypingSurvivesFetch
<1>. QED
  BY <1>3, <1>4 DEF FormFollowsUser

-----------------------------------------------------------------------------
(* The floor: the inductive invariant.                                     *)

USE FloorAssumption DEF TableOrNone, DeliveryStatus, OrderStatus, KotStatus,
  SessionRecord, OrderRecord, KotRecord, BillRecord, PlacingRecord

LEMMA InitInv == Init => FloorInv
  BY DEF Init, FloorInv, TypeOK, PlacingIsNew, BillsOfSessions, BillStaysWithSession,
         OneOpenBillPerSession, AbsentIsBare, KotFollowsOrder, LiveKots,
         NoSession, NoOrder, NoKot, NoBill, Idle

\* Requests that touch orders and tickets only.
LEMMA FindSessionInv ==
  ASSUME FloorInv, NEW o \in Order, NEW l \in Table, FindSession(o, l) PROVE FloorInv'
<1> USE DEF FindSession, FloorInv
<1>1. TypeOK'
  BY DEF TypeOK, OpenAt
<1>2. PlacingIsNew'
  BY DEF PlacingIsNew, TypeOK
<1>3. BillsOfSessions' /\ BillStaysWithSession' /\ OneOpenBillPerSession'
  BY DEF BillsOfSessions, BillStaysWithSession, OneOpenBillPerSession
<1>4. AbsentIsBare' /\ KotFollowsOrder'
  BY DEF AbsentIsBare, KotFollowsOrder, LiveKots
<1>. QED
  BY <1>1, <1>2, <1>3, <1>4

LEMMA PlaceOrderInv ==
  ASSUME FloorInv, NEW o \in Order, NEW s \in Session, PlaceOrder(o, s) PROVE FloorInv'
<1> USE DEF PlaceOrder, FloorInv
<1>1. order[o].status = "absent"
  BY DEF PlacingIsNew
<1>2. TypeOK'
  <2>1. placing[o].table \in Table \cup {None}
    BY DEF TypeOK
  <2>2. session' \in [Session -> SessionRecord]
    BY <2>1 DEF TypeOK
  <2>3. order' \in [Order -> OrderRecord]
    BY <2>1 DEF TypeOK
  <2>4. kot' \in [Order -> KotRecord]
    BY <2>1 DEF TypeOK
  <2>5. placing' \in [Order -> PlacingRecord]
    BY DEF TypeOK, Idle
  <2>6. available' \subseteq Table /\ bill' \in [Bill -> BillRecord]
    BY DEF TypeOK
  <2>. QED
    BY <2>2, <2>3, <2>4, <2>5, <2>6 DEF TypeOK
<1>3. PlacingIsNew'
  BY DEF PlacingIsNew, TypeOK
<1>4. \A b \in Bill : bill[b].status # "absent" => o \notin bill[b].lines
  BY <1>1 DEF BillsOfSessions
<1>5. \A u \in Session : session[u].status # "absent" => session'[u] = session[u]
  BY DEF TypeOK
<1>6. \A b \in Bill : bill'[b] = bill[b] /\ bill[b].lines \subseteq Order
  BY DEF TypeOK
<1>7. \A x \in Order : x # o => order'[x] = order[x]
  BY DEF TypeOK
<1>8. BillsOfSessions'
  BY <1>4, <1>5, <1>6, <1>7 DEF BillsOfSessions
<1>9. BillStaysWithSession'
  BY <1>4, <1>5, <1>6, <1>7 DEF BillsOfSessions, BillStaysWithSession
<1>10. OneOpenBillPerSession'
  BY DEF OneOpenBillPerSession
<1>11. AbsentIsBare' /\ KotFollowsOrder'
  BY DEF AbsentIsBare, KotFollowsOrder, LiveKots, TypeOK
<1>. QED
  BY <1>2, <1>3, <1>8, <1>9, <1>10, <1>11

LEMMA GiveUpOrderInv ==
  ASSUME FloorInv, NEW o \in Order, GiveUpOrder(o) PROVE FloorInv'
<1> USE DEF GiveUpOrder, FloorInv
<1>1. TypeOK' /\ PlacingIsNew'
  BY DEF TypeOK, PlacingIsNew, Idle
<1>2. BillsOfSessions' /\ BillStaysWithSession' /\ OneOpenBillPerSession'
  BY DEF BillsOfSessions, BillStaysWithSession, OneOpenBillPerSession
<1>3. AbsentIsBare' /\ KotFollowsOrder'
  BY DEF AbsentIsBare, KotFollowsOrder, LiveKots
<1>. QED
  BY <1>1, <1>2, <1>3

LEMMA PlaceAwayInv ==
  ASSUME FloorInv, NEW o \in Order, NEW s \in Session,
         NEW delivers \in BOOLEAN, NEW hold \in BOOLEAN, PlaceAway(o, s, delivers, hold)
  PROVE  FloorInv'
<1> USE DEF PlaceAway, FloorInv
<1>1. TypeOK'
  BY DEF TypeOK
<1>2. PlacingIsNew'
  BY DEF PlacingIsNew, TypeOK
<1>3. \A b \in Bill : bill[b].status # "absent" => o \notin bill[b].lines
  BY DEF BillsOfSessions
<1>4. \A u \in Session : session[u].status # "absent" => session'[u] = session[u]
  BY DEF TypeOK
<1>5. \A b \in Bill : bill'[b] = bill[b] /\ bill[b].lines \subseteq Order
  BY DEF TypeOK
<1>6. \A x \in Order : x # o => order'[x] = order[x]
  BY DEF TypeOK
<1>7. BillsOfSessions'
  BY <1>3, <1>4, <1>5, <1>6 DEF BillsOfSessions
<1>8. BillStaysWithSession'
  BY <1>3, <1>4, <1>5, <1>6 DEF BillsOfSessions, BillStaysWithSession
<1>9. OneOpenBillPerSession'
  BY DEF OneOpenBillPerSession
<1>10. AbsentIsBare' /\ KotFollowsOrder'
  BY DEF AbsentIsBare, KotFollowsOrder, LiveKots, TypeOK
<1>. QED
  BY <1>1, <1>2, <1>7, <1>8, <1>9, <1>10

\* Requests that change only statuses of orders and tickets, which keep their
\* sessions and tables.
LEMMA StatusInv ==
  ASSUME FloorInv, TypeOK',
         UNCHANGED <<session, bill, placing>>,
         \A o \in Order :
           /\ order'[o].session = order[o].session
           /\ order'[o].at = order[o].at
           /\ order'[o].status = "absent" <=> order[o].status = "absent"
           /\ order[o].status = "absent" => order'[o].delivery = order[o].delivery
           /\ kot'[o] # kot[o] => kot'[o].at = order[o].at /\ order[o].status # "absent"
  PROVE  FloorInv'
<1> USE DEF FloorInv
<1>1. PlacingIsNew'
  BY DEF PlacingIsNew
<1>2. \A b \in Bill : bill[b].lines \subseteq Order
  BY DEF TypeOK
<1>3. BillsOfSessions'
  BY <1>2 DEF BillsOfSessions
<1>4. BillStaysWithSession'
  BY <1>2 DEF BillStaysWithSession
<1>5. OneOpenBillPerSession'
  BY DEF OneOpenBillPerSession
<1>6. AbsentIsBare'
  BY DEF AbsentIsBare
<1>7. KotFollowsOrder'
  BY DEF KotFollowsOrder, LiveKots
<1>. QED
  BY <1>1, <1>3, <1>4, <1>5, <1>6, <1>7

LEMMA CancelOrderInv ==
  ASSUME FloorInv, NEW o \in Order, CancelOrder(o) PROVE FloorInv'
<1> USE DEF FloorInv
<1> DEFINE r == [order[o] EXCEPT !.status = "CANCELLED"]
<1>1. order[o] \in OrderRecord /\ order \in [Order -> OrderRecord]
  BY DEF TypeOK
<1>2. r \in OrderRecord
  BY <1>1
<1>3. order' = [order EXCEPT ![o] = r]
  BY DEF CancelOrder
<1>4. TypeOK'
  <2>1. order' \in [Order -> OrderRecord]
    <3> HIDE DEF r, OrderRecord
    <3>. QED
      BY <1>1, <1>2, <1>3
  <2>. QED
    BY <2>1 DEF CancelOrder, TypeOK
<1>5. \A x \in Order : UNCHANGED <<order[x].session, order[x].at, order[x].delivery, kot[x]>>
                       /\ (order'[x].status = "absent" <=> order[x].status = "absent")
  BY <1>1, <1>2, <1>3 DEF CancelOrder
<1>. QED
  BY <1>4, <1>5, StatusInv DEF CancelOrder

LEMMA UpdateDeliveryInv ==
  ASSUME FloorInv, NEW o \in Order, NEW new \in DeliveryStatus, UpdateDelivery(o, new)
  PROVE  FloorInv'
<1> USE DEF FloorInv
<1> DEFINE r == [order[o] EXCEPT !.delivery = new, !.status = new]
<1>1. order[o] \in OrderRecord /\ order \in [Order -> OrderRecord]
  BY DEF TypeOK
<1>2. r \in OrderRecord /\ r.status # "absent"
  BY <1>1
<1>3. order' = [order EXCEPT ![o] = r]
  BY <1>1 DEF UpdateDelivery
<1>4. order[o].status # "absent"
  BY DEF UpdateDelivery, DeliveryTransitions, AbsentIsBare
<1>5. TypeOK'
  <2>1. order' \in [Order -> OrderRecord]
    <3> HIDE DEF r, OrderRecord
    <3>. QED
      BY <1>1, <1>2, <1>3
  <2>. QED
    BY <2>1 DEF UpdateDelivery, TypeOK
<1>6. \A x \in Order : /\ UNCHANGED <<order[x].session, order[x].at, kot[x]>>
                       /\ order'[x].status = "absent" <=> order[x].status = "absent"
                       /\ order[x].status = "absent" => order'[x].delivery = order[x].delivery
  BY <1>1, <1>2, <1>3, <1>4 DEF UpdateDelivery
<1>. QED
  BY <1>5, <1>6, StatusInv DEF UpdateDelivery

LEMMA UpdateKotInv ==
  ASSUME FloorInv, NEW o \in Order, NEW new \in KotStatus, UpdateKot(o, new)
  PROVE  FloorInv'
<1> USE DEF FloorInv
<1> DEFINE r == [order[o] EXCEPT !.status = OrderStatusOf(new)]
           k == [kot[o] EXCEPT !.status = new]
<1>1. /\ order[o] \in OrderRecord /\ order \in [Order -> OrderRecord]
      /\ kot[o] \in KotRecord /\ kot \in [Order -> KotRecord]
  BY DEF TypeOK
<1>2. kot[o].status \in {"NEW", "READY"} /\ new # "absent"
  BY DEF UpdateKot, KotTransitions
<1>3. order[o].status # "absent" /\ kot[o].at = order[o].at
  BY <1>2 DEF AbsentIsBare, KotFollowsOrder, LiveKots
<1>4. r \in OrderRecord /\ r.status # "absent" /\ k \in KotRecord
  BY <1>1, <1>2 DEF OrderStatusOf
<1>5. order' = [order EXCEPT ![o] = r] /\ kot' = [kot EXCEPT ![o] = k]
  BY DEF UpdateKot
<1>6. TypeOK'
  <2>1. order' \in [Order -> OrderRecord] /\ kot' \in [Order -> KotRecord]
    <3> HIDE DEF r, k, OrderRecord, KotRecord
    <3>. QED
      BY <1>1, <1>4, <1>5
  <2>. QED
    BY <2>1 DEF UpdateKot, TypeOK
<1>7. \A x \in Order :
        /\ UNCHANGED <<order[x].session, order[x].at, order[x].delivery>>
        /\ order'[x].status = "absent" <=> order[x].status = "absent"
        /\ kot'[x] # kot[x] => kot'[x].at = order[x].at /\ order[x].status # "absent"
  BY <1>1, <1>3, <1>4, <1>5
<1>. QED
  BY <1>6, <1>7, StatusInv DEF UpdateKot

-----------------------------------------------------------------------------
(* Moving orders between tables and sessions.                              *)

\* The orders of S move to table l of session u, which may be their own, and
\* the tickets the kitchen works on with them; none of S is on a bill.
LEMMA MoveInv ==
  ASSUME FloorInv, TypeOK', NEW S \in SUBSET Order, NEW u, NEW l,
         UNCHANGED <<bill, placing>>,
         kot' = KotsMoved(S, l),
         \A o \in S : /\ UNCHANGED <<order[o].status, order[o].delivery>>
                      /\ order'[o].session = u /\ order'[o].at = l,
         \A o \in Order \ S : order'[o] = order[o],
         \A b \in Bill : bill[b].status # "absent" => S \cap bill[b].lines = {},
         \A s \in Session :
           /\ session'[s].status = "absent" <=> session[s].status = "absent"
           /\ HasBill(s) => session'[s].at = session[s].at
  PROVE  FloorInv'
<1> USE DEF FloorInv
<1>1. \A b \in Bill : bill'[b] = bill[b] /\ bill[b].lines \subseteq Order
  BY DEF TypeOK
<1> HIDE DEF SessionRecord, OrderRecord, KotRecord, BillRecord, PlacingRecord
<1>2. \A o \in Order : /\ order'[o].status = order[o].status
                       /\ order'[o].delivery = order[o].delivery
                       /\ kot'[o].status = kot[o].status
  <2> SUFFICES ASSUME NEW o \in Order
               PROVE  /\ order'[o].status = order[o].status
                      /\ order'[o].delivery = order[o].delivery
                      /\ kot'[o].status = kot[o].status
    OBVIOUS
  <2>1. order'[o].status = order[o].status /\ order'[o].delivery = order[o].delivery
    OBVIOUS
  <2>2. kot[o] \in KotRecord
    BY DEF TypeOK
  <2>3. kot'[o].status = kot[o].status
    BY <2>2 DEF KotsMoved, KotRecord
  <2>. QED
    BY <2>1, <2>3
<1>3. PlacingIsNew' /\ AbsentIsBare'
  BY <1>2 DEF PlacingIsNew, AbsentIsBare
<1>4. \A b \in Bill : bill[b].status # "absent" =>
        \A o \in bill[b].lines : order'[o] = order[o]
  BY <1>1
<1>5. \A b \in Bill : bill[b].status # "absent" =>
        bill[b].session \in Session /\ session'[bill[b].session].at = session[bill[b].session].at
  BY DEF BillsOfSessions, HasBill
<1>6. BillsOfSessions'
  BY <1>1, <1>2 DEF BillsOfSessions
<1>7. BillStaysWithSession'
  BY <1>1, <1>4, <1>5 DEF BillStaysWithSession
<1>8. OneOpenBillPerSession'
  BY DEF OneOpenBillPerSession
<1>9. KotFollowsOrder'
  <2> SUFFICES ASSUME NEW o \in Order, kot'[o].status \notin {"absent", "SERVED", "CANCELLED"}
               PROVE  kot'[o].at = order'[o].at
    BY DEF KotFollowsOrder, LiveKots
  <2>1. o \in LiveKots /\ kot[o].at = order[o].at
    BY <1>2 DEF LiveKots, KotFollowsOrder
  <2>2. CASE o \in S
    <3>1. kot[o] \in KotRecord
      BY DEF TypeOK
    <3>2. kot'[o].at = l
      BY <2>1, <2>2, <3>1 DEF KotsMoved, KotRecord
    <3>. QED
      BY <2>2, <3>2
  <2>3. CASE o \notin S
    BY <2>1, <2>3 DEF KotsMoved
  <2>. QED
    BY <2>2, <2>3
<1>. QED
  BY <1>3, <1>6, <1>7, <1>8, <1>9

\* The orders of a session without a bill are on no bill.
LEMMA UnbilledOrders ==
  ASSUME FloorInv, NEW s \in Session, ~HasBill(s)
  PROVE  \A b \in Bill : bill[b].status # "absent" => LiveOrders(s) \cap bill[b].lines = {}
  BY DEF FloorInv, TypeOK, BillStaysWithSession, LiveOrders, HasBill

\* Tickets that move stay tickets.
LEMMA KotsMovedType ==
  ASSUME TypeOK, NEW S, NEW l \in TableOrNone PROVE KotsMoved(S, l) \in [Order -> KotRecord]
  BY DEF TypeOK, KotsMoved

LEMMA TransferInv ==
  ASSUME FloorInv, NEW s \in Session, NEW l \in Table, TransferSession(s, l) PROVE FloorInv'
<1> DEFINE S == LiveOrders(s)
<1>1. TypeOK /\ S \subseteq Order /\ ~HasBill(s)
  BY DEF FloorInv, LiveOrders, TransferSession
<1>2. session[s].at \in Table
  BY <1>1 DEF TypeOK, TransferSession
<1>3. session' \in [Session -> SessionRecord] /\ available' \subseteq Table
  BY <1>1, <1>2 DEF TypeOK, TransferSession
<1>4. order' = [o \in Order |-> IF o \in S THEN [order[o] EXCEPT !.at = l] ELSE order[o]]
  BY DEF TransferSession
<1>5. \A o \in Order : order[o] \in OrderRecord
  BY <1>1 DEF TypeOK
<1>6. order' \in [Order -> OrderRecord]
  BY <1>4, <1>5
<1>7. TypeOK'
  BY <1>1, <1>3, <1>6, KotsMovedType DEF TypeOK, TransferSession
<1>8. \A o \in S : /\ UNCHANGED <<order[o].status, order[o].delivery>>
                  /\ order'[o].session = s /\ order'[o].at = l
  BY <1>1, <1>4, <1>5 DEF LiveOrders
<1>9. \A o \in Order \ S : order'[o] = order[o]
  BY <1>4
<1>10. \A u \in Session :
         /\ session'[u].status = "absent" <=> session[u].status = "absent"
         /\ HasBill(u) => session'[u].at = session[u].at
  BY <1>1 DEF TypeOK, TransferSession
<1>11. kot' = KotsMoved(S, l) /\ UNCHANGED <<bill, placing>>
  BY DEF TransferSession
<1>12. \A b \in Bill : bill[b].status # "absent" => S \cap bill[b].lines = {}
  BY <1>1, UnbilledOrders
<1>. QED
  <2> HIDE DEF S
  <2>. QED
    BY <1>1, <1>7, <1>8, <1>9, <1>10, <1>11, <1>12, MoveInv, SMTT(30)

LEMMA MergeInv ==
  ASSUME FloorInv, NEW s \in Session, NEW u \in Session, MergeSessions(s, u) PROVE FloorInv'
<1> DEFINE S == LiveOrders(s)
<1>1. TypeOK /\ S \subseteq Order /\ ~HasBill(s)
  BY DEF FloorInv, LiveOrders, MergeSessions
<1>2. PICK l \in Table : l = session[u].at
  BY <1>1 DEF TypeOK, MergeSessions
<1>3. /\ session' = [session EXCEPT ![s].status = "closed"]
      /\ available' = available \cup {session[s].at}
      /\ order' = [o \in Order |-> IF o \in S THEN [order[o] EXCEPT !.session = u, !.at = l]
                                            ELSE order[o]]
      /\ kot' = KotsMoved(S, l)
      /\ UNCHANGED <<bill, placing>>
      /\ session[s].status = "open"
      /\ session[s].at # None
  BY <1>2 DEF MergeSessions
<1>4. \A o \in Order : order[o] \in OrderRecord
  BY <1>1 DEF TypeOK
<1>5. session[s] \in SessionRecord /\ session \in [Session -> SessionRecord]
  BY <1>1 DEF TypeOK
<1>6. TypeOK'
  <2>1. session' \in [Session -> SessionRecord]
    BY <1>3, <1>5
  <2>2. available' \subseteq Table
    BY <1>1, <1>3, <1>5 DEF TypeOK
  <2>3. order' \in [Order -> OrderRecord]
    <3> HIDE DEF S
    <3>. QED
      BY <1>3, <1>4
  <2>4. kot' \in [Order -> KotRecord]
    BY <1>1, <1>3, KotsMovedType
  <2>. QED
    BY <1>1, <1>3, <2>1, <2>2, <2>3, <2>4 DEF TypeOK
<1>7. \A o \in S : /\ UNCHANGED <<order[o].status, order[o].delivery>>
                  /\ order'[o].session = u /\ order'[o].at = l
  <2> HIDE DEF S
  <2>. QED
    BY <1>1, <1>3, <1>4
<1>8. \A o \in Order \ S : order'[o] = order[o]
  BY <1>3
<1>9. \A x \in Session :
        /\ session'[x].status = "absent" <=> session[x].status = "absent"
        /\ HasBill(x) => session'[x].at = session[x].at
  BY <1>3, <1>5
<1>10. \A b \in Bill : bill[b].status # "absent" => S \cap bill[b].lines = {}
  BY <1>1, UnbilledOrders
<1>11. kot' = KotsMoved(S, l) /\ UNCHANGED <<bill, placing>>
  BY <1>3
<1>. QED
  <2> HIDE DEF S
  <2>. QED
    BY <1>1, <1>6, <1>7, <1>8, <1>9, <1>10, <1>11, MoveInv

-----------------------------------------------------------------------------
(* Bills and tables.                                                       *)

LEMMA GenerateInv ==
  ASSUME FloorInv, NEW s \in Session, NEW b \in Bill, GenerateBill(s, b) PROVE FloorInv'
<1> USE DEF FloorInv
<1>1. LiveOrders(s) \subseteq Order
  BY DEF LiveOrders
<1>2. \/ /\ bill[b].status = "absent"
         /\ OpenBillsOf(s) = {}
         /\ bill' = [bill EXCEPT ![b] = [status |-> "OPEN", session |-> s,
                       at |-> session[s].at, lines |-> LiveOrders(s)]]
      \/ /\ b \in OpenBillsOf(s)
         /\ bill' = [bill EXCEPT ![b] = [bill[b] EXCEPT !.lines = @ \cup LiveOrders(s)]]
  <2>1. /\ bill' = [bill EXCEPT ![b] = IF bill[b].status = "absent"
              THEN [status |-> "OPEN", session |-> s, at |-> session[s].at,
                    lines |-> LiveOrders(s)]
              ELSE [bill[b] EXCEPT !.lines = @ \cup LiveOrders(s)]]
        /\ IF OpenBillsOf(s) = {} THEN bill[b].status = "absent" ELSE b \in OpenBillsOf(s)
    BY DEF GenerateBill
  <2>2. b \in OpenBillsOf(s) => bill[b].status # "absent"
    BY DEF OpenBillsOf
  <2>. QED
    BY <2>1, <2>2
<1>3. bill \in [Bill -> BillRecord] /\ bill[b] \in BillRecord /\ session[s].at \in TableOrNone
  BY DEF TypeOK
<1>4. TypeOK'
  <2>1. bill' \in [Bill -> BillRecord]
    BY <1>1, <1>2, <1>3
  <2>. QED
    BY <2>1 DEF GenerateBill, TypeOK
<1>5. /\ bill'[b].status = "OPEN"
      /\ bill'[b].session = s
      /\ bill'[b].at = session[s].at
      /\ bill'[b].lines \subseteq bill[b].lines \cup LiveOrders(s)
      /\ bill[b].status = "absent" => bill'[b].lines = LiveOrders(s)
      /\ \A c \in Bill \ {b} : bill'[c] = bill[c] /\ c \notin OpenBillsOf(s)
  <2>1. CASE bill[b].status = "absent"
    BY <1>2, <1>3, <2>1 DEF OpenBillsOf
  <2>2. CASE b \in OpenBillsOf(s)
    BY <1>2, <1>3, <2>2 DEF OpenBillsOf, BillStaysWithSession, OneOpenBillPerSession
  <2>. QED
    BY <1>2, <2>1, <2>2
<1> HIDE DEF SessionRecord, OrderRecord, KotRecord, BillRecord, PlacingRecord
<1>6. \A o \in bill'[b].lines : order[o].status # "absent" /\ order[o].session = s
  BY <1>2, <1>5 DEF LiveOrders, BillsOfSessions, BillStaysWithSession, OpenBillsOf
<1>7. BillsOfSessions'
  BY <1>5, <1>6 DEF BillsOfSessions, GenerateBill
<1>8. BillStaysWithSession'
  BY <1>5, <1>6 DEF BillStaysWithSession, GenerateBill
<1>9. OneOpenBillPerSession'
  BY <1>5 DEF OneOpenBillPerSession, OpenBillsOf
<1>10. PlacingIsNew' /\ AbsentIsBare' /\ KotFollowsOrder'
  BY DEF PlacingIsNew, AbsentIsBare, KotFollowsOrder, LiveKots, GenerateBill
<1>. QED
  BY <1>4, <1>7, <1>8, <1>9, <1>10

\* Requests that end bill b, releasing held tickets or not; and those that
\* change only the status of a table.
LEMMA EndBillInv ==
  ASSUME FloorInv, NEW b \in Bill, NEW st \in {"PAID", "CANCELLED"},
         bill[b].status # "absent",
         bill' = [bill EXCEPT ![b].status = st],
         available' \subseteq Table,
         kot' = kot \/ kot' = HeldReleased(bill[b].session),
         UNCHANGED <<session, order, placing>>
  PROVE  FloorInv'
<1> USE DEF FloorInv
<1>1. bill \in [Bill -> BillRecord] /\ kot \in [Order -> KotRecord] /\ order \in [Order -> OrderRecord]
  BY DEF TypeOK
<1>2. kot' \in [Order -> KotRecord]
  <2>1. HeldReleased(bill[b].session) \in [Order -> KotRecord]
    BY <1>1 DEF HeldReleased
  <2>. QED
    BY <1>1, <2>1
<1>3. TypeOK'
  <2>1. bill' \in [Bill -> BillRecord]
    BY <1>1
  <2>. QED
    BY <1>2, <2>1 DEF TypeOK
<1>4. \A c \in Bill :
        /\ UNCHANGED <<bill[c].session, bill[c].at, bill[c].lines>>
        /\ bill'[c].status = "absent" <=> bill[c].status = "absent"
        /\ bill'[c].status = "OPEN" => bill[c].status = "OPEN"
  BY <1>1
<1> HIDE DEF SessionRecord, OrderRecord, KotRecord, BillRecord, PlacingRecord
<1>5. BillsOfSessions'
  BY <1>4 DEF BillsOfSessions
<1>6. BillStaysWithSession'
  BY <1>4 DEF BillStaysWithSession
<1>7. OneOpenBillPerSession'
  BY <1>4 DEF OneOpenBillPerSession
<1>8. \A o \in Order :
        kot'[o] # kot[o] => order[o].status # "absent" /\ kot'[o].at = order[o].at
  <2> TAKE o \in Order
  <2> HAVE kot'[o] # kot[o]
  <2>1. kot' = HeldReleased(bill[b].session)
    OBVIOUS
  <2>2. o \in LiveOrders(bill[b].session) /\ kot'[o] = [status |-> "NEW", at |-> order[o].at]
    BY <2>1 DEF HeldReleased
  <2>. QED
    BY <2>2 DEF LiveOrders
<1>9. PlacingIsNew' /\ AbsentIsBare' /\ KotFollowsOrder'
  BY <1>8 DEF PlacingIsNew, AbsentIsBare, KotFollowsOrder, LiveKots
<1>. QED
  BY <1>3, <1>5, <1>6, <1>7, <1>9

LEMMA TableInv ==
  ASSUME FloorInv, available' \subseteq Table, UNCHANGED <<session, order, kot, bill, placing>>
  PROVE  FloorInv'
  BY DEF FloorInv, TypeOK, PlacingIsNew, BillsOfSessions, BillStaysWithSession,
         OneOpenBillPerSession, AbsentIsBare, KotFollowsOrder, LiveKots

LEMMA StepInv == FloorInv /\ [Next]_vars => FloorInv'
<1> SUFFICES ASSUME FloorInv, [Next]_vars PROVE FloorInv'
  OBVIOUS
<1>1. available \subseteq Table
  BY DEF FloorInv, TypeOK
<1>2. CASE OrderRequests
  BY <1>2, FindSessionInv, PlaceOrderInv, GiveUpOrderInv, PlaceAwayInv, CancelOrderInv,
     UpdateDeliveryInv, UpdateKotInv DEF OrderRequests
<1>3. CASE FloorRequests
  <2>1. ASSUME NEW l \in Table, SetTable(l) PROVE FloorInv'
    BY <1>1, <2>1, TableInv DEF SetTable
  <2>. QED
    BY <1>3, <2>1, TransferInv, MergeInv DEF FloorRequests
<1>4. CASE BillRequests
  <2>1. ASSUME NEW b \in Bill, SettleBill(b) PROVE FloorInv'
    BY <1>1, <2>1, EndBillInv DEF SettleBill
  <2>2. ASSUME NEW b \in Bill, SettleByEdit(b) PROVE FloorInv'
    BY <1>1, <2>2, EndBillInv DEF SettleByEdit
  <2>3. ASSUME NEW b \in Bill, PayAgain(b) PROVE FloorInv'
    BY <1>1, <2>3, TableInv DEF PayAgain
  <2>4. ASSUME NEW b \in Bill, VoidBill(b) PROVE FloorInv'
    BY <1>1, <2>4, EndBillInv DEF VoidBill
  <2>. QED
    BY <1>4, <2>1, <2>2, <2>3, <2>4, GenerateInv DEF BillRequests
<1>5. CASE UNCHANGED vars
  BY <1>1, <1>5, TableInv DEF vars
<1>. QED
  BY <1>2, <1>3, <1>4, <1>5 DEF Next

-----------------------------------------------------------------------------
LEMMA FloorInvariant == Spec => []FloorInv
  BY InitInv, StepInv, PTL DEF Spec

\* Every reachable state of the floor is well typed.
THEOREM FloorTyped == Spec => []TypeOK
<1>1. FloorInv => TypeOK
  BY DEF FloorInv
<1>. QED
  BY <1>1, FloorInvariant, PTL

\* A bill, once generated, stays at the table of its session with all its
\* orders, whatever is transferred, merged, cancelled, voided or revived, and
\* however create_order interleaves with it.
THEOREM BillsStay == Spec => []BillStaysWithSession
<1>1. FloorInv => BillStaysWithSession
  BY DEF FloorInv
<1>. QED
  BY <1>1, FloorInvariant, PTL

\* No order is on two bills that are both still to be paid: two open bills are
\* of two sessions, and the orders of a bill are of its session.
THEOREM NoOrderBilledTwice == Spec => []OneOpenBillPerOrder
<1>1. FloorInv => OneOpenBillPerOrder
  BY DEF FloorInv, TypeOK, BillRecord, BillStaysWithSession, OneOpenBillPerSession,
         OneOpenBillPerOrder
<1>. QED
  BY <1>1, FloorInvariant, PTL

\* A ticket being cooked always names the table of its order.
THEOREM TicketsFollow == Spec => []KotFollowsOrder
<1>1. FloorInv => KotFollowsOrder
  BY DEF FloorInv
<1>. QED
  BY <1>1, FloorInvariant, PTL
=============================================================================
