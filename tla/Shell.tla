-------------------------------- MODULE Shell --------------------------------
(***************************************************************************)
(* The frame around the staff's pages (frontend/src: App.tsx, routes/,     *)
(* components/shell/, config/navigation.ts, features/home): which page a   *)
(* role and the business's modules let a user reach, which links lead      *)
(* there, and what each page then asks of the server.  The guards work     *)
(* from a copy of the modules that is fetched, may be missing and may be   *)
(* out of date; the server has the last word.                              *)
(*                                                                         *)
(* A behaviour follows one signed-in user's tab.  Requests are told apart  *)
(* by the permission that the server asks for.                             *)
(***************************************************************************)
EXTENDS Integers, FiniteSets

CONSTANTS Module,     \* modules that the business may have; any other stays off
          MaxSwitch,  \* bound: what the platform changes about the business
          MaxReq      \* bound: requests under way, besides the modules'

ASSUME ShellBounds ==
  /\ Module \subseteq {"HOTEL_ROOMS", "DELIVERY", "LOYALTY", "ONLINE_PAYMENT"}
  /\ MaxSwitch \in Nat /\ MaxReq \in Nat \ {0}

Role == {"OWNER", "MANAGER", "CASH_COUNTER", "SERVICE_COUNTER", "KITCHEN", "DELIVERY"}
Operational == {"OWNER", "MANAGER"}
Billing == Operational \cup {"CASH_COUNTER"}
Service == Operational \cup {"SERVICE_COUNTER"}

(* The navigation items: who sees each, and the module it belongs to.      *)
None == "none"
NavPaths == {"/", "/pos", "/orders", "/tables", "/rooms", "/kitchen", "/delivery", "/menu",
             "/customers", "/loyalty", "/staff", "/shift", "/billing", "/reports",
             "/integrations", "/feature-flags", "/settings", "/subscription"}

RolesOf(p) ==
  CASE p \in {"/", "/menu", "/reports", "/rooms", "/loyalty"} -> Operational
    [] p \in {"/pos", "/orders"} -> Billing \cup Service
    [] p = "/tables" -> Service
    [] p = "/kitchen" -> Operational \cup {"KITCHEN"}
    [] p = "/delivery" -> {"DELIVERY"}
    [] p \in {"/customers", "/shift", "/billing"} -> Billing
    [] OTHER -> {"OWNER"}

ModuleOf(p) ==
  CASE p = "/rooms" -> "HOTEL_ROOMS"
    [] p = "/delivery" -> "DELIVERY"
    [] p = "/loyalty" -> "LOYALTY"
    [] OTHER -> None

NavItems == [p \in NavPaths |-> [roles |-> RolesOf(p), module |-> ModuleOf(p)]]

Path == DOMAIN NavItems \cup {"/profile", "/404", "/mistyped"}

VARIABLES
  role,       \* of the user
  on,         \* server: modules that the platform enabled
  suspended,  \* server: the subscription has lapsed
  switches,   \* bound: changes of the two so far
  flagsAt,    \* tab: query of the modules: loading, ready or failed
  known,      \* tab: modules that its copy says are enabled
  plan,       \* tab: what the subscription's query said: unknown, fine, behind, refused
  path,       \* tab: address
  came,       \* ghost: the link that led to the address, or None
  reqs        \* requests under way: what is asked, and (ghost) whether, by
              \* the copy of the modules, the server would grant it

serverVars == <<on, suspended, switches>>
tab == <<flagsAt, known, plan, path, came>>
shellVars == <<role, serverVars, tab, reqs>>

-----------------------------------------------------------------------------
(* The server.                                                             *)

RolesFor(api) ==
  CASE api \in {"full", "subscription", "loyalty rules"} -> {"OWNER"}
    [] api \in {"operational", "table admin", "room admin", "loyalty"} -> Operational
    [] api \in {"billing", "online payment"} -> Billing
    [] api = "orders" -> Billing \cup Service
    [] api = "service" -> Service
    [] api = "kitchen" -> Operational \cup {"KITCHEN"}
    [] api = "delivery" -> Operational \cup {"DELIVERY"}
    [] api \in {"any staff", "rooms", "features", "business"} -> Role

ModuleFor(api) ==
  CASE api \in {"rooms", "room admin"} -> "HOTEL_ROOMS"
    [] api = "delivery" -> "DELIVERY"
    [] api \in {"loyalty", "loyalty rules"} -> "LOYALTY"
    [] api = "online payment" -> "ONLINE_PAYMENT"
    [] OTHER -> None

Permitted(api) == role \in RolesFor(api) /\ ModuleFor(api) \in on \cup {None}

(* What the subscription's gate lets through for a suspended business.     *)
Exempt == {"subscription", "business"}
Grants(api) == Permitted(api) /\ (suspended => api \in Exempt)

-----------------------------------------------------------------------------
(* Which page an address shows.                                            *)

RoleAllows(p) == role \in NavItems[p].roles

WaitsUnlessReady(m) ==
  IF flagsAt # "ready" THEN "wait" ELSE IF m \in known THEN "show" ELSE "home"
ModuleVerdict(m) ==
  IF flagsAt = "loading" THEN "wait" ELSE IF m \in known THEN "show" ELSE "home"

(* "/" and the profile are for every role; an address of no page leads to  *)
(* the page that says so.                                                  *)
Verdict(p) ==
  IF p \in {"/", "/profile", "/404"} THEN "show"
  ELSE IF p = "/mistyped" THEN "lost"
  ELSE IF ~RoleAllows(p) THEN "home"
  ELSE IF NavItems[p].module = None THEN "show"
  ELSE ModuleVerdict(NavItems[p].module)

Shown == Verdict(path) = "show"
InShell == path # "/404" /\ Verdict(path) \in {"show", "wait"}

-----------------------------------------------------------------------------
(* The links that the shell and the home page offer.                       *)

EveryNavItem == {p \in DOMAIN NavItems : RoleAllows(p)}
VisibleNavItems == {p \in DOMAIN NavItems : RoleAllows(p) /\ NavItems[p].module \in known \cup {None}}

DashboardCards == {"/orders", "/kitchen", "/billing"}
LiveCards ==
  CASE role = "CASH_COUNTER" -> {"/shift", "/orders", "/billing"}
    [] role = "SERVICE_COUNTER" -> {"/orders", "/tables"}
    [] role = "KITCHEN" -> {"/kitchen"}
    [] role = "DELIVERY" -> {"/delivery"}
QuickLinks == VisibleNavItems \ {"/"}
HomeCards == IF role \in Operational THEN DashboardCards ELSE LiveCards \cup QuickLinks

NoticeRoutes == {"/orders", "/kitchen"}

-----------------------------------------------------------------------------
(* What the pages ask, by reading or by the buttons that they offer.       *)

ShellCalls == {"business", "features", "subscription", "any staff"}

If(condition, apis) == IF condition THEN apis ELSE {}

DashboardCalls == {"operational"}
RoleHomeCalls ==
  If(role = "CASH_COUNTER", {"billing"})
    \cup If(role \in {"CASH_COUNTER", "SERVICE_COUNTER"}, {"orders", "any staff"})
    \cup If(role = "KITCHEN", {"kitchen"})
    \cup If(role = "DELIVERY", {"delivery"})
HomeCalls == IF role \in Operational THEN DashboardCalls ELSE RoleHomeCalls

PosCalls == {"orders", "any staff"} \cup If("HOTEL_ROOMS" \in known, {"rooms"})

TicketsForAll == {"orders", "any staff", "kitchen"} \cup If("HOTEL_ROOMS" \in known, {"rooms"})
OrdersCalls ==
  {"orders", "any staff"}
    \cup If("HOTEL_ROOMS" \in known, {"rooms"})
    \cup If(role \in Operational, {"kitchen"})
    \cup If(role = "SERVICE_COUNTER", {"service"})
OrderDialogCalls ==
  If(role \in Operational, {"operational"})
    \cup If(role \in Service, {"service"})
    \cup If(role \in Billing, {"billing"})

BillingCalls == {"billing", "any staff"} \cup If("HOTEL_ROOMS" \in known, {"rooms"})
BillDialogCalls ==
  If(role \in Billing, {"billing", "online payment"}) \cup If(role \in Operational, {"operational"})

CustomersCalls ==
  {"any staff"} \cup If(role \in Operational /\ "LOYALTY" \in known, {"loyalty"})

LoyaltyCalls == {"loyalty"} \cup If(role = "OWNER", {"loyalty rules"})

PageCalls(p) ==
  CASE p = "/" -> HomeCalls
    [] p = "/pos" -> PosCalls
    [] p = "/orders" -> OrdersCalls \cup OrderDialogCalls \cup BillDialogCalls
    [] p = "/billing" -> BillingCalls \cup BillDialogCalls
    [] p = "/shift" -> {"billing"}
    [] p = "/tables" -> {"any staff", "orders", "service", "table admin"}
    [] p = "/rooms" -> {"rooms", "room admin"}
    [] p = "/kitchen" -> {"kitchen"}
    [] p = "/delivery" -> {"delivery"}
    [] p = "/customers" -> CustomersCalls
    [] p = "/loyalty" -> LoyaltyCalls
    [] p \in {"/menu", "/reports"} -> {"any staff", "operational"}
    [] p \in {"/staff", "/integrations", "/settings"} -> {"any staff", "full"}
    [] OTHER -> {}

Calls == If(InShell, ShellCalls) \cup If(Shown, PageCalls(path))

-----------------------------------------------------------------------------
(* A request is sure when the tab's copy promises no more than is enabled. *)
Asked(api) == [api |-> api, sure |-> known \subseteq on]
Asking(api) == \E q \in reqs : q.api = api
Unsure == {[q EXCEPT !.sure = FALSE] : q \in reqs}

ShellInit ==
  /\ role \in Role /\ on \in SUBSET Module
  /\ suspended \in BOOLEAN /\ switches = 0
  /\ flagsAt = "loading" /\ known = {} /\ plan = "unknown"
  /\ path \in Path /\ came = None
  /\ reqs = {Asked("features"), Asked("subscription")}

(* A page that reads the modules asks for them again when they failed to   *)
(* load: until they are answered, they are loading.                        *)
ReadsModules(p) ==
  NavItems[p].module # None
    \/ p \in {"/", "/pos", "/orders", "/billing", "/customers", "/integrations", "/feature-flags"}

Mount(p) ==
  IF p \in DOMAIN NavItems /\ flagsAt = "failed" /\ ReadsModules(p)
  THEN flagsAt' = "loading" /\ reqs' = reqs \cup {Asked("features")}
  ELSE UNCHANGED <<flagsAt, reqs>>

Goes(p, by) ==
  /\ path' = p /\ came' = by
  /\ Mount(p)
  /\ UNCHANGED <<role, serverVars, known, plan>>

FollowNav == InShell /\ \E p \in VisibleNavItems : Goes(p, "nav")
FollowCard == Shown /\ path = "/" /\ \E p \in HomeCards : Goes(p, "card")
FollowBanner == InShell /\ plan = "behind" /\ Goes("/subscription", "banner")
FollowNotice == InShell /\ \E p \in NoticeRoutes : Goes(p, None)
LeaveNotFound == path = "/404" /\ Goes("/", None)

GuardRedirect ==
  \/ Verdict(path) = "home" /\ Goes("/", None)
  \/ Verdict(path) = "lost" /\ Goes("/404", None)

(* The page is reloaded: the tab starts afresh, as it does when an address *)
(* is typed (ShellInit).  The user has the patience to see a page first.   *)
Reload ==
  /\ Shown
  /\ came' = None
  /\ flagsAt' = "loading" /\ known' = {} /\ plan' = "unknown"
  /\ reqs' = {[api |-> a, sure |-> TRUE] : a \in {"features", "subscription"}}
  /\ UNCHANGED <<role, serverVars, path>>

Ask(api) ==
  /\ api \in Calls /\ ~Asking(api)
  /\ Cardinality({q \in reqs : q.api # "features"}) < MaxReq
  /\ api = "features" => flagsAt = "ready"
  /\ reqs' = reqs \cup {Asked(api)}
  /\ UNCHANGED <<role, serverVars, tab>>

(* Before a plan that lapsed is suspended there are days of grace.         *)
Told == IF suspended THEN {"behind"} ELSE {"fine", "behind"}

(* Only what the shell itself reads is kept of the answers.  A refresh     *)
(* that fails leaves what was read before.                                 *)
Answer(q) ==
  /\ Grants(q.api)
  /\ reqs' = reqs \ {q}
  /\ IF q.api = "features"
     THEN /\ flagsAt' = "ready" /\ known' = on
          /\ came' = IF flagsAt = "ready" /\ known # on THEN None ELSE came
          /\ UNCHANGED plan
     ELSE /\ IF q.api = "subscription" THEN plan' \in Told ELSE UNCHANGED plan
          /\ UNCHANGED <<flagsAt, known, came>>
  /\ UNCHANGED <<role, serverVars, path>>

Fails(q, how) ==
  /\ reqs' = reqs \ {q}
  /\ flagsAt' = IF q.api = "features" /\ flagsAt = "loading" THEN "failed" ELSE flagsAt
  /\ plan' = IF q.api = "subscription" /\ plan \notin {"fine", "behind"} THEN how ELSE plan
  /\ UNCHANGED <<role, serverVars, known, path, came>>
Refuse(q) == ~Grants(q.api) /\ Fails(q, "refused")
Lose(q) == Fails(q, "unknown")

(* The platform's staff change what the business has; time suspends it.    *)
Switch(m) ==
  /\ switches < MaxSwitch /\ switches' = switches + 1
  /\ on' = IF m \in on THEN on \ {m} ELSE on \cup {m}
  /\ reqs' = IF m \in on THEN Unsure ELSE reqs
  /\ UNCHANGED <<role, suspended, tab>>
Lapse ==
  /\ switches < MaxSwitch /\ switches' = switches + 1
  /\ suspended' = ~suspended
  /\ UNCHANGED <<role, on, tab, reqs>>

ShellNext ==
  \/ FollowNav \/ FollowCard \/ FollowBanner \/ FollowNotice \/ LeaveNotFound
  \/ GuardRedirect \/ Reload \/ Lapse
  \/ \E api \in Calls : Ask(api)
  \/ \E q \in reqs : Answer(q) \/ Refuse(q) \/ Lose(q)
  \/ \E m \in Module : Switch(m)

(* The router acts at once, and every request ends, if only by failing.    *)
FlagsEnd == \E q \in reqs : q.api = "features" /\ (Answer(q) \/ Refuse(q) \/ Lose(q))
ShellSpec ==
  /\ ShellInit /\ [][ShellNext]_shellVars
  /\ WF_shellVars(GuardRedirect) /\ WF_shellVars(FlagsEnd)

-----------------------------------------------------------------------------
(* Types; and while the modules load, they are being asked: the spinner of *)
(* routes/FeatureRoute.tsx never waits for nothing.  Before they are there *)
(* nothing counts as enabled.                                              *)
ShellTypeOK ==
  /\ role \in Role /\ on \subseteq Module /\ suspended \in BOOLEAN /\ switches \in 0..MaxSwitch
  /\ flagsAt \in {"loading", "ready", "failed"} /\ known \subseteq Module
  /\ plan \in {"unknown", "fine", "behind", "refused"}
  /\ path \in Path /\ came \in {None, "nav", "card", "banner"}
  /\ flagsAt = "loading" => Asking("features")
  /\ flagsAt # "ready" => known = {}

(* The requests that the code makes although the server will refuse them:  *)
(* the banner's for every role but the owner, the delivery staff's home    *)
(* page's and the bill's online payment without their modules, and the     *)
(* table form offered to the service counter.                              *)
KnownRefusals ==
  {"online payment"}
    \cup (IF role # "OWNER" THEN {"subscription"} ELSE {})
    \cup (IF role = "DELIVERY" THEN {"delivery"} ELSE {})
    \cup (IF role = "SERVICE_COUNTER" THEN {"table admin"} ELSE {})

(* As long as the tab's copy of the modules promises nothing that was      *)
(* switched off, and also while it is missing, no page asks for what the   *)
(* server refuses its user: the role guards, the module guards and the     *)
(* pages' own conditions agree with the permissions of every endpoint      *)
(* (routes/FeatureRoute.tsx, "avoids calling its APIs at all").            *)
AsksWhatItMay ==
  \A q \in reqs : q.sure => Permitted(q.api) \/ q.api \in KnownRefusals

(* Where a menu item, the banner or a card of the home page leads is where *)
(* the user stays, until the copy of the modules changes                   *)
(* (config/navigation.ts); but for the delivery card, below.               *)
LinksLead ==
  came \in {"nav", "banner", "card"} /\ ~(came = "card" /\ path = "/delivery") =>
    Verdict(path) \in {"show", "wait"}

(* The same of every card: "every card here only links to a page this role *)
(* can actually reach" (features/home/RoleHomePage.tsx).  It does not hold *)
(* of the delivery card, which is shown without the module too.            *)
CardsLead == came = "card" => Verdict(path) # "home"

(* Whatever a suspension refuses, an owner's tab can learn of it: the      *)
(* query behind the banner is never itself refused                         *)
(* (main.py, SubscriptionGateMiddleware).                                  *)
OwnerIsTold == role = "OWNER" => plan # "refused"

(* A page is shown again and again: no spinner and no redirection goes on  *)
(* for ever, wherever the user goes and whatever happens to the request    *)
(* for the modules (routes/FeatureRoute.tsx, App.tsx).                     *)
Settles == []<>Shown

(* Nothing is asked or awaited in vain: neither what a user may not have,  *)
(* nor by an owner what would say why, nor modules that nobody asked for.  *)
NothingAskedInVain == ShellTypeOK /\ AsksWhatItMay /\ OwnerIsTold
=============================================================================
