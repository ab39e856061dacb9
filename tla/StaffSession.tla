---------------------------- MODULE StaffSession ----------------------------
(* The login session of a browser: the access token each tab keeps in      *)
(* memory, the refresh token localStorage shares between tabs, and the     *)
(* rotation of refresh tokens by the server.  The restaurant's staff and   *)
(* the platform's own staff have stores, clients and token tables of their *)
(* own, which one page load holds side by side (the two realms).           *)
(* A refresh token and the access token issued with it share a number.     *)
EXTENDS Naturals, FiniteSets

CONSTANTS Tab,      \* browser tabs of one person
          Call,     \* API calls those tabs make
          Realms,   \* the realms the person has an account in
          MaxToken, \* bound: token pairs issued
          MaxLoad   \* bound: page loads

ASSUME BoundAssumption == MaxToken \in Nat /\ MaxLoad \in Nat
ASSUME RealmAssumption == Realms \subseteq {"staff", "platform"}
ASSUME CallAssumption == Call \cap (Realms \X Tab) = {}

Token == 1..MaxToken
NoToken == 0
Boot == Realms \X Tab   \* the bootstrap of a realm in a tab
Refresher == Boot \cup Call

VARIABLES row,     \* server: the refresh_tokens rows, by number
          issued,  \* token pairs issued so far
          stored,  \* localStorage: the refresh token of each realm
          mem,     \* what the stores and clients of a tab hold
          page,    \* the page a tab shows
          loads,   \* page loads so far
          call,    \* API calls
          pend,    \* refresh requests that a page awaits
          stray,   \* tokens in refresh requests whose page is gone
          logout,  \* logout requests
          alarms,  \* history: exchanged tokens that came back, taken for theft
          mine,    \* history: tokens presented by what a tab has loaded
          spent,   \* history: tokens presented by any page
          shared   \* history: tokens presented by two page loads

vars == <<row, issued, stored, mem, page, loads, call, pend, stray, logout,
          alarms, mine, spent, shared>>
server == <<row, issued, alarms>>
shown == <<mine, spent, shared>>

MaybeToken == Token \cup {NoToken}
Row == [realm: Realms \cup {"none"}, is: {"unused", "live", "rotated", "revoked"}]
Store == [access: MaybeToken, refresh: MaybeToken, hydrated: BOOLEAN,
          booted: BOOLEAN, refreshing: BOOLEAN]
Page == [realm: Realms \cup {"none"}, at: {"closed", "login", "app"}]
CallRecord == [at: {"idle", "sent", "queued", "refreshing"},
               realm: Realms \cup {"none"}, tab: Tab \cup {"none"}, with: MaybeToken, retried: BOOLEAN]
Request == [at: {"none", "sent", "granted", "refused"},
            token: MaybeToken, new: MaybeToken]

NoRequest == [at |-> "none", token |-> NoToken, new |-> NoToken]
Sent(t) == [at |-> "sent", token |-> t, new |-> NoToken]
NewStore(t) == [access |-> NoToken, refresh |-> t, hydrated |-> FALSE,
                booted |-> FALSE, refreshing |-> FALSE]

IdleCall == [at |-> "idle", realm |-> "none", tab |-> "none", with |-> NoToken,
             retried |-> FALSE]

RealmOf(a) == IF a \in Call THEN call[a].realm ELSE a[1]
TabOf(a) == IF a \in Call THEN call[a].tab ELSE a[2]
CallsOf(r, b) == {c \in Call : call[c].realm = r /\ call[c].tab = b
                                  /\ call[c].at # "idle"}

Init ==
  /\ row = [t \in Token |-> [realm |-> "none", is |-> "unused"]]
  /\ issued = 0 /\ alarms = {}
  /\ stored = [r \in Realms |-> NoToken]
  /\ mem = [a \in Boot |-> NewStore(NoToken)]
  /\ page = [b \in Tab |-> [realm |-> "none", at |-> "closed"]]
  /\ call = [c \in Call |-> IdleCall]
  /\ loads = 0
  /\ pend = [a \in Refresher |-> NoRequest]
  /\ logout = [a \in Boot |-> NoRequest]
  /\ stray = {} /\ spent = {} /\ shared = {}
  /\ mine = [b \in Tab |-> {}]

-----------------------------------------------------------------------------
(* The stores.  Every write of a store, setHydrated included, puts its      *)
(* refresh token under the realm's key (persist, partialize).              *)

OneStorageKey(r) == Realms
StorageKey(r) == {r}

Persisted(r, t) ==
  stored' = [k \in Realms |-> IF k \in StorageKey(r) THEN t ELSE stored[k]]

WithTokens(m, t) == [m EXCEPT !.access = t, !.refresh = t]
WithoutSession(m) == [m EXCEPT !.access = NoToken, !.refresh = NoToken]

-----------------------------------------------------------------------------
(* The server *)

(* A new pair of tokens of realm r, recorded over the rows rs. *)
IssuePair(rs, r) ==
  /\ issued < MaxToken
  /\ issued' = issued + 1
  /\ row' = [rs EXCEPT ![issued + 1] = [realm |-> r, is |-> "live"]]

(* Revoking everything an account holds. *)
AllRevoked(r) ==
  [t \in Token |-> IF row[t] = [realm |-> r, is |-> "live"]
                   THEN [row[t] EXCEPT !.is = "revoked"] ELSE row[t]]

(* rotate_refresh_token: a live token is exchanged, one that is spent is   *)
(* taken for stolen and revokes the account.                               *)
Rotates(r, t) == t # NoToken /\ row[t] = [realm |-> r, is |-> "live"]

Rotate(r, t) ==
  /\ Rotates(r, t)
  /\ IssuePair([row EXCEPT ![t].is = "rotated"], r)
  /\ UNCHANGED alarms

RefuseToken(r, t) ==
  /\ ~Rotates(r, t)
  /\ IF t # NoToken /\ row[t].realm = r
     THEN /\ row' = AllRevoked(r)
          /\ alarms' = IF row[t].is = "rotated" THEN alarms \cup {t} ELSE alarms
     ELSE UNCHANGED <<row, alarms>>
  /\ UNCHANGED issued

(* The answer of POST /auth/refresh to whoever awaits it. *)
RefreshAtServer(a) ==
  /\ pend[a].at = "sent"
  /\ \/ /\ Rotate(RealmOf(a), pend[a].token)
        /\ pend' = [pend EXCEPT ![a].at = "granted", ![a].new = issued + 1]
     \/ /\ RefuseToken(RealmOf(a), pend[a].token)
        /\ pend' = [pend EXCEPT ![a].at = "refused"]
  /\ UNCHANGED <<stored, mem, page, loads, call, stray, logout, shown>>

(* The request or its answer is lost, or the rate limit answers 429. *)
LoseRefresh(a) ==
  /\ pend[a].at \in {"sent", "granted"}
  /\ pend' = [pend EXCEPT ![a].at = "refused", ![a].new = NoToken]
  /\ UNCHANGED <<server, stored, mem, page, loads, call, stray, logout, shown>>

(* A refresh request that its page did not live to see answered. *)
StrayRefresh(s) ==
  /\ s \in stray
  /\ Rotate(s[1], s[2]) \/ RefuseToken(s[1], s[2])
  /\ stray' = stray \ {s}
  /\ UNCHANGED <<stored, mem, page, loads, call, pend, logout, shown>>

(* reset_password: every active session of the account ends. *)
ResetPassword ==
  /\ "staff" \in Realms
  /\ row' = AllRevoked("staff")
  /\ row' # row
  /\ UNCHANGED <<issued, stored, mem, page, loads, call, pend, stray, logout,
                 alarms, shown>>

-----------------------------------------------------------------------------
(* Pages *)

(* Opening or reloading the tab on a page of realm r: the stores start     *)
(* from localStorage, and what the page before it awaited goes unanswered. *)
LoadPage(r, b, at) ==
  LET awaited == {a \in Refresher : TabOf(a) = b /\ pend[a].at = "sent"} IN
  /\ loads < MaxLoad /\ loads' = loads + 1
  /\ page' = [page EXCEPT ![b] = [realm |-> r, at |-> at]]
  /\ mem' = [a \in Boot |-> IF a[2] = b THEN NewStore(stored[a[1]]) ELSE mem[a]]
  /\ stray' = stray \cup {<<RealmOf(a), pend[a].token, loads>> : a \in awaited}
  /\ pend' = [a \in Refresher |-> IF TabOf(a) = b THEN NoRequest ELSE pend[a]]
  /\ call' = [c \in Call |-> IF call[c].tab = b THEN IdleCall ELSE call[c]]
  /\ logout' = [a \in Boot |-> IF a[2] = b THEN NoRequest ELSE logout[a]]
  /\ mine' = [mine EXCEPT ![b] = {}]
  /\ UNCHANGED <<server, stored, spent, shared>>

OnApp(r, b) == page[b] = [realm |-> r, at |-> "app"]

(* ProtectedRoute renders its page only with an access token. *)
Outlet(r, b) == OnApp(r, b) /\ mem[<<r, b>>].hydrated
                            /\ mem[<<r, b>>].access # NoToken

(* The page that tab b has loaded sends refresh token t. *)
Presents(b, t) ==
  /\ mine' = [mine EXCEPT ![b] = @ \cup {t}]
  /\ spent' = spent \cup {t}
  /\ shared' = IF t \in spent \ mine[b] THEN shared \cup {t} ELSE shared

(* useAuthBootstrap: once per page load, the first protected page exchanges *)
(* the stored refresh token; the spinner stays until that is answered.      *)
Bootstrap(r, b) ==
  LET m == mem[<<r, b>>] IN
  /\ OnApp(r, b) /\ ~m.hydrated /\ ~m.booted
  /\ IF m.refresh = NoToken
     THEN /\ mem' = [mem EXCEPT ![<<r, b>>].booted = TRUE, ![<<r, b>>].hydrated = TRUE]
          /\ Persisted(r, NoToken)
          /\ UNCHANGED <<pend, shown>>
     ELSE /\ mem' = [mem EXCEPT ![<<r, b>>].booted = TRUE]
          /\ pend' = [pend EXCEPT ![<<r, b>>] = Sent(m.refresh)]
          /\ Presents(b, m.refresh)
          /\ UNCHANGED stored
  /\ UNCHANGED <<server, page, loads, call, stray, logout>>

(* Hydrated: what is left to do once the bootstrap was answered, or failed. *)
Hydrated(m) == [m EXCEPT !.hydrated = TRUE]

Bootstrapped(r, b) ==
  LET a == <<r, b>> IN
  /\ \/ /\ pend[a].at = "granted"
        /\ mem' = [mem EXCEPT ![a] = Hydrated(WithTokens(@, pend[a].new))]
        /\ Persisted(r, pend[a].new)
     \/ /\ pend[a].at = "refused"
        /\ mem' = [mem EXCEPT ![a] = Hydrated(WithoutSession(@))]
        /\ Persisted(r, NoToken)
  /\ pend' = [pend EXCEPT ![a] = NoRequest]
  /\ UNCHANGED <<server, page, loads, call, stray, logout, shown>>

(* ProtectedRoute sends a page without an access token to the login page.  *)
Redirect(r, b) ==
  /\ OnApp(r, b) /\ mem[<<r, b>>].hydrated /\ mem[<<r, b>>].access = NoToken
  /\ page' = [page EXCEPT ![b].at = "login"]
  /\ UNCHANGED <<server, stored, mem, loads, call, pend, stray, logout, shown>>

(* LoginPage: the password is right; one that is not changes nothing here. *)
Login(r, b) ==
  /\ page[b] = [realm |-> r, at |-> "login"]
  /\ IssuePair(row, r)
  /\ mem' = [mem EXCEPT ![<<r, b>>] = WithTokens(@, issued + 1)]
  /\ Persisted(r, issued + 1)
  /\ page' = [page EXCEPT ![b].at = "app"]
  /\ UNCHANGED <<alarms, loads, call, pend, stray, logout, shown>>

(* useLogout: the server is told, and whatever it answers the store is     *)
(* cleared; meanwhile the page and its calls go on.                        *)
LogoutSend(r, b) ==
  /\ Outlet(r, b) /\ logout[<<r, b>>].at = "none"
  /\ logout' = [logout EXCEPT ![<<r, b>>] = Sent(mem[<<r, b>>].refresh)]
  /\ UNCHANGED <<server, stored, mem, page, loads, call, pend, stray, shown>>

LogoutAtServer(a) ==
  LET t == logout[a].token IN
  /\ logout[a].at = "sent"
  /\ row' = IF t # NoToken /\ row[t].is = "live"
            THEN [row EXCEPT ![t].is = "revoked"] ELSE row
  /\ logout' = [logout EXCEPT ![a].at = "granted"]
  /\ UNCHANGED <<issued, alarms, stored, mem, page, loads, call, pend, stray, shown>>

LogoutSettle(a) ==
  /\ logout[a].at # "none"
  /\ mem' = [mem EXCEPT ![a] = WithoutSession(@)]
  /\ Persisted(a[1], NoToken)
  /\ logout' = [logout EXCEPT ![a] = NoRequest]
  /\ UNCHANGED <<server, page, loads, call, pend, stray, shown>>

-----------------------------------------------------------------------------
(* API calls *)

IssueCall(r, b, c) ==
  /\ Outlet(r, b) /\ call[c].at = "idle"
  /\ call' = [call EXCEPT ![c] = [at |-> "sent", realm |-> r, tab |-> b,
                 with |-> mem[<<r, b>>].access, retried |-> FALSE]]
  /\ UNCHANGED <<server, stored, mem, page, loads, pend, stray, logout, shown>>

Ended(c) == call' = [call EXCEPT ![c] = IdleCall]

(* The call is answered, or fails with an error other than 401.            *)
Answered(c) ==
  /\ call[c].at = "sent"
  /\ Ended(c)
  /\ UNCHANGED <<server, stored, mem, page, loads, pend, stray, logout, shown>>

(* The interceptor.  An access token expires with time, so any call may be  *)
(* answered 401: the first one refreshes, those that come meanwhile wait in *)
(* the queue, and a call that was replayed once is given up.               *)
NeverInProgress(a) == FALSE
RefreshInProgress(a) == mem[a].refreshing

Rejected(c) ==
  LET a == <<call[c].realm, call[c].tab>> IN
  /\ call[c].at = "sent"
  /\ \/ /\ call[c].retried
        /\ Ended(c)
        /\ UNCHANGED <<stored, mem, pend, shown>>
     \/ /\ ~call[c].retried /\ RefreshInProgress(a)
        /\ call' = [call EXCEPT ![c].at = "queued", ![c].retried = TRUE]
        /\ UNCHANGED <<stored, mem, pend, shown>>
     \/ /\ ~call[c].retried /\ ~RefreshInProgress(a)
        /\ mem[a].refresh = NoToken
        /\ Ended(c)
        /\ mem' = [mem EXCEPT ![a] = WithoutSession(@)]
        /\ Persisted(a[1], NoToken)
        /\ UNCHANGED <<pend, shown>>
     \/ /\ ~call[c].retried /\ ~RefreshInProgress(a)
        /\ mem[a].refresh # NoToken
        /\ call' = [call EXCEPT ![c].at = "refreshing", ![c].retried = TRUE]
        /\ mem' = [mem EXCEPT ![a].refreshing = TRUE]
        /\ pend' = [pend EXCEPT ![c] = Sent(mem[a].refresh)]
        /\ Presents(a[2], mem[a].refresh)
        /\ UNCHANGED stored
  /\ UNCHANGED <<server, page, loads, stray, logout>>

(* flushQueue: the refreshing call and those in the queue are replayed with *)
(* the new token, or all fail.                                              *)
FlushedOnlySelf(a, c) == {c}
Flushed(a, c) == {c} \cup {x \in CallsOf(a[1], a[2]) : call[x].at = "queued"}

Refreshed(c) ==
  LET a == <<call[c].realm, call[c].tab>> IN
  /\ \/ /\ pend[c].at = "granted"
        /\ mem' = [mem EXCEPT ![a] = [WithTokens(@, pend[c].new) EXCEPT !.refreshing = FALSE]]
        /\ Persisted(a[1], pend[c].new)
        /\ call' = [x \in Call |-> IF x \in Flushed(a, c)
                      THEN [call[x] EXCEPT !.at = "sent", !.with = pend[c].new]
                      ELSE call[x]]
     \/ /\ pend[c].at = "refused"
        /\ mem' = [mem EXCEPT ![a] = [WithoutSession(@) EXCEPT !.refreshing = FALSE]]
        /\ Persisted(a[1], NoToken)
        /\ call' = [x \in Call |-> IF x \in Flushed(a, c)
                      THEN IdleCall ELSE call[x]]
  /\ pend' = [pend EXCEPT ![c] = NoRequest]
  /\ UNCHANGED <<server, page, loads, stray, logout, shown>>

-----------------------------------------------------------------------------
(* The platform's pages and client are written a second time, for its      *)
(* store and its endpoints.                                                *)

InPlatform == "platform" \in Realms
PlatformBootstrap(b) == InPlatform /\ Bootstrap("platform", b)
PlatformBootstrapped(b) == InPlatform /\ Bootstrapped("platform", b)
PlatformRedirect(b) == InPlatform /\ Redirect("platform", b)
PlatformLogin(b) == InPlatform /\ Login("platform", b)
PlatformLogoutSend(b) == InPlatform /\ LogoutSend("platform", b)
PlatformLogoutSettle(b) == InPlatform /\ LogoutSettle(<<"platform", b>>)
PlatformRejected(c) == call[c].realm = "platform" /\ Rejected(c)
PlatformRefreshed(c) == call[c].realm = "platform" /\ Refreshed(c)

StaffStep(b) ==
  /\ "staff" \in Realms
  /\ \/ Bootstrap("staff", b) \/ Bootstrapped("staff", b)
     \/ Redirect("staff", b) \/ Login("staff", b)
     \/ LogoutSend("staff", b) \/ LogoutSettle(<<"staff", b>>)

PlatformStep(b) ==
  \/ PlatformBootstrap(b) \/ PlatformBootstrapped(b) \/ PlatformRedirect(b)
  \/ PlatformLogin(b) \/ PlatformLogoutSend(b) \/ PlatformLogoutSettle(b)

CallStep(c) ==
  \/ Answered(c)
  \/ call[c].realm = "staff" /\ (Rejected(c) \/ Refreshed(c))
  \/ PlatformRejected(c) \/ PlatformRefreshed(c)

ServerStep ==
  \/ \E a \in Refresher : RefreshAtServer(a) \/ LoseRefresh(a)
  \/ \E s \in stray : StrayRefresh(s)
  \/ \E a \in Boot : LogoutAtServer(a)
  \/ ResetPassword

Next ==
  \/ ServerStep
  \/ \E b \in Tab : StaffStep(b) \/ PlatformStep(b)
  \/ \E c \in Call : CallStep(c)
  \/ \E r \in Realms, b \in Tab : \/ \E at \in {"login", "app"} : LoadPage(r, b, at)
                                  \/ \E c \in Call : IssueCall(r, b, c)

Spec == Init /\ [][Next]_vars

-----------------------------------------------------------------------------
(* Properties *)

(* Types of the stores, the requests and the rows; the rows are those of   *)
(* the tokens issued.                                                      *)
TypeOK ==
  /\ \A t \in Token : row[t].is = "unused" <=> t > issued
  /\ row \in [Token -> Row]
  /\ issued \in 0..MaxToken /\ loads \in 0..MaxLoad
  /\ stored \in [Realms -> MaybeToken]
  /\ mem \in [Boot -> Store]
  /\ page \in [Tab -> Page]
  /\ call \in [Call -> CallRecord]
  /\ pend \in [Refresher -> Request] /\ logout \in [Boot -> Request]
  /\ stray \subseteq Realms \X Token \X (0..MaxLoad)
  /\ alarms \subseteq Token /\ spent \subseteq Token /\ shared \subseteq Token
  /\ mine \in [Tab -> SUBSET Token]

(* An exchanged refresh token comes back to the server, which takes it for *)
(* stolen and ends every session of the account, only if two page loads    *)
(* have sent it: whatever calls, expiries, losses and logouts overlap, one *)
(* page never exchanges a token twice (isRefreshing and the queue of       *)
(* api/client.ts, bootstrapPromise of useAuthBootstrap.ts).                *)
ReuseNeedsTwoLoads == alarms \subseteq shared

(* A platform session and a business session never collide in one browser: *)
(* what a realm's store holds, in memory or in localStorage, is its own.   *)
RealmsApart ==
  /\ \A a \in Boot : mem[a].refresh # NoToken => row[mem[a].refresh].realm = a[1]
  /\ \A r \in Realms : stored[r] # NoToken => row[stored[r]].realm = r

(* No call waits for nothing: those in the queue have a call of their own   *)
(* page refreshing, which has a request under way, and the page refreshes   *)
(* for one call at a time; a page that shows its spinner has yet to start   *)
(* its bootstrap or awaits it.                                              *)
WaitsForRefresh ==
  /\ \A a \in Boot :
       LET refreshers == {x \in CallsOf(a[1], a[2]) : call[x].at = "refreshing"} IN
       /\ Cardinality(refreshers) = (IF mem[a].refreshing THEN 1 ELSE 0)
       /\ \A x \in refreshers : pend[x].at # "none"
       /\ ~mem[a].refreshing => \A x \in CallsOf(a[1], a[2]) : call[x].at # "queued"
       /\ mem[a].booted /\ ~mem[a].hydrated => pend[a].at # "none"

(* The stores are well formed and hold, each, its own realm's session.     *)
StoresInv == TypeOK /\ RealmsApart
-----------------------------------------------------------------------------
(* The inductive invariant behind these properties.                        *)

Sending(a) == pend[a].at = "sent"
Granted(a) == pend[a].at = "granted"
OfPage(c, a) == call[c].realm = a[1] /\ call[c].tab = a[2]

(* A call is of a page that has shown its outlet; those that wait for a    *)
(* token have one call of that page that fetches it; a page that has begun *)
(* its bootstrap awaits it.                                                *)
CallsOfPages ==
  \A c \in Call : call[c].at # "idle" =>
    /\ call[c].realm \in Realms /\ call[c].tab \in Tab
    /\ mem[<<call[c].realm, call[c].tab>>].hydrated

WaitersHaveRefresher ==
  /\ \A c \in Call : pend[c].at # "none" <=> call[c].at = "refreshing"
  /\ \A a \in Boot : pend[a].at # "none" <=> mem[a].booted /\ ~mem[a].hydrated
  /\ \A a \in Boot, c \in Call :
       call[c].at \in {"queued", "refreshing"} /\ OfPage(c, a) => mem[a].refreshing
  /\ \A a \in Boot :
       mem[a].refreshing => \E c \in Call : call[c].at = "refreshing" /\ OfPage(c, a)
  /\ \A a \in Boot, c, d \in Call :
       /\ call[c].at = "refreshing" /\ call[d].at = "refreshing"
       /\ OfPage(c, a) /\ OfPage(d, a)
       => c = d

(* What a page holds, or is about to be given, was issued for its realm;   *)
(* what it is about to be given nobody has seen yet.                       *)
IssuedFor(t, r) == t \in 1..issued /\ row[t].realm = r

TokensOfRealm ==
  /\ \A a \in Boot : mem[a].refresh # NoToken => IssuedFor(mem[a].refresh, a[1])
  /\ \A r \in Realms : stored[r] # NoToken => IssuedFor(stored[r], r)
  /\ \A a \in Refresher : Granted(a) => IssuedFor(pend[a].new, RealmOf(a))
  /\ spent \subseteq 1..issued

GrantedIsUnseen ==
  \A a \in Refresher : Granted(a) =>
    /\ pend[a].new \notin spent
    /\ \A x \in Boot : mem[x].refresh # pend[a].new
    /\ \A r \in Realms : stored[r] # pend[a].new
    /\ \A x \in Refresher : x # a /\ Granted(x) => pend[x].new # pend[a].new

(* A page that has sent the token it holds awaits the answer.              *)
SentOnce ==
  /\ \A b \in Tab : mine[b] \subseteq spent
  /\ \A a \in Boot : mem[a].refresh \in mine[a[2]] => mem[a].refreshing \/ pend[a].at # "none"

(* Of two requests with one token, or one for a token already exchanged,   *)
(* a second page load has sent one.                                        *)
FlyingIsSpent ==
  /\ \A a \in Refresher : Sending(a) => pend[a].token \in spent
  /\ \A s \in stray : s[2] \in spent
  /\ \A t \in Token : row[t].is = "rotated" => t \in spent

SecondIsShared ==
  /\ \A a \in Refresher : Sending(a) /\ row[pend[a].token].is = "rotated" => pend[a].token \in shared
  /\ \A s \in stray : row[s[2]].is = "rotated" => s[2] \in shared
  /\ \A a, x \in Refresher :
       Sending(a) /\ Sending(x) /\ pend[a].token = pend[x].token /\ a # x => pend[a].token \in shared
  /\ \A a \in Refresher, s \in stray : Sending(a) /\ pend[a].token = s[2] => s[2] \in shared
  /\ \A s, u \in stray : s # u /\ s[2] = u[2] => s[2] \in shared

PagesInv == CallsOfPages /\ WaitersHaveRefresher
TokensInv == TokensOfRealm /\ GrantedIsUnseen /\ SentOnce
SharedInv == FlyingIsSpent /\ SecondIsShared /\ ReuseNeedsTwoLoads
SessionInv == TypeOK /\ PagesInv /\ TokensInv /\ SharedInv
=============================================================================
