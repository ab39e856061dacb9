-------------------------- MODULE StaffSessionProofs --------------------------
(***************************************************************************)
(* What StaffSession guarantees for any number of tabs, calls, page loads  *)
(* and tokens: a token is exchanged twice only by two page loads, realms   *)
(* stay apart, and no call waits for nothing.                              *)
(* SessionInv is inductive.  Its parts are judged apart: what pages wait   *)
(* for (PagesInv), what they hold (TokensInv), what is under way           *)
(* (SharedInv); most actions disturb one or two of them.                   *)
(* What a session opens to its user is Shell's: which pages, and what they *)
(* may ask of the server.  The last part proves it: ShellInv is inductive, *)
(* for any modules and switches.                                           *)
(***************************************************************************)
EXTENDS StaffSession, Shell, FiniteSetTheorems, TLAPS

LEMMA BootsAndCalls ==
  /\ \A r \in Realms, b \in Tab :
       <<r, b>> \in Boot /\ <<r, b>>[1] = r /\ <<r, b>>[2] = b
  /\ \A a \in Boot : a[1] \in Realms /\ a[2] \in Tab /\ a = <<a[1], a[2]>>
  /\ \A a \in Boot : a \in Refresher /\ a \notin Call /\ RealmOf(a) = a[1] /\ TabOf(a) = a[2]
  /\ \A c \in Call : /\ c \in Refresher /\ c \notin Boot
                     /\ RealmOf(c) = call[c].realm /\ TabOf(c) = call[c].tab
  BY CallAssumption DEF Boot, Refresher, RealmOf, TabOf

LEMMA InitInv == Init => SessionInv
<1> SUFFICES ASSUME Init PROVE SessionInv
  OBVIOUS
<1> USE BoundAssumption DEF Init, NoToken, IdleCall, NoRequest, NewStore
<1>1. TypeOK
  BY DEF TypeOK, Token, MaybeToken, Row, Store, Page, CallRecord, Request, Boot, Refresher
<1>2. /\ \A a \in Refresher : pend[a].at = "none"
      /\ \A c \in Call : call[c].at = "idle"
      /\ \A a \in Boot : mem[a].refresh = NoToken /\ ~mem[a].refreshing /\ ~mem[a].booted
  OBVIOUS
<1>3. PagesInv
  BY <1>2, BootsAndCalls DEF PagesInv, CallsOfPages, WaitersHaveRefresher
<1>4. TokensInv
  BY <1>2 DEF TokensInv, TokensOfRealm, GrantedIsUnseen, SentOnce, Granted, Boot
<1>5. SharedInv
  BY <1>2 DEF SharedInv, FlyingIsSpent, SecondIsShared, ReuseNeedsTwoLoads, Sending
<1>. QED
  BY <1>1, <1>3, <1>4, <1>5 DEF SessionInv

-----------------------------------------------------------------------------
(* Frames.                                                                 *)

\* Pages wait for what they waited for.
LEMMA PagesFrame ==
  ASSUME PagesInv, UNCHANGED call,
         \A a \in Boot : /\ mem'[a].hydrated = mem[a].hydrated
                         /\ mem'[a].booted = mem[a].booted
                         /\ mem'[a].refreshing = mem[a].refreshing,
         \A a \in Refresher : pend'[a].at # "none" <=> pend[a].at # "none"
  PROVE  PagesInv'
<1>1. CallsOfPages'
  BY BootsAndCalls DEF PagesInv, CallsOfPages
<1>2. WaitersHaveRefresher'
  BY BootsAndCalls DEF PagesInv, WaitersHaveRefresher, OfPage
<1>. QED
  BY <1>1, <1>2 DEF PagesInv

LEMMA RealmsStay ==
  ASSUME UNCHANGED call, NEW a \in Refresher
  PROVE  RealmOf(a)' = RealmOf(a) /\ TabOf(a)' = TabOf(a)
  BY DEF RealmOf, TabOf

\* Rows stay of their realm; pages hold what they held.
LEMMA TokensStay ==
  ASSUME TypeOK, TokensInv, UNCHANGED <<stored, mem, spent, mine>>, issued' = issued,
         \A t \in Token : row'[t].realm = row[t].realm,
         \A a \in Refresher :
           /\ pend'[a].at = "none" <=> pend[a].at = "none"
           /\ Granted(a)' => Granted(a) /\ pend'[a].new = pend[a].new
           /\ pend[a].at # "none" => RealmOf(a)' = RealmOf(a)
  PROVE  TokensInv'
<1>1. \A t, r : IssuedFor(t, r) => IssuedFor(t, r)'
  BY BoundAssumption DEF TypeOK, IssuedFor, Token
<1>2. \A a \in Refresher : Granted(a) => pend[a].at # "none"
  BY DEF Granted
<1>3. TokensOfRealm'
  BY <1>1, <1>2 DEF TokensInv, TokensOfRealm
<1>4. GrantedIsUnseen'
  BY DEF TokensInv, GrantedIsUnseen
<1>5. SentOnce'
  BY BootsAndCalls DEF TokensInv, SentOnce
<1>. QED
  BY <1>3, <1>4, <1>5 DEF TokensInv

LEMMA TokensFrame ==
  ASSUME TypeOK, TokensInv, UNCHANGED <<stored, mem, spent, mine, call>>, issued' = issued,
         \A t \in Token : row'[t].realm = row[t].realm,
         \A a \in Refresher :
           /\ pend'[a].at = "none" <=> pend[a].at = "none"
           /\ Granted(a)' => Granted(a) /\ pend'[a].new = pend[a].new
  PROVE  TokensInv'
  BY TokensStay, RealmsStay

\* Nothing new is under way, nothing more was exchanged.
LEMMA SharedGrows ==
  ASSUME SessionInv, stray' \subseteq stray, UNCHANGED <<spent, shared>>, alarms' \subseteq shared,
         \A t \in Token : row'[t].is = "rotated" => row[t].is = "rotated",
         \A a \in Refresher :
           Sending(a)' => Sending(a) /\ pend'[a].token = pend[a].token
  PROVE  SharedInv'
<1> USE DEF SessionInv, SharedInv
<1>1. \A a \in Refresher : Sending(a)' => pend[a].token \in Token
  BY DEF FlyingIsSpent, TypeOK
<1>2. \A s \in stray : s[2] \in Token
  BY DEF TypeOK
<1>3. FlyingIsSpent'
  BY DEF FlyingIsSpent
<1>4. SecondIsShared'
  BY <1>1, <1>2 DEF SecondIsShared
<1>. QED
  BY <1>3, <1>4 DEF ReuseNeedsTwoLoads

LEMMA SharedFrame ==
  ASSUME SessionInv, UNCHANGED <<stray, alarms, spent, shared>>,
         \A t \in Token : row'[t].is = "rotated" => row[t].is = "rotated",
         \A a \in Refresher :
           Sending(a)' => Sending(a) /\ pend'[a].token = pend[a].token
  PROVE  SharedInv'
<1>1. alarms' \subseteq shared
  BY DEF SessionInv, SharedInv, ReuseNeedsTwoLoads
<1>. QED
  BY <1>1, SharedGrows


-----------------------------------------------------------------------------
(* The server.                                                             *)

\* Rows after a refused token: no realm changes, nothing is exchanged.
LEMMA RevokedRows ==
  ASSUME TypeOK, NEW r
  PROVE  /\ AllRevoked(r) \in [Token -> Row]
         /\ \A t \in Token : /\ AllRevoked(r)[t].realm = row[t].realm
                             /\ AllRevoked(r)[t].is = "rotated" <=> row[t].is = "rotated"
                             /\ AllRevoked(r)[t].is = "unused" <=> row[t].is = "unused"
  BY DEF TypeOK, Row, AllRevoked

\* Rows after a token was issued.
LEMMA IssuedRows ==
  ASSUME TypeOK, NEW r \in Realms, NEW rs \in [Token -> Row], IssuePair(rs, r),
         \A t \in Token : rs[t].realm = row[t].realm /\ (rs[t].is = "unused" <=> row[t].is = "unused")
  PROVE  /\ row' \in [Token -> Row] /\ issued' \in 0..MaxToken
         /\ \A t \in Token : row'[t].is = "unused" <=> t > issued'
         /\ issued + 1 \in Token /\ issued' = issued + 1 /\ issued \in Nat
         /\ \A t \in Token : t # issued + 1 => row'[t] = rs[t]
         /\ row'[issued + 1] = [realm |-> r, is |-> "live"]
         /\ \A t, x : IssuedFor(t, x) => IssuedFor(t, x)'
         /\ \A t : t = issued + 1 => IssuedFor(t, r)' /\ \A x : ~IssuedFor(t, x)
<1>1. /\ issued + 1 \in Token /\ issued' = issued + 1 /\ issued \in Nat /\ issued' \in 0..MaxToken
  BY BoundAssumption DEF IssuePair, TypeOK, Token
<1>2. /\ row' \in [Token -> Row]
      /\ \A t \in Token : t # issued + 1 => row'[t] = rs[t]
      /\ row'[issued + 1] = [realm |-> r, is |-> "live"]
  BY <1>1 DEF IssuePair, Row
<1>3. \A t \in Token : row'[t].is = "unused" <=> t > issued'
  BY <1>1, <1>2 DEF TypeOK, Token
<1>4. \A t, x : IssuedFor(t, x) => t \in Token /\ t # issued + 1
  BY <1>1, BoundAssumption DEF IssuedFor, Token, TypeOK
<1>5. \A t, x : IssuedFor(t, x) => IssuedFor(t, x)'
  BY <1>1, <1>2, <1>4 DEF IssuedFor
<1>6. \A t : t = issued + 1 => IssuedFor(t, r)'
  BY <1>1, <1>2 DEF IssuedFor
<1>7. \A t : t = issued + 1 => \A x : ~IssuedFor(t, x)
  BY <1>1 DEF IssuedFor
<1>. QED
  BY <1>1, <1>2, <1>3, <1>5, <1>6, <1>7

\* A row is revoked, nobody else notices.
LEMMA RowsOnly ==
  ASSUME SessionInv, UNCHANGED <<issued, alarms, stored, mem, page, loads, call, pend, stray, shown>>,
         logout' \in [Boot -> Request], row' \in [Token -> Row],
         \A t \in Token : /\ row'[t].realm = row[t].realm
                          /\ row'[t].is = "rotated" <=> row[t].is = "rotated"
                          /\ row'[t].is = "unused" <=> row[t].is = "unused"
  PROVE  SessionInv'
<1> USE DEF shown
<1>1. TypeOK'
  BY DEF SessionInv, TypeOK
<1>2. PagesInv'
  BY PagesFrame DEF SessionInv
<1>3. TokensInv'
  BY TokensFrame DEF SessionInv, Granted
<1>4. SharedInv'
  BY SharedFrame DEF Sending
<1>. QED
  BY <1>1, <1>2, <1>3, <1>4 DEF SessionInv

LEMMA ResetPasswordInv ==
  ASSUME SessionInv, ResetPassword
  PROVE  SessionInv'
  BY RowsOnly, RevokedRows DEF SessionInv, ResetPassword, TypeOK

LEMMA LogoutAtServerInv ==
  ASSUME SessionInv, NEW a \in Boot, LogoutAtServer(a)
  PROVE  SessionInv'
<1>1. logout[a] \in Request /\ logout[a].token \in MaybeToken
  BY DEF SessionInv, TypeOK, Request
<1>2. logout' \in [Boot -> Request]
  BY <1>1 DEF SessionInv, TypeOK, LogoutAtServer, Request
<1>3. /\ row' \in [Token -> Row]
      /\ \A t \in Token : /\ row'[t].realm = row[t].realm
                          /\ row'[t].is = "rotated" <=> row[t].is = "rotated"
                          /\ row'[t].is = "unused" <=> row[t].is = "unused"
  BY <1>1 DEF SessionInv, TypeOK, LogoutAtServer, Row, MaybeToken
<1>. QED
  BY <1>2, <1>3, RowsOnly DEF LogoutAtServer

LEMMA LoseRefreshInv ==
  ASSUME SessionInv, NEW a \in Refresher, LoseRefresh(a)
  PROVE  SessionInv'
<1> USE DEF LoseRefresh, server, shown
<1>0. pend[a] \in Request /\ NoToken \in MaybeToken
  BY DEF SessionInv, TypeOK, MaybeToken
<1>1. /\ pend' \in [Refresher -> Request]
      /\ pend'[a].at = "refused"
      /\ \A x \in Refresher : x # a => pend'[x] = pend[x]
  BY <1>0 DEF SessionInv, TypeOK, Request
<1>2. TypeOK'
  BY <1>1 DEF SessionInv, TypeOK
<1>3. PagesInv'
  BY <1>1, PagesFrame DEF SessionInv
<1>4. TokensInv'
  BY <1>1, TokensFrame DEF SessionInv, Granted
<1>5. SharedInv'
  BY <1>1, SharedFrame DEF Sending
<1>. QED
  BY <1>2, <1>3, <1>4, <1>5 DEF SessionInv

\* The rows after an exchange of token t.
LEMMA RotatedRows ==
  ASSUME TypeOK, NEW r \in Realms, NEW t \in Token, Rotate(r, t)
  PROVE  /\ row' \in [Token -> Row] /\ issued' \in 0..MaxToken /\ alarms' = alarms
         /\ \A u \in Token : row'[u].is = "unused" <=> u > issued'
         /\ issued + 1 \in Token /\ issued' = issued + 1 /\ issued \in Nat
         /\ \A u \in Token : row'[u].is = "rotated" => u = t \/ row[u].is = "rotated"
         /\ \A u, x : IssuedFor(u, x) => IssuedFor(u, x)'
         /\ \A u : u = issued + 1 => IssuedFor(u, r)' /\ \A x : ~IssuedFor(u, x)
<1> DEFINE rs == [row EXCEPT ![t].is = "rotated"]
<1>1. row[t] = [realm |-> r, is |-> "live"] /\ row \in [Token -> Row]
  BY DEF Rotate, Rotates, TypeOK
<1>2. /\ rs \in [Token -> Row] /\ rs[t] = [realm |-> r, is |-> "rotated"]
      /\ \A u \in Token : u # t => rs[u] = row[u]
  BY <1>1 DEF Row
<1>3. \A u \in Token : rs[u].realm = row[u].realm /\ (rs[u].is = "unused" <=> row[u].is = "unused")
  BY <1>1, <1>2
<1>4. IssuePair(rs, r) /\ alarms' = alarms
  BY DEF Rotate
<1> HIDE DEF rs
<1>5. /\ \A u \in Token : u # issued + 1 => row'[u] = rs[u]
      /\ row'[issued + 1] = [realm |-> r, is |-> "live"]
  BY <1>2, <1>3, <1>4, IssuedRows
<1>6. \A u \in Token : row'[u].is = "rotated" => u = t \/ row[u].is = "rotated"
  BY <1>2, <1>5
<1>. QED
  BY <1>2, <1>3, <1>4, <1>6, IssuedRows

\* The rows after token t was refused.
LEMMA RefusedRows ==
  ASSUME TypeOK, NEW r, NEW t \in Token, RefuseToken(r, t)
  PROVE  /\ row' \in [Token -> Row] /\ issued' = issued
         /\ \A u \in Token : /\ row'[u].realm = row[u].realm
                             /\ row'[u].is = "rotated" <=> row[u].is = "rotated"
                             /\ row'[u].is = "unused" <=> row[u].is = "unused"
         /\ alarms' = alarms \/ (alarms' = alarms \cup {t} /\ row[t].is = "rotated")
  BY RevokedRows DEF RefuseToken, TypeOK

\* Whoever awaits an answer is of a realm, and sent a token.
LEMMA SendersKnown ==
  ASSUME SessionInv, NEW a \in Refresher, pend[a].at # "none"
  PROVE  /\ RealmOf(a) \in Realms /\ TabOf(a) \in Tab
         /\ Sending(a) => pend[a].token \in Token
<1>1. RealmOf(a) \in Realms /\ TabOf(a) \in Tab
  <2>1. CASE a \in Call
    <3>1. call[a].at # "idle"
      BY <2>1 DEF SessionInv, PagesInv, WaitersHaveRefresher
    <3>2. call[a].realm \in Realms /\ call[a].tab \in Tab
      BY <2>1, <3>1 DEF SessionInv, PagesInv, CallsOfPages
    <3>. QED
      BY <2>1, <3>2 DEF RealmOf, TabOf
  <2>2. CASE a \in Boot
    BY <2>2, BootsAndCalls
  <2>. QED
    BY <2>1, <2>2 DEF Refresher
<1>2. Sending(a) => pend[a].token \in Token
  BY DEF SessionInv, SharedInv, FlyingIsSpent, TypeOK
<1>. QED
  BY <1>1, <1>2

\* Token t was exchanged by one request; another with it is a second page's.
LEMMA ExchangedInv ==
  ASSUME SessionInv, NEW t \in spent, UNCHANGED <<alarms, spent, shared>>,
         stray' \subseteq stray,
         \A u \in Token : row'[u].is = "rotated" => u = t \/ row[u].is = "rotated",
         \A x \in Refresher : Sending(x)' =>
           /\ Sending(x) /\ pend'[x].token = pend[x].token
           /\ pend[x].token = t => t \in shared,
         \A s \in stray' : s[2] = t => t \in shared
  PROVE  SharedInv'
<1> USE DEF SessionInv, SharedInv
<1>1. \A x \in Refresher : Sending(x)' => pend[x].token \in Token
  BY SendersKnown DEF Sending
<1>2. \A s \in stray : s[2] \in Token
  BY DEF TypeOK
<1>3. FlyingIsSpent'
  BY DEF FlyingIsSpent
<1>4. SecondIsShared'
  BY <1>1, <1>2 DEF SecondIsShared
<1>. QED
  BY <1>3, <1>4 DEF ReuseNeedsTwoLoads

LEMMA GrantInv ==
  ASSUME SessionInv, NEW a \in Refresher, RefreshAtServer(a), Rotate(RealmOf(a), pend[a].token),
         pend' = [pend EXCEPT ![a].at = "granted", ![a].new = issued + 1]
  PROVE  SessionInv'
<1> DEFINE t == pend[a].token
           n == issued + 1
<1>0. UNCHANGED <<stored, mem, page, loads, call, stray, logout, mine, spent, shared>>
  BY DEF RefreshAtServer, shown
<1>1. pend[a].at = "sent" /\ Sending(a) /\ pend[a] \in Request /\ t \in Token /\ RealmOf(a) \in Realms
  BY SendersKnown DEF SessionInv, TypeOK, Sending, RefreshAtServer
<1>2. /\ row' \in [Token -> Row] /\ issued' \in 0..MaxToken /\ alarms' = alarms
      /\ \A u \in Token : row'[u].is = "unused" <=> u > issued'
      /\ n \in Token /\ issued' = n /\ issued \in Nat
      /\ \A u \in Token : row'[u].is = "rotated" => u = t \/ row[u].is = "rotated"
      /\ \A u, x : IssuedFor(u, x) => IssuedFor(u, x)'
      /\ \A u : u = n => IssuedFor(u, RealmOf(a))' /\ \A x : ~IssuedFor(u, x)
  <2>1. \A r \in Realms, u \in Token : r = RealmOf(a) /\ u = t => r = RealmOf(a)'
    BY <1>0, RealmsStay
  <2>. QED
    BY <1>1, <2>1, RotatedRows DEF SessionInv
<1>3. /\ pend' \in [Refresher -> Request]
      /\ pend'[a].at = "granted" /\ pend'[a].new = n
      /\ \A x \in Refresher : x # a => pend'[x] = pend[x]
  BY <1>1, <1>2 DEF SessionInv, TypeOK, Request, MaybeToken
<1> HIDE DEF t, n
<1>4. TypeOK'
  BY <1>0, <1>2, <1>3 DEF SessionInv, TypeOK
<1>5. PagesInv'
  BY <1>0, <1>1, <1>3, PagesFrame DEF SessionInv
<1>6. TokensInv'
  <2>1. \A u \in spent : u # n
    BY <1>2 DEF SessionInv, TokensInv, TokensOfRealm, n
  <2>2. /\ \A x \in Boot : mem[x].refresh # n
        /\ \A r \in Realms : stored[r] # n
        /\ \A x \in Refresher : Granted(x) => pend[x].new # n
    BY <1>2, <2>1 DEF SessionInv, TokensInv, TokensOfRealm, NoToken, n
  <2>3. TokensOfRealm'
    <3>1. \A x \in Refresher : Granted(x)' => x = a \/ (Granted(x) /\ pend'[x].new = pend[x].new)
      BY <1>3 DEF Granted
    <3>2. spent' \subseteq 1..issued'
      BY <1>0, <1>2 DEF SessionInv, TokensInv, TokensOfRealm, n
    <3>. QED
      BY <1>0, <1>2, <1>3, <3>1, <3>2, RealmsStay DEF SessionInv, TokensInv, TokensOfRealm
  <2>4. GrantedIsUnseen'
    BY <1>0, <1>3, <2>1, <2>2 DEF SessionInv, TokensInv, GrantedIsUnseen, Granted
  <2>5. SentOnce'
    BY <1>0, <1>1, <1>3, BootsAndCalls DEF SessionInv, TokensInv, SentOnce
  <2>. QED
    BY <2>3, <2>4, <2>5 DEF TokensInv
<1>7. SharedInv'
  <2>1. \A x \in Refresher : Sending(x)' => x # a /\ Sending(x) /\ pend'[x] = pend[x] /\ pend[x].token \in Token
    BY <1>3, SendersKnown DEF Sending
  <2>2. t \in spent
    BY <1>1 DEF SessionInv, SharedInv, FlyingIsSpent, t
  <2>3. \A x \in Refresher : Sending(x)' /\ pend[x].token = t => t \in shared
    <3> SUFFICES ASSUME NEW x \in Refresher, Sending(x)', pend[x].token = t PROVE t \in shared
      OBVIOUS
    <3>. QED
      BY <1>1, <2>1 DEF SessionInv, SharedInv, SecondIsShared, t
  <2>4. \A s \in stray : s[2] = t => t \in shared
    BY <1>1 DEF SessionInv, SharedInv, SecondIsShared, t
  <2>. QED
    BY <1>0, <1>2, <2>1, <2>2, <2>3, <2>4, ExchangedInv
<1>. QED
  BY <1>4, <1>5, <1>6, <1>7 DEF SessionInv

LEMMA RefuseInv ==
  ASSUME SessionInv, NEW a \in Refresher, RefreshAtServer(a),
         RefuseToken(RealmOf(a), pend[a].token),
         pend' = [pend EXCEPT ![a].at = "refused"]
  PROVE  SessionInv'
<1> DEFINE t == pend[a].token
<1>0. UNCHANGED <<stored, mem, page, loads, call, stray, logout, mine, spent, shared>>
  BY DEF RefreshAtServer, shown
<1>1. pend[a].at = "sent" /\ Sending(a) /\ pend[a] \in Request /\ t \in Token
  BY SendersKnown DEF SessionInv, TypeOK, Sending, RefreshAtServer
<1>2. /\ row' \in [Token -> Row] /\ issued' = issued
      /\ \A u \in Token : /\ row'[u].realm = row[u].realm
                          /\ row'[u].is = "rotated" <=> row[u].is = "rotated"
                          /\ row'[u].is = "unused" <=> row[u].is = "unused"
      /\ alarms' = alarms \/ (alarms' = alarms \cup {t} /\ row[t].is = "rotated")
  BY <1>1, RefusedRows DEF SessionInv
<1>3. /\ pend' \in [Refresher -> Request] /\ pend'[a].at = "refused"
      /\ \A x \in Refresher : x # a => pend'[x] = pend[x]
  BY <1>1 DEF SessionInv, TypeOK, Request
<1>4. TypeOK'
  BY <1>0, <1>1, <1>2, <1>3 DEF SessionInv, TypeOK
<1>5. PagesInv'
  BY <1>0, <1>1, <1>3, PagesFrame DEF SessionInv
<1>6. TokensInv'
  BY <1>0, <1>1, <1>2, <1>3, TokensFrame DEF SessionInv, Granted
<1>7. SharedInv'
  <2>1. \A x \in Refresher : Sending(x)' => Sending(x) /\ pend'[x].token = pend[x].token
    BY <1>3 DEF Sending
  <2>2. alarms' \subseteq shared
    BY <1>1, <1>2 DEF SessionInv, SharedInv, SecondIsShared, ReuseNeedsTwoLoads
  <2>. QED
    BY <1>0, <1>2, <2>1, <2>2, SharedGrows
<1>. QED
  BY <1>4, <1>5, <1>6, <1>7 DEF SessionInv

LEMMA RefreshAtServerInv ==
  ASSUME SessionInv, NEW a \in Refresher, RefreshAtServer(a)
  PROVE  SessionInv'
  BY GrantInv, RefuseInv DEF RefreshAtServer

LEMMA StrayRefreshInv ==
  ASSUME SessionInv, NEW s \in stray, StrayRefresh(s)
  PROVE  SessionInv'
<1>0. UNCHANGED <<stored, mem, page, loads, call, pend, logout, mine, spent, shared>>
  BY DEF StrayRefresh, shown
<1>1. s[1] \in Realms /\ s[2] \in Token /\ s[2] \in spent /\ stray' = stray \ {s}
  BY DEF SessionInv, TypeOK, SharedInv, FlyingIsSpent, StrayRefresh
<1>2. PagesInv'
  BY <1>0, PagesFrame DEF SessionInv
<1>3. CASE Rotate(s[1], s[2])
  <2>1. /\ row' \in [Token -> Row] /\ issued' \in 0..MaxToken /\ alarms' = alarms
        /\ \A u \in Token : row'[u].is = "unused" <=> u > issued'
        /\ issued' = issued + 1 /\ issued \in Nat
        /\ \A u \in Token : row'[u].is = "rotated" => u = s[2] \/ row[u].is = "rotated"
        /\ \A u, x : IssuedFor(u, x) => IssuedFor(u, x)'
    BY <1>1, <1>3, RotatedRows DEF SessionInv
  <2>2. TypeOK'
    BY <1>0, <1>1, <2>1 DEF SessionInv, TypeOK
  <2>3. TokensInv'
    <3>1. TokensOfRealm'
      BY <1>0, <2>1, RealmsStay DEF SessionInv, TokensInv, TokensOfRealm, Granted
    <3>2. GrantedIsUnseen' /\ SentOnce'
      BY <1>0, BootsAndCalls DEF SessionInv, TokensInv, GrantedIsUnseen, SentOnce, Granted
    <3>. QED
      BY <3>1, <3>2 DEF TokensInv
  <2>4. SharedInv'
    <3>1. \A x \in Refresher : Sending(x) /\ pend[x].token = s[2] => s[2] \in shared
      BY DEF SessionInv, SharedInv, SecondIsShared
    <3>2. \A u \in stray' : u[2] = s[2] => s[2] \in shared
      BY <1>1 DEF SessionInv, SharedInv, SecondIsShared
    <3>3. \A x \in Refresher : Sending(x)' <=> Sending(x)
      BY <1>0 DEF Sending
    <3>. QED
      BY <1>0, <1>1, <2>1, <3>1, <3>2, <3>3, ExchangedInv
  <2>. QED
    BY <1>2, <2>2, <2>3, <2>4 DEF SessionInv
<1>4. CASE RefuseToken(s[1], s[2])
  <2>1. /\ row' \in [Token -> Row] /\ issued' = issued
        /\ \A u \in Token : /\ row'[u].realm = row[u].realm
                            /\ row'[u].is = "rotated" <=> row[u].is = "rotated"
                            /\ row'[u].is = "unused" <=> row[u].is = "unused"
        /\ alarms' = alarms \/ (alarms' = alarms \cup {s[2]} /\ row[s[2]].is = "rotated")
    BY <1>1, <1>4, RefusedRows DEF SessionInv
  <2>2. TypeOK'
    BY <1>0, <1>1, <2>1 DEF SessionInv, TypeOK
  <2>3. TokensInv'
    BY <1>0, <2>1, TokensFrame DEF SessionInv, Granted
  <2>4. alarms' \subseteq shared
    BY <1>1, <2>1 DEF SessionInv, SharedInv, SecondIsShared, ReuseNeedsTwoLoads
  <2>5. \A x \in Refresher : Sending(x)' <=> Sending(x)
    BY <1>0 DEF Sending
  <2>6. SharedInv'
    BY <1>0, <1>1, <2>1, <2>4, <2>5, SharedGrows
  <2>. QED
    BY <1>2, <2>2, <2>3, <2>6 DEF SessionInv
<1>. QED
  BY <1>3, <1>4 DEF StrayRefresh

-----------------------------------------------------------------------------
(* Pages and calls.                                                        *)

\* One call changes, which does not fetch a token before or after.
LEMMA CallChanges ==
  ASSUME SessionInv, NEW c \in Call, call[c].at # "refreshing", call' \in [Call -> CallRecord],
         call'[c].at # "refreshing",
         call'[c].at # "idle" =>
           /\ call'[c].realm \in Realms /\ call'[c].tab \in Tab
           /\ mem[<<call'[c].realm, call'[c].tab>>].hydrated
           /\ call'[c].at = "queued" => mem[<<call'[c].realm, call'[c].tab>>].refreshing,
         \A d \in Call : d # c => call'[d] = call[d],
         \A a \in Boot : /\ mem'[a].hydrated = mem[a].hydrated
                         /\ mem'[a].booted = mem[a].booted
                         /\ mem'[a].refreshing = mem[a].refreshing,
         UNCHANGED pend
  PROVE  /\ PagesInv'
         /\ \A x \in Refresher : pend[x].at # "none" => RealmOf(x)' = RealmOf(x)
<1> USE DEF SessionInv, PagesInv
<1>1. CallsOfPages'
  BY BootsAndCalls DEF CallsOfPages
<1>2. \A d \in Call : call'[d].at = "refreshing" <=> call[d].at = "refreshing" /\ d # c
  OBVIOUS
<1>3. \A a \in Boot, d \in Call :
        call'[d].at \in {"queued", "refreshing"} /\ OfPage(d, a)' => mem'[a].refreshing
  <2> SUFFICES ASSUME NEW a \in Boot, NEW d \in Call,
                      call'[d].at \in {"queued", "refreshing"}, OfPage(d, a)'
               PROVE  mem[a].refreshing
    OBVIOUS
  <2>1. CASE d = c
    BY <2>1, BootsAndCalls DEF OfPage
  <2>2. CASE d # c
    BY <2>2 DEF WaitersHaveRefresher, OfPage
  <2>. QED
    BY <2>1, <2>2
<1>4. \A a \in Boot :
       mem'[a].refreshing => \E d \in Call : call'[d].at = "refreshing" /\ OfPage(d, a)'
  BY <1>2 DEF WaitersHaveRefresher, OfPage
<1>5. \A a \in Boot, d, e \in Call :
        /\ call'[d].at = "refreshing" /\ call'[e].at = "refreshing"
        /\ OfPage(d, a)' /\ OfPage(e, a)'
        => d = e
  BY <1>2 DEF WaitersHaveRefresher, OfPage
<1>6. /\ \A d \in Call : pend'[d].at # "none" <=> call'[d].at = "refreshing"
      /\ \A a \in Boot : pend'[a].at # "none" <=> mem'[a].booted /\ ~mem'[a].hydrated
  BY <1>2 DEF WaitersHaveRefresher
<1>7. WaitersHaveRefresher'
  BY <1>3, <1>4, <1>5, <1>6 DEF WaitersHaveRefresher
<1>8. \A x \in Refresher : pend[x].at # "none" => RealmOf(x)' = RealmOf(x)
  BY DEF RealmOf, WaitersHaveRefresher
<1>. QED
  BY <1>1, <1>7, <1>8

\* Page a comes to hold token n, that nobody has sent, or none.
LEMMA TokenHeld ==
  ASSUME SessionInv, NEW a \in Boot, NEW n,
         n # NoToken => /\ IssuedFor(n, a[1])' /\ n \notin spent
                        /\ \A x \in Refresher : Granted(x)' => pend[x].new # n,
         \A u, r : IssuedFor(u, r) => IssuedFor(u, r)',
         stored' = [k \in Realms |-> IF k = a[1] THEN n ELSE stored[k]],
         mem'[a].refresh = n,
         \A x \in Boot : x # a => mem'[x] = mem[x] /\ pend'[x].at = pend[x].at,
         \A x \in Refresher :
           Granted(x)' => Granted(x) /\ pend'[x].new = pend[x].new /\ RealmOf(x)' = RealmOf(x),
         UNCHANGED <<spent, mine>>
  PROVE  TokensInv'
<1> USE DEF SessionInv, TokensInv
<1>1. \A u \in spent : u \in 1..issued'
  BY DEF TokensOfRealm, IssuedFor
<1>2. TokensOfRealm'
  <2>1. \A x \in Boot : mem'[x].refresh # NoToken => IssuedFor(mem[x].refresh, x[1])'
    BY DEF TokensOfRealm
  <2>2. \A r \in Realms : stored'[r] # NoToken => IssuedFor(stored[r], r)'
    BY DEF TokensOfRealm
  <2>3. \A x \in Refresher : Granted(x)' => IssuedFor(pend[x].new, RealmOf(x))'
    BY DEF TokensOfRealm
  <2>. QED
    BY <1>1, <2>1, <2>2, <2>3 DEF TokensOfRealm
<1>3. \A x \in Refresher : Granted(x) => pend[x].new # NoToken
  BY BoundAssumption DEF TokensOfRealm, IssuedFor, NoToken, TypeOK
<1>4. GrantedIsUnseen'
  BY <1>3 DEF GrantedIsUnseen
<1>5. NoToken \notin spent
  BY DEF TypeOK, Token, NoToken
<1>6. \A x \in Boot : mine[x[2]] \subseteq spent
  BY BootsAndCalls DEF SentOnce
<1>7. SentOnce'
  BY <1>5, <1>6 DEF SentOnce
<1>. QED
  BY <1>2, <1>4, <1>7

\* What the page shows and a request to sign out disturb nothing.
LEMMA RedirectInv ==
  ASSUME SessionInv, NEW r \in Realms, NEW b \in Tab, Redirect(r, b)
  PROVE  SessionInv'
<1>0. UNCHANGED <<row, issued, alarms, stored, mem, loads, call, pend, stray, logout, mine, spent, shared>>
  BY DEF Redirect, server, shown
<1>1. TypeOK'
  BY <1>0 DEF SessionInv, TypeOK, Redirect, Page
<1>2. PagesInv'
  BY <1>0, PagesFrame DEF SessionInv
<1>3. TokensInv'
  BY <1>0, TokensFrame, RealmsStay DEF SessionInv, Granted
<1>4. SharedInv'
  BY <1>0, SharedFrame DEF Sending
<1>. QED
  BY <1>1, <1>2, <1>3, <1>4 DEF SessionInv

LEMMA LogoutSendInv ==
  ASSUME SessionInv, NEW r \in Realms, NEW b \in Tab, LogoutSend(r, b)
  PROVE  SessionInv'
<1>0. UNCHANGED <<row, issued, alarms, stored, mem, page, loads, call, pend, stray, mine, spent, shared>>
  BY DEF LogoutSend, server, shown
<1>1. Sent(mem[<<r, b>>].refresh) \in Request
  BY BootsAndCalls DEF SessionInv, TypeOK, Store, Sent, Request, MaybeToken
<1>2. logout' \in [Boot -> Request]
  BY <1>1 DEF SessionInv, TypeOK, LogoutSend
<1>. QED
  BY <1>0, <1>2, RowsOnly DEF SessionInv, TypeOK, shown

LEMMA IdleTyped == IdleCall \in CallRecord
  BY DEF IdleCall, CallRecord, MaybeToken

LEMMA AnsweredInv ==
  ASSUME SessionInv, NEW c \in Call, Answered(c)
  PROVE  SessionInv'
<1>0. UNCHANGED <<row, issued, alarms, stored, mem, page, loads, pend, stray, logout, mine, spent, shared>>
  BY DEF Answered, server, shown
<1>1. /\ call' \in [Call -> CallRecord] /\ call'[c] = IdleCall
      /\ call[c].at = "sent" /\ \A d \in Call : d # c => call'[d] = call[d]
  BY IdleTyped DEF Answered, Ended, SessionInv, TypeOK
<1>. call'[c].at = "idle"
  BY <1>1 DEF IdleCall
<1>2. PagesInv' /\ \A x \in Refresher : pend[x].at # "none" => RealmOf(x)' = RealmOf(x)
  BY <1>0, <1>1, CallChanges
<1>3. TypeOK'
  BY <1>0, <1>1 DEF SessionInv, TypeOK
<1>4. TokensInv'
  BY <1>0, <1>2, TokensStay DEF SessionInv, Granted
<1>5. SharedInv'
  BY <1>0, SharedFrame DEF Sending
<1>. QED
  BY <1>2, <1>3, <1>4, <1>5 DEF SessionInv

LEMMA IssueCallInv ==
  ASSUME SessionInv, NEW r \in Realms, NEW b \in Tab, NEW c \in Call, IssueCall(r, b, c)
  PROVE  SessionInv'
<1>0. UNCHANGED <<row, issued, alarms, stored, mem, page, loads, pend, stray, logout, mine, spent, shared>>
  BY DEF IssueCall, server, shown
<1>1. /\ call' \in [Call -> CallRecord] /\ call[c].at = "idle"
      /\ call'[c].realm = r /\ call'[c].tab = b /\ call'[c].at = "sent"
      /\ \A d \in Call : d # c => call'[d] = call[d]
  BY BootsAndCalls DEF IssueCall, SessionInv, TypeOK, CallRecord, Store
<1>2. mem[<<r, b>>].hydrated
  BY DEF IssueCall, Outlet
<1>3. PagesInv' /\ \A x \in Refresher : pend[x].at # "none" => RealmOf(x)' = RealmOf(x)
  BY <1>0, <1>1, <1>2, CallChanges
<1>4. TypeOK'
  BY <1>0, <1>1 DEF SessionInv, TypeOK
<1>5. TokensInv'
  BY <1>0, <1>3, TokensStay DEF SessionInv, Granted
<1>6. SharedInv'
  BY <1>0, SharedFrame DEF Sending
<1>. QED
  BY <1>3, <1>4, <1>5, <1>6 DEF SessionInv

\* A store with or without a token is a store, at the same stage.
LEMMA StoresWritten ==
  ASSUME NEW m \in Store, NEW t \in MaybeToken
  PROVE  /\ WithTokens(m, t) \in Store /\ WithTokens(m, t).refresh = t
         /\ WithTokens(m, t).hydrated = m.hydrated /\ WithTokens(m, t).booted = m.booted
         /\ WithTokens(m, t).refreshing = m.refreshing
         /\ WithoutSession(m) = WithTokens(m, NoToken)
         /\ NoToken \in MaybeToken /\ NoToken \notin Token
<1>1. NoToken \in MaybeToken /\ NoToken \notin Token
  BY DEF MaybeToken, Token, NoToken
<1>2. WithoutSession(m) = WithTokens(m, NoToken)
  BY DEF WithTokens, WithoutSession
<1>3. WithTokens(m, t) = [access |-> t, refresh |-> t, hydrated |-> m.hydrated,
                          booted |-> m.booted, refreshing |-> m.refreshing]
  <2>1. m = [access |-> m.access, refresh |-> m.refresh, hydrated |-> m.hydrated,
             booted |-> m.booted, refreshing |-> m.refreshing]
    BY DEF Store
  <2> DEFINE granted == [m EXCEPT !.access = t]
  <2>2. granted = [access |-> t, refresh |-> m.refresh, hydrated |-> m.hydrated,
                   booted |-> m.booted, refreshing |-> m.refreshing]
    BY <2>1
  <2>3. WithTokens(m, t) = [granted EXCEPT !.refresh = t]
    BY DEF WithTokens
  <2> HIDE DEF granted
  <2>. QED
    BY <2>2, <2>3
<1>. QED
  BY <1>1, <1>2, <1>3 DEF Store

LEMMA PersistedIs ==
  ASSUME NEW r \in Realms, NEW t, Persisted(r, t)
  PROVE  stored' = [k \in Realms |-> IF k = r THEN t ELSE stored[k]]
  BY DEF Persisted, StorageKey

LEMMA LogoutSettleInv ==
  ASSUME SessionInv, NEW a \in Boot, LogoutSettle(a)
  PROVE  SessionInv'
<1>0. UNCHANGED <<row, issued, alarms, page, loads, call, pend, stray, mine, spent, shared>>
  BY DEF LogoutSettle, server, shown
<1>1. /\ mem[a] \in Store /\ a[1] \in Realms
      /\ stored' = [k \in Realms |-> IF k = a[1] THEN NoToken ELSE stored[k]]
  BY BootsAndCalls, PersistedIs DEF LogoutSettle, SessionInv, TypeOK
<1>2. /\ mem'[a] = WithTokens(mem[a], NoToken) /\ mem' \in [Boot -> Store]
      /\ \A x \in Boot : x # a => mem'[x] = mem[x]
  BY <1>1, StoresWritten DEF LogoutSettle, SessionInv, TypeOK
<1>3. TypeOK'
  <2>1. logout' \in [Boot -> Request]
    BY DEF LogoutSettle, SessionInv, TypeOK, NoRequest, Request, MaybeToken
  <2>2. stored' \in [Realms -> MaybeToken]
    BY <1>1, StoresWritten DEF SessionInv, TypeOK, MaybeToken
  <2>. QED
    BY <1>0, <1>2, <2>1, <2>2 DEF SessionInv, TypeOK
<1>4. PagesInv'
  BY <1>0, <1>1, <1>2, StoresWritten, PagesFrame DEF SessionInv, MaybeToken
<1>5. TokensInv'
  <2>1. \A u, r : IssuedFor(u, r) => IssuedFor(u, r)'
    BY <1>0 DEF IssuedFor
  <2>2. mem'[a].refresh = NoToken
    BY <1>1, <1>2, StoresWritten DEF MaybeToken
  <2>3. \A x \in Refresher : Granted(x)' => Granted(x) /\ pend'[x].new = pend[x].new /\ RealmOf(x)' = RealmOf(x)
    BY <1>0, RealmsStay DEF Granted
  <2>. QED
    BY <1>0, <1>1, <1>2, <2>1, <2>2, <2>3, TokenHeld
<1>6. SharedInv'
  BY <1>0, SharedFrame DEF Sending
<1>. QED
  BY <1>3, <1>4, <1>5, <1>6 DEF SessionInv

LEMMA LoginInv ==
  ASSUME SessionInv, NEW r \in Realms, NEW b \in Tab, Login(r, b)
  PROVE  SessionInv'
<1>0. UNCHANGED <<alarms, loads, call, pend, stray, logout, mine, spent, shared>>
  BY DEF Login, shown
<1> DEFINE a == <<r, b>>
<1>1. a \in Boot /\ a[1] = r /\ a[2] = b /\ mem[a] \in Store
  BY BootsAndCalls DEF SessionInv, TypeOK
<1>2. PICK n : n = issued + 1
  OBVIOUS
<1>3. /\ row' \in [Token -> Row] /\ issued' \in 0..MaxToken
      /\ \A t \in Token : row'[t].is = "unused" <=> t > issued'
      /\ n \in Token
      /\ \A t \in Token : t # n => row'[t] = row[t]
      /\ row'[n].is = "live"
      /\ \A t, x : IssuedFor(t, x) => IssuedFor(t, x)'
      /\ IssuedFor(n, r)' /\ \A x : ~IssuedFor(n, x)
  <2>1. IssuePair(row, r) /\ row \in [Token -> Row] /\ TypeOK
    BY DEF Login, SessionInv, TypeOK
  <2>2. issued + 1 = n
    BY <1>2
  <2>. QED
    <3>1. \A t \in Token : row[t].realm = row[t].realm /\ (row[t].is = "unused" <=> row[t].is = "unused")
      OBVIOUS
    <3>2. \A t : t = n => IssuedFor(t, r)' /\ \A x : ~IssuedFor(t, x)
      BY <2>1, <2>2, <3>1, IssuedRows
    <3>3. /\ row' \in [Token -> Row] /\ issued' \in 0..MaxToken
          /\ \A t \in Token : row'[t].is = "unused" <=> t > issued'
          /\ n \in Token
          /\ \A t \in Token : t # n => row'[t] = row[t]
          /\ row'[n] = [realm |-> r, is |-> "live"]
          /\ \A t, x : IssuedFor(t, x) => IssuedFor(t, x)'
      BY <2>1, <2>2, <3>1, IssuedRows
    <3>. QED
      BY <3>2, <3>3
<1>4. stored' = [k \in Realms |-> IF k = r THEN n ELSE stored[k]]
  BY <1>2, PersistedIs DEF Login
<1>5. /\ mem'[a] = WithTokens(mem[a], n) /\ mem' \in [Boot -> Store]
      /\ \A x \in Boot : x # a => mem'[x] = mem[x]
  BY <1>1, <1>2, <1>3, StoresWritten DEF Login, SessionInv, TypeOK, MaybeToken
<1> HIDE DEF a
<1>6. /\ mem'[a].refresh = n /\ mem'[a].hydrated = mem[a].hydrated
      /\ mem'[a].booted = mem[a].booted /\ mem'[a].refreshing = mem[a].refreshing
  <2>1. mem[a] \in Store /\ n \in MaybeToken
    BY <1>1, <1>3 DEF MaybeToken
  <2>. QED
    BY <1>5, <2>1, StoresWritten
<1>7. TypeOK'
  <2>1. page' \in [Tab -> Page]
    BY DEF Login, SessionInv, TypeOK, Page
  <2>2. stored' \in [Realms -> MaybeToken]
    BY <1>3, <1>4 DEF SessionInv, TypeOK, MaybeToken
  <2>. QED
    BY <1>0, <1>3, <1>5, <2>1, <2>2 DEF SessionInv, TypeOK
<1>8. PagesInv'
  <2>1. \A x \in Boot : /\ mem'[x].hydrated = mem[x].hydrated
                         /\ mem'[x].booted = mem[x].booted
                         /\ mem'[x].refreshing = mem[x].refreshing
    BY <1>5, <1>6
  <2>. QED
    BY <1>0, <2>1, PagesFrame DEF SessionInv
<1>9. TokensInv'
  <2>1. mem'[a].refresh = n
    BY <1>6
  <2>2. n \notin spent /\ \A x \in Refresher : Granted(x) => pend[x].new # n
    BY <1>2, <1>3 DEF SessionInv, TypeOK, TokensInv, TokensOfRealm
  <2>3. \A x \in Refresher : Granted(x)' => Granted(x) /\ pend'[x].new = pend[x].new /\ RealmOf(x)' = RealmOf(x)
    BY <1>0, RealmsStay DEF Granted
  <2>4. IssuedFor(n, a[1])'
    BY <1>1, <1>3
  <2>. QED
    BY <1>0, <1>1, <1>3, <1>4, <1>5, <2>1, <2>2, <2>3, <2>4, TokenHeld
<1>10. SharedInv'
  BY <1>0, <1>3, SharedFrame DEF Sending
<1>. QED
  BY <1>7, <1>8, <1>9, <1>10 DEF SessionInv

LEMMA NoRequestTyped == NoRequest \in Request /\ NoRequest.at = "none"
  BY DEF NoRequest, Request, MaybeToken

LEMMA SentTyped ==
  ASSUME NEW t \in Token
  PROVE  Sent(t) \in Request /\ Sent(t).at = "sent" /\ Sent(t).token = t
  BY DEF Sent, Request, MaybeToken

\* Without an outlet no call of the page refreshes.
LEMMA SpinnerIsQuiet ==
  ASSUME SessionInv, NEW a \in Boot, ~mem[a].hydrated
  PROVE  /\ ~mem[a].refreshing
         /\ \A c \in Call : call[c].at # "idle" => ~OfPage(c, a)
<1>1. \A c \in Call : call[c].at # "idle" => ~OfPage(c, a)
  BY BootsAndCalls DEF SessionInv, PagesInv, CallsOfPages, OfPage
<1>2. ~mem[a].refreshing
  BY <1>1 DEF SessionInv, PagesInv, WaitersHaveRefresher
<1>. QED
  BY <1>1, <1>2

\* The stage of one page's bootstrap changes, before it has calls.
LEMMA BootStage ==
  ASSUME SessionInv, NEW a \in Boot, ~mem[a].hydrated, UNCHANGED call,
         mem'[a].refreshing = mem[a].refreshing,
         pend'[a].at # "none" <=> mem'[a].booted /\ ~mem'[a].hydrated,
         \A x \in Boot : x # a => mem'[x] = mem[x],
         \A x \in Refresher : x # a => pend'[x] = pend[x]
  PROVE  PagesInv'
<1> USE DEF SessionInv, PagesInv
<1>1. \A c \in Call : call[c].at # "idle" => ~OfPage(c, a)
  BY SpinnerIsQuiet
<1>2. \A c \in Call : call[c].at # "idle" =>
        <<call[c].realm, call[c].tab>> \in Boot /\ <<call[c].realm, call[c].tab>> # a
  BY <1>1, BootsAndCalls DEF CallsOfPages, OfPage
<1>3. CallsOfPages'
  BY <1>2 DEF CallsOfPages
<1>4. \A x \in Boot : mem'[x].refreshing = mem[x].refreshing
  OBVIOUS
<1>5. /\ \A c \in Call : pend'[c] = pend[c]
      /\ \A x \in Boot : x # a => pend'[x] = pend[x]
  BY BootsAndCalls
<1>6. WaitersHaveRefresher'
  BY <1>4, <1>5 DEF WaitersHaveRefresher, OfPage
<1>. QED
  BY <1>3, <1>6

LEMMA BootstrappedInv ==
  ASSUME SessionInv, NEW r \in Realms, NEW b \in Tab, Bootstrapped(r, b)
  PROVE  SessionInv'
<1>0. UNCHANGED <<row, issued, alarms, page, loads, call, stray, logout, mine, spent, shared>>
  BY DEF Bootstrapped, server, shown
<1>1. PICK a \in Boot : a = <<r, b>> /\ a[1] = r /\ a[2] = b
  <2>1. <<r, b>> \in Boot /\ <<r, b>>[1] = r /\ <<r, b>>[2] = b
    BY BootsAndCalls
  <2>. QED
    BY <2>1
<1>2. /\ pend[a].at \in {"granted", "refused"} /\ a \in Refresher /\ RealmOf(a) = r
      /\ mem[a].booted /\ ~mem[a].hydrated /\ mem[a] \in Store
  BY <1>1, BootsAndCalls DEF Bootstrapped, SessionInv, TypeOK, PagesInv, WaitersHaveRefresher
<1>3. PICK n \in MaybeToken :
        /\ n = IF Granted(a) THEN pend[a].new ELSE NoToken
        /\ mem' = [mem EXCEPT ![a] = Hydrated(WithTokens(@, n))]
        /\ Persisted(r, n)
  <2>1. pend[a].new \in MaybeToken /\ NoToken \in MaybeToken
    BY <1>2 DEF SessionInv, TypeOK, Request, MaybeToken
  <2>2. CASE Granted(a)
    BY <1>1, <2>1, <2>2 DEF Bootstrapped, Granted
  <2>3. CASE ~Granted(a)
    <3>1. WithoutSession(mem[a]) = WithTokens(mem[a], NoToken)
      BY <1>2, <2>1, StoresWritten
    <3>. QED
      BY <1>1, <1>2, <2>1, <2>3, <3>1 DEF Bootstrapped, Granted
  <2>. QED
    BY <2>2, <2>3
<1>4. stored' = [k \in Realms |-> IF k = r THEN n ELSE stored[k]]
  BY <1>3, PersistedIs
<1>5. /\ pend' \in [Refresher -> Request] /\ pend'[a].at = "none"
      /\ \A x \in Refresher : x # a => pend'[x] = pend[x]
  BY <1>1, <1>2, NoRequestTyped DEF Bootstrapped, SessionInv, TypeOK
<1>6. /\ mem' \in [Boot -> Store] /\ \A x \in Boot : x # a => mem'[x] = mem[x]
      /\ mem'[a].refresh = n /\ mem'[a].hydrated /\ mem'[a].refreshing = mem[a].refreshing
  <2>1. /\ WithTokens(mem[a], n) \in Store /\ WithTokens(mem[a], n).refresh = n
        /\ WithTokens(mem[a], n).refreshing = mem[a].refreshing
    BY <1>2, <1>3, StoresWritten
  <2>. QED
    BY <1>3, <2>1 DEF SessionInv, TypeOK, Hydrated, Store
<1>7. TypeOK'
  <2>1. stored' \in [Realms -> MaybeToken]
    BY <1>3, <1>4 DEF SessionInv, TypeOK
  <2>. QED
    BY <1>0, <1>5, <1>6, <2>1 DEF SessionInv, TypeOK
<1>8. PagesInv'
  BY <1>0, <1>2, <1>5, <1>6, BootStage
<1>9. TokensInv'
  <2>1. \A u, x : IssuedFor(u, x) => IssuedFor(u, x)'
    BY <1>0 DEF IssuedFor
  <2>2. \A x \in Refresher :
          Granted(x)' => x # a /\ Granted(x) /\ pend'[x].new = pend[x].new /\ RealmOf(x)' = RealmOf(x)
    BY <1>0, <1>5, RealmsStay DEF Granted
  <2>3. n # NoToken => /\ IssuedFor(n, r) /\ n \notin spent
                       /\ \A x \in Refresher : Granted(x)' => pend[x].new # n
    BY <1>2, <1>3, <2>2 DEF SessionInv, TokensInv, TokensOfRealm, GrantedIsUnseen
  <2>4. n # NoToken => IssuedFor(n, a[1])'
    BY <1>1, <2>1, <2>3
  <2>5. \A x \in Boot : x # a => pend'[x].at = pend[x].at
    BY <1>5, BootsAndCalls
  <2>. QED
    BY <1>0, <1>1, <1>4, <1>6, <2>1, <2>2, <2>3, <2>4, <2>5, TokenHeld
<1>10. SharedInv'
  BY <1>0, <1>5, SharedFrame DEF Sending
<1>. QED
  BY <1>7, <1>8, <1>9, <1>10 DEF SessionInv

\* x, the bootstrap or a call of page a, sends the token t that the page holds.
HeldTokenSent(a, x, t) ==
  /\ mem[a].refresh = t /\ ~mem[a].refreshing
  /\ pend[a].at = "none" /\ pend[x].at = "none"
  /\ pend'[x].at = "sent" /\ pend'[x].token = t
  /\ \A y \in Refresher : y # x => pend'[y] = pend[y]
  /\ Presents(a[2], t)
  /\ UNCHANGED <<row, issued, alarms, stray, stored>>
  /\ mem'[a].refreshing \/ x = a
  /\ \A y \in Boot : /\ mem'[y].refresh = mem[y].refresh
                     /\ y # a => mem'[y].refreshing = mem[y].refreshing
  /\ \A y \in Refresher : pend[y].at # "none" => RealmOf(y)' = RealmOf(y)

LEMMA PresentedInv ==
  ASSUME SessionInv, NEW a \in Boot, NEW x \in Refresher, NEW t \in Token,
         HeldTokenSent(a, x, t)
  PROVE  /\ TokensInv' /\ SharedInv'
         /\ spent' \subseteq Token /\ shared' \subseteq Token /\ mine' \in [Tab -> SUBSET Token]
<1> USE DEF SessionInv
<1>1. /\ t = mem[a].refresh /\ ~mem[a].refreshing
      /\ pend[a].at = "none" /\ pend[x].at = "none"
  BY DEF HeldTokenSent
<1>2. IssuedFor(t, a[1]) /\ a[2] \in Tab /\ a \in Refresher
  BY <1>1, BootsAndCalls DEF Token, NoToken, TokensInv, TokensOfRealm
<1>3. /\ pend'[x].at = "sent" /\ pend'[x].token = t
      /\ \A y \in Refresher : y # x => pend'[y] = pend[y]
  BY DEF HeldTokenSent
<1>4. t \notin mine[a[2]]
  BY <1>1 DEF TokensInv, SentOnce
<1>5. /\ spent' = spent \cup {t} /\ mine' = [mine EXCEPT ![a[2]] = @ \cup {t}]
      /\ shared' = IF t \in spent THEN shared \cup {t} ELSE shared
  BY <1>1, <1>4 DEF Presents, HeldTokenSent
<1>6. /\ spent' \subseteq Token /\ shared' \subseteq Token /\ mine' \in [Tab -> SUBSET Token]
      /\ mine'[a[2]] = mine[a[2]] \cup {t}
      /\ \A b \in Tab : b # a[2] => mine'[b] = mine[b]
  BY <1>2, <1>5 DEF TypeOK
<1>7. \A y \in Refresher : Granted(y)' => y # x /\ Granted(y) /\ pend'[y].new = pend[y].new /\ RealmOf(y)' = RealmOf(y)
  BY <1>3 DEF Granted, HeldTokenSent
<1>8. UNCHANGED <<row, issued, alarms, stray, stored>>
  BY DEF HeldTokenSent
<1>9. /\ mem'[a].refreshing \/ x = a
      /\ \A y \in Boot : /\ mem'[y].refresh = mem[y].refresh
                         /\ y # a => mem'[y].refreshing = mem[y].refreshing
  BY DEF HeldTokenSent
<1>10. TokensInv'
  <2>1. \A u, r : IssuedFor(u, r)' <=> IssuedFor(u, r)
    BY <1>8 DEF IssuedFor
  <2>2. TokensOfRealm'
    <3>1. spent' \subseteq 1..issued'
      BY <1>2, <1>5, <1>8 DEF TokensInv, TokensOfRealm, IssuedFor
    <3>2. \A y \in Boot : mem'[y].refresh # NoToken => IssuedFor(mem'[y].refresh, y[1])
      BY <1>9 DEF TokensInv, TokensOfRealm
    <3>3. \A y \in Refresher : Granted(y)' => IssuedFor(pend'[y].new, RealmOf(y)')
      BY <1>7 DEF TokensInv, TokensOfRealm
    <3>4. \A r \in Realms : stored'[r] # NoToken => IssuedFor(stored'[r], r)
      BY <1>8 DEF TokensInv, TokensOfRealm
    <3>5. /\ \A y \in Boot : mem'[y].refresh # NoToken => IssuedFor(mem[y].refresh, y[1])'
          /\ \A r \in Realms : stored'[r] # NoToken => IssuedFor(stored[r], r)'
          /\ \A y \in Refresher : Granted(y)' => IssuedFor(pend[y].new, RealmOf(y))'
      BY <1>8, <3>2, <3>3, <3>4 DEF IssuedFor
    <3>. QED
      BY <3>1, <3>5 DEF TokensOfRealm
  <2>3. \A y \in Refresher : Granted(y) => pend[y].new # t
    BY <1>1 DEF TokensInv, GrantedIsUnseen
  <2>4. GrantedIsUnseen'
    BY <1>5, <1>7, <1>8, <1>9, <2>3 DEF TokensInv, GrantedIsUnseen
  <2>5. \A b \in Tab : mine'[b] \subseteq spent'
    BY <1>5, <1>6 DEF TokensInv, SentOnce
  <2>6. ASSUME NEW y \in Boot, mem[y].refresh \in mine'[y[2]]
        PROVE  mem'[y].refreshing \/ pend'[y].at # "none"
    <3>1. CASE y = a
      BY <1>3, <1>9, <3>1
    <3>2. CASE y # a /\ mem[y].refresh \in mine[y[2]]
      <4>1. mem[y].refreshing \/ pend[y].at # "none"
        BY <3>2 DEF TokensInv, SentOnce
      <4>2. mem'[y].refreshing = mem[y].refreshing /\ y \in Refresher
        BY <1>9, <3>2, BootsAndCalls
      <4>3. pend[y].at # "none" => pend'[y].at # "none"
        BY <1>1, <1>3, <4>2
      <4>. QED
        BY <4>1, <4>2, <4>3
    <3>3. CASE y # a /\ mem[y].refresh \notin mine[y[2]]
      <4>1. mem[y].refresh = t /\ y[2] = a[2]
        BY <1>6, <2>6, <3>3, BootsAndCalls
      <4>2. IssuedFor(t, y[1])
        BY <1>1, <4>1 DEF TokensInv, TokensOfRealm, Token, NoToken
      <4>3. y[1] = a[1]
        BY <1>2, <4>2 DEF IssuedFor
      <4>. QED
        BY <3>3, <4>1, <4>3, BootsAndCalls
    <3>. QED
      BY <3>1, <3>2, <3>3
  <2>7. SentOnce'
    <3>1. \A y \in Boot : mem'[y].refresh \in mine'[y[2]] => mem'[y].refreshing \/ pend'[y].at # "none"
      BY <1>9, <2>6
    <3>. QED
      BY <2>5, <3>1 DEF SentOnce
  <2>. QED
    BY <2>2, <2>4, <2>7 DEF TokensInv
<1>11. SharedInv'
  <2>1. \A y \in Refresher : Sending(y)' => y = x \/ (y # x /\ Sending(y) /\ pend'[y] = pend[y])
    BY <1>3 DEF Sending
  <2>2. FlyingIsSpent'
    BY <1>3, <1>5, <1>8, <2>1 DEF SharedInv, FlyingIsSpent
  <2>3. shared \subseteq shared' /\ (t \in spent => t \in shared')
    BY <1>5
  <2>4. row[t].is = "rotated" => t \in shared'
    BY <1>2, <2>3 DEF SharedInv, FlyingIsSpent
  <2>5. \A y \in Refresher : Sending(y) /\ pend[y].token = t => t \in shared'
    BY <2>3 DEF SharedInv, FlyingIsSpent
  <2>6. \A s \in stray : s[2] = t => t \in shared'
    BY <2>3 DEF SharedInv, FlyingIsSpent
  <2>7. SecondIsShared'
    BY <1>3, <1>8, <2>1, <2>3, <2>4, <2>5, <2>6 DEF SharedInv, SecondIsShared
  <2>. QED
    BY <1>8, <2>2, <2>3, <2>7 DEF SharedInv, ReuseNeedsTwoLoads
<1>. QED
  BY <1>6, <1>10, <1>11

LEMMA BootstrapInv ==
  ASSUME SessionInv, NEW r \in Realms, NEW b \in Tab, Bootstrap(r, b)
  PROVE  SessionInv'
<1>0. UNCHANGED <<row, issued, alarms, page, loads, call, stray, logout>>
  BY DEF Bootstrap, server
<1>1. PICK a \in Boot : a = <<r, b>> /\ a[1] = r /\ a[2] = b
  <2>1. <<r, b>> \in Boot /\ <<r, b>>[1] = r /\ <<r, b>>[2] = b
    BY BootsAndCalls
  <2>. QED
    BY <2>1
<1>2. /\ ~mem[a].hydrated /\ ~mem[a].booted /\ mem[a] \in Store /\ a \in Refresher
      /\ pend[a].at = "none"
  BY <1>1, BootsAndCalls DEF Bootstrap, SessionInv, TypeOK, PagesInv, WaitersHaveRefresher
<1>3. ~mem[a].refreshing
  BY <1>2, SpinnerIsQuiet
<1>4. CASE mem[a].refresh = NoToken
  <2>1. /\ mem' = [mem EXCEPT ![a].booted = TRUE, ![a].hydrated = TRUE]
        /\ Persisted(r, NoToken) /\ UNCHANGED <<pend, mine, spent, shared>>
    BY <1>1, <1>4 DEF Bootstrap, shown
  <2>2. stored' = [k \in Realms |-> IF k = r THEN NoToken ELSE stored[k]]
    BY <2>1, PersistedIs
  <2>3. /\ mem' \in [Boot -> Store] /\ mem'[a].hydrated /\ mem'[a].refreshing = mem[a].refreshing
        /\ mem'[a].refresh = NoToken /\ \A x \in Boot : x # a => mem'[x] = mem[x]
    BY <1>2, <1>4, <2>1 DEF SessionInv, TypeOK, Store
  <2>4. TypeOK'
    <3>1. stored' \in [Realms -> MaybeToken]
      BY <2>2 DEF SessionInv, TypeOK, MaybeToken
    <3>. QED
      BY <1>0, <2>1, <2>3, <3>1 DEF SessionInv, TypeOK
  <2>5. PagesInv'
    BY <1>0, <1>2, <2>1, <2>3, BootStage
  <2>6. TokensInv'
    <3>1. \A u, x : IssuedFor(u, x) => IssuedFor(u, x)'
      BY <1>0 DEF IssuedFor
    <3>2. \A x \in Refresher : Granted(x)' => Granted(x) /\ pend'[x].new = pend[x].new /\ RealmOf(x)' = RealmOf(x)
      BY <1>0, <2>1, RealmsStay DEF Granted
    <3>. QED
      BY <1>0, <1>1, <2>1, <2>2, <2>3, <3>1, <3>2, TokenHeld
  <2>7. SharedInv'
    BY <1>0, <2>1, SharedFrame DEF Sending
  <2>. QED
    BY <2>4, <2>5, <2>6, <2>7 DEF SessionInv
<1>5. CASE mem[a].refresh # NoToken
  <2>1. /\ mem' = [mem EXCEPT ![a].booted = TRUE] /\ UNCHANGED stored
        /\ pend' = [pend EXCEPT ![a] = Sent(mem[a].refresh)] /\ Presents(a[2], mem[a].refresh)
    BY <1>1, <1>5 DEF Bootstrap
  <2>2. /\ mem' \in [Boot -> Store] /\ mem'[a].booted /\ ~mem'[a].hydrated
        /\ mem'[a].refreshing = mem[a].refreshing /\ mem'[a].refresh = mem[a].refresh
        /\ \A x \in Boot : x # a => mem'[x] = mem[x]
    BY <1>2, <2>1 DEF SessionInv, TypeOK, Store
  <2>3. /\ TokensInv' /\ SharedInv' /\ pend' \in [Refresher -> Request]
        /\ pend'[a].at = "sent" /\ \A y \in Refresher : y # a => pend'[y] = pend[y]
        /\ spent' \subseteq Token /\ shared' \subseteq Token /\ mine' \in [Tab -> SUBSET Token]
    <3>1. \A y \in Refresher : RealmOf(y)' = RealmOf(y)
      BY <1>0, RealmsStay
    <3>2. \A y \in Boot : /\ mem'[y].refresh = mem[y].refresh
                          /\ y # a => mem'[y].refreshing = mem[y].refreshing
      BY <2>2
    <3>3. UNCHANGED <<row, issued, alarms, stray, stored>>
      BY <1>0, <2>1
    <3>4. PICK t \in Token : t = mem[a].refresh
      BY <1>2, <1>5 DEF Store, MaybeToken
    <3>5. /\ pend' \in [Refresher -> Request] /\ pend'[a].at = "sent" /\ pend'[a].token = t
          /\ \A y \in Refresher : y # a => pend'[y] = pend[y]
      BY <1>2, <2>1, <3>4, SentTyped DEF SessionInv, TypeOK
    <3>6. Presents(a[2], t)
      BY <2>1, <3>4
    <3>7. HeldTokenSent(a, a, t)
      BY <1>2, <1>3, <3>1, <3>2, <3>3, <3>4, <3>5, <3>6 DEF HeldTokenSent
    <3>8. /\ TokensInv' /\ SharedInv'
          /\ spent' \subseteq Token /\ shared' \subseteq Token /\ mine' \in [Tab -> SUBSET Token]
      BY <1>2, <3>7, PresentedInv
    <3>. QED
      BY <3>5, <3>8
  <2>4. PagesInv'
    BY <1>0, <1>2, <2>2, <2>3, BootStage
  <2>5. TypeOK'
    BY <1>0, <2>1, <2>2, <2>3 DEF SessionInv, TypeOK
  <2>. QED
    BY <2>3, <2>4, <2>5 DEF SessionInv
<1>. QED
  BY <1>4, <1>5

\* A call of a page that shows its outlet, before anything happens to it.
LEMMA CallOfPage ==
  ASSUME SessionInv, NEW c \in Call, call[c].at # "idle"
  PROVE  \E a \in Boot :
           /\ a = <<call[c].realm, call[c].tab>>
           /\ a[1] = call[c].realm /\ a[2] = call[c].tab /\ OfPage(c, a)
           /\ mem[a].hydrated /\ mem[a] \in Store /\ a \in Refresher /\ pend[a].at = "none"
<1>1. PICK a \in Boot : a = <<call[c].realm, call[c].tab>> /\ a[1] = call[c].realm /\ a[2] = call[c].tab
  <2>1. call[c].realm \in Realms /\ call[c].tab \in Tab
    BY DEF SessionInv, PagesInv, CallsOfPages
  <2>2. /\ <<call[c].realm, call[c].tab>> \in Boot
        /\ <<call[c].realm, call[c].tab>>[1] = call[c].realm
        /\ <<call[c].realm, call[c].tab>>[2] = call[c].tab
    BY <2>1, BootsAndCalls
  <2>. QED
    BY <2>2
<1>2. mem[a].hydrated
  BY <1>1 DEF SessionInv, PagesInv, CallsOfPages
<1>3. mem[a] \in Store /\ a \in Refresher
  BY BootsAndCalls DEF SessionInv, TypeOK
<1>4. pend[a].at = "none"
  BY <1>2, <1>3 DEF SessionInv, PagesInv, WaitersHaveRefresher
<1>. QED
  BY <1>1, <1>2, <1>3, <1>4 DEF OfPage

\* Call c starts to refresh for its page a.
RefreshStarted(a, c) ==
  /\ OfPage(c, a) /\ mem[a].hydrated /\ ~mem[a].refreshing /\ call[c].at = "sent"
  /\ call'[c].at = "refreshing" /\ call'[c].realm = call[c].realm /\ call'[c].tab = call[c].tab
  /\ \A d \in Call : d # c => call'[d] = call[d] /\ pend'[d] = pend[d]
  /\ pend'[c].at = "sent" /\ \A x \in Boot : pend'[x] = pend[x]
  /\ mem'[a].refreshing /\ mem'[a].hydrated = mem[a].hydrated /\ mem'[a].booted = mem[a].booted
  /\ \A x \in Boot : x # a => mem'[x] = mem[x]

LEMMA RefreshStarts ==
  ASSUME SessionInv, NEW a \in Boot, NEW c \in Call, RefreshStarted(a, c)
  PROVE  /\ PagesInv'
         /\ \A x \in Refresher : RealmOf(x)' = RealmOf(x)
<1>0. /\ OfPage(c, a) /\ mem[a].hydrated /\ ~mem[a].refreshing /\ call[c].at = "sent"
      /\ call'[c].at = "refreshing" /\ call'[c].realm = call[c].realm /\ call'[c].tab = call[c].tab
      /\ \A d \in Call : d # c => call'[d] = call[d] /\ pend'[d] = pend[d]
      /\ pend'[c].at = "sent" /\ \A x \in Boot : pend'[x] = pend[x]
      /\ mem'[a].refreshing /\ mem'[a].hydrated = mem[a].hydrated /\ mem'[a].booted = mem[a].booted
      /\ \A x \in Boot : x # a => mem'[x] = mem[x]
  BY DEF RefreshStarted
<1> USE <1>0 DEF SessionInv, PagesInv
<1>1. \A d \in Call : /\ call'[d].realm = call[d].realm /\ call'[d].tab = call[d].tab
                      /\ call'[d].at # "idle" => call[d].at # "idle"
                      /\ call'[d].at = "refreshing" <=> d = c \/ call[d].at = "refreshing"
                      /\ call'[d].at = "queued" => call[d].at = "queued"
  OBVIOUS
<1>2. \A d \in Call, x \in Boot : OfPage(d, x)' <=> OfPage(d, x)
  BY <1>1 DEF OfPage
<1>3. CallsOfPages'
  <2>1. \A x \in Boot : mem'[x].hydrated = mem[x].hydrated
    OBVIOUS
  <2>2. \A d \in Call : call[d].at # "idle" =>
          <<call[d].realm, call[d].tab>> \in Boot
    BY BootsAndCalls DEF CallsOfPages
  <2>3. \A d \in Call : call'[d].at # "idle" =>
          /\ call[d].realm \in Realms /\ call[d].tab \in Tab
          /\ mem'[<<call[d].realm, call[d].tab>>].hydrated
    BY <1>1, <2>1, <2>2 DEF CallsOfPages
  <2>. QED
    BY <1>1, <2>3 DEF CallsOfPages
<1>4. \A x \in Boot : mem[x].refreshing => mem'[x].refreshing
  OBVIOUS
<1>5. ASSUME NEW x \in Boot, OfPage(c, x) PROVE x = a
  <2>1. x[1] = a[1] /\ x[2] = a[2]
    BY <1>5 DEF OfPage
  <2>2. x = <<x[1], x[2]>> /\ a = <<a[1], a[2]>>
    BY BootsAndCalls
  <2>. QED
    BY <2>1, <2>2
<1>6. \A d \in Call : call[d].at = "refreshing" => ~OfPage(d, a)
  BY DEF WaitersHaveRefresher
<1>7. \A x \in Boot, d \in Call :
        call'[d].at \in {"queued", "refreshing"} /\ OfPage(d, x)' => mem'[x].refreshing
  BY <1>1, <1>2, <1>4, <1>5 DEF WaitersHaveRefresher
<1>8. \A x \in Boot :
        mem'[x].refreshing => \E d \in Call : call'[d].at = "refreshing" /\ OfPage(d, x)'
  <2> SUFFICES ASSUME NEW x \in Boot, mem'[x].refreshing
               PROVE  \E d \in Call : call'[d].at = "refreshing" /\ OfPage(d, x)'
    OBVIOUS
  <2>1. CASE x = a
    BY <1>1, <1>2, <2>1
  <2>2. CASE x # a
    <3>1. PICK d \in Call : call[d].at = "refreshing" /\ OfPage(d, x)
      BY <2>2 DEF WaitersHaveRefresher
    <3>. QED
      BY <1>1, <1>2, <3>1
  <2>. QED
    BY <2>1, <2>2
<1>9. \A x \in Boot, d, e \in Call :
        /\ call'[d].at = "refreshing" /\ call'[e].at = "refreshing"
        /\ OfPage(d, x)' /\ OfPage(e, x)'
        => d = e
  BY <1>1, <1>2, <1>5, <1>6 DEF WaitersHaveRefresher
<1>10. \A d \in Call : pend'[d].at # "none" <=> call'[d].at = "refreshing"
  BY <1>1 DEF WaitersHaveRefresher
<1>11. \A x \in Boot : pend'[x].at # "none" <=> mem'[x].booted /\ ~mem'[x].hydrated
  BY DEF WaitersHaveRefresher
<1>12. WaitersHaveRefresher'
  BY <1>7, <1>8, <1>9, <1>10, <1>11 DEF WaitersHaveRefresher
<1>13. \A x \in Refresher : RealmOf(x)' = RealmOf(x)
  BY <1>1 DEF RealmOf
<1>. QED
  BY <1>3, <1>12, <1>13

LEMMA RejectedInv ==
  ASSUME SessionInv, NEW c \in Call, Rejected(c)
  PROVE  SessionInv'
<1>0. UNCHANGED <<row, issued, alarms, page, loads, stray, logout>> /\ call[c].at = "sent"
  BY DEF Rejected, server
<1>1. PICK a \in Boot :
        /\ a = <<call[c].realm, call[c].tab>>
        /\ a[1] = call[c].realm /\ a[2] = call[c].tab /\ OfPage(c, a)
        /\ mem[a].hydrated /\ mem[a] \in Store /\ a \in Refresher /\ pend[a].at = "none"
  BY <1>0, CallOfPage
<1>2. c \in Refresher /\ c \notin Boot /\ call[c] \in CallRecord
  BY BootsAndCalls DEF SessionInv, TypeOK
<1>3. pend[c].at = "none"
  BY <1>0 DEF SessionInv, PagesInv, WaitersHaveRefresher
<1>4. ASSUME call'[c].at \in {"idle", "queued"}, call' \in [Call -> CallRecord],
             call'[c].at = "queued" => /\ call'[c].realm = a[1] /\ call'[c].tab = a[2]
                                       /\ mem[a].refreshing,
             \A d \in Call : d # c => call'[d] = call[d],
             UNCHANGED <<pend, shown>>,
             \/ UNCHANGED <<stored, mem>>
             \/ mem' = [mem EXCEPT ![a] = WithoutSession(@)] /\ Persisted(a[1], NoToken)
      PROVE  SessionInv'
  <2>0. UNCHANGED <<pend, mine, spent, shared>>
    BY <1>4 DEF shown
  <2>1. \/ UNCHANGED <<stored, mem>>
        \/ /\ stored' = [k \in Realms |-> IF k = a[1] THEN NoToken ELSE stored[k]]
           /\ mem' \in [Boot -> Store] /\ mem'[a] = WithTokens(mem[a], NoToken)
           /\ \A x \in Boot : x # a => mem'[x] = mem[x]
    <3>1. CASE Persisted(a[1], NoToken) /\ mem' = [mem EXCEPT ![a] = WithoutSession(@)]
      <4>1. WithoutSession(mem[a]) = WithTokens(mem[a], NoToken) /\ WithTokens(mem[a], NoToken) \in Store
        BY <1>1, StoresWritten DEF MaybeToken
      <4>. QED
        BY <3>1, <4>1, BootsAndCalls, PersistedIs DEF SessionInv, TypeOK
    <3>. QED
      BY <1>4, <3>1
  <2>2. \A x \in Boot : /\ mem'[x].hydrated = mem[x].hydrated
                        /\ mem'[x].booted = mem[x].booted
                        /\ mem'[x].refreshing = mem[x].refreshing
    BY <1>1, <2>1, StoresWritten DEF MaybeToken
  <2>3. PagesInv' /\ \A x \in Refresher : pend[x].at # "none" => RealmOf(x)' = RealmOf(x)
    <3>1. call'[c].at = "queued" => /\ call'[c].realm \in Realms /\ call'[c].tab \in Tab
                                    /\ <<call'[c].realm, call'[c].tab>> = a
      BY <1>1, <1>4, BootsAndCalls
    <3>2. call'[c].at # "idle" =>
            /\ call'[c].realm \in Realms /\ call'[c].tab \in Tab
            /\ mem[<<call'[c].realm, call'[c].tab>>].hydrated
            /\ call'[c].at = "queued" => mem[<<call'[c].realm, call'[c].tab>>].refreshing
      BY <1>1, <1>4, <3>1
    <3>. QED
      BY <1>0, <1>4, <2>0, <2>2, <3>2, CallChanges
  <2>4. TypeOK'
    <3>1. stored' \in [Realms -> MaybeToken] /\ mem' \in [Boot -> Store]
      BY <2>1 DEF SessionInv, TypeOK, MaybeToken
    <3>. QED
      BY <1>0, <1>4, <2>0, <3>1 DEF SessionInv, TypeOK
  <2>5. TokensInv'
    <3>1. CASE UNCHANGED <<stored, mem>>
      BY <1>0, <2>0, <2>3, <3>1, TokensStay DEF SessionInv, Granted
    <3>2. CASE ~UNCHANGED <<stored, mem>>
      <4>1. \A u, r : IssuedFor(u, r) => IssuedFor(u, r)'
        BY <1>0 DEF IssuedFor
      <4>2. mem'[a].refresh = NoToken
        BY <1>1, <2>1, <3>2, StoresWritten DEF MaybeToken
      <4>3. \A x \in Refresher : Granted(x)' => Granted(x) /\ pend'[x].new = pend[x].new /\ RealmOf(x)' = RealmOf(x)
        BY <2>0, <2>3 DEF Granted
      <4>. QED
        BY <2>0, <2>1, <3>2, <4>1, <4>2, <4>3, TokenHeld
    <3>. QED
      BY <3>1, <3>2
  <2>6. SharedInv'
    BY <1>0, <2>0, SharedFrame DEF Sending
  <2>. QED
    BY <2>3, <2>4, <2>5, <2>6 DEF SessionInv
<1>5. ASSUME ~mem[a].refreshing, mem[a].refresh # NoToken,
             call' = [call EXCEPT ![c].at = "refreshing", ![c].retried = TRUE],
             mem' = [mem EXCEPT ![a].refreshing = TRUE],
             pend' = [pend EXCEPT ![c] = Sent(mem[a].refresh)],
             Presents(a[2], mem[a].refresh), UNCHANGED stored
      PROVE  SessionInv'
  <2>1. PICK t \in Token : t = mem[a].refresh
    BY <1>1, <1>5 DEF Store, MaybeToken
  <2>2. /\ call' \in [Call -> CallRecord] /\ call'[c].at = "refreshing"
        /\ call'[c].realm = call[c].realm /\ call'[c].tab = call[c].tab
        /\ \A d \in Call : d # c => call'[d] = call[d]
    BY <1>2, <1>5 DEF SessionInv, TypeOK, CallRecord
  <2>3. /\ mem' \in [Boot -> Store] /\ mem'[a].refreshing /\ mem'[a].refresh = mem[a].refresh
        /\ mem'[a].hydrated = mem[a].hydrated /\ mem'[a].booted = mem[a].booted
        /\ \A x \in Boot : x # a => mem'[x] = mem[x]
    BY <1>1, <1>5 DEF SessionInv, TypeOK, Store
  <2>4. /\ pend' \in [Refresher -> Request] /\ pend'[c].at = "sent" /\ pend'[c].token = t
        /\ \A x \in Refresher : x # c => pend'[x] = pend[x]
    BY <1>2, <1>5, <2>1, SentTyped DEF SessionInv, TypeOK
  <2>5. PagesInv' /\ \A x \in Refresher : RealmOf(x)' = RealmOf(x)
    <3>1. \A d \in Call : d # c => call'[d] = call[d] /\ pend'[d] = pend[d]
      BY <2>2, <2>4, BootsAndCalls
    <3>2. \A x \in Boot : pend'[x] = pend[x]
      BY <1>2, <2>4, BootsAndCalls
    <3>3. RefreshStarted(a, c)
      BY <1>0, <1>1, <1>5, <2>2, <2>3, <2>4, <3>1, <3>2 DEF RefreshStarted
    <3>. QED
      BY <3>3, RefreshStarts
  <2>6. HeldTokenSent(a, c, t)
    <3>1. \A y \in Boot : /\ mem'[y].refresh = mem[y].refresh
                          /\ y # a => mem'[y].refreshing = mem[y].refreshing
      BY <2>3
    <3>. QED
      BY <1>0, <1>1, <1>3, <1>5, <2>1, <2>3, <2>4, <2>5, <3>1 DEF HeldTokenSent
  <2>7. /\ TokensInv' /\ SharedInv'
        /\ spent' \subseteq Token /\ shared' \subseteq Token /\ mine' \in [Tab -> SUBSET Token]
    BY <1>2, <2>6, PresentedInv
  <2>8. TypeOK'
    BY <1>0, <1>5, <2>2, <2>3, <2>4, <2>7 DEF SessionInv, TypeOK
  <2>. QED
    BY <2>5, <2>7, <2>8 DEF SessionInv
<1>6. CASE Ended(c)
  <2>1. call'[c].at = "idle" /\ call' \in [Call -> CallRecord] /\ \A d \in Call : d # c => call'[d] = call[d]
    BY <1>6, IdleTyped DEF Ended, SessionInv, TypeOK, IdleCall
  <2>2. /\ UNCHANGED <<pend, shown>>
        /\ \/ UNCHANGED <<stored, mem>>
           \/ mem' = [mem EXCEPT ![a] = WithoutSession(@)] /\ Persisted(a[1], NoToken)
    <3>1. call'[c].at # "queued" /\ call'[c].at # "refreshing"
      BY <2>1
    <3>2. call[c].realm = a[1] /\ call[c].tab = a[2]
      BY <1>1
    <3>. QED
      BY <1>1, <1>2, <3>1 DEF Rejected, SessionInv, TypeOK, CallRecord
  <2>. QED
    BY <1>4, <2>1, <2>2
<1>7. CASE RefreshInProgress(a) /\ call' = [call EXCEPT ![c].at = "queued", ![c].retried = TRUE]
           /\ UNCHANGED <<stored, mem, pend, shown>>
  <2>1. /\ call'[c].at = "queued" /\ call' \in [Call -> CallRecord]
        /\ call'[c].realm = a[1] /\ call'[c].tab = a[2] /\ \A d \in Call : d # c => call'[d] = call[d]
    BY <1>1, <1>2, <1>7 DEF SessionInv, TypeOK, CallRecord
  <2>. QED
    BY <1>4, <1>7, <2>1 DEF RefreshInProgress
<1>. QED
  BY <1>1, <1>5, <1>6, <1>7 DEF Rejected, RefreshInProgress

\* Call c has its answer, and with it page a and the calls that wait for c.
RefreshEnded(a, c) ==
  /\ OfPage(c, a) /\ call[c].at = "refreshing"
  /\ \A d \in Call :
       IF d = c \/ (OfPage(d, a) /\ call[d].at = "queued")
       THEN \/ call'[d].at = "sent" /\ call'[d].realm = call[d].realm /\ call'[d].tab = call[d].tab
            \/ call'[d].at = "idle"
       ELSE call'[d] = call[d]
  /\ pend'[c].at = "none" /\ \A x \in Refresher : x # c => pend'[x] = pend[x]
  /\ ~mem'[a].refreshing /\ mem'[a].hydrated = mem[a].hydrated /\ mem'[a].booted = mem[a].booted
  /\ \A x \in Boot : x # a => mem'[x] = mem[x]

LEMMA RefreshEnds ==
  ASSUME SessionInv, NEW a \in Boot, NEW c \in Call, RefreshEnded(a, c)
  PROVE  /\ PagesInv'
         /\ \A x \in Refresher : x # c /\ pend[x].at # "none" => RealmOf(x)' = RealmOf(x)
<1> USE DEF SessionInv, PagesInv
<1>1. OfPage(c, a) /\ call[c].at = "refreshing" /\ c \notin Boot /\ c \in Refresher
  BY BootsAndCalls DEF RefreshEnded
<1>2. \A d \in Call :
        IF d = c \/ (OfPage(d, a) /\ call[d].at = "queued")
        THEN \/ call'[d].at = "sent" /\ call'[d].realm = call[d].realm /\ call'[d].tab = call[d].tab
             \/ call'[d].at = "idle"
        ELSE call'[d] = call[d]
  BY DEF RefreshEnded
<1>3. pend'[c].at = "none" /\ \A x \in Refresher : x # c => pend'[x] = pend[x]
  BY DEF RefreshEnded
<1>4. /\ ~mem'[a].refreshing
      /\ \A x \in Boot : mem'[x].hydrated = mem[x].hydrated /\ mem'[x].booted = mem[x].booted
      /\ \A x \in Boot : x # a => mem'[x].refreshing = mem[x].refreshing
  BY DEF RefreshEnded
<1>5. \A d \in Call : call'[d].at # "idle" =>
        call[d].at # "idle" /\ call'[d].realm = call[d].realm /\ call'[d].tab = call[d].tab
  BY <1>1, <1>2
<1>6. \A d \in Call : call'[d].at \in {"queued", "refreshing"} =>
        /\ call'[d] = call[d] /\ d # c
        /\ call[d].at = "queued" => ~OfPage(d, a)
  BY <1>2
<1>7. CallsOfPages'
  <2>1. \A d \in Call : call[d].at # "idle" => <<call[d].realm, call[d].tab>> \in Boot
    BY BootsAndCalls DEF CallsOfPages
  <2>2. \A d \in Call : call'[d].at # "idle" =>
          /\ call[d].realm \in Realms /\ call[d].tab \in Tab
          /\ mem'[<<call[d].realm, call[d].tab>>].hydrated
    BY <1>4, <1>5, <2>1 DEF CallsOfPages
  <2>. QED
    BY <1>5, <2>2 DEF CallsOfPages
<1>8. \A d \in Call : d # c /\ call[d].at = "refreshing" => call'[d] = call[d] /\ ~OfPage(d, a)
  BY <1>1, <1>2 DEF WaitersHaveRefresher
<1>9. ASSUME NEW x \in Boot, OfPage(c, x) PROVE x = a
  <2>1. x[1] = a[1] /\ x[2] = a[2]
    BY <1>1, <1>9 DEF OfPage
  <2>2. x = <<x[1], x[2]>> /\ a = <<a[1], a[2]>>
    BY BootsAndCalls
  <2>. QED
    BY <2>1, <2>2
<1>10. \A x \in Boot, d \in Call :
        call'[d].at \in {"queued", "refreshing"} /\ OfPage(d, x)' => mem'[x].refreshing
  <2> SUFFICES ASSUME NEW x \in Boot, NEW d \in Call,
                      call'[d].at \in {"queued", "refreshing"}, OfPage(d, x)'
               PROVE  mem'[x].refreshing
    OBVIOUS
  <2>1. call'[d] = call[d] /\ OfPage(d, x)
    BY <1>6 DEF OfPage
  <2>2. x # a
    BY <1>6, <1>8, <2>1
  <2>3. mem[x].refreshing
    BY <2>1 DEF WaitersHaveRefresher
  <2>. QED
    BY <1>4, <2>2, <2>3
<1>11. \A x \in Boot :
        mem'[x].refreshing => \E d \in Call : call'[d].at = "refreshing" /\ OfPage(d, x)'
  <2> SUFFICES ASSUME NEW x \in Boot, mem'[x].refreshing
               PROVE  \E d \in Call : call'[d].at = "refreshing" /\ OfPage(d, x)'
    OBVIOUS
  <2>1. x # a /\ mem[x].refreshing
    BY <1>4
  <2>2. PICK d \in Call : call[d].at = "refreshing" /\ OfPage(d, x)
    BY <2>1 DEF WaitersHaveRefresher
  <2>3. call'[d] = call[d]
    BY <1>8, <1>9, <2>1, <2>2
  <2>. QED
    BY <2>2, <2>3 DEF OfPage
<1>12. \A x \in Boot, d, e \in Call :
        /\ call'[d].at = "refreshing" /\ call'[e].at = "refreshing"
        /\ OfPage(d, x)' /\ OfPage(e, x)'
        => d = e
  BY <1>6 DEF WaitersHaveRefresher, OfPage
<1>13. \A d \in Call : pend'[d].at # "none" <=> call'[d].at = "refreshing"
  <2>1. \A d \in Call : d # c => pend'[d] = pend[d]
    BY <1>3, BootsAndCalls
  <2>. QED
    BY <1>2, <1>3, <1>8, <2>1 DEF WaitersHaveRefresher
<1>14. \A x \in Boot : pend'[x].at # "none" <=> mem'[x].booted /\ ~mem'[x].hydrated
  <2>1. \A x \in Boot : pend'[x] = pend[x]
    BY <1>1, <1>3, BootsAndCalls
  <2>. QED
    BY <1>4, <2>1 DEF WaitersHaveRefresher
<1>15. WaitersHaveRefresher'
  BY <1>10, <1>11, <1>12, <1>13, <1>14 DEF WaitersHaveRefresher
<1>16. \A x \in Refresher : x # c /\ pend[x].at # "none" => RealmOf(x)' = RealmOf(x)
  BY <1>8 DEF RealmOf, WaitersHaveRefresher
<1>. QED
  BY <1>7, <1>15, <1>16

LEMMA RefreshedInv ==
  ASSUME SessionInv, NEW c \in Call, Refreshed(c)
  PROVE  SessionInv'
<1>0. UNCHANGED <<row, issued, alarms, page, loads, stray, logout, mine, spent, shared>>
  BY DEF Refreshed, server, shown
<1>1. pend[c].at \in {"granted", "refused"} /\ c \in Refresher /\ c \notin Boot /\ call[c].at = "refreshing"
  BY BootsAndCalls DEF Refreshed, SessionInv, PagesInv, WaitersHaveRefresher
<1>2. PICK a \in Boot :
        /\ a = <<call[c].realm, call[c].tab>>
        /\ a[1] = call[c].realm /\ a[2] = call[c].tab /\ OfPage(c, a)
        /\ mem[a].hydrated /\ mem[a] \in Store /\ a \in Refresher /\ pend[a].at = "none"
  BY <1>1, CallOfPage
<1>3. \A d \in Call : d \in Flushed(a, c) <=> d = c \/ (OfPage(d, a) /\ call[d].at = "queued")
  BY DEF Flushed, CallsOf, OfPage
<1>4. PICK n \in MaybeToken :
        /\ n = IF Granted(c) THEN pend[c].new ELSE NoToken
        /\ mem' = [mem EXCEPT ![a] = [WithTokens(@, n) EXCEPT !.refreshing = FALSE]]
        /\ Persisted(a[1], n)
        /\ call' = [x \in Call |-> IF x \in Flushed(a, c)
                      THEN IF Granted(c) THEN [call[x] EXCEPT !.at = "sent", !.with = n] ELSE IdleCall
                      ELSE call[x]]
  <2>1. pend[c].new \in MaybeToken /\ NoToken \in MaybeToken
    BY <1>1 DEF SessionInv, TypeOK, Request, MaybeToken
  <2>2. CASE Granted(c)
    BY <1>2, <2>1, <2>2 DEF Refreshed, Granted
  <2>3. CASE ~Granted(c)
    <3>1. WithoutSession(mem[a]) = WithTokens(mem[a], NoToken)
      BY <1>2, <2>1, StoresWritten
    <3>. QED
      BY <1>1, <1>2, <2>1, <2>3, <3>1 DEF Refreshed, Granted
  <2>. QED
    BY <2>2, <2>3
<1>5. stored' = [k \in Realms |-> IF k = a[1] THEN n ELSE stored[k]]
  <2>1. Persisted(a[1], n)
    BY <1>4
  <2>2. a[1] \in Realms
    BY BootsAndCalls
  <2>. QED
    BY <2>1, <2>2, PersistedIs
<1>6. /\ pend' \in [Refresher -> Request] /\ pend'[c].at = "none"
      /\ \A x \in Refresher : x # c => pend'[x] = pend[x]
  BY <1>1, NoRequestTyped DEF Refreshed, SessionInv, TypeOK
<1>7. /\ mem' \in [Boot -> Store] /\ \A x \in Boot : x # a => mem'[x] = mem[x]
      /\ mem'[a].refresh = n /\ ~mem'[a].refreshing
      /\ mem'[a].hydrated = mem[a].hydrated /\ mem'[a].booted = mem[a].booted
  <2>1. /\ WithTokens(mem[a], n) \in Store /\ WithTokens(mem[a], n).refresh = n
        /\ WithTokens(mem[a], n).hydrated = mem[a].hydrated
        /\ WithTokens(mem[a], n).booted = mem[a].booted
    BY <1>2, <1>4, StoresWritten
  <2>. QED
    BY <1>4, <2>1 DEF SessionInv, TypeOK, Store
<1>8. call' \in [Call -> CallRecord]
  BY <1>4, IdleTyped DEF SessionInv, TypeOK, CallRecord
<1>9. \A d \in Call :
        IF d = c \/ (OfPage(d, a) /\ call[d].at = "queued")
        THEN \/ call'[d].at = "sent" /\ call'[d].realm = call[d].realm /\ call'[d].tab = call[d].tab
             \/ call'[d].at = "idle"
        ELSE call'[d] = call[d]
  BY <1>3, <1>4 DEF IdleCall, SessionInv, TypeOK, CallRecord
<1>10. /\ PagesInv'
       /\ \A x \in Refresher : x # c /\ pend[x].at # "none" => RealmOf(x)' = RealmOf(x)
  <2>1. RefreshEnded(a, c)
    BY <1>1, <1>2, <1>6, <1>7, <1>9 DEF RefreshEnded
  <2>. QED
    BY <2>1, RefreshEnds
<1>11. TypeOK'
  <2>1. stored' \in [Realms -> MaybeToken]
    BY <1>4, <1>5 DEF SessionInv, TypeOK
  <2>. QED
    BY <1>0, <1>6, <1>7, <1>8, <2>1 DEF SessionInv, TypeOK
<1>12. TokensInv'
  <2>1. \A u, x : IssuedFor(u, x) => IssuedFor(u, x)'
    BY <1>0 DEF IssuedFor
  <2>2. \A x \in Refresher :
          Granted(x)' => x # c /\ Granted(x) /\ pend'[x].new = pend[x].new /\ RealmOf(x)' = RealmOf(x)
    BY <1>6, <1>10 DEF Granted
  <2>3. n # NoToken => /\ IssuedFor(n, a[1]) /\ n \notin spent
                       /\ \A x \in Refresher : Granted(x)' => pend[x].new # n
    <3>1. n # NoToken => Granted(c) /\ n = pend[c].new
      BY <1>4
    <3>2. RealmOf(c) = a[1]
      BY <1>2, BootsAndCalls
    <3>. QED
      BY <1>1, <2>2, <3>1, <3>2 DEF SessionInv, TokensInv, TokensOfRealm, GrantedIsUnseen
  <2>4. n # NoToken => IssuedFor(n, a[1])'
    BY <2>1, <2>3
  <2>5. \A x \in Boot : x # a => mem'[x] = mem[x] /\ pend'[x].at = pend[x].at
    BY <1>1, <1>6, <1>7, BootsAndCalls
  <2>. QED
    BY <1>0, <1>5, <1>7, <2>2, <2>1, <2>3, <2>4, <2>5, TokenHeld
<1>13. SharedInv'
  BY <1>0, <1>6, SharedFrame DEF Sending
<1>. QED
  BY <1>10, <1>11, <1>12, <1>13 DEF SessionInv

-----------------------------------------------------------------------------
(* A page load.                                                            *)

\* The tokens that tab b awaits become stray.
Abandoned(b) == {a \in Refresher : TabOf(a) = b /\ Sending(a)}

\* Two requests with one token are known as shared, wherever they are.
LEMMA StraysShared ==
  ASSUME SessionInv, NEW b \in Tab, UNCHANGED <<row, alarms, spent, shared>>,
         stray' = stray \cup {<<RealmOf(a), pend[a].token, loads>> : a \in Abandoned(b)},
         \A x \in Refresher : Sending(x)' => Sending(x) /\ pend'[x] = pend[x] /\ x \notin Abandoned(b)
  PROVE  SharedInv'
<1> USE DEF SessionInv, SharedInv
<1>1. \A s \in stray' : s \in stray \/ \E a \in Abandoned(b) : s = <<RealmOf(a), pend[a].token, loads>>
  OBVIOUS
<1>2. \A a \in Abandoned(b) : a \in Refresher /\ Sending(a)
  BY DEF Abandoned
<1>3. \A s \in stray' : s \in stray \/ \E a \in Abandoned(b) :
        s = <<RealmOf(a), pend[a].token, loads>> /\ s[2] = pend[a].token /\ a \in Refresher /\ Sending(a)
  BY <1>1, <1>2
<1>4. FlyingIsSpent'
  <2>1. \A a \in Refresher : Sending(a)' => pend'[a].token \in spent
    BY DEF FlyingIsSpent
  <2>2. \A s \in stray' : s[2] \in spent
    BY <1>3 DEF FlyingIsSpent
  <2>3. \A t \in Token : row[t].is = "rotated" => t \in spent
    BY DEF FlyingIsSpent
  <2>. QED
    BY <2>1, <2>2, <2>3 DEF FlyingIsSpent
<1>5. SecondIsShared'
  <2>1. \A a \in Refresher : Sending(a)' /\ row[pend'[a].token].is = "rotated" => pend'[a].token \in shared
    BY DEF SecondIsShared
  <2>2. \A s \in stray' : row[s[2]].is = "rotated" => s[2] \in shared
    BY <1>3 DEF SecondIsShared
  <2>3. \A a, x \in Refresher :
          Sending(a)' /\ Sending(x)' /\ pend'[a].token = pend'[x].token /\ a # x => pend'[a].token \in shared
    BY DEF SecondIsShared
  <2>4. \A a \in Refresher, s \in stray' : Sending(a)' /\ pend'[a].token = s[2] => s[2] \in shared
    <3> SUFFICES ASSUME NEW a \in Refresher, NEW s \in stray', Sending(a)', pend'[a].token = s[2]
                 PROVE  s[2] \in shared
      OBVIOUS
    <3>1. Sending(a) /\ pend[a].token = s[2] /\ a \notin Abandoned(b)
      OBVIOUS
    <3>2. CASE s \in stray
      BY <3>1, <3>2 DEF SecondIsShared
    <3>3. CASE s \notin stray
      <4>1. PICK x \in Abandoned(b) : s[2] = pend[x].token /\ x \in Refresher /\ Sending(x)
        BY <1>3, <3>3
      <4>. QED
        BY <3>1, <4>1 DEF SecondIsShared
    <3>. QED
      BY <3>2, <3>3
  <2>5. \A s, u \in stray' : s # u /\ s[2] = u[2] => s[2] \in shared
    <3>1. ASSUME NEW s \in stray, NEW x \in Refresher, Sending(x), pend[x].token = s[2] PROVE s[2] \in shared
      BY <3>1 DEF SecondIsShared
    <3> SUFFICES ASSUME NEW s \in stray', NEW u \in stray', s # u, s[2] = u[2]
                 PROVE  s[2] \in shared
      OBVIOUS
    <3>2. CASE s \in stray /\ u \in stray
      BY <3>2 DEF SecondIsShared
    <3>3. CASE s \in stray /\ u \notin stray
      BY <1>3, <3>1, <3>3
    <3>4. CASE s \notin stray /\ u \in stray
      BY <1>3, <3>1, <3>4
    <3>5. CASE s \notin stray /\ u \notin stray
      <4>1. PICK x \in Abandoned(b) : s = <<RealmOf(x), pend[x].token, loads>> /\ s[2] = pend[x].token
                                      /\ x \in Refresher /\ Sending(x)
        BY <1>3, <3>5
      <4>2. PICK y \in Abandoned(b) : u = <<RealmOf(y), pend[y].token, loads>> /\ u[2] = pend[y].token
                                      /\ y \in Refresher /\ Sending(y)
        BY <1>3, <3>5
      <4>3. x # y
        BY <4>1, <4>2
      <4>. QED
        BY <4>1, <4>2, <4>3 DEF SecondIsShared
    <3>. QED
      BY <3>2, <3>3, <3>4, <3>5
  <2>6. UNCHANGED <<row, shared>>
    OBVIOUS
  <2>. QED
    BY <2>1, <2>2, <2>3, <2>4, <2>5, <2>6 DEF SecondIsShared
<1>. QED
  BY <1>4, <1>5 DEF ReuseNeedsTwoLoads

LEMMA LoadPageInv ==
  ASSUME SessionInv, NEW r \in Realms, NEW b \in Tab, NEW at \in {"login", "app"}, LoadPage(r, b, at)
  PROVE  SessionInv'
<1>0. UNCHANGED <<row, issued, alarms, stored, spent, shared>>
  BY DEF LoadPage, server
<1>1. /\ loads < MaxLoad /\ loads' = loads + 1
      /\ page' = [page EXCEPT ![b] = [realm |-> r, at |-> at]]
      /\ mem' = [a \in Boot |-> IF a[2] = b THEN NewStore(stored[a[1]]) ELSE mem[a]]
      /\ pend' = [a \in Refresher |-> IF TabOf(a) = b THEN NoRequest ELSE pend[a]]
      /\ call' = [c \in Call |-> IF call[c].tab = b THEN IdleCall ELSE call[c]]
      /\ logout' = [a \in Boot |-> IF a[2] = b THEN NoRequest ELSE logout[a]]
      /\ mine' = [mine EXCEPT ![b] = {}]
  BY DEF LoadPage
<1>2. stray' = stray \cup {<<RealmOf(a), pend[a].token, loads>> : a \in Abandoned(b)}
  BY DEF LoadPage, Abandoned, Sending
<1>3. \A x \in Boot : /\ x[2] = b => /\ mem'[x].refresh = stored[x[1]] /\ ~mem'[x].hydrated
                                     /\ ~mem'[x].booted /\ ~mem'[x].refreshing
                      /\ x[2] # b => mem'[x] = mem[x] /\ pend'[x] = pend[x]
  BY <1>1, BootsAndCalls DEF NewStore
<1>4. \A x \in Refresher : pend'[x].at # "none" => TabOf(x) # b /\ pend'[x] = pend[x]
  BY <1>1, NoRequestTyped
<1>5. \A d \in Call : IF call[d].tab = b THEN call'[d].at = "idle" /\ pend'[d].at = "none"
                                         ELSE call'[d] = call[d] /\ pend'[d] = pend[d]
  BY <1>1, NoRequestTyped, BootsAndCalls DEF IdleCall
<1>6. \A x \in Refresher : pend'[x].at # "none" => RealmOf(x)' = RealmOf(x)
  BY <1>4, <1>5, BootsAndCalls DEF RealmOf
<1>7. TypeOK'
  <2>1. /\ mem' \in [Boot -> Store] /\ logout' \in [Boot -> Request] /\ pend' \in [Refresher -> Request]
        /\ call' \in [Call -> CallRecord]
    BY <1>1, NoRequestTyped, IdleTyped, BootsAndCalls DEF SessionInv, TypeOK, NewStore, Store, MaybeToken
  <2>2. /\ page' \in [Tab -> Page] /\ mine' \in [Tab -> SUBSET Token]
        /\ loads \in 0..MaxLoad /\ loads' \in 0..MaxLoad
    BY <1>1, BoundAssumption DEF SessionInv, TypeOK, Page
  <2>3. stray' \subseteq Realms \X Token \X (0..MaxLoad)
    <3>1. \A a \in Abandoned(b) : RealmOf(a) \in Realms /\ pend[a].token \in Token
      BY SendersKnown DEF Abandoned, Sending
    <3>. QED
      BY <1>2, <2>2, <3>1 DEF SessionInv, TypeOK
  <2>. QED
    BY <1>0, <2>1, <2>2, <2>3 DEF SessionInv, TypeOK
<1>8. PagesInv'
  <2> USE DEF SessionInv, PagesInv
  <2>1. CallsOfPages'
    <3> SUFFICES ASSUME NEW c \in Call, call'[c].at # "idle"
                 PROVE  /\ call'[c].realm \in Realms /\ call'[c].tab \in Tab
                        /\ mem'[<<call'[c].realm, call'[c].tab>>].hydrated
      BY DEF CallsOfPages
    <3>1. call'[c] = call[c] /\ call[c].tab # b /\ call[c].at # "idle"
      BY <1>5
    <3>2. PICK x \in Boot : x = <<call[c].realm, call[c].tab>> /\ x[2] = call[c].tab /\ mem[x].hydrated
      BY <3>1, CallOfPage
    <3>3. mem'[x] = mem[x]
      BY <1>3, <3>1, <3>2
    <3>4. call[c].realm \in Realms /\ call[c].tab \in Tab
      BY <3>1 DEF CallsOfPages
    <3>. QED
      BY <3>1, <3>2, <3>3, <3>4
  <2>2. \A x \in Boot, d \in Call :
          call'[d].at # "idle" /\ OfPage(d, x)' =>
            call'[d] = call[d] /\ OfPage(d, x) /\ mem'[x] = mem[x]
    BY <1>3, <1>5 DEF OfPage
  <2>3. \A x \in Boot, d \in Call :
          call'[d].at \in {"queued", "refreshing"} /\ OfPage(d, x)' => mem'[x].refreshing
    BY <2>2 DEF WaitersHaveRefresher
  <2>4. \A x \in Boot :
          mem'[x].refreshing => \E d \in Call : call'[d].at = "refreshing" /\ OfPage(d, x)'
    <3> SUFFICES ASSUME NEW x \in Boot, mem'[x].refreshing
                 PROVE  \E d \in Call : call'[d].at = "refreshing" /\ OfPage(d, x)'
      OBVIOUS
    <3>1. x[2] # b /\ mem[x].refreshing
      BY <1>3
    <3>2. PICK d \in Call : call[d].at = "refreshing" /\ OfPage(d, x)
      BY <3>1 DEF WaitersHaveRefresher
    <3>3. call'[d] = call[d]
      BY <1>5, <3>1, <3>2 DEF OfPage
    <3>. QED
      BY <3>2, <3>3 DEF OfPage
  <2>5. \A x \in Boot, d, e \in Call :
          /\ call'[d].at = "refreshing" /\ call'[e].at = "refreshing"
          /\ OfPage(d, x)' /\ OfPage(e, x)'
          => d = e
    BY <2>2 DEF WaitersHaveRefresher
  <2>6. \A d \in Call : pend'[d].at # "none" <=> call'[d].at = "refreshing"
    BY <1>5 DEF WaitersHaveRefresher
  <2>7. \A x \in Boot : pend'[x].at # "none" <=> mem'[x].booted /\ ~mem'[x].hydrated
    BY <1>3, <1>4, BootsAndCalls DEF WaitersHaveRefresher
  <2>. QED
    BY <2>1, <2>3, <2>4, <2>5, <2>6, <2>7 DEF WaitersHaveRefresher
<1>9. TokensInv'
  <2> USE DEF SessionInv, TokensInv
  <2>1. \A u, x : IssuedFor(u, x)' <=> IssuedFor(u, x)
    BY <1>0 DEF IssuedFor
  <2>2. \A x \in Boot : \/ mem'[x].refresh = mem[x].refresh
                        \/ mem'[x].refresh = stored[x[1]]
    BY <1>3
  <2>3. \A x \in Refresher : Granted(x)' =>
          Granted(x) /\ pend'[x].new = pend[x].new /\ RealmOf(x)' = RealmOf(x)
    BY <1>4, <1>6 DEF Granted
  <2>4. TokensOfRealm'
    <3>1. \A x \in Boot : mem'[x].refresh # NoToken => IssuedFor(mem'[x].refresh, x[1])
      BY <2>2, BootsAndCalls DEF TokensOfRealm
    <3>2. \A x \in Refresher : Granted(x)' => IssuedFor(pend'[x].new, RealmOf(x)')
      BY <2>3 DEF TokensOfRealm
    <3>3. /\ \A x \in Boot : mem'[x].refresh # NoToken => IssuedFor(mem[x].refresh, x[1])'
          /\ \A x \in Refresher : Granted(x)' => IssuedFor(pend[x].new, RealmOf(x))'
      BY <1>0, <3>1, <3>2 DEF IssuedFor
    <3>4. \A k \in Realms : stored'[k] # NoToken => IssuedFor(stored[k], k)'
      BY <1>0 DEF TokensOfRealm, IssuedFor
    <3>5. spent' \subseteq 1..issued'
      BY <1>0 DEF TokensOfRealm
    <3>. QED
      BY <3>3, <3>4, <3>5 DEF TokensOfRealm
  <2>5. GrantedIsUnseen'
    BY <1>0, <2>2, <2>3, BootsAndCalls DEF GrantedIsUnseen
  <2>6. SentOnce'
    <3>1. mine'[b] = {} /\ \A x \in Tab : x # b => mine'[x] = mine[x]
      BY <1>1 DEF TypeOK
    <3>. QED
      BY <1>0, <1>3, <3>1, BootsAndCalls DEF SentOnce
  <2>. QED
    BY <2>4, <2>5, <2>6
<1>10. SharedInv'
  <2>1. \A x \in Refresher : Sending(x)' => Sending(x) /\ pend'[x] = pend[x] /\ x \notin Abandoned(b)
    BY <1>4 DEF Sending, Abandoned
  <2>. QED
    BY <1>0, <1>2, <2>1, StraysShared
<1>. QED
  BY <1>7, <1>8, <1>9, <1>10 DEF SessionInv

-----------------------------------------------------------------------------
(* The invariant and the properties of the runs.                           *)

LEMMA ServerStepInv ==
  ASSUME SessionInv, ServerStep
  PROVE  SessionInv'
<1>1. ASSUME NEW a \in Refresher, RefreshAtServer(a) \/ LoseRefresh(a) PROVE SessionInv'
  BY <1>1, RefreshAtServerInv, LoseRefreshInv
<1>2. ASSUME NEW s \in stray, StrayRefresh(s) PROVE SessionInv'
  BY <1>2, StrayRefreshInv
<1>3. ASSUME NEW a \in Boot, LogoutAtServer(a) PROVE SessionInv'
  BY <1>3, LogoutAtServerInv
<1>. QED
  BY <1>1, <1>2, <1>3, ResetPasswordInv DEF ServerStep

\* What a page of realm r does by itself, written once for each realm.
LEMMA TabStepInv ==
  ASSUME SessionInv, NEW r \in Realms, NEW b \in Tab,
         \/ Bootstrap(r, b) \/ Bootstrapped(r, b) \/ Redirect(r, b) \/ Login(r, b)
         \/ LogoutSend(r, b) \/ LogoutSettle(<<r, b>>)
  PROVE  SessionInv'
<1>1. CASE Bootstrap(r, b)
  BY <1>1, BootstrapInv
<1>2. CASE Bootstrapped(r, b)
  BY <1>2, BootstrappedInv
<1>3. CASE Redirect(r, b)
  BY <1>3, RedirectInv
<1>4. CASE Login(r, b)
  BY <1>4, LoginInv
<1>5. CASE LogoutSend(r, b)
  BY <1>5, LogoutSendInv
<1>6. CASE LogoutSettle(<<r, b>>)
  <2>1. <<r, b>> \in Boot
    BY BootsAndCalls
  <2>. QED
    BY <1>6, <2>1, LogoutSettleInv
<1>. QED
  BY <1>1, <1>2, <1>3, <1>4, <1>5, <1>6

LEMMA StepInv ==
  ASSUME SessionInv, [Next]_vars
  PROVE  SessionInv'
<1>1. CASE ServerStep
  BY <1>1, ServerStepInv
<1>2. ASSUME NEW b \in Tab, StaffStep(b) PROVE SessionInv'
  BY <1>2, TabStepInv DEF StaffStep
<1>3. ASSUME NEW b \in Tab, PlatformStep(b) PROVE SessionInv'
  BY <1>3, TabStepInv DEF PlatformStep, InPlatform, PlatformBootstrap, PlatformBootstrapped,
     PlatformRedirect, PlatformLogin, PlatformLogoutSend, PlatformLogoutSettle
<1>4. ASSUME NEW c \in Call, CallStep(c) PROVE SessionInv'
  BY <1>4, AnsweredInv, RejectedInv, RefreshedInv DEF CallStep, PlatformRejected, PlatformRefreshed
<1>5. ASSUME NEW r \in Realms, NEW b \in Tab, NEW at \in {"login", "app"}, LoadPage(r, b, at)
      PROVE  SessionInv'
  BY <1>5, LoadPageInv
<1>6. ASSUME NEW r \in Realms, NEW b \in Tab, NEW c \in Call, IssueCall(r, b, c)
      PROVE  SessionInv'
  BY <1>6, IssueCallInv
<1>7. CASE UNCHANGED vars
  <2>1. UNCHANGED <<row, issued, alarms, stored, mem, page, loads, call, pend, stray, logout,
                    mine, spent, shared>>
    BY <1>7 DEF vars
  <2>. QED
    BY <2>1, RowsOnly DEF shown, SessionInv, TypeOK
<1>. QED
  BY <1>1, <1>2, <1>3, <1>4, <1>5, <1>6, <1>7 DEF Next

\* In every state the session invariant holds, for any number of tabs, calls,
\* page loads and tokens: client.ts, useAuthBootstrap.ts, the two stores and
\* the token service of the server together.
THEOREM SessionInvariant == Spec => []SessionInv
<1>1. SessionInv /\ [Next]_vars => SessionInv'
  BY StepInv
<1>. QED
  BY InitInv, <1>1, PTL DEF Spec

\* The server takes an exchanged refresh token for stolen, and ends every
\* session of the account, only when two page loads have sent that token.
THEOREM NoFalseAlarmInOnePage == Spec => []ReuseNeedsTwoLoads
<1>1. SessionInv => ReuseNeedsTwoLoads
  BY DEF SessionInv, SharedInv
<1>. QED
  BY SessionInvariant, <1>1, PTL

\* A store, in memory and in localStorage, holds a token of its own realm:
\* the platform's session and the business's never take each other's.
THEOREM StoresApart == Spec => []StoresInv
<1>1. SessionInv => StoresInv
  BY DEF SessionInv, TokensInv, TokensOfRealm, IssuedFor, StoresInv, RealmsApart
<1>. QED
  BY SessionInvariant, <1>1, PTL

\* A call in the queue waits for one call of its own page, which is the only
\* one that refreshes and has its request under way; a page with a spinner
\* has its bootstrap before it.
THEOREM CallsWaitForRefresh == Spec => []WaitsForRefresh
<1>1. ASSUME SessionInv, NEW a \in Boot,
             NEW R, R = {x \in CallsOf(a[1], a[2]) : call[x].at = "refreshing"}
      PROVE  /\ Cardinality(R) = (IF mem[a].refreshing THEN 1 ELSE 0)
             /\ \A x \in R : pend[x].at # "none"
             /\ ~mem[a].refreshing => \A x \in CallsOf(a[1], a[2]) : call[x].at # "queued"
             /\ mem[a].booted /\ ~mem[a].hydrated => pend[a].at # "none"
  <2> USE DEF SessionInv, PagesInv
  <2>1. \A x : x \in R <=> x \in Call /\ OfPage(x, a) /\ call[x].at = "refreshing"
    BY <1>1 DEF CallsOf, OfPage
  <2>2. Cardinality(R) = (IF mem[a].refreshing THEN 1 ELSE 0)
    <3>1. CASE mem[a].refreshing
      <4>1. PICK c \in Call : call[c].at = "refreshing" /\ OfPage(c, a)
        BY <1>1, <3>1 DEF WaitersHaveRefresher
      <4>2. R = {c}
        BY <1>1, <2>1, <4>1 DEF WaitersHaveRefresher
      <4>. QED
        BY <3>1, <4>2, FS_Singleton
    <3>2. CASE ~mem[a].refreshing
      <4>1. R = {}
        BY <1>1, <2>1, <3>2 DEF WaitersHaveRefresher
      <4>. QED
        BY <3>2, <4>1, FS_EmptySet
    <3>. QED
      BY <3>1, <3>2
  <2>3. \A x \in R : pend[x].at # "none"
    BY <1>1, <2>1 DEF WaitersHaveRefresher
  <2>4. ~mem[a].refreshing => \A x \in CallsOf(a[1], a[2]) : call[x].at # "queued"
    BY <1>1 DEF WaitersHaveRefresher, CallsOf, OfPage
  <2>5. mem[a].booted /\ ~mem[a].hydrated => pend[a].at # "none"
    BY <1>1 DEF WaitersHaveRefresher
  <2>. QED
    BY <2>2, <2>3, <2>4, <2>5
<1>2. SessionInv => WaitsForRefresh
  BY <1>1 DEF WaitsForRefresh
<1>. QED
  BY SessionInvariant, <1>2, PTL

-----------------------------------------------------------------------------
(* The shell: what the tables of navigation.ts and of the server say.      *)

LEMMA NavAt ==
  /\ DOMAIN NavItems = NavPaths
  /\ \A p \in NavPaths : NavItems[p].roles = RolesOf(p) /\ NavItems[p].module = ModuleOf(p)
  BY DEF NavItems

LEMMA NavRoles ==
  ASSUME role \in Role, NEW p \in NavPaths, RoleAllows(p)
  PROVE  role \in RolesOf(p)
  BY NavAt DEF RoleAllows

\* What each group of permissions covers.
Apis == {"full", "subscription", "loyalty rules", "operational", "table admin", "room admin",
         "loyalty", "billing", "online payment", "orders", "service", "kitchen", "delivery",
         "any staff", "rooms", "features", "business"}

\* A request that a user's role and the business's modules are enough for.
LEMMA PermittedIf ==
  ASSUME NEW api, role \in RolesFor(api),
         ModuleFor(api) = None \/ ModuleFor(api) \in on
  PROVE  Permitted(api)
  BY DEF Permitted

Fair(api) == Permitted(api) \/ api \in KnownRefusals

\* The home page: its cards ask what the role may have.
LEMMA HomeAsks ==
  ASSUME role \in Role, NEW api \in HomeCalls
  PROVE  Fair(api)
<1>1. role \in RolesFor(api)
  BY DEF HomeCalls, DashboardCalls, RoleHomeCalls, If, RolesFor, Role, Operational, Billing, Service
<1>2. ModuleFor(api) = None \/ (api = "delivery" /\ role = "DELIVERY")
  BY DEF HomeCalls, DashboardCalls, RoleHomeCalls, If, ModuleFor
<1>. QED
  BY <1>1, <1>2, PermittedIf DEF Fair, KnownRefusals

\* What the shell around every page asks.
LEMMA ShellAsks ==
  ASSUME role \in Role, NEW api \in ShellCalls
  PROVE  Fair(api)
<1>1. ModuleFor(api) = None
  BY DEF ShellCalls, ModuleFor
<1>2. CASE api = "subscription"
  BY <1>1, <1>2, PermittedIf DEF Fair, KnownRefusals, RolesFor
<1>3. CASE api # "subscription"
  <2>1. role \in RolesFor(api)
    BY <1>3 DEF ShellCalls, RolesFor
  <2>. QED
    BY <1>1, <2>1, PermittedIf DEF Fair
<1>. QED
  BY <1>2, <1>3

\* What each page asks, given that its role and module let the user see it.
LEMMA PageAsks ==
  ASSUME role \in Role, known \subseteq on, NEW p \in NavPaths, p # "/", RoleAllows(p),
         ModuleOf(p) = None \/ ModuleOf(p) \in known, NEW api \in PageCalls(p)
  PROVE  Fair(api)
<1>0. role \in RolesOf(p)
  BY NavRoles
<1> SUFFICES /\ role \in RolesFor(api) \/ api \in KnownRefusals
             /\ ModuleFor(api) = None \/ ModuleFor(api) \in known \/ api \in KnownRefusals
  BY PermittedIf DEF Fair
<1> USE DEF KnownRefusals, RolesFor, ModuleFor, If, Role, Operational, Billing, Service
<1>1. CASE p = "/pos"
  BY <1>0, <1>1 DEF PageCalls, RolesOf, ModuleOf, PosCalls
<1>2. CASE p = "/orders"
  BY <1>0, <1>2 DEF PageCalls, RolesOf, ModuleOf, OrdersCalls, OrderDialogCalls, BillDialogCalls
<1>3. CASE p = "/tables"
  BY <1>0, <1>3 DEF PageCalls, RolesOf, ModuleOf
<1>4. CASE p = "/rooms"
  BY <1>0, <1>4 DEF PageCalls, RolesOf, ModuleOf
<1>5. CASE p = "/kitchen"
  BY <1>0, <1>5 DEF PageCalls, RolesOf, ModuleOf
<1>6. CASE p = "/delivery"
  BY <1>0, <1>6 DEF PageCalls, RolesOf, ModuleOf
<1>7. CASE p = "/menu"
  BY <1>0, <1>7 DEF PageCalls, RolesOf, ModuleOf
<1>8. CASE p = "/customers"
  BY <1>0, <1>8 DEF PageCalls, RolesOf, ModuleOf, CustomersCalls
<1>9. CASE p = "/loyalty"
  BY <1>0, <1>9 DEF PageCalls, RolesOf, ModuleOf, LoyaltyCalls
<1>10. CASE p = "/staff"
  BY <1>0, <1>10 DEF PageCalls, RolesOf, ModuleOf
<1>11. CASE p = "/shift"
  BY <1>0, <1>11 DEF PageCalls, RolesOf, ModuleOf
<1>12. CASE p = "/billing"
  BY <1>0, <1>12 DEF PageCalls, RolesOf, ModuleOf, BillingCalls, BillDialogCalls
<1>13. CASE p = "/reports"
  BY <1>0, <1>13 DEF PageCalls, RolesOf, ModuleOf
<1>14. CASE p = "/integrations"
  BY <1>0, <1>14 DEF PageCalls, RolesOf, ModuleOf
<1>15. CASE p = "/settings"
  BY <1>0, <1>15 DEF PageCalls, RolesOf, ModuleOf
<1>16. CASE p \in {"/feature-flags", "/subscription"}
  BY <1>16 DEF PageCalls
<1>. QED
  BY <1>1, <1>2, <1>3, <1>4, <1>5, <1>6, <1>7, <1>8, <1>9, <1>10, <1>11, <1>12, <1>13, <1>14, <1>15, <1>16 DEF NavPaths

\* Whatever is shown, the tab asks no more than its user may have, as long as its
\* copy of the modules promises nothing that is off.
LEMMA CallsFair ==
  ASSUME role \in Role, path \in Path, known \subseteq on, NEW api \in Calls
  PROVE  Fair(api)
<1>1. CASE api \in ShellCalls
  BY <1>1, ShellAsks
<1>2. CASE api \notin ShellCalls
  <2>1. Shown /\ api \in PageCalls(path)
    BY <1>2 DEF Calls, If
  <2>2. CASE path = "/"
    <3>1. api \in HomeCalls
      BY <2>1, <2>2 DEF PageCalls
    <3>. QED
      BY <3>1, HomeAsks
  <2>3. CASE path # "/"
    <3>1. path \in NavPaths
      BY <2>1, <2>3, NavAt DEF Path, PageCalls
    <3>2. path \notin {"/", "/profile", "/404", "/mistyped"}
      BY <2>3, <3>1 DEF NavPaths
    <3>3. RoleAllows(path) /\ (ModuleOf(path) = None \/ ModuleOf(path) \in known)
      BY <2>1, <3>1, <3>2, NavAt DEF Shown, Verdict, ModuleVerdict
    <3>. QED
      BY <2>1, <2>3, <3>1, <3>3, PageAsks
  <2>. QED
    BY <2>2, <2>3
<1>. QED
  BY <1>1, <1>2

-----------------------------------------------------------------------------
(* The shell: the inductive invariant.                                     *)

\* A link led to an address that stays open: one for every role, or one for the
\* user's, of no module or of one that the tab knows to be enabled.
Stays(p) ==
  \/ p \in {"/", "/profile", "/404"}
  \/ p \in NavPaths /\ RoleAllows(p) /\ ModuleOf(p) \in known \cup {None}

ByLink == came \in {"nav", "banner", "card"} /\ ~(came = "card" /\ path = "/delivery")

\* Only an owner is told of the plan, and an owner always is.
PlanIsOwners == IF role = "OWNER" THEN plan # "refused" ELSE plan \in {"unknown", "refused"}

ReqsTyped == \A q \in reqs : q \in [api : Apis, sure : BOOLEAN]

ShellInv ==
  /\ ShellTypeOK
  /\ ReqsTyped
  /\ AsksWhatItMay
  /\ PlanIsOwners
  /\ ByLink => Stays(path)

\* What stays open is shown, and so are the links that lead there.
LEMMA StaysShown ==
  ASSUME ShellTypeOK, Stays(path)
  PROVE  Verdict(path) \in {"show", "wait"}
<1>1. CASE path \in {"/", "/profile", "/404"}
  BY <1>1 DEF Verdict
<1>2. CASE path \in NavPaths \ {"/"}
  <2>1. path # "/mistyped" /\ path \notin {"/profile", "/404"} /\ path # "/"
    BY <1>2 DEF NavPaths
  <2>2. RoleAllows(path) /\ ModuleOf(path) \in known \cup {None}
    BY <2>1 DEF Stays
  <2>. QED
    BY <1>2, <2>1, <2>2, NavAt DEF Verdict, ModuleVerdict
<1>. QED
  BY <1>1, <1>2 DEF Stays

\* Every menu item that is offered stays open.
LEMMA NavStays ==
  ASSUME NEW p \in VisibleNavItems
  PROVE  p \in NavPaths /\ Stays(p)
  BY NavAt DEF VisibleNavItems, Stays

\* Every card of the home page leads to a page of the user's role, but the
\* delivery staff's.
LEMMA CardStays ==
  ASSUME role \in Role, NEW p \in HomeCards
  PROVE  p \in NavPaths /\ (Stays(p) \/ p = "/delivery")
<1>1. CASE p \in VisibleNavItems
  BY <1>1, NavStays
<1>2. CASE p \notin VisibleNavItems
  <2>1. /\ p \in IF role \in Operational THEN DashboardCards ELSE LiveCards
        /\ p \in NavPaths
    BY <1>2 DEF HomeCards, QuickLinks, DashboardCards, LiveCards, NavPaths, Role, Operational
  <2>2. p = "/delivery" \/ (role \in RolesOf(p) /\ ModuleOf(p) = None)
    BY <2>1 DEF DashboardCards, LiveCards, RolesOf, ModuleOf, Role, Operational, Billing, Service
  <2>. QED
    BY <2>1, <2>2, NavAt DEF Stays, RoleAllows
<1>. QED
  BY <1>1, <1>2

\* Whatever is asked is one of the permissions above.
LEMMA CallsAreApis ==
  ASSUME NEW api \in ShellCalls \cup Calls
  PROVE  api \in Apis
<1>1. ShellCalls \subseteq Apis /\ HomeCalls \subseteq Apis /\ PosCalls \subseteq Apis
  BY DEF ShellCalls, HomeCalls, DashboardCalls, RoleHomeCalls, PosCalls, If, Apis
<1>2. OrdersCalls \cup OrderDialogCalls \subseteq Apis /\ BillingCalls \cup BillDialogCalls \subseteq Apis
  BY DEF OrdersCalls, OrderDialogCalls, BillingCalls, BillDialogCalls, If, Apis
<1>3. CustomersCalls \subseteq Apis /\ LoyaltyCalls \subseteq Apis
  BY DEF CustomersCalls, LoyaltyCalls, If, Apis
<1>4. PageCalls(path) \subseteq Apis
  BY <1>1, <1>2, <1>3 DEF PageCalls, Apis
<1>. QED
  BY <1>1, <1>4 DEF Calls, If

LEMMA RequestIs ==
  ASSUME NEW api \in Apis
  PROVE  /\ Asked(api) \in [api : Apis, sure : BOOLEAN] /\ Asked(api).api = api
         /\ Asked(api).sure => known \subseteq on
<1>1. ASSUME NEW v \in BOOLEAN
      PROVE  [api |-> api, sure |-> v] \in [api : Apis, sure : BOOLEAN]
  OBVIOUS
<1>2. (known \subseteq on) \in BOOLEAN
  OBVIOUS
<1>3. Asked(api) \in [api : Apis, sure : BOOLEAN]
  BY <1>1, <1>2, Zenon DEF Asked
<1>4. Asked(api).api = api
  BY DEF Asked
<1>5. Asked(api).sure => known \subseteq on
  BY DEF Asked
<1>. QED
  BY <1>3, <1>4, <1>5

LEMMA ShellInitInv == ShellInit => ShellInv
<1> SUFFICES ASSUME ShellInit
             PROVE  ShellInv
  OBVIOUS
<1>1. \A q \in reqs : q.api \in {"features", "subscription"} /\ q \in [api : Apis, sure : BOOLEAN]
  <2>1. reqs = {Asked("features"), Asked("subscription")}
    BY DEF ShellInit
  <2>2. {"features", "subscription"} \subseteq Apis
    BY DEF Apis
  <2>. QED
    BY <2>1, <2>2, RequestIs
<1>2. Asking("features")
  BY DEF ShellInit, Asking, Asked
<1>3. ShellTypeOK
  BY <1>2, ShellBounds DEF ShellInit, ShellTypeOK, None
<1>4. AsksWhatItMay
  <2> SUFFICES ASSUME NEW q \in reqs
               PROVE  Fair(q.api)
    BY DEF AsksWhatItMay, Fair
  <2>. QED
    BY <1>1, ShellAsks DEF ShellInit, ShellCalls
<1>5. PlanIsOwners /\ ~ByLink
  BY DEF ShellInit, PlanIsOwners, ByLink, None
<1>. QED
  BY <1>1, <1>3, <1>4, <1>5 DEF ShellInv, ReqsTyped

\* Requests that were there stay good while neither the role nor the modules
\* change; the new ones have to be good.
GoodRequest(q) == q \in [api : Apis, sure : BOOLEAN] /\ (q.sure => Fair(q.api))

LEMMA RequestsStayGood ==
  ASSUME ShellInv, UNCHANGED <<role, on>>, \A q \in reqs' : q \in reqs \/ GoodRequest(q)
  PROVE  ReqsTyped' /\ AsksWhatItMay'
<1>1. \A q \in reqs' : GoodRequest(q)
  BY DEF ShellInv, ReqsTyped, AsksWhatItMay, GoodRequest, Fair
<1>2. \A api : Permitted(api)' <=> Permitted(api)
  BY DEF Permitted
<1>3. KnownRefusals' = KnownRefusals
  BY DEF KnownRefusals
<1>. QED
  BY <1>1, <1>2, <1>3 DEF GoodRequest, ReqsTyped, AsksWhatItMay, Fair

\* A request that is added while the modules are read, or one of the shell's own.
LEMMA AskedIsGood ==
  ASSUME ShellTypeOK, NEW api \in ShellCalls \cup Calls
  PROVE  GoodRequest(Asked(api))
<1>1. role \in Role /\ path \in Path /\ api \in Apis
  BY CallsAreApis DEF ShellTypeOK
<1>2. known \subseteq on => Fair(api)
  BY <1>1, ShellAsks, CallsFair
<1>. QED
  BY <1>1, <1>2, RequestIs DEF GoodRequest

\* The modules are asked for at most by what mounts a page.
LEMMA MountKeeps ==
  ASSUME ShellInv, NEW p, Mount(p), UNCHANGED <<role, serverVars, known, plan>>
  PROVE  /\ ReqsTyped' /\ AsksWhatItMay'
         /\ flagsAt' \in {"loading", "ready", "failed"} /\ (flagsAt' # "ready" => known = {})
         /\ flagsAt' = "loading" => Asking("features")'
<1>1. CASE UNCHANGED <<flagsAt, reqs>>
  <2>1. ReqsTyped' /\ AsksWhatItMay'
    BY <1>1, RequestsStayGood DEF serverVars
  <2>. QED
    BY <1>1, <2>1 DEF ShellInv, ShellTypeOK, Asking
<1>2. CASE flagsAt = "failed" /\ flagsAt' = "loading" /\ reqs' = reqs \cup {Asked("features")}
  <2>1. "features" \in ShellCalls
    BY DEF ShellCalls
  <2>2. GoodRequest(Asked("features")) /\ Asked("features").api = "features"
    BY <2>1, AskedIsGood, CallsAreApis, RequestIs DEF ShellInv
  <2>3. ReqsTyped' /\ AsksWhatItMay'
    BY <1>2, <2>2, RequestsStayGood DEF serverVars
  <2>4. Asking("features")'
    BY <1>2, <2>2 DEF Asking
  <2>. QED
    BY <1>2, <2>3, <2>4 DEF ShellInv, ShellTypeOK
<1>. QED
  BY <1>1, <1>2 DEF Mount

\* The user goes where a link leads, and it stays open, or by no link.
LEMMA GoesKeeps ==
  ASSUME ShellInv, NEW p \in Path, NEW by \in {None, "nav", "card", "banner"}, Goes(p, by),
         by = None \/ (by = "card" /\ p = "/delivery") \/ Stays(p)
  PROVE  ShellInv'
<1>1. /\ path' = p /\ came' = by /\ Mount(p)
      /\ UNCHANGED <<role, serverVars, known, plan>>
  BY DEF Goes
<1>2. /\ ReqsTyped' /\ AsksWhatItMay'
      /\ flagsAt' \in {"loading", "ready", "failed"} /\ (flagsAt' # "ready" => known = {})
      /\ flagsAt' = "loading" => Asking("features")'
  BY <1>1, MountKeeps
<1>3. UNCHANGED <<role, on, suspended, switches, known, plan>>
  BY <1>1 DEF serverVars
<1>4. ShellTypeOK'
  BY <1>1, <1>2, <1>3, NavAt DEF ShellInv, ShellTypeOK, Path
<1>5. PlanIsOwners'
  BY <1>3 DEF ShellInv, PlanIsOwners
<1>6. ByLink' => Stays(p)
  BY <1>1 DEF ByLink, None
<1>7. Stays(p) => Stays(path)'
  BY <1>1, <1>3 DEF Stays, RoleAllows
<1>. QED
  BY <1>2, <1>4, <1>5, <1>6, <1>7 DEF ShellInv

LEMMA LinksKeep ==
  ASSUME ShellInv, FollowNav \/ FollowCard \/ FollowBanner \/ FollowNotice \/ LeaveNotFound \/ GuardRedirect
  PROVE  ShellInv'
<1>0. role \in Role /\ NavPaths \subseteq Path /\ {"/", "/404"} \subseteq Path
  BY NavAt DEF ShellInv, ShellTypeOK, Path, NavPaths
<1>1. CASE FollowNav
  <2>1. PICK p \in VisibleNavItems : Goes(p, "nav")
    BY <1>1 DEF FollowNav
  <2>. QED
    BY <1>0, <2>1, NavStays, GoesKeeps
<1>2. CASE FollowCard
  <2>1. PICK p \in HomeCards : Goes(p, "card")
    BY <1>2 DEF FollowCard
  <2>. QED
    BY <1>0, <2>1, CardStays, GoesKeeps
<1>3. CASE FollowBanner
  <2>1. role = "OWNER" /\ Goes("/subscription", "banner")
    BY <1>3 DEF FollowBanner, ShellInv, PlanIsOwners
  <2>2. "/subscription" \in NavPaths /\ Stays("/subscription")
    BY <2>1, NavAt DEF Stays, RoleAllows, RolesOf, ModuleOf, NavPaths
  <2>. QED
    BY <1>0, <2>1, <2>2, GoesKeeps
<1>4. CASE FollowNotice
  BY <1>0, <1>4, GoesKeeps DEF FollowNotice, NoticeRoutes, NavPaths
<1>5. CASE LeaveNotFound \/ GuardRedirect
  BY <1>0, <1>5, GoesKeeps DEF LeaveNotFound, GuardRedirect
<1>. QED
  BY <1>1, <1>2, <1>3, <1>4, <1>5

LEMMA ReloadKeeps ==
  ASSUME ShellInv, Reload
  PROVE  ShellInv'
<1>1. /\ came' = None /\ flagsAt' = "loading" /\ known' = {} /\ plan' = "unknown"
      /\ reqs' = {[api |-> a, sure |-> TRUE] : a \in {"features", "subscription"}}
      /\ UNCHANGED <<role, on, suspended, switches, path>>
  BY DEF Reload, serverVars
<1>0. reqs' = {[api |-> "features", sure |-> TRUE], [api |-> "subscription", sure |-> TRUE]}
  BY <1>1
<1>2. ASSUME NEW q \in reqs'
      PROVE  GoodRequest(q)
  <2>1. \A a \in Apis : [api |-> a, sure |-> TRUE] \in [api : Apis, sure : BOOLEAN]
    OBVIOUS
  <2>2. "features" \in Apis /\ "subscription" \in Apis
    BY DEF Apis
  <2>3. PICK a \in {"features", "subscription"} : q = [api |-> a, sure |-> TRUE]
    BY <1>0, <1>2, Zenon
  <2>4. q \in [api : Apis, sure : BOOLEAN]
    BY <2>1, <2>2, <2>3, Zenon
  <2>5. q.api \in {"features", "subscription"}
    BY <2>3
  <2>. QED
    BY <2>4, <2>5, ShellAsks DEF GoodRequest, ShellInv, ShellTypeOK, ShellCalls
<1>3. ReqsTyped' /\ AsksWhatItMay'
  BY <1>1, <1>2, RequestsStayGood
<1>4. Asking("features")'
  BY <1>0 DEF Asking
<1>5. ShellTypeOK'
  BY <1>1, <1>4 DEF ShellInv, ShellTypeOK
<1>6. PlanIsOwners' /\ ~ByLink'
  BY <1>1 DEF PlanIsOwners, ByLink, None
<1>. QED
  BY <1>3, <1>5, <1>6 DEF ShellInv

LEMMA AskKeeps ==
  ASSUME ShellInv, NEW api \in Calls, Ask(api)
  PROVE  ShellInv'
<1>1. reqs' = reqs \cup {Asked(api)}
  BY DEF Ask
<1>2. UNCHANGED <<role, on, suspended, switches, flagsAt, known, plan, path, came>>
  BY DEF Ask, serverVars, tab
<1>3. ReqsTyped' /\ AsksWhatItMay'
  BY <1>1, <1>2, AskedIsGood, RequestsStayGood DEF ShellInv
<1>4. ShellTypeOK'
  BY <1>1, <1>2 DEF ShellInv, ShellTypeOK, Asking
<1>5. PlanIsOwners' /\ (ByLink' => Stays(path)')
  BY <1>2 DEF ShellInv, PlanIsOwners, ByLink, Stays, RoleAllows
<1>. QED
  BY <1>3, <1>4, <1>5 DEF ShellInv

\* An answer to the tab's own queries leaves what it was led to where it is: while
\* the modules load, it was led to none that belongs to one.
LEMMA AnswerKeeps ==
  ASSUME ShellInv, NEW q \in reqs, Answer(q)
  PROVE  ShellInv'
<1>1. reqs' = reqs \ {q} /\ UNCHANGED <<role, on, suspended, switches, path>> /\ Grants(q.api)
  BY DEF Answer, serverVars
<1>2. ReqsTyped' /\ AsksWhatItMay'
  BY <1>1, RequestsStayGood
<1>3. CASE q.api = "features"
  <2>1. /\ flagsAt' = "ready" /\ known' = on /\ plan' = plan
        /\ came' = IF flagsAt = "ready" /\ known # on THEN None ELSE came
    BY <1>3 DEF Answer
  <2>2. ShellTypeOK'
    BY <1>1, <2>1 DEF ShellInv, ShellTypeOK
  <2>3. PlanIsOwners'
    BY <1>1, <2>1 DEF ShellInv, PlanIsOwners
  <2>4. ByLink' => ByLink /\ known \subseteq on
    BY <1>1, <2>1 DEF ByLink, None, ShellInv, ShellTypeOK
  <2>5. ByLink' => Stays(path)'
    BY <1>1, <2>1, <2>4 DEF ShellInv, Stays, RoleAllows
  <2>. QED
    BY <1>2, <2>2, <2>3, <2>5 DEF ShellInv
<1>4. CASE q.api # "features"
  <2>1. /\ UNCHANGED <<flagsAt, known, came>>
        /\ IF q.api = "subscription" THEN plan' \in Told ELSE plan' = plan
    BY <1>4 DEF Answer
  <2>2. plan' = plan \/ (plan' \in {"fine", "behind"} /\ role = "OWNER")
    BY <1>1, <2>1 DEF Told, Grants, Permitted, RolesFor
  <2>3. Asking("features")' <=> Asking("features")
    BY <1>1, <1>4 DEF Asking
  <2>4. ShellTypeOK'
    BY <1>1, <2>1, <2>2, <2>3 DEF ShellInv, ShellTypeOK
  <2>5. PlanIsOwners'
    BY <1>1, <2>2 DEF ShellInv, PlanIsOwners
  <2>6. ByLink' => Stays(path)'
    BY <1>1, <2>1 DEF ShellInv, ByLink, Stays, RoleAllows
  <2>. QED
    BY <1>2, <2>4, <2>5, <2>6 DEF ShellInv
<1>. QED
  BY <1>3, <1>4

\* The owner's query for the plan can be lost, never refused.
LEMMA FailsKeeps ==
  ASSUME ShellInv, NEW q \in reqs, Refuse(q) \/ Lose(q)
  PROVE  ShellInv'
<1>1. PICK how \in {"refused", "unknown"} : Fails(q, how) /\ (how = "refused" => ~Grants(q.api))
  BY DEF Refuse, Lose
<1>2. /\ reqs' = reqs \ {q} /\ UNCHANGED <<role, on, suspended, switches, path, came, known>>
      /\ flagsAt' = IF q.api = "features" /\ flagsAt = "loading" THEN "failed" ELSE flagsAt
      /\ plan' = IF q.api = "subscription" /\ plan \notin {"fine", "behind"} THEN how ELSE plan
  BY <1>1 DEF Fails, serverVars
<1>3. ReqsTyped' /\ AsksWhatItMay'
  BY <1>2, RequestsStayGood
<1>4. flagsAt' = "loading" => Asking("features")'
  BY <1>2 DEF ShellInv, ShellTypeOK, Asking
<1>5. ShellTypeOK'
  BY <1>2, <1>4 DEF ShellInv, ShellTypeOK
<1>6. q.api = "subscription" /\ role = "OWNER" => Grants(q.api)
  BY DEF Grants, Exempt, Permitted, RolesFor, ModuleFor
<1>7. PlanIsOwners'
  BY <1>1, <1>2, <1>6 DEF ShellInv, PlanIsOwners
<1>8. ByLink' => Stays(path)'
  BY <1>2 DEF ShellInv, ByLink, Stays, RoleAllows
<1>. QED
  BY <1>3, <1>5, <1>7, <1>8 DEF ShellInv

\* What was asked of a copy of the modules that is no longer right is not sure; a
\* module that is added takes no permission away.
LEMMA SwitchKeeps ==
  ASSUME ShellInv, NEW m \in Module, Switch(m)
  PROVE  ShellInv'
<1>1. /\ switches < MaxSwitch /\ switches' = switches + 1
      /\ on' = IF m \in on THEN on \ {m} ELSE on \cup {m}
      /\ reqs' = IF m \in on THEN Unsure ELSE reqs
      /\ UNCHANGED <<role, suspended, flagsAt, known, plan, path, came>>
  BY DEF Switch, tab
<1>2. ReqsTyped' /\ AsksWhatItMay' /\ (Asking("features") => Asking("features")')
  <2>1. CASE m \in on
    <3>1. ASSUME NEW q \in reqs
          PROVE  /\ [q EXCEPT !.sure = FALSE] \in [api : Apis, sure : BOOLEAN]
                 /\ [q EXCEPT !.sure = FALSE].sure = FALSE /\ [q EXCEPT !.sure = FALSE].api = q.api
      BY DEF ShellInv, ReqsTyped
    <3>2. reqs' = {[q EXCEPT !.sure = FALSE] : q \in reqs}
      BY <1>1, <2>1 DEF Unsure
    <3>. QED
      BY <3>1, <3>2 DEF ReqsTyped, AsksWhatItMay, Asking
  <2>2. CASE m \notin on
    <3>1. reqs' = reqs /\ on \subseteq on' /\ role' = role
      BY <1>1, <2>2
    <3>2. \A api : Permitted(api) => Permitted(api)'
      BY <3>1 DEF Permitted
    <3>3. KnownRefusals' = KnownRefusals
      BY <3>1 DEF KnownRefusals
    <3>. QED
      BY <3>1, <3>2, <3>3 DEF ShellInv, ReqsTyped, AsksWhatItMay, Asking
  <2>. QED
    BY <2>1, <2>2
<1>3. ShellTypeOK'
  BY <1>1, <1>2, ShellBounds DEF ShellInv, ShellTypeOK
<1>4. PlanIsOwners' /\ (ByLink' => Stays(path)')
  BY <1>1 DEF ShellInv, PlanIsOwners, ByLink, Stays, RoleAllows
<1>. QED
  BY <1>2, <1>3, <1>4 DEF ShellInv

LEMMA LapseKeeps ==
  ASSUME ShellInv, Lapse \/ UNCHANGED shellVars
  PROVE  ShellInv'
<1>1. UNCHANGED <<role, on, flagsAt, known, plan, path, came, reqs>>
  BY DEF Lapse, shellVars, serverVars, tab
<1>2. ReqsTyped' /\ AsksWhatItMay'
  BY <1>1, RequestsStayGood
<1>3. suspended' \in BOOLEAN
  BY DEF Lapse, shellVars, serverVars, ShellInv, ShellTypeOK
<1>4. switches' \in 0..MaxSwitch
  BY ShellBounds DEF Lapse, shellVars, serverVars, ShellInv, ShellTypeOK
<1>5. ShellTypeOK'
  BY <1>1, <1>3, <1>4 DEF ShellInv, ShellTypeOK, Asking
<1>6. PlanIsOwners' /\ (ByLink' => Stays(path)')
  BY <1>1 DEF ShellInv, PlanIsOwners, ByLink, Stays, RoleAllows
<1>. QED
  BY <1>2, <1>5, <1>6 DEF ShellInv

LEMMA ShellStep ==
  ASSUME ShellInv, [ShellNext]_shellVars
  PROVE  ShellInv'
<1>1. CASE FollowNav \/ FollowCard \/ FollowBanner \/ FollowNotice \/ LeaveNotFound \/ GuardRedirect
  BY <1>1, LinksKeep
<1>2. CASE Reload
  BY <1>2, ReloadKeeps
<1>3. CASE Lapse \/ UNCHANGED shellVars
  BY <1>3, LapseKeeps
<1>4. CASE \E api \in Calls : Ask(api)
  BY <1>4, AskKeeps
<1>5. CASE \E q \in reqs : Answer(q) \/ Refuse(q) \/ Lose(q)
  BY <1>5, AnswerKeeps, FailsKeeps
<1>6. CASE \E m \in Module : Switch(m)
  BY <1>6, SwitchKeeps
<1>. QED
  BY <1>1, <1>2, <1>3, <1>4, <1>5, <1>6 DEF ShellNext

-----------------------------------------------------------------------------
(* The shell: what follows.                                                *)

\* ShellInv holds in every state: an address that was reached by a link stays open
\* to the user's role and modules (navigation.ts, RoleRoute, FeatureRoute), every
\* request is one that its role and the modules are enough for, and only an owner is
\* told of the plan (the subscription gate of main.py).
THEOREM ShellInvariant == ShellSpec => []ShellInv
<1>1. ShellInv /\ [ShellNext]_shellVars => ShellInv'
  BY ShellStep
<1>. QED
  BY <1>1, ShellInitInv, PTL DEF ShellSpec

\* No page asks for what the server refuses its user, as long as the tab's copy of
\* the modules promises nothing that is off; an owner's query for the plan is never
\* refused; and while the modules load, they are being asked for.
THEOREM AsksWithinPermissions == ShellSpec => []NothingAskedInVain
<1>1. ShellInv => NothingAskedInVain
  BY DEF ShellInv, PlanIsOwners, NothingAskedInVain, OwnerIsTold
<1>. QED
  BY <1>1, ShellInvariant, PTL

\* Where the sidebar, the subscription banner and the cards of the home page lead is a
\* page that the guards let the user see, but for the delivery staff's card.
THEOREM LinksLeadSomewhere == ShellSpec => []LinksLead
<1>1. ShellInv => LinksLead
  BY StaysShown DEF ShellInv, LinksLead, ByLink
<1>. QED
  BY <1>1, ShellInvariant, PTL

=============================================================================
