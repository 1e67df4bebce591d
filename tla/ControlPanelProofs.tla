------------------------- MODULE ControlPanelProofs -------------------------
(***************************************************************************)
(* Theorems of ControlPanel: the types, that a tab lands where its sign-in *)
(* started, who can lose the last administrator, and when a browser        *)
(* forgets a session that works.                                           *)
(*                                                                         *)
(* All rest on PanelInv.  A step of the sites is taken apart by what a     *)
(* handler does: it writes rows, which grow only, and gives an answer that *)
(* is good for the tab that waits for it (AnswersWell).  A step of people  *)
(* and browsers writes no rows (BrowserStep).                              *)
(***************************************************************************)
EXTENDS ControlPanel, TLAPS

-----------------------------------------------------------------------------
(* The rows of the Auth Provider.                                          *)

\* Rows are added at the end, and a session that does not work, or has not
\* been created, does not start to work without being created.
RowsGrow ==
  /\ Len(session) \in Nat /\ Len(session') \in Nat /\ Len(session) <= Len(session')
  /\ Len(challenge) \in Nat /\ Len(challenge') \in Nat
  /\ Len(challenge) <= Len(challenge')
  /\ \A s \in 0 .. Len(session) : ~ Working(s) => ~ Working(s)'

Sessions == [user : Users, live : BOOLEAN]
Challenges == [user : MfaUsers, open : BOOLEAN]

\* A new session is the last one, and changes no other.
LEMMA SessionCreated ==
  ASSUME session \in Seq(Sessions), Len(session) <= MaxSessions,
         NEW u \in Users, CreateSession(u)
  PROVE  /\ session' \in Seq(Sessions) /\ Len(session') <= MaxSessions
         /\ Len(session') = Len(session) + 1
         /\ \A s \in 0 .. Len(session) : ~ Working(s) => ~ Working(s)'
<1>1. [user |-> u, live |-> TRUE] \in Sessions
  BY DEF Sessions
<1>2. /\ session' \in Seq(Sessions)
      /\ Len(session') = Len(session) + 1
      /\ \A s \in 1 .. Len(session) : session'[s] = session[s]
  BY <1>1 DEF CreateSession
<1>3. Len(session') <= MaxSessions
  BY <1>2, AdminAccessAssumption DEF CreateSession
<1>4. ASSUME NEW s \in 0 .. Len(session), Working(s)' PROVE Working(s)
  <2>1. DOMAIN session' = 1 .. Len(session') /\ DOMAIN session = 1 .. Len(session)
    BY <1>2
  <2>2. QED
    BY <1>2, <1>4, <2>1 DEF Working
<1>5. QED
  BY <1>2, <1>3, <1>4

\* Revoking sessions ends those, and lets no other work.
LEMMA SessionsRevoked ==
  ASSUME session \in Seq(Sessions), NEW dead, session' = Revoked(dead)
  PROVE  /\ session' \in Seq(Sessions)
         /\ Len(session') = Len(session)
         /\ \A s \in 0 .. Len(session) : ~ Working(s) => ~ Working(s)'
         /\ \A s \in dead : ~ Working(s)'
<1>1. DOMAIN session = 1 .. Len(session) /\ Len(session) \in Nat
  OBVIOUS
<1>2. \A s \in 1 .. Len(session) : session[s] \in Sessions
  OBVIOUS
<1>3. session' = [s \in 1 .. Len(session) |->
                    [session[s] EXCEPT !.live = session[s].live /\ s \notin dead]]
  BY <1>1 DEF Revoked
<1>4. ASSUME NEW s \in 1 .. Len(session)
      PROVE  /\ session'[s] \in Sessions
             /\ session'[s].live = (session[s].live /\ s \notin dead)
  <2>1. session'[s] = [session[s] EXCEPT !.live = session[s].live /\ s \notin dead]
    BY <1>3
  <2>2. session[s] \in [user : Users, live : BOOLEAN]
    BY <1>2 DEF Sessions
  <2>3. (session[s].live /\ s \notin dead) \in BOOLEAN
    OBVIOUS
  <2>4. QED
    BY <2>1, <2>2, <2>3 DEF Sessions
<1>5. session' \in [1 .. Len(session) -> Sessions]
  BY <1>3, <1>4
<1>6. session' \in Seq(Sessions) /\ Len(session') = Len(session)
  BY <1>1, <1>5
<1>7. DOMAIN session' = 1 .. Len(session)
  BY <1>3
<1>8. QED
  BY <1>1, <1>4, <1>6, <1>7 DEF Working

\* What an operation of the admin API changes.
LEMMA OperationSteps ==
  ASSUME AccessTypeOK, NEW op \in Operations, Perform(op)
  PROVE  /\ AccessTypeOK' /\ RowsGrow
         /\ \A u \in Users : u # op.user =>
              status'[u] = status[u] /\ (u \in administrators => u \in administrators')
<1> DEFINE u == op.user
<1>1. /\ u \in Users
      /\ status \in [Users -> {"absent", "active", "inactive"}]
      /\ administrators \subseteq {v \in Users : status[v] # "absent"}
      /\ session \in Seq(Sessions) /\ Len(session) <= MaxSessions
      /\ challenge \in Seq(Challenges) /\ Len(challenge) <= MaxChallenges
  BY DEF Operations, AccessTypeOK, Exists, Sessions, Challenges
<1>2. UNCHANGED challenge /\ Applicable(op)
  BY DEF Perform
<1>3. ASSUME NEW st \in {"active", "inactive"},
             status' = [status EXCEPT ![u] = st], UNCHANGED administrators,
             UNCHANGED session \/ \E dead : session' = Revoked(dead)
      PROVE  /\ AccessTypeOK' /\ RowsGrow
             /\ \A v \in Users : v # u =>
                  status'[v] = status[v] /\ (v \in administrators => v \in administrators')
  <2>1. /\ session' \in Seq(Sessions) /\ Len(session') = Len(session)
        /\ \A s \in 0 .. Len(session) : ~ Working(s) => ~ Working(s)'
    <3>1. CASE UNCHANGED session
      BY <1>1, <3>1 DEF Working
    <3>2. ASSUME NEW dead, session' = Revoked(dead)
          PROVE  /\ session' \in Seq(Sessions) /\ Len(session') = Len(session)
                 /\ \A s \in 0 .. Len(session) : ~ Working(s) => ~ Working(s)'
      BY <1>1, <3>2, SessionsRevoked
    <3>3. QED
      BY <1>3, <3>1, <3>2
  <2>2. \A v \in Users : status'[v] = IF v = u THEN st ELSE status[v]
    BY <1>1, <1>3
  <2>3. status' \in [Users -> {"absent", "active", "inactive"}]
    BY <1>1, <1>3
  <2>4. administrators' \subseteq {v \in Users : status'[v] # "absent"}
    BY <1>1, <1>3, <2>2
  <2>5. AccessTypeOK'
    BY <1>1, <1>2, <2>1, <2>3, <2>4
       DEF AccessTypeOK, Exists, Sessions, Challenges
  <2>6. RowsGrow
    BY <1>1, <1>2, <2>1 DEF RowsGrow
  <2>7. QED
    BY <1>3, <2>2, <2>5, <2>6
<1>4. ASSUME UNCHANGED <<status, session>>,
             \/ administrators' = administrators \cup {u} /\ Exists(u)
             \/ administrators' = administrators \ {u}
      PROVE  /\ AccessTypeOK' /\ RowsGrow
             /\ \A v \in Users : v # u =>
                  status'[v] = status[v] /\ (v \in administrators => v \in administrators')
  <2>1. administrators' \subseteq {v \in Users : status'[v] # "absent"}
    BY <1>1, <1>4 DEF Exists
  <2>2. AccessTypeOK'
    BY <1>1, <1>2, <1>4, <2>1 DEF AccessTypeOK, Exists, Sessions, Challenges
  <2>3. RowsGrow
    BY <1>1, <1>2, <1>4 DEF RowsGrow, Working
  <2>4. QED
    BY <1>4, <2>2, <2>3
<1>5. CASE op.what = "create"
  BY <1>3, <1>5 DEF Perform
<1>6. CASE op.what = "activate"
  BY <1>3, <1>6 DEF Perform, SetUserStatusAndRevoke
<1>7. CASE op.what = "deactivate"
  <2>1. status' = [status EXCEPT ![u] = "inactive"] /\ UNCHANGED administrators
    BY <1>7 DEF Perform, SetUserStatusAndRevoke
  <2>2. session' = Revoked({s \in DOMAIN session : session[s].user = u})
    BY <1>7 DEF Perform, SetUserStatusAndRevoke
  <2>3. QED
    BY <1>3, <2>1, <2>2
<1>8. CASE op.what = "join"
  <2>1. Exists(u)
    BY <1>2, <1>8, Zenon DEF Applicable
  <2>2. QED
    BY <1>4, <1>8, <2>1 DEF Perform
<1>9. CASE op.what = "leave"
  BY <1>4, <1>9 DEF Perform
<1>10. QED
  BY <1>5, <1>6, <1>7, <1>8, <1>9 DEF Operations

-----------------------------------------------------------------------------
(* Answers and requests.                                                   *)

\* The mark for "no Set-Cookie" is no token.
LEMMA KeepIsNoCookie ==
  /\ Keep \in Nat /\ Keep > MaxSessions /\ Keep > MaxChallenges /\ Keep # NoToken
  /\ NoToken \in Cookies /\ Keep \in Cookies
BY AdminAccessAssumption DEF Keep, NoToken, Cookies

\* A page keeps the cookies and leads nowhere.
LEMMA PageFields ==
  ASSUME NEW p \in Places
  PROVE  /\ Page(p) \in Answers
         /\ Page(p).show = p /\ Page(p).go = "stay"
         /\ Page(p).sso = Keep /\ Page(p).mfa = Keep
BY KeepIsNoCookie DEF Page, Answers

\* A redirect keeps the cookies and shows nothing.
LEMMA RedirectFields ==
  ASSUME NEW u \in Urls
  PROVE  /\ Redirect(u) \in Answers
         /\ Redirect(u).show = "blank" /\ Redirect(u).go = u
         /\ Redirect(u).sso = Keep /\ Redirect(u).mfa = Keep
<1>1. "blank" \in Places
  BY DEF Places
<1>2. QED
  BY <1>1, PageFields DEF Redirect, Answers

\* A Set-Cookie header changes that cookie of an answer only.
LEMMA SetFields ==
  ASSUME NEW a \in Answers, NEW s \in Cookies
  PROVE  /\ SetSession(a, s) \in Answers
         /\ SetSession(a, s).show = a.show /\ SetSession(a, s).go = a.go
         /\ SetSession(a, s).sso = s /\ SetSession(a, s).mfa = a.mfa
         /\ SetPending(a, s) \in Answers
         /\ SetPending(a, s).show = a.show /\ SetPending(a, s).go = a.go
         /\ SetPending(a, s).sso = a.sso /\ SetPending(a, s).mfa = s
BY DEF SetSession, SetPending, Answers

\* What is kept of a request that was answered.
Answered(c, a) ==
  [c EXCEPT !.user = Nobody, !.mfa = NoToken, !.stage = "answered", !.answer = a]

\* It stays a request, and only those fields change.
LEMMA AnsweredRequest ==
  ASSUME NEW c \in Requests, NEW a \in Answers
  PROVE  /\ Answered(c, a) \in Requests
         /\ Answered(c, a).url = c.url /\ Answered(c, a).op = c.op
         /\ Answered(c, a).intent = c.intent /\ Answered(c, a).sso = c.sso
         /\ Answered(c, a).mfa = NoToken /\ Answered(c, a).stage = "answered"
         /\ Answered(c, a).answer = a /\ Answered(c, a).vouched = c.vouched
<1>1. NoToken \in Cookies
  BY KeepIsNoCookie
<1>2. QED
  BY <1>1 DEF Requests, Answered

\* A request as a tab sends it.
LEMMA SentRequest ==
  ASSUME NEW s \in Cookies, NEW m \in Cookies, NEW url \in Urls,
         NEW user \in Users \cup {Nobody}, NEW op \in Operations \cup {NoOp},
         NEW intent \in Intents, NEW r,
         r = [ url |-> url, user |-> user, op |-> op, intent |-> intent,
               sso |-> s, mfa |-> m, left |-> AdminCalls(url),
               vouched |-> FALSE, stage |-> "sent", answer |-> Page("blank") ]
  PROVE  r \in Requests
<1>1. AdminCalls(url) \in {0, 1, 2, 3}
  BY Zenon DEF AdminCalls, DashboardCalls, ListCalls
<1>2. AdminCalls(url) \in 0 .. DashboardCalls
  BY <1>1 DEF DashboardCalls
<1>3. Page("blank") \in Answers
  BY PageFields DEF Places
<1>4. QED
  BY <1>2, <1>3 DEF Requests

\* An idle slot is not mistaken for a request.
LEMMA RequestIsNotIdle ==
  ASSUME NEW c \in Requests
  PROVE  c # Idle
<1>1. c.stage # "idle"
  BY DEF Requests
<1>2. QED
  BY <1>1 DEF Idle

-----------------------------------------------------------------------------
(* The invariant, one jar, one call and one tab at a time.                 *)

JarOK(b) == jar[b].sso <= Len(session) /\ jar[b].mfa <= Len(challenge)

CallOK(x) ==
  call[x] # Idle =>
    /\ call[x].sso <= Len(session) /\ call[x].mfa <= Len(challenge)
    /\ call[x].answer.sso \in 0 .. Len(session) \cup {Keep}
    /\ call[x].answer.mfa \in 0 .. Len(challenge) \cup {Keep}
    /\ call[x].stage = "sent" /\ call[x].url \in {"login", "code", "ssoLogin", "ssoCode"}
         => call[x].user \in Users
    /\ call[x].url = "op" => call[x].op \in Operations
    /\ call[x].stage = "checked" => call[x].url = "op" /\ call[x].vouched
    /\ call[x].answer.go \in Redirects \cup {"stay"}

PageOK(t) == page[t].at \in {"app", "ssoSignIn", "ssoCode"} => page[t].intent = t

TabOK(t) ==
  call[t] # Idle =>
    /\ call[t].url \in {"authorize", "ssoLogin", "ssoCode"} => call[t].intent = t
    /\ call[t].url = "ssoSignIn" => call[t].intent \in {t, "settings"}
    /\ call[t].stage = "answered" =>
         /\ call[t].answer.show \in {"app", "ssoSignIn", "ssoCode"}
              => call[t].intent = t
         /\ call[t].answer.go = "authorize" => NextIntent(call[t]) = t
         /\ call[t].answer.go = "ssoSignIn"
              => NextIntent(call[t]) \in {t, "settings"}
         /\ call[t].answer.sso = NoToken =>
              call[t].url \in {"logout", "ssoLogout"} /\ ~ Working(call[t].sso)

\* The invariant is that of every jar, call, page and tab.
LEMMA InvParts ==
  PanelInv <=>
    /\ TypeOK
    /\ \A b \in Browsers : JarOK(b)
    /\ \A x \in Calls : CallOK(x)
    /\ \A t \in Tabs : PageOK(t) /\ TabOK(t)
<1>1. CookiesIssued /\ RequestsMeant <=>
        (\A b \in Browsers : JarOK(b)) /\ \A x \in Calls : CallOK(x)
  BY DEF CookiesIssued, RequestsMeant, JarOK, CallOK
<1>2. OwnIntents /\ ClearedAfterRevocation <=> \A t \in Tabs : PageOK(t) /\ TabOK(t)
  BY DEF OwnIntents, ClearedAfterRevocation, PageOK, TabOK
<1>3. QED
  BY <1>1, <1>2 DEF PanelInv

\* A call or tab a step leaves alone keeps its part of the invariant, although
\* sessions and challenges come and go.
LEMMA CallStays ==
  ASSUME TypeOK, RowsGrow, NEW x \in Calls, CallOK(x), call'[x] = call[x]
  PROVE  CallOK(x)'
<1>1. CASE call[x] = Idle
  BY <1>1 DEF CallOK
<1>2. CASE call[x] \in Requests
  <2>1. /\ call[x].sso \in Nat /\ call[x].mfa \in Nat
        /\ call[x].answer.sso \in Nat /\ call[x].answer.mfa \in Nat
    BY <1>2, KeepIsNoCookie DEF Requests, Answers, Cookies
  <2>2. call[x] # Idle
    BY <1>2, RequestIsNotIdle
  <2>3. /\ call[x].sso <= Len(session') /\ call[x].mfa <= Len(challenge')
        /\ call[x].answer.sso \in 0 .. Len(session') \cup {Keep}
        /\ call[x].answer.mfa \in 0 .. Len(challenge') \cup {Keep}
    BY <2>1, <2>2 DEF CallOK, RowsGrow
  <2>4. QED
    BY <2>2, <2>3 DEF CallOK
<1>3. QED
  BY <1>1, <1>2 DEF TypeOK

\* Likewise for the tab of a call that a step leaves alone.
LEMMA TabStays ==
  ASSUME TypeOK, RowsGrow, NEW t \in Tabs, CallOK(t), TabOK(t),
         call'[t] = call[t]
  PROVE  TabOK(t)'
<1>1. CASE call[t] = Idle
  BY <1>1 DEF TabOK
<1>2. CASE call[t] \in Requests
  <2>1. call[t] # Idle /\ call[t].sso \in Nat
    BY <1>2, RequestIsNotIdle, KeepIsNoCookie DEF Requests, Cookies
  <2>2. call[t].sso \in 0 .. Len(session)
    BY <2>1 DEF CallOK, RowsGrow
  <2>3. ~ Working(call[t].sso) => ~ Working(call[t].sso)'
    BY <2>2 DEF RowsGrow, Working
  <2>4. QED
    BY <2>1, <2>3 DEF TabOK, NextIntent
<1>3. QED
  BY <1>1, <1>2 DEF TypeOK, Calls

-----------------------------------------------------------------------------
(* What an answer must be like for the invariant to stay.                  *)

GoodAnswer(x, a) ==
  /\ a \in Answers
  /\ a.go \in Redirects \cup {"stay"}
  /\ a.sso \in 0 .. Len(session') \cup {Keep}
  /\ a.mfa \in 0 .. Len(challenge') \cup {Keep}
  /\ a.sso = NoToken =>
       /\ call[x].url \in {"logout", "ssoLogout"}
       /\ \A s \in {call[x].sso} : ~ Working(s)'
  /\ x \in Tabs =>
       /\ a.show \in {"app", "ssoSignIn", "ssoCode"} => call[x].intent = x
       /\ a.go = "authorize" => NextIntent(call[x]) = x
       /\ a.go = "ssoSignIn" => NextIntent(call[x]) \in {x, "settings"}

\* Such an answer keeps the invariant's parts of its call and its tab, and no
\* other call or page changes.
LEMMA AnswerEffect ==
  ASSUME PanelInv, RowsGrow, NEW x \in Calls, call[x] \in Requests,
         NEW a, Answer(x, a), GoodAnswer(x, a)
  PROVE  /\ call' \in [Calls -> {Idle} \cup Requests]
         /\ page' \in [Tabs -> [at : Places, intent : Intents]]
         /\ \A y \in Calls : y # x => call'[y] = call[y]
         /\ CallOK(x)'
         /\ x \in Tabs => TabOK(x)'
         /\ \A t \in Tabs : PageOK(t)'
<1>0. /\ call \in [Calls -> {Idle} \cup Requests]
      /\ page \in [Tabs -> [at : Places, intent : Intents]]
      /\ \A t \in Tabs : PageOK(t) /\ TabOK(t)
      /\ CallOK(x) /\ call[x] # Idle /\ Tabs \subseteq Calls
  BY InvParts, RequestIsNotIdle DEF TypeOK, Calls
<1>1. CASE call' = [call EXCEPT ![x] = Idle] /\ UNCHANGED page
  BY <1>0, <1>1 DEF CallOK, TabOK, PageOK
<1>2. CASE /\ x \in Tabs /\ a = Page(a.show)
           /\ call' = [call EXCEPT ![x] = Idle]
           /\ page' = [page EXCEPT ![x] = [at |-> a.show, intent |-> call[x].intent]]
  <2>1. a.show \in Places /\ call[x].intent \in Intents
    BY DEF GoodAnswer, Answers, Requests
  <2>2. page' \in [Tabs -> [at : Places, intent : Intents]]
    BY <1>0, <1>2, <2>1
  <2>3. ASSUME NEW t \in Tabs PROVE PageOK(t)'
    <3>1. CASE t = x
      <4>1. page'[t].at = a.show /\ page'[t].intent = call[x].intent
        BY <1>0, <1>2, <3>1
      <4>2. QED
        BY <1>2, <3>1, <4>1 DEF PageOK, GoodAnswer
    <3>2. CASE t # x
      BY <1>0, <1>2, <3>2 DEF PageOK
    <3>3. QED
      BY <3>1, <3>2
  <2>4. QED
    BY <1>0, <1>2, <2>2, <2>3 DEF CallOK, TabOK
<1>3. CASE /\ x \in Tabs
           /\ call' = [call EXCEPT ![x] =
                [@ EXCEPT !.user = Nobody, !.mfa = NoToken, !.stage = "answered",
                          !.answer = a]]
           /\ UNCHANGED page
  <2> DEFINE r == Answered(call[x], a)
  <2>1. /\ r \in Requests
        /\ r.url = call[x].url /\ r.op = call[x].op /\ r.intent = call[x].intent
        /\ r.sso = call[x].sso /\ r.mfa = NoToken /\ r.stage = "answered"
        /\ r.answer = a /\ r.vouched = call[x].vouched
    BY AnsweredRequest DEF GoodAnswer
  <2> HIDE DEF r
  <2>2. call' = [call EXCEPT ![x] = r]
    BY <1>3 DEF r, Answered
  <2>3. call'[x] = r
    BY <1>0, <2>2
  <2>4. CallOK(x)'
    <3>1. r.sso <= Len(session') /\ r.mfa <= Len(challenge')
      <4>1. call[x].sso \in Nat /\ call[x].sso <= Len(session)
        BY <1>0, KeepIsNoCookie DEF CallOK, Requests, Cookies
      <4>2. QED
        BY <2>1, <4>1 DEF RowsGrow, NoToken
    <3>2. r.url = "op" => r.op \in Operations
      BY <1>0, <2>1 DEF CallOK
    <3>3. QED
      BY <2>1, <2>3, <3>1, <3>2 DEF CallOK, GoodAnswer
  <2>5. TabOK(x)'
    <3>1. /\ r.url \in {"authorize", "ssoLogin", "ssoCode"} => r.intent = x
          /\ r.url = "ssoSignIn" => r.intent \in {x, "settings"}
      BY <1>0, <1>3, <2>1 DEF TabOK
    <3>2. /\ a.show \in {"app", "ssoSignIn", "ssoCode"} => r.intent = x
          /\ a.go = "authorize" => NextIntent(r) = x
          /\ a.go = "ssoSignIn" => NextIntent(r) \in {x, "settings"}
      BY <1>3, <2>1 DEF GoodAnswer, NextIntent
    <3>3. a.sso = NoToken => r.url \in {"logout", "ssoLogout"} /\ ~ Working(call[x].sso)'
      <4>1. call'[x].sso = call[x].sso
        BY <2>1, <2>3
      <4>2. QED
        BY <2>1, <4>1 DEF GoodAnswer, Working
    <3>4. QED
      BY <2>1, <2>3, <3>1, <3>2, <3>3 DEF TabOK, NextIntent
  <2>6. QED
    BY <1>0, <1>3, <2>1, <2>2, <2>4, <2>5 DEF PageOK
<1>4. QED
  BY <1>1, <1>2, <1>3 DEF Answer

\* Putting the invariant together after a step of the sites.
LEMMA SiteStep ==
  ASSUME PanelInv, AccessTypeOK', RowsGrow, UNCHANGED <<browser, jar, clicks>>,
         NEW x \in Calls,
         call' \in [Calls -> {Idle} \cup Requests],
         page' \in [Tabs -> [at : Places, intent : Intents]],
         \A y \in Calls : y # x => call'[y] = call[y],
         CallOK(x)', x \in Tabs => TabOK(x)',
         \A t \in Tabs : PageOK(t)'
  PROVE  PanelInv'
<1>1. /\ TypeOK
      /\ \A b \in Browsers : JarOK(b)
      /\ \A y \in Calls : CallOK(y)
      /\ \A t \in Tabs : PageOK(t) /\ TabOK(t)
  BY InvParts
<1>2. TypeOK'
  BY <1>1 DEF TypeOK
<1>3. ASSUME NEW b \in Browsers PROVE JarOK(b)'
  <2>1. jar[b].sso \in Nat /\ jar[b].mfa \in Nat /\ JarOK(b)
    BY <1>1, AdminAccessAssumption DEF TypeOK
  <2>2. QED
    BY <2>1 DEF JarOK, RowsGrow
<1>4. ASSUME NEW y \in Calls PROVE CallOK(y)'
  BY <1>1, <1>4, CallStays
<1>5. ASSUME NEW t \in Tabs PROVE TabOK(t)'
  <2>1. t \in Calls /\ CallOK(t)
    BY <1>1 DEF Calls
  <2>2. QED
    BY <1>1, <2>1, TabStays
<1>6. CookiesIssued' /\ RequestsMeant'
  BY <1>3, <1>4 DEF CookiesIssued, RequestsMeant, JarOK, CallOK
<1>7. OwnIntents' /\ ClearedAfterRevocation'
  BY <1>5 DEF OwnIntents, ClearedAfterRevocation, PageOK, TabOK
<1>8. QED
  BY <1>2, <1>6, <1>7 DEF PanelInv

-----------------------------------------------------------------------------
(* The handlers of the two sites.                                          *)

\* Handlers that write nothing.
LEMMA RowsStay ==
  ASSUME AccessTypeOK, UNCHANGED accessVars
  PROVE  AccessTypeOK' /\ RowsGrow
<1>1. AccessTypeOK'
  BY DEF AccessTypeOK, accessVars, Exists
<1>2. RowsGrow
  BY DEF RowsGrow, accessVars, AccessTypeOK, Working
<1>3. QED
  BY <1>1, <1>2

\* Pages and redirects that are good answers.
LEMMA GoodPage ==
  ASSUME NEW x \in Calls, NEW p \in Places,
         x \in Tabs /\ p \in {"app", "ssoSignIn", "ssoCode"} => call[x].intent = x
  PROVE  GoodAnswer(x, Page(p))
BY PageFields, KeepIsNoCookie DEF GoodAnswer

\* Redirects of the sign-in need the intent of their tab.
LEMMA GoodRedirect ==
  ASSUME NEW x \in Calls, NEW u \in Redirects,
         x \in Tabs /\ u = "authorize" => NextIntent(call[x]) = x,
         x \in Tabs /\ u = "ssoSignIn" => NextIntent(call[x]) \in {x, "settings"}
  PROVE  GoodAnswer(x, Redirect(u))
<1>1. u \in Urls /\ "blank" \notin {"app", "ssoSignIn", "ssoCode"}
  BY DEF Redirects, Urls, PanelSites, PanelData
<1>2. QED
  BY <1>1, RedirectFields, KeepIsNoCookie DEF GoodAnswer

\* A good answer stays good with the cookie of a session just created, or of a
\* challenge just created, or without the pending cookie.
LEMMA GoodCookies ==
  ASSUME NEW x \in Calls, NEW a, GoodAnswer(x, a),
         Len(session') \in Nat, Len(session') <= MaxSessions,
         Len(challenge') \in Nat, Len(challenge') <= MaxChallenges
  PROVE  /\ Len(session') # 0 => GoodAnswer(x, SetSession(a, Len(session')))
         /\ GoodAnswer(x, SetPending(a, Len(challenge')))
         /\ GoodAnswer(x, SetPending(a, NoToken))
<1>1. /\ a \in Answers /\ Len(session') \in Cookies /\ Len(challenge') \in Cookies
      /\ NoToken \in Cookies
      /\ Len(session') \in 0 .. Len(session')
      /\ Len(challenge') \in 0 .. Len(challenge')
      /\ NoToken \in 0 .. Len(challenge')
  BY AdminAccessAssumption DEF GoodAnswer, Cookies, Keep, NoToken
<1>2. ASSUME Len(session') # 0
      PROVE  GoodAnswer(x, SetSession(a, Len(session')))
  <2>1. Len(session') # NoToken
    BY <1>2 DEF NoToken
  <2>2. QED
    BY <1>1, <2>1, SetFields DEF GoodAnswer
<1>3. GoodAnswer(x, SetPending(a, Len(challenge')))
  BY <1>1, SetFields DEF GoodAnswer
<1>4. GoodAnswer(x, SetPending(a, NoToken))
  BY <1>1, SetFields DEF GoodAnswer
<1>5. QED
  BY <1>2, <1>3, <1>4

\* What a handler does that answers.
AnswersWell(x) == AccessTypeOK' /\ RowsGrow /\ \E a : Answer(x, a) /\ GoodAnswer(x, a)

\* What the handlers may rely on.
LEMMA CallFacts ==
  ASSUME PanelInv, NEW x \in Calls, call[x] \in Requests
  PROVE  /\ AccessTypeOK /\ CallOK(x) /\ (x \in Tabs => TabOK(x))
         /\ call[x] # Idle
         /\ call[x].sso \in 0 .. Len(session)
         /\ call[x].mfa \in 0 .. Len(challenge)
         /\ Len(session) \in Nat /\ Len(challenge) \in Nat
<1>1. /\ AccessTypeOK /\ CallOK(x) /\ (x \in Tabs => TabOK(x))
  BY InvParts DEF TypeOK
<1>2. call[x] # Idle
  BY RequestIsNotIdle
<1>3. Len(session) \in Nat /\ Len(challenge) \in Nat
  BY <1>1 DEF AccessTypeOK
<1>4. call[x].sso \in Nat /\ call[x].mfa \in Nat
  BY KeepIsNoCookie DEF Requests, Cookies
<1>5. QED
  BY <1>1, <1>2, <1>3, <1>4 DEF CallOK

\* Handlers that only read: the gates of the panel and the pages of the sign-in.
LEMMA ReadersAnswer ==
  ASSUME PanelInv, NEW x \in Calls, call[x] \in Requests,
         \/ RequireAuth(x) \/ RefuseAdmin(x) \/ LoginPage(x)
         \/ NeedsSession(x) \/ SsoLoginPage(x)
  PROVE  AnswersWell(x)
<1>1. UNCHANGED accessVars
  BY DEF RequireAuth, RefuseAdmin, LoginPage, NeedsSession, SsoLoginPage
<1>2. AccessTypeOK' /\ RowsGrow
  BY <1>1, CallFacts, RowsStay
<1>3. CASE RequireAuth(x) \/ RefuseAdmin(x)
  <2>1. GoodAnswer(x, Page("required"))
    BY GoodPage DEF Places
  <2>2. QED
    BY <1>2, <1>3, <2>1 DEF RequireAuth, RefuseAdmin, AnswersWell
<1>4. CASE LoginPage(x)
  <2>1. GoodAnswer(x, Page("signIn")) /\ GoodAnswer(x, Redirect("home"))
    BY GoodPage, GoodRedirect DEF Places, Redirects
  <2>2. Answer(x, Page("signIn")) \/ Answer(x, Redirect("home"))
    BY <1>4 DEF LoginPage
  <2>3. QED
    BY <1>2, <2>1, <2>2 DEF AnswersWell
<1>5. CASE NeedsSession(x)
  <2>1. CASE Working(call[x].sso) /\ call[x].url = "authorize"
    <3>1. GoodAnswer(x, Page("app")) /\ Answer(x, Page("app"))
      BY <1>5, <2>1, CallFacts, GoodPage DEF NeedsSession, TabOK, Places
    <3>2. QED
      BY <1>2, <3>1 DEF AnswersWell
  <2>2. CASE Working(call[x].sso) /\ call[x].url # "authorize"
    <3>1. GoodAnswer(x, Page("settings")) /\ Answer(x, Page("settings"))
      BY <1>5, <2>2, GoodPage DEF NeedsSession, Places
    <3>2. QED
      BY <1>2, <3>1 DEF AnswersWell
  <2>3. CASE ~ Working(call[x].sso)
    <3>1. x \in Tabs => NextIntent(call[x]) \in {x, "settings"}
      BY <1>5, CallFacts DEF NeedsSession, Sent, TabOK, NextIntent
    <3>2. GoodAnswer(x, Redirect("ssoSignIn"))
      BY <3>1, GoodRedirect DEF Redirects
    <3>3. QED
      BY <1>2, <1>5, <2>3, <3>2 DEF NeedsSession, AnswersWell
  <2>4. QED
    BY <2>1, <2>2, <2>3
<1>6. CASE SsoLoginPage(x)
  <2>1. CASE call[x].intent = "settings"
    <3>1. GoodAnswer(x, Page("ssoError")) /\ Answer(x, Page("ssoError"))
      BY <1>6, <2>1, GoodPage DEF SsoLoginPage, Places
    <3>2. QED
      BY <1>2, <3>1 DEF AnswersWell
  <2>2. CASE call[x].intent # "settings"
    <3>1. x \in Tabs => call[x].intent = x
      BY <1>6, <2>2, CallFacts DEF SsoLoginPage, Sent, TabOK
    <3>2. GoodAnswer(x, Page("ssoSignIn")) /\ Answer(x, Page("ssoSignIn"))
      BY <1>6, <2>2, <3>1, GoodPage DEF SsoLoginPage, Places
    <3>3. QED
      BY <1>2, <3>2 DEF AnswersWell
  <2>3. QED
    BY <2>1, <2>2
<1>7. QED
  BY <1>3, <1>4, <1>5, <1>6

\* An operation of the admin API, carried out or refused.
LEMMA OperationAnswers ==
  ASSUME PanelInv, NEW x \in Calls, call[x] \in Requests, ServeOperation(x)
  PROVE  AnswersWell(x)
<1>1. call[x].op \in Operations /\ AccessTypeOK
  BY CallFacts DEF ServeOperation, CallOK
<1>2. GoodAnswer(x, Page("message")) /\ GoodAnswer(x, Page("error"))
  BY GoodPage DEF Places
<1>3. CASE Perform(call[x].op) /\ Answer(x, Page("message"))
  BY <1>1, <1>2, <1>3, OperationSteps DEF AnswersWell
<1>4. CASE Answer(x, Page("error")) /\ UNCHANGED accessVars
  BY <1>1, <1>2, <1>4, RowsStay DEF AnswersWell
<1>5. QED
  BY <1>3, <1>4 DEF ServeOperation

\* A sign-out ends the session of its cookie before it clears the cookie.
LEMMA LogoutAnswers ==
  ASSUME PanelInv, NEW x \in Calls, call[x] \in Requests, Logout(x)
  PROVE  AnswersWell(x)
<1> DEFINE Signed(a) == SetSession(a, NoToken)
<1>1. session \in Seq(Sessions) /\ session' = Revoked({call[x].sso})
        /\ UNCHANGED <<status, administrators, challenge>>
        /\ challenge \in Seq(Challenges) /\ AccessTypeOK
  BY CallFacts DEF Logout, AccessTypeOK, Sessions, Challenges
<1>2. /\ session' \in Seq(Sessions) /\ Len(session') = Len(session)
      /\ \A s \in 0 .. Len(session) : ~ Working(s) => ~ Working(s)'
      /\ \A s \in {call[x].sso} : ~ Working(s)'
  BY <1>1, SessionsRevoked
<1>3. AccessTypeOK' /\ RowsGrow
  BY <1>1, <1>2 DEF AccessTypeOK, Exists, Sessions, RowsGrow
<1>4. call[x].url \in {"logout", "ssoLogout"}
  BY DEF Logout, Sent
<1>5. ASSUME NEW a, GoodAnswer(x, a) PROVE GoodAnswer(x, Signed(a))
  <2>1. NoToken \in 0 .. Len(session')
    BY <1>1, <1>2 DEF NoToken
  <2>2. QED
    BY <1>2, <1>4, <1>5, <2>1, SetFields, KeepIsNoCookie DEF GoodAnswer
<1>6. GoodAnswer(x, Page("ssoDone")) /\ GoodAnswer(x, Redirect("signIn"))
  BY GoodPage, GoodRedirect DEF Places, Redirects
<1>7. /\ GoodAnswer(x, Signed(Page("ssoDone")))
      /\ GoodAnswer(x, Signed(Redirect("signIn")))
  BY <1>5, <1>6
<1>8. \/ Answer(x, Signed(Page("ssoDone"))) \/ Answer(x, Redirect("signIn"))
      \/ Answer(x, Signed(Redirect("signIn")))
  <2>1. CASE call[x].url = "ssoLogout"
    BY <2>1, Zenon DEF Logout
  <2>2. CASE call[x].url # "ssoLogout" /\ call[x].sso = NoToken
    BY <2>2, Zenon DEF Logout
  <2>3. CASE call[x].url # "ssoLogout" /\ call[x].sso # NoToken
    BY <2>3, Zenon DEF Logout
  <2>4. QED
    BY <2>1, <2>2, <2>3
<1>9. QED
  BY <1>3, <1>6, <1>7, <1>8 DEF AnswersWell

\* Where a sign-in that carries its tab's intent leads.
Back(x) == IF call[x].intent = "none" THEN Page("ssoDone") ELSE Redirect("authorize")

\* It is a good answer to a request of that tab.
LEMMA GoodBack ==
  ASSUME NEW x \in Calls, x \in Tabs => NextIntent(call[x]) = x
  PROVE  GoodAnswer(x, Back(x))
<1>1. GoodAnswer(x, Page("ssoDone"))
  BY GoodPage DEF Places
<1>2. GoodAnswer(x, Redirect("authorize"))
  BY GoodRedirect DEF Redirects
<1>3. QED
  BY <1>1, <1>2 DEF Back

\* The password is right, wrong, or the first of two factors.
LEMMA LoginAnswers ==
  ASSUME PanelInv, NEW x \in Calls, call[x] \in Requests, Login(x)
  PROVE  AnswersWell(x)
<1> DEFINE u == call[x].user
           panel == call[x].url = "login"
<1>1. /\ u \in Users /\ AccessTypeOK
      /\ panel \/ (x \in Tabs => call[x].intent = x /\ NextIntent(call[x]) = x)
      /\ session \in Seq(Sessions) /\ Len(session) <= MaxSessions
      /\ challenge \in Seq(Challenges) /\ Len(challenge) <= MaxChallenges
  BY CallFacts DEF Login, Sent, CallOK, TabOK, NextIntent, AccessTypeOK, Sessions, Challenges
<1>2. CASE /\ CreateSession(u)
           /\ Answer(x, SetSession(IF panel THEN Redirect("home") ELSE Back(x), NewToken))
           /\ UNCHANGED <<status, administrators, challenge>>
  <2>1. /\ session' \in Seq(Sessions) /\ Len(session') <= MaxSessions
        /\ Len(session') = Len(session) + 1
        /\ \A s \in 0 .. Len(session) : ~ Working(s) => ~ Working(s)'
    BY <1>1, <1>2, SessionCreated
  <2>2. AccessTypeOK' /\ RowsGrow
    BY <1>1, <1>2, <2>1 DEF AccessTypeOK, Exists, Sessions, RowsGrow
  <2>3. ASSUME NEW a, GoodAnswer(x, a) PROVE GoodAnswer(x, SetSession(a, NewToken))
    <3>1. NewToken = Len(session') /\ Len(session') # 0
      BY <1>1, <2>1 DEF NewToken
    <3>2. QED
      BY <1>1, <1>2, <2>1, <2>3, <3>1, GoodCookies
  <2>4. GoodAnswer(x, IF panel THEN Redirect("home") ELSE Back(x))
    <3>1. GoodAnswer(x, Redirect("home"))
      BY GoodRedirect DEF Redirects
    <3>2. QED
      BY <1>1, <3>1, GoodBack
  <2>5. QED
    BY <1>2, <2>2, <2>3, <2>4 DEF AnswersWell
<1>3. CASE /\ NeedsCode(u) /\ CreateChallenge(u)
           /\ Answer(x, SetPending(Page(IF panel THEN "code" ELSE "ssoCode"), NewChallenge))
           /\ UNCHANGED <<status, administrators, session>>
  <2>1. [user |-> u, open |-> TRUE] \in Challenges
    BY <1>1, <1>3 DEF Challenges, NeedsCode
  <2>2. /\ challenge' \in Seq(Challenges) /\ Len(challenge') = Len(challenge) + 1
        /\ Len(challenge') <= MaxChallenges
    BY <1>1, <1>3, <2>1, AdminAccessAssumption DEF CreateChallenge
  <2>3. AccessTypeOK' /\ RowsGrow
    BY <1>1, <1>3, <2>2 DEF AccessTypeOK, Exists, Challenges, RowsGrow, Working
  <2>4. GoodAnswer(x, Page(IF panel THEN "code" ELSE "ssoCode"))
    <3>1. CASE panel
      BY <3>1, GoodPage DEF Places
    <3>2. CASE ~ panel
      BY <1>1, <3>2, GoodPage DEF Places
    <3>3. QED
      BY <3>1, <3>2
  <2>5. NewChallenge = Len(challenge')
    BY <2>2 DEF NewChallenge
  <2>6. \A a : GoodAnswer(x, a) => GoodAnswer(x, SetPending(a, NewChallenge))
    BY <1>1, <1>3, <2>2, <2>5, GoodCookies
  <2>7. QED
    BY <1>3, <2>3, <2>4, <2>6 DEF AnswersWell
<1>4. CASE Answer(x, Page(IF panel THEN "error" ELSE "ssoError")) /\ UNCHANGED accessVars
  <2>1. GoodAnswer(x, Page("error")) /\ GoodAnswer(x, Page("ssoError"))
    BY GoodPage DEF Places
  <2>2. GoodAnswer(x, Page(IF panel THEN "error" ELSE "ssoError"))
    BY <2>1
  <2>3. QED
    BY <1>1, <1>4, <2>2, RowsStay DEF AnswersWell
<1>5. QED
  BY <1>2, <1>3, <1>4 DEF Login, Back

\* The code is right, for the challenge of the user who sent it, or wrong.
LEMMA CodeAnswers ==
  ASSUME PanelInv, NEW x \in Calls, call[x] \in Requests, LoginMFA(x)
  PROVE  AnswersWell(x)
<1> DEFINE c == call[x].mfa
           panel == call[x].url = "code"
<1>1. /\ AccessTypeOK
      /\ panel \/ (x \in Tabs => call[x].intent = x /\ NextIntent(call[x]) = x)
      /\ session \in Seq(Sessions) /\ Len(session) <= MaxSessions
      /\ challenge \in Seq(Challenges) /\ Len(challenge) <= MaxChallenges
  BY CallFacts DEF LoginMFA, Sent, TabOK, NextIntent, AccessTypeOK, Sessions, Challenges
<1>2. CASE /\ Answerable(c, call[x].user)
           /\ ConsumeAndCreateSession(c)
           /\ Answer(x, SetSession(IF panel THEN Redirect("home")
                                            ELSE SetPending(Back(x), NoToken), NewToken))
           /\ UNCHANGED <<status, administrators>>
  <2>1. c \in 1 .. Len(challenge) /\ challenge[c] \in Challenges
    BY <1>1, <1>2 DEF Answerable
  <2>2. challenge[c].user \in Users
    BY <2>1, AdminAccessAssumption DEF Challenges
  <2>3. /\ session' \in Seq(Sessions) /\ Len(session') <= MaxSessions
        /\ Len(session') = Len(session) + 1
        /\ \A s \in 0 .. Len(session) : ~ Working(s) => ~ Working(s)'
    BY <1>1, <1>2, <2>2, SessionCreated DEF ConsumeAndCreateSession
  <2>4. /\ challenge' \in Seq(Challenges) /\ Len(challenge') = Len(challenge)
    <3>1. challenge' = [challenge EXCEPT ![c].open = FALSE]
      BY <1>2 DEF ConsumeAndCreateSession
    <3>2. [challenge[c] EXCEPT !.open = FALSE] \in Challenges
      BY <2>1 DEF Challenges
    <3>3. QED
      BY <1>1, <2>1, <3>1, <3>2
  <2>5. AccessTypeOK' /\ RowsGrow
    BY <1>1, <1>2, <2>3, <2>4 DEF AccessTypeOK, Exists, Sessions, Challenges, RowsGrow
  <2>6. /\ NewToken = Len(session') /\ Len(session') # 0
        /\ Len(session') \in Nat /\ Len(challenge') \in Nat
        /\ Len(challenge') <= MaxChallenges
    BY <1>1, <2>3, <2>4 DEF NewToken
  <2>7. GoodAnswer(x, IF panel THEN Redirect("home") ELSE SetPending(Back(x), NoToken))
    <3>1. CASE panel
      BY <3>1, GoodRedirect DEF Redirects
    <3>2. CASE ~ panel
      BY <1>1, <2>3, <2>6, <3>2, GoodBack, GoodCookies
    <3>3. QED
      BY <3>1, <3>2
  <2>8. GoodAnswer(x, SetSession(IF panel THEN Redirect("home")
                                          ELSE SetPending(Back(x), NoToken), NewToken))
    BY <2>3, <2>6, <2>7, GoodCookies
  <2>9. QED
    BY <1>2, <2>5, <2>8 DEF AnswersWell
<1>3. CASE Answer(x, Page(IF panel THEN "error" ELSE "ssoError")) /\ UNCHANGED accessVars
  <2>1. GoodAnswer(x, Page("error")) /\ GoodAnswer(x, Page("ssoError"))
    BY GoodPage DEF Places
  <2>2. GoodAnswer(x, Page(IF panel THEN "error" ELSE "ssoError"))
    BY <2>1
  <2>3. QED
    BY <1>1, <1>3, <2>2, RowsStay DEF AnswersWell
<1>4. QED
  BY <1>2, <1>3 DEF LoginMFA, Back

\* A page made of several lists takes as many calls.
LEMMA ListAnswers ==
  ASSUME PanelInv, NEW x \in Calls, call[x] \in Requests, ServeList(x)
  PROVE  \/ AnswersWell(x)
         \/ /\ call[x].left > 1 /\ call' = [call EXCEPT ![x].left = @ - 1]
            /\ UNCHANGED <<accessVars, page>> /\ call[x].stage = "sent"
<1>1. GoodAnswer(x, Page("dashboard")) /\ GoodAnswer(x, Page("list"))
  BY GoodPage DEF Places
<1>2. UNCHANGED accessVars /\ AccessTypeOK /\ call[x].stage = "sent"
  BY CallFacts DEF ServeList, Sent
<1>3. AccessTypeOK' /\ RowsGrow
  BY <1>2, RowsStay
<1>4. QED
  BY <1>1, <1>2, <1>3 DEF ServeList, AnswersWell

-----------------------------------------------------------------------------
(* The steps of the two sites.                                             *)

\* A request one list further, and an operation that was checked.
Fewer(c) == [c EXCEPT !.left = @ - 1]
Checked(c) == [c EXCEPT !.stage = "checked", !.vouched = TRUE]

\* Their fields.
LEMMA UnderWay ==
  ASSUME NEW c \in Requests
  PROVE  /\ c.left > 1 => Fewer(c) \in Requests
         /\ Fewer(c).url = c.url /\ Fewer(c).user = c.user /\ Fewer(c).op = c.op
         /\ Fewer(c).intent = c.intent /\ Fewer(c).sso = c.sso /\ Fewer(c).mfa = c.mfa
         /\ Fewer(c).stage = c.stage /\ Fewer(c).answer = c.answer
         /\ Fewer(c).vouched = c.vouched
         /\ Checked(c) \in Requests
         /\ Checked(c).url = c.url /\ Checked(c).op = c.op
         /\ Checked(c).intent = c.intent /\ Checked(c).sso = c.sso
         /\ Checked(c).mfa = c.mfa /\ Checked(c).stage = "checked"
         /\ Checked(c).answer = c.answer /\ Checked(c).vouched = TRUE
<1>1. c.left > 1 => c.left - 1 \in 0 .. DashboardCalls
  BY DEF Requests, DashboardCalls
<1>2. c.left > 1 => Fewer(c) \in Requests
  BY <1>1 DEF Fewer, Requests
<1>3. Checked(c) \in Requests
  BY DEF Checked, Requests
<1>4. QED
  BY <1>2, <1>3 DEF Fewer, Checked, Requests

\* A request that is not answered yet keeps the invariant as it goes on.
LEMMA GoesOn ==
  ASSUME PanelInv, NEW x \in Calls, call[x] \in Requests, NEW r \in Requests,
         UNCHANGED <<accessVars, browser, jar, clicks, page>>,
         call' = [call EXCEPT ![x] = r],
         r.url = call[x].url, r.op = call[x].op, r.intent = call[x].intent,
         r.sso = call[x].sso, r.mfa = call[x].mfa, r.answer = call[x].answer,
         \/ r.stage = "sent" /\ call[x].stage = "sent" /\ r.user = call[x].user
         \/ r.stage = "checked" /\ r.url = "op" /\ r.vouched
  PROVE  PanelInv'
<1>1. /\ call \in [Calls -> {Idle} \cup Requests]
      /\ page \in [Tabs -> [at : Places, intent : Intents]]
      /\ \A t \in Tabs : PageOK(t) /\ TabOK(t)
      /\ CallOK(x) /\ call[x] # Idle /\ Tabs \subseteq Calls /\ AccessTypeOK
  BY InvParts, RequestIsNotIdle DEF TypeOK, Calls
<1>2. AccessTypeOK' /\ RowsGrow
  BY <1>1, RowsStay
<1>3. /\ call' \in [Calls -> {Idle} \cup Requests]
      /\ page' \in [Tabs -> [at : Places, intent : Intents]]
      /\ call'[x] = r
      /\ \A y \in Calls : y # x => call'[y] = call[y]
  BY <1>1
<1>4. CallOK(x)'
  <2>1. UNCHANGED <<session, challenge>>
    BY DEF accessVars
  <2>2. QED
    BY <1>1, <1>3, <2>1 DEF CallOK
<1>5. ASSUME x \in Tabs PROVE TabOK(x)'
  BY <1>1, <1>3, <1>5 DEF TabOK
<1>6. \A t \in Tabs : PageOK(t)'
  BY <1>1 DEF PageOK
<1>7. UNCHANGED <<browser, jar, clicks>>
  OBVIOUS
<1>8. QED
  BY <1>2, <1>3, <1>4, <1>5, <1>6, <1>7, SiteStep

\* Only an administrator's operation is passed on to its handler.
LEMMA CheckingVouches ==
  ASSUME PanelInv, NEW x \in Calls, call[x] \in Requests, CheckOperation(x)
  PROVE  /\ call' = [call EXCEPT ![x] = Checked(call[x])]
         /\ call[x].url = "op" /\ UNCHANGED <<accessVars, page>>
<1>1. session[call[x].sso].user \in ActiveAdministrators
  BY DEF CheckOperation, IsAdminToken
<1>2. call \in [Calls -> {Idle} \cup Requests]
  BY DEF PanelInv, TypeOK
<1>3. call' = [call EXCEPT ![x].stage = "checked", ![x].vouched = TRUE]
  BY <1>1 DEF CheckOperation
<1>4. call' = [call EXCEPT ![x] = Checked(call[x])]
  BY <1>2, <1>3 DEF Checked
<1>5. QED
  BY <1>4 DEF CheckOperation, Sent

\* Every step of the sites keeps the invariant.
LEMMA SiteSteps ==
  ASSUME PanelInv, NEW x \in Calls, Serve(x)
  PROVE  PanelInv'
<1>1. call[x] \in Requests
  BY DEF PanelInv, TypeOK, Serve
<1>2. UNCHANGED <<browser, jar, clicks>>
  BY DEF Serve
<1>3. CASE AnswersWell(x)
  <2>1. AccessTypeOK' /\ RowsGrow
    BY <1>3 DEF AnswersWell
  <2>2. PICK a : Answer(x, a) /\ GoodAnswer(x, a)
    BY <1>3 DEF AnswersWell
  <2>3. /\ call' \in [Calls -> {Idle} \cup Requests]
        /\ page' \in [Tabs -> [at : Places, intent : Intents]]
        /\ \A y \in Calls : y # x => call'[y] = call[y]
        /\ CallOK(x)'
        /\ x \in Tabs => TabOK(x)'
        /\ \A t \in Tabs : PageOK(t)'
    BY <1>1, <2>1, <2>2, AnswerEffect
  <2>4. QED
    BY <1>2, <2>1, <2>3, SiteStep
<1>4. CASE CheckOperation(x)
  <2>1. /\ call' = [call EXCEPT ![x] = Checked(call[x])]
        /\ call[x].url = "op" /\ UNCHANGED <<accessVars, page>>
    BY <1>1, <1>4, CheckingVouches
  <2> DEFINE r == Checked(call[x])
  <2>2. /\ r \in Requests /\ r.url = call[x].url /\ r.op = call[x].op
        /\ r.intent = call[x].intent /\ r.sso = call[x].sso /\ r.mfa = call[x].mfa
        /\ r.answer = call[x].answer /\ r.stage = "checked" /\ r.vouched
    BY <1>1, UnderWay
  <2>3. UNCHANGED <<accessVars, browser, jar, clicks, page>>
    BY <1>2, <2>1
  <2> HIDE DEF r
  <2>4. call' = [call EXCEPT ![x] = r]
    BY <2>1 DEF r
  <2>5. QED
    BY <1>1, <2>1, <2>2, <2>3, <2>4, GoesOn
<1>5. CASE /\ call[x].left > 1 /\ call' = [call EXCEPT ![x].left = @ - 1]
           /\ UNCHANGED <<accessVars, page>> /\ call[x].stage = "sent"
  <2>1. call' = [call EXCEPT ![x] = Fewer(call[x])]
    BY <1>5 DEF Fewer
  <2> DEFINE r == Fewer(call[x])
  <2>2. /\ r \in Requests /\ r.url = call[x].url /\ r.op = call[x].op
        /\ r.intent = call[x].intent /\ r.sso = call[x].sso /\ r.mfa = call[x].mfa
        /\ r.answer = call[x].answer /\ r.stage = call[x].stage
        /\ r.user = call[x].user
    BY <1>1, <1>5, UnderWay
  <2>3. UNCHANGED <<accessVars, browser, jar, clicks, page>>
    BY <1>2, <1>5
  <2> HIDE DEF r
  <2>4. call' = [call EXCEPT ![x] = r]
    BY <2>1 DEF r
  <2>5. QED
    BY <1>1, <1>5, <2>2, <2>3, <2>4, GoesOn
<1>6. QED
  BY <1>1, <1>3, <1>4, <1>5, ReadersAnswer, OperationAnswers, LogoutAnswers,
     LoginAnswers, CodeAnswers, ListAnswers DEF Serve

-----------------------------------------------------------------------------
(* The steps of people and browsers.                                       *)

\* Putting the invariant together after a step that writes no row and leaves
\* the calls of the other tabs alone.
LEMMA BrowserStep ==
  ASSUME PanelInv, UNCHANGED <<accessVars, browser>>, clicks' \in 0 .. MaxClicks,
         NEW t \in Tabs,
         jar' \in [Browsers -> [sso : 0 .. MaxSessions, mfa : 0 .. MaxChallenges]],
         page' \in [Tabs -> [at : Places, intent : Intents]],
         call' \in [Calls -> {Idle} \cup Requests],
         \A b \in Browsers : JarOK(b)',
         \A o \in Tabs : PageOK(o)',
         CallOK(t)', TabOK(t)',
         \A y \in Calls \ {t} : call'[y] = call[y] \/ (y \in Abandoned /\ CallOK(y)')
  PROVE  PanelInv'
<1>1. /\ TypeOK
      /\ \A y \in Calls : CallOK(y)
      /\ \A o \in Tabs : TabOK(o)
  BY InvParts
<1>2. AccessTypeOK' /\ RowsGrow
  BY <1>1, RowsStay DEF TypeOK
<1>3. TypeOK'
  BY <1>1, <1>2 DEF TypeOK
<1>4. ASSUME NEW y \in Calls PROVE CallOK(y)'
  BY <1>1, <1>2, CallStays
<1>5. ASSUME NEW o \in Tabs PROVE TabOK(o)'
  <2>1. o \in Calls /\ CallOK(o) /\ o \notin Abandoned
    BY <1>1, ControlPanelAssumption DEF Calls
  <2>2. CASE o = t
    BY <2>2
  <2>3. CASE call'[o] = call[o]
    BY <1>1, <1>2, <2>1, <2>3, TabStays
  <2>4. QED
    BY <2>1, <2>2, <2>3
<1>6. CookiesIssued' /\ RequestsMeant'
  BY <1>4 DEF CookiesIssued, RequestsMeant, JarOK, CallOK
<1>7. OwnIntents' /\ ClearedAfterRevocation'
  BY <1>5 DEF OwnIntents, ClearedAfterRevocation, PageOK, TabOK
<1>8. QED
  BY <1>3, <1>6, <1>7 DEF PanelInv

\* A request that is sent keeps the invariant's parts of its tab when it has
\* what its handler needs.
LEMMA RequestSent ==
  ASSUME TypeOK, UNCHANGED accessVars, NEW t \in Tabs, NEW r \in Requests,
         call' = [call EXCEPT ![t] = r],
         r.stage = "sent", r.answer = Page("blank"),
         r.sso \in 0 .. Len(session), r.mfa \in 0 .. Len(challenge),
         r.url \in {"login", "code", "ssoLogin", "ssoCode"} => r.user \in Users,
         r.url = "op" => r.op \in Operations,
         r.url \in {"authorize", "ssoLogin", "ssoCode"} => r.intent = t,
         r.url = "ssoSignIn" => r.intent \in {t, "settings"}
  PROVE  /\ call' \in [Calls -> {Idle} \cup Requests]
         /\ \A y \in Calls \ {t} : call'[y] = call[y]
         /\ CallOK(t)' /\ TabOK(t)'
<1>1. /\ r.answer.sso = Keep /\ r.answer.mfa = Keep /\ r.answer.go = "stay"
  BY PageFields DEF Places
<1>2. /\ call' \in [Calls -> {Idle} \cup Requests]
      /\ \A y \in Calls \ {t} : call'[y] = call[y]
      /\ call'[t] = r
  BY DEF TypeOK, Calls
<1>3. /\ UNCHANGED <<session, challenge>>
      /\ r.sso <= Len(session) /\ r.mfa <= Len(challenge)
  BY DEF accessVars, TypeOK, AccessTypeOK
<1>4. CallOK(t)'
  BY <1>1, <1>2, <1>3 DEF CallOK
<1>5. TabOK(t)'
  BY <1>2 DEF TabOK
<1>6. QED
  BY <1>2, <1>4, <1>5

\* The tokens there are fit into a cookie.
LEMMA CookiesThereAre ==
  ASSUME TypeOK
  PROVE  0 .. Len(session) \subseteq Cookies /\ 0 .. Len(challenge) \subseteq Cookies
BY AdminAccessAssumption DEF TypeOK, AccessTypeOK, Cookies, Keep

\* What a tab sends of its own accord.
LEMMA SendStep ==
  ASSUME PanelInv, NEW t \in Tabs, NEW url \in Urls,
         NEW user \in Users \cup {Nobody}, NEW op \in Operations \cup {NoOp},
         NEW intent \in Intents,
         Send(t, url, user, op, intent), clicks' \in 0 .. MaxClicks,
         url \in {"login", "code", "ssoLogin", "ssoCode"} => user \in Users,
         url = "op" => op \in Operations,
         url \in {"authorize", "ssoLogin", "ssoCode"} => intent = t,
         url = "ssoSignIn" => intent \in {t, "settings"}
  PROVE  PanelInv'
<1> DEFINE s == jar[browser[t]].sso
           m == jar[browser[t]].mfa
           r == Request(t, url, user, op, intent)
<1>1. /\ TypeOK
      /\ \A b \in Browsers : JarOK(b)
      /\ \A o \in Tabs : PageOK(o)
  BY InvParts
<1>2. UNCHANGED <<accessVars, browser, jar, page>>
  BY DEF Send
<1>3. browser[t] \in Browsers /\ Len(session) \in Nat /\ Len(challenge) \in Nat
  BY <1>1 DEF TypeOK, AccessTypeOK
<1>4. s \in Nat /\ m \in Nat
  BY <1>1, <1>3, AdminAccessAssumption DEF TypeOK
<1>5. s \in 0 .. Len(session) /\ m \in 0 .. Len(challenge)
  BY <1>1, <1>3, <1>4 DEF JarOK
<1>6. r \in Requests
  BY <1>1, <1>4, <1>5, CookiesThereAre, SentRequest DEF Request
<1>7. /\ r.url = url /\ r.user = user /\ r.op = op /\ r.intent = intent
      /\ r.sso = s /\ r.mfa = m /\ r.stage = "sent" /\ r.answer = Page("blank")
  BY DEF Request
<1> HIDE DEF s, m, r
<1>8. /\ call' \in [Calls -> {Idle} \cup Requests]
      /\ \A y \in Calls \ {t} : call'[y] = call[y]
      /\ CallOK(t)' /\ TabOK(t)'
  <2>1. call' = [call EXCEPT ![t] = r]
    BY DEF Send, r
  <2>2. UNCHANGED accessVars
    BY <1>2
  <2>3. QED
    BY <1>1, <1>5, <1>6, <1>7, <2>1, <2>2, RequestSent
<1>9. /\ jar' \in [Browsers -> [sso : 0 .. MaxSessions, mfa : 0 .. MaxChallenges]]
      /\ page' \in [Tabs -> [at : Places, intent : Intents]]
      /\ \A b \in Browsers : JarOK(b)'
      /\ \A o \in Tabs : PageOK(o)'
  BY <1>1, <1>2 DEF TypeOK, JarOK, PageOK, accessVars
<1>10. UNCHANGED <<accessVars, browser>>
  BY <1>2
<1>11. QED
  BY <1>8, <1>9, <1>10, BrowserStep

\* A click takes one of the limited number of clicks.
LEMMA ClickSteps ==
  ASSUME PanelInv, NEW t \in Tabs, Click(t)
  PROVE  PanelInv'
<1>1. clicks' \in 0 .. MaxClicks
  BY ControlPanelAssumption DEF Click, PanelInv, TypeOK
<1>2. /\ t \in Intents /\ "none" \in Intents /\ Nobody \in Users \cup {Nobody}
      /\ NoOp \in Operations \cup {NoOp}
  BY DEF Intents
<1>3. {"home", "settings", "authorize", "lists", "logout", "ssoLogout", "op", "login",
       "code", "ssoLogin", "ssoCode"} \subseteq Urls
  BY DEF Urls, PanelSites, PanelData
<1>4. ASSUME NEW url \in {"home", "settings", "lists", "logout", "ssoLogout"},
             Send(t, url, Nobody, NoOp, "none")
      PROVE  PanelInv'
  BY <1>1, <1>2, <1>3, <1>4, SendStep
<1>5. CASE Send(t, "authorize", Nobody, NoOp, t)
  BY <1>1, <1>2, <1>3, <1>5, SendStep
<1>6. ASSUME NEW op \in Operations, Send(t, "op", Nobody, op, "none") PROVE PanelInv'
  BY <1>1, <1>2, <1>3, <1>6, SendStep
<1>7. ASSUME NEW u \in Users, NEW url \in {"login", "code"},
             Send(t, url, u, NoOp, "none")
      PROVE  PanelInv'
  BY <1>1, <1>2, <1>3, <1>7, SendStep
<1>8. ASSUME NEW u \in Users, NEW url \in {"ssoLogin", "ssoCode"},
             url \in Offered(page[t].at), Send(t, url, u, NoOp, FormIntent(t))
      PROVE  PanelInv'
  <2>1. page[t].at \in {"ssoSignIn", "ssoCode"}
    BY <1>8 DEF Offered
  <2>2. FormIntent(t) = t
    BY <2>1, InvParts DEF PageOK, FormIntent
  <2>3. QED
    BY <1>1, <1>2, <1>3, <1>8, <2>2, SendStep
<1>9. QED
  BY <1>4, <1>5, <1>6, <1>7, <1>8 DEF Click

\* Following the one link of a page takes none.
LEMMA FollowSteps ==
  ASSUME PanelInv, NEW t \in Tabs, Follow(t)
  PROVE  PanelInv'
<1>1. clicks' \in 0 .. MaxClicks
  BY DEF Follow, PanelInv, TypeOK
<1>2. /\ "none" \in Intents /\ Nobody \in Users \cup {Nobody}
      /\ NoOp \in Operations \cup {NoOp}
  BY DEF Intents
<1>3. SoleLink[page[t].at] \in {"signIn", "home", "lists"}
  BY DEF Follow, SoleLink
<1>4. {"signIn", "home", "lists"} \subseteq Urls
  BY DEF Urls, PanelSites, PanelData
<1>5. PICK url \in {"signIn", "home", "lists"} : Send(t, url, Nobody, NoOp, "none")
  BY <1>3 DEF Follow
<1>6. QED
  BY <1>1, <1>2, <1>4, <1>5, SendStep

\* The jar after an answer: its cookies are of sessions and challenges there are.
LEMMA CookiesStored ==
  ASSUME TypeOK, NEW b \in Browsers, JarOK(b), NEW a,
         a.sso \in 0 .. Len(session) \cup {Keep}, a.mfa \in 0 .. Len(challenge) \cup {Keep}
  PROVE  /\ After(jar[b], a) \in [sso : 0 .. MaxSessions, mfa : 0 .. MaxChallenges]
         /\ After(jar[b], a).sso \in 0 .. Len(session)
         /\ After(jar[b], a).mfa \in 0 .. Len(challenge)
<1>1. /\ jar[b].sso \in 0 .. Len(session) /\ jar[b].mfa \in 0 .. Len(challenge)
      /\ Len(session) \in 0 .. MaxSessions /\ Len(challenge) \in 0 .. MaxChallenges
  BY AdminAccessAssumption DEF TypeOK, AccessTypeOK, JarOK
<1>2. /\ After(jar[b], a).sso \in 0 .. Len(session)
      /\ After(jar[b], a).mfa \in 0 .. Len(challenge)
  BY <1>1 DEF After
<1>3. QED
  BY <1>1, <1>2, AdminAccessAssumption DEF After

\* Setting one jar keeps the others.
LEMMA JarSet ==
  ASSUME TypeOK, UNCHANGED accessVars, \A b \in Browsers : JarOK(b),
         NEW c \in Browsers,
         NEW j \in [sso : 0 .. MaxSessions, mfa : 0 .. MaxChallenges],
         j.sso \in 0 .. Len(session), j.mfa \in 0 .. Len(challenge),
         jar' = [jar EXCEPT ![c] = j]
  PROVE  /\ jar' \in [Browsers -> [sso : 0 .. MaxSessions, mfa : 0 .. MaxChallenges]]
         /\ \A b \in Browsers : JarOK(b)'
<1>1. jar \in [Browsers -> [sso : 0 .. MaxSessions, mfa : 0 .. MaxChallenges]]
  BY DEF TypeOK
<1>2. UNCHANGED <<session, challenge>> /\ Len(session) \in Nat /\ Len(challenge) \in Nat
  BY DEF accessVars, TypeOK, AccessTypeOK
<1>3. \A b \in Browsers : jar'[b] = IF b = c THEN j ELSE jar[b]
  BY <1>1
<1>4. ASSUME NEW b \in Browsers PROVE JarOK(b)'
  BY <1>2, <1>3 DEF JarOK
<1>5. QED
  BY <1>1, <1>4

\* Showing a page keeps the others.
LEMMA PageShown ==
  ASSUME TypeOK, \A o \in Tabs : PageOK(o), NEW t \in Tabs, NEW p \in Places,
         NEW i \in Intents, p \in {"app", "ssoSignIn", "ssoCode"} => i = t,
         page' = [page EXCEPT ![t] = [at |-> p, intent |-> i]]
  PROVE  /\ page' \in [Tabs -> [at : Places, intent : Intents]]
         /\ \A o \in Tabs : PageOK(o)'
<1>1. page \in [Tabs -> [at : Places, intent : Intents]]
  BY DEF TypeOK
<1>2. \A o \in Tabs : page'[o] = IF o = t THEN [at |-> p, intent |-> i] ELSE page[o]
  BY <1>1
<1>3. QED
  BY <1>1, <1>2 DEF PageOK

\* The slot of a tab that has its answer, or waits for none, is free again.
LEMMA SlotFreed ==
  ASSUME TypeOK, NEW t \in Tabs, call' = [call EXCEPT ![t] = Idle]
  PROVE  /\ call' \in [Calls -> {Idle} \cup Requests]
         /\ \A y \in Calls \ {t} : call'[y] = call[y]
         /\ CallOK(t)' /\ TabOK(t)'
<1>1. /\ call \in [Calls -> {Idle} \cup Requests] /\ t \in Calls
  BY DEF TypeOK, Calls
<1>2. call'[t] = Idle
  BY <1>1
<1>3. QED
  BY <1>1, <1>2 DEF CallOK, TabOK

\* What a browser does with an answer.
LEMMA ReceiveSteps ==
  ASSUME PanelInv, NEW t \in Tabs, Receive(t)
  PROVE  PanelInv'
<1> DEFINE c == call[t]
           b == browser[t]
           j == After(jar[b], c.answer)
<1>1. /\ TypeOK /\ t \in Calls
      /\ \A d \in Browsers : JarOK(d)
      /\ \A o \in Tabs : PageOK(o)
      /\ CallOK(t) /\ TabOK(t)
  BY InvParts DEF Calls
<1>2. c # Idle /\ c.stage = "answered"
  BY DEF Receive, Idle
<1>3. c \in Requests /\ b \in Browsers
  BY <1>1, <1>2 DEF TypeOK
<1>4. /\ c.answer \in Answers /\ c.intent \in Intents /\ c.url \in Urls
      /\ c.answer.sso \in 0 .. Len(session) \cup {Keep}
      /\ c.answer.mfa \in 0 .. Len(challenge) \cup {Keep}
      /\ c.answer.go \in Redirects \cup {"stay"}
  BY <1>1, <1>2, <1>3 DEF CallOK, Requests
<1>5. /\ j \in [sso : 0 .. MaxSessions, mfa : 0 .. MaxChallenges]
      /\ j.sso \in 0 .. Len(session) /\ j.mfa \in 0 .. Len(challenge)
  BY <1>1, <1>3, <1>4, CookiesStored
<1>6. /\ UNCHANGED <<accessVars, browser>> /\ clicks' \in 0 .. MaxClicks
      /\ jar' = [jar EXCEPT ![b] = j]
  BY <1>1 DEF Receive, TypeOK
<1> HIDE DEF j
<1>7. /\ jar' \in [Browsers -> [sso : 0 .. MaxSessions, mfa : 0 .. MaxChallenges]]
      /\ \A d \in Browsers : JarOK(d)'
  BY <1>1, <1>3, <1>5, <1>6, JarSet
<1>8. CASE c.answer.go = "stay"
  <2>1. /\ page' = [page EXCEPT ![t] = [at |-> c.answer.show, intent |-> c.intent]]
        /\ call' = [call EXCEPT ![t] = Idle]
    BY <1>8 DEF Receive
  <2>2. c.answer.show \in Places
    BY <1>4 DEF Answers
  <2>3. c.answer.show \in {"app", "ssoSignIn", "ssoCode"} => c.intent = t
    BY <1>1, <1>2 DEF TabOK
  <2>4. /\ page' \in [Tabs -> [at : Places, intent : Intents]]
        /\ \A o \in Tabs : PageOK(o)'
    BY <1>1, <1>4, <2>1, <2>2, <2>3, PageShown
  <2>5. /\ call' \in [Calls -> {Idle} \cup Requests]
        /\ \A y \in Calls \ {t} : call'[y] = call[y]
        /\ CallOK(t)' /\ TabOK(t)'
    BY <1>1, <2>1, SlotFreed
  <2>6. QED
    BY <1>6, <1>7, <2>4, <2>5, BrowserStep
<1>9. CASE c.answer.go # "stay"
  <2> DEFINE g == c.answer.go
             i == NextIntent(c)
             q == Request(t, g, Nobody, NoOp, i)
             r == [q EXCEPT !.sso = j.sso, !.mfa = j.mfa]
  <2>1. g \in Redirects /\ g \in Urls
    BY <1>4, <1>9 DEF Redirects, Urls, PanelSites, PanelData
  <2>2. i \in Intents
    BY <1>4 DEF NextIntent, Intents
  <2>3. g = "authorize" => i = t
    BY <1>1, <1>2 DEF TabOK
  <2>4. g = "ssoSignIn" => i \in {t, "settings"}
    BY <1>1, <1>2 DEF TabOK
  <2>5. call' = [call EXCEPT ![t] = r]
    BY <1>9 DEF Receive, j
  <2> HIDE DEF g, i
  <2>6. q \in Requests
    <3>1. jar[b].sso \in Cookies /\ jar[b].mfa \in Cookies
      BY <1>1, <1>3, AdminAccessAssumption DEF TypeOK, Cookies, Keep
    <3>2. QED
      BY <2>1, <2>2, <3>1, SentRequest DEF Request
  <2>7. /\ q.url = g /\ q.op = NoOp /\ q.intent = i /\ q.stage = "sent"
        /\ q.answer = Page("blank")
    BY DEF Request
  <2> HIDE DEF q
  <2>8. j.sso \in Cookies /\ j.mfa \in Cookies
    BY <1>1, <1>5, CookiesThereAre
  <2>9. /\ r \in Requests
        /\ r.url = g /\ r.op = NoOp /\ r.intent = i /\ r.stage = "sent"
        /\ r.answer = Page("blank") /\ r.sso = j.sso /\ r.mfa = j.mfa
    BY <2>6, <2>7, <2>8 DEF Requests
  <2> HIDE DEF r
  <2>10. /\ call' \in [Calls -> {Idle} \cup Requests]
         /\ \A y \in Calls \ {t} : call'[y] = call[y]
         /\ CallOK(t)' /\ TabOK(t)'
    <3>1. g \notin {"login", "code", "ssoLogin", "ssoCode", "op"}
      BY <2>1 DEF Redirects
    <3>2. UNCHANGED accessVars
      BY <1>6
    <3>3. QED
      BY <1>1, <1>5, <2>3, <2>4, <2>5, <2>9, <3>1, <3>2, RequestSent
  <2>11. /\ page' \in [Tabs -> [at : Places, intent : Intents]]
         /\ \A o \in Tabs : PageOK(o)'
    BY <1>1, <1>9 DEF Receive, TypeOK, PageOK
  <2>12. QED
    BY <1>6, <1>7, <2>10, <2>11, BrowserStep
<1>10. QED
  BY <1>8, <1>9

\* The panel gives up: it says so and leaves the cookies alone; the call it made
\* may go on without it.
LEMMA GiveUpSteps ==
  ASSUME PanelInv, NEW t \in Tabs, GiveUp(t)
  PROVE  PanelInv' /\ UNCHANGED jar
<1> DEFINE p == IF call[t].url = "logout" THEN "logoutFailed" ELSE "error"
<1>1. /\ TypeOK /\ t \in Calls
      /\ \A d \in Browsers : JarOK(d)
      /\ \A o \in Tabs : PageOK(o)
      /\ \A x \in Calls : CallOK(x)
  BY InvParts DEF Calls
<1>2. p \in Places /\ p \notin {"app", "ssoSignIn", "ssoCode"} /\ "none" \in Intents
  BY DEF Places, Intents
<1>3. GiveUpAnswer(call[t].url) = Page(p)
  BY DEF GiveUpAnswer
<1> HIDE DEF p
<1>4. UNCHANGED jar
  <2>1. jar' = [jar EXCEPT ![browser[t]] = After(@, Page(p))]
    BY <1>3 DEF GiveUp
  <2>2. Page(p).sso = Keep /\ Page(p).mfa = Keep
    BY <1>2, PageFields
  <2>3. /\ browser[t] \in Browsers
        /\ jar[browser[t]] \in [sso : 0 .. MaxSessions, mfa : 0 .. MaxChallenges]
    BY <1>1 DEF TypeOK
  <2>4. After(jar[browser[t]], Page(p)) = jar[browser[t]]
    BY <2>2, <2>3 DEF After
  <2>5. QED
    BY <1>1, <2>1, <2>4 DEF TypeOK
<1>5. page' = [page EXCEPT ![t] = [at |-> p, intent |-> "none"]]
  BY <1>2, <1>3, PageFields DEF GiveUp
<1>6. /\ page' \in [Tabs -> [at : Places, intent : Intents]]
      /\ \A o \in Tabs : PageOK(o)'
  BY <1>1, <1>2, <1>5, PageShown
<1>7. UNCHANGED <<accessVars, browser>> /\ clicks' \in 0 .. MaxClicks
  BY <1>1 DEF GiveUp, TypeOK
<1>8. /\ jar' \in [Browsers -> [sso : 0 .. MaxSessions, mfa : 0 .. MaxChallenges]]
      /\ \A d \in Browsers : JarOK(d)'
  BY <1>1, <1>4, <1>7 DEF TypeOK, JarOK, accessVars
<1>9. CASE call' = [call EXCEPT ![t] = Idle]
  BY <1>1, <1>4, <1>6, <1>7, <1>8, <1>9, SlotFreed, BrowserStep
<1>10. ASSUME NEW x \in Abandoned, call[x] = Idle,
              call' = [call EXCEPT ![x] = call[t], ![t] = Idle]
       PROVE  PanelInv'
  <2>1. /\ x \in Calls /\ x # t /\ call \in [Calls -> {Idle} \cup Requests]
    BY <1>1, ControlPanelAssumption DEF Calls, TypeOK
  <2>2. /\ call' \in [Calls -> {Idle} \cup Requests]
        /\ call'[t] = Idle /\ call'[x] = call[t]
        /\ \A y \in Calls \ {t, x} : call'[y] = call[y]
    BY <1>1, <1>10, <2>1
  <2>3. CallOK(x)'
    BY <1>1, <1>7, <2>2 DEF CallOK, accessVars
  <2>4. CallOK(t)' /\ TabOK(t)'
    BY <2>2 DEF CallOK, TabOK
  <2>5. \A y \in Calls \ {t} : call'[y] = call[y] \/ (y \in Abandoned /\ CallOK(y)')
    BY <2>2, <2>3
  <2>6. QED
    BY <1>6, <1>7, <1>8, <2>2, <2>4, <2>5, BrowserStep
<1>11. QED
  BY <1>4, <1>9, <1>10 DEF GiveUp

-----------------------------------------------------------------------------
(* The invariant.                                                          *)

\* The initial states have it.
LEMMA PanelInitially ==
  ASSUME Init
  PROVE  PanelInv
<1>1. AccessTypeOK
  <2>1. PICK n \in 0 .. MaxSessions : session \in [1 .. n -> [user : Users, live : {TRUE}]]
    BY DEF Init
  <2>2. n \in Nat /\ session \in [1 .. n -> Sessions]
    <3>1. [user : Users, live : {TRUE}] \subseteq Sessions
      BY DEF Sessions
    <3>2. n \in Nat
      BY AdminAccessAssumption
    <3>3. QED
      BY <2>1, <3>1, <3>2
  <2>3. session \in Seq(Sessions) /\ Len(session) <= MaxSessions
    BY <2>1, <2>2, AdminAccessAssumption
  <2>4. challenge = <<>> /\ <<>> \in Seq(Challenges) /\ Len(challenge) <= MaxChallenges
    BY AdminAccessAssumption DEF Init, AccessInit
  <2>5. QED
    BY <2>3, <2>4 DEF Init, AccessInit, AccessTypeOK, Sessions, Challenges
<1>2. jar \in [Browsers -> [sso : 0 .. Len(session), mfa : {NoToken}]]
  BY DEF Init
<1>3. /\ jar \in [Browsers -> [sso : 0 .. MaxSessions, mfa : 0 .. MaxChallenges]]
      /\ \A b \in Browsers : JarOK(b)
  BY <1>1, <1>2, AdminAccessAssumption DEF AccessTypeOK, NoToken, JarOK
<1>4. page \in [Tabs -> [at : Places, intent : Intents]]
  BY DEF Init, Places
<1>5. \A t \in Tabs : PageOK(t)
  BY DEF Init, PageOK
<1>6. \A x \in Calls : call[x] = Idle
  BY DEF Init
<1>7. /\ \A x \in Calls : CallOK(x)
      /\ \A t \in Tabs : TabOK(t)
  BY <1>6 DEF CallOK, TabOK, Calls
<1>8. clicks \in 0 .. MaxClicks
  BY ControlPanelAssumption DEF Init
<1>9. call \in [Calls -> {Idle} \cup Requests]
  BY DEF Init
<1>10. TypeOK
  BY <1>1, <1>3, <1>4, <1>8, <1>9 DEF TypeOK, Init
<1>11. QED
  BY <1>3, <1>5, <1>7, <1>10, InvParts

\* Every step keeps it.
LEMMA PanelSteps ==
  ASSUME PanelInv, [Next]_vars
  PROVE  PanelInv'
<1>1. CASE Next
  <2>1. ASSUME NEW t \in Tabs, Click(t) PROVE PanelInv'
    BY <2>1, ClickSteps
  <2>2. ASSUME NEW t \in Tabs, Follow(t) PROVE PanelInv'
    BY <2>2, FollowSteps
  <2>3. ASSUME NEW t \in Tabs, Receive(t) PROVE PanelInv'
    BY <2>3, ReceiveSteps
  <2>4. ASSUME NEW t \in Tabs, GiveUp(t) PROVE PanelInv'
    BY <2>4, GiveUpSteps
  <2>5. ASSUME NEW x \in Calls, Serve(x) PROVE PanelInv'
    BY <2>5, SiteSteps
  <2>6. QED
    BY <1>1, <2>1, <2>2, <2>3, <2>4, <2>5 DEF Next
<1>2. CASE UNCHANGED vars
  <2>1. UNCHANGED <<status, administrators, session, challenge, browser, jar, page, call,
                    clicks>>
    BY <1>2 DEF vars, accessVars
  <2>2. TypeOK'
    BY <2>1 DEF PanelInv, TypeOK, AccessTypeOK, Exists
  <2>3. CookiesIssued' /\ RequestsMeant'
    BY <2>1 DEF PanelInv, CookiesIssued, RequestsMeant
  <2>4. OwnIntents'
    BY <2>1 DEF PanelInv, OwnIntents, NextIntent
  <2>5. ClearedAfterRevocation'
    BY <2>1 DEF PanelInv, ClearedAfterRevocation, Working
  <2>6. QED
    BY <2>2, <2>3, <2>4, <2>5 DEF PanelInv
<1>3. QED
  BY <1>1, <1>2

\* The invariant behind the theorems below holds in every reachable state of
\* the two sites and the browsers.
THEOREM PanelInvariant == Spec => []PanelInv
<1>1. Init => PanelInv
  BY PanelInitially
<1>2. PanelInv /\ [Next]_vars => PanelInv'
  BY PanelSteps
<1>3. QED
  BY <1>1, <1>2, PTL DEF Spec

\* Jars, pages, requests and answers are what their types say: no cookie is
\* beyond the sessions there can be, no group member is an absent user.
THEOREM PanelTypeCorrect == Spec => []TypeOK
<1>1. PanelInv => TypeOK
  BY DEF PanelInv
<1>2. QED
  BY <1>1, PanelInvariant, PTL

\* However sign-ins in tabs with one jar interleave, each tab comes back to its
\* application with the request it left with.
THEOREM LandsRight == Spec => []LandsWhereStarted
<1>1. PanelInv => LandsWhereStarted
  BY DEF PanelInv, OwnIntents, LandsWhereStarted
<1>2. QED
  BY <1>1, PanelInvariant, PTL

-----------------------------------------------------------------------------
(* The action properties.                                                  *)

\* Only an operation that was passed on to its handler touches the accounts and
\* the group.
LEMMA AccountWriters ==
  ASSUME PanelInv, [Next]_vars, ~ UNCHANGED <<status, administrators>>
  PROVE  \E x \in Calls :
           /\ call[x] \in Requests /\ call[x].stage = "checked"
           /\ Perform(call[x].op) /\ Answer(x, Page("message"))
<1>1. ASSUME NEW x \in Calls, Serve(x)
      PROVE  /\ call[x] \in Requests /\ call[x].stage = "checked"
             /\ Perform(call[x].op) /\ Answer(x, Page("message"))
  <2>1. call[x] \in Requests
    BY <1>1 DEF PanelInv, TypeOK, Serve
  <2>2. ServeOperation(x) /\ ~ UNCHANGED accessVars
    BY <1>1 DEF Serve, RequireAuth, RefuseAdmin, ServeList, CheckOperation, LoginPage,
                Login, LoginMFA, Logout, NeedsSession, SsoLoginPage, accessVars
  <2>3. QED
    BY <2>1, <2>2 DEF ServeOperation
<1>2. ~ UNCHANGED accessVars
  BY DEF accessVars
<1>3. PICK x \in Calls : Serve(x)
  BY <1>2 DEF Next, Click, Follow, Send, Receive, GiveUp, vars
<1>4. QED
  BY <1>1, <1>3

\* An answered call is under way no more.
LEMMA AnsweredIsNotChecked ==
  ASSUME PanelInv, NEW x \in Calls, call[x] \in Requests, NEW a \in Answers,
         Answer(x, a)
  PROVE  call'[x].stage # "checked"
<1>1. call \in [Calls -> {Idle} \cup Requests]
  BY DEF PanelInv, TypeOK
<1>2. Idle.stage # "checked" /\ Answered(call[x], a).stage # "checked"
  BY AnsweredRequest DEF Idle
<1>3. call'[x] = Idle \/ call'[x] = Answered(call[x], a)
  <2>1. CASE call' = [call EXCEPT ![x] = Idle]
    BY <1>1, <2>1
  <2>2. CASE call' = [call EXCEPT ![x] =
               [@ EXCEPT !.user = Nobody, !.mfa = NoToken, !.stage = "answered",
                         !.answer = a]]
    BY <1>1, <2>2 DEF Answered
  <2>3. QED
    BY <2>1, <2>2 DEF Answer
<1>4. QED
  BY <1>2, <1>3

\* The last active administrator is lost only by the operation of someone who
\* was one when RequireAdmin looked: aimed at oneself, or overtaken by another
\* operation before it was carried out.
THEOREM LastAdminLost == Spec => LastAdminOwnDoing
<1> DEFINE Loss ==
      ActiveAdministrators # {} /\ ActiveAdministrators' = {} =>
        \E x \in Calls :
          /\ call[x].stage = "checked" /\ call'[x].stage # "checked"
          /\ call[x].vouched
          /\ \/ call[x].op.user = session[call[x].sso].user
             \/ session[call[x].sso].user \notin ActiveAdministrators
<1>1. PanelInv /\ [Next]_vars => Loss
  <2> SUFFICES ASSUME PanelInv, [Next]_vars,
                      ActiveAdministrators # {}, ActiveAdministrators' = {}
               PROVE  \E x \in Calls :
                        /\ call[x].stage = "checked" /\ call'[x].stage # "checked"
                        /\ call[x].vouched
                        /\ \/ call[x].op.user = session[call[x].sso].user
                           \/ session[call[x].sso].user \notin ActiveAdministrators
    OBVIOUS
  <2>1. ~ UNCHANGED <<status, administrators>>
    BY DEF ActiveAdministrators
  <2>2. PICK x \in Calls :
          /\ call[x] \in Requests /\ call[x].stage = "checked"
          /\ Perform(call[x].op) /\ Answer(x, Page("message"))
    BY <2>1, AccountWriters
  <2>3. call'[x].stage # "checked"
    BY <2>2, AnsweredIsNotChecked, PageFields DEF Places
  <2>4. /\ AccessTypeOK /\ CallOK(x) /\ call[x] # Idle
        /\ call[x].op \in Operations /\ call[x].vouched
    BY <2>2, CallFacts DEF CallOK
  <2>5. ASSUME NEW u \in ActiveAdministrators PROVE u = call[x].op.user
    <3>1. u \in Users /\ u \in administrators /\ status[u] = "active"
      BY <2>4 DEF ActiveAdministrators, AccessTypeOK
    <3>2. u # call[x].op.user => status'[u] = status[u] /\ u \in administrators'
      BY <2>2, <2>4, <3>1, OperationSteps
    <3>3. QED
      BY <3>1, <3>2 DEF ActiveAdministrators
  <2>6. QED
    BY <2>2, <2>3, <2>4, <2>5
<1>2. Spec => [][Loss]_vars
  BY <1>1, PanelInvariant, PTL DEF Spec
<1>3. QED
  BY <1>2 DEF LastAdminOwnDoing

\* A browser loses the cookie of a session that works only to the answer to a
\* sign-out that was sent with another cookie and has ended that session.
THEOREM CookieForgotten == Spec => ForgottenOnlyWhenRevoked
<1> DEFINE Lost ==
      \A b \in Browsers :
        Working(jar[b].sso) /\ jar'[b].sso = NoToken =>
          \E t \in Tabs :
            /\ browser[t] = b /\ call[t] # Idle /\ call[t].url \in {"logout", "ssoLogout"}
            /\ call[t].sso # jar[b].sso /\ ~ Working(call[t].sso)
<1>1. PanelInv /\ [Next]_vars => Lost
  <2> SUFFICES ASSUME PanelInv, [Next]_vars, NEW b \in Browsers,
                      Working(jar[b].sso), jar'[b].sso = NoToken
               PROVE  \E t \in Tabs :
                        /\ browser[t] = b /\ call[t] # Idle
                        /\ call[t].url \in {"logout", "ssoLogout"}
                        /\ call[t].sso # jar[b].sso /\ ~ Working(call[t].sso)
    OBVIOUS
  <2>1. jar[b].sso # NoToken
    <3>1. DOMAIN session = 1 .. Len(session)
      BY DEF PanelInv, TypeOK, AccessTypeOK
    <3>2. QED
      BY <3>1 DEF Working, NoToken
  <2>2. ~ UNCHANGED jar
    BY <2>1
  <2>3. PICK t \in Tabs : Receive(t)
    BY <2>2, GiveUpSteps DEF Next, Click, Follow, Send, Serve, vars
  <2>4. call[t] # Idle /\ call[t].stage = "answered"
    BY <2>3 DEF Receive, Idle
  <2>5. jar' = [jar EXCEPT ![browser[t]] = After(jar[browser[t]], call[t].answer)]
    BY <2>3 DEF Receive
  <2>6. browser[t] = b /\ jar'[b] = After(jar[b], call[t].answer)
    BY <2>1, <2>5 DEF PanelInv, TypeOK
  <2>7. call[t].answer.sso = NoToken
    BY <2>1, <2>6 DEF After
  <2>8. call[t].url \in {"logout", "ssoLogout"} /\ ~ Working(call[t].sso)
    BY <2>4, <2>7 DEF PanelInv, ClearedAfterRevocation
  <2>9. call[t].sso # jar[b].sso
    BY <2>8
  <2>10. QED
    BY <2>4, <2>6, <2>8, <2>9
<1>2. Spec => [][Lost]_vars
  BY <1>1, PanelInvariant, PTL DEF Spec
<1>3. QED
  BY <1>2 DEF ForgottenOnlyWhenRevoked
=============================================================================
