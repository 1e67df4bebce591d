---------------------------- MODULE ControlPanel ----------------------------
(***************************************************************************)
(* The control panel and the Auth Provider's own pages, as people use them *)
(* from browsers with several tabs.  Both sites set the same two cookies,  *)
(* and a browser has one jar for them: the session a tab works with may be *)
(* the one another tab signed in, or signed out.                           *)
(*                                                                         *)
(* A tab has one request under way at a time, call[t].  It carries the     *)
(* cookies as they were when it was sent; what the answer says of the      *)
(* cookies holds when it arrives.  The panel does nothing by itself: it    *)
(* passes the cookie on to the Auth Provider, waits 15 seconds for an      *)
(* answer and renders it.  The Auth Provider does not notice that the      *)
(* panel has given up and goes on with the call: such a call moves to one  *)
(* of the slots Abandoned, which bound how many there are at once.         *)
(***************************************************************************)
EXTENDS AdminAccess

CONSTANTS Tabs, Browsers, Abandoned, MaxClicks, Nobody

ASSUME ControlPanelAssumption ==
  /\ MaxClicks \in Nat
  /\ Nobody \notin Users
  /\ Tabs \cap Abandoned = {}

VARIABLES
  browser,   \* of each tab, for good
  jar,       \* of each browser: its two cookies
  page,      \* of each tab: what it shows
  call,      \* of each tab and slot: the request under way
  clicks     \* what people have done of their own accord

vars == <<accessVars, browser, jar, page, call, clicks>>

Calls == Tabs \cup Abandoned

\* Where a sign-in leads: back to the application the tab came from, whose
\* state parameter is unique, as the tab is; to the MFA settings; nowhere.
Intents == Tabs \cup {"settings", "none"}

Places ==
  { "blank", "app",
    "dashboard", "list", "message", "error", "required",      \* the panel's
    "signIn", "code", "logoutFailed",
    "ssoSignIn", "ssoCode", "ssoDone", "ssoError", "settings" }

PanelData  == {"home", "lists", "op"}                \* through the admin API
PanelSites == PanelData \cup {"signIn", "login", "code", "logout"}
Urls == PanelSites \cup
  {"authorize", "ssoSignIn", "ssoLogin", "ssoCode", "ssoLogout", "settings"}

Keep == MaxSessions + MaxChallenges + 1    \* no Set-Cookie
Cookies == 0 .. Keep

Answers == [show : Places, go : Urls \cup {"stay"}, sso : Cookies, mfa : Cookies]

Page(p)          == [show |-> p, go |-> "stay", sso |-> Keep, mfa |-> Keep]
Redirect(u)      == [Page("blank") EXCEPT !.go = u]
SetSession(a, s) == [a EXCEPT !.sso = s]
SetPending(a, c) == [a EXCEPT !.mfa = c]

\* A jar j once the answer a is there.
After(j, a) == [ sso |-> IF a.sso = Keep THEN j.sso ELSE a.sso,
                 mfa |-> IF a.mfa = Keep THEN j.mfa ELSE a.mfa ]

NoOp == [what |-> "none", user |-> Nobody]

DashboardCalls == 3    \* users, groups and applications
ListCalls == 2         \* groups and users, applications and groups; or users

\* left: admin calls the page still needs; vouched: who sent the call was an
\* active administrator when it was checked (for LastAdminOwnDoing).
Requests ==
  [ url : Urls, user : Users \cup {Nobody}, op : Operations \cup {NoOp},
    intent : Intents, sso : Cookies, mfa : Cookies, left : 0 .. DashboardCalls,
    vouched : BOOLEAN, stage : {"sent", "checked", "answered"}, answer : Answers ]

Idle == [stage |-> "idle"]

\* The calls a page makes of the admin API, one after the other.
AdminCalls(url) == CASE url = "home" -> DashboardCalls [] url = "lists" -> ListCalls
                     [] url = "op" -> 1 [] OTHER -> 0

Request(t, url, user, op, intent) ==
  [ url |-> url, user |-> user, op |-> op, intent |-> intent,
    sso |-> jar[browser[t]].sso, mfa |-> jar[browser[t]].mfa,
    left |-> AdminCalls(url), vouched |-> FALSE, stage |-> "sent",
    answer |-> Page("blank") ]

TypeOK ==
  /\ AccessTypeOK
  /\ browser \in [Tabs -> Browsers]
  /\ jar \in [Browsers -> [sso : 0 .. MaxSessions, mfa : 0 .. MaxChallenges]]
  /\ page \in [Tabs -> [at : Places, intent : Intents]]
  /\ call \in [Calls -> {Idle} \cup Requests]
  /\ clicks \in 0 .. MaxClicks

\* A browser has no session, or a working one of its own.  A tab of an
\* administrator may have a list open; any tab may have been sent to the
\* sign-in form before the browser had its session.
Init ==
  /\ AccessInit
  /\ session \in UNION {[1 .. n -> [user : Users, live : {TRUE}]] : n \in 0 .. MaxSessions}
  /\ \A s \in DOMAIN session : VerifyPassword(session[s].user)
  /\ browser \in [Tabs -> Browsers]
  /\ jar \in [Browsers -> [sso : 0 .. Len(session), mfa : {NoToken}]]
  /\ \A b, c \in Browsers : jar[b].sso = jar[c].sso /\ b # c => jar[b].sso = NoToken
  /\ \A s \in DOMAIN session : \E b \in Browsers : jar[b].sso = s
  /\ page \in [Tabs -> [at : {"blank", "list", "ssoSignIn"}, intent : Intents]]
  /\ \A t \in Tabs :
       page[t] \in { [at |-> IF IsAdminToken(jar[browser[t]].sso) THEN "list" ELSE "blank",
                      intent |-> "none"],
                     [at |-> "ssoSignIn", intent |-> t] }
  /\ call = [x \in Calls |-> Idle]
  /\ clicks = 0

-----------------------------------------------------------------------------
(* People: what a page offers, and what can be opened from anywhere.       *)

Offered(p) ==
  CASE p = "dashboard"   -> {"home", "lists", "logout"}
    [] p = "list"         -> {"home", "lists", "logout", "op"}
    [] p = "required"     -> {"signIn"}
    [] p = "message"      -> {"lists"}
    [] p = "error"        -> {"home"}
    [] p = "signIn"       -> {"login"}
    [] p = "code"         -> {"code"}
    [] p = "logoutFailed" -> {"logout", "home"}
    [] p = "ssoSignIn"    -> {"ssoLogin"}
    [] p = "ssoCode"      -> {"ssoCode"}
    [] p = "app"          -> {"ssoLogout"}
    [] OTHER              -> {}

\* Faulty variant (LandsWhereStarted): the site remembers one intent for the
\* browser, that of the tab that asked for the sign-in form last.
FormIntent_OfBrowser(t) ==
  LET forms == {o \in Tabs : browser[o] = browser[t] /\ page[o].at \in {"ssoSignIn", "ssoCode"}}
  IN page[CHOOSE o \in forms : TRUE].intent

\* The form has the intent in a hidden field, and so has the JSON answer that
\* asks for the code.
FormIntent(t) == page[t].intent

Send(t, url, user, op, intent) ==
  /\ call[t] = Idle
  /\ call' = [call EXCEPT ![t] = Request(t, url, user, op, intent)]
  /\ UNCHANGED <<accessVars, browser, jar, page>>

Click(t) ==
  /\ clicks < MaxClicks
  /\ clicks' = clicks + 1
  /\ \/ \E url \in {"home", "settings"} : Send(t, url, Nobody, NoOp, "none")
     \/ Send(t, "authorize", Nobody, NoOp, t)
     \/ \E url \in Offered(page[t].at) :
          \/ url \in {"home", "lists", "logout", "ssoLogout"} /\ Send(t, url, Nobody, NoOp, "none")
          \/ /\ url = "op"
             /\ \E op \in Operations :
                  /\ op.what = "create" \/ Exists(op.user)
                  /\ Send(t, url, Nobody, op, "none")
          \/ /\ url \in {"login", "code"}
             /\ \E u \in Users : Send(t, url, u, NoOp, "none")
          \/ /\ url \in {"ssoLogin", "ssoCode"}
             /\ \E u \in Users : Send(t, url, u, NoOp, FormIntent(t))

\* The one link such a page has.
SoleLink == [required |-> "signIn", error |-> "home", message |-> "lists"]

Follow(t) ==
  /\ page[t].at \in DOMAIN SoleLink
  /\ Send(t, SoleLink[page[t].at], Nobody, NoOp, "none")
  /\ UNCHANGED clicks

-----------------------------------------------------------------------------
(* The two sites.                                                          *)

Sent(x, url) == call[x].stage = "sent" /\ call[x].url = url

\* Nobody waits for the answer to an abandoned call.  A page without cookies is
\* shown at once: when it arrives matters to no one but its own tab.  Of the
\* request only what the answer is read with is kept.
Answer(x, a) ==
  \/ /\ x \in Abandoned
     /\ call' = [call EXCEPT ![x] = Idle]
     /\ UNCHANGED page
  \/ /\ x \in Tabs /\ a = Page(a.show)
     /\ call' = [call EXCEPT ![x] = Idle]
     /\ page' = [page EXCEPT ![x] = [at |-> a.show, intent |-> call[x].intent]]
  \/ /\ x \in Tabs /\ a # Page(a.show)
     /\ call' = [call EXCEPT ![x] =
          [@ EXCEPT !.user = Nobody, !.mfa = NoToken, !.stage = "answered", !.answer = a]]
     /\ UNCHANGED page

\* requireAuth: without a cookie the panel asks nobody.
RequireAuth(x) ==
  /\ call[x].stage = "sent" /\ call[x].url \in PanelData /\ call[x].sso = NoToken
  /\ Answer(x, Page("required"))
  /\ UNCHANGED accessVars

\* RequireAdmin looks the token up before every admin call: no administrator's
\* token, no handler.
RefuseAdmin(x) ==
  /\ call[x].stage = "sent" /\ call[x].url \in PanelData /\ call[x].sso # NoToken
  /\ ~ IsAdminToken(call[x].sso)
  /\ Answer(x, Page("required"))
  /\ UNCHANGED accessVars

\* One of the lists a page is made of: the dashboard has three, the pages of
\* the groups and of the applications two, those of the users one.
ServeList(x) ==
  /\ Sent(x, "home") \/ Sent(x, "lists")
  /\ IsAdminToken(call[x].sso)
  /\ \/ call[x].left > 1 /\ call' = [call EXCEPT ![x].left = @ - 1] /\ UNCHANGED page
     \/ call[x].left = 1 /\ call[x].url = "home" /\ Answer(x, Page("dashboard"))
     \/ call[x].url = "lists" /\ Answer(x, Page("list"))
  /\ UNCHANGED accessVars

CheckOperation(x) ==
  /\ Sent(x, "op")
  /\ IsAdminToken(call[x].sso)
  /\ call' = [call EXCEPT ![x].stage = "checked",
                          ![x].vouched = session[call[x].sso].user \in ActiveAdministrators]
  /\ UNCHANGED <<accessVars, page>>

ServeOperation(x) ==
  /\ call[x].stage = "checked"
  /\ \/ Perform(call[x].op) /\ Answer(x, Page("message"))
     \/ ~ Applicable(call[x].op) /\ Answer(x, Page("error")) /\ UNCHANGED accessVars

\* LoginPage of the panel.
LoginPage(x) ==
  /\ Sent(x, "signIn")
  /\ Answer(x, IF call[x].sso # NoToken THEN Redirect("home") ELSE Page("signIn"))
  /\ UNCHANGED accessVars

\* POST /login of the Auth Provider, for the panel and for its own form: a
\* session, or a pending challenge for a user with a second factor.
Login(x) ==
  /\ Sent(x, "login") \/ Sent(x, "ssoLogin")
  /\ LET u == call[x].user
         panel == call[x].url = "login"
         back  == IF call[x].intent = "none" THEN Page("ssoDone") ELSE Redirect("authorize")
     IN \/ /\ VerifyPassword(u) /\ ~ NeedsCode(u)
           /\ CreateSession(u)
           /\ Answer(x, SetSession(IF panel THEN Redirect("home") ELSE back, NewToken))
           /\ UNCHANGED <<status, administrators, challenge>>
        \/ /\ VerifyPassword(u) /\ NeedsCode(u)
           /\ CreateChallenge(u)
           /\ Answer(x, SetPending(Page(IF panel THEN "code" ELSE "ssoCode"), NewChallenge))
           /\ UNCHANGED <<status, administrators, session>>
        \/ /\ ~ VerifyPassword(u)
           /\ Answer(x, Page(IF panel THEN "error" ELSE "ssoError"))
           /\ UNCHANGED accessVars

\* POST /login/mfa.  The panel passes on the session cookie only: the pending
\* one stays in the browser.
LoginMFA(x) ==
  /\ Sent(x, "code") \/ Sent(x, "ssoCode")
  /\ LET panel == call[x].url = "code"
         back  == IF call[x].intent = "none" THEN Page("ssoDone") ELSE Redirect("authorize")
     IN \/ /\ Answerable(call[x].mfa, call[x].user)
           /\ ConsumeAndCreateSession(call[x].mfa)
           /\ Answer(x, SetSession(IF panel THEN Redirect("home")
                                           ELSE SetPending(back, NoToken), NewToken))
           /\ UNCHANGED <<status, administrators>>
        \/ /\ ~ Answerable(call[x].mfa, call[x].user)
           /\ Answer(x, Page(IF panel THEN "error" ELSE "ssoError"))
           /\ UNCHANGED accessVars

\* Logout of the panel and of the Auth Provider: the session of the cookie, if
\* it still works, is revoked; the cookie goes once that is done.  Without a
\* cookie the panel sets none, and the Auth Provider clears it all the same.
Logout(x) ==
  /\ Sent(x, "logout") \/ Sent(x, "ssoLogout")
  /\ session' = Revoked({call[x].sso})
  /\ Answer(x, CASE call[x].url = "ssoLogout" -> SetSession(Page("ssoDone"), NoToken)
                [] call[x].sso = NoToken       -> Redirect("signIn")
                [] OTHER                       -> SetSession(Redirect("signIn"), NoToken))
  /\ UNCHANGED <<status, administrators, challenge>>

\* /authorize of a user the policy admits, and MFASettingsPage: both need a
\* working session and send the tab to the sign-in form for want of one.
NeedsSession(x) ==
  /\ Sent(x, "authorize") \/ Sent(x, "settings")
  /\ Answer(x, IF Working(call[x].sso)
                 THEN Page(IF call[x].url = "authorize" THEN "app" ELSE "settings")
                 ELSE Redirect("ssoSignIn"))
  /\ UNCHANGED accessVars

\* LoginPage of the Auth Provider: return_to must be an /authorize request.
SsoLoginPage(x) ==
  /\ Sent(x, "ssoSignIn")
  /\ Answer(x, Page(IF call[x].intent = "settings" THEN "ssoError" ELSE "ssoSignIn"))
  /\ UNCHANGED accessVars

\* Faulty variant (ForgottenOnlyWhenRevoked): the cookie goes in any case.
GiveUpAnswer_Forgets(url) ==
  IF url = "logout" THEN SetSession(Page("logoutFailed"), NoToken) ELSE Page("error")

GiveUpAnswer(url) == Page(IF url = "logout" THEN "logoutFailed" ELSE "error")

\* The panel has no answer after 15 seconds, or one that says the database is
\* out of reach.  The call may have been lost, or is still on its way.
GiveUp(t) ==
  /\ call[t].stage \in {"sent", "checked"}
  /\ call[t].url \in PanelSites \ {"signIn"}
  /\ call[t].url \in {"home", "lists", "op", "logout"} => call[t].sso # NoToken
  /\ LET a == GiveUpAnswer(call[t].url)
     IN /\ jar'  = [jar EXCEPT ![browser[t]] = After(@, a)]
        /\ page' = [page EXCEPT ![t] = [at |-> a.show, intent |-> "none"]]
  /\ \/ call' = [call EXCEPT ![t] = Idle]
     \/ \E x \in Abandoned :
          /\ call[x] = Idle /\ call[t].url \notin {"home", "lists"}
          /\ call' = [call EXCEPT ![x] = call[t], ![t] = Idle]
  /\ UNCHANGED <<accessVars, browser, clicks>>

Serve(x) ==
  /\ call[x] # Idle
  /\ \/ RequireAuth(x) \/ RefuseAdmin(x) \/ ServeList(x)
     \/ CheckOperation(x) \/ ServeOperation(x)
     \/ LoginPage(x) \/ Login(x) \/ LoginMFA(x) \/ Logout(x)
     \/ NeedsSession(x) \/ SsoLoginPage(x)
  /\ UNCHANGED <<browser, jar, clicks>>

-----------------------------------------------------------------------------
(* The browser.                                                            *)

\* Where a redirect leads, and with which return_to.
NextIntent(c) == IF c.url = "settings" THEN "settings" ELSE c.intent

\* The answer arrives: its cookies are stored, then its page is shown or its
\* redirect is followed, with the cookies of the jar.
Receive(t) ==
  /\ call[t].stage = "answered"
  /\ LET c == call[t]
         b == browser[t]
         j == After(jar[b], c.answer)
     IN /\ jar' = [jar EXCEPT ![b] = j]
        /\ IF c.answer.go = "stay"
             THEN /\ page' = [page EXCEPT ![t] = [at |-> c.answer.show, intent |-> c.intent]]
                  /\ call' = [call EXCEPT ![t] = Idle]
             ELSE /\ call' = [call EXCEPT ![t] =
                        [Request(t, c.answer.go, Nobody, NoOp, NextIntent(c))
                           EXCEPT !.sso = j.sso, !.mfa = j.mfa]]
                  /\ UNCHANGED page
  /\ UNCHANGED <<accessVars, browser, clicks>>

Next ==
  \/ \E t \in Tabs : \/ Click(t) \/ Follow(t) \/ Receive(t)
                     \/ GiveUp(t)
  \/ \E x \in Calls : Serve(x)

Spec == Init /\ [][Next]_vars

\* The sites answer, browsers take the answers, and whoever is told to sign in
\* follows the one link there is.
FairSpec ==
  /\ Spec
  /\ \A t \in Tabs : WF_vars(Serve(t)) /\ WF_vars(Receive(t)) /\ WF_vars(Follow(t))

-----------------------------------------------------------------------------
(* Properties.                                                             *)

\* A browser gives up the cookie of a session that still works only to a
\* sign-out that was sent with another cookie, whose session is gone: no
\* unanswered or refused sign-out leaves a session behind that nobody can end
\* (control-panel auth.go, Logout).
ForgottenOnlyWhenRevoked ==
  [][\A b \in Browsers :
       Working(jar[b].sso) /\ jar'[b].sso = NoToken =>
         \E t \in Tabs :
           /\ browser[t] = b /\ call[t] # Idle /\ call[t].url \in {"logout", "ssoLogout"}
           /\ call[t].sso # jar[b].sso /\ ~ Working(call[t].sso)]_vars

\* The last active administrator is lost only by the operation of someone who
\* was an administrator when it was checked, and only in two ways: aimed at
\* oneself, or overtaken by a second operation between check and write
\* (middleware.go, RequireAdminWithAuthenticator).
LastAdminOwnDoing ==
  [][ActiveAdministrators # {} /\ ActiveAdministrators' = {} =>
       \E x \in Calls :
         /\ call[x].stage = "checked" /\ call'[x].stage # "checked"
         /\ call[x].vouched
         /\ \/ call[x].op.user = session[call[x].sso].user
            \/ session[call[x].sso].user \notin ActiveAdministrators]_vars

\* However the sign-ins of several tabs with one cookie jar interleave, a tab
\* comes back to the application with the request it left with (the return_to
\* of auth.go, LoginPage, Login and LoginMFA).
LandsWhereStarted ==
  \A t \in Tabs : page[t].at = "app" => page[t].intent = t

\* Whoever is told to sign in to the panel gets somewhere by the link given
\* (control-panel handlers.go, renderSignInRequired).
SignInReachable ==
  \A t \in Tabs : page[t].at = "required" ~> page[t].at # "required"

-----------------------------------------------------------------------------
(* The inductive invariant behind the safety properties above.             *)

\* Cookies name sessions and challenges that were created: a token nobody has
\* yet is in no jar, no request and no answer.
CookiesIssued ==
  /\ \A b \in Browsers :
       jar[b].sso <= Len(session) /\ jar[b].mfa <= Len(challenge)
  /\ \A x \in Calls : call[x] # Idle =>
       /\ call[x].sso <= Len(session) /\ call[x].mfa <= Len(challenge)
       /\ call[x].answer.sso \in 0 .. Len(session) \cup {Keep}
       /\ call[x].answer.mfa \in 0 .. Len(challenge) \cup {Keep}

\* The pages an answer may redirect to.
Redirects == {"home", "signIn", "authorize", "ssoSignIn"}

\* A request has what its handler reads, and one that passed RequireAdmin is an
\* operation of someone who was an administrator.
RequestsMeant ==
  \A x \in Calls : call[x] # Idle =>
    /\ call[x].stage = "sent" /\ call[x].url \in {"login", "code", "ssoLogin", "ssoCode"}
         => call[x].user \in Users
    /\ call[x].url = "op" => call[x].op \in Operations
    /\ call[x].stage = "checked" => call[x].url = "op" /\ call[x].vouched
    /\ call[x].answer.go \in Redirects \cup {"stay"}

\* The pages, requests and answers of a sign-in carry the intent of their tab.
OwnIntents ==
  \A t \in Tabs :
    /\ page[t].at \in {"app", "ssoSignIn", "ssoCode"} => page[t].intent = t
    /\ call[t] # Idle =>
         /\ call[t].url \in {"authorize", "ssoLogin", "ssoCode"} => call[t].intent = t
         /\ call[t].url = "ssoSignIn" => call[t].intent \in {t, "settings"}
         /\ call[t].stage = "answered" =>
              /\ call[t].answer.show \in {"app", "ssoSignIn", "ssoCode"}
                   => call[t].intent = t
              /\ call[t].answer.go = "authorize" => NextIntent(call[t]) = t
              /\ call[t].answer.go = "ssoSignIn"
                   => NextIntent(call[t]) \in {t, "settings"}

\* Only a sign-out whose session is gone has an answer that clears the cookie.
ClearedAfterRevocation ==
  \A t \in Tabs :
    call[t] # Idle /\ call[t].stage = "answered" /\ call[t].answer.sso = NoToken =>
      call[t].url \in {"logout", "ssoLogout"} /\ ~ Working(call[t].sso)

PanelInv ==
  /\ TypeOK
  /\ CookiesIssued
  /\ RequestsMeant
  /\ OwnIntents
  /\ ClearedAfterRevocation
=============================================================================
