------------------------------- MODULE SignOn -------------------------------
(***************************************************************************)
(* Signing on to a relying application and being signed out again: the     *)
(* application's Login and Callback handlers use the Auth Provider's       *)
(* authorization codes (AuthorizationCodes), the Auth Provider revokes     *)
(* central sessions and stores events, and the events reach the            *)
(* applications as RevocationDelivery promises, which SyncWorker           *)
(* implements.                                                             *)
(*                                                                         *)
(* Callback is cut at its calls: the state store, /token, /userinfo and    *)
(* the insert of the local session.  Nothing links them, so a revocation   *)
(* may arrive at the application between any two.  Each flow has its own   *)
(* /token request: Requests is the set of flows.                           *)
(***************************************************************************)
EXTENDS AuthorizationCodes

CONSTANT FlowApp      \* the application of each sign-in flow

Flows == Requests

ASSUME FlowAppAssumption == FlowApp \in [Flows -> Apps]

VARIABLES
  state,      \* state[f]: the OAuth state: not put, stored, or consumed
  flowCode,   \* flowCode[f]: the code the browser brings back, or None
  callback,   \* callback[f]: where Callback stands
  local,      \* local[f]: the local session: none, active or revoked
  exposed,    \* history: flows whose profile was fetched and whose session
              \* was not stored when their application processed an event
  known,      \* history: known[f]: events processed when f's was stored
  endedBy,    \* history: endedBy[f]: the event that ended it, or None
  recorded, applied, closed, buried,   \* see RevocationDelivery
  resolved    \* <<e, T>>: ResolveTargets found the targets T for e

flowVars     == <<state, flowCode, callback>>
localVars    == <<local, exposed, known, endedBy>>
deliveryVars == <<recorded, applied, closed, buried, resolved>>
vars == <<sessionVars, codeVars, flowVars, localVars, deliveryVars>>

\* Events by what they name.  A session is revoked once; one policy event per
\* user and application bounds those.
SessionEvents == {"SessionRevoked", "PasswordChanged"} \X Sessions
PolicyEvents  == {"AccessPolicyChanged"} \X (Users \X Apps)
Events == SessionEvents \cup PolicyEvents

Delivery == INSTANCE RevocationDelivery

TypeOK ==
  /\ CodesTypeOK
  /\ state    \in [Flows -> {"none", "stored", "consumed"}]
  /\ flowCode \in [Flows -> Codes \cup {None}]
  /\ callback \in [Flows -> {"idle", "exchange", "profile", "create", "done"}]
  /\ local    \in [Flows -> {"none", "active", "revoked"}]
  /\ exposed  \in SUBSET Flows
  /\ known    \in [Flows -> SUBSET Events]
  /\ endedBy  \in [Flows -> Events \cup {None}]
  /\ recorded \in SUBSET Events
  /\ applied  \in [Events -> [Apps -> 0 .. 1]]
  /\ closed   \in SUBSET (Events \X SUBSET Apps)
  /\ buried   \in SUBSET Events
  /\ resolved \in SUBSET (Events \X SUBSET Apps)

Init ==
  /\ CodesInit
  /\ Delivery!Init
  /\ state    = [f \in Flows |-> "none"]
  /\ flowCode = [f \in Flows |-> None]
  /\ callback = [f \in Flows |-> "idle"]
  /\ local    = [f \in Flows |-> "none"]
  /\ exposed  = {}
  /\ known    = [f \in Flows |-> {}]
  /\ endedBy  = [f \in Flows |-> None]
  /\ resolved = {}

-----------------------------------------------------------------------------
(* The application's handlers.                                             *)

\* Login: the state and its PKCE verifier are put, the browser is redirected.
Login(f) ==
  /\ state[f] = "none"
  /\ state' = [state EXCEPT ![f] = "stored"]
  /\ UNCHANGED <<sessionVars, codeVars, flowCode, callback, localVars,
                 deliveryVars>>

\* The browser passes /authorize with a central session and a policy.
Authorized(f, k) ==
  /\ state[f] # "none" /\ flowCode[f] = None /\ AppOf(k) = FlowApp[f]
  /\ Authorize(k, TRUE)
  /\ flowCode' = [flowCode EXCEPT ![f] = k]
  /\ UNCHANGED <<state, callback, localVars, deliveryVars>>

\* The state expires, or the application restarts and its states are gone.
StateLost(f) ==
  /\ state[f] = "stored"
  /\ state' = [state EXCEPT ![f] = "consumed"]
  /\ UNCHANGED <<sessionVars, codeVars, flowCode, callback, localVars,
                 deliveryVars>>

\* Callback consumes the state; a replayed one finds no state and fails.
Callback(f) ==
  /\ flowCode[f] # None /\ state[f] = "stored" /\ callback[f] = "idle"
  /\ state' = [state EXCEPT ![f] = "consumed"]
  /\ callback' = [callback EXCEPT ![f] = "exchange"]
  /\ UNCHANGED <<sessionVars, codeVars, flowCode, localVars, deliveryVars>>

\* ExchangeCode: /token checks, then redeems.
ExchangeStarts(f) ==
  /\ callback[f] = "exchange"
  /\ TokenChecks(f, flowCode[f])
  /\ UNCHANGED <<flowVars, localVars, deliveryVars>>

\* /token answers; if Callback has given up meanwhile nobody listens.
ExchangeEnds(f) ==
  /\ Redeem(f)
  /\ callback' = [callback EXCEPT ![f] =
                    IF callback[f] = "exchange" /\ tokens' # tokens
                    THEN "profile" ELSE "done"]
  /\ UNCHANGED <<state, flowCode, localVars, deliveryVars>>

\* FetchProfile: /userinfo answers with the profile.
FetchProfile(f) ==
  /\ callback[f] = "profile"
  /\ UserInfoAnswers(flowCode[f])
  /\ callback' = [callback EXCEPT ![f] = "create"]
  /\ UNCHANGED <<sessionVars, codeVars, state, flowCode, localVars,
                 deliveryVars>>

\* CreateSession stores the local session, whatever happened since.
CreateLocalSession(f) ==
  /\ callback[f] = "create"
  /\ callback' = [callback EXCEPT ![f] = "done"]
  /\ local' = [local EXCEPT ![f] = "active"]
  /\ known' = [known EXCEPT ![f] =
                 {e \in Events : applied[e][FlowApp[f]] > 0}]
  /\ UNCHANGED <<sessionVars, codeVars, state, flowCode, exposed, endedBy,
                 deliveryVars>>

\* Any of the calls fails or times out: no session.  /token may still be at
\* work on a request that timed out.
CallbackFails(f) ==
  /\ callback[f] \in {"exchange", "profile", "create"}
  /\ callback' = [callback EXCEPT ![f] = "done"]
  /\ RedeemFails(f) \/ UNCHANGED <<sessionVars, codeVars>>
  /\ UNCHANGED <<state, flowCode, localVars, deliveryVars>>

\* Faulty variant (TypeOK): the row is deleted instead of revoked.
LocalLogout_Deleted(f) ==
  /\ local[f] = "active"
  /\ local' = [local EXCEPT ![f] = "deleted"]
  /\ UNCHANGED <<sessionVars, codeVars, flowVars, exposed, known, endedBy,
                 deliveryVars>>

\* Logout of the application: the local session only.
LocalLogout(f) ==
  /\ local[f] = "active"
  /\ local' = [local EXCEPT ![f] = "revoked"]
  /\ UNCHANGED <<sessionVars, codeVars, flowVars, exposed, known, endedBy,
                 deliveryVars>>

-----------------------------------------------------------------------------
(* The Auth Provider: sign-in and revocation, each one transaction.        *)

ActiveSessions(u) == {s \in Sessions : session[s] = "active" /\ Owner[s] = u}

\* The sessions of S are revoked and an event of the kind stored for each.
Revoke(S, kind) ==
  /\ session' = [s \in Sessions |-> IF s \in S THEN "revoked" ELSE session[s]]
  /\ recorded' = recorded \cup ({kind} \X S)
  /\ UNCHANGED <<codeVars, flowVars, localVars, applied, closed, buried,
                 resolved>>

\* A login checked before a deactivation may still store its session after it
\* (CentralSessions): the user's status is no guard here.
SignIn(s) ==
  /\ CreateSession(s)
  /\ UNCHANGED <<flowVars, localVars, deliveryVars>>

SSOLogout(s) ==
  /\ session[s] = "active"
  /\ Revoke({s}, "SessionRevoked")
  /\ UNCHANGED active

ChangePassword(u) ==
  /\ ActiveSessions(u) # {}
  /\ Revoke(ActiveSessions(u), "PasswordChanged")
  /\ UNCHANGED active

Deactivate(u) ==
  /\ active[u]
  /\ active' = [active EXCEPT ![u] = FALSE]
  /\ Revoke(ActiveSessions(u), "SessionRevoked")

Reactivate(u) ==
  /\ ~ active[u]
  /\ active' = [active EXCEPT ![u] = TRUE]
  /\ UNCHANGED <<session, codeVars, flowVars, localVars, deliveryVars>>

\* AccessPolicy: the last path of u to a is gone.
PolicyLost(u, a) ==
  LET e == <<"AccessPolicyChanged", <<u, a>>>> IN
  /\ e \notin recorded
  /\ recorded' = recorded \cup {e}
  /\ revoked' = revoked \cup {k \in Codes : UserOf(k) = u /\ AppOf(k) = a
                                            /\ tokens[k] > 0}
  /\ UNCHANGED <<sessionVars, code, request, tokens, flowVars, localVars,
                 applied, closed, buried, resolved>>

-----------------------------------------------------------------------------
(* Delivery.                                                               *)

\* Faulty variant (StrayWasExposed): revoked tokens name no target.
Targets_LiveOnly(e) ==
  IF e \in PolicyEvents THEN {e[2][2]}
  ELSE {a \in Apps :
          \E k \in Codes : SessionOf(k) = e[2] /\ AppOf(k) = a /\ Live(k)}

\* ResolveTargets: the application a policy event names, or every one with an
\* access_tokens row of the session, revoked or not.
Targets(e) ==
  IF e \in PolicyEvents THEN {e[2][2]}
  ELSE {a \in Apps :
          \E k \in Codes : SessionOf(k) = e[2] /\ AppOf(k) = a /\ tokens[k] > 0}

\* The local sessions an event revokes: those of the session SessionRevoked
\* names, all of the user's for the other kinds.
Hits(e, f) ==
  /\ flowCode[f] # None
  /\ CASE e[1] = "SessionRevoked"      -> SessionOf(flowCode[f]) = e[2]
       [] e[1] = "PasswordChanged"     -> UserOf(flowCode[f]) = Owner[e[2]]
       [] e[1] = "AccessPolicyChanged" -> UserOf(flowCode[f]) = e[2][1]

EndLocalSessions(e, a) ==
  LET hit == {f \in Flows : FlowApp[f] = a /\ Hits(e, f)}
      ended == {f \in hit : local[f] = "active"}
  IN /\ local' = [f \in Flows |-> IF f \in ended THEN "revoked" ELSE local[f]]
     /\ endedBy' = [f \in Flows |-> IF f \in ended THEN e ELSE endedBy[f]]
     /\ exposed' = exposed \cup {f \in hit : callback[f] = "create"}
     /\ UNCHANGED known

ResolveTargets(e) ==
  /\ e \in recorded
  /\ resolved' = resolved \cup {<<e, Targets(e)>>}
  /\ UNCHANGED <<sessionVars, codeVars, flowVars, localVars, recorded, applied,
                 closed, buried>>

\* A POST of the event to the application was sent.
Targeted(e, a) == \E r \in resolved : r[1] = e /\ a \in r[2]

\* Faulty variant (NoSecondRevocation): a known eventId revokes again.
ProcessRevocation_Again(e, a) ==
  /\ Targeted(e, a)
  /\ applied' = [applied EXCEPT ![e][a] = 1]
  /\ EndLocalSessions(e, a)
  /\ UNCHANGED <<sessionVars, codeVars, flowVars, recorded, closed, buried,
                 resolved>>

\* The transaction of the application at the first arrival of the event; a
\* second arrival changes nothing.
ProcessRevocation(e, a) ==
  /\ Targeted(e, a)
  /\ Delivery!Apply(e, a)
  /\ EndLocalSessions(e, a)
  /\ UNCHANGED <<sessionVars, codeVars, flowVars, resolved>>

\* The delivery is acknowledged or dead-lettered.
Settle(e) ==
  /\ \/ \E r \in resolved : r[1] = e /\ Delivery!Close(e, r[2])
     \/ Delivery!Bury(e)
  /\ UNCHANGED <<sessionVars, codeVars, flowVars, localVars, resolved>>

-----------------------------------------------------------------------------
FlowStep(f) ==
  \/ Login(f)
  \/ \E k \in Codes : Authorized(f, k)
  \/ StateLost(f)
  \/ Callback(f)
  \/ ExchangeStarts(f)
  \/ ExchangeEnds(f)
  \/ FetchProfile(f)
  \/ CreateLocalSession(f)
  \/ CallbackFails(f)
  \/ LocalLogout(f)

Revocation ==
  \/ \E s \in Sessions : SignIn(s) \/ SSOLogout(s)
  \/ \E u \in Users : \/ ChangePassword(u)
                      \/ Deactivate(u) \/ Reactivate(u)
                      \/ \E a \in Apps : PolicyLost(u, a)

DeliveryStep(e) ==
  \/ ResolveTargets(e)
  \/ \E a \in Apps : ProcessRevocation(e, a)
  \/ Settle(e)

Next ==
  \/ \E f \in Flows : FlowStep(f)
  \/ Revocation
  \/ \E e \in Events : DeliveryStep(e)

Spec == Init /\ [][Next]_vars

-----------------------------------------------------------------------------
(* Properties.                                                             *)

LocalOf(s) ==
  {f \in Flows : local[f] = "active" /\ SessionOf(flowCode[f]) = s}

\* Once the event of a revoked central session is acknowledged, a local
\* session of it is left by one race only: its callback had the profile
\* before the revocation and stored the session after the application had
\* processed the event.  No application with such a session is missed.
StrayWasExposed ==
  \A c \in closed :
    c[1] \in SessionEvents => LocalOf(c[1][2]) \subseteq exposed

\* README, "Logout dan Revocation": SSO logout revokes the central session, the
\* worker sends the event, the application revokes the local session.  So when
\* the event is acknowledged, no local session of it is active.
ClosedMeansSignedOut ==
  \A c \in closed : c[1] \in SessionEvents => LocalOf(c[1][2]) = {}

\* A redelivered event does not end a local session that was stored after the
\* application had processed it: a user who has signed in again stays so.
NoSecondRevocation == \A f \in Flows : endedBy[f] \notin known[f]
=============================================================================
