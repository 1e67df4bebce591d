---------------------------- MODULE SignOnProofs ----------------------------
(***************************************************************************)
(* What a revocation leaves behind at an application, for any number of    *)
(* users, applications, sessions and sign-in flows.                        *)
(***************************************************************************)
EXTENDS SignOn, AuthorizationCodesProofs

\* A flow works with the code it was given; it has a profile only by a token,
\* and a local session only once its callback is done.
FlowsGrounded ==
  \A f \in Flows :
    /\ flowCode[f] # None => AppOf(flowCode[f]) = FlowApp[f]
    /\ request[f] \in {None, flowCode[f]}
    /\ callback[f] # "idle" => flowCode[f] # None
    /\ callback[f] \in {"profile", "create"} \/ local[f] # "none" =>
         flowCode[f] # None /\ tokens[flowCode[f]] > 0
    /\ callback[f] # "done" => local[f] = "none" /\ endedBy[f] = None

\* Events are recorded with the revocation, resolved and applied after it, and
\* closed once their targets have applied them.
EventsKnown ==
  /\ \A e \in SessionEvents : e \in recorded => session[e[2]] = "revoked"
  /\ \A e \in Events, T \in SUBSET Apps : <<e, T>> \in resolved => e \in recorded
  /\ \A e \in Events, a \in Apps : applied[e][a] > 0 => e \in recorded
  /\ closed \subseteq resolved
  /\ \A e \in Events, T \in SUBSET Apps :
       <<e, T>> \in closed => \A a \in T : applied[e][a] = 1

\* The flow has, or is about to have, a local session of central session s.
Pending(f, s) ==
  /\ callback[f] = "create" \/ local[f] = "active"
  /\ SessionOf(flowCode[f]) = s

\* Every such flow of a revoked session is found by ResolveTargets, and exposed
\* once its application has processed the event.
FlowsReached ==
  \A e \in SessionEvents, f \in Flows :
    Pending(f, e[2]) =>
      /\ \A T \in SUBSET Apps : <<e, T>> \in resolved => FlowApp[f] \in T
      /\ applied[e][FlowApp[f]] > 0 => f \in exposed

\* What a local session knows was applied before, and what ended it was not.
EndsAreNew ==
  \A f \in Flows :
    /\ \A e \in known[f] : applied[e][FlowApp[f]] > 0
    /\ endedBy[f] \notin known[f]

SignOnInv ==
  /\ TypeOK
  /\ CodesCounted
  /\ FlowsGrounded
  /\ EventsKnown
  /\ FlowsReached
  /\ EndsAreNew

LEMMA NoneIsNoEvent == None \notin Events /\ None \notin Codes
BY DEF None, Events, SessionEvents, PolicyEvents, Codes

\* TypeOK in two halves: the codes, and what is the applications'.
FlowsTypeOK ==
  /\ state    \in [Flows -> {"none", "stored", "consumed"}]
  /\ flowCode \in [Flows -> Codes \cup {None}]
  /\ callback \in [Flows -> {"idle", "exchange", "profile", "create", "done"}]
  /\ local    \in [Flows -> {"none", "active", "revoked"}]
  /\ exposed  \in SUBSET Flows
  /\ known    \in [Flows -> SUBSET Events]
  /\ endedBy  \in [Flows -> Events \cup {None}]

DeliveryTypeOK ==
  /\ recorded \in SUBSET Events
  /\ applied  \in [Events -> [Apps -> 0 .. 1]]
  /\ closed   \in SUBSET (Events \X SUBSET Apps)
  /\ buried   \in SUBSET Events
  /\ resolved \in SUBSET (Events \X SUBSET Apps)

LEMMA Types == TypeOK <=> CodesTypeOK /\ FlowsTypeOK /\ DeliveryTypeOK
BY DEF TypeOK, FlowsTypeOK, DeliveryTypeOK

-----------------------------------------------------------------------------
(* The steps of a flow.                                                    *)

\* What every step of a flow leaves alone, and what it does to codes.
LEMMA FlowFrame ==
  ASSUME SignOnInv, NEW f \in Flows, FlowStep(f)
  PROVE  /\ UNCHANGED <<session, active, deliveryVars, revoked>>
         /\ CodesInv'
         /\ \A k \in Codes : tokens[k] <= tokens'[k]
<1> USE DEF Flows
<1>1. CodesInv
  BY DEF SignOnInv, TypeOK, CodesInv
<1>2. CodesStep \/ UNCHANGED <<sessionVars, codeVars>>
  <2>1. ASSUME NEW k \in Codes, Authorized(f, k) PROVE Authorize(k, TRUE)
    BY <2>1 DEF Authorized
  <2>2. CASE ExchangeStarts(f)
    <3>1. TokenChecks(f, flowCode[f]) /\ flowCode[f] # None
      BY <2>2 DEF ExchangeStarts, SignOnInv, FlowsGrounded
    <3>2. flowCode[f] \in Codes
      BY <3>1 DEF SignOnInv, TypeOK
    <3> QED
      BY <3>1, <3>2 DEF CodesStep
  <2>3. ASSUME ExchangeEnds(f) \/ CallbackFails(f)
        PROVE  Redeem(f) \/ RedeemFails(f) \/ UNCHANGED <<sessionVars, codeVars>>
    BY <2>3 DEF ExchangeEnds, CallbackFails
  <2> QED
    BY <2>1, <2>2, <2>3
    DEF FlowStep, Login, StateLost, Callback, FetchProfile, CreateLocalSession,
        LocalLogout, CodesStep
<1>3. UNCHANGED <<session, active, deliveryVars>>
  BY DEF FlowStep, Login, Authorized, Authorize, StateLost, Callback,
         ExchangeStarts, TokenChecks, ExchangeEnds, Redeem, FetchProfile,
         CreateLocalSession, CallbackFails, RedeemFails, LocalLogout,
         sessionVars, codeVars
<1>4. CASE CodesStep
  BY <1>1, <1>3, <1>4, CodesSteps
<1>5. CASE UNCHANGED <<sessionVars, codeVars>>
  BY <1>1, <1>3, <1>5
  DEF sessionVars, codeVars, CodesInv, CodesTypeOK, CodesCounted
<1> QED
  BY <1>2, <1>4, <1>5, <1>3

LEMMA FlowTypes ==
  ASSUME SignOnInv, NEW f \in Flows, FlowStep(f)
  PROVE  TypeOK'
<1>1. FlowsTypeOK /\ DeliveryTypeOK
  BY Types DEF SignOnInv
<1>2. DeliveryTypeOK'
  BY <1>1, FlowFrame DEF deliveryVars, DeliveryTypeOK
<1>3. CodesTypeOK'
  BY FlowFrame DEF CodesInv
<1>4. FlowsTypeOK'
  <2> USE <1>1 DEF FlowsTypeOK, localVars
  <2>1. CASE Login(f)
    BY <2>1 DEF Login
  <2>2. ASSUME NEW k \in Codes, Authorized(f, k) PROVE FlowsTypeOK'
    BY <2>2 DEF Authorized
  <2>3. CASE StateLost(f) \/ Callback(f)
    BY <2>3 DEF StateLost, Callback
  <2>4. CASE ExchangeStarts(f)
    BY <2>4 DEF ExchangeStarts, flowVars
  <2>5. CASE ExchangeEnds(f)
    BY <2>5 DEF ExchangeEnds
  <2>6. CASE FetchProfile(f) \/ CallbackFails(f)
    BY <2>6 DEF FetchProfile, CallbackFails
  <2>7. CASE CreateLocalSession(f)
    BY <2>7 DEF CreateLocalSession
  <2>8. CASE LocalLogout(f)
    BY <2>8 DEF LocalLogout, flowVars
  <2> QED
    BY <2>1, <2>2, <2>3, <2>4, <2>5, <2>6, <2>7, <2>8 DEF FlowStep
<1> QED
  BY <1>2, <1>3, <1>4 DEF TypeOK, FlowsTypeOK, DeliveryTypeOK

\* The other flows are not touched.
LEMMA OtherFlows ==
  ASSUME SignOnInv, NEW f \in Flows, FlowStep(f)
  PROVE  /\ exposed' = exposed
         /\ \A g \in Flows \ {f} :
              /\ flowCode'[g] = flowCode[g] /\ callback'[g] = callback[g]
              /\ local'[g] = local[g] /\ known'[g] = known[g]
              /\ endedBy'[g] = endedBy[g] /\ request'[g] = request[g]
<1>1. FlowsTypeOK /\ CodesTypeOK
  BY Types DEF SignOnInv
<1> USE <1>1 DEF FlowsTypeOK, CodesTypeOK, Flows, localVars
<1>2. CASE Login(f)
  BY <1>2 DEF Login, codeVars
<1>3. ASSUME NEW k \in Codes, Authorized(f, k)
      PROVE  /\ exposed' = exposed
             /\ \A g \in Flows \ {f} :
                  /\ flowCode'[g] = flowCode[g] /\ callback'[g] = callback[g]
                  /\ local'[g] = local[g] /\ known'[g] = known[g]
                  /\ endedBy'[g] = endedBy[g] /\ request'[g] = request[g]
  BY <1>3 DEF Authorized, Authorize
<1>4. CASE StateLost(f) \/ Callback(f)
  BY <1>4 DEF StateLost, Callback, codeVars
<1>5. CASE ExchangeStarts(f)
  BY <1>5 DEF ExchangeStarts, TokenChecks, flowVars
<1>6. CASE ExchangeEnds(f)
  BY <1>6 DEF ExchangeEnds, Redeem
<1>7. CASE FetchProfile(f) \/ CallbackFails(f)
  BY <1>7 DEF FetchProfile, CallbackFails, RedeemFails, codeVars
<1>8. CASE CreateLocalSession(f)
  BY <1>8 DEF CreateLocalSession, codeVars
<1>9. CASE LocalLogout(f)
  BY <1>9 DEF LocalLogout, flowVars, codeVars
<1> QED
  BY <1>2, <1>3, <1>4, <1>5, <1>6, <1>7, <1>8, <1>9 DEF FlowStep

\* What one step does to its own flow, in the terms of the invariant.
LEMMA OwnFlow ==
  ASSUME SignOnInv, NEW f \in Flows, FlowStep(f)
  PROVE  /\ flowCode'[f] # None => AppOf(flowCode'[f]) = FlowApp[f]
         /\ request'[f] \in {None, flowCode'[f]}
         /\ callback'[f] # "idle" => flowCode'[f] # None
         /\ callback'[f] \in {"profile", "create"} \/ local'[f] # "none" =>
              flowCode'[f] # None /\ tokens'[flowCode'[f]] > 0
         /\ callback'[f] # "done" => local'[f] = "none" /\ endedBy'[f] = None
<1>1. FlowsTypeOK /\ CodesTypeOK /\ CodesTypeOK'
  BY Types, FlowFrame DEF SignOnInv, CodesInv
<1>2. /\ flowCode[f] # None => AppOf(flowCode[f]) = FlowApp[f]
      /\ request[f] \in {None, flowCode[f]}
      /\ callback[f] # "idle" => flowCode[f] # None
      /\ callback[f] \in {"profile", "create"} \/ local[f] # "none" =>
           flowCode[f] # None /\ tokens[flowCode[f]] > 0
      /\ callback[f] # "done" => local[f] = "none" /\ endedBy[f] = None
  BY DEF SignOnInv, FlowsGrounded
<1>3. \A k \in Codes : tokens[k] > 0 => tokens'[k] > 0
  BY <1>1, FlowFrame DEF CodesTypeOK
<1>4. flowCode[f] \in Codes \cup {None} /\ None \notin Codes
  BY <1>1, NoneIsNoEvent DEF FlowsTypeOK
<1> USE <1>1 DEF FlowsTypeOK, Flows, localVars
<1>5. CASE Login(f) \/ StateLost(f) \/ LocalLogout(f)
  <2>1. /\ UNCHANGED <<flowCode, callback, tokens, request, endedBy>>
        /\ local'[f] # "none" => local[f] # "none"
        /\ local[f] = "none" => local'[f] = "none"
    BY <1>5 DEF Login, StateLost, LocalLogout, flowVars, codeVars
  <2> QED
    BY <1>2, <2>1
<1>6. ASSUME NEW k \in Codes, Authorized(f, k)
      PROVE  flowCode'[f] = k /\ AppOf(k) = FlowApp[f] /\ flowCode[f] = None
             /\ request'[f] = request[f] /\ callback'[f] = callback[f]
             /\ local'[f] = local[f] /\ endedBy'[f] = endedBy[f]
  BY <1>6 DEF Authorized, Authorize
<1>7. CASE Callback(f)
  <2>1. /\ UNCHANGED <<flowCode, tokens, request, endedBy, local>>
        /\ callback[f] = "idle" /\ callback'[f] = "exchange" /\ flowCode[f] # None
    BY <1>7 DEF Callback, codeVars
  <2> QED
    BY <1>2, <2>1
<1>8. CASE ExchangeStarts(f)
  <2>1. /\ UNCHANGED <<flowCode, callback, tokens, endedBy, local>>
        /\ request'[f] = flowCode[f]
    BY <1>8 DEF ExchangeStarts, TokenChecks, flowVars, CodesTypeOK
  <2> QED
    BY <1>2, <2>1
<1>9. CASE ExchangeEnds(f)
  <2>1. /\ UNCHANGED <<flowCode, endedBy, local>> /\ request'[f] = None
        /\ request[f] # None
    BY <1>9 DEF ExchangeEnds, Redeem, CodesTypeOK
  <2>2. request[f] = flowCode[f]
    BY <1>2, <2>1
  <2>3. tokens' # tokens => tokens'[flowCode[f]] > 0
    BY <1>4, <1>9, <2>1, <2>2 DEF ExchangeEnds, Redeem, CodesTypeOK
  <2>4. callback'[f] = IF callback[f] = "exchange" /\ tokens' # tokens
                       THEN "profile" ELSE "done"
    BY <1>9 DEF ExchangeEnds
  <2>5. CASE callback[f] = "exchange" /\ tokens' # tokens
    BY <1>2, <2>1, <2>2, <2>3, <2>4, <2>5
  <2>6. CASE ~(callback[f] = "exchange" /\ tokens' # tokens)
    BY <1>2, <1>3, <1>4, <2>1, <2>2, <2>4, <2>6
  <2> QED
    BY <2>5, <2>6
<1>10. CASE FetchProfile(f)
  <2>1. /\ UNCHANGED <<flowCode, tokens, request, endedBy, local>>
        /\ callback[f] = "profile" /\ callback'[f] = "create"
    BY <1>10 DEF FetchProfile, codeVars
  <2> QED
    BY <1>2, <2>1
<1>11. CASE CreateLocalSession(f)
  <2>1. /\ UNCHANGED <<flowCode, tokens, request, endedBy>>
        /\ callback[f] = "create" /\ callback'[f] = "done"
    BY <1>11 DEF CreateLocalSession, codeVars
  <2> QED
    BY <1>2, <2>1
<1>12. CASE CallbackFails(f)
  <2>1. /\ UNCHANGED <<flowCode, tokens, endedBy, local>>
        /\ callback[f] # "idle" /\ callback'[f] = "done"
        /\ request'[f] \in {None, request[f]}
    BY <1>12 DEF CallbackFails, RedeemFails, codeVars, CodesTypeOK
  <2> QED
    BY <1>2, <2>1
<1>13. ASSUME NEW k \in Codes, Authorized(f, k)
       PROVE  /\ flowCode'[f] # None => AppOf(flowCode'[f]) = FlowApp[f]
              /\ request'[f] \in {None, flowCode'[f]}
              /\ callback'[f] # "idle" => flowCode'[f] # None
              /\ callback'[f] \in {"profile", "create"} \/ local'[f] # "none" =>
                   flowCode'[f] # None /\ tokens'[flowCode'[f]] > 0
              /\ callback'[f] # "done" => local'[f] = "none" /\ endedBy'[f] = None
  BY <1>2, <1>4, <1>6, <1>13
<1> QED
  BY <1>5, <1>7, <1>8, <1>9, <1>10, <1>11, <1>12, <1>13 DEF FlowStep

\* A flow comes to need revoking by the profile of a session still active.
LEMMA PendingSince ==
  ASSUME SignOnInv, NEW f \in Flows, FlowStep(f), NEW s, Pending(f, s)'
  PROVE  Pending(f, s) \/ session[s] = "active"
<1>1. FlowsTypeOK /\ FlowsGrounded
  BY Types DEF SignOnInv
<1> USE <1>1 DEF FlowsTypeOK, Flows, localVars, Pending
<1>2. ASSUME NEW k \in Codes, Authorized(f, k) PROVE FALSE
  BY <1>2 DEF Authorized, FlowsGrounded
<1>3. CASE Login(f) \/ StateLost(f) \/ LocalLogout(f)
  BY <1>3 DEF Login, StateLost, LocalLogout, flowVars
<1>4. CASE Callback(f) \/ CallbackFails(f) \/ ExchangeEnds(f)
  BY <1>4 DEF Callback, CallbackFails, ExchangeEnds
<1>5. CASE ExchangeStarts(f)
  BY <1>5 DEF ExchangeStarts, flowVars
<1>6. CASE FetchProfile(f)
  BY <1>6 DEF FetchProfile, UserInfoAnswers, Valid
<1>7. CASE CreateLocalSession(f)
  BY <1>7 DEF CreateLocalSession
<1> QED
  BY <1>2, <1>3, <1>4, <1>5, <1>6, <1>7 DEF FlowStep

LEMMA FlowSteps ==
  ASSUME SignOnInv, NEW f \in Flows, FlowStep(f)
  PROVE  SignOnInv'
<1>1. /\ UNCHANGED <<session, recorded, applied, closed, resolved>>
      /\ \A k \in Codes : tokens[k] <= tokens'[k]
      /\ CodesTypeOK /\ CodesTypeOK' /\ CodesCounted' /\ FlowsTypeOK /\ TypeOK'
  BY FlowFrame, FlowTypes, Types DEF deliveryVars, CodesInv, SignOnInv
<1>2. EventsKnown'
  BY <1>1 DEF SignOnInv, EventsKnown
<1>3. FlowsGrounded'
  <2>1. ASSUME NEW g \in Flows \ {f}
        PROVE  /\ flowCode'[g] # None => AppOf(flowCode'[g]) = FlowApp[g]
               /\ request'[g] \in {None, flowCode'[g]}
               /\ callback'[g] # "idle" => flowCode'[g] # None
               /\ callback'[g] \in {"profile", "create"} \/ local'[g] # "none" =>
                    flowCode'[g] # None /\ tokens'[flowCode'[g]] > 0
               /\ callback'[g] # "done" => local'[g] = "none" /\ endedBy'[g] = None
    <3>1. flowCode[g] # None => flowCode[g] \in Codes
      BY <1>1 DEF FlowsTypeOK
    <3>2. flowCode[g] # None /\ tokens[flowCode[g]] > 0 => tokens'[flowCode[g]] > 0
      BY <1>1, <3>1 DEF CodesTypeOK
    <3> QED
      BY <3>2, OtherFlows DEF SignOnInv, FlowsGrounded
  <2> QED
    BY <2>1, OwnFlow DEF FlowsGrounded
<1>4. FlowsReached'
  <2> SUFFICES ASSUME NEW e \in SessionEvents, NEW g \in Flows,
                      Pending(g, e[2])'
               PROVE  /\ \A T \in SUBSET Apps : <<e, T>> \in resolved => FlowApp[g] \in T
                      /\ applied[e][FlowApp[g]] > 0 => g \in exposed
    BY <1>1, OtherFlows DEF FlowsReached
  <2>1. Pending(g, e[2]) \/ session[e[2]] = "active"
    BY PendingSince, OtherFlows DEF Pending
  <2>2. e \in Events /\ FlowApp[g] \in Apps
    BY FlowAppAssumption DEF Events
  <2>3. CASE session[e[2]] = "active"
    <3>1. e \notin recorded
      BY <2>3 DEF SignOnInv, EventsKnown
    <3> QED
      BY <2>2, <3>1 DEF SignOnInv, EventsKnown
  <2> QED
    BY <2>1, <2>3 DEF SignOnInv, FlowsReached
<1>5. EndsAreNew'
  <2>1. \/ known'[f] = known[f] /\ endedBy'[f] = endedBy[f]
        \/ /\ known'[f] = {e \in Events : applied[e][FlowApp[f]] > 0}
           /\ endedBy'[f] = None
    <3>1. CASE CreateLocalSession(f)
      BY <1>1, <3>1 DEF CreateLocalSession, FlowsTypeOK, SignOnInv, FlowsGrounded
    <3>2. CASE ~CreateLocalSession(f)
      BY <3>2
      DEF FlowStep, Login, Authorized, StateLost, Callback, ExchangeStarts,
          ExchangeEnds, FetchProfile, CallbackFails, LocalLogout, localVars
    <3> QED
      BY <3>1, <3>2
  <2> QED
    BY <1>1, <2>1, OtherFlows, NoneIsNoEvent DEF SignOnInv, EndsAreNew
<1> QED
  BY <1>1, <1>2, <1>3, <1>4, <1>5 DEF SignOnInv

-----------------------------------------------------------------------------
(* The steps of the Auth Provider.                                         *)

\* Sessions are revoked with their events; flows are not touched.
LEMMA ProviderFrame ==
  ASSUME SignOnInv, Revocation
  PROVE  /\ UNCHANGED <<tokens, code, request, flowVars, localVars, applied,
                        closed, buried, resolved>>
         /\ CodesTypeOK' /\ recorded \subseteq recorded' /\ recorded' \subseteq Events
         /\ \A e \in SessionEvents :
              e \in recorded' => session'[e[2]] = "revoked"
<1>1. CodesTypeOK /\ DeliveryTypeOK
  BY Types DEF SignOnInv
<1>2. \A e \in SessionEvents : e \in recorded => session[e[2]] = "revoked"
  BY DEF SignOnInv, EventsKnown
<1> USE <1>1 DEF CodesTypeOK, DeliveryTypeOK, codeVars
<1>3. ASSUME NEW S \in SUBSET Sessions,
             NEW kind \in {"SessionRevoked", "PasswordChanged"},
             Revoke(S, kind), active' \in [Users -> BOOLEAN]
      PROVE  /\ UNCHANGED <<tokens, code, request, flowVars, localVars, applied,
                            closed, buried, resolved>>
             /\ CodesTypeOK' /\ recorded \subseteq recorded' /\ recorded' \subseteq Events
             /\ \A e \in SessionEvents :
                  e \in recorded' => session'[e[2]] = "revoked"
  <2>1. {kind} \X S \subseteq SessionEvents /\ SessionEvents \subseteq Events
    BY DEF SessionEvents, Events
  <2>2. \A e \in SessionEvents : e[2] \in Sessions
    BY DEF SessionEvents
  <2>3. \A e \in {kind} \X S : e[2] \in S
    OBVIOUS
  <2>4. /\ session' = [s \in Sessions |-> IF s \in S THEN "revoked" ELSE session[s]]
        /\ recorded' = recorded \cup ({kind} \X S)
        /\ UNCHANGED <<codeVars, flowVars, localVars, applied, closed, buried,
                       resolved>>
    BY <1>3 DEF Revoke
  <2>5. CodesTypeOK'
    BY <1>3, <2>4
  <2>6. \A e \in SessionEvents : e \in recorded' => session'[e[2]] = "revoked"
    BY <1>2, <2>2, <2>3, <2>4
  <2> QED
    BY <2>1, <2>4, <2>5, <2>6
<1>4. \A u \in Users : ActiveSessions(u) \subseteq Sessions
  BY DEF ActiveSessions
<1>5. ASSUME NEW s \in Sessions, SSOLogout(s)
      PROVE  Revoke({s}, "SessionRevoked") /\ active' \in [Users -> BOOLEAN]
  BY <1>5 DEF SSOLogout
<1>6. ASSUME NEW u \in Users, ChangePassword(u)
      PROVE  Revoke(ActiveSessions(u), "PasswordChanged")
             /\ active' \in [Users -> BOOLEAN]
  BY <1>6 DEF ChangePassword
<1>7. ASSUME NEW u \in Users, Deactivate(u)
      PROVE  Revoke(ActiveSessions(u), "SessionRevoked")
             /\ active' \in [Users -> BOOLEAN]
  BY <1>7 DEF Deactivate
<1>8. ASSUME NEW s \in Sessions, SignIn(s)
      PROVE  /\ UNCHANGED <<tokens, code, request, flowVars, localVars, applied,
                            closed, buried, resolved, recorded>>
             /\ CodesTypeOK'
             /\ \A e \in SessionEvents :
                  e \in recorded => session'[e[2]] = "revoked"
  BY <1>2, <1>8 DEF SignIn, CreateSession, deliveryVars, SessionEvents
<1>9. ASSUME NEW u \in Users, Reactivate(u)
      PROVE  /\ UNCHANGED <<tokens, code, request, flowVars, localVars, applied,
                            closed, buried, resolved, recorded, session>>
             /\ CodesTypeOK'
  BY <1>9 DEF Reactivate, deliveryVars
<1>10. ASSUME NEW u \in Users, NEW a \in Apps, PolicyLost(u, a)
       PROVE  /\ UNCHANGED <<tokens, code, request, flowVars, localVars, applied,
                             closed, buried, resolved, session>>
              /\ CodesTypeOK' /\ recorded \subseteq recorded' /\ recorded' \subseteq Events
              /\ \A e \in SessionEvents : e \in recorded' => e \in recorded
  <2>1. <<"AccessPolicyChanged", <<u, a>>>> \in Events
        /\ <<"AccessPolicyChanged", <<u, a>>>> \notin SessionEvents
    BY DEF Events, PolicyEvents, SessionEvents
  <2> QED
    BY <1>10, <2>1 DEF PolicyLost, sessionVars
<1> QED
  BY <1>1, <1>2, <1>3, <1>4, <1>5, <1>6, <1>7, <1>8, <1>9, <1>10 DEF Revocation

LEMMA ProviderSteps ==
  ASSUME SignOnInv, Revocation
  PROVE  SignOnInv'
<1>1. /\ UNCHANGED <<tokens, code, request, state, flowCode, callback, local,
                     exposed, known, endedBy, applied, closed, buried, resolved>>
      /\ CodesTypeOK' /\ recorded \subseteq recorded' /\ recorded' \subseteq Events
      /\ \A e \in SessionEvents : e \in recorded' => session'[e[2]] = "revoked"
  BY ProviderFrame DEF flowVars, localVars
<1>2. FlowsTypeOK /\ DeliveryTypeOK
  BY Types DEF SignOnInv
<1>3. TypeOK'
  BY <1>1, <1>2 DEF TypeOK, FlowsTypeOK, DeliveryTypeOK
<1>4. CodesCounted' /\ FlowsGrounded'
  BY <1>1 DEF SignOnInv, CodesCounted, FlowsGrounded
<1>5. EventsKnown'
  BY <1>1 DEF SignOnInv, EventsKnown
<1>6. FlowsReached' /\ EndsAreNew'
  BY <1>1 DEF SignOnInv, FlowsReached, Pending, EndsAreNew
<1> QED
  BY <1>3, <1>4, <1>5, <1>6 DEF SignOnInv

-----------------------------------------------------------------------------
(* The steps of the delivery.                                              *)

\* ResolveTargets misses no application with a flow of the session: such a flow
\* has a token.
LEMMA TargetsCover ==
  ASSUME SignOnInv, NEW e \in SessionEvents, NEW f \in Flows, Pending(f, e[2])
  PROVE  FlowApp[f] \in Targets(e)
<1>1. flowCode[f] \in Codes /\ tokens[flowCode[f]] > 0
      /\ AppOf(flowCode[f]) = FlowApp[f]
  BY DEF SignOnInv, TypeOK, FlowsGrounded, Pending
<1>2. e \notin PolicyEvents
  BY DEF SessionEvents, PolicyEvents
<1> QED
  BY <1>1, <1>2, FlowAppAssumption DEF Targets, Pending

LEMMA ResolveSteps ==
  ASSUME SignOnInv, NEW e \in Events, ResolveTargets(e)
  PROVE  SignOnInv'
<1>1. /\ UNCHANGED <<session, active, code, request, tokens, revoked, state,
                     flowCode, callback, local, exposed, known, endedBy,
                     recorded, applied, closed, buried>>
      /\ e \in recorded /\ resolved' = resolved \cup {<<e, Targets(e)>>}
  BY DEF ResolveTargets, sessionVars, codeVars, flowVars, localVars
<1>2. Targets(e) \in SUBSET Apps
  BY DEF Targets, PolicyEvents
<1>3. TypeOK'
  BY <1>1, <1>2 DEF SignOnInv, TypeOK, CodesTypeOK
<1>4. CodesCounted' /\ FlowsGrounded' /\ EndsAreNew'
  BY <1>1 DEF SignOnInv, CodesCounted, FlowsGrounded, EndsAreNew
<1>5. EventsKnown'
  BY <1>1 DEF SignOnInv, EventsKnown
<1>6. FlowsReached'
  BY <1>1, TargetsCover DEF SignOnInv, FlowsReached, Pending
<1> QED
  BY <1>3, <1>4, <1>5, <1>6 DEF SignOnInv

\* The first arrival of an event at an application: what it ends was not known
\* to be applied, and what it finds at its last call is exposed.
LEMMA ArrivalSteps ==
  ASSUME SignOnInv, NEW e \in Events, NEW a \in Apps, ProcessRevocation(e, a)
  PROVE  SignOnInv'
<1> DEFINE hit == {f \in Flows : FlowApp[f] = a /\ Hits(e, f)}
           ended == {f \in hit : local[f] = "active"}
<1>1. /\ UNCHANGED <<session, active, code, request, tokens, revoked, state,
                     flowCode, callback, known, recorded, closed, buried, resolved>>
      /\ e \in recorded /\ applied[e][a] = 0
      /\ applied' = [applied EXCEPT ![e][a] = 1]
      /\ local' = [f \in Flows |-> IF f \in ended THEN "revoked" ELSE local[f]]
      /\ endedBy' = [f \in Flows |-> IF f \in ended THEN e ELSE endedBy[f]]
      /\ exposed' = exposed \cup {f \in hit : callback[f] = "create"}
  BY DEF ProcessRevocation, Delivery!Apply, EndLocalSessions, sessionVars,
         codeVars, flowVars
<1>2. FlowsTypeOK /\ DeliveryTypeOK /\ CodesTypeOK
  BY Types DEF SignOnInv
<1>3. \A d \in Events, b \in Apps :
        applied'[d][b] = IF d = e /\ b = a THEN 1 ELSE applied[d][b]
  BY <1>1, <1>2 DEF DeliveryTypeOK
<1>4. \A f \in ended : f \in Flows /\ FlowApp[f] = a /\ local[f] = "active"
  OBVIOUS
<1>5. hit \subseteq Flows /\ (\A f \in hit : FlowApp[f] = a /\ Hits(e, f))
      /\ \A f \in Flows : FlowApp[f] = a /\ Hits(e, f) => f \in hit
  OBVIOUS
<1>6. \A f \in hit : local[f] = "active" => f \in ended
  OBVIOUS
<1> HIDE DEF hit, ended
<1>7. TypeOK'
  <2>1. FlowsTypeOK'
    BY <1>1, <1>2, <1>5 DEF FlowsTypeOK
  <2>2. applied' \in [Events -> [Apps -> 0 .. 1]]
    BY <1>1, <1>2 DEF DeliveryTypeOK
  <2>3. DeliveryTypeOK' /\ CodesTypeOK'
    BY <1>1, <1>2, <2>2 DEF DeliveryTypeOK, CodesTypeOK
  <2> QED
    BY <2>1, <2>3 DEF TypeOK, FlowsTypeOK, DeliveryTypeOK
<1>8. CodesCounted'
  BY <1>1 DEF SignOnInv, CodesCounted
<1>9. FlowsGrounded'
  <2>1. \A f \in Flows : /\ local'[f] # "none" => local[f] # "none"
                         /\ local[f] = "none" =>
                              local'[f] = "none" /\ endedBy'[f] = endedBy[f]
    BY <1>1, <1>4
  <2> QED
    BY <1>1, <2>1 DEF SignOnInv, FlowsGrounded
<1>10. EventsKnown'
  <2>1. \A d \in Events, b \in Apps : applied'[d][b] > 0 => d \in recorded
    BY <1>1, <1>3 DEF SignOnInv, EventsKnown
  <2>2. \A d \in Events, b \in Apps : applied[d][b] = 1 => applied'[d][b] = 1
    BY <1>3
  <2>3. \A d \in Events, T \in SUBSET Apps :
          <<d, T>> \in closed => \A b \in T : applied'[d][b] = 1
    BY <2>2 DEF SignOnInv, EventsKnown
  <2> QED
    BY <1>1, <2>1, <2>3 DEF SignOnInv, EventsKnown
<1>11. FlowsReached'
  <2> SUFFICES ASSUME NEW d \in SessionEvents, NEW f \in Flows, Pending(f, d[2])'
               PROVE  /\ \A T \in SUBSET Apps : <<d, T>> \in resolved => FlowApp[f] \in T
                      /\ applied'[d][FlowApp[f]] > 0 => f \in exposed'
    BY <1>1 DEF FlowsReached
  <2>1. d \in Events /\ FlowApp[f] \in Apps
    BY FlowAppAssumption DEF Events
  <2>2. Pending(f, d[2]) /\ (callback[f] = "create" \/ f \notin ended)
    BY <1>1, <1>4 DEF Pending
  <2>3. CASE d = e /\ FlowApp[f] = a
    <3>1. flowCode[f] # None /\ SessionOf(flowCode[f]) = e[2]
      BY <2>2, <2>3 DEF Pending, SignOnInv, FlowsGrounded
    <3>2. e[1] = "SessionRevoked" \/ e[1] = "PasswordChanged"
      BY <2>3 DEF SessionEvents
    <3>3. Hits(e, f)
      <4>1. UserOf(flowCode[f]) = Owner[e[2]]
        BY <3>1 DEF UserOf, SessionOf
      <4>2. CASE e[1] = "SessionRevoked"
        BY <3>1, <4>2, Zenon DEF Hits
      <4>3. CASE e[1] = "PasswordChanged"
        <5>1. e[1] # "SessionRevoked" /\ e[1] # "AccessPolicyChanged"
          BY <4>3
        <5> QED
          BY <3>1, <4>1, <4>3, <5>1, Zenon DEF Hits
      <4> QED
        BY <3>2, <4>2, <4>3
    <3>4. callback[f] = "create"
      BY <1>5, <1>6, <2>2, <2>3, <3>3 DEF Pending
    <3> QED
      BY <1>1, <1>5, <2>2, <2>3, <3>3, <3>4 DEF SignOnInv, FlowsReached
  <2>4. CASE ~(d = e /\ FlowApp[f] = a)
    BY <1>1, <1>3, <2>1, <2>2, <2>4 DEF SignOnInv, FlowsReached
  <2> QED
    BY <2>3, <2>4
<1>12. EndsAreNew'
  <2>1. ASSUME NEW f \in Flows, NEW d \in known[f]
        PROVE  applied'[d][FlowApp[f]] > 0
    <3>1. d \in Events /\ applied[d][FlowApp[f]] > 0
      BY <1>2 DEF FlowsTypeOK, SignOnInv, EndsAreNew
    <3> QED
      BY <1>3, <3>1, FlowAppAssumption
  <2>2. ASSUME NEW f \in Flows
        PROVE  endedBy'[f] \notin known[f]
    <3>1. CASE f \in ended
      BY <1>1, <1>4, <3>1 DEF SignOnInv, EndsAreNew
    <3>2. CASE f \notin ended
      BY <1>1, <3>2 DEF SignOnInv, EndsAreNew
    <3> QED
      BY <3>1, <3>2
  <2> QED
    BY <1>1, <2>1, <2>2 DEF EndsAreNew
<1> QED
  BY <1>7, <1>8, <1>9, <1>10, <1>11, <1>12 DEF SignOnInv

LEMMA SettleSteps ==
  ASSUME SignOnInv, NEW e \in Events, Settle(e)
  PROVE  SignOnInv'
<1>1. /\ UNCHANGED <<session, active, code, request, tokens, revoked, state,
                     flowCode, callback, local, exposed, known, endedBy,
                     recorded, applied, resolved>>
      /\ \/ closed' = closed
         \/ \E r \in resolved :
              /\ r[1] = e /\ closed' = closed \cup {<<e, r[2]>>}
              /\ \A a \in r[2] : applied[e][a] = 1
      /\ buried' = buried \/ buried' = buried \cup {e}
  BY DEF Settle, Delivery!Close, Delivery!Bury, sessionVars, codeVars, flowVars,
         localVars
<1>2. resolved \in SUBSET (Events \X SUBSET Apps)
  BY DEF SignOnInv, TypeOK
<1>3. \A r \in resolved : r[1] = e => <<e, r[2]>> = r
  BY <1>2
<1>4. closed' \subseteq resolved
  BY <1>1, <1>3 DEF SignOnInv, EventsKnown
<1>5. TypeOK'
  BY <1>1, <1>2, <1>4 DEF SignOnInv, TypeOK, CodesTypeOK
<1>6. CodesCounted' /\ FlowsGrounded' /\ FlowsReached' /\ EndsAreNew'
  BY <1>1 DEF SignOnInv, CodesCounted, FlowsGrounded, FlowsReached, Pending,
              EndsAreNew
<1>7. EventsKnown'
  <2>1. ASSUME NEW d \in Events, NEW T \in SUBSET Apps, <<d, T>> \in closed'
        PROVE  \A a \in T : applied[d][a] = 1
    <3>1. CASE <<d, T>> \in closed
      BY <3>1 DEF SignOnInv, EventsKnown
    <3>2. CASE <<d, T>> \notin closed
      BY <1>1, <2>1, <3>2
    <3> QED
      BY <3>1, <3>2
  <2> QED
    BY <1>1, <1>4, <2>1 DEF SignOnInv, EventsKnown
<1> QED
  BY <1>5, <1>6, <1>7 DEF SignOnInv

-----------------------------------------------------------------------------
(* The theorems.                                                           *)

LEMMA InvInitially == Init => SignOnInv
<1> SUFFICES ASSUME Init PROVE SignOnInv
  OBVIOUS
<1>1. CodesTypeOK /\ CodesCounted
  BY CodesInitially DEF Init, CodesInv
<1>2. /\ \A f \in Flows : /\ flowCode[f] = None /\ callback[f] = "idle"
                          /\ local[f] = "none" /\ known[f] = {}
                          /\ endedBy[f] = None /\ request[f] = None
      /\ exposed = {} /\ resolved = {} /\ recorded = {} /\ closed = {}
      /\ \A e \in Events, a \in Apps : applied[e][a] = 0
  BY DEF Init, Delivery!Init, CodesInit, Flows
<1>3. TypeOK
  <2>1. FlowsTypeOK
    BY DEF Init, FlowsTypeOK
  <2>2. DeliveryTypeOK
    BY DEF Init, Delivery!Init, DeliveryTypeOK
  <2> QED
    BY <1>1, <2>1, <2>2, Types
<1>4. FlowsGrounded /\ EndsAreNew
  BY <1>2 DEF FlowsGrounded, EndsAreNew
<1>5. EventsKnown
  BY <1>2 DEF EventsKnown, SessionEvents, Events
<1>6. FlowsReached
  BY <1>2 DEF FlowsReached, Pending
<1> QED
  BY <1>1, <1>3, <1>4, <1>5, <1>6 DEF SignOnInv

LEMMA InvSteps == SignOnInv /\ [Next]_vars => SignOnInv'
<1>1. ASSUME SignOnInv, UNCHANGED vars PROVE SignOnInv'
  <2>1. UNCHANGED <<session, active, code, request, tokens, revoked, state,
                    flowCode, callback, local, exposed, known, endedBy,
                    recorded, applied, closed, buried, resolved>>
    BY <1>1 DEF vars, sessionVars, codeVars, flowVars, localVars, deliveryVars
  <2> QED
    BY <1>1, <2>1
    DEF SignOnInv, TypeOK, CodesTypeOK, CodesCounted, FlowsGrounded,
        EventsKnown, FlowsReached, Pending, EndsAreNew
<1>2. ASSUME SignOnInv, NEW e \in Events, DeliveryStep(e) PROVE SignOnInv'
  BY <1>2, ResolveSteps, ArrivalSteps, SettleSteps DEF DeliveryStep
<1> QED
  BY <1>1, <1>2, FlowSteps, ProviderSteps DEF Next

LEMMA InvAlways == Spec => []SignOnInv
BY InvInitially, InvSteps, PTL DEF Spec

\* The state of the sign-in flows, the sessions and the delivery keeps its type.
THEOREM SignOnTypeCorrect == Spec => []TypeOK
<1>1. SignOnInv => TypeOK
  BY DEF SignOnInv
<1> QED
  BY <1>1, InvAlways, PTL

\* An acknowledged revocation leaves at most a local session whose callback had
\* its profile before the revocation and stored the session after the
\* application had processed the event: ResolveTargets missed no application.
THEOREM StraysWereExposed == Spec => []StrayWasExposed
<1>1. SignOnInv => StrayWasExposed
  <2> SUFFICES ASSUME SignOnInv, NEW c \in closed, c[1] \in SessionEvents,
                      NEW f \in LocalOf(c[1][2])
               PROVE  f \in exposed
    BY DEF StrayWasExposed
  <2>1. c \in resolved /\ c[1] \in Events /\ c[2] \in SUBSET Apps
        /\ c = <<c[1], c[2]>>
    BY DEF SignOnInv, EventsKnown, TypeOK
  <2>2. f \in Flows /\ Pending(f, c[1][2])
    BY DEF LocalOf, Pending
  <2>3. FlowApp[f] \in c[2]
    BY <2>1, <2>2 DEF SignOnInv, FlowsReached
  <2>4. applied[c[1]][FlowApp[f]] = 1
    BY <2>1, <2>3 DEF SignOnInv, EventsKnown
  <2> QED
    BY <2>2, <2>4 DEF SignOnInv, FlowsReached
<1> QED
  BY <1>1, InvAlways, PTL

\* A redelivered event ends no local session that was stored after its
\* application had processed the event.
THEOREM NoRepeatedRevocation == Spec => []NoSecondRevocation
<1>1. SignOnInv => NoSecondRevocation
  BY DEF SignOnInv, EndsAreNew, NoSecondRevocation
<1> QED
  BY <1>1, InvAlways, PTL
=============================================================================
