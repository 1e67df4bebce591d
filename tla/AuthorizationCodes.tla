------------------------- MODULE AuthorizationCodes -------------------------
(***************************************************************************)
(* The Auth Provider's side of the authorization-code flow: /authorize     *)
(* issues a code for a central session and an application, /token redeems  *)
(* it for an access token whose metadata row records session, user and     *)
(* application, /userinfo answers for a live token.                        *)
(*                                                                         *)
(* A /token request is cut between its checks and Redeem: other requests   *)
(* for the same code, and the revocation of its session, run in between.   *)
(* PKCE, redirect URI and client credentials are those of an honest        *)
(* client; whether a policy allows the application is the caller's to say. *)
(***************************************************************************)
EXTENDS Integers

CONSTANTS
  Users, Apps,
  Sessions,      \* central session rows
  Owner,         \* the user of each central session
  CodesPerLogin, \* codes issued per session and application
  Requests       \* concurrent /token requests

ASSUME OwnerAssumption == Owner \in [Sessions -> Users]
ASSUME CodesPerLoginAssumption == CodesPerLogin \in Nat

\* A code is named by the session and application it is issued for.
Codes == Sessions \X Apps \X (1 .. CodesPerLogin)
None  == <<>>

SessionOf(k) == k[1]
AppOf(k)     == k[2]
UserOf(k)    == Owner[k[1]]

VARIABLES
  active,     \* active[u]: users.status is 'active'
  session,    \* session[s]: no row yet, active or revoked
  code,       \* code[k]: no row yet, issued, used (used_at) or expired
  request,    \* request[r]: the code r has checked and not redeemed, or None
  tokens,     \* tokens[k]: access_tokens rows redeemed from k
  revoked     \* codes whose access_tokens rows carry revoked_at

sessionVars == <<active, session>>
codeVars    == <<code, request, tokens, revoked>>

CodesTypeOK ==
  /\ active  \in [Users -> BOOLEAN]
  /\ session \in [Sessions -> {"none", "active", "revoked"}]
  /\ code    \in [Codes -> {"none", "issued", "used", "expired"}]
  /\ request \in [Requests -> Codes \cup {None}]
  /\ tokens  \in [Codes -> Nat]
  /\ revoked \in SUBSET Codes

CodesInit ==
  /\ active  = [u \in Users |-> TRUE]
  /\ session = [s \in Sessions |-> "none"]
  /\ code    = [k \in Codes |-> "none"]
  /\ request = [r \in Requests |-> None]
  /\ tokens  = [k \in Codes |-> 0]
  /\ revoked = {}

\* A sign-in stores a central session.
CreateSession(s) ==
  /\ session[s] = "none"
  /\ session' = [session EXCEPT ![s] = "active"]
  /\ UNCHANGED <<active, codeVars>>

\* FindActiveByID and FindByID: the session and its user are both active.
Valid(s) == session[s] = "active" /\ active[Owner[s]]

-----------------------------------------------------------------------------
\* /authorize: a code for an active session, user and policy decision.  The
\* insert that follows the checks is taken with them: /token asks for session
\* and user again, and for the policy never.
Authorize(k, allowed) ==
  /\ Valid(SessionOf(k)) /\ allowed
  /\ code[k] = "none"
  /\ code' = [code EXCEPT ![k] = "issued"]
  /\ UNCHANGED <<sessionVars, request, tokens, revoked>>

ExpireCode(k) ==
  /\ code[k] = "issued"
  /\ code' = [code EXCEPT ![k] = "expired"]
  /\ UNCHANGED <<sessionVars, request, tokens, revoked>>

\* /token up to Redeem: the code is unused, its session and user active.
\* A request that fails a check changes nothing.
TokenChecks(r, k) ==
  /\ request[r] = None
  /\ code[k] = "issued" /\ Valid(SessionOf(k))
  /\ request' = [request EXCEPT ![r] = k]
  /\ UNCHANGED <<sessionVars, code, tokens, revoked>>

\* Faulty variant (CodeRedeemedOnce): the UPDATE does not look at used_at.
Redeemable_Always(k) == TRUE

\* The UPDATE of Redeem finds the row: used_at IS NULL, not expired.
Redeemable(k) == code[k] = "issued"

\* Redeem's transaction: the code is consumed and its token recorded, or the
\* row is no longer there to consume and the request fails.
Redeem(r) ==
  LET k == request[r] IN
  /\ k # None
  /\ request' = [request EXCEPT ![r] = None]
  /\ \/ /\ Redeemable(k)
        /\ code'   = [code EXCEPT ![k] = "used"]
        /\ tokens' = [tokens EXCEPT ![k] = @ + 1]
     \/ /\ ~ Redeemable(k)
        /\ UNCHANGED <<code, tokens>>
  /\ UNCHANGED <<sessionVars, revoked>>

\* The request dies between its checks and Redeem, or Redeem rolls back.
RedeemFails(r) ==
  /\ request[r] # None
  /\ request' = [request EXCEPT ![r] = None]
  /\ UNCHANGED <<sessionVars, code, tokens, revoked>>

\* Tokens FindActiveByJTI finds.
Live(k) == tokens[k] > 0 /\ k \notin revoked

\* /userinfo answers with a profile: live token, active session and user.
UserInfoAnswers(k) == Live(k) /\ Valid(SessionOf(k))

\* An authorization code yields at most one access token, however many /token
\* requests present it at the same time.
CodeRedeemedOnce == \A k \in Codes : tokens[k] <= 1
=============================================================================
