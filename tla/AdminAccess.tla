---------------------------- MODULE AdminAccess ----------------------------
(***************************************************************************)
(* What the Auth Provider keeps of its users for the people who run it:    *)
(* whether an account may sign in, who is in the group "administrators",   *)
(* the central sessions, the MFA challenges; and the operations of the     *)
(* admin API on users and on that group, behind RequireAdmin.              *)
(*                                                                         *)
(* CentralSessions cuts the same handlers at their statements.  Here each  *)
(* transaction is one step: what is of interest is the calls around it.    *)
(***************************************************************************)
EXTENDS Naturals, Sequences

CONSTANTS
  Users,
  MfaUsers,        \* users with a confirmed second factor
  MaxSessions,     \* bounds
  MaxChallenges

ASSUME AdminAccessAssumption ==
  /\ MfaUsers \subseteq Users
  /\ MaxSessions \in Nat /\ MaxChallenges \in Nat

VARIABLES
  status,          \* users.status, or "absent"
  administrators,  \* members of the group "administrators"
  session,         \* sso_sessions, in the order they were created
  challenge        \* mfa_login_challenges, likewise

accessVars == <<status, administrators, session, challenge>>

NoToken == 0       \* tokens are positions in session and in challenge

Exists(u) == status[u] # "absent"

AccessTypeOK ==
  /\ status \in [Users -> {"absent", "active", "inactive"}]
  /\ administrators \subseteq {u \in Users : Exists(u)}
  /\ session \in Seq([user : Users, live : BOOLEAN])
  /\ Len(session) <= MaxSessions
  /\ challenge \in Seq([user : MfaUsers, open : BOOLEAN])
  /\ Len(challenge) <= MaxChallenges

ActiveAdministrators == {u \in administrators : status[u] = "active"}

AccessInit ==
  /\ status \in [Users -> {"absent", "active"}]
  /\ administrators \in SUBSET {u \in Users : Exists(u)}
  /\ ActiveAdministrators # {}          \* the seed's
  /\ challenge = <<>>

-----------------------------------------------------------------------------
(* Sessions.                                                               *)

\* FindActiveByTokenHash finds the token's session.
Working(s) == s \in DOMAIN session /\ session[s].live

\* A session for u; its token is the position it gets.
CreateSession(u) ==
  /\ Len(session) < MaxSessions
  /\ session' = Append(session, [user |-> u, live |-> TRUE])

NewToken == Len(session) + 1

Revoked(dead) == [s \in DOMAIN session |->
                    [session[s] EXCEPT !.live = @ /\ s \notin dead]]

\* The credentials are right: of u's account, and the account is active.
VerifyPassword(u) == status[u] = "active"

\* Faulty variant (TypeOK): a credential whose enrollment was never confirmed
\* asks for a code as well.
NeedsCode_Unconfirmed(u) == TRUE

\* The user's TOTP credential is there and confirmed.
NeedsCode(u) == u \in MfaUsers

CreateChallenge(u) ==
  /\ Len(challenge) < MaxChallenges
  /\ challenge' = Append(challenge, [user |-> u, open |-> TRUE])

NewChallenge == Len(challenge) + 1

\* The pending token names an open challenge that a code of u answers.
Answerable(c, u) == c \in DOMAIN challenge /\ challenge[c].open /\ challenge[c].user = u

ConsumeAndCreateSession(c) ==
  /\ CreateSession(challenge[c].user)
  /\ challenge' = [challenge EXCEPT ![c].open = FALSE]

-----------------------------------------------------------------------------
(* The admin API.                                                          *)

\* Faulty variant (LastAdminOwnDoing): any working session of an active user.
IsAdminToken_AnyUser(s) == Working(s) /\ status[session[s].user] = "active"

IsAdminToken(s) == Working(s) /\ session[s].user \in ActiveAdministrators

Operations ==
  [what : {"create", "activate", "deactivate", "join", "leave"}, user : Users]

\* An operation finds the rows it needs; otherwise it is refused with 404, or
\* with 409 because the e-mail address or the membership is already there.
Applicable(op) ==
  CASE op.what = "create" -> ~ Exists(op.user)
    [] op.what = "join"   -> Exists(op.user) /\ op.user \notin administrators
    [] op.what = "leave"  -> op.user \in administrators
    [] OTHER              -> Exists(op.user)

SetUserStatusAndRevoke(u, st) ==
  /\ status'  = [status EXCEPT ![u] = st]
  /\ session' = IF st = "inactive"
                  THEN Revoked({s \in DOMAIN session : session[s].user = u})
                  ELSE session
  /\ UNCHANGED administrators

Perform(op) ==
  /\ Applicable(op)
  /\ \/ /\ op.what = "create"
        /\ \E st \in {"active", "inactive"} : status' = [status EXCEPT ![op.user] = st]
        /\ UNCHANGED <<administrators, session>>
     \/ /\ op.what = "activate"
        /\ SetUserStatusAndRevoke(op.user, "active")
     \/ /\ op.what = "deactivate"
        /\ SetUserStatusAndRevoke(op.user, "inactive")
     \/ /\ op.what = "join"
        /\ administrators' = administrators \cup {op.user}
        /\ UNCHANGED <<status, session>>
     \/ /\ op.what = "leave"
        /\ administrators' = administrators \ {op.user}
        /\ UNCHANGED <<status, session>>
  /\ UNCHANGED challenge
=============================================================================
