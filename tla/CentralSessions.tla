-------------------------- MODULE CentralSessions ---------------------------
(***************************************************************************)
(* The central session of one user at the Auth Provider: signing in with   *)
(* a password and, if an MFA credential is confirmed, a challenge; and the *)
(* transactions that revoke sessions and store their revocation events,    *)
(* which are Logout, SetUserStatus (deactivation) and UpdateUser (a new    *)
(* password, alone or with a new e-mail address: a "rename").              *)
(*                                                                         *)
(* Requests are cut at their statements.  The transactions run under READ  *)
(* COMMITTED: a statement sees what is committed, and an UPDATE waits for  *)
(* a transaction that has written the same row, then looks at the row      *)
(* again.  The deactivation and the password change write the users row    *)
(* first, so they exclude each other; Logout does not.                     *)
(*                                                                         *)
(* Rows that refer to the user (events, sessions, challenges) are inserted *)
(* under a key-share lock of the users row.  It goes with an update of the *)
(* status or the password, not with one of the e-mail address, which has a *)
(* unique index: a rename and an insert wait for each other's transaction. *)
(***************************************************************************)
EXTENDS Integers, FiniteSets

CONSTANTS
  Sessions,      \* sso_sessions rows
  Challenges,    \* mfa_login_challenges rows
  Logins,        \* concurrent /login and /login/mfa requests
  Txns,          \* concurrent revoking requests
  MaxAttempts,   \* mfaMaxAttempts
  MaxChanges     \* bound on password changes, deactivations, reactivations

ASSUME MaxAttemptsAssumption == MaxAttempts \in Nat \ {0}
ASSUME MaxChangesAssumption == MaxChanges \in Nat

VARIABLES
  active,        \* users.status is 'active'
  password,      \* version of users.password_hash
  confirmed,     \* the user's TOTP credential is confirmed
  session,       \* session[s]: no row, active, or revoked
  expired,       \* sessions past expires_at (their status stays active)
  events,        \* events[s]: kind -> events stored for s
  challenge,     \* challenge[c]: no row, open, used or expired
  attempts,      \* attempts[c]
  login,         \* login[l]: what a sign-in request has established
  txn,           \* txn[t]: an open transaction, or NoTxn
  changes,       \* password changes and status changes so far
  behind,        \* history: behind[x]: the password check that session or
                 \* challenge x comes from
  honoured       \* history: honoured[c]: sessions stored for challenge c

userVars    == <<active, password, confirmed>>
sessionVars == <<session, expired, events>>
mfaVars     == <<challenge, attempts, honoured>>
vars == <<userVars, sessionVars, mfaVars, login, txn, changes, behind>>

Kinds == {"SessionRevoked", "PasswordChanged"}

\* A successful password check: the password version it compared with, and
\* whether a revocation of all of the user's sessions had listed them but not
\* committed when it was made, or has listed them since (history).
Checks == [pw : Nat, overtaken : BOOLEAN]

NoLogin == [pc |-> "idle"]
LoginStates ==
  {NoLogin} \cup
  [pc : {"password", "session", "challenge"}, check : Checks] \cup
  [pc : {"verify", "consume", "refused"}, of : Challenges]

\* todo: sessions still to be revoked; written: session rows the transaction
\* has updated and so locked; due: the session just gone through, whose event
\* is next; stored: sessions it has inserted an event for.
Opened(kind, pc, todo) ==
  [kind |-> kind, pc |-> pc, todo |-> todo, written |-> {}, due |-> {}, stored |-> {}]
NoTxn == Opened("none", "list", {})

RevokingAll == {"deactivate", "password", "rename"}
ChangesPassword(kind) == kind \in {"password", "rename"}

TxnStates ==
  [kind : {"none", "logout"} \cup RevokingAll, pc : {"list", "revoke"},
   todo : SUBSET Sessions, written : SUBSET Sessions,
   due : SUBSET Sessions, stored : SUBSET Sessions]

TypeOK ==
  /\ active    \in BOOLEAN
  /\ password  \in Nat
  /\ confirmed \in BOOLEAN
  /\ session   \in [Sessions -> {"none", "active", "revoked"}]
  /\ expired   \in SUBSET Sessions
  /\ events    \in [Sessions -> [Kinds -> Nat]]
  /\ challenge \in [Challenges -> {"none", "open", "used", "expired"}]
  /\ attempts  \in [Challenges -> 0 .. MaxAttempts]
  /\ login     \in [Logins -> LoginStates]
  /\ txn       \in [Txns -> TxnStates]
  /\ changes   \in 0 .. MaxChanges
  /\ behind    \in [Sessions \cup Challenges -> Checks]
  /\ honoured  \in [Challenges -> Nat]

Init ==
  /\ active = TRUE /\ password = 0 /\ confirmed \in BOOLEAN
  /\ session = [s \in Sessions |-> "none"]
  /\ expired = {}
  /\ events = [s \in Sessions |-> [k \in Kinds |-> 0]]
  /\ challenge = [c \in Challenges |-> "none"]
  /\ attempts = [c \in Challenges |-> 0]
  /\ login = [l \in Logins |-> NoLogin]
  /\ txn = [t \in Txns |-> NoTxn]
  /\ changes = 0
  /\ behind = [x \in Sessions \cup Challenges |-> [pw |-> 0, overtaken |-> FALSE]]
  /\ honoured = [c \in Challenges |-> 0]

-----------------------------------------------------------------------------
(* POST /login                                                             *)

\* A transaction that began with the users row and still holds it.
RevokesAll(t) == txn[t].kind \in RevokingAll
Listed(t) == RevokesAll(t) /\ txn[t].pc = "revoke"

\* The row is read as committed: an uncommitted deactivation or password
\* change is not seen.
VerifyPassword(l) ==
  /\ login[l] = NoLogin
  /\ active
  /\ login' = [login EXCEPT ![l] =
       [pc |-> "password",
        check |-> [pw |-> password, overtaken |-> \E t \in Txns : Listed(t)]]]
  /\ UNCHANGED <<userVars, sessionVars, mfaVars, txn, changes, behind>>

FindCredential(l) ==
  /\ login[l].pc = "password"
  /\ login' = [login EXCEPT ![l].pc = IF confirmed THEN "challenge" ELSE "session"]
  /\ UNCHANGED <<userVars, sessionVars, mfaVars, txn, changes, behind>>

\* None of the transactions T has written the key of the users row, the e-mail
\* address: what a key-share lock waits for.
UserKeyFree(T) == \A u \in T : txn[u].kind # "rename"

\* The insert looks at no user column: nothing is checked again.
CreateSession(l, s) ==
  /\ login[l].pc = "session" /\ session[s] = "none" /\ UserKeyFree(Txns)
  /\ session' = [session EXCEPT ![s] = "active"]
  /\ behind' = [behind EXCEPT ![s] = login[l].check]
  /\ login' = [login EXCEPT ![l] = NoLogin]
  /\ UNCHANGED <<userVars, expired, events, mfaVars, txn, changes>>

CreateChallenge(l, c) ==
  /\ login[l].pc = "challenge" /\ challenge[c] = "none" /\ UserKeyFree(Txns)
  /\ challenge' = [challenge EXCEPT ![c] = "open"]
  /\ behind' = [behind EXCEPT ![c] = login[l].check]
  /\ login' = [login EXCEPT ![l] = NoLogin]
  /\ UNCHANGED <<userVars, sessionVars, attempts, honoured, txn, changes>>

-----------------------------------------------------------------------------
(* POST /login/mfa                                                         *)

\* Faulty variant (TypeOK): the claim's bound is the one of its use.
ClaimAttempt_OffByOne(l, c) ==
  /\ login[l] = NoLogin
  /\ challenge[c] = "open" /\ attempts[c] <= MaxAttempts
  /\ attempts' = [attempts EXCEPT ![c] = @ + 1]
  /\ login' = [login EXCEPT ![l] = [pc |-> "verify", of |-> c]]
  /\ UNCHANGED <<userVars, sessionVars, challenge, honoured, txn, changes, behind>>

\* FindActiveByToken asks the same question as the UPDATE that follows it, and
\* what it refuses the UPDATE refuses too.
ClaimAttempt(l, c) ==
  /\ login[l] = NoLogin
  /\ challenge[c] = "open" /\ attempts[c] < MaxAttempts
  /\ attempts' = [attempts EXCEPT ![c] = @ + 1]
  /\ login' = [login EXCEPT ![l] = [pc |-> "verify", of |-> c]]
  /\ UNCHANGED <<userVars, sessionVars, challenge, honoured, txn, changes, behind>>

VerifyMFA(l) ==
  /\ login[l].pc = "verify"
  /\ \/ login' = [login EXCEPT ![l].pc = "consume"]
     \/ login' = [login EXCEPT ![l] = NoLogin]
  /\ UNCHANGED <<userVars, sessionVars, mfaVars, txn, changes, behind>>

\* Faulty variant (ChallengeSingleUse): used_at is not looked at again.
Consumable_Reused(c) == challenge[c] \in {"open", "used"} /\ attempts[c] <= MaxAttempts

\* Faulty variant (ClaimedCodeHonoured): the claim's own bound, which the last
\* claimed attempt has just used up.
Consumable_Strict(c) == challenge[c] = "open" /\ attempts[c] < MaxAttempts

Consumable(c) == challenge[c] = "open" /\ attempts[c] <= MaxAttempts

\* The user's status and password are not read: the challenge stands for them.
ConsumeAndCreateSession(l, s) ==
  LET c == login[l].of IN
  /\ login[l].pc = "consume" /\ session[s] = "none" /\ Consumable(c)
  /\ UserKeyFree(Txns)
  /\ challenge' = [challenge EXCEPT ![c] = "used"]
  /\ honoured' = [honoured EXCEPT ![c] = @ + 1]
  /\ session' = [session EXCEPT ![s] = "active"]
  /\ behind' = [behind EXCEPT ![s] = behind[c]]
  /\ login' = [login EXCEPT ![l] = NoLogin]
  /\ UNCHANGED <<userVars, expired, events, attempts, txn, changes>>

ConsumeRefused(l) ==
  /\ login[l].pc = "consume" /\ ~Consumable(login[l].of)
  /\ login' = [login EXCEPT ![l].pc = "refused"]
  /\ UNCHANGED <<userVars, sessionVars, mfaVars, txn, changes, behind>>

\* The request ends: answered, cancelled by its client, or its server died.
LoginEnds(l) ==
  /\ login[l] # NoLogin
  /\ login' = [login EXCEPT ![l] = NoLogin]
  /\ UNCHANGED <<userVars, sessionVars, mfaVars, txn, changes, behind>>

LoginStep ==
  \E l \in Logins :
    \/ VerifyPassword(l) \/ FindCredential(l) \/ VerifyMFA(l)
    \/ ConsumeRefused(l) \/ LoginEnds(l)
    \/ \E s \in Sessions : CreateSession(l, s) \/ ConsumeAndCreateSession(l, s)
    \/ \E c \in Challenges : CreateChallenge(l, c) \/ ClaimAttempt(l, c)

-----------------------------------------------------------------------------
(* Revoking requests                                                       *)

\* Faulty variant (OnlyRenamesDeadlock): the sessions are listed and revoked before the
\* users row is written.
UserRowFree_LockedLast == TRUE

UserRowFree == \A t \in Txns : ~RevokesAll(t)

\* POST /logout: the session is looked up by its cookie, then read again inside
\* the transaction; both reads ask for active and unexpired.
Logout(t, s) ==
  /\ txn[t] = NoTxn /\ session[s] = "active" /\ s \notin expired
  /\ txn' = [txn EXCEPT ![t] = Opened("logout", "revoke", {s})]
  /\ UNCHANGED <<userVars, sessionVars, mfaVars, login, changes, behind>>

\* UPDATE users, for a new status or a new password hash; a rename waits also
\* for the transactions that have inserted an event.
BeginRevokeAll(t, kind) ==
  /\ txn[t] = NoTxn /\ UserRowFree /\ changes < MaxChanges
  /\ kind = "rename" => \A u \in Txns : txn[u].stored = {}
  /\ txn' = [txn EXCEPT ![t] = Opened(kind, "list", {})]
  /\ changes' = changes + 1
  /\ UNCHANGED <<userVars, sessionVars, mfaVars, login, behind>>

\* The list has no condition on expires_at.  Whatever sign-in is under way is
\* overtaken by it.
ListSessions(t) ==
  /\ RevokesAll(t) /\ txn[t].pc = "list"
  /\ txn' = [txn EXCEPT ![t].pc = "revoke",
                        ![t].todo = {s \in Sessions : session[s] = "active"}]
  /\ login' = [l \in Logins |->
       IF login[l].pc \in {"password", "session", "challenge"}
       THEN [login[l] EXCEPT !.check.overtaken = TRUE] ELSE login[l]]
  /\ behind' = [x \in Sessions \cup Challenges |->
       IF x \in Challenges THEN [behind[x] EXCEPT !.overtaken = TRUE] ELSE behind[x]]
  /\ UNCHANGED <<userVars, sessionVars, mfaVars, changes>>

RowFree(t, s) == \A u \in Txns \ {t} : s \notin txn[u].written

\* UPDATE of one session row.
RevokeActive(t, s) ==
  /\ session[s] = "active"
  /\ txn' = [txn EXCEPT ![t].todo = @ \ {s}, ![t].written = @ \cup {s},
                        ![t].due = {s}]

\* Faulty variant (RevokedOnce): RowsAffected is ignored by every caller.
RevokeGone_Ignored(t, s) ==
  /\ session[s] # "active"
  /\ txn' = [txn EXCEPT ![t].todo = @ \ {s}, ![t].due = {s}]

\* Faulty variant (RevokedSessionsGone): the loop stops at a row that is gone
\* and the transaction commits.
RevokeGone_Break(t, s) ==
  /\ session[s] # "active"
  /\ txn' = [txn EXCEPT ![t].todo = {}]

\* The row is no longer active: another transaction revoked it.  The password
\* change does not look at RowsAffected; the others give ErrSessionNotFound,
\* which rolls the whole transaction back.
RevokeGone(t, s) ==
  /\ session[s] # "active"
  /\ IF ChangesPassword(txn[t].kind)
     THEN txn' = [txn EXCEPT ![t].todo = @ \ {s}, ![t].due = {s}]
     ELSE txn' = [txn EXCEPT ![t] = NoTxn]

Revoke(t, s) ==
  /\ s \in txn[t].todo /\ txn[t].due = {} /\ RowFree(t, s)
  /\ RevokeActive(t, s) \/ RevokeGone(t, s)
  /\ UNCHANGED <<userVars, sessionVars, mfaVars, login, changes, behind>>

\* INSERT of the event of the session just gone through, which refers to the
\* user.
StoreEvent(t) ==
  /\ txn[t].due # {} /\ UserKeyFree(Txns \ {t})
  /\ txn' = [txn EXCEPT ![t].stored = @ \cup txn[t].due, ![t].due = {}]
  /\ UNCHANGED <<userVars, sessionVars, mfaVars, login, changes, behind>>

EventKind(kind) ==
  IF ChangesPassword(kind) THEN "PasswordChanged" ELSE "SessionRevoked"

Commit(t) ==
  LET x == txn[t] IN
  /\ x.pc = "revoke" /\ x.todo = {} /\ x.due = {}
  /\ session' = [s \in Sessions |-> IF s \in x.written THEN "revoked" ELSE session[s]]
  /\ events' = [s \in Sessions |-> IF s \in x.stored
                  THEN [events[s] EXCEPT ![EventKind(x.kind)] = @ + 1] ELSE events[s]]
  /\ active' = (active /\ x.kind # "deactivate")
  /\ password' = IF ChangesPassword(x.kind) THEN password + 1 ELSE password
  /\ txn' = [txn EXCEPT ![t] = NoTxn]
  /\ UNCHANGED <<confirmed, expired, mfaVars, login, changes, behind>>

\* Faulty variant (RevokedHasEvent): the statements use the pool instead of the
\* transaction, so that a failure keeps the rows already written.
Rollback_Kept(t) ==
  /\ txn[t] # NoTxn
  /\ session' = [s \in Sessions |->
       IF s \in txn[t].written THEN "revoked" ELSE session[s]]
  /\ txn' = [txn EXCEPT ![t] = NoTxn]
  /\ UNCHANGED <<userVars, expired, events, mfaVars, login, changes, behind>>

\* A statement fails, the request is cancelled or its server dies.
Rollback(t) ==
  /\ txn[t] # NoTxn
  /\ txn' = [txn EXCEPT ![t] = NoTxn]
  /\ UNCHANGED <<userVars, sessionVars, mfaVars, login, changes, behind>>

\* One statement: nothing is revoked.
Reactivate ==
  /\ UserRowFree /\ ~active /\ changes < MaxChanges
  /\ active' = TRUE
  /\ changes' = changes + 1
  /\ UNCHANGED <<password, confirmed, sessionVars, mfaVars, login, txn, behind>>

RevokingStep ==
  \/ Reactivate
  \/ \E t \in Txns :
       \/ \E s \in Sessions : Logout(t, s) \/ Revoke(t, s)
       \/ \E kind \in RevokingAll : BeginRevokeAll(t, kind)
       \/ ListSessions(t) \/ StoreEvent(t) \/ Commit(t) \/ Rollback(t)

-----------------------------------------------------------------------------
(* Time passes, and the user confirms an MFA credential                    *)

SessionExpires(s) ==
  /\ session[s] = "active" /\ s \notin expired
  /\ expired' = expired \cup {s}
  /\ UNCHANGED <<userVars, session, events, mfaVars, login, txn, changes, behind>>

ChallengeExpires(c) ==
  /\ challenge[c] = "open"
  /\ challenge' = [challenge EXCEPT ![c] = "expired"]
  /\ UNCHANGED <<userVars, sessionVars, attempts, honoured, login, txn, changes, behind>>

MfaConfirmed ==
  /\ ~confirmed
  /\ confirmed' = TRUE
  /\ UNCHANGED <<active, password, sessionVars, mfaVars, login, txn, changes, behind>>

Environment ==
  \/ MfaConfirmed
  \/ \E s \in Sessions : SessionExpires(s)
  \/ \E c \in Challenges : ChallengeExpires(c)

Next == LoginStep \/ RevokingStep \/ Environment

Spec == Init /\ [][Next]_vars

-----------------------------------------------------------------------------
(* Properties                                                              *)

\* A session is revoked exactly when a revocation event for it is stored: the
\* outbox row and the status change commit together or not at all, whatever
\* transactions race for the row (RevokeAndCreateEvent,
\* SetUserStatusAndRevoke, UpdateUserAndRevoke).
RevokedHasEvent ==
  \A s \in Sessions :
    (session[s] = "revoked") <=> (\E k \in Kinds : events[s][k] > 0)

\* A session has at most one SessionRevoked event: of two logouts, or a logout
\* and a deactivation, that both saw it active, one writes the event.
RevokedOnce == \A s \in Sessions : events[s]["SessionRevoked"] <= 1

\* A session that works, of a user who is inactive or has a newer password than
\* the one it was made with, comes from a sign-in that the revocation overtook:
\* its password had been checked, or its MFA challenge issued, by the time the
\* revocation committed, and its row was inserted after the revocation listed
\* the user's sessions.  No session that was there to be listed survives.
RevokedSessionsGone ==
  \A s \in Sessions :
    (session[s] = "active" /\ s \notin expired /\ (~active \/ behind[s].pw # password))
      => behind[s].overtaken

\* t cannot commit before u ends: u has written a session row that t still has
\* to write, or u has changed the e-mail address and t still has an event to
\* insert.
MustWaitFor(t, u) ==
  /\ t # u
  /\ \/ txn[t].todo \cap txn[u].written # {}
     \/ txn[u].kind = "rename" /\ txn[t].todo \cup txn[t].due # {}

Deadlocked(S) == S # {} /\ \A t \in S : \E u \in S : MustWaitFor(t, u)

\* Of the revoking transactions only a rename and a logout that is between its
\* UPDATE and its INSERT can wait for each other (the database then aborts one
\* of them, a Rollback): transactions that write several sessions are ordered
\* by the users row, although they list sessions in no particular order.
OnlyRenamesDeadlock ==
  \A S \in SUBSET Txns :
    Deadlocked(S) =>
      \E r, l \in S :
        /\ txn[r].kind = "rename"
        /\ txn[l].kind = "logout" /\ txn[l].due # {}

\* A challenge yields at most one session, however many correct codes are in
\* flight for it (ConsumeAndCreateSession).
ChallengeSingleUse == \A c \in Challenges : honoured[c] <= 1

\* A correct code on an attempt that was claimed is refused only because the
\* challenge was used or has expired, never because attempts ran out: also the
\* last attempt allowed, and also while other requests claim theirs.
ClaimedCodeHonoured ==
  [][\A l \in Logins :
       (login[l].pc = "consume" /\ login'[l].pc = "refused")
         => challenge[login[l].of] # "open"]_vars
=============================================================================
