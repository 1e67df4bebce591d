----------------------- MODULE CentralSessionsProofs ------------------------
(***************************************************************************)
(* The safety properties of CentralSessions for any number of sessions,    *)
(* challenges, sign-ins and revoking transactions.                         *)
(***************************************************************************)
EXTENDS CentralSessions, TLAPS

-----------------------------------------------------------------------------
(* Types.                                                                  *)

SignIns == [pc : {"password", "session", "challenge"}, check : Checks]
Codes   == [pc : {"verify", "consume", "refused"}, of : Challenges]

\* What a sign-in request knows at each of its steps.
LEMMA LoginShapes ==
  ASSUME TypeOK, NEW l \in Logins
  PROVE  /\ login[l].pc \in {"password", "session", "challenge"} =>
              login[l] \in SignIns
         /\ login[l].pc \in {"verify", "consume", "refused"} =>
              login[l] \in Codes
BY DEF TypeOK, LoginStates, SignIns, Codes, NoLogin

LEMMA UpdatedLogin ==
  ASSUME TypeOK, NEW l \in Logins, NEW x \in {NoLogin} \cup SignIns \cup Codes
  PROVE  [login EXCEPT ![l] = x] \in [Logins -> LoginStates]
BY DEF TypeOK, LoginStates, SignIns, Codes

LEMMA LoginTypes ==
  ASSUME TypeOK, LoginStep
  PROVE  TypeOK'
<1>1. PICK l \in Logins :
        \/ VerifyPassword(l) \/ FindCredential(l) \/ VerifyMFA(l)
        \/ ConsumeRefused(l) \/ LoginEnds(l)
        \/ \E s \in Sessions : CreateSession(l, s) \/ ConsumeAndCreateSession(l, s)
        \/ \E c \in Challenges : CreateChallenge(l, c) \/ ClaimAttempt(l, c)
  BY DEF LoginStep
<1>2. CASE VerifyPassword(l)
  <2> DEFINE b == \E t \in Txns : Listed(t)
             x == [pc |-> "password", check |-> [pw |-> password, overtaken |-> b]]
  <2>1. b \in BOOLEAN
    OBVIOUS
  <2> HIDE DEF b
  <2>2. x \in SignIns
    BY <2>1 DEF SignIns, Checks, TypeOK
  <2>3. login' = [login EXCEPT ![l] = x]
    BY <1>2 DEF VerifyPassword, b
  <2>4. login' \in [Logins -> LoginStates]
    BY <2>2, <2>3, UpdatedLogin
  <2> QED
    BY <1>2, <2>4 DEF VerifyPassword, TypeOK, userVars, sessionVars, mfaVars
<1>3. CASE FindCredential(l)
  <2>1. login[l] \in SignIns
    BY <1>3, LoginShapes DEF FindCredential
  <2>2. [login[l] EXCEPT !.pc = IF confirmed THEN "challenge" ELSE "session"]
          \in SignIns
    BY <2>1 DEF SignIns
  <2>3. login' \in [Logins -> LoginStates]
    BY <1>3, <2>2, UpdatedLogin DEF FindCredential, TypeOK
  <2> QED
    BY <1>3, <2>3 DEF FindCredential, TypeOK, userVars, sessionVars, mfaVars
<1>4. CASE VerifyMFA(l)
  <2>1. login[l] \in Codes
    BY <1>4, LoginShapes DEF VerifyMFA
  <2>2. [login[l] EXCEPT !.pc = "consume"] \in Codes
    BY <2>1 DEF Codes
  <2>3. login' \in [Logins -> LoginStates]
    BY <1>4, <2>2, UpdatedLogin DEF VerifyMFA, TypeOK
  <2> QED
    BY <1>4, <2>3 DEF VerifyMFA, TypeOK, userVars, sessionVars, mfaVars
<1>5. CASE ConsumeRefused(l)
  <2>1. login[l] \in Codes
    BY <1>5, LoginShapes DEF ConsumeRefused
  <2>2. [login[l] EXCEPT !.pc = "refused"] \in Codes
    BY <2>1 DEF Codes
  <2>3. login' \in [Logins -> LoginStates]
    BY <1>5, <2>2, UpdatedLogin DEF ConsumeRefused, TypeOK
  <2> QED
    BY <1>5, <2>3 DEF ConsumeRefused, TypeOK, userVars, sessionVars, mfaVars
<1>6. CASE LoginEnds(l)
  BY <1>6, UpdatedLogin
  DEF LoginEnds, TypeOK, userVars, sessionVars, mfaVars
<1>7. ASSUME NEW s \in Sessions, CreateSession(l, s)
      PROVE  TypeOK'
  <2>1. login[l].check \in Checks
    BY <1>7, LoginShapes DEF CreateSession, SignIns
  <2>2. login' \in [Logins -> LoginStates]
    BY <1>7, UpdatedLogin DEF CreateSession
  <2> QED
    BY <1>7, <2>1, <2>2 DEF CreateSession, TypeOK, userVars, mfaVars
<1>8. ASSUME NEW s \in Sessions, ConsumeAndCreateSession(l, s)
      PROVE  TypeOK'
  <2>1. login[l].of \in Challenges
    BY <1>8, LoginShapes DEF ConsumeAndCreateSession, Codes
  <2>2. login' \in [Logins -> LoginStates]
    BY <1>8, UpdatedLogin DEF ConsumeAndCreateSession
  <2> QED
    BY <1>8, <2>1, <2>2 DEF ConsumeAndCreateSession, TypeOK, userVars
<1>9. ASSUME NEW c \in Challenges, CreateChallenge(l, c)
      PROVE  TypeOK'
  <2>1. login[l].check \in Checks
    BY <1>9, LoginShapes DEF CreateChallenge, SignIns
  <2>2. login' \in [Logins -> LoginStates]
    BY <1>9, UpdatedLogin DEF CreateChallenge
  <2> QED
    BY <1>9, <2>1, <2>2 DEF CreateChallenge, TypeOK, userVars, sessionVars
<1>10. ASSUME NEW c \in Challenges, ClaimAttempt(l, c)
       PROVE  TypeOK'
  <2>1. [pc |-> "verify", of |-> c] \in Codes
    BY DEF Codes
  <2>2. login' \in [Logins -> LoginStates]
    BY <1>10, <2>1, UpdatedLogin DEF ClaimAttempt
  <2> QED
    BY <1>10, <2>2, MaxAttemptsAssumption
    DEF ClaimAttempt, TypeOK, userVars, sessionVars
<1> QED
  BY <1>1, <1>2, <1>3, <1>4, <1>5, <1>6, <1>7, <1>8, <1>9, <1>10

LEMMA UpdatedTxn ==
  ASSUME TypeOK, NEW t \in Txns, NEW x \in TxnStates
  PROVE  [txn EXCEPT ![t] = x] \in [Txns -> TxnStates]
BY DEF TypeOK

LEMMA NoTxnType == NoTxn \in TxnStates
BY DEF NoTxn, Opened, TxnStates, RevokingAll

LEMMA RevokingTypes ==
  ASSUME TypeOK, RevokingStep
  PROVE  TypeOK'
<1>1. CASE Reactivate
  BY <1>1, MaxChangesAssumption DEF Reactivate, TypeOK, sessionVars, mfaVars
<1>2. ASSUME NEW t \in Txns, NEW s \in Sessions, Logout(t, s)
      PROVE  TypeOK'
  <2>1. Opened("logout", "revoke", {s}) \in TxnStates
    BY DEF Opened, TxnStates, RevokingAll
  <2>2. txn' \in [Txns -> TxnStates]
    BY <1>2, <2>1, UpdatedTxn DEF Logout
  <2> QED
    BY <1>2, <2>2 DEF Logout, TypeOK, userVars, sessionVars, mfaVars
<1>3. ASSUME NEW t \in Txns, NEW s \in Sessions, Revoke(t, s)
      PROVE  TypeOK'
  <2>1. txn[t] \in TxnStates
    BY DEF TypeOK
  <2>2. /\ [txn[t] EXCEPT !.todo = @ \ {s}, !.written = @ \cup {s}, !.due = {s}]
             \in TxnStates
        /\ [txn[t] EXCEPT !.todo = @ \ {s}, !.due = {s}] \in TxnStates
    BY <2>1 DEF TxnStates
  <2>3. txn' \in [Txns -> TxnStates]
    BY <1>3, <2>2, NoTxnType, UpdatedTxn
    DEF Revoke, RevokeActive, RevokeGone, TypeOK
  <2> QED
    BY <1>3, <2>3 DEF Revoke, TypeOK, userVars, sessionVars, mfaVars
<1>4. ASSUME NEW t \in Txns, NEW kind \in RevokingAll, BeginRevokeAll(t, kind)
      PROVE  TypeOK'
  <2>1. Opened(kind, "list", {}) \in TxnStates
    BY DEF Opened, TxnStates, RevokingAll
  <2>2. txn' \in [Txns -> TxnStates]
    BY <1>4, <2>1, UpdatedTxn DEF BeginRevokeAll
  <2> QED
    BY <1>4, <2>2, MaxChangesAssumption
    DEF BeginRevokeAll, TypeOK, userVars, sessionVars, mfaVars
<1>5. ASSUME NEW t \in Txns, ListSessions(t)
      PROVE  TypeOK'
  <2>1. [txn[t] EXCEPT !.pc = "revoke",
           !.todo = {s \in Sessions : session[s] = "active"}] \in TxnStates
    BY DEF TypeOK, TxnStates
  <2>2. txn' \in [Txns -> TxnStates]
    BY <1>5, <2>1, UpdatedTxn DEF ListSessions, TypeOK
  <2>3. \A l \in Logins :
          login[l] \in SignIns =>
            [login[l] EXCEPT !.check.overtaken = TRUE] \in SignIns
    BY DEF SignIns, Checks
  <2>4. ASSUME NEW l \in Logins
        PROVE  login'[l] \in LoginStates
    BY <1>5, <2>3, LoginShapes DEF ListSessions, TypeOK, LoginStates, SignIns
  <2>5. login' \in [Logins -> LoginStates]
    BY <1>5, <2>4 DEF ListSessions
  <2>6. behind' \in [Sessions \cup Challenges -> Checks]
    BY <1>5 DEF ListSessions, TypeOK, Checks
  <2> QED
    BY <1>5, <2>2, <2>5, <2>6
    DEF ListSessions, TypeOK, userVars, sessionVars, mfaVars
<1>6. ASSUME NEW t \in Txns, Commit(t)
      PROVE  TypeOK'
  <2>1. txn' \in [Txns -> TxnStates]
    BY <1>6, NoTxnType, UpdatedTxn DEF Commit
  <2>2. active' \in BOOLEAN
    BY <1>6, Zenon DEF Commit
  <2>3. password' \in Nat
    BY <1>6 DEF Commit, TypeOK
  <2>4. session' \in [Sessions -> {"none", "active", "revoked"}]
    BY <1>6 DEF Commit, TypeOK
  <2>5. \A k \in {"none", "logout"} \cup RevokingAll : EventKind(k) \in Kinds
    BY DEF EventKind, Kinds
  <2>6. ASSUME NEW s \in Sessions, NEW k \in Kinds
        PROVE  [events[s] EXCEPT ![k] = @ + 1] \in [Kinds -> Nat]
    BY DEF TypeOK
  <2>7. EventKind(txn[t].kind) \in Kinds
    BY <2>5 DEF TypeOK, TxnStates
  <2>8. events' \in [Sessions -> [Kinds -> Nat]]
    BY <1>6, <2>6, <2>7 DEF Commit, TypeOK
  <2> QED
    BY <1>6, <2>1, <2>2, <2>3, <2>4, <2>8 DEF Commit, TypeOK, mfaVars
<1>7. ASSUME NEW t \in Txns, Rollback(t)
      PROVE  TypeOK'
  BY <1>7, NoTxnType, UpdatedTxn
  DEF Rollback, TypeOK, userVars, sessionVars, mfaVars
<1>8. ASSUME NEW t \in Txns, StoreEvent(t)
      PROVE  TypeOK'
  <2>1. [txn[t] EXCEPT !.stored = @ \cup txn[t].due, !.due = {}] \in TxnStates
    BY DEF TypeOK, TxnStates
  <2>2. txn' = [txn EXCEPT ![t] =
                  [txn[t] EXCEPT !.stored = @ \cup txn[t].due, !.due = {}]]
    BY <1>8 DEF StoreEvent, TypeOK
  <2>3. txn' \in [Txns -> TxnStates]
    BY <2>1, <2>2, UpdatedTxn
  <2> QED
    BY <1>8, <2>3 DEF StoreEvent, TypeOK, userVars, sessionVars, mfaVars
<1> QED
  BY <1>1, <1>2, <1>3, <1>4, <1>5, <1>6, <1>7, <1>8 DEF RevokingStep

LEMMA TypeSteps == TypeOK /\ [Next]_vars => TypeOK'
<1> SUFFICES ASSUME TypeOK, [Next]_vars PROVE TypeOK'
  OBVIOUS
<1>1. CASE MfaConfirmed
  BY <1>1 DEF MfaConfirmed, TypeOK, sessionVars, mfaVars
<1>2. ASSUME NEW s \in Sessions, SessionExpires(s)
      PROVE  TypeOK'
  BY <1>2 DEF SessionExpires, TypeOK, userVars, mfaVars
<1>3. ASSUME NEW c \in Challenges, ChallengeExpires(c)
      PROVE  TypeOK'
  BY <1>3 DEF ChallengeExpires, TypeOK, userVars, sessionVars
<1>4. CASE UNCHANGED vars
  BY <1>4 DEF vars, TypeOK, userVars, sessionVars, mfaVars
<1> QED
  BY <1>1, <1>2, <1>3, <1>4, LoginTypes, RevokingTypes DEF Next, Environment

LEMMA TypesInitially == Init => TypeOK
<1> SUFFICES ASSUME Init PROVE TypeOK
  OBVIOUS
<1>1. txn \in [Txns -> TxnStates] /\ login \in [Logins -> LoginStates]
  BY NoTxnType DEF Init, LoginStates
<1>2. active \in BOOLEAN /\ confirmed \in BOOLEAN
  BY Zenon DEF Init
<1>3. behind \in [Sessions \cup Challenges -> Checks]
  BY DEF Init, Checks
<1> QED
  BY <1>1, <1>2, <1>3, MaxChangesAssumption, MaxAttemptsAssumption
  DEF Init, TypeOK

-----------------------------------------------------------------------------
(* MFA challenges.                                                         *)

\* A challenge has been honoured exactly if it is used.
ChallengesCounted ==
  \A c \in Challenges : honoured[c] = IF challenge[c] = "used" THEN 1 ELSE 0

LEMMA ChallengeSteps ==
  ASSUME TypeOK, ChallengesCounted, [Next]_vars
  PROVE  ChallengesCounted'
<1>1. ASSUME NEW l \in Logins, NEW c \in Challenges, CreateChallenge(l, c)
      PROVE  ChallengesCounted'
  BY <1>1 DEF CreateChallenge, ChallengesCounted, TypeOK
<1>2. ASSUME NEW l \in Logins, NEW c \in Challenges, ClaimAttempt(l, c)
      PROVE  ChallengesCounted'
  BY <1>2 DEF ClaimAttempt, ChallengesCounted, TypeOK
<1>3. ASSUME NEW l \in Logins, NEW s \in Sessions, ConsumeAndCreateSession(l, s)
      PROVE  ChallengesCounted'
  <2>1. login[l].of \in Challenges
    BY <1>3, LoginShapes DEF ConsumeAndCreateSession, Codes
  <2> QED
    BY <1>3, <2>1
    DEF ConsumeAndCreateSession, Consumable, ChallengesCounted, TypeOK
<1>4. ASSUME NEW c \in Challenges, ChallengeExpires(c)
      PROVE  ChallengesCounted'
  BY <1>4 DEF ChallengeExpires, ChallengesCounted, TypeOK
<1>5. CASE UNCHANGED mfaVars
  BY <1>5 DEF mfaVars, ChallengesCounted
<1>6. \/ UNCHANGED mfaVars
      \/ \E c \in Challenges : ChallengeExpires(c)
      \/ \E l \in Logins :
           \/ \E s \in Sessions : ConsumeAndCreateSession(l, s)
           \/ \E c \in Challenges : CreateChallenge(l, c) \/ ClaimAttempt(l, c)
  BY DEF Next, vars, LoginStep, VerifyPassword, FindCredential, VerifyMFA,
         ConsumeRefused, LoginEnds, CreateSession, RevokingStep, Reactivate,
         Logout, Revoke, StoreEvent, BeginRevokeAll, ListSessions, Commit, Rollback,
         Environment, MfaConfirmed, SessionExpires
<1> QED
  BY <1>1, <1>2, <1>3, <1>4, <1>5, <1>6

LEMMA ChallengesInitially == Init => ChallengesCounted
BY DEF Init, ChallengesCounted

-----------------------------------------------------------------------------
(* Revoking transactions.                                                  *)

\* The sessions a transaction has stored an event for or is about to.
Announced(t) == txn[t].stored \cup txn[t].due

\* What one transaction holds.  A session it has written is its own until it
\* commits; one it announces without having written it was revoked by somebody
\* else.
TxnSound(t) ==
  /\ txn[t].kind = "none" => txn[t] = NoTxn
  /\ txn[t].pc = "list" => txn[t].todo = {} /\ Announced(t) = {}
  /\ txn[t].written \subseteq Announced(t)
  /\ txn[t].written \cap txn[t].todo = {}
  /\ txn[t].kind = "logout" => \E s \in Sessions : txn[t].todo \cup txn[t].written \subseteq {s}
  /\ ~ChangesPassword(txn[t].kind) => Announced(t) = txn[t].written
  /\ \A s \in txn[t].written : session[s] = "active"
  /\ \A s \in Announced(t) \ txn[t].written : session[s] = "revoked"
  /\ \A s \in txn[t].todo : session[s] # "none"

\* A session row has one writer at a time, the users row too.
LocksHeld ==
  \A t, u \in Txns :
    t # u => /\ txn[t].written \cap txn[u].written = {}
             /\ ~(RevokesAll(t) /\ RevokesAll(u))

TxnsSound == \A t \in Txns : TxnSound(t)

RevocationInv == TxnsSound /\ LocksHeld /\ RevokedHasEvent /\ RevokedOnce

\* A transaction that is not open holds nothing.
LEMMA NoTxnSound ==
  ASSUME NEW t \in Txns, txn[t] = NoTxn
  PROVE  /\ txn[t].written = {} /\ txn[t].todo = {}
         /\ txn[t].stored = {} /\ txn[t].due = {}
         /\ ~RevokesAll(t)
         /\ TxnSound(t)
BY DEF NoTxn, Opened, RevokesAll, RevokingAll, TxnSound, Announced

LEMMA NoTxnSoundNext ==
  ASSUME NEW t \in Txns, txn'[t] = NoTxn
  PROVE  /\ txn'[t].written = {} /\ txn'[t].todo = {}
         /\ txn'[t].stored = {} /\ txn'[t].due = {}
         /\ ~RevokesAll(t)'
         /\ TxnSound(t)'
BY DEF NoTxn, Opened, RevokesAll, RevokingAll, TxnSound, Announced

\* Steps that leave transactions and events alone: at most a session appears.
LEMMA QuietSteps ==
  ASSUME TypeOK, RevocationInv, UNCHANGED <<txn, events>>,
         \A s \in Sessions :
           session'[s] # session[s] =>
             session[s] = "none" /\ session'[s] = "active"
  PROVE  RevocationInv'
<1>1. ASSUME NEW t \in Txns PROVE TxnSound(t)'
  <2>1. TxnSound(t) /\ txn[t] \in TxnStates
    BY DEF RevocationInv, TxnsSound, TypeOK
  <2> QED
    BY <2>1 DEF TxnSound, TxnStates, Announced
<1>2. LocksHeld'
  BY DEF RevocationInv, LocksHeld, RevokesAll
<1>3. RevokedHasEvent' /\ RevokedOnce'
  BY DEF RevocationInv, RevokedHasEvent, RevokedOnce, TypeOK
<1> QED
  BY <1>1, <1>2, <1>3 DEF RevocationInv, TxnsSound

\* Steps of one transaction that do not commit.
LEMMA OpenSteps ==
  ASSUME TypeOK, RevocationInv, NEW t \in Txns,
         UNCHANGED <<session, events>>,
         \A u \in Txns \ {t} : txn'[u] = txn[u],
         TxnSound(t)',
         \A u \in Txns \ {t} :
           /\ txn'[t].written \cap txn[u].written = {}
           /\ RevokesAll(t)' => ~RevokesAll(u)
  PROVE  RevocationInv'
<1>1. ASSUME NEW u \in Txns PROVE TxnSound(u)'
  BY DEF RevocationInv, TxnsSound, TxnSound, Announced
<1>2. LocksHeld'
  BY DEF RevocationInv, LocksHeld, RevokesAll
<1>3. RevokedHasEvent' /\ RevokedOnce'
  BY DEF RevocationInv, RevokedHasEvent, RevokedOnce
<1> QED
  BY <1>1, <1>2, <1>3 DEF RevocationInv, TxnsSound

LEMMA RevokeSteps ==
  ASSUME TypeOK, RevocationInv, NEW t \in Txns, NEW s \in Sessions, Revoke(t, s)
  PROVE  RevocationInv'
<1>1. TxnSound(t) /\ txn[t] \in TxnStates /\ txn \in [Txns -> TxnStates]
  BY DEF RevocationInv, TxnsSound, TypeOK
<1>2. /\ UNCHANGED <<session, events>> /\ s \in txn[t].todo /\ txn[t].due = {}
      /\ \A u \in Txns \ {t} : s \notin txn[u].written
  BY DEF Revoke, RowFree, sessionVars
<1>3. \A u \in Txns \ {t} :
        /\ txn[t].written \cap txn[u].written = {}
        /\ ~(RevokesAll(t) /\ RevokesAll(u))
  BY DEF RevocationInv, LocksHeld
<1>4. CASE RevokeActive(t, s)
  <2>1. /\ txn'[t] = [txn[t] EXCEPT !.todo = @ \ {s}, !.written = @ \cup {s},
                                    !.due = {s}]
        /\ \A u \in Txns \ {t} : txn'[u] = txn[u]
        /\ session[s] = "active"
    BY <1>1, <1>4 DEF RevokeActive
  <2>2. /\ txn'[t].todo = txn[t].todo \ {s}
        /\ txn'[t].written = txn[t].written \cup {s}
        /\ txn'[t].stored = txn[t].stored /\ txn'[t].due = {s}
        /\ txn'[t].kind = txn[t].kind /\ txn'[t].pc = txn[t].pc
    BY <1>1, <2>1 DEF TxnStates
  <2>3. txn[t].kind # "none"
    BY <1>1, <1>2 DEF TxnSound, NoTxn, Opened
  <2>4. Announced(t)' = Announced(t) \cup {s}
    BY <1>2, <2>2 DEF Announced
  <2>5. TxnSound(t)'
    BY <1>1, <1>2, <2>1, <2>2, <2>3, <2>4 DEF TxnSound
  <2> QED
    BY <1>2, <1>3, <2>1, <2>2, <2>5, OpenSteps DEF RevokesAll
<1>5. CASE RevokeGone(t, s) /\ ChangesPassword(txn[t].kind)
  <2>1. /\ txn'[t] = [txn[t] EXCEPT !.todo = @ \ {s}, !.due = {s}]
        /\ \A u \in Txns \ {t} : txn'[u] = txn[u]
    BY <1>1, <1>5 DEF RevokeGone
  <2>2. /\ txn'[t].todo = txn[t].todo \ {s}
        /\ txn'[t].written = txn[t].written
        /\ txn'[t].stored = txn[t].stored /\ txn'[t].due = {s}
        /\ txn'[t].kind = txn[t].kind /\ txn'[t].pc = txn[t].pc
    BY <1>1, <2>1 DEF TxnStates
  <2>3. session[s] = "revoked"
    BY <1>1, <1>2, <1>5 DEF TxnSound, RevokeGone, TypeOK
  <2>4. Announced(t)' = Announced(t) \cup {s}
    BY <1>2, <2>2 DEF Announced
  <2>5. txn[t].kind \notin {"none", "logout"}
    BY <1>5 DEF ChangesPassword
  <2>6. TxnSound(t)'
    BY <1>1, <1>2, <1>5, <2>1, <2>2, <2>3, <2>4, <2>5 DEF TxnSound
  <2> QED
    BY <1>2, <1>3, <2>1, <2>2, <2>6, OpenSteps DEF RevokesAll
<1>6. CASE RevokeGone(t, s) /\ ~ChangesPassword(txn[t].kind)
  <2>1. txn'[t] = NoTxn /\ \A u \in Txns \ {t} : txn'[u] = txn[u]
    BY <1>1, <1>6 DEF RevokeGone
  <2> QED
    BY <1>2, <2>1, NoTxnSoundNext, OpenSteps
<1> QED
  BY <1>4, <1>5, <1>6 DEF Revoke

LEMMA StoreSteps ==
  ASSUME TypeOK, RevocationInv, NEW t \in Txns, StoreEvent(t)
  PROVE  RevocationInv'
<1>1. TxnSound(t) /\ txn[t] \in TxnStates /\ txn \in [Txns -> TxnStates]
  BY DEF RevocationInv, TxnsSound, TypeOK
<1>2. /\ txn'[t] = [txn[t] EXCEPT !.stored = @ \cup txn[t].due, !.due = {}]
      /\ \A u \in Txns \ {t} : txn'[u] = txn[u]
      /\ UNCHANGED <<session, events>> /\ txn[t].due # {}
  BY <1>1 DEF StoreEvent, sessionVars
<1>3. /\ txn'[t].todo = txn[t].todo /\ txn'[t].written = txn[t].written
      /\ txn'[t].stored = txn[t].stored \cup txn[t].due /\ txn'[t].due = {}
      /\ txn'[t].kind = txn[t].kind /\ txn'[t].pc = txn[t].pc
  BY <1>1, <1>2 DEF TxnStates
<1>4. Announced(t)' = Announced(t)
  BY <1>3 DEF Announced
<1>5. txn[t].kind # "none"
  BY <1>1, <1>2 DEF TxnSound, NoTxn, Opened
<1>6. TxnSound(t)'
  BY <1>1, <1>2, <1>3, <1>4, <1>5 DEF TxnSound
<1> QED
  BY <1>2, <1>3, <1>6, OpenSteps DEF RevokesAll, RevocationInv, LocksHeld

\* Beginning, listing and rolling back.
LEMMA OpeningSteps ==
  ASSUME TypeOK, RevocationInv, NEW t \in Txns,
         \/ \E s \in Sessions : Logout(t, s)
         \/ \E kind \in RevokingAll : BeginRevokeAll(t, kind)
         \/ ListSessions(t) \/ Rollback(t)
  PROVE  RevocationInv'
<1>1. TxnSound(t) /\ txn[t] \in TxnStates /\ txn \in [Txns -> TxnStates]
  BY DEF RevocationInv, TxnsSound, TypeOK
<1>2. ASSUME NEW s \in Sessions, Logout(t, s)
      PROVE  RevocationInv'
  <2>1. /\ txn'[t] = Opened("logout", "revoke", {s})
        /\ \A u \in Txns \ {t} : txn'[u] = txn[u]
        /\ UNCHANGED <<session, events>> /\ session[s] = "active"
    BY <1>1, <1>2 DEF Logout, sessionVars
  <2>2. /\ txn'[t].todo = {s} /\ txn'[t].written = {} /\ Announced(t)' = {}
        /\ txn'[t].kind = "logout" /\ txn'[t].pc = "revoke"
    BY <2>1 DEF Opened, Announced
  <2>3. TxnSound(t)'
    BY <2>1, <2>2 DEF TxnSound
  <2> QED
    BY <2>1, <2>2, <2>3, OpenSteps DEF RevokesAll, RevokingAll
<1>3. ASSUME NEW kind \in RevokingAll, BeginRevokeAll(t, kind)
      PROVE  RevocationInv'
  <2>1. /\ txn'[t] = Opened(kind, "list", {})
        /\ \A u \in Txns \ {t} : txn'[u] = txn[u]
        /\ UNCHANGED <<session, events>>
        /\ \A u \in Txns : ~RevokesAll(u)
    BY <1>1, <1>3 DEF BeginRevokeAll, sessionVars, UserRowFree
  <2>2. /\ txn'[t].todo = {} /\ txn'[t].written = {} /\ Announced(t)' = {}
        /\ txn'[t].kind = kind /\ txn'[t].pc = "list"
    BY <2>1 DEF Opened, Announced
  <2>3. TxnSound(t)'
    BY <2>1, <2>2 DEF TxnSound, RevokingAll
  <2> QED
    BY <2>1, <2>2, <2>3, OpenSteps
<1>4. CASE ListSessions(t)
  <2>1. /\ txn'[t] = [txn[t] EXCEPT !.pc = "revoke",
                        !.todo = {s \in Sessions : session[s] = "active"}]
        /\ \A u \in Txns \ {t} : txn'[u] = txn[u]
        /\ UNCHANGED <<session, events>>
        /\ RevokesAll(t) /\ txn[t].pc = "list"
    BY <1>1, <1>4 DEF ListSessions, sessionVars
  <2>2. /\ txn'[t].todo = {s \in Sessions : session[s] = "active"}
        /\ txn'[t].written = txn[t].written
        /\ Announced(t)' = Announced(t)
        /\ txn'[t].kind = txn[t].kind /\ txn'[t].pc = "revoke"
    BY <1>1, <2>1 DEF TxnStates, Announced
  <2>3. txn[t].written = {} /\ Announced(t) = {}
    BY <1>1, <2>1 DEF TxnSound
  <2>4. TxnSound(t)'
    BY <2>1, <2>2, <2>3 DEF TxnSound, RevokesAll, RevokingAll
  <2>5. \A u \in Txns \ {t} : ~RevokesAll(u)
    BY <2>1 DEF RevocationInv, LocksHeld
  <2> QED
    BY <2>1, <2>2, <2>3, <2>4, <2>5, OpenSteps
<1>5. CASE Rollback(t)
  <2>1. /\ txn'[t] = NoTxn /\ \A u \in Txns \ {t} : txn'[u] = txn[u]
        /\ UNCHANGED <<session, events>>
    BY <1>1, <1>5 DEF Rollback, sessionVars
  <2> QED
    BY <2>1, NoTxnSoundNext, OpenSteps
<1> QED
  BY <1>2, <1>3, <1>4, <1>5

LEMMA CommitSteps ==
  ASSUME TypeOK, RevocationInv, NEW t \in Txns, Commit(t)
  PROVE  RevocationInv'
<1> DEFINE x == txn[t]
           kind == EventKind(x.kind)
<1>1. TxnSound(t) /\ x \in TxnStates /\ txn \in [Txns -> TxnStates]
  BY DEF RevocationInv, TxnsSound, TypeOK
<1>2. /\ x.pc = "revoke" /\ x.todo = {} /\ x.due = {}
      /\ session' = [s \in Sessions |-> IF s \in x.written THEN "revoked" ELSE session[s]]
      /\ events' = [s \in Sessions |-> IF s \in x.stored
                      THEN [events[s] EXCEPT ![kind] = @ + 1] ELSE events[s]]
      /\ txn'[t] = NoTxn /\ \A u \in Txns \ {t} : txn'[u] = txn[u]
  BY <1>1 DEF Commit
<1>3. /\ kind \in Kinds
      /\ ~ChangesPassword(x.kind) => kind = "SessionRevoked"
      /\ ChangesPassword(x.kind) => kind = "PasswordChanged"
      /\ Announced(t) = x.stored
  BY <1>1, <1>2 DEF EventKind, Kinds, Announced
<1> HIDE DEF kind
<1>4. ASSUME NEW u \in Txns PROVE TxnSound(u)'
  <2>1. CASE u = t
    BY <1>2, <2>1, NoTxnSoundNext
  <2>2. CASE u # t
    <3>1. TxnSound(u) /\ txn'[u] = txn[u] /\ txn[u] \in TxnStates
          /\ txn[u].written \cap x.written = {}
      BY <1>1, <1>2, <2>2 DEF RevocationInv, TxnsSound, LocksHeld
    <3>2. \A s \in txn[u].written : session'[s] = "active"
      BY <1>2, <3>1 DEF TxnSound, TxnStates
    <3>3. \A s \in Announced(u) \ txn[u].written : session'[s] = "revoked"
      BY <1>2, <3>1 DEF TxnSound, TxnStates, Announced
    <3>4. \A s \in txn[u].todo : session'[s] # "none"
      BY <1>2, <3>1 DEF TxnSound, TxnStates
    <3> QED
      BY <3>1, <3>2, <3>3, <3>4 DEF TxnSound, Announced
  <2> QED
    BY <2>1, <2>2
<1>5. LocksHeld'
  BY <1>2, NoTxnSoundNext DEF RevocationInv, LocksHeld, RevokesAll
<1>6. ASSUME NEW s \in Sessions
      PROVE  /\ (session'[s] = "revoked") <=> (\E k \in Kinds : events'[s][k] > 0)
             /\ events'[s]["SessionRevoked"] <= 1
  <2>1. /\ (session[s] = "revoked") <=> (\E k \in Kinds : events[s][k] > 0)
        /\ events[s]["SessionRevoked"] <= 1
        /\ events[s] \in [Kinds -> Nat]
    BY DEF RevocationInv, RevokedHasEvent, RevokedOnce, TypeOK
  <2>2. CASE s \notin x.stored
    BY <1>1, <1>2, <1>3, <2>1, <2>2 DEF TxnSound
  <2>3. CASE s \in x.stored
    <3>1. events'[s] = [events[s] EXCEPT ![kind] = @ + 1]
      BY <1>2, <2>3
    <3>2. events'[s][kind] > 0
      BY <1>3, <2>1, <3>1
    <3>3. session'[s] = "revoked"
      BY <1>1, <1>2, <1>3, <2>3 DEF TxnSound
    <3>4. CASE ~ChangesPassword(x.kind)
      <4>1. session[s] = "active"
        BY <1>1, <1>3, <2>3, <3>4 DEF TxnSound
      <4>2. events[s]["SessionRevoked"] = 0
        BY <2>1, <4>1 DEF Kinds
      <4> QED
        BY <1>3, <2>1, <3>1, <3>2, <3>3, <3>4, <4>2 DEF Kinds
    <3>5. CASE ChangesPassword(x.kind)
      BY <1>3, <2>1, <3>1, <3>2, <3>3, <3>5 DEF Kinds
    <3> QED
      BY <3>4, <3>5
  <2> QED
    BY <2>2, <2>3
<1> QED
  BY <1>4, <1>5, <1>6 DEF RevocationInv, TxnsSound, RevokedHasEvent, RevokedOnce

LEMMA RevocationSteps ==
  ASSUME TypeOK, RevocationInv, [Next]_vars
  PROVE  RevocationInv'
<1>1. ASSUME NEW l \in Logins, NEW s \in Sessions,
             CreateSession(l, s) \/ ConsumeAndCreateSession(l, s)
      PROVE  RevocationInv'
  <2>1. UNCHANGED <<txn, events>> /\ session[s] = "none"
        /\ session' = [session EXCEPT ![s] = "active"]
    BY <1>1 DEF CreateSession, ConsumeAndCreateSession
  <2> QED
    BY <2>1, QuietSteps DEF TypeOK
<1>2. CASE UNCHANGED <<txn, events, session>>
  BY <1>2, QuietSteps
<1>3. \/ UNCHANGED <<txn, events, session>>
      \/ \E l \in Logins, s \in Sessions :
           CreateSession(l, s) \/ ConsumeAndCreateSession(l, s)
      \/ \E t \in Txns :
           \/ \E s \in Sessions : Logout(t, s) \/ Revoke(t, s)
           \/ \E kind \in RevokingAll : BeginRevokeAll(t, kind)
           \/ ListSessions(t) \/ StoreEvent(t) \/ Commit(t) \/ Rollback(t)
  BY DEF Next, vars, sessionVars, LoginStep, VerifyPassword, FindCredential,
         VerifyMFA, ConsumeRefused, LoginEnds, CreateChallenge, ClaimAttempt,
         RevokingStep, Reactivate, Environment, MfaConfirmed, SessionExpires,
         ChallengeExpires
<1> QED
  BY <1>1, <1>2, <1>3, RevokeSteps, StoreSteps, OpeningSteps, CommitSteps

LEMMA RevocationInitially == Init => RevocationInv
<1> SUFFICES ASSUME Init PROVE RevocationInv
  OBVIOUS
<1>1. \A t \in Txns : txn[t] = NoTxn
  BY DEF Init
<1>2. TxnsSound /\ LocksHeld
  BY <1>1, NoTxnSound DEF TxnsSound, LocksHeld
<1>3. RevokedHasEvent /\ RevokedOnce
  BY DEF Init, RevokedHasEvent, RevokedOnce, Kinds
<1> QED
  BY <1>2, <1>3 DEF RevocationInv

\* In a circle of waiting transactions at most one revokes all sessions.  A
\* logout that has written its row waits only for a rename, so the circle is not
\* of logouts alone, and what revokes all waits for such a logout.
LEMMA NoOtherCircle == TypeOK /\ RevocationInv => OnlyRenamesDeadlock
<1> SUFFICES ASSUME TypeOK, RevocationInv, NEW S \in SUBSET Txns, Deadlocked(S)
             PROVE  \E r, l \in S :
                      /\ txn[r].kind = "rename"
                      /\ txn[l].kind = "logout" /\ txn[l].due # {}
  BY DEF OnlyRenamesDeadlock
<1>1. \A t \in S : TxnSound(t) /\ txn[t] \in TxnStates
  BY DEF RevocationInv, TxnsSound, TypeOK
<1>2. \A t \in S : \E u \in S : MustWaitFor(t, u)
  BY DEF Deadlocked
<1>3. \A t \in S : txn[t].kind # "none"
  <2> SUFFICES ASSUME NEW t \in S, txn[t].kind = "none" PROVE FALSE
    OBVIOUS
  <2>1. txn[t].todo = {} /\ txn[t].due = {}
    BY <1>1, NoTxnSound DEF TxnSound
  <2> QED
    BY <1>2, <2>1 DEF MustWaitFor
<1>4. \A t \in S : RevokesAll(t) \/ txn[t].kind = "logout"
  BY <1>1, <1>3 DEF RevokesAll, TxnStates
<1>5. \A t, u \in S : RevokesAll(t) /\ RevokesAll(u) => t = u
  BY DEF RevocationInv, LocksHeld
\* A logout in S that has written its row.
<1>6. ASSUME NEW l \in S, txn[l].kind = "logout", txn[l].written # {}
      PROVE  \E r \in S : txn[r].kind = "rename" /\ txn[l].due # {}
  <2>1. txn[l].todo = {}
    BY <1>1, <1>6 DEF TxnSound
  <2> QED
    BY <1>2, <2>1 DEF MustWaitFor
<1>7. PICK t \in S : RevokesAll(t)
  <2> SUFFICES ASSUME \A t \in S : ~RevokesAll(t) PROVE FALSE
    OBVIOUS
  <2>1. \A r \in S : txn[r].kind # "rename"
    BY DEF RevokesAll, RevokingAll
  <2>2. PICK t \in S, l \in S : MustWaitFor(t, l)
    BY <1>2 DEF Deadlocked
  <2>3. txn[l].written # {}
    BY <2>1, <2>2 DEF MustWaitFor
  <2> QED
    BY <1>4, <1>6, <2>1, <2>3
<1>8. PICK l \in S : MustWaitFor(t, l)
  BY <1>2
<1>9. txn[l].kind = "logout"
  BY <1>4, <1>5, <1>7, <1>8 DEF MustWaitFor
<1>10. txn[l].written # {}
  BY <1>8, <1>9 DEF MustWaitFor
<1> QED
  BY <1>6, <1>9, <1>10

-----------------------------------------------------------------------------
(* Sign-ins and the revocations that overtake them.                        *)

\* The check is of the user as committed, and nobody is about to revoke.
Fresh(check) ==
  active /\ check.pw = password /\ \A t \in Txns : ~Listed(t)

\* A sign-in no revocation has overtaken is fresh, and so is a challenge; a
\* session made by one is on the list of whoever is about to revoke.
SignInsKnown ==
  /\ \A l \in Logins :
       (login[l].pc \in {"password", "session", "challenge"}
        /\ ~login[l].check.overtaken) => Fresh(login[l].check)
  /\ \A c \in Challenges :
       challenge[c] # "none" /\ ~behind[c].overtaken => Fresh(behind[c])
  /\ \A s \in Sessions :
       session[s] = "active" /\ ~behind[s].overtaken =>
         /\ active /\ behind[s].pw = password
         /\ \A t \in Txns : Listed(t) => s \in txn[t].todo \cup txn[t].written

\* The steps of a sign-in.
LEMMA SignInSteps ==
  ASSUME TypeOK, SignInsKnown, LoginStep
  PROVE  SignInsKnown'
<1>1. PICK l \in Logins :
        \/ VerifyPassword(l) \/ FindCredential(l) \/ VerifyMFA(l)
        \/ ConsumeRefused(l) \/ LoginEnds(l)
        \/ \E s \in Sessions : CreateSession(l, s) \/ ConsumeAndCreateSession(l, s)
        \/ \E c \in Challenges : CreateChallenge(l, c) \/ ClaimAttempt(l, c)
  BY DEF LoginStep
<1>2. /\ UNCHANGED <<active, password, txn>>
      /\ \A k \in Logins \ {l} : login'[k] = login[k]
  BY <1>1 DEF VerifyPassword, FindCredential, VerifyMFA, ConsumeRefused,
              LoginEnds, CreateSession, ConsumeAndCreateSession,
              CreateChallenge, ClaimAttempt, userVars, TypeOK
<1>3. \A k \in Checks : Fresh(k) <=> Fresh(k)'
  BY <1>2 DEF Fresh, Listed, RevokesAll
<1>4. login \in [Logins -> LoginStates] /\ login[l] \in LoginStates
  BY DEF TypeOK
<1>5. CASE /\ UNCHANGED <<session, challenge, behind>>
           /\ \/ login'[l].pc \notin {"password", "session", "challenge"}
              \/ /\ login[l].pc \in {"password", "session", "challenge"}
                 /\ login'[l].check = login[l].check
              \/ ~login'[l].check.overtaken => Fresh(login'[l].check)
  BY <1>2, <1>5 DEF SignInsKnown, Fresh, Listed, RevokesAll
<1>6. CASE VerifyPassword(l)
  <2> DEFINE b == \E t \in Txns : Listed(t)
             x == [pc |-> "password", check |-> [pw |-> password, overtaken |-> b]]
  <2>1. login'[l] = x /\ active /\ UNCHANGED <<session, challenge, behind>>
    BY <1>4, <1>6 DEF VerifyPassword, sessionVars, mfaVars
  <2>2. ~b => \A t \in Txns : ~Listed(t)
    OBVIOUS
  <2> HIDE DEF b
  <2>3. ~login'[l].check.overtaken => Fresh(login'[l].check)
    BY <2>1, <2>2 DEF Fresh
  <2> QED
    BY <1>5, <2>1, <2>3
<1>7. CASE FindCredential(l)
  <2>1. login[l] \in SignIns
    BY <1>7, LoginShapes DEF FindCredential
  <2>2. login'[l] = [login[l] EXCEPT !.pc = IF confirmed THEN "challenge" ELSE "session"]
    BY <1>4, <1>7 DEF FindCredential
  <2>3. login'[l].check = login[l].check
    BY <2>1, <2>2 DEF SignIns
  <2> QED
    BY <1>5, <1>7, <2>1, <2>3 DEF FindCredential, SignIns, sessionVars, mfaVars
<1>8. CASE VerifyMFA(l) \/ ConsumeRefused(l) \/ LoginEnds(l)
           \/ \E c \in Challenges : ClaimAttempt(l, c)
  <2>1. login'[l].pc \notin {"password", "session", "challenge"}
        /\ UNCHANGED <<session, challenge, behind>>
    BY <1>4, <1>8, LoginShapes
    DEF VerifyMFA, ConsumeRefused, LoginEnds, ClaimAttempt, NoLogin, Codes,
        sessionVars, mfaVars
  <2> QED
    BY <1>5, <2>1
<1>9. ASSUME NEW s \in Sessions, CreateSession(l, s)
      PROVE  SignInsKnown'
  <2>1. /\ login[l].check \in Checks /\ login'[l].pc = "idle"
        /\ ~login[l].check.overtaken => Fresh(login[l].check)
    BY <1>4, <1>9, LoginShapes
    DEF CreateSession, SignIns, NoLogin, SignInsKnown
  <2>2. /\ session' = [session EXCEPT ![s] = "active"]
        /\ behind' = [behind EXCEPT ![s] = login[l].check]
        /\ UNCHANGED challenge
    BY <1>9 DEF CreateSession, mfaVars
  <2>3. behind'[s] = login[l].check
        /\ \A y \in Sessions \cup Challenges : y # s => behind'[y] = behind[y]
    BY <2>2 DEF TypeOK
  <2> QED
    BY <1>2, <2>1, <2>2, <2>3 DEF SignInsKnown, Fresh, Listed, RevokesAll, TypeOK
<1>10. ASSUME NEW s \in Sessions, ConsumeAndCreateSession(l, s)
       PROVE  SignInsKnown'
  <2> DEFINE c == login[l].of
  <2>1. c \in Challenges /\ login'[l].pc = "idle" /\ challenge[c] = "open"
    BY <1>4, <1>10, LoginShapes
    DEF ConsumeAndCreateSession, Codes, NoLogin, Consumable
  <2>2. /\ session' = [session EXCEPT ![s] = "active"]
        /\ behind' = [behind EXCEPT ![s] = behind[c]]
        /\ challenge' = [challenge EXCEPT ![c] = "used"]
    BY <1>10 DEF ConsumeAndCreateSession
  <2> HIDE DEF c
  <2>3. behind'[s] = behind[c] /\ (~behind[c].overtaken => Fresh(behind[c]))
        /\ \A y \in Sessions \cup Challenges : y # s => behind'[y] = behind[y]
    BY <2>1, <2>2 DEF TypeOK, SignInsKnown
  <2> QED
    BY <1>2, <2>1, <2>2, <2>3 DEF SignInsKnown, Fresh, Listed, RevokesAll, TypeOK
<1>11. ASSUME NEW c \in Challenges, CreateChallenge(l, c)
       PROVE  SignInsKnown'
  <2>1. /\ login[l].check \in Checks /\ login'[l].pc = "idle"
        /\ ~login[l].check.overtaken => Fresh(login[l].check)
    BY <1>4, <1>11, LoginShapes
    DEF CreateChallenge, SignIns, NoLogin, SignInsKnown
  <2>2. /\ challenge' = [challenge EXCEPT ![c] = "open"]
        /\ behind' = [behind EXCEPT ![c] = login[l].check]
        /\ UNCHANGED session
    BY <1>11 DEF CreateChallenge, sessionVars
  <2>3. behind'[c] = login[l].check
        /\ \A y \in Sessions \cup Challenges : y # c => behind'[y] = behind[y]
    BY <2>2 DEF TypeOK
  <2> QED
    BY <1>2, <2>1, <2>2, <2>3 DEF SignInsKnown, Fresh, Listed, RevokesAll, TypeOK
<1> QED
  BY <1>1, <1>6, <1>7, <1>8, <1>9, <1>10, <1>11

\* Steps after which no transaction holds a new list, and users are the same.
LEMMA ListsShrink ==
  ASSUME SignInsKnown, UNCHANGED <<active, password, login, behind>>,
         \A c \in Challenges : challenge[c] = "none" => challenge'[c] = "none",
         \A s \in Sessions : session'[s] = "active" => session[s] = "active",
         \A t \in Txns :
           Listed(t)' =>
             /\ Listed(t)
             /\ \A s \in Sessions :
                  session'[s] = "active" /\ s \in txn[t].todo \cup txn[t].written
                    => s \in txn'[t].todo \cup txn'[t].written
  PROVE  SignInsKnown'
BY DEF SignInsKnown, Fresh

LEMMA OvertakingSteps ==
  ASSUME TypeOK, RevocationInv, SignInsKnown, RevokingStep
  PROVE  SignInsKnown'
<1>0. txn \in [Txns -> TxnStates]
  BY DEF TypeOK
<1>1. CASE Reactivate
  BY <1>1 DEF Reactivate, SignInsKnown, Fresh, sessionVars, mfaVars
<1>2. ASSUME NEW t \in Txns, NEW s \in Sessions, Logout(t, s)
      PROVE  SignInsKnown'
  <2>1. /\ txn'[t] = Opened("logout", "revoke", {s})
        /\ \A u \in Txns \ {t} : txn'[u] = txn[u]
        /\ UNCHANGED <<active, password, login, behind, challenge, session>>
    BY <1>0, <1>2 DEF Logout, userVars, sessionVars, mfaVars
  <2>2. ~Listed(t)'
    BY <2>1 DEF Listed, RevokesAll, RevokingAll, Opened
  <2> QED
    BY <2>1, <2>2, ListsShrink DEF Listed, RevokesAll
<1>3. ASSUME NEW t \in Txns, NEW kind \in RevokingAll, BeginRevokeAll(t, kind)
      PROVE  SignInsKnown'
  <2>1. /\ txn'[t] = Opened(kind, "list", {})
        /\ \A u \in Txns \ {t} : txn'[u] = txn[u]
        /\ UNCHANGED <<active, password, login, behind, challenge, session>>
    BY <1>0, <1>3 DEF BeginRevokeAll, userVars, sessionVars, mfaVars
  <2>2. ~Listed(t)'
    BY <2>1 DEF Listed, RevokesAll, Opened
  <2> QED
    BY <2>1, <2>2, ListsShrink DEF Listed, RevokesAll
<1>4. ASSUME NEW t \in Txns, ListSessions(t)
      PROVE  SignInsKnown'
  <2>1. /\ \A u \in Txns \ {t} : txn'[u] = txn[u]
        /\ txn'[t].todo = {s \in Sessions : session[s] = "active"}
        /\ RevokesAll(t)
        /\ UNCHANGED <<active, password, challenge, session>>
    BY <1>0, <1>4 DEF ListSessions, userVars, sessionVars, mfaVars, TxnStates
  <2>2. \A u \in Txns \ {t} : ~Listed(u)'
    BY <2>1 DEF RevocationInv, LocksHeld, Listed, RevokesAll
  <2>3. ASSUME NEW l \in Logins,
               login'[l].pc \in {"password", "session", "challenge"}
        PROVE  login'[l].check.overtaken
    <3>1. CASE login[l].pc \in {"password", "session", "challenge"}
      <4>1. login[l] \in SignIns
        BY <3>1, LoginShapes
      <4>2. login'[l] = [login[l] EXCEPT !.check.overtaken = TRUE]
        BY <1>4, <3>1 DEF ListSessions
      <4> QED
        BY <4>1, <4>2 DEF SignIns, Checks
    <3>2. CASE login[l].pc \notin {"password", "session", "challenge"}
      BY <1>4, <2>3, <3>2 DEF ListSessions
    <3> QED
      BY <3>1, <3>2
  <2>4. ASSUME NEW c \in Challenges
        PROVE  behind'[c].overtaken
    <3>1. behind[c] \in Checks /\ behind'[c] = [behind[c] EXCEPT !.overtaken = TRUE]
      BY <1>4 DEF ListSessions, TypeOK
    <3> QED
      BY <3>1 DEF Checks
  <2>5. ASSUME NEW s \in Sessions
        PROVE  behind'[s].overtaken \/ behind'[s] = behind[s]
    BY <1>4, <2>4 DEF ListSessions
  <2> QED
    BY <2>1, <2>2, <2>3, <2>4, <2>5 DEF SignInsKnown, Listed
<1>5. ASSUME NEW t \in Txns, NEW s \in Sessions, Revoke(t, s)
      PROVE  SignInsKnown'
  <2>1. /\ \A u \in Txns \ {t} : txn'[u] = txn[u]
        /\ UNCHANGED <<active, password, login, behind, challenge, session>>
    BY <1>0, <1>5 DEF Revoke, RevokeActive, RevokeGone, userVars, sessionVars,
                      mfaVars
  <2>2. CASE RevokeActive(t, s)
    <3>1. /\ txn'[t].todo = txn[t].todo \ {s}
          /\ txn'[t].written = txn[t].written \cup {s}
          /\ txn'[t].kind = txn[t].kind /\ txn'[t].pc = txn[t].pc
      BY <1>0, <2>2 DEF RevokeActive, TxnStates
    <3> QED
      BY <2>1, <3>1, ListsShrink DEF Listed, RevokesAll
  <2>3. CASE RevokeGone(t, s) /\ ChangesPassword(txn[t].kind)
    <3>1. /\ txn'[t].todo = txn[t].todo \ {s}
          /\ txn'[t].written = txn[t].written
          /\ txn'[t].kind = txn[t].kind /\ txn'[t].pc = txn[t].pc
          /\ session[s] # "active"
      BY <1>0, <2>3 DEF RevokeGone, TxnStates
    <3> QED
      BY <2>1, <3>1, ListsShrink DEF Listed, RevokesAll
  <2>4. CASE RevokeGone(t, s) /\ ~ChangesPassword(txn[t].kind)
    <3>1. txn'[t] = NoTxn
      BY <1>0, <2>4 DEF RevokeGone
    <3>2. ~Listed(t)'
      BY <3>1, NoTxnSoundNext DEF Listed
    <3> QED
      BY <2>1, <3>2, ListsShrink DEF Listed, RevokesAll
  <2> QED
    BY <1>5, <2>2, <2>3, <2>4 DEF Revoke
<1>6. ASSUME NEW t \in Txns, Rollback(t)
      PROVE  SignInsKnown'
  <2>1. /\ txn'[t] = NoTxn /\ \A u \in Txns \ {t} : txn'[u] = txn[u]
        /\ UNCHANGED <<active, password, login, behind, challenge, session>>
    BY <1>0, <1>6 DEF Rollback, userVars, sessionVars, mfaVars
  <2>2. ~Listed(t)'
    BY <2>1, NoTxnSoundNext DEF Listed
  <2> QED
    BY <2>1, <2>2, ListsShrink DEF Listed, RevokesAll
<1>7. ASSUME NEW t \in Txns, Commit(t)
      PROVE  SignInsKnown'
  <2>1. /\ txn[t].pc = "revoke" /\ txn[t].todo = {}
        /\ \A s \in Sessions :
             session'[s] = IF s \in txn[t].written THEN "revoked" ELSE session[s]
        /\ txn'[t] = NoTxn /\ \A u \in Txns \ {t} : txn'[u] = txn[u]
        /\ UNCHANGED <<login, behind, challenge>>
    BY <1>0, <1>7 DEF Commit, mfaVars
  <2>2. ~Listed(t)'
    BY <2>1, NoTxnSoundNext DEF Listed
  <2>3. CASE Listed(t)
    BY <2>1, <2>3 DEF SignInsKnown, Fresh
  <2>4. CASE ~Listed(t)
    <3>1. txn[t].kind # "deactivate" /\ ~ChangesPassword(txn[t].kind)
      BY <2>1, <2>4 DEF Listed, RevokesAll, RevokingAll, ChangesPassword
    <3>2. UNCHANGED password
      BY <1>7, <3>1 DEF Commit
    <3>3. UNCHANGED active
      BY <1>7, <3>1, Zenon DEF Commit, TypeOK
    <3> QED
      BY <2>1, <2>2, <3>2, <3>3, ListsShrink DEF Listed, RevokesAll
  <2> QED
    BY <2>3, <2>4
<1>8. ASSUME NEW t \in Txns, StoreEvent(t)
      PROVE  SignInsKnown'
  <2>1. /\ \A u \in Txns \ {t} : txn'[u] = txn[u]
        /\ UNCHANGED <<active, password, login, behind, challenge, session>>
    BY <1>0, <1>8 DEF StoreEvent, userVars, sessionVars, mfaVars
  <2>2. /\ txn'[t].todo = txn[t].todo /\ txn'[t].written = txn[t].written
        /\ txn'[t].kind = txn[t].kind /\ txn'[t].pc = txn[t].pc
    BY <1>0, <1>8 DEF StoreEvent, TxnStates
  <2> QED
    BY <2>1, <2>2, ListsShrink DEF Listed, RevokesAll
<1> QED
  BY <1>1, <1>2, <1>3, <1>4, <1>5, <1>6, <1>7, <1>8 DEF RevokingStep

LEMMA SignInsSteps ==
  ASSUME TypeOK, RevocationInv, SignInsKnown, [Next]_vars
  PROVE  SignInsKnown'
<1>1. CASE Environment \/ UNCHANGED vars
  <2>1. /\ UNCHANGED <<active, password, login, behind, txn, session>>
        /\ \A c \in Challenges : challenge[c] = "none" => challenge'[c] = "none"
    BY <1>1 DEF Environment, MfaConfirmed, SessionExpires, ChallengeExpires,
                TypeOK, vars, userVars, sessionVars, mfaVars
  <2> QED
    BY <2>1, ListsShrink DEF Listed, RevokesAll
<1> QED
  BY <1>1, SignInSteps, OvertakingSteps DEF Next

LEMMA SignInsInitially == Init => SignInsKnown
BY DEF Init, SignInsKnown, NoLogin

-----------------------------------------------------------------------------
(* The theorems.                                                           *)

CentralInv == TypeOK /\ ChallengesCounted /\ RevocationInv /\ SignInsKnown

LEMMA InvInitially == Init => CentralInv
BY TypesInitially, ChallengesInitially, RevocationInitially, SignInsInitially
DEF CentralInv

LEMMA InvSteps == CentralInv /\ [Next]_vars => CentralInv'
BY TypeSteps, ChallengeSteps, RevocationSteps, SignInsSteps DEF CentralInv

\* Every variable keeps its type.
THEOREM SessionTypeCorrect == Spec => []TypeOK
<1>1. CentralInv => TypeOK
  BY DEF CentralInv
<1> QED
  BY <1>1, InvInitially, InvSteps, PTL DEF Spec

\* The status change of a session and its outbox row commit together, for any
\* number of racing logouts, deactivations and password changes.
THEOREM RevocationHasEvent == Spec => []RevokedHasEvent
<1>1. CentralInv => RevokedHasEvent
  BY DEF CentralInv, RevocationInv
<1> QED
  BY <1>1, InvInitially, InvSteps, PTL DEF Spec

\* Of all transactions that saw a session active one stores SessionRevoked.
THEOREM OneRevocation == Spec => []RevokedOnce
<1>1. CentralInv => RevokedOnce
  BY DEF CentralInv, RevocationInv
<1> QED
  BY <1>1, InvInitially, InvSteps, PTL DEF Spec

\* In every circle of revoking transactions that wait for each other, of any
\* number of them, there is a change of e-mail address and password, and a logout
\* between its two statements.
THEOREM DeadlocksNeedRename == Spec => []OnlyRenamesDeadlock
<1>1. CentralInv => OnlyRenamesDeadlock
  BY NoOtherCircle DEF CentralInv
<1> QED
  BY <1>1, InvInitially, InvSteps, PTL DEF Spec

\* After a deactivation or a password change only sessions of sign-ins it
\* overtook are left, however many sign-ins and revocations interleave.
THEOREM RevocationReachesSessions == Spec => []RevokedSessionsGone
<1>1. CentralInv => RevokedSessionsGone
  BY DEF CentralInv, SignInsKnown, RevokedSessionsGone
<1> QED
  BY <1>1, InvInitially, InvSteps, PTL DEF Spec

\* A challenge makes one session at most.
THEOREM ChallengeUsedOnce == Spec => []ChallengeSingleUse
<1>1. CentralInv => ChallengeSingleUse
  BY DEF CentralInv, ChallengesCounted, ChallengeSingleUse
<1> QED
  BY <1>1, InvInitially, InvSteps, PTL DEF Spec

\* The attempts of a challenge never run out between the claim of one and the
\* use of its correct code: claims stop at MaxAttempts, and a code counts up to
\* and with it.
THEOREM ClaimsAreHonoured == Spec => ClaimedCodeHonoured
<1>1. ASSUME CentralInv, [Next]_vars
      PROVE  [\A l \in Logins :
                (login[l].pc = "consume" /\ login'[l].pc = "refused")
                  => challenge[login[l].of] # "open"]_vars
  <2> SUFFICES ASSUME Next, NEW l \in Logins, login[l].pc = "consume",
                      login'[l].pc = "refused"
               PROVE  challenge[login[l].of] # "open"
    BY <1>1
  <2>1. TypeOK /\ ChallengesCounted /\ login \in [Logins -> LoginStates]
    BY <1>1 DEF CentralInv, TypeOK
  <2>2. CASE LoginStep
    <3>1. PICK k \in Logins :
            \/ VerifyPassword(k) \/ FindCredential(k) \/ VerifyMFA(k)
            \/ ConsumeRefused(k) \/ LoginEnds(k)
            \/ \E s \in Sessions : CreateSession(k, s) \/ ConsumeAndCreateSession(k, s)
            \/ \E c \in Challenges : CreateChallenge(k, c) \/ ClaimAttempt(k, c)
      BY <2>2 DEF LoginStep
    <3>2. k = l
      BY <2>1, <3>1
      DEF VerifyPassword, FindCredential, VerifyMFA, ConsumeRefused, LoginEnds,
          CreateSession, ConsumeAndCreateSession, CreateChallenge, ClaimAttempt
    <3>3. ConsumeRefused(l)
      BY <2>1, <3>1, <3>2
      DEF VerifyPassword, FindCredential, VerifyMFA, LoginEnds, CreateSession,
          ConsumeAndCreateSession, CreateChallenge, ClaimAttempt, NoLogin
    <3>4. login[l].of \in Challenges
      BY <2>1, LoginShapes DEF Codes
    <3> QED
      BY <2>1, <3>3, <3>4, MaxAttemptsAssumption DEF ConsumeRefused, Consumable, TypeOK
  <2>3. CASE RevokingStep \/ Environment
    <3>1. \/ UNCHANGED login
          \/ \E t \in Txns : ListSessions(t)
      BY <2>3 DEF RevokingStep, Reactivate, Logout, Revoke, StoreEvent, BeginRevokeAll,
                  Commit, Rollback, Environment, MfaConfirmed, SessionExpires,
                  ChallengeExpires
    <3> QED
      BY <2>1, <3>1 DEF ListSessions
  <2> QED
    BY <2>2, <2>3 DEF Next
<1> QED
  BY <1>1, InvInitially, InvSteps, PTL DEF Spec, ClaimedCodeHonoured
=============================================================================
