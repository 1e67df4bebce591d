---------------------------- MODULE MfaEnrollment ----------------------------
(***************************************************************************)
(* The TOTP credential of one user: the row user_totp_credentials that     *)
(* /mfa/enroll writes (EnrollPending) and /mfa/enroll/confirm counts       *)
(* attempts on (ClaimEnrollAttempt), verifies (VerifyMFA), activates       *)
(* (Confirm) and clears (ResetEnrollAttempts).                             *)
(*                                                                         *)
(* Every call is a statement of its own outside any transaction, and the   *)
(* ones that follow a SELECT name the row by its key only, so requests of  *)
(* two browser tabs interleave between any two of them.                    *)
(***************************************************************************)
EXTENDS Integers

CONSTANTS
  Enrollments,    \* concurrent enrollment requests
  Confirmations,  \* concurrent confirmation requests
  MaxAttempts,    \* enrollMaxAttempts
  MaxSecrets,     \* bound on the secrets generated
  MaxExpiries     \* bound on the locks that run out

ASSUME MaxAttemptsAssumption == MaxAttempts \in Nat \ {0}
ASSUME BoundsAssumption == MaxSecrets \in Nat /\ MaxExpiries \in Nat

VARIABLES
  secret,       \* the secret in the row, by number; 0: there is no row
  confirmed,    \* the row's confirmed
  attempts,     \* the row's enroll_attempts
  locked,       \* the row's enroll_locked_until is in the future
  generated,    \* secrets generated so far
  expiries,     \* locks that have run out so far
  enroll,       \* enroll[e]: the step an enrollment has reached
  confirm,      \* confirm[c]: the step a confirmation has reached
  verified,     \* history: secrets a correct code was verified for
  slipped,      \* history: secrets stored between the verification of
                \* another one and the Confirm that followed it
  tries         \* history: attempts claimed since the counter was last
                \* cleared or a lock ran out

row    == <<secret, confirmed, attempts, locked>>
counts == <<generated, expiries>>
vars   == <<row, counts, enroll, confirm, verified, slipped, tries>>

Secrets == 1 .. MaxSecrets

\* new: the secret the request has generated; late: the row has been confirmed
\* since the request read it (history).
NoEnrollment == [pc |-> "idle", new |-> 0, late |-> FALSE]

TypeOK ==
  /\ secret    \in 0 .. generated
  /\ confirmed \in BOOLEAN
  /\ attempts  \in Nat
  /\ locked    \in BOOLEAN
  /\ generated \in 0 .. MaxSecrets
  /\ expiries  \in 0 .. MaxExpiries
  /\ enroll    \in [Enrollments ->
                     [pc : {"idle", "create", "update"}, new : 0 .. MaxSecrets,
                      late : BOOLEAN]]
  /\ confirm   \in [Confirmations -> {"idle", "verify", "confirm", "reset"}]
  /\ verified  \in SUBSET Secrets
  /\ slipped   \in SUBSET Secrets
  /\ tries     \in Nat

Init ==
  /\ secret = 0 /\ confirmed = FALSE /\ attempts = 0 /\ locked = FALSE
  /\ generated = 0 /\ expiries = 0
  /\ enroll = [e \in Enrollments |-> NoEnrollment]
  /\ confirm = [c \in Confirmations |-> "idle"]
  /\ verified = {} /\ slipped = {} /\ tries = 0

-----------------------------------------------------------------------------
(* EnrollPending                                                           *)

\* Faulty variant (OverwrittenByRaceOnly): the row's confirmed is not looked at.
MayEnroll_Always == TRUE

MayEnroll == ~confirmed

\* The secret is generated, then the row read.  Of a confirmed row the request
\* ends with ErrTOTPAlreadyConfirmed, and so it does in the handler's own look
\* before (mfaAlreadyConfirmed), which goes on when it cannot read the row.
SelectRow(e) ==
  /\ enroll[e].pc = "idle" /\ generated < MaxSecrets
  /\ MayEnroll
  /\ generated' = generated + 1
  /\ enroll' = [enroll EXCEPT ![e] =
       [pc |-> IF secret = 0 THEN "create" ELSE "update",
        new |-> generated + 1, late |-> FALSE]]
  /\ UNCHANGED <<row, expiries, confirm, verified, slipped, tries>>

\* A fresh, unconfirmed, unlocked credential takes the place of whatever the
\* row holds.
Store(n) ==
  /\ secret' = n /\ confirmed' = FALSE /\ attempts' = 0 /\ locked' = FALSE
  /\ tries' = 0
  /\ slipped' = IF \E c \in Confirmations : confirm[c] = "confirm"
                THEN slipped \cup {n} ELSE slipped

\* INSERT: user_id is unique, so another request's row makes it fail.
Create(e) ==
  /\ enroll[e].pc = "create"
  /\ enroll' = [enroll EXCEPT ![e] = NoEnrollment]
  /\ \/ secret = 0 /\ Store(enroll[e].new)
     \/ secret # 0 /\ UNCHANGED <<row, slipped, tries>>
  /\ UNCHANGED <<counts, confirm, verified>>

\* UPDATE by primary key: what was read is not asked again.
Update(e) ==
  /\ enroll[e].pc = "update"
  /\ enroll' = [enroll EXCEPT ![e] = NoEnrollment]
  /\ Store(enroll[e].new)
  /\ UNCHANGED <<counts, confirm, verified>>

EnrollmentDies(e) ==
  /\ enroll[e].pc # "idle"
  /\ enroll' = [enroll EXCEPT ![e] = NoEnrollment]
  /\ UNCHANGED <<row, counts, confirm, verified, slipped, tries>>

-----------------------------------------------------------------------------
(* ConfirmMFAEnrollment                                                    *)

\* Faulty variant (TriesBounded): one attempt too many before the lock.
Locks_Late == attempts + 1 > MaxAttempts

Locks == attempts + 1 >= MaxAttempts

\* One UPDATE counts the attempt and sets the lock; a locked or missing row is
\* not found and the request refused.
ClaimEnrollAttempt(c) ==
  /\ confirm[c] = "idle"
  /\ secret # 0 /\ ~locked
  /\ attempts' = attempts + 1
  /\ locked' = Locks
  /\ tries' = tries + 1
  /\ confirm' = [confirm EXCEPT ![c] = "verify"]
  /\ UNCHANGED <<secret, confirmed, counts, enroll, verified, slipped>>

\* The code is right for the secret the row holds now, or it is not.
VerifyMFA(c) ==
  /\ confirm[c] = "verify"
  /\ \/ /\ confirm' = [confirm EXCEPT ![c] = "confirm"]
        /\ verified' = verified \cup {secret}
     \/ /\ confirm' = [confirm EXCEPT ![c] = "idle"]
        /\ UNCHANGED verified
  /\ UNCHANGED <<row, counts, enroll, slipped, tries>>

\* Faulty variant (ActiveSecretVerified): the answer of VerifyMFA is ignored.
Answered_Any(c) == confirm[c] \in {"verify", "confirm"}

Answered(c) == confirm[c] = "confirm"

\* Confirm names the user only: whatever secret the row holds is activated.
Confirm(c) ==
  /\ Answered(c)
  /\ confirmed' = TRUE
  /\ enroll' = [e \in Enrollments |->
       IF enroll[e].pc = "idle" THEN enroll[e] ELSE [enroll[e] EXCEPT !.late = TRUE]]
  /\ confirm' = [confirm EXCEPT ![c] = "reset"]
  /\ UNCHANGED <<secret, attempts, locked, counts, verified, slipped, tries>>

\* Faulty variant (TypeOK): the claim is given back instead of the counter
\* cleared, also when an enrollment has cleared it meanwhile.
ResetEnrollAttempts_GivesBack(c) ==
  /\ confirm[c] = "reset"
  /\ attempts' = attempts - 1 /\ locked' = FALSE /\ tries' = 0
  /\ confirm' = [confirm EXCEPT ![c] = "idle"]
  /\ UNCHANGED <<secret, confirmed, counts, enroll, verified, slipped>>

ResetEnrollAttempts(c) ==
  /\ confirm[c] = "reset"
  /\ attempts' = 0 /\ locked' = FALSE /\ tries' = 0
  /\ confirm' = [confirm EXCEPT ![c] = "idle"]
  /\ UNCHANGED <<secret, confirmed, counts, enroll, verified, slipped>>

\* The request dies, or a statement fails; the result of the reset is ignored.
ConfirmationDies(c) ==
  /\ confirm[c] # "idle"
  /\ confirm' = [confirm EXCEPT ![c] = "idle"]
  /\ UNCHANGED <<row, counts, enroll, verified, slipped, tries>>

\* The counter keeps its value: the next attempt locks again.
LockRunsOut ==
  /\ locked /\ expiries < MaxExpiries
  /\ locked' = FALSE
  /\ expiries' = expiries + 1
  /\ tries' = 0
  /\ UNCHANGED <<secret, confirmed, attempts, generated, enroll, confirm,
                 verified, slipped>>

Next ==
  \/ \E e \in Enrollments :
       SelectRow(e) \/ Create(e) \/ Update(e) \/ EnrollmentDies(e)
  \/ \E c \in Confirmations :
       \/ ClaimEnrollAttempt(c) \/ VerifyMFA(c) \/ Confirm(c)
       \/ ResetEnrollAttempts(c) \/ ConfirmationDies(c)
  \/ LockRunsOut

Spec == Init /\ [][Next]_vars

-----------------------------------------------------------------------------
(* Properties                                                              *)

\* The comment on EnrollPending: "A confirmed credential is never overwritten".
NeverOverwritten ==
  [][confirmed => (confirmed' /\ secret' = secret)]_vars

\* What the code does keep: a confirmed credential is overwritten only by an
\* enrollment that had read the row before it was confirmed.  Visiting the
\* enrollment page later never downgrades it.
OverwrittenByRaceOnly ==
  [][(confirmed /\ ~(confirmed' /\ secret' = secret)) =>
       \E e \in Enrollments : enroll[e].late /\ enroll'[e].pc = "idle"]_vars

\* An active second factor is one the user has shown a correct code for, unless
\* an enrollment replaced the secret between the verification of the old one
\* and its Confirm.
ActiveSecretVerified == confirmed => secret \in verified \cup slipped

\* Of one credential no more than MaxAttempts codes are tried before a lock
\* stands or the counter is cleared, however many confirmations race
\* (the comment on ClaimEnrollAttempt).
TriesBounded == tries <= MaxAttempts
=============================================================================
