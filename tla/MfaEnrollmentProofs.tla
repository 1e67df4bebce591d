------------------------ MODULE MfaEnrollmentProofs -------------------------
(***************************************************************************)
(* The safety properties of MfaEnrollment for any number of requests, any  *)
(* attempt limit and any bounds.                                           *)
(***************************************************************************)
EXTENDS MfaEnrollment, TLAPS

\* The counter covers the attempts since it was last cleared, and an unlocked
\* row has room for one more.
TriesCounted ==
  /\ tries <= attempts
  /\ tries <= MaxAttempts
  /\ ~locked => tries < MaxAttempts

\* A pending enrollment carries a secret; a confirmation has found a row.
RequestsGrounded ==
  /\ \A e \in Enrollments :
       enroll[e].pc # "idle" => enroll[e].new \in 1 .. generated
  /\ \A c \in Confirmations : confirm[c] # "idle" => secret # 0
  /\ confirmed => secret # 0

\* Whatever Confirm may activate was verified, or slipped in.
ConfirmsVerified ==
  /\ \A c \in Confirmations :
       confirm[c] = "confirm" => secret \in verified \cup slipped
  /\ ActiveSecretVerified

\* A pending enrollment that is not late has found the row unconfirmed, and so
\* it still is.
LateIsKnown ==
  \A e \in Enrollments :
    enroll[e].pc # "idle" /\ ~enroll[e].late => ~confirmed

EnrollInv ==
  TypeOK /\ TriesCounted /\ RequestsGrounded /\ ConfirmsVerified /\ LateIsKnown

LEMMA InitInv == Init => EnrollInv
<1> SUFFICES ASSUME Init PROVE EnrollInv
  OBVIOUS
<1>1. /\ enroll \in [Enrollments -> [pc : {"idle", "create", "update"},
                                    new : 0 .. MaxSecrets, late : BOOLEAN]]
      /\ \A e \in Enrollments : enroll[e].pc = "idle"
  BY BoundsAssumption DEF Init, NoEnrollment
<1>2. TypeOK
  <2>1. confirmed \in BOOLEAN /\ locked \in BOOLEAN
    BY Zenon DEF Init
  <2>2. confirm \in [Confirmations -> {"idle", "verify", "confirm", "reset"}]
    BY DEF Init
  <2> QED
    BY <1>1, <2>1, <2>2, BoundsAssumption DEF Init, TypeOK
<1>3. TriesCounted
  BY MaxAttemptsAssumption DEF Init, TriesCounted
<1>4. RequestsGrounded /\ ConfirmsVerified /\ LateIsKnown
  BY <1>1 DEF Init, RequestsGrounded, ConfirmsVerified, ActiveSecretVerified,
              LateIsKnown
<1> QED
  BY <1>2, <1>3, <1>4 DEF EnrollInv

\* The row gets secret n: by Create and Update.
LEMMA StoreSteps ==
  ASSUME EnrollInv, NEW e \in Enrollments, enroll[e].pc # "idle",
         enroll' = [enroll EXCEPT ![e] = NoEnrollment],
         Store(enroll[e].new), UNCHANGED <<counts, confirm, verified>>
  PROVE  EnrollInv'
<1> USE MaxAttemptsAssumption, BoundsAssumption
<1>1. enroll[e].new \in 1 .. generated /\ enroll[e].new \in Secrets
  BY DEF EnrollInv, TypeOK, RequestsGrounded, Secrets
<1>2. TypeOK'
  <2>1. enroll' \in [Enrollments -> [pc : {"idle", "create", "update"},
                                    new : 0 .. MaxSecrets, late : BOOLEAN]]
    BY DEF EnrollInv, TypeOK, NoEnrollment
  <2>2. slipped' \in SUBSET Secrets
    BY <1>1 DEF EnrollInv, TypeOK, Store
  <2>3. secret' \in 0 .. generated'
    BY <1>1 DEF EnrollInv, TypeOK, Store, counts
  <2> QED
    BY <2>1, <2>2, <2>3 DEF EnrollInv, TypeOK, Store, counts
<1>3. TriesCounted' /\ LateIsKnown'
  BY DEF EnrollInv, TriesCounted, LateIsKnown, Store
<1>4. RequestsGrounded'
  BY <1>1 DEF EnrollInv, TypeOK, RequestsGrounded, Store, counts, NoEnrollment
<1>5. ConfirmsVerified'
  BY <1>1 DEF EnrollInv, TypeOK, ConfirmsVerified, ActiveSecretVerified, Store
<1> QED
  BY <1>2, <1>3, <1>4, <1>5 DEF EnrollInv

\* The other steps of an enrollment.
LEMMA EnrollmentSteps ==
  ASSUME EnrollInv, NEW e \in Enrollments,
         SelectRow(e) \/ Create(e) \/ Update(e) \/ EnrollmentDies(e)
  PROVE  EnrollInv'
<1> USE MaxAttemptsAssumption, BoundsAssumption
<1>1. CASE SelectRow(e)
  <2>1. TypeOK'
    BY <1>1 DEF EnrollInv, TypeOK, SelectRow, row, Secrets
  <2>2. TriesCounted' /\ ConfirmsVerified'
    BY <1>1 DEF EnrollInv, TriesCounted, ConfirmsVerified,
                ActiveSecretVerified, SelectRow, row
  <2>3. RequestsGrounded'
    BY <1>1 DEF EnrollInv, TypeOK, RequestsGrounded, SelectRow, row
  <2>4. LateIsKnown'
    BY <1>1 DEF EnrollInv, TypeOK, LateIsKnown, SelectRow, row, MayEnroll
  <2> QED
    BY <2>1, <2>2, <2>3, <2>4 DEF EnrollInv
<1>2. CASE EnrollmentDies(e) \/ (Create(e) /\ secret # 0)
  <2>1. enroll' = [enroll EXCEPT ![e] = NoEnrollment]
        /\ UNCHANGED <<row, counts, confirm, verified, slipped, tries>>
    BY <1>2 DEF EnrollmentDies, Create, row
  <2>2. TypeOK'
    BY <2>1 DEF EnrollInv, TypeOK, row, counts, NoEnrollment, Secrets
  <2>3. TriesCounted' /\ ConfirmsVerified'
    BY <2>1 DEF EnrollInv, TriesCounted, ConfirmsVerified,
                ActiveSecretVerified, row
  <2>4. RequestsGrounded' /\ LateIsKnown'
    BY <2>1 DEF EnrollInv, TypeOK, RequestsGrounded, LateIsKnown, row, counts,
                NoEnrollment
  <2> QED
    BY <2>2, <2>3, <2>4 DEF EnrollInv
<1>3. CASE Create(e) /\ secret = 0
  BY <1>3, StoreSteps DEF Create
<1>4. CASE Update(e)
  BY <1>4, StoreSteps DEF Update
<1> QED
  BY <1>1, <1>2, <1>3, <1>4

\* The steps of a confirmation.
LEMMA ConfirmationSteps ==
  ASSUME EnrollInv, NEW c \in Confirmations,
         \/ ClaimEnrollAttempt(c) \/ VerifyMFA(c) \/ Confirm(c)
         \/ ResetEnrollAttempts(c) \/ ConfirmationDies(c)
  PROVE  EnrollInv'
<1> USE MaxAttemptsAssumption, BoundsAssumption
<1>1. CASE ClaimEnrollAttempt(c)
  <2>1. TypeOK'
    BY <1>1 DEF EnrollInv, TypeOK, ClaimEnrollAttempt, counts, Secrets, Locks
  <2>2. TriesCounted'
    <3>1. tries' <= attempts' /\ tries' <= MaxAttempts
      BY <1>1 DEF EnrollInv, TypeOK, TriesCounted, ClaimEnrollAttempt
    <3>2. CASE attempts + 1 >= MaxAttempts
      BY <1>1, <3>1, <3>2 DEF TriesCounted, ClaimEnrollAttempt, Locks
    <3>3. CASE ~(attempts + 1 >= MaxAttempts)
      <4>1. tries' < MaxAttempts
        BY <1>1, <3>3 DEF EnrollInv, TypeOK, TriesCounted, ClaimEnrollAttempt
      <4> QED
        BY <3>1, <4>1 DEF TriesCounted
    <3> QED
      BY <3>2, <3>3
  <2>3. RequestsGrounded' /\ ConfirmsVerified' /\ LateIsKnown'
    BY <1>1 DEF EnrollInv, TypeOK, RequestsGrounded, ConfirmsVerified,
                ActiveSecretVerified, LateIsKnown, ClaimEnrollAttempt, counts
  <2> QED
    BY <2>1, <2>2, <2>3 DEF EnrollInv
<1>2. CASE VerifyMFA(c)
  <2>1. secret \in Secrets
    BY <1>2 DEF EnrollInv, TypeOK, RequestsGrounded, VerifyMFA, Secrets
  <2>2. TypeOK'
    BY <1>2, <2>1 DEF EnrollInv, TypeOK, VerifyMFA, row, counts, Secrets
  <2>3. TriesCounted' /\ RequestsGrounded' /\ LateIsKnown'
    BY <1>2 DEF EnrollInv, TypeOK, TriesCounted, RequestsGrounded,
                LateIsKnown, VerifyMFA, row, counts
  <2>4. ConfirmsVerified'
    BY <1>2 DEF EnrollInv, TypeOK, ConfirmsVerified, ActiveSecretVerified,
                VerifyMFA, row
  <2> QED
    BY <2>2, <2>3, <2>4 DEF EnrollInv
<1>3. CASE Confirm(c)
  <2>1. \A e \in Enrollments :
          /\ enroll'[e].pc = enroll[e].pc /\ enroll'[e].new = enroll[e].new
          /\ enroll[e].pc # "idle" => enroll'[e].late
    BY <1>3 DEF EnrollInv, TypeOK, Confirm
  <2>2. TypeOK'
    BY <1>3 DEF EnrollInv, TypeOK, Confirm, counts, Secrets
  <2>3. TriesCounted' /\ LateIsKnown'
    BY <1>3, <2>1 DEF EnrollInv, TriesCounted, LateIsKnown, Confirm
  <2>4. RequestsGrounded'
    BY <1>3, <2>1 DEF EnrollInv, TypeOK, RequestsGrounded, Confirm, Answered,
                      counts
  <2>5. ConfirmsVerified'
    BY <1>3 DEF EnrollInv, TypeOK, ConfirmsVerified, ActiveSecretVerified,
                Confirm, Answered
  <2> QED
    BY <2>2, <2>3, <2>4, <2>5 DEF EnrollInv
<1>4. CASE ResetEnrollAttempts(c) \/ ConfirmationDies(c)
  <2>1. confirm' = [confirm EXCEPT ![c] = "idle"]
        /\ UNCHANGED <<secret, confirmed, counts, enroll, verified, slipped>>
        /\ \/ attempts' = 0 /\ locked' = FALSE /\ tries' = 0
           \/ UNCHANGED <<attempts, locked, tries>>
    BY <1>4 DEF ResetEnrollAttempts, ConfirmationDies, row
  <2>2. TypeOK'
    <3>1. confirm' \in [Confirmations -> {"idle", "verify", "confirm", "reset"}]
      BY <2>1 DEF EnrollInv, TypeOK
    <3>2. attempts' \in Nat /\ tries' \in Nat
      BY <2>1 DEF EnrollInv, TypeOK
    <3>3. locked' \in BOOLEAN
      BY <2>1, Zenon DEF EnrollInv, TypeOK
    <3> QED
      BY <2>1, <3>1, <3>2, <3>3 DEF EnrollInv, TypeOK, counts, Secrets
  <2>3. TriesCounted'
    BY <2>1 DEF EnrollInv, TriesCounted
  <2>4. RequestsGrounded' /\ ConfirmsVerified' /\ LateIsKnown'
    BY <2>1 DEF EnrollInv, TypeOK, RequestsGrounded, ConfirmsVerified,
                ActiveSecretVerified, LateIsKnown, counts
  <2> QED
    BY <2>2, <2>3, <2>4 DEF EnrollInv
<1> QED
  BY <1>1, <1>2, <1>3, <1>4

LEMMA InvSteps == EnrollInv /\ [Next]_vars => EnrollInv'
<1> SUFFICES ASSUME EnrollInv, [Next]_vars PROVE EnrollInv'
  OBVIOUS
<1>1. CASE LockRunsOut
  <2>1. TypeOK'
    <3>1. locked' \in BOOLEAN
      BY <1>1, Zenon DEF LockRunsOut
    <3> QED
      BY <1>1, <3>1, BoundsAssumption
      DEF EnrollInv, TypeOK, LockRunsOut, Secrets
  <2>2. TriesCounted'
    BY <1>1, MaxAttemptsAssumption
    DEF EnrollInv, TypeOK, TriesCounted, LockRunsOut
  <2>3. RequestsGrounded' /\ ConfirmsVerified' /\ LateIsKnown'
    BY <1>1 DEF EnrollInv, RequestsGrounded, ConfirmsVerified,
                ActiveSecretVerified, LateIsKnown, LockRunsOut
  <2> QED
    BY <2>1, <2>2, <2>3 DEF EnrollInv
<1>2. CASE UNCHANGED vars
  BY <1>2 DEF EnrollInv, TypeOK, TriesCounted, RequestsGrounded,
              ConfirmsVerified, ActiveSecretVerified, LateIsKnown, vars, row,
              counts, Secrets
<1> QED
  BY <1>1, <1>2, EnrollmentSteps, ConfirmationSteps DEF Next

\* Every variable keeps its type: the counter of attempts is never negative,
\* however claims, resets and new enrollments race.
THEOREM EnrollTypeCorrect == Spec => []TypeOK
<1>1. EnrollInv => TypeOK
  BY DEF EnrollInv
<1> QED
  BY <1>1, InitInv, InvSteps, PTL DEF Spec

\* The lock engages in time, for every MaxAttempts and any number of parallel
\* confirmations.
THEOREM TriesAreBounded == Spec => []TriesBounded
<1>1. EnrollInv => TriesBounded
  BY DEF EnrollInv, TriesCounted, TriesBounded
<1> QED
  BY <1>1, InitInv, InvSteps, PTL DEF Spec

\* An active second factor was verified, or slipped in between the
\* verification of another one and its Confirm.
THEOREM ActiveIsVerified == Spec => []ActiveSecretVerified
<1>1. EnrollInv => ActiveSecretVerified
  BY DEF EnrollInv, ConfirmsVerified
<1> QED
  BY <1>1, InitInv, InvSteps, PTL DEF Spec

\* Only an enrollment that has read the row before its confirmation overwrites
\* a confirmed credential.
THEOREM OverwritesAreRaces == Spec => OverwrittenByRaceOnly
<1>1. EnrollInv /\ [Next]_vars =>
        [(confirmed /\ ~(confirmed' /\ secret' = secret)) =>
           \E e \in Enrollments : enroll[e].late /\ enroll'[e].pc = "idle"]_vars
  <2> SUFFICES ASSUME EnrollInv, Next, confirmed,
                      ~(confirmed' /\ secret' = secret)
               PROVE  \E e \in Enrollments :
                        enroll[e].late /\ enroll'[e].pc = "idle"
    BY DEF vars
  <2>1. secret # 0
    BY DEF EnrollInv, RequestsGrounded
  <2>2. PICK e \in Enrollments : Update(e)
    BY <2>1 DEF Next, SelectRow, Create, EnrollmentDies, ClaimEnrollAttempt,
                VerifyMFA, Confirm, ResetEnrollAttempts, ConfirmationDies,
                LockRunsOut, row
  <2> QED
    BY <2>2 DEF EnrollInv, TypeOK, LateIsKnown, Update, NoEnrollment
<1> QED
  BY <1>1, InitInv, InvSteps, PTL DEF Spec, OverwrittenByRaceOnly
=============================================================================
