---------------------- MODULE AuthorizationCodesProofs ----------------------
(***************************************************************************)
(* What AuthorizationCodes contributes to the proofs about the modules     *)
(* that extend it: each of its operations keeps codes and tokens in step.  *)
(***************************************************************************)
EXTENDS AuthorizationCodes, TLAPS

\* A code has a token exactly when it is used.
CodesCounted ==
  \A k \in Codes : tokens[k] = IF code[k] = "used" THEN 1 ELSE 0

CodesInv == CodesTypeOK /\ CodesCounted

CodesStep ==
  \/ \E s \in Sessions : CreateSession(s)
  \/ \E k \in Codes : ExpireCode(k) \/ \E b \in BOOLEAN : Authorize(k, b)
  \/ \E r \in Requests : \/ Redeem(r) \/ RedeemFails(r)
                         \/ \E k \in Codes : TokenChecks(r, k)

\* A code is a tuple and None is not: a request at work has checked a code.
LEMMA RequestHasCode ==
  ASSUME CodesTypeOK, NEW r \in Requests, request[r] # None
  PROVE  request[r] \in Codes
BY DEF CodesTypeOK

LEMMA CodesSteps ==
  ASSUME CodesInv, CodesStep
  PROVE  /\ CodesInv'
         /\ \A k \in Codes : tokens[k] <= tokens'[k]
         /\ revoked' = revoked
<1> USE DEF CodesInv, CodesTypeOK, CodesCounted
<1>1. ASSUME NEW s \in Sessions, CreateSession(s)
      PROVE  CodesInv' /\ UNCHANGED <<tokens, revoked>>
  BY <1>1 DEF CreateSession, codeVars
<1>2. ASSUME NEW k \in Codes, ExpireCode(k)
      PROVE  CodesInv' /\ UNCHANGED <<tokens, revoked>>
  BY <1>2 DEF ExpireCode, sessionVars
<1>3. ASSUME NEW k \in Codes, NEW b \in BOOLEAN, Authorize(k, b)
      PROVE  CodesInv' /\ UNCHANGED <<tokens, revoked>>
  BY <1>3 DEF Authorize, sessionVars
<1>4. ASSUME NEW r \in Requests, NEW k \in Codes, TokenChecks(r, k)
      PROVE  CodesInv' /\ UNCHANGED <<tokens, revoked>>
  BY <1>4 DEF TokenChecks, sessionVars
<1>5. ASSUME NEW r \in Requests, RedeemFails(r)
      PROVE  CodesInv' /\ UNCHANGED <<tokens, revoked>>
  BY <1>5 DEF RedeemFails, sessionVars
<1>6. ASSUME NEW r \in Requests, Redeem(r)
      PROVE  /\ CodesInv' /\ UNCHANGED revoked
             /\ \A k \in Codes : tokens[k] <= tokens'[k]
  <2>1. request[r] \in Codes
    BY <1>6, RequestHasCode DEF Redeem
  <2>2. CASE Redeemable(request[r])
    BY <1>6, <2>1, <2>2 DEF Redeem, Redeemable, sessionVars
  <2>3. CASE ~Redeemable(request[r])
    BY <1>6, <2>1, <2>3 DEF Redeem, sessionVars
  <2> QED
    BY <2>2, <2>3
<1> QED
  BY <1>1, <1>2, <1>3, <1>4, <1>5, <1>6 DEF CodesStep

LEMMA CodesInitially == CodesInit => CodesInv
BY DEF CodesInit, CodesInv, CodesTypeOK, CodesCounted

\* One access token per code, in every module that keeps CodesInv.
LEMMA RedeemedOnce == CodesInv => CodeRedeemedOnce
BY DEF CodesInv, CodesCounted, CodeRedeemedOnce
=============================================================================
