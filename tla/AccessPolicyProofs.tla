------------------------- MODULE AccessPolicyProofs -------------------------
(***************************************************************************)
(* Who loses access is revoked, and nobody else, for any number of users,  *)
(* groups, applications and racing transactions.                           *)
(***************************************************************************)
EXTENDS AccessPolicy, AuthorizationCodesProofs

OpenTxn(t) == txn[t] # Closed

\* Memberships and policies as the commit of t leaves them.
MembersAfter(t) ==
  IF txn[t].kind = "member" THEN member \ {txn[t].row} ELSE member
PoliciesAfter(t) ==
  IF txn[t].kind = "policy" THEN policy \ {txn[t].row} ELSE policy

\* The pair has no path but through group g.
OnlyThrough(p, g) ==
  \A h \in Groups : <<p[1], h>> \in member /\ <<p[2], h>> \in policy => h = g

\* The group of the row a transaction deletes, and the row being of its kind.
RowGroup(t) == txn[t].row[2]

RowOf(t) ==
  \/ /\ txn[t].kind = "member" /\ txn[t].pc \in {"delete", "revoke"}
     /\ txn[t].row \in Users \X Groups
  \/ /\ txn[t].kind = "policy" /\ txn[t].pc \in {"select", "revoke"}
     /\ txn[t].row \in Apps \X Groups

\* The pairs a transaction has found belong to its row, and without a grant
\* their only path goes through it.
FoundOnly(t) ==
  \A p \in txn[t].todo \cup txn[t].told :
    /\ txn[t].kind = "member" => p[1] = txn[t].row[1]
    /\ txn[t].kind = "policy" => p[2] = txn[t].row[1]
    /\ ~txn[t].granted => OnlyThrough(p, RowGroup(t))

\* Without a grant and without another commit it has found every pair that its
\* commit takes the last path from.
FoundAll(t) ==
  txn[t].pc # "select" /\ ~txn[t].granted /\ ~txn[t].overtaken =>
    \A p \in Pairs :
      /\ Path(member, policy, p[1], p[2])
      /\ ~Path(MembersAfter(t), PoliciesAfter(t), p[1], p[2])
      => p \in txn[t].todo \cup txn[t].told

\* The tokens of a pair it is done with are revoked, by it or already.
ToldMarked(t) ==
  /\ txn[t].before \subseteq {k \in Codes : tokens[k] > 0}
  /\ \A p \in txn[t].told :
       TokensOf(p) \cap txn[t].before \subseteq revoked \cup txn[t].marked

TxnSound(t) ==
  OpenTxn(t) => RowOf(t) /\ FoundOnly(t) /\ FoundAll(t) /\ ToldMarked(t)

PolicyInv ==
  /\ TypeOK
  /\ CodesCounted
  /\ \A t \in Txns : TxnSound(t)

-----------------------------------------------------------------------------
(* Types.                                                                  *)

LEMMA OpenPc ==
  ASSUME TypeOK, NEW t \in Txns
  PROVE  /\ txn[t] # Closed <=> txn[t] \in Open
         /\ txn[t] # Closed <=> txn[t].pc \in {"delete", "select", "revoke"}
BY DEF TypeOK, Open, Closed

LEMMA UpdatedTxn ==
  ASSUME TypeOK, NEW t \in Txns, NEW x \in Open \cup {Closed}
  PROVE  /\ [txn EXCEPT ![t] = x] \in [Txns -> Open \cup {Closed}]
         /\ [txn EXCEPT ![t] = x][t] = x
         /\ \A o \in Txns \ {t} : [txn EXCEPT ![t] = x][o] = txn[o]
BY DEF TypeOK

\* Grants and commits set a history of the other transactions, and no more.
LEMMA HistoriesSet ==
  ASSUME TypeOK, NEW t \in Txns, txn[t] # Closed
  PROVE  /\ [txn[t] EXCEPT !.granted = TRUE] \in Open
         /\ [txn[t] EXCEPT !.overtaken = TRUE] \in Open
<1>1. txn[t] \in Open
  BY OpenPc
<1>2. \A x \in Open : [x EXCEPT !.granted = TRUE] \in Open
  BY DEF Open
<1>3. \A x \in Open : [x EXCEPT !.overtaken = TRUE] \in Open
  BY DEF Open
<1> QED
  BY <1>1, <1>2, <1>3

LEMMA GrantTypes ==
  ASSUME TypeOK, GrantSeen
  PROVE  txn' \in [Txns -> Open \cup {Closed}]
BY HistoriesSet DEF GrantSeen, TypeOK

LEMMA StartType ==
  ASSUME TypeOK, NEW kind \in {"member", "policy"},
         NEW row \in (Users \X Groups) \cup (Apps \X Groups),
         NEW pc \in {"delete", "select"}, NEW todo \in SUBSET Pairs
  PROVE  [pc |-> pc, kind |-> kind, row |-> row, todo |-> todo, told |-> {},
          marked |-> {}, before |-> {k \in Codes : tokens[k] > 0},
          granted |-> FALSE, overtaken |-> FALSE] \in Open
BY DEF Open

-----------------------------------------------------------------------------
(* The transactions a step does not belong to.                             *)

\* A step of another transaction, or of /authorize and /token.
LEMMA OthersKept ==
  ASSUME NEW o \in Txns, TxnSound(o), txn'[o] = txn[o],
         UNCHANGED <<member, policy>>, tokens \in [Codes -> Nat],
         tokens' \in [Codes -> Nat],
         \A k \in Codes : tokens[k] <= tokens'[k], revoked \subseteq revoked'
  PROVE  TxnSound(o)'
<1> SUFFICES ASSUME OpenTxn(o)' PROVE RowOf(o)' /\ FoundOnly(o)' /\ FoundAll(o)' /\ ToldMarked(o)'
  BY DEF TxnSound
<1>1. RowOf(o) /\ FoundOnly(o) /\ FoundAll(o) /\ ToldMarked(o)
  BY DEF TxnSound, OpenTxn
<1>2. RowOf(o)'
  BY <1>1 DEF RowOf
<1>3. FoundOnly(o)'
  BY <1>1 DEF FoundOnly, OnlyThrough, RowGroup
<1>4. FoundAll(o)'
  BY <1>1 DEF FoundAll, Path, MembersAfter, PoliciesAfter
<1>5. ToldMarked(o)'
  <2>1. \A k \in Codes : tokens[k] > 0 => tokens'[k] > 0
    OBVIOUS
  <2> QED
    BY <1>1, <2>1 DEF ToldMarked
<1> QED
  BY <1>2, <1>3, <1>4, <1>5

\* A history of an open transaction is set: after a grant or another commit.
LEMMA HistoryFields ==
  ASSUME TypeOK, NEW o \in Txns, txn[o] # Closed,
         \/ txn'[o] = [txn[o] EXCEPT !.granted = TRUE]
         \/ txn'[o] = [txn[o] EXCEPT !.overtaken = TRUE]
  PROVE  /\ txn'[o] \in Open
         /\ txn'[o].pc = txn[o].pc /\ txn'[o].kind = txn[o].kind
         /\ txn'[o].row = txn[o].row /\ txn'[o].todo = txn[o].todo
         /\ txn'[o].told = txn[o].told /\ txn'[o].marked = txn[o].marked
         /\ txn'[o].before = txn[o].before
         /\ txn[o].granted => txn'[o].granted
<1>1. txn[o] \in Open
  BY OpenPc
<1>2. CASE txn'[o] = [txn[o] EXCEPT !.granted = TRUE]
  BY <1>1, <1>2, HistoriesSet DEF Open
<1>3. CASE txn'[o] = [txn[o] EXCEPT !.overtaken = TRUE]
  BY <1>1, <1>3, HistoriesSet DEF Open
<1> QED
  BY <1>2, <1>3

\* A grant makes what a transaction has found about paths stale.
LEMMA GrantKeeps ==
  ASSUME TypeOK, NEW o \in Txns, TxnSound(o), GrantSeen,
         UNCHANGED <<tokens, revoked>>
  PROVE  TxnSound(o)'
<1>1. CASE txn[o] = Closed
  BY <1>1 DEF GrantSeen, TxnSound, OpenTxn
<1>2. CASE txn[o] # Closed
  <2>1. txn'[o] = [txn[o] EXCEPT !.granted = TRUE]
    BY <1>2 DEF GrantSeen
  <2>2. txn'[o].granted
    <3>1. \A x \in Open : [x EXCEPT !.granted = TRUE].granted
      BY DEF Open
    <3> QED
      BY <1>2, <2>1, <3>1, OpenPc
  <2>3. RowOf(o) /\ FoundOnly(o) /\ ToldMarked(o)
    BY <1>2 DEF TxnSound, OpenTxn
  <2>4. RowOf(o)' /\ FoundOnly(o)' /\ FoundAll(o)'
    BY <1>2, <2>1, <2>2, <2>3, HistoryFields DEF RowOf, FoundOnly, FoundAll
  <2>5. ToldMarked(o)'
    BY <1>2, <2>1, <2>3, HistoryFields DEF ToldMarked
  <2> QED
    BY <2>4, <2>5 DEF TxnSound
<1> QED
  BY <1>1, <1>2

\* Another commit takes paths away and nothing else.
LEMMA CommitKeeps ==
  ASSUME TypeOK, NEW o \in Txns, TxnSound(o),
         txn'[o] = IF txn[o] = Closed THEN Closed
                   ELSE [txn[o] EXCEPT !.overtaken = TRUE],
         member' \subseteq member, policy' \subseteq policy,
         UNCHANGED tokens, revoked \subseteq revoked'
  PROVE  TxnSound(o)'
<1>1. CASE txn[o] = Closed
  BY <1>1 DEF TxnSound, OpenTxn
<1>2. CASE txn[o] # Closed
  <2>1. txn'[o] = [txn[o] EXCEPT !.overtaken = TRUE]
    BY <1>2
  <2>2. txn'[o].overtaken /\ txn'[o].granted = txn[o].granted
    <3>1. \A x \in Open : [x EXCEPT !.overtaken = TRUE].overtaken
                          /\ [x EXCEPT !.overtaken = TRUE].granted = x.granted
      BY DEF Open
    <3> QED
      BY <1>2, <2>1, <3>1, OpenPc
  <2>3. RowOf(o) /\ FoundOnly(o) /\ ToldMarked(o)
    BY <1>2 DEF TxnSound, OpenTxn
  <2>4. RowOf(o)' /\ FoundAll(o)'
    BY <1>2, <2>1, <2>2, <2>3, HistoryFields DEF RowOf, FoundAll
  <2>5. FoundOnly(o)'
    BY <1>2, <2>1, <2>2, <2>3, HistoryFields DEF FoundOnly, OnlyThrough, RowGroup
  <2>6. ToldMarked(o)'
    BY <1>2, <2>1, <2>3, HistoryFields DEF ToldMarked
  <2> QED
    BY <2>4, <2>5, <2>6 DEF TxnSound
<1> QED
  BY <1>1, <1>2

-----------------------------------------------------------------------------
(* The steps.                                                              *)

LEMMA ProviderSteps ==
  ASSUME PolicyInv, ProviderStep
  PROVE  PolicyInv'
<1>1. CodesInv
  BY DEF PolicyInv, TypeOK, CodesInv
<1>3. CodesStep
  <2>1. ASSUME NEW k \in Codes,
               Authorize(k, UserHasApplicationAccess(UserOf(k), AppOf(k)))
        PROVE  Authorize(k, TRUE)
    BY <2>1 DEF Authorize
  <2> QED
    BY <2>1 DEF ProviderStep, CodesStep
<1>4. /\ CodesInv' /\ revoked' = revoked
      /\ \A k \in Codes : tokens[k] <= tokens'[k]
  BY <1>1, <1>3, CodesSteps
<1>5. UNCHANGED <<member, policy, events, txn, started>>
  BY DEF ProviderStep, policyVars
<1>6. TypeOK' /\ CodesCounted'
  BY <1>4, <1>5 DEF PolicyInv, TypeOK, CodesInv
<1>7. ASSUME NEW o \in Txns PROVE TxnSound(o)'
  BY <1>1, <1>4, <1>5, OthersKept DEF PolicyInv, CodesInv, CodesTypeOK
<1> QED
  BY <1>6, <1>7 DEF PolicyInv

LEMMA GrantSteps ==
  ASSUME PolicyInv, Grant
  PROVE  PolicyInv'
<1>1. /\ GrantSeen /\ UNCHANGED <<active, session, code, request, tokens,
                                 revoked, events, started>>
      /\ member' \in SUBSET (Users \X Groups)
      /\ policy' \in SUBSET (Apps \X Groups)
  <2>1. ASSUME NEW u \in Users, NEW g \in Groups, AddUser(u, g)
        PROVE  <1>1!1 /\ <1>1!2 /\ <1>1!3
    BY <2>1 DEF AddUser, PolicyInv, TypeOK, sessionVars, codeVars
  <2>2. ASSUME NEW a \in Apps, NEW g \in Groups, Set(a, g)
        PROVE  <1>1!1 /\ <1>1!2 /\ <1>1!3
    BY <2>2 DEF Set, PolicyInv, TypeOK, sessionVars, codeVars
  <2> QED
    BY <2>1, <2>2 DEF Grant
<1>2. TypeOK' /\ CodesCounted'
  BY <1>1, GrantTypes DEF PolicyInv, TypeOK, CodesTypeOK, CodesCounted
<1>3. ASSUME NEW o \in Txns PROVE TxnSound(o)'
  BY <1>1, GrantKeeps DEF PolicyInv
<1> QED
  BY <1>2, <1>3 DEF PolicyInv

\* A step of one transaction that is seen by nobody else.
LEMMA OwnSteps ==
  ASSUME PolicyInv, NEW t \in Txns, NEW x \in Open \cup {Closed},
         txn' = [txn EXCEPT ![t] = x], TxnSound(t)',
         UNCHANGED <<sessionVars, codeVars, member, policy, events>>,
         started' \in 0 .. MaxTxns
  PROVE  PolicyInv'
<1>1. TypeOK' /\ CodesCounted'
  BY UpdatedTxn
  DEF PolicyInv, TypeOK, CodesTypeOK, CodesCounted, sessionVars, codeVars
<1>2. ASSUME NEW o \in Txns, o # t PROVE TxnSound(o)'
  BY <1>2, UpdatedTxn, OthersKept
  DEF PolicyInv, TypeOK, CodesTypeOK, codeVars
<1> QED
  BY <1>1, <1>2 DEF PolicyInv

LEMMA RollbackSteps ==
  ASSUME PolicyInv, NEW t \in Txns, Rollback(t)
  PROVE  PolicyInv'
<1>1. txn' = [txn EXCEPT ![t] = Closed] /\ txn'[t] = Closed
  BY DEF Rollback, PolicyInv, TypeOK
<1>2. TxnSound(t)'
  BY <1>1 DEF TxnSound, OpenTxn
<1> QED
  BY <1>1, <1>2, OwnSteps DEF Rollback, PolicyInv, TypeOK

\* Start gives the transaction the pairs it was started with.
LEMMA Started ==
  ASSUME PolicyInv, NEW t \in Txns, NEW kind \in {"member", "policy"},
         NEW row \in (Users \X Groups) \cup (Apps \X Groups),
         NEW pc \in {"delete", "select"}, NEW todo \in SUBSET Pairs,
         Start(t, kind, row, pc, todo)
  PROVE  /\ \E x \in Open : txn' = [txn EXCEPT ![t] = x]
         /\ txn'[t].kind = kind /\ txn'[t].row = row /\ txn'[t].pc = pc
         /\ txn'[t].todo = todo /\ txn'[t].told = {}
         /\ UNCHANGED <<sessionVars, codeVars, member, policy, events>>
         /\ started' \in 0 .. MaxTxns
         /\ ToldMarked(t)'
<1> DEFINE x == [pc |-> pc, kind |-> kind, row |-> row, todo |-> todo,
                 told |-> {}, marked |-> {}, before |-> {k \in Codes : tokens[k] > 0},
                 granted |-> FALSE, overtaken |-> FALSE]
<1>1. x \in Open /\ TypeOK
  BY StartType DEF PolicyInv
<1>2. txn' = [txn EXCEPT ![t] = x]
  BY DEF Start
<1>3. txn'[t] = x
  BY <1>1, <1>2, UpdatedTxn
<1>4. UNCHANGED <<sessionVars, codeVars, member, policy, events>>
      /\ started' = started + 1 /\ started < MaxTxns
  BY DEF Start
<1>5. started' \in 0 .. MaxTxns
  BY <1>1, <1>4, MaxTxnsAssumption DEF TypeOK
<1>6. ToldMarked(t)'
  BY <1>3, <1>4 DEF ToldMarked, codeVars
<1>7. /\ txn'[t].kind = kind /\ txn'[t].row = row /\ txn'[t].pc = pc
      /\ txn'[t].todo = todo /\ txn'[t].told = {}
  BY <1>3
<1>8. \E y \in Open : txn' = [txn EXCEPT ![t] = y]
  <2> HIDE DEF x
  <2> QED
    BY <1>1, <1>2
<1> QED
  BY <1>4, <1>5, <1>6, <1>7, <1>8

LEMMA RemoveUserSteps ==
  ASSUME PolicyInv, NEW t \in Txns, NEW u \in Users, NEW g \in Groups,
         RemoveUser(t, u, g)
  PROVE  PolicyInv'
<1> DEFINE todo == {<<u, a>> : a \in AffectedApplications(u, g)}
<1>1. todo \in SUBSET Pairs /\ AffectedApplications(u, g) \subseteq Apps
  <2>1. AffectedApplications(u, g) \subseteq Apps
    BY DEF AffectedApplications
  <2> QED
    BY <2>1 DEF Pairs
<1>2. Start(t, "member", <<u, g>>, "delete", todo)
  BY DEF RemoveUser
<1>3. \A p \in todo : p[1] = u /\ p[2] \in AffectedApplications(u, g)
  OBVIOUS
<1>4. \A a \in AffectedApplications(u, g) : <<u, a>> \in todo
  OBVIOUS
<1> HIDE DEF todo
<1>5. /\ txn'[t].kind = "member" /\ txn'[t].row = <<u, g>>
      /\ txn'[t].pc = "delete" /\ txn'[t].todo = todo /\ txn'[t].told = {}
      /\ UNCHANGED <<member, policy>> /\ ToldMarked(t)'
  BY <1>1, <1>2, Started
<1>6. RowOf(t)'
  BY <1>5 DEF RowOf
<1>7. FoundOnly(t)'
  <2> SUFFICES ASSUME NEW p \in todo, NEW h \in Groups,
                      <<p[1], h>> \in member, <<p[2], h>> \in policy
               PROVE  h = g
    BY <1>3, <1>5 DEF FoundOnly, OnlyThrough, RowGroup
  <2>1. p[1] = u /\ p[2] \in AffectedApplications(u, g)
    BY <1>3
  <2> QED
    BY <2>1 DEF AffectedApplications
<1>8. FoundAll(t)'
  <2> SUFFICES ASSUME NEW p \in Pairs,
                      Path(member, policy, p[1], p[2]),
                      ~Path(member \ {<<u, g>>}, policy, p[1], p[2])
               PROVE  p \in todo
    BY <1>5 DEF FoundAll, MembersAfter, PoliciesAfter
  <2>1. p = <<p[1], p[2]>> /\ p[1] \in Users /\ p[2] \in Apps
    BY DEF Pairs
  <2>2. PICK h \in Groups : <<p[1], h>> \in member /\ <<p[2], h>> \in policy
    BY DEF Path
  <2>3. p[1] = u /\ h = g
    BY <2>2 DEF Path
  <2>4. p[2] \in AffectedApplications(u, g)
    BY <2>1, <2>2, <2>3 DEF Path, AffectedApplications
  <2> QED
    BY <1>4, <2>1, <2>3, <2>4
<1>9. TxnSound(t)'
  BY <1>5, <1>6, <1>7, <1>8 DEF TxnSound
<1> QED
  BY <1>1, <1>2, <1>9, Started, OwnSteps

LEMMA DeletePolicySteps ==
  ASSUME PolicyInv, NEW t \in Txns, NEW a \in Apps, NEW g \in Groups,
         DeletePolicy(t, a, g)
  PROVE  PolicyInv'
<1>1. Start(t, "policy", <<a, g>>, "select", {})
  BY DEF DeletePolicy
<1>2. /\ txn'[t].kind = "policy" /\ txn'[t].row = <<a, g>>
      /\ txn'[t].pc = "select" /\ txn'[t].todo = {} /\ txn'[t].told = {}
      /\ ToldMarked(t)'
  BY <1>1, Started
<1>3. TxnSound(t)'
  BY <1>2 DEF TxnSound, RowOf, FoundOnly, FoundAll
<1> QED
  BY <1>1, <1>3, Started, OwnSteps

LEMMA DeleteMembershipSteps ==
  ASSUME PolicyInv, NEW t \in Txns, DeleteMembership(t)
  PROVE  PolicyInv'
<1>1. CASE Rollback(t)
  BY <1>1, RollbackSteps
<1>2. CASE ~Rollback(t)
  <2> DEFINE x == [txn[t] EXCEPT !.pc = "revoke"]
  <2>1. /\ txn' = [txn EXCEPT ![t] = x] /\ txn[t].pc = "delete"
        /\ UNCHANGED <<sessionVars, codeVars, member, policy, events, started>>
    BY <1>2 DEF DeleteMembership
  <2>2. TypeOK /\ txn[t] \in Open /\ txn[t] # Closed
    BY <2>1, OpenPc DEF PolicyInv
  <2>3. x \in Open
    BY <2>2 DEF Open
  <2>4. /\ x.pc = "revoke" /\ x.kind = txn[t].kind /\ x.row = txn[t].row
        /\ x.todo = txn[t].todo /\ x.told = txn[t].told
        /\ x.marked = txn[t].marked /\ x.before = txn[t].before
        /\ x.granted = txn[t].granted /\ x.overtaken = txn[t].overtaken
    BY <2>2 DEF Open
  <2>5. txn'[t] = x
    BY <2>1, <2>2, <2>3, UpdatedTxn
  <2> HIDE DEF x
  <2>6. RowOf(t) /\ FoundOnly(t) /\ FoundAll(t) /\ ToldMarked(t)
    BY <2>2 DEF PolicyInv, TxnSound, OpenTxn
  <2>7. RowOf(t)' /\ FoundOnly(t)'
    BY <2>1, <2>4, <2>5, <2>6 DEF RowOf, FoundOnly, OnlyThrough, RowGroup
  <2>8. FoundAll(t)'
    BY <2>1, <2>4, <2>5, <2>6 DEF FoundAll, MembersAfter, PoliciesAfter
  <2>9. ToldMarked(t)'
    BY <2>1, <2>4, <2>5, <2>6 DEF ToldMarked, codeVars
  <2>10. TxnSound(t)'
    BY <2>7, <2>8, <2>9 DEF TxnSound
  <2> QED
    BY <2>1, <2>2, <2>3, <2>10, OwnSteps DEF TypeOK
<1> QED
  BY <1>1, <1>2

LEMMA SelectUsersSteps ==
  ASSUME PolicyInv, NEW t \in Txns, SelectUsers(t)
  PROVE  PolicyInv'
<1> DEFINE a == txn[t].row[1]
           g == txn[t].row[2]
           found == {<<u, a>> : u \in AffectedUsers(a, g)}
           x == [txn[t] EXCEPT !.pc = "revoke", !.todo = found]
<1>1. /\ txn' = [txn EXCEPT ![t] = x] /\ txn[t].pc = "select"
      /\ UNCHANGED <<sessionVars, codeVars, member, policy, events, started>>
  BY DEF SelectUsers
<1>2. TypeOK /\ txn[t] \in Open /\ txn[t] # Closed
  BY <1>1, OpenPc DEF PolicyInv
<1>3. RowOf(t) /\ FoundOnly(t) /\ ToldMarked(t)
  BY <1>2 DEF PolicyInv, TxnSound, OpenTxn
<1>4. /\ txn[t].kind = "policy" /\ a \in Apps /\ g \in Groups
      /\ txn[t].row = <<a, g>>
  BY <1>1, <1>3 DEF RowOf
<1>5. \A p \in found : p[1] \in AffectedUsers(a, g) /\ p[2] = a
  OBVIOUS
<1>6. \A u \in AffectedUsers(a, g) : <<u, a>> \in found
  OBVIOUS
<1>7. found \in SUBSET Pairs
  <2>1. AffectedUsers(a, g) \subseteq Users
    BY DEF AffectedUsers
  <2> QED
    BY <1>4, <2>1 DEF Pairs
<1> HIDE DEF found, a, g
<1>8. x \in Open
  BY <1>2, <1>7 DEF Open
<1>9. /\ x.pc = "revoke" /\ x.kind = txn[t].kind /\ x.row = txn[t].row
      /\ x.todo = found /\ x.told = txn[t].told /\ x.marked = txn[t].marked
      /\ x.before = txn[t].before /\ x.granted = txn[t].granted
  BY <1>2 DEF Open
<1>10. txn'[t] = x
  BY <1>1, <1>2, <1>8, UpdatedTxn
<1> HIDE DEF x
<1>11. RowOf(t)' /\ ToldMarked(t)'
  BY <1>1, <1>3, <1>4, <1>9, <1>10 DEF RowOf, ToldMarked, codeVars
<1>12. FoundOnly(t)'
  <2>1. ASSUME NEW p \in found, NEW h \in Groups,
               <<p[1], h>> \in member, <<p[2], h>> \in policy
        PROVE  h = g
    <3>1. /\ p[2] = a
          /\ ~ \E i \in Groups : <<p[1], i>> \in member
                                 /\ <<a, i>> \in policy \ {<<a, g>>}
      BY <1>5, <2>1 DEF AffectedUsers, Path
    <3> QED
      BY <2>1, <3>1
  <2>2. RowGroup(t)' = g
    BY <1>4, <1>9, <1>10 DEF RowGroup
  <2> QED
    <3>1. txn'[t].kind = "policy" /\ txn'[t].row = <<a, g>>
          /\ txn'[t].todo \cup txn'[t].told = found \cup txn[t].told
      BY <1>4, <1>9, <1>10
    <3>2. \A p \in txn[t].told : p[2] = a /\ (~txn[t].granted => OnlyThrough(p, g))
      BY <1>3, <1>4 DEF FoundOnly, RowGroup
    <3>3. \A p \in found : p[2] = a /\ OnlyThrough(p, g)
      BY <1>5, <2>1 DEF OnlyThrough
    <3> QED
      BY <1>1, <1>9, <1>10, <2>2, <3>1, <3>2, <3>3 DEF FoundOnly, OnlyThrough
<1>13. FoundAll(t)'
  <2> SUFFICES ASSUME NEW p \in Pairs,
                      Path(member, policy, p[1], p[2]),
                      ~Path(member, policy \ {<<a, g>>}, p[1], p[2])
               PROVE  p \in found
    BY <1>1, <1>4, <1>9, <1>10 DEF FoundAll, MembersAfter, PoliciesAfter
  <2>1. p = <<p[1], p[2]>> /\ p[1] \in Users /\ p[2] \in Apps
    BY DEF Pairs
  <2>2. PICK h \in Groups : <<p[1], h>> \in member /\ <<p[2], h>> \in policy
    BY DEF Path
  <2>3. p[2] = a /\ h = g
    BY <2>2 DEF Path
  <2>4. p[1] \in AffectedUsers(a, g)
    BY <2>1, <2>2, <2>3 DEF AffectedUsers
  <2> QED
    BY <1>6, <2>1, <2>3, <2>4
<1>14. TxnSound(t)'
  BY <1>11, <1>12, <1>13 DEF TxnSound
<1> QED
  BY <1>1, <1>2, <1>8, <1>14, OwnSteps DEF TypeOK

LEMMA RevokePairSteps ==
  ASSUME PolicyInv, NEW t \in Txns, NEW p \in Pairs, RevokePair(t, p)
  PROVE  PolicyInv'
<1> DEFINE found == {k \in TokensOf(p) : Live(k)}
           x == [txn[t] EXCEPT !.todo = @ \ {p}, !.told = @ \cup {p},
                               !.marked = @ \cup found]
<1>1. /\ txn' = [txn EXCEPT ![t] = x]
      /\ txn[t].pc = "revoke" /\ p \in txn[t].todo
      /\ UNCHANGED <<sessionVars, codeVars, member, policy, events, started>>
  BY DEF RevokePair
<1>2. TypeOK /\ txn[t] \in Open /\ txn[t] # Closed
  BY <1>1, OpenPc DEF PolicyInv
<1>3. found \subseteq Codes
  BY DEF TokensOf
<1>4. \A k \in TokensOf(p) \cap txn[t].before : k \in revoked \cup found
  <2>1. txn[t].before \subseteq {k \in Codes : tokens[k] > 0}
    BY <1>2 DEF PolicyInv, TxnSound, OpenTxn, ToldMarked
  <2> QED
    BY <2>1 DEF Live
<1> HIDE DEF found
<1>5. x \in Open
  BY <1>2, <1>3 DEF Open
<1>6. /\ x.pc = txn[t].pc /\ x.kind = txn[t].kind /\ x.row = txn[t].row
      /\ x.todo = txn[t].todo \ {p} /\ x.told = txn[t].told \cup {p}
      /\ x.marked = txn[t].marked \cup found /\ x.before = txn[t].before
      /\ x.granted = txn[t].granted /\ x.overtaken = txn[t].overtaken
  BY <1>2 DEF Open
<1>7. txn'[t] = x
  BY <1>1, <1>2, <1>5, UpdatedTxn
<1> HIDE DEF x
<1>8. RowOf(t) /\ FoundOnly(t) /\ FoundAll(t) /\ ToldMarked(t)
  BY <1>2 DEF PolicyInv, TxnSound, OpenTxn
<1>9. x.todo \cup x.told = txn[t].todo \cup txn[t].told
  BY <1>1, <1>6
<1>10. RowOf(t)' /\ FoundOnly(t)'
  BY <1>1, <1>6, <1>7, <1>8, <1>9 DEF RowOf, FoundOnly, OnlyThrough, RowGroup
<1>11. FoundAll(t)'
  BY <1>1, <1>6, <1>7, <1>8, <1>9 DEF FoundAll, MembersAfter, PoliciesAfter
<1>12. ToldMarked(t)'
  <2>1. txn'[t].before \subseteq {k \in Codes : tokens'[k] > 0}
    BY <1>1, <1>6, <1>7, <1>8 DEF ToldMarked, codeVars
  <2>2. \A q \in txn[t].told \cup {p} :
          TokensOf(q) \cap txn[t].before
            \subseteq revoked \cup txn[t].marked \cup found
    BY <1>4, <1>8 DEF ToldMarked
  <2>3. UNCHANGED revoked
    BY <1>1 DEF codeVars
  <2> QED
    BY <1>6, <1>7, <2>1, <2>2, <2>3 DEF ToldMarked
<1>13. TxnSound(t)'
  BY <1>10, <1>11, <1>12 DEF TxnSound
<1> QED
  BY <1>1, <1>2, <1>5, <1>13, OwnSteps DEF TypeOK

LEMMA CommitSteps ==
  ASSUME PolicyInv, NEW t \in Txns, Commit(t)
  PROVE  PolicyInv'
<1>1. TypeOK /\ txn[t] \in Open /\ txn[t] # Closed
  BY OpenPc DEF PolicyInv, Commit
<1>2. /\ member' \subseteq member /\ policy' \subseteq policy
      /\ revoked' = revoked \cup txn[t].marked
      /\ UNCHANGED <<active, session, code, request, tokens, started>>
      /\ \A o \in Txns :
           txn'[o] = IF o = t \/ txn[o] = Closed THEN Closed
                     ELSE [txn[o] EXCEPT !.overtaken = TRUE]
  BY DEF Commit, sessionVars
<1>3. txn' \in [Txns -> Open \cup {Closed}]
  BY <1>1, HistoriesSet DEF Commit
<1>4. events' \in [Pairs -> Nat]
  BY <1>1 DEF Commit, TypeOK
<1>5. revoked' \in SUBSET Codes
  BY <1>1, <1>2 DEF TypeOK, CodesTypeOK, Open
<1>6. TypeOK' /\ CodesCounted'
  BY <1>1, <1>2, <1>3, <1>4, <1>5
  DEF PolicyInv, TypeOK, CodesTypeOK, CodesCounted
<1>7. ASSUME NEW o \in Txns PROVE TxnSound(o)'
  <2>1. CASE o = t
    BY <1>2, <2>1 DEF TxnSound, OpenTxn
  <2>2. CASE o # t
    BY <1>1, <1>2, <2>2, CommitKeeps DEF PolicyInv
  <2> QED
    BY <2>1, <2>2
<1> QED
  BY <1>6, <1>7 DEF PolicyInv

LEMMA PolicySteps == PolicyInv /\ [Next]_vars => PolicyInv'
<1> SUFFICES ASSUME PolicyInv, [Next]_vars PROVE PolicyInv'
  OBVIOUS
<1>1. CASE UNCHANGED vars
  <2>1. UNCHANGED <<active, session, code, request, tokens, revoked,
                    member, policy, events, txn, started>>
    BY <1>1 DEF vars, sessionVars, codeVars, policyVars
  <2>2. TypeOK' /\ CodesCounted'
    BY <2>1 DEF PolicyInv, TypeOK, CodesTypeOK, CodesCounted
  <2>3. ASSUME NEW o \in Txns PROVE TxnSound(o)'
    BY <2>1, OthersKept DEF PolicyInv, TypeOK, CodesTypeOK
  <2> QED
    BY <2>2, <2>3 DEF PolicyInv
<1> QED
  BY <1>1, ProviderSteps, GrantSteps, RollbackSteps, RemoveUserSteps,
     DeletePolicySteps, DeleteMembershipSteps, SelectUsersSteps,
     RevokePairSteps, CommitSteps
  DEF Next, Transaction

LEMMA PolicyInitially == Init => PolicyInv
<1> SUFFICES ASSUME Init PROVE PolicyInv
  OBVIOUS
<1>1. CodesTypeOK /\ CodesCounted
  BY CodesInitially DEF Init, CodesInv
<1>2. TypeOK
  BY <1>1, MaxTxnsAssumption DEF Init, TypeOK
<1>3. \A t \in Txns : TxnSound(t)
  BY DEF Init, TxnSound, OpenTxn
<1> QED
  BY <1>1, <1>2, <1>3 DEF PolicyInv

-----------------------------------------------------------------------------
(* The theorems.                                                           *)

\* Every variable keeps its type.
THEOREM PolicyTypeCorrect == Spec => []TypeOK
<1>1. PolicyInv => TypeOK
  BY DEF PolicyInv
<1> QED
  BY <1>1, PolicyInitially, PolicySteps, PTL DEF Spec

\* A code is redeemed once, for any number of racing /token requests.
THEOREM CodesRedeemedOnce == Spec => []CodeRedeemedOnce
<1>1. PolicyInv => CodeRedeemedOnce
  BY RedeemedOnce DEF PolicyInv, TypeOK, CodesInv
<1> QED
  BY <1>1, PolicyInitially, PolicySteps, PTL DEF Spec

\* An open transaction is closed by its own commit, or without effect.
LEMMA Closes ==
  ASSUME PolicyInv, Next, NEW t \in Txns, txn[t] # Closed, txn'[t] = Closed
  PROVE  Commit(t) \/ UNCHANGED <<member, policy, events>>
<1>1. TypeOK /\ Closed \notin Open
  BY DEF PolicyInv, Open, Closed
<1>2. CASE ProviderStep
  BY <1>2 DEF ProviderStep, policyVars
<1>3. CASE Grant
  <2>1. GrantSeen
    BY <1>3 DEF Grant, AddUser, Set
  <2>2. txn'[t] = [txn[t] EXCEPT !.granted = TRUE]
    BY <2>1 DEF GrantSeen
  <2> QED
    BY <1>1, <2>2, HistoriesSet
<1>4. ASSUME NEW o \in Txns, Transaction(o), ~Commit(o)
      PROVE  UNCHANGED <<member, policy, events>>
  BY <1>4 DEF Transaction, RemoveUser, Start, DeletePolicy, DeleteMembership,
              SelectUsers, RevokePair, Rollback
<1>5. ASSUME NEW o \in Txns, o # t, Commit(o)
      PROVE  FALSE
  <2>1. txn'[t] = [txn[t] EXCEPT !.overtaken = TRUE]
    BY <1>5 DEF Commit
  <2> QED
    BY <1>1, <2>1, HistoriesSet
<1> QED
  BY <1>2, <1>3, <1>4, <1>5 DEF Next

\* What a commit finds recorded about the pairs it is about to take a path from.
LEMMA CommitLosers ==
  ASSUME PolicyInv, NEW t \in Txns, NEW p \in Pairs, Commit(t),
         LastPathLost(t, p), ~txn[t].overtaken
  PROVE  RevokedAlong(t, p)
<1>1. /\ txn[t] # Closed /\ ~txn[t].granted
      /\ Path(member, policy, p[1], p[2])
      /\ ~Path(member', policy', p[1], p[2])
      /\ txn[t].pc = "revoke" /\ txn[t].todo = {}
  BY DEF LastPathLost, Commit
<1>2. RowOf(t) /\ FoundAll(t) /\ ToldMarked(t)
  BY <1>1 DEF PolicyInv, TxnSound, OpenTxn
<1>3. member' = MembersAfter(t) /\ policy' = PoliciesAfter(t)
  BY <1>2 DEF RowOf, Commit, MembersAfter, PoliciesAfter
<1>4. p \in txn[t].told
  BY <1>1, <1>2, <1>3 DEF FoundAll
<1>5. events'[p] = events[p] + 1
  BY <1>4 DEF Commit
<1>6. TokensOf(p) \cap txn[t].before \subseteq revoked'
  BY <1>2, <1>4 DEF ToldMarked, Commit
<1> QED
  BY <1>5, <1>6 DEF RevokedAlong

\* The loss of the last path and its revocation are one step, for any number of
\* users, groups and racing transactions.
THEOREM LosersAreRevoked == Spec => LosersRevoked
<1>1. ASSUME PolicyInv, [Next]_vars
      PROVE  [\A t \in Txns, p \in Pairs :
                LastPathLost(t, p) /\ ~ txn[t].overtaken => RevokedAlong(t, p)]_vars
  <2> SUFFICES ASSUME Next, NEW t \in Txns, NEW p \in Pairs,
                      LastPathLost(t, p), ~ txn[t].overtaken
               PROVE  RevokedAlong(t, p)
    BY <1>1
  <2>1. ~UNCHANGED <<member, policy, events>>
    BY DEF LastPathLost
  <2>2. Commit(t)
    BY <1>1, <2>1, Closes DEF LastPathLost
  <2> QED
    BY <1>1, <2>2, CommitLosers
<1> QED
  BY <1>1, PolicyInitially, PolicySteps, PTL DEF Spec, LosersRevoked

\* A commit that tells of a pair leaves it no path, unless one was granted.
LEMMA CommitTellsLosers ==
  ASSUME PolicyInv, NEW t \in Txns, NEW p \in Pairs, Commit(t),
         ~txn[t].granted, events'[p] # events[p]
  PROVE  ~Path(member', policy', p[1], p[2])
<1>1. txn[t] # Closed /\ p \in txn[t].told
  BY OpenPc DEF PolicyInv, Commit
<1>2. RowOf(t) /\ FoundOnly(t)
  BY <1>1 DEF PolicyInv, TxnSound, OpenTxn
<1>3. OnlyThrough(p, RowGroup(t))
  BY <1>1, <1>2 DEF FoundOnly
<1> SUFFICES ASSUME NEW h \in Groups,
                    <<p[1], h>> \in member', <<p[2], h>> \in policy'
             PROVE  FALSE
  BY DEF Path
<1>4. member' \subseteq member /\ policy' \subseteq policy
  BY DEF Commit
<1>5. h = txn[t].row[2]
  BY <1>3, <1>4 DEF OnlyThrough, RowGroup
<1>6. CASE txn[t].kind = "member"
  <2>1. txn[t].row = <<p[1], h>>
    BY <1>1, <1>2, <1>5, <1>6 DEF RowOf, FoundOnly
  <2> QED
    BY <1>6, <2>1 DEF Commit
<1>7. CASE txn[t].kind = "policy"
  <2>1. txn[t].row = <<p[2], h>>
    BY <1>1, <1>2, <1>5, <1>7 DEF RowOf, FoundOnly
  <2> QED
    BY <1>7, <2>1 DEF Commit
<1> QED
  BY <1>2, <1>6, <1>7 DEF RowOf

\* Nobody who keeps a path is revoked, however transactions race.
THEOREM OnlyLosersAreRevoked == Spec => OnlyLosersRevoked
<1>1. ASSUME PolicyInv, [Next]_vars
      PROVE  [\A t \in Txns, p \in Pairs :
                (/\ txn[t] # Closed /\ txn'[t] = Closed /\ ~ txn[t].granted
                 /\ events'[p] # events[p])
                => ~ Path(member', policy', p[1], p[2])]_vars
  <2> SUFFICES ASSUME Next, NEW t \in Txns, NEW p \in Pairs,
                      txn[t] # Closed, txn'[t] = Closed, ~ txn[t].granted,
                      events'[p] # events[p]
               PROVE  ~ Path(member', policy', p[1], p[2])
    BY <1>1
  <2>1. Commit(t)
    BY <1>1, Closes
  <2> QED
    BY <1>1, <2>1, CommitTellsLosers
<1> QED
  BY <1>1, PolicyInitially, PolicySteps, PTL DEF Spec, OnlyLosersRevoked
=============================================================================
