---------------------------- MODULE AccessPolicy ----------------------------
(***************************************************************************)
(* Group policies: a user may sign in to an application while some group   *)
(* of theirs has an allow policy for it.  Removing a membership            *)
(* (GroupRepository.RemoveUser) or a policy (PolicyRepository.Delete) is a *)
(* transaction that works out who loses the last path, revokes their       *)
(* access tokens for the application and records AccessPolicyChanged       *)
(* events; granting is one statement.                                      *)
(*                                                                         *)
(* The transactions run statement by statement under READ COMMITTED: a     *)
(* statement sees what is committed when it starts and its own writes, and *)
(* waits for a row another transaction has written.                        *)
(***************************************************************************)
EXTENDS AuthorizationCodes

CONSTANTS
  Groups,
  Txns,        \* concurrent revoking transactions
  MaxTxns      \* bound on the revoking transactions a behaviour starts

ASSUME MaxTxnsAssumption == MaxTxns \in Nat

VARIABLES
  member,      \* committed user_groups rows
  policy,      \* committed allow policies
  events,      \* events[p]: AccessPolicyChanged events of p = <<user, app>>
  txn,         \* txn[t]: the open transaction of t, or Closed
  started      \* revoking transactions started so far

policyVars == <<member, policy, events, txn, started>>
vars == <<sessionVars, codeVars, policyVars>>

Pairs == Users \X Apps

\* row is the deleted membership or policy, todo and told the pairs still to
\* be revoked and revoked, marked the tokens the transaction has revoked.
\* before (tokens at the first statement), granted and overtaken (a grant,
\* another revoking transaction was committed since) are histories.
Closed == [pc |-> "closed"]
Open == [pc : {"delete", "select", "revoke"},
         kind : {"member", "policy"},
         row : (Users \X Groups) \cup (Apps \X Groups),
         todo : SUBSET Pairs, told : SUBSET Pairs, marked : SUBSET Codes,
         before : SUBSET Codes, granted : BOOLEAN, overtaken : BOOLEAN]

TypeOK ==
  /\ CodesTypeOK
  /\ member \in SUBSET (Users \X Groups)
  /\ policy \in SUBSET (Apps \X Groups)
  /\ events \in [Pairs -> Nat]
  /\ txn \in [Txns -> Open \cup {Closed}]
  /\ started \in 0 .. MaxTxns

Init ==
  /\ CodesInit
  /\ member \in SUBSET (Users \X Groups)
  /\ policy \in SUBSET (Apps \X Groups)
  /\ events = [p \in Pairs |-> 0]
  /\ txn = [t \in Txns |-> Closed]
  /\ started = 0

\* The allow path of a user to an application through one of the groups.
Path(members, policies, u, a) ==
  \E g \in Groups : <<u, g>> \in members /\ <<a, g>> \in policies

UserHasApplicationAccess(u, a) == active[u] /\ Path(member, policy, u, a)

TokensOf(p) == {k \in Codes : UserOf(k) = p[1] /\ AppOf(k) = p[2]}

-----------------------------------------------------------------------------
(* Grants: one autocommitted statement each.                               *)

\* A row another transaction has deleted and not committed is still there.
Deleting(kind, row) ==
  \E t \in Txns : /\ txn[t].pc \in {"select", "revoke"}
                  /\ txn[t].kind = kind /\ txn[t].row = row

GrantSeen ==
  txn' = [o \in Txns |-> IF txn[o] = Closed THEN Closed
                         ELSE [txn[o] EXCEPT !.granted = TRUE]]

\* Faulty variant (TypeOK): user and group are swapped.
AddUser_Swapped(u, g) ==
  /\ <<u, g>> \notin member
  /\ member' = member \cup {<<g, u>>}
  /\ GrantSeen
  /\ UNCHANGED <<sessionVars, codeVars, policy, events, started>>

AddUser(u, g) ==
  /\ <<u, g>> \notin member
  /\ member' = member \cup {<<u, g>>}
  /\ GrantSeen
  /\ UNCHANGED <<sessionVars, codeVars, policy, events, started>>

Set(a, g) ==
  /\ <<a, g>> \notin policy
  /\ policy' = policy \cup {<<a, g>>}
  /\ GrantSeen
  /\ UNCHANGED <<sessionVars, codeVars, member, events, started>>

-----------------------------------------------------------------------------
(* RemoveUser and Delete.                                                  *)

\* Faulty variant (OnlyLosersRevoked): other groups are not considered.
AffectedApplications_AnyPolicy(u, g) ==
  {a \in Apps : <<u, g>> \in member /\ <<a, g>> \in policy}

\* The SELECT of RemoveUser, before its DELETE.
AffectedApplications(u, g) ==
  {a \in Apps :
     /\ <<u, g>> \in member /\ <<a, g>> \in policy
     /\ ~ \E h \in Groups \ {g} : <<u, h>> \in member /\ <<a, h>> \in policy}

\* Faulty variant (LosersRevoked): the deleted policy still counts as a path.
AffectedUsers_BeforeDelete(a, g) ==
  {u \in Users : <<u, g>> \in member /\ ~ Path(member, policy, u, a)}

\* The SELECT of Delete, which sees its own DELETE.
AffectedUsers(a, g) ==
  {u \in Users :
     <<u, g>> \in member /\ ~ Path(member, policy \ {<<a, g>>}, u, a)}

Start(t, kind, row, pc, todo) ==
  /\ txn[t] = Closed
  /\ started < MaxTxns
  /\ started' = started + 1
  /\ txn' = [txn EXCEPT ![t] =
       [pc |-> pc, kind |-> kind, row |-> row, todo |-> todo, told |-> {},
        marked |-> {}, before |-> {k \in Codes : tokens[k] > 0},
        granted |-> FALSE, overtaken |-> FALSE]]
  /\ UNCHANGED <<sessionVars, codeVars, member, policy, events>>

Rollback(t) ==
  /\ txn[t] # Closed
  /\ txn' = [txn EXCEPT ![t] = Closed]
  /\ UNCHANGED <<sessionVars, codeVars, member, policy, events, started>>

RemoveUser(t, u, g) ==
  Start(t, "member", <<u, g>>, "delete",
        {<<u, a>> : a \in AffectedApplications(u, g)})

\* The DELETE waits for a transaction that has deleted the same row, and finds
\* nothing to delete once that one has committed.
DeleteMembership(t) ==
  /\ txn[t].pc = "delete"
  /\ ~ Deleting("member", txn[t].row)
  /\ \/ /\ txn[t].row \in member
        /\ txn' = [txn EXCEPT ![t].pc = "revoke"]
        /\ UNCHANGED <<sessionVars, codeVars, member, policy, events, started>>
     \/ /\ txn[t].row \notin member
        /\ Rollback(t)

\* Delete's first statement; a policy that is not there ends it unchanged.
DeletePolicy(t, a, g) ==
  /\ <<a, g>> \in policy
  /\ ~ Deleting("policy", <<a, g>>)
  /\ Start(t, "policy", <<a, g>>, "select", {})

SelectUsers(t) ==
  /\ txn[t].pc = "select"
  /\ LET a == txn[t].row[1]
         g == txn[t].row[2]
     IN txn' = [txn EXCEPT ![t].pc = "revoke",
                  ![t].todo = {<<u, a>> : u \in AffectedUsers(a, g)}]
  /\ UNCHANGED <<sessionVars, codeVars, member, policy, events, started>>

\* One round of the loop: the pair's tokens are revoked and its event stored,
\* once no other transaction holds one of the token rows.
RevokePair(t, p) ==
  LET found == {k \in TokensOf(p) : Live(k)} IN
  /\ txn[t].pc = "revoke" /\ p \in txn[t].todo
  /\ \A o \in Txns \ {t} : txn[o] # Closed => txn[o].marked \cap found = {}
  /\ txn' = [txn EXCEPT ![t].todo = @ \ {p}, ![t].told = @ \cup {p},
                        ![t].marked = @ \cup found]
  /\ UNCHANGED <<sessionVars, codeVars, member, policy, events, started>>

Commit(t) ==
  /\ txn[t].pc = "revoke" /\ txn[t].todo = {}
  /\ IF txn[t].kind = "member"
     THEN member' = member \ {txn[t].row} /\ UNCHANGED policy
     ELSE policy' = policy \ {txn[t].row} /\ UNCHANGED member
  /\ events' = [p \in Pairs |-> IF p \in txn[t].told THEN events[p] + 1
                                ELSE events[p]]
  /\ revoked' = revoked \cup txn[t].marked
  /\ txn' = [o \in Txns |-> IF o = t \/ txn[o] = Closed THEN Closed
                            ELSE [txn[o] EXCEPT !.overtaken = TRUE]]
  /\ UNCHANGED <<sessionVars, code, request, tokens, started>>

-----------------------------------------------------------------------------
ProviderStep ==
  /\ \/ \E s \in Sessions : CreateSession(s)
     \/ \E k \in Codes :
          \/ Authorize(k, UserHasApplicationAccess(UserOf(k), AppOf(k)))
          \/ ExpireCode(k)
          \/ \E r \in Requests : TokenChecks(r, k)
     \/ \E r \in Requests : Redeem(r) \/ RedeemFails(r)
  /\ UNCHANGED policyVars

Grant ==
  \E g \in Groups : \/ \E u \in Users : AddUser(u, g)
                    \/ \E a \in Apps : Set(a, g)

Transaction(t) ==
  \/ \E g \in Groups : \/ \E u \in Users : RemoveUser(t, u, g)
                       \/ \E a \in Apps : DeletePolicy(t, a, g)
  \/ DeleteMembership(t)
  \/ SelectUsers(t)
  \/ \E p \in Pairs : RevokePair(t, p)
  \/ Commit(t)
  \/ Rollback(t)

Next == ProviderStep \/ Grant \/ \E t \in Txns : Transaction(t)

Spec == Init /\ [][Next]_vars

-----------------------------------------------------------------------------
(* Properties.                                                             *)

\* The commit of t takes the last path of pair p away, no path having been
\* granted since t started.
LastPathLost(t, p) ==
  /\ txn[t] # Closed /\ txn'[t] = Closed /\ ~ txn[t].granted
  /\ Path(member, policy, p[1], p[2])
  /\ ~ Path(member', policy', p[1], p[2])

\* The tokens of p that t found at its first statement are revoked (a token
\* redeemed later is not: /token does not look at policies), and the event is
\* stored.
RevokedAlong(t, p) ==
  /\ events'[p] = events[p] + 1
  /\ TokensOf(p) \cap txn[t].before \subseteq revoked'

\* Whoever loses the final allow path to an application, by a removed
\* membership or a deleted policy, loses the application's tokens and gets an
\* event in the very step that commits it, unless another such transaction was
\* committed while this one ran.
LosersRevoked ==
  [][\A t \in Txns, p \in Pairs :
       LastPathLost(t, p) /\ ~ txn[t].overtaken => RevokedAlong(t, p)]_vars

\* The comment on Delete says so of every deletion of a policy, whatever other
\* administration requests run beside it.
DeleteRevokesLosers ==
  [][\A t \in Txns, p \in Pairs :
       LastPathLost(t, p) /\ txn[t].kind = "policy" => RevokedAlong(t, p)]_vars

\* Nobody's tokens are revoked while a path remains, unless the path was
\* granted after the transaction had looked.
OnlyLosersRevoked ==
  [][\A t \in Txns, p \in Pairs :
       (/\ txn[t] # Closed /\ txn'[t] = Closed /\ ~ txn[t].granted
        /\ events'[p] # events[p])
       => ~ Path(member', policy', p[1], p[2])]_vars
=============================================================================
