# A formal model of the SSO platform

This directory holds TLA+ models of the single-sign-on platform in `src/`: an
Auth Provider (login with password and TOTP, group policies, an OAuth
authorization-code flow), two relying applications that keep local sessions,
a control panel for its administrators, and a sync worker that carries
revocations from the Auth Provider's outbox to the applications through
RabbitMQ. TLC checks the models on small instances; TLAPS proves the safety
properties that hold, and the refinements, for every instance.

```
tlc -workers 2 -config SyncWorkerDelivery.cfg MCSyncWorker.tla    # one run
tlapm SyncWorkerProofs.tla                                        # one proof module
```

`PROJECT.json` lists the runs, the lines of source every definition stands for,
the hazards and which property covers which, the findings and the theorems.

## 1. The system

| Component | State | Operations | Modelled in |
|---|---|---|---|
| Outbox publisher (`shared/queue`) | `events.published_at` rows, the current batch | `PublishBatch`: list the oldest unpublished rows, publish, await the confirm, `MarkPublished` | `OutboxPublisher` |
| Broker topology (`shared/queue`) | main queue, dead-letter queue, unacked deliveries | publish, deliver, ack, nack with and without requeue, redelivery | `Broker` |
| Delivery worker (`sync-worker/internal/worker`, `store`) | `event_deliveries` (status, attempts), one goroutine per target | `HandleDelivery`, `deliverTarget`, `ResolveTargets`, `BeginDelivery`, `Mark...`, `backoffFor` | `DeliveryWorker`, `RetryBackoff` |
| Sync worker process (`sync-worker/main.go`) | contexts, the two loops, one shutdown deadline and its channels, the wait group | start, signal, drain, cancel, join, exit, crash, restart | `SyncWorker`, `WorkerShutdown` |
| Auth Provider server process (`server/main.go`) | the `http.Server`, base context, wait group | serve, `gracefulServer.shutdown`, exit | `ServerShutdown` |
| Applications: internal logout | `processed_events`, local sessions | `ProcessRevocation` | `DeliveryWorker`, `SignOn` |
| Applications: sign-in | OAuth states (in memory), local sessions | `Login`, `Callback`, `Logout` | `SignOn` |
| Authorization code flow | `authorization_codes`, `access_tokens` | `/authorize`, `/token`, `/userinfo` | `AuthorizationCodes` |
| Group policies | `user_groups`, `application_policies` | `AddUser`, `Set`, `RemoveUser`, `Delete` | `AccessPolicy` |
| Central sessions and login | `users`, `sso_sessions`, `mfa_login_challenges`, `events` | `Login`, `LoginMFA`, `Logout`, status change, password change | `CentralSessions` |
| MFA enrollment | `user_totp_credentials` | `EnrollMFA`, `ConfirmMFAEnrollment` | `MfaEnrollment` |
| Admin API behind `RequireAdmin` | `users.status`, the group "administrators" | create, activate, deactivate, join, leave | `AdminAccess` |
| Control panel and the Auth Provider's pages | none of its own: the cookies and pages of browsers | sign-in, MFA code, sign-out, lists, operations | `ControlPanel` |

How they interact. Every revocation (logout, deactivation, password change,
loss of a policy) is a database transaction of the Auth Provider that also
inserts a row into `events`. The sync worker polls that table, publishes each
row to RabbitMQ and consumes the queue itself. A delivery is resolved to the
applications that hold an access token of the event's session (or the one
application a policy event names) and POSTed to each of them with retries that
are counted in the database. The application revokes its local sessions and
remembers the event id in one transaction. New local sessions come in the other
way: browser, `/authorize`, the application's `Callback`, `/token`,
`/userinfo`, insert. Administrators work through the control panel, which keeps
nothing: it passes the browser's session cookie on to the Auth Provider, where
`RequireAdmin` looks it up before every call, waits 15 seconds and renders the
answer. Both sites use the same two cookies, and all tabs of a browser share
them.

What is hard about it. Nothing is locked between those steps, so:

* publishing and marking are two systems, so an event may be published twice
  and two handlers then work on the same `event_deliveries` rows;
* a POST that timed out may still be carried out, next to its own retry;
* one ack or nack answers for several targets in different states;
* the process may crash, or be told to drain, at any point;
* a sign-in that is half way through does not notice a revocation;
* transactions run under READ COMMITTED, so two revoking transactions can each
  miss what the other one is about to commit;
* counters for MFA attempts are shared by parallel requests;
* an administrator's operation is checked, then carried out, perhaps after the
  panel has given up on it, and the cookies an answer sets or clears are those
  of all tabs;
* a process that stops has one deadline for phases that wait for each other,
  while handlers, batches and broker calls may hang.

What makes each part correct is stated as properties in section 4.

### Not modelled

* **Health, metrics, audit log, request logging**: read-only probes and
  best-effort inserts that no decision reads.
* **JWT, TOTP and AES computations**: pure functions without state. A code is
  right or wrong, a token live or not, nondeterministically or by its row.
* **Groups, applications and redirect URIs**, as the admin API and the panel
  register them: single-row inserts without a protocol. No operation changes
  the status of an application, so `Apps` is constant.
* **Application pages, profile cache**: stateless rendering and an upsert
  nothing decides on.
* **Seed and TOTP commands, configuration, migrations**: run before the system.
  What the seed leaves, an active administrator, is where `AdminAccess` starts.
* The shutdown of the panel and of the two applications: `http.Server.Shutdown`
  with ten seconds and nothing to join.
* A PATCH of a user's name or e-mail address alone: its UPDATE is the one
  statement of its transaction that locks anything, and nobody's session ends.
* Functions the server never calls: `RecordEnrollFailure`, `Upsert`,
  `IncrementAttempts`, `Consume`, `RevokeAllForUser`.
* Within modelled parts: a payload that does not parse (the outbox never
  produces one); a failed target query, which requeues the copy and so changes
  nothing; the loss of the broker connection as a step of its own: `haltIntake`
  then cancels the signal context (`main.go:333`), so the process drains and
  ends as after `Signal`, and its answers and publications are lost one by one
  (`AnswerLost`, `PublishFails`). A target that is active but has no usable
  credentials makes resolution fail for the whole event (`RejectUnresolvable`),
  as the code has it.

## 2. Modules

```
Broker <- OutboxPublisher <-+
   ^                        +-- SyncWorker -- MCSyncWorker (2 runs)
   +----- DeliveryWorker <--+       |  `----- SyncWorkerProofs (TLAPS)
          RetryBackoff <----+       |
                                    | implements
                          RevocationDelivery
                                    | used as the delivery of
AuthorizationCodes <--+-- SignOn ------- MCSignOn (2 runs), SignOnProofs (TLAPS)
                      +-- AccessPolicy - MCAccessPolicy (2 runs),
                      |                  AccessPolicyProofs (TLAPS)
                      +-- AuthorizationCodesProofs: lemmas for both (TLAPS)
CentralSessions -- MCCentralSessions (1 run), CentralSessionsProofs (TLAPS)
MfaEnrollment -- MCMfaEnrollment (2 runs), MfaEnrollmentProofs (TLAPS)
AdminAccess <-- ControlPanel -- MCControlPanel (2 runs)
                     `--------- ControlPanelProofs (TLAPS)
ShutdownBudget <-+- WorkerShutdown <-+-- ProcessShutdown (1 run)
                 +- ServerShutdown <-+      |  `-- ProcessShutdownProofs (TLAPS)
                                            | implements
                                       GracefulStop
```

* **Broker**: a queue is a bag of events (`ready`, `dead`), since several
  consumers and redelivery leave no useful order. `sent` counts what the broker
  accepted.
* **OutboxPublisher**: `outbox[e]` is the row; `batch` the snapshot
  `PublishBatch` walks; `marking` the row between the broker's confirm and
  `MarkPublished`. Events are numbered by `created_at`, and may be committed in
  another order. `PublishFails` covers a refusal, a nack, and a confirm that
  came too late for a message the broker did take.
* **DeliveryWorker**: `delivery[h]` is what handler `h` holds, `pc[h][a]` where
  its goroutine for application `a` stands, `status` and `attempts` the
  database row, `linked[e]` the applications with a token of the event's
  session, `late` the POSTs the worker gave up on that may still arrive. A
  goroutine is cut at `BeginDelivery`, the POST and the `Mark` statement.
* **SyncWorker** composes these and adds the process: `phase` is up, draining
  (after SIGTERM), cancelled (drain window over) or down. `faults` counts what
  goes wrong outside the applications and is bounded by `MaxFaults`; refused
  POSTs are bounded by the retry budget itself.
* **RevocationDelivery**: the promise of all this in four variables: an
  application applies a recorded event at most once, an event is closed only
  when its targets have applied it, every recorded event is closed or buried.
  `SyncWorker` implements it by the refinement mapping `Promise`, and `SignOn`
  uses the same module for its deliveries, so what `SignOn` assumes of delivery
  is what `SyncWorker` is checked to give.
* **AuthorizationCodes**: one action per endpoint, with `/token` cut between
  its checks and `Redeem`, whose UPDATE looks at `used_at` again. It is
  extended, not run, by the next two. `/authorize`'s check and insert are one
  action because `/token` repeats every check but the policy; `/userinfo`'s
  reads are one action because it stores nothing.
* **AccessPolicy**: `RemoveUser` and `Delete` statement by statement. A
  transaction's writes are kept in `txn[t]` until `Commit`; a row another
  transaction has written makes a statement wait.
* **SignOn**: `Callback` cut at its four calls, the Auth Provider's revocations
  as single transactions (their insides are `CentralSessions` and
  `AccessPolicy`), delivery as `RevocationDelivery`.
* **CentralSessions**: sign-in requests cut at their statements, the revoking
  transactions (logout, deactivation, new password, new password together with a
  new e-mail address) statement by statement with their row locks. An event, a
  session and a challenge refer to `users.id`, so inserting one takes a key-share
  lock of the users row. It goes with an UPDATE of the status or the password and
  not with one of the e-mail address, which has a unique index (`UserKeyFree`).
  `behind` remembers which password check a session comes from and whether a revocation
  had, or has since, listed the user's sessions.
* **MfaEnrollment**: every repository call is a statement of its own; requests
  of two tabs interleave between any two. `verified`, `slipped` and `tries` are
  histories.
* **RetryBackoff**: `backoffFor` on integers that wrap beyond `Largest`, next to
  `Reference`, the same in numbers that do not. It has no state; `SyncWorker`
  states that the two agree (`BackoffIsCapped`).
* **AdminAccess**: accounts, administrators, central sessions and challenges,
  with the admin API's operations on them. Each transaction is one step here:
  `CentralSessions` has cut the same code at its statements.
* **ControlPanel**: `call[t]` is the request a tab has under way, with the
  cookies it was sent with; `jar[b]` the cookies a browser has now. A call is
  served in up to four steps, since `RequireAdmin` asks before the handler acts
  and a page is made of up to three admin calls. `GiveUp` is the panel's
  timeout: the call is lost or moves to a slot of `Abandoned` and is served
  there. `Send` and `Receive` are the browser's. The Auth Provider's own sign-in
  form is in it too, because it shares the cookies.
* **ShutdownBudget** has what the two shutdowns share: the clock, the deadline,
  `finalizationReserve`, the join and the rule for closing the database, which
  takes as long as the database lets it (`CloseDatabase`).
  **WorkerShutdown** adds the consumer loop, `haltIntake`, the publisher, the
  metrics listener, the channels by which each gets the deadline, and the close
  of the broker connection, which does have a deadline.
  **ServerShutdown** adds `http.Server`, whose `Shutdown` waits for connections
  to become idle and may miss one that turns from new to active.
  **ProcessShutdown** is either of them; they share no state.
* **GracefulStop**: what both promise: no work is taken up once it is cancelled,
  and connections are closed only when nobody uses them.

History variables (each named so in its declaration) are never read by a guard.
Definitions whose comment says *Faulty variant* are not part of any
specification: each is a plausible bug that must break the property it names,
and stands before the definition it would replace.

## 3. Plan

Order: the most important behaviour, the revocation path, first; then the
sign-in it races with; then the Auth Provider's own transactions.

1. `Broker`, `OutboxPublisher`, `DeliveryWorker`, `SyncWorker` with
   `RevocationDelivery`; the inductive invariant and its theorems. *Done.*
2. `AuthorizationCodes` with `AccessPolicy`, `SignOn`. *Done.*
3. `CentralSessions`, `MfaEnrollment`. *Done.*
4. `AuthorizationCodesProofs`, `AccessPolicyProofs`, `SignOnProofs`,
   `CentralSessionsProofs`, `MfaEnrollmentProofs`. *Done.*
5. `AdminAccess` with `ControlPanel`; `ShutdownBudget` with the two shutdowns,
   `GracefulStop` and `ProcessShutdownProofs`; `RetryBackoff`. *Done.*
6. `CopiesConserved`, `TerminalKept`, `RetryBudget`, `BackoffIsCapped` and the
   refinement `KeepsPromise` as theorems; `ControlPanelProofs`. *Done.*
7. Left: the loss of the broker connection as an action of `SyncWorker`; a
   statement that the single-step revocations of `SignOn` and `AdminAccess` are
   what `CentralSessions` and `AccessPolicy` do in several.

## 4. What the runs check

`CHECK_DEADLOCK FALSE` is set everywhere: these systems rest once every event is
resolved, every request answered and every bound used up.

| Run | Instance | Properties and what they show |
|---|---|---|
| `delivery` | 1 event, 1 application, 2 handlers, 2 retries, 3 faults, `FairSpec` | `NoEventLost`: a row marked published always waits, is handled, was acked or is dead-lettered. `CopiesConserved`: requeues and crashes never multiply a message. `SentWithinFaults`: at most one extra publication per fault. `AppliedOnce`: copies, retries and late requests do not revoke again. `RetryBudget`: unless published twice, an event is tried at most `MaxRetries` times plus once per fault, so a restart does not begin the count anew. `TerminalKept`: unless published twice, a terminal row stays. `EventReachesApps`, `QueueEmpties`, `EventuallyResolved`: every committed event is applied or dead-lettered, and no message is requeued for ever. |
| `targets` | 1 event, 3 applications, one without credentials, 2 handlers, 1 fault; durations from -16 to 15 | `AckMeansApplied`: an ack means every target carried the revocation out. `RetryBudget`: as above, for several targets. `DeadLetterEarned`: dead-lettered only if unresolvable or out of retries, never for an error of the worker itself. `KeepsPromise`: every step is one of `RevocationDelivery`. `BackoffIsCapped`: for every base, cap and attempt the wait between attempts is the capped doubling, and no overflow makes it negative. |
| `policy` | 1 user, 1 application, 2 groups, 2 transactions, 2 codes, 2 `/token` requests | `CodeRedeemedOnce`: one token per code. `LosersRevoked`: who loses the last path loses the tokens and gets an event in the committing step, unless another revoking transaction committed meanwhile. `OnlyLosersRevoked`: nobody else does. `TypeOK`. |
| `policy_skew` | as `policy`, 1 code | **Violated**: `DeleteRevokesLosers` (finding 1). |
| `signon` | 1 user, 1 application, 1 central session, 2 flows | `StrayWasExposed`: after an event is acknowledged a local session of the revoked central session is left by one race only, between `/userinfo` and the insert. `NoSecondRevocation`: a redelivered event does not end a session stored after it was processed. `TypeOK`. |
| `signon_stray` | the same, 1 flow | **Violated**: `ClosedMeansSignedOut` (finding 2). |
| `sessions` | 2 sessions, 1 challenge, 2 sign-ins, 2 transactions, at most 2 of them open at once | `RevokedHasEvent`: a session is revoked exactly when it has an event. `RevokedOnce`: one `SessionRevoked` event. `RevokedSessionsGone`: a working session of an inactive user, or made with an old password, comes from a sign-in that was under way. `OnlyRenamesDeadlock`: revoking transactions wait for each other only if one changes e-mail address and password and one is a logout that has its session row and not yet its event. `ChallengeSingleUse`: one session per challenge. `ClaimedCodeHonoured`: a correct code on a claimed attempt is not refused for lack of attempts. `TypeOK`. |
| `mfa` | 2 enrollments, 2 confirmations, 3 attempts, 4 secrets, 2 expired locks | `ActiveSecretVerified`: the active secret is one a code was shown for, but for one race. `TriesBounded`: no more codes than allowed before a lock or reset. `OverwrittenByRaceOnly`: a confirmed credential is overwritten only by an enrollment that had read the row before. `TypeOK`. |
| `mfa_overwrite` | the same, smaller | **Violated**: `NeverOverwritten` (finding 3). |
| `portal` | 2 users, one with MFA, 2 tabs, 2 browsers, 2 sessions, 2 clicks, 1 abandoned call | `LastAdminOwnDoing`: the last active administrator is lost only by the operation of one who was an administrator when it was checked, and then only aimed at oneself or overtaken by another operation. `ForgottenOnlyWhenRevoked`: a browser loses the cookie of a working session only to the answer of a sign-out sent with another. `LandsWhereStarted`: a tab comes back to the application with its own request, whichever tab signed the browser in. `TypeOK`, by which only who has confirmed a second factor is asked for one. |
| `panel_loop` | 2 users, 1 tab, 1 browser, `FairSpec` | **Violated**: `SignInReachable` (finding 4). |
| `shutdown` | both processes; 2 handlers, timeout 5, reserve 1, intake limit 7, `FairSpec` | `ExitsInBudget`: past the deadline the process is gone, but for the closing of the database after a clean join, which has no deadline, and for an intake step that had begun before the deadline was armed and outlasts it. `ShutdownEnds`: it exits, or gets to that last call, even if no handler, batch or broker call ever returns. `ImplementsStop`: both implement `GracefulStop`. `TypeOK`. |

**Bounds and why they suffice.** Two handlers give every interleaving of two
copies of an event, and three faults allow a duplicate, a lost answer and a
crash in one behaviour. Two retries separate "may try again" from "the last
attempt"; `MaxRetries` larger repeats the first case. Two applications are what
one answer for several targets needs; a second event matters only for the
batch, the policy-event case and an unresolvable event. Two transactions and two
groups are the smallest write skew; two flows allow a user to sign in again
while an old callback is under way. Three enrollment attempts leave room for a
parallel claim below and at the limit (the code has 5), two expired locks for
the lock that follows a lock. `InFlight` in `MCCentralSessions` bounds how many
requests are open at once, not what they may do: each sign-in and transaction
still runs against each other one.
Five bits (`Largest = 15`) hold every way a duration can be near the largest
one: doubling, the cap and the overflow look only at which of two numbers is
larger. Two people,
one with a second factor, make a mutual deactivation; two tabs in one browser
or in two share or do not share cookies; one abandoned call is a call that
comes late. In `ControlPanel` two clicks start two requests, and links and
redirects are followed without limit. A
shutdown timeout of 5 with a reserve of 1 puts time before, in and after each
phase; the intake limit of 7 is the case of a `SHUTDOWN_TIMEOUT` below the ten
seconds `haltIntake` falls back to (`main.go:314`). `Never` bounds the clock of a process nobody stops.
The safety properties that are proved do not depend on these bounds
(section 5).

**Fairness.** `FairSpec` assumes of the running process that the publisher's
ticker fires, that the consumer loop takes what the broker offers (one condition
per event: RabbitMQ delivers in order of arrival), that every call of a handler
or a goroutine returns (each has a timeout), that the drain window ends and the
process exits, and that compose restarts it (`docker-compose.yml:134`,
`restart: unless-stopped`). All are weak fairness. Nothing is assumed of users,
late requests, applications (a POST may fail each time) or faults, of which
there are finitely many. `ProcessShutdown`'s `FairSpec` assumes that time passes,
that the goroutine waiting for the signal runs and that `main` is scheduled;
nothing of handlers, the publisher, the refresher, the broker or the closing of
the database.
`ControlPanel`'s assumes that the sites answer, that browsers take the answer
and that a person told to sign in follows the one link on the page. The other
modules have no liveness property of their own: a request may simply be
abandoned, and that a revoked session's event reaches the applications is
`EventuallyResolved` above.

**Exemptions.** Several properties hold only beside a race they name; they say
that this race is the only way, and do not speak against it. The race itself has
no property where the repository promises nothing about it.

| Property | Exempts |
|---|---|
| `LosersRevoked`, `OnlyLosersRevoked` | a transaction that another commit or a grant has overtaken since its list was read (`policies.go:84`, `groups.go:60`) |
| `RevokedSessionsGone` | a sign-in or a challenge that was under way when the sessions were listed (`auth.go:153`, `auth.go:261`) |
| `RevokedHasEvent`, `RevokedOnce` | the `PasswordChanged` event of a session another transaction has revoked meanwhile (`users.go:357`) |
| `OnlyRenamesDeadlock` | the logout and the PATCH below |
| `ActiveSecretVerified` | a secret that replaced the verified one before `Confirm` (`users.go:228`) |
| `StrayWasExposed` | a callback between `/userinfo` and its insert (`oauth.go:103`) |
| `ForgottenOnlyWhenRevoked` | the answer to a sign-out sent with an earlier cookie (control-panel `auth.go:191`) |
| `LastAdminOwnDoing` | an operation another one overtakes between check and write (`middleware.go:71`) |
| `TerminalKept`, `RetryBudget` | an event published twice, whose two handlers write one row without a guard (`store.go:230`) |
| `ExitsInBudget` | the closing of the database, and an intake step begun without a deadline |

### Findings

1. **`DeleteRevokesLosers`.** `policies.go:67-69` says deleting a policy revokes
   the tokens of any user who loses the final path. Two transactions that remove
   two different paths each count the other's, so both commit and nobody is
   revoked (write skew). What holds is `LosersRevoked`.
2. **`ClosedMeansSignedOut`.** The README (83-92) says SSO logout reaches the
   local sessions through the worker. A `Callback` that has the profile and has
   not stored the session yet (`oauth.go:103`) stores it after the event was
   processed, and nothing ends it. What holds is `StrayWasExposed`.
3. **`NeverOverwritten`.** `users.go:126` says a confirmed credential is never
   overwritten. `EnrollPending` reads, then updates by key, so a confirmation in
   between is undone. What holds is `OverwrittenByRaceOnly`.
4. **`SignInReachable`.** `renderSignInRequired` (`handlers.go:155-156`) says the
   session is missing or expired and links to `/login`. `LoginPage` (control-panel
   `auth.go:14`) sends whoever has a cookie, whatever it is worth, to `/`, which
   shows the same page again: no link leads to a sign-in form until the cookie
   expires or is removed, as by a visit to `/logout`, which the page does not name.

Three observations without a run. A logout and a PATCH that changes e-mail address
and password can deadlock (`OnlyRenamesDeadlock` leaves that case open): the logout
has updated its session row (`sessions.go:74`) and waits with its event for the
users row, the PATCH has updated the users row (`users.go:344`) and waits for the
session. PostgreSQL fails one of them, which is `Rollback`; no comment says this
cannot happen. `MFASettingsPage` sends a user without a session
to `/login?return_to=/mfa/enroll` (server `auth.go:384`), which `LoginPage`
refuses (`flow_helpers.go:161`). In the sync worker the health refresher runs
on `workCtx` (`main.go:100`), though its comment (406-408) says it is cancelled
by the shutdown signal: `drainWork` never finds all work finished, so every
shutdown uses up the drain window before the work is cancelled (`DrainWork`).

## 5. What is proved

Every theorem has the form `Spec => []Inv`, `Spec => [][Step]_vars` or, for the
two refinements, `Spec => AbstractSpec` (`WaitsAreDoubled` alone is about an
operator), and is proved for all values of the constants. The proof modules hold, in this order, the
inductive invariant with its parts, one lemma per group of actions that each
part survives it, and the theorems.

| Module | Theorems (the property of section 4 each one states) |
|---|---|
| `SyncWorkerProofs` | `TypeCorrect` (the type invariant, which no run lists), `AckedIsApplied` (`AckMeansApplied`), `RevokedOnce` (`AppliedOnce`), `DeadLettersAreEarned` (`DeadLetterEarned`), `SendsAreBounded` (`SentWithinFaults`), `PublishedIsKept` (`NoEventLost`), `NoCopyFromNothing` (`CopiesConserved`), `TerminalStays` (`TerminalKept`), `RetriesAreBounded` (`RetryBudget`), `ImplementsPromise` (`KeepsPromise`), `WaitsAreDoubled` and `WaitsAreCapped` (`BackoffIsCapped`); `DeliveryInvariant` is the invariant itself |
| `AccessPolicyProofs` | `PolicyTypeCorrect` (`TypeOK`), `CodesRedeemedOnce` (`CodeRedeemedOnce`), `LosersAreRevoked` (`LosersRevoked`), `OnlyLosersAreRevoked` (`OnlyLosersRevoked`) |
| `SignOnProofs` | `SignOnTypeCorrect` (`TypeOK`), `StraysWereExposed` (`StrayWasExposed`), `NoRepeatedRevocation` (`NoSecondRevocation`) |
| `CentralSessionsProofs` | `SessionTypeCorrect` (`TypeOK`), `RevocationHasEvent` (`RevokedHasEvent`), `OneRevocation` (`RevokedOnce`), `RevocationReachesSessions` (`RevokedSessionsGone`), `DeadlocksNeedRename` (`OnlyRenamesDeadlock`), `ChallengeUsedOnce` (`ChallengeSingleUse`), `ClaimsAreHonoured` (`ClaimedCodeHonoured`) |
| `MfaEnrollmentProofs` | `EnrollTypeCorrect` (`TypeOK`), `TriesAreBounded` (`TriesBounded`), `ActiveIsVerified` (`ActiveSecretVerified`), `OverwritesAreRaces` (`OverwrittenByRaceOnly`) |
| `ControlPanelProofs` | `PanelTypeCorrect` (`TypeOK`), `LandsRight` (`LandsWhereStarted`), `LastAdminLost` (`LastAdminOwnDoing`), `CookieForgotten` (`ForgottenOnlyWhenRevoked`); `PanelInvariant` is the invariant itself |
| `ProcessShutdownProofs` | `ShutdownTypeCorrect` (`TypeOK`), `StopsInBudget` (`ExitsInBudget`), `StopIsGraceful` (`ImplementsStop`) |

`AuthorizationCodesProofs` has the lemmas about codes and tokens that
`AccessPolicyProofs` and `SignOnProofs` share.

**Assumptions.** Only those the modules name: `NumEvents`, `MaxFaults`,
`MaxTxns`, `MaxChanges`, `MaxSecrets`, `MaxExpiries` and `CodesPerLogin` are
naturals, and so are `MaxSessions`, `MaxChallenges` and `MaxClicks`;
`BatchSize`, `MaxRetries` and `MaxAttempts` are positive (the first two fall
back to a default otherwise, `queue.go:324` and `worker.go:378`, the third is a
constant); `Handlers` is finite (one per delivery in progress); `PolicyEvents`
are events and `Configured` applications; `Owner` and `FlowApp` are functions
of the types they look like. Sets of users, groups, applications, sessions,
flows, requests, tabs and browsers are arbitrary. `MfaUsers` are users,
`Nobody` is none, a slot of `Abandoned` is no tab; `Largest` is positive. The
shutdowns: `Timeout` and `MaxReserve` are positive, `IntakeLimit` is any natural,
and no handler has the name of the refresher or the publisher.

**The arguments.**

* *Delivery path*, `DeliveryInv`. `AckMeansApplied` is not inductive: whether an
  ack is justified depends on what a goroutine believes, on what the row says
  and on what the application did. `SuccessIsReal` says a goroutine that reports
  success, and a row that says succeeded, belong to an application that has
  processed the event; `AppliedWithRow` that `applied` counts exactly the
  `processed_events` row. `GivenUpIsEarned` does the same for the dead-lettering
  side: a goroutine gives up, and a row says failed, only with a full retry
  count. `GoroutinesOwned` says a goroutine that runs belongs to a handler with
  a delivery, so a crash that drops the handler drops its goroutines too.
  `SendsAccounted` makes `sent` plus what may still be sent at most one plus the
  faults used. `NoEventLost` is inductive by the broker's counting: the bag, the
  handlers and the dead-letter queue only exchange copies, which is
  `CopiesConserved`. That one in turn says that an event that was published
  once has one handler, and so one writer of each row: `ClaimKept`, by which a
  goroutine between its claim and its `Mark` finds the row as it left it, and
  from which `TerminalKept` follows. `TriesLeft` carries `RetryBudget`: the
  attempts in the row stay within `AttemptLimit`, the retries and the faults so
  far. It takes a fault to put a copy back, and the attempt that fault allows is
  kept for whoever takes the copy up again: the limit is one lower while the
  event waits, or is about to (`PutBack`). `LateIsRecorded` says that a POST still on
  its way is of an event the outbox has, as what a handler holds is; so every
  step of the process is one of `RevocationDelivery` or a stutter under
  `Promise`.
* *Backoff.* The library's induction theorems take a predicate as a parameter,
  which the provers cannot instantiate. Its theorem that a non-empty set has a
  minimal element in a well-founded order (`WFMin`) has none, and the
  naturals are well-founded: `NumbersByInduction` is induction for sets of
  naturals, `IterationExists` says that a recursion over a step function
  defines its values, and `RoundAgrees` that one round of the loop and one
  doubling show the same below the cap.
* *Group policies*, `PolicyInv`. `TxnSound` ties the private work of an open
  transaction to the committed state: it deletes one row of its kind (`RowOf`);
  the users and applications it has found belong to that row, and unless a
  grant came in between their only path goes through it (`FoundOnly`); unless a
  grant or another commit came in between it has found every one its commit
  takes the last path from (`FoundAll`); and the tokens of those it is done with
  are revoked (`ToldMarked`). Without the two histories neither direction holds,
  which is what finding 1 shows.
* *Sign-in and sign-out*, `SignOnInv`. `FlowsGrounded`: a flow has a profile or a
  local session only by a token for its own application. `FlowsReached`: a flow
  of a revoked session that has, or is one insert away from, a local session is
  among the targets of every resolution, and exposed once its application has
  processed the event. That is what `StrayWasExposed` says after the
  acknowledgement, pushed back to before it. It is preserved because
  `/userinfo` refuses a revoked session (`PendingSince`) and because
  `ResolveTargets` does not look at the tokens' revocation (`TargetsCover`).
* *Central sessions*, `CentralInv`. `LocksHeld`: a session row has one writer at a
  time, and so has the users row. With it, and with a logout writing one row
  only (`TxnSound`), a circle has one transaction that holds the users row, and a
  logout in it waits for nothing but an e-mail address: `OnlyRenamesDeadlock`.
  `TxnSound` also says that a session
  written in an open transaction is still active to everybody else and that one
  with an event but no write was revoked by another transaction; that carries
  `RevokedHasEvent` and `RevokedOnce` over the commit. `SignInsKnown`: a check, a
  challenge or a session that no revocation has overtaken is fresh, and such a
  session is on the list of whoever is about to revoke; so at the commit none
  is left. `ChallengesCounted`: attempts stay within the limit and a challenge
  was honoured exactly if it is used.
* *Enrollment*, `EnrollInv`. `TriesCounted`: the counter covers the codes tried,
  and an unlocked row has room for one more. `ConfirmsVerified`: what `Confirm`
  may activate was verified or slipped in, said of requests still under way.
  `LateIsKnown`: a pending enrollment that is not late found the row
  unconfirmed, and so it still is.
* *Control panel*, `PanelInv`. `LandsWhereStarted` is about a page; `OwnIntents`
  says the same of the forms, requests, redirects and answers that lead to it,
  which is why the intent must travel in the form and cannot be the browser's.
  `RequestsMeant` keeps what `RequireAdmin` has seen with the call until the
  handler acts; an operation takes nobody but its target off the
  administrators, so whoever sent it is either the target or was taken off
  before. `CookiesIssued` says that a token nobody has got yet is in no jar and
  no request, so a session that does not work will not start to work under a
  cookie that is already around; with it `ClearedAfterRevocation` survives
  until the answer arrives.
* *Shutdown*, `StopInv`. `ExitsInBudget` alone says nothing of a wait that has
  begun: `IntakeBounded` and `ChannelsWait` say that intake's limit is no later
  than the deadline and that a deadline which is armed is in the channels of
  those still to take it, so that each phase ends in time for the next. Of the
  last one, `closing`, nothing is said but that nobody uses the connections.
  `CancelledAtJoin` and `CleanMeansUnused` carry what the join has seen to the
  moment the connections are closed. Every step is then a step of `GracefulStop`
  or a stutter.

**Only model-checked.** The liveness properties `EventReachesApps`,
`QueueEmpties`, `EventuallyResolved` and `ShutdownEnds`, which are out of the
prover's reach together with `ENABLED` and fairness. The four properties the
code violates are refuted by TLC's counterexamples.

Together: `SignOn` takes `RevocationDelivery` as its delivery, and
`ImplementsPromise` says that `SyncWorker` keeps that promise, whatever the
number of events, applications, handlers and faults. That a promised delivery
does take place in the end (`EventuallyResolved`) rests on the run `delivery`.
