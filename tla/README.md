# Specification of AppBase

TLA+ models of AppBase, a local-first synchronization backend (a Cloudflare
Worker over D1, `packages/server`) with its Dart and Flutter clients
(`packages/appbase_*`). The modules follow the source statement by statement
where processes interleave. TLC checks them on small instances; TLAPS proves
what matters most for every value of the constants. `PROJECT.json` maps every
definition to the lines it stands for and lists the hazards of the code.

    tlc -workers 2 -config SyncServer_conflicts.cfg MCSyncServer
    tlapm SyncServer_proof.tla

## 1. Inventory

| Component | State it keeps | Operations | What is hard | What makes it correct |
|---|---|---|---|---|
| Merge (`domain/sync.ts`) | none | three-way merge, conflict order | absent properties, ties, arrival order | no change of either side is dropped; an order independent of arrival |
| Push (`usecases/sync.ts`, `d1_sync_repository.ts`) | `appbase_records`, an append-only history | `PUT mutation-batches`: find, read, conditional insert, find again | concurrent requests, lost answers, duplicates, half-finished batches, bounded retries | one version per mutation, one linear merged chain per record, true answers |
| Change feed (same files, `domain/cursor.ts`) | the cursor a client hands in | `GET changes` | the log grows between pages; rows of other accounts in between; the extra row | nothing skipped, nothing repeated out of order, no early end |
| Sync engine and outbox (`appbase_client`, `appbase_drift`) | projection, outbox, record metadata, checkpoint | commit, pull, push, acknowledge | edits between any two steps, runs that stop, requests served late | no edit lost, checkpoint and metadata agree, convergence |
| Local account (`drift_persistence.dart`, `sync_engine.dart`) | active account, sync state, projection, outbox, fences in memory | saveAccount, commit, deleteAccount, signIn, signOut | a crash between two transactions, a switch or an erasure during a commit or a run | an account's data and its checkpoint stay together, an erased account stays empty |
| Account lifecycle (`usecases/accounts.ts`, `d1_accounts.ts`, triggers of migration 0008) | accounts, device sessions, pending cleanups | register, open, renew, delete, clean up, cron | registration races, stale writers, failing providers, two cleanups at once | a fence around deleted accounts, one live account per identity, every deletion completes |
| Billing (`usecases/billing.ts`, `d1_billing_repository.ts`) | identities, generations, snapshots, events, catalog | synchronize, webhook, replaceCatalog | overlapping synchronizations, redelivered events, concurrent editors | the newest snapshot wins, no event is lost, a catalog follows the one it was validated against |
| Quotas (`usecases/membership.ts`) | usage rows | claimUnique, releaseUnique | concurrent claims, plan and period changes | the limit holds |
| Envelope encryption (`envelope_secret_codec.ts`) | user keys, envelopes | seal, open, reencryptBatch, retireUserKeys | rotation under writers of two deployments | whatever is stored can be opened |
| Account session (`account_session.dart`) | binding, refresh in flight, generation | open, accessToken, signOut | sign-out during an await | a signed-out device keeps no token |
| OIDC session and grant (`appbase_flutter`: `oidc_session.dart`, `oidc_manager.dart`) | stored credentials, the manager in use, tokens per resource | sign in, refresh, sign out, token per resource | deadlines that abandon an exchange, late answers, several askers of one refresh token | no revived session, a token fits its resource and its user |
| Sync controller (`sync_controller.dart`) | retry timer, invalidation | schedule, retry, invalidate | one timer shared by many callers, runs shared by timers and calls | what was scheduled is answered or tried again |
| Billing client (`appbase_billing.dart`) | queue, generation, phase | setAccount, clearAccount, purchase | account changes during an operation | no operation runs under another customer |
| Administration (`http/admin*.ts`, `d1_admin_sessions.ts`, `browser/admin_*.ts`) | login attempts, sessions, rotating credentials in the browser | log in, refresh, sign out, edit the catalog | one-time attempts, tabs that refresh at once | an attempt is used once, a refresh token once |
| Transport, user interface, contracts, templates | none | encoding, markup | | not modelled: no protocol of their own |

How they interact. A device commits edits to its own database, which fills its
outbox. The engine asks the account session for a token, pulls pages from the
feed, sends the outbox to push and pulls again. The server authorizes each
request against the account lifecycle and, whatever the authorization said a
moment ago, against the triggers inside each write. Payloads are sealed with the
user key before they are stored. Deleting an account erases the owner's tables
in one batch and then its customers at the billing provider, from the request
and from the scheduled handler. Billing state becomes membership grants, which
quotas read.

## 2. What is modelled

Every action stands for one awaited statement (or transaction) of the code,
with all it changes. Between two of them every other process may run.

**`SyncMerge`** - `defaultThreeWayMerge` and `preferredPayload`. A payload is a
function from a few property names to values, where `Absent` is an own property
that is missing, with the optional conflict order beside it. `None` is the
payload of a deleted record.

**`SyncLog`** - the abstract specification: one log of versions; devices
compose mutations, the server accepts each at most once in one step, merged onto
the version current at that moment, and devices learn of accepted versions only.
A revision is a random UUID in the code and the position in the log here. A
mutation identity stands for owner, device and mutation id.

**`SyncServer`** - the same as the code runs it. `Workers` are requests in
progress; `worker[w]` holds the locals of `pushMutations` and `pushMutation`.

| Action | Code (`usecases/sync.ts` unless said otherwise) |
|---|---|
| `Receive` | the route of `http/app.ts` starts `pushMutations` |
| `Find` | `findMutation` before the loop, replay or go on |
| `ReadCurrent` | `getCurrent` at the top of an attempt |
| `AppendVersion`, `AppendNothing` | the conditional INSERT of `append`, taken or not |
| `Recheck` | `findMutation` after a lost race: replay, another attempt, or `SyncConflictError` |
| `Respond`, `Reject` | the 200 or the 409 reaches the device |
| `Crash` | the worker or the connection is lost |

**`SyncFeed`** - `pullChanges` and `listChanges` over the log of `SyncLog`, with
readers that keep paging. A cursor is the sequence it encodes.

**`SyncClient`** - devices over the log of `SyncLog` and the paging of
`SyncFeed`. `device[d]` is the product database: `outbox` (at most one entry
per record, as `_enqueue` keeps it), `applied` (the revision column of the
record metadata), `product` (what the user sees) and `checkpoint`. `engine[d]`
is the run in progress.

| Action | Code |
|---|---|
| `Edit` | `commit` with `_enqueue`: one transaction |
| `Start` | `syncNow` |
| `Fetch` | `api.pull` in `_pullAll` |
| `Apply` | `applyPull`: one transaction |
| `Push`, `NothingPending` | `loadPending` and `api.push`, or the end of the loop |
| `Acknowledge` | the results arrive, `acknowledge` deletes by mutation id |
| `Stop` | any error, or the end of the process |
| `Accept` | the server stores a mutation it was sent, perhaps long ago |

The server's part of a push is the abstract `LogAccept`, which `SyncServer`
implements; batches may be stored in part and late. `loadPending` orders by the
device's clock and by random ids, so `Push` may take any entries up to the limit.

**`AccountLifecycle`** - requests and cron runs as processes over the tables of
migration 0008. `rows` abstracts the owner's rows in the four tables that `begin`
erases to whether there are any; `billing` is `appbase_billing_accounts`. Two
history variables, `registrant` and `issued`, remember who registered an account
and which customers ever existed, for the properties only. `status = "unused"`
is an id without a row, which `register` may draw.

| Action | Code |
|---|---|
| `ArriveOpen`, `OpenExisting`, `OpenNew`, `OpenRefused` | `AccountService.open` |
| `Insert`, `Reread` | `register` |
| `SaveSession`, `EndSession` | `saveSession`; expiry and `revokeSession` |
| `ArriveWithSession`, `ArriveLegacy`, `Check` | `authenticate`, `requireAccount`, `requireActive` |
| `Write`, `Finish`, `Identity` | writes of the business API and of billing, with the triggers |
| `Begin`, `Pending`, `Provider`, `Forget`, `Complete` | the cleanup, statement by statement |
| `Fail`, `Postpone`, `Cron`, `Tick` | a failing step, `postpone`, `processDue`, time passing |
| `Crash` | the process ends anywhere |

**`AccountRegistry`** - the abstract specification of the same: an identity registers
an account when those it had are deleted, its devices open and close sessions, data and
billing customers come while it is active, and it goes from `AcceptDeletion` to
`CompleteDeletion` and never back, the latter when the provider has erased every
customer it owes. Every operation is one step. `ImplementsRegistry` in
`AccountLifecycle` is the refinement: `holder` is `registrant`, the customers owed are
those issued and not yet erased at the provider, the tables are themselves. `Insert`,
`SaveSession`, `EndSession`, `Write`, `Identity`, `Begin`, `Provider` and `Complete` map to
a registry step where they take effect; the statements around them, failures and crashes
map to stutters.

**`LocalAccount`** - the accounts of one device. The transactions of
`drift_persistence.dart` are actions: `saveAccount` is two of them (`Deactivates`,
`Activates`), `deleteAccount` the fence in memory, the adapters' part and the rows' part
(`Fences`, `ErasesProjection`, `ErasesRows`). A run of the engine and a call of the
user interface hold a task each and interleave; `edit[e]` is a `commit` between reading the account and its transaction. `Crash` keeps the
database and loses memory (`_deletedAccounts`, `_deletionStarted`, tasks).

| Action | Code |
|---|---|
| `RunStarts`, `RunSaves`, `RunPulls`, `RunAcknowledges`, `RunStops` | `_synchronize` |
| `RunRefused`, `RunErases` | its branch for deleted accounts and invalid sessions |
| `Restores`, `SignsIn`, `Enters`, `CallSaves` | `restore`, `signIn`, `registerAccount` |
| `Leaves`, `RunOver`, `CallErases`, `CallFails` | `signOut`, `deleteAccount` |
| `CommitReads`, `Commits` | `commit` |

`UndisturbedSpec` are the behaviours in which nothing comes between two transactions
that belong together and nobody changes accounts during a run; finding 5 and the theorem
`SwitchesKeepPages` are about them.

**`BillingSync`** - `BillingService` over the statements of
`d1_billing_repository.ts`. A snapshot is the number of the provider's changes it
reflects, with the provider's `request_date`, which may repeat. `latest[c]` is the
caller whose generation is the current one. A webhook goes through its contexts and
the ids an event names, each with a whole synchronization (`CheckEvent`, `Owner`,
`Identify`, `BeginSync`, `Subscriber`, `CommitSync`, `Mark`); `Fail` may end a
request at any await, and `Notify` delivers an event any number of times.

**`BillingCatalog`** - editors that load the catalog with its revision, send a
replacement (`SendCatalog`: revision compared, validated) and have it replaced on
condition (`ReplaceCatalog`: INSERT or UPDATE). A catalog is its free plan, a limit
per plan, the plan of each entitlement and the purchase policy.

**`MembershipQuota`** EXTENDS `BillingCatalog` - requests that find a plan
(`ActiveGrant`), read the catalog again for its limit (`PlanFor`) and insert or
delete on condition (`ClaimUsage`, `ReleaseUsage`), while editors, grants,
subscriptions and months change. Among several entitled plans `ActiveGrant` takes
any; the code's choice (the first in the catalog) is one of them.

**`KeyRotation`** - `D1EnvelopeSecretCodec` in the hands of writers and of
administrators' scripts. `FindKey` and `CreateKey` are `userKey`, `SelectBatch`,
`OpenRow`, `UpdateRow` and `Remaining` are `reencryptBatch`, `CountEnvelopes` and
`RetireUserKeys` are `retireUserKeys`. A ciphertext is the name of the key that
sealed it. `Deploy`, `DeployedEverywhere`, `Paused` and `RemoveMasterKey` are the
operator following `docs/key-rotation.md`: rotation begins, and a master key goes,
when no worker has the previous keyring any more.

**`AdminLogin`** - attempts and sessions of the confidential client, with the
callback statement by statement (`Arrive`, `ConsumeAttempt`, `ExchangeCode`,
`ReplaceSession`, `PutSession`) and a clock for expiry.

**`AdminTabs`** - tabs of the browser client around one credential in
`localStorage` under a Web Lock: `Renew` takes it out of the storage before
`SendRefresh`. The provider is assumed to rotate: `tokenSet` keeps the previous
refresh token when the answer has none, and that case is left out.

**`AccountSession`** - calls of `account_session.dart` between their awaits: an open
(`BeginOpen`, `Opened`, `WriteBinding`) notes the generation, compares it when the
server has answered and again when the store's queue comes to it; `SignOutSession`
counts a generation first, then `ClearBinding` and `LeaveIdentity`.

**`OidcSession`** - the manager and the runtime that replaces it: `TimesOut` retires
a manager and lets its exchange be answered late, `Answered` saves only in a live
manager (`MaySave`), `SignOut` waits for the exchange in progress and `Forgets`.

**`ResourceTokens`** - `AppBaseOidcGrant`: `AccessToken` queues calls without a usable
token, `Refreshes` has its turn and joins or begins the manager's exchange,
`Exchanged` stores what it brought under what each call asked for, `GrantSignOut`
drops the tokens first.

**`SyncController`** - the timer, the runs it shares with the user's calls, and who
waits for them (`waiting`). `Signal` is any `scheduleSync`; `RunEnds`, `RunFails`,
`RunErases` and `EraseFails` are the ways a run ends. Delays are left out: a timer
that is set may fire at any time. `ScheduledIsPending`: what was scheduled has its timer
or awaits the run in progress. `signOut` and `deleteAccount` cancel the timer before they
ask the engine (`Cancels`; `sync_controller.dart` lines 99 and 104); that gives up what was
scheduled, also when the call fails later and the session stays, so the property speaks
of what was not given up.

**`BillingController`** - the queue `_tail` as a sequence whose head is in progress,
each await a step (`Starts`, `ReadPolicy`, `Identifies`, `Operated`, `Synchronized`,
`Refreshed`), `WorkFails` at any of them, and `clearAccount` with the SDK logout
beside the queue (`ClearIdentity`).

**Composition.** `SyncClient` runs over the log of `SyncLog`, which `SyncServer`
implements, with the paging of `SyncFeed`; `AccountLifecycle` implements
`AccountRegistry`; `MembershipQuota` runs over the editors of
`BillingCatalog`. `MCServices`, `MCDevice` and `MCLiveness` are not compositions:
they check several components that share no state in one run each, a
behaviour staying in the component it began with (the variable `component`). The
states of such a run are the sum of the components', not the product.

Definitions marked "Mutant" are plausible mistakes in the definition below them;
each property is shown to fail under one of them. No specification uses them.

## 3. Runs

| Run | Question | Bounds | States |
|---|---|---|---|
| `conflicts` | Are concurrent pushes serialized, merged and answered truthfully, and do they implement `SyncLog`? | 3 mutations of one record, 2 workers, 2 attempts, payloads over one property | 425 000 |
| `batches` | Are batches that overlap, repeat or fail half-way answered in order, and is each mutation acknowledged in the end, if its device keeps sending it until then? | 2 mutations of one record, 2 workers, batches up to 2, 1 attempt | 170 000 |
| `client` | Do devices lose edits, or disagree with their checkpoint; and do they meet what `SyncLog` assumes of them? | 2 devices, 3 mutations, 2 records, pages and batches of 2 | 2 080 000 |
| `accounts` | Are writers fenced and customers erased; do sessions belong to their identity and incarnation; and do the tables implement `AccountRegistry`, with deletion final and the replacement late enough? | 2 identities, one migrated, 2 devices, 2 accounts, 2 requests | 473 000 |
| `services` | Billing, catalog, quotas, key rotation, administration and merge, each by itself (see below) | see below | 1 390 000 |
| `device` | Application session, local account, OIDC manager, resource tokens and billing page, each by itself | see below | 720 000 |
| `liveness` | Does what was begun end, in the feed, on the devices, in the controller, in the erasure of accounts? | see below | 283 000 |
| `merge_removal` | Is a removal by the client kept? (It is not.) | as in `services` | |
| `client_base` | Is a base revision the one last projected? (It is not.) | 2 devices, 3 mutations of one record | |
| `session_signout` | Does a sign-out that is over leave no binding? (It may.) | 2 people, 2 calls, 1 sign-out | |
| `resource_signout` | Are the tokens kept those of the user signed in? (Not always.) | 2 people, 2 resources, 2 askers | |
| `switch_deletion` | Does an account that a switch cleared start from an empty checkpoint? (Not after the other one was deleted.) | `UndisturbedSpec`, 2 accounts, 1 page, 2 calls | |

`services`, by component: *billing* 2 customers of one environment and 2 webhook
contexts, 2 callers, 1 change, 2 dates (`EventsReflected`, `SnapshotsAdvance`);
*catalog* 2 editors, 4 proposals, 2 revisions (`CatalogHistory`); *quota* 2 items, 2
requests, 2 months, one editor (`LimitKept`); *keys* 1 user, 2 records, 2 writers, 2
scripts, batches of 1, 3 master keys (`StoredOpens`); *login* 1 browser, 2 attempts, 2
callbacks, time to 3 (`AttemptUsedOnce`); *tabs* 2 tabs, 4 tokens
(`RefreshTokenUsedOnce`, `SignedOutStaysOut`); *merge* all triples over 2 properties, 2
values, 4 orders (`BothSidesSurvive`, `ConflictOrderIgnoresArrival`).

`device`: *session* 2 people, 2 calls, 3 sign-outs (`LateOpensDropped`); *local* 2
accounts, 1 edit, 1 page, 4 calls and crashes (`ErasedStaysEmpty`); *oidc* 3 calls, 2
managers (`NotRevived`); *tokens* 2 users, 2 resources, 2 askers
(`TokensFitTheirResource`); *billing* 2 accounts, 4 account changes
(`AccountsStayApart`, `BusyHasWork`).

`liveness`: *feed* 3 mutations of 2 accounts, pages of 1 (`CheckpointCoversReplica`,
`NoPrematureEnd`); *client* 2 devices with one edit each of one record, pages and batches
of 1 (replacing edits are in the run `client`); *controller* in full (`ScheduledIsPending`); *accounts* 1
identity, 2 accounts, 2 billing environments, 1 request, 1 cron run. `WorkSettles` is
the liveness of all four.

Why these bounds. A lost race needs two workers and a mutation in between; a third
mutation of the record lets a race be lost twice, which exhausts the two attempts.
Mutations with the same identity meet because any worker may receive any composed
mutation again. Two devices and three mutations allow an edit that replaces an
entry in flight while the other device writes. Two accounts are an incarnation and
its replacement, or the account left and the one entered. Two synchronizations of
a customer overlap with two callers, and a webhook overlaps with a device's own;
one change suffices for a snapshot that has it and one that has not, and two dates
make the provider's clock equal or later. Two claims meet at a limit of one, which
the catalogs lower to zero or raise to one; two months let a claim cross their
border. Three master keys allow a second rotation after a completed one. Two
callbacks of one attempt, two tabs, two calls and two askers are what an overlap
takes; three OIDC calls let a sign-out wait for a refresh while a sign-in runs.
Named bounds (`MaxChanges`, `MaxClock`, `MaxRevision`, `MaxMonth`, `MaxVersion`,
`EndOfTime`, `MaxTokens`, `MaxGeneration`, `MaxTurns`, `MaxManagers`,
`MaxSwitches`) stand in the guards of the actions that count; in `services` the
second editor rests while quotas are checked, and once the month has changed the
first rests too, entitlements stay and no plan is granted for the first time
(`OneEditor`). No state constraint is used. `CHECK_DEADLOCK FALSE` stands where a
bound or the end of all work lets the system stop. Symmetry is used only in runs
without temporal properties other than `[][...]_vars` formulas and refinement of
safety, and only for sets whose members no definition names; components exchange
their sets together, to keep the group small.

### Fairness

- `SyncServer`: `WF` of the steps of a request (the runtime runs what it has
  accepted) and `SF` of uploading each mutation until it is acknowledged (the outbox
  keeps it so long, and runs are started again by timers, connectivity and resume
  signals, although workers may be busy in between). The property assumes that requests
  are lost finitely often (`Lost`): a crash that leaves the state an answer would leave,
  because the answer tells the device nothing new, is not counted.
- `SyncFeed`: `WF` of pulling.
- `SyncClient`: `WF` of the steps of a device's runs, starting them included, and
  of the server serving what it was sent. `WorkSettles` assumes that runs stop
  failing eventually; that runs are started again after a failure is what
  `SyncController` is checked for.
- `SyncController`: `WF` of the timer (a timer that is set fires, and whoever
  schedules again does not postpone it for ever) and of a run ending (requests
  have a deadline). Nothing is assumed of the user.
- `AccountLifecycle`: `WF` of cron runs and of their steps, and of time passing.
  Nothing is assumed of requests.

`WorkSettles` assumes `<>[][~Fails]_vars`: from some moment on nothing fails. It
then asks for `[]<>Settled`, again and again, not once. A step is a pair of states, and
some failures change nothing that the normal course would not: a run that is stopped after
its empty last page, a failure that nobody retries. `Fails` therefore names the steps
that fail and are no step of the normal course. The assumptions
are met by behaviours with work in them: TLC refutes, for each component, that the
assumption implies that nothing is composed, scheduled or deleted.

### Findings

1. `merge_removal`: `defaultThreeWayMerge` loops over the client's keys only, so a
   property the client removed, and nobody else touched, comes back from the
   server's payload. `protocol/semantics.md` line 30 says that what only the client
   changed replaces the ancestor value.
2. `client_base`: an edit that replaces a waiting outbox entry keeps that entry's
   base revision although a pull has applied a newer revision in the meantime.
   `protocol/semantics.md` line 25 says that `baseRevision` is the revision last
   projected. The trace: a device edits and pushes, the server stores the edit and the
   answer is lost, the device pulls its own version while the edit still waits in its
   outbox, and edits the record again: the replacing edit carries the older base. A value that the second edit sets back to
   that of the old base counts as unchanged in the merge.
3. `session_signout`: `_open` notes the generation (`account_session.dart` line 110)
   after its caller has awaited the identity's token. The trace: a call awaits the
   token, a sign-out counts its generation and empties the store, the identity still
   answers (its own sign-out waits for the exchange), the call notes the new
   generation, opens a session and stores it. The test "late renewal cannot restore a
   signed-out account" signs out during `openAccountSession` only.
4. `resource_signout`: `AppBaseOidcGrant.signOut` clears its tokens and then awaits
   `forgetUser`, which awaits the exchange in progress; `_serializedRefresh` stores
   that exchange's token afterwards (`oidc_session.dart` line 240). The user who signs
   in next is given it. A grant that ends with an exchange (`invalid_grant`,
   `oidc_manager.dart` line 90) leaves the tokens in place likewise; the proof of
   `TokensAreTheUsers` needs that neither happens. `oidc_manager.dart` line 99 says that a completed refresh must
   never resurrect a session after explicit logout.
5. `switch_deletion`: `saveAccount` tells a switch by the active row alone
   (`drift_persistence.dart` lines 54-57) and keeps the checkpoint of an account that is
   entered when nothing is active (line 94). The trace: account A synchronizes, signing in
   to B clears the projection of A and leaves the checkpoint in its row, the server
   refuses B as deleted and the engine erases it, active row and all, and signing in to A
   again is no switch. The next pull does not start from an empty checkpoint, as
   `docs/flutter-integration.md` line 24 says it does, and what A had is not shown again.
   The run excludes every other cause: a process that ends between the two transactions
   of `saveAccount` (line 87) leaves the old account active, with its checkpoint, over a
   cleared projection; so does a switch while a run of the old account is pulling, and an
   erasure that stops half-way.

What remains true of these five is proved, as a weaker statement (`BasesWereShown`) or
under the hypothesis that the trace violates (`OnlyRemovalsComeBack`,
`SignOutEmptiesTheStore`, `TokensAreTheUsers`, `SwitchesKeepPages`; section 4).

Other behaviour that the models show and no document contradicts: a pulled page
overwrites the projection of a record that has a pending edit, until the push and
the second pull restore it; a request served after its device gave up may
overwrite a later edit of the same record in the arrival order, which is why
`LastEditKept` says that the last edit reaches the server and not that it wins.
A quota claim uses the limit of the catalog it read, so that `LimitKept` speaks of
the highest limit that was ever offered, not of the present one. Two
synchronizations of a customer that keep superseding each other may never commit;
the event stays unmarked and is delivered again. The logout of `clearAccount` may
come between an identification and the store's page, also when the identification is that
of the next account, which is why `AccountsStayApart` allows the anonymous identity
there. A sign-out or deletion that fails has given up the synchronization that was
scheduled. A synchronization
that is asked for during the last pull of a run is answered by that run, and an edit
made then waits for the next signal. Once the erasure of a deleted account has
failed, `_deletionStarted` keeps later runs from trying it again until the next
sign-in or start.
Where the provider gives no refresh tokens (`RefreshGrants = FALSE`), the manager answers
an exchange for any resource with the token it has (`oidc_manager.dart` lines 71-79), and
`_serializedRefresh` files it under the resource that asked (`oidc_session.dart` line
240), although line 118 promises an audience-restricted token of its own to each resource:
`TokensFitTheirResource` fails then, within five steps, and is checked and proved for
providers that do give them. The default scopes ask for `offline_access`.

## 4. Proofs

Every invariant, action property and refinement that a passing run checks is stated by a
theorem; only liveness is left to TLC. Eight modules hold theorems; `tlapm` proves all their obligations, for every value of
the constants: any number of workers, devices, readers, accounts, records, mutations,
payload properties, tabs, callbacks, keys, customers and calls, any page and batch
size, any limits. The named bounds of the models (`MaxClock`, `MaxVersion`, ...) are
arbitrary numbers here.

| Module | Theorem | States |
|---|---|---|
| `SyncMerge_proof` | `NoSideIsLost`, `ArrivalDoesNotMatter` | `BothSidesSurvive`, `ConflictOrderIgnoresArrival` |
| | `OnlyRemovalsComeBack` | `ClientOnlyChangesReplace` where the client removed nothing |
| `SyncLog_proof` | `LogIsAppendOnly` | the abstract log only grows, and is well typed |
| `SyncServer_proof` | `Invariance`, `TypeCorrect`, `ExactlyOnceHolds`, `NoLostUpdate`, `AnswersHold` | all invariants of the push server |
| | `Refinement` | `Spec => LogSpec` |
| `SyncFeed_proof` | `FeedTypeCorrect`, `CheckpointIsExact`, `PullEndsAtTheEnd` | `TypeOK`, `CheckpointCoversReplica`, `NoPrematureEnd` |
| | `NothingScheduledIsForgotten` | `ScheduledIsPending` of the sync controller |
| | `LivenessIsTyped` | `LivenessTypeOK` |
| `SyncClient_proof` | `ClientTypeCorrect`, `NoEditIsLost`, `MetadataIsExact`, `DevicesConverge` | `TypeOK`, `LastEditKept`, `AppliedAtCheckpoint`, `SynchronizedShowsServer` |
| | `ClientRefinement` | `Spec => LogSpec` |
| | `BasesWereShown` | a base is the revision last projected when nothing waits, and never a newer one |
| `AccountLifecycle_proof` | `Invariance`, `TypeCorrect`, `Fence`, `NoCustomerForgotten`, `AccountsKeptApart`, `Finality` | all invariants of the account lifecycle, `DeletionIsFinal` |
| | `RegistryIsImplemented` | `ImplementsRegistry` |
| `Services_proof` | `MarkedEventsAreReflected`, `StoredStateAdvances`, `CatalogsContinue`, `QuotasHold` | `EventsReflected`, `SnapshotsAdvance`, `CatalogHistory`, `LimitKept` |
| | `NoTokenIsReplayed`, `SignOutIsFinal`, `NoCallbackIsReplayed`, `NothingIsLostInRotation` | `RefreshTokenUsedOnce`, `SignedOutStaysOut`, `AttemptUsedOnce`, `StoredOpens` |
| | `ServicesAreTyped` | `ServicesTypeOK` |
| `Device_proof` | `OvertakenOpensAreDropped`, `SessionIsNotRevived`, `RefreshedTokensFit`, `ErasureIsFinal`, `BillingAccountsStayApart`, `PageIsBusyWithWork` | `LateOpensDropped`, `NotRevived`, `TokensFitTheirResource` (given `RefreshGrants`), `ErasedStaysEmpty`, `AccountsStayApart`, `BusyHasWork` |
| | `DeviceIsTyped` | `DeviceTypeOK` |
| | `SignOutEmptiesTheStore`, `TokensAreTheUsers`, `SwitchesKeepPages` | `SignedOutKeepsNoBinding`, `TokensOfTheUser`, `SwitchesStartEmpty`, each under its hypothesis |

The arguments, and what each inductive invariant adds to the property:

- *Merge.* `MergeInv` says that the result is the merge of the three objects. Two
  ordered payloads have a first position where they differ (`FirstDifferenceDecides`,
  by the least number of the positions that differ); the greater one there outranks
  the other and is not outranked (`GreaterOutranks`), so both arrivals choose it.
- *Log.* `LogOK`: types, and a draft's base is a version of the log. The lemmas on
  pages (`PageCovers`, `PageAdvances`, `AppendBehind`) are here too, for any log: a page
  is the first rows of the account behind the cursor, its cursor is the last of them,
  and what is appended later lies behind every cursor given out.
- *Push server.* `IInv` adds `RequestOK` (a request in progress has a non-empty batch of
  composed mutations, is at one of them until it is done, and then has every answer)
  and `DraftOK`, since `AppendVersion` builds a version and an answer out of the
  request's locals. The history invariants are inductive because the guard of the
  INSERT is evaluated against the log it extends; the log only grows, so that what was
  true of a prefix (`IsLastBefore` below a position) stays true. A request merges with
  the version it read (`StoredAsResolved`) and stores the result statements later, when
  that version is still the current one; a position has one predecessor in its record
  (`OnePredecessor`), so that the version merged with is the one that precedes in the log,
  which is `MergedOntoPredecessor`. In the refinement, the
  statement that stores a row maps to `LogAccept`, the answer to `LogAcknowledge`,
  everything else to a stutter.
- *Feed.* `FeedInv` adds `CursorInLog`: no cursor is beyond the log. Without it a
  version stored later could be taken for one already seen.
- *Devices.* `ClientInv` has four parts. `ServerOK`: a version is of the account and
  record of its mutation, and a base is a version of its record. Per device and record
  (`RecordIn`): what waits and the last edit are this device's and this record's, the
  metadata is that of the checkpoint, the last edit waits or is stored, and the product
  shows what was last applied *or else* an edit that no version up to the checkpoint
  comes from (`ShownIn`) - so that an exhausted feed leaves no room for the second. Per
  run (`RunIn`): a page in hand still covers what the log has between the checkpoint and
  its cursor, however much was appended since. In the refinement an edit maps to
  `LogCompose`, `Accept` to `LogAccept`, an answer to `LogAcknowledge`. With `Refinement` of the push
  server this makes `LogSpec` the interface on which both sides are proved to meet.
- *Accounts.* `ProcessesOK` (what a process relies on in its phase: a session about to
  be saved is for its device's identity and for the pinned account; what is about to be
  forgotten has been erased), `Ownership` (an account's subject is its registrant from
  registration until deletion, and no two accounts have the same subject),
  `SessionsHeld` and `NothingLeft` (a deleted account has no billing rows, which the
  condition of `Complete` establishes and the triggers preserve).
- *Registry.* Each action maps to the registry step named in section 2 or to a stutter. The
  guards of the registry follow from `IInv`, but for two facts that `WorkInv` adds: a
  cleanup past `begin` is of an account that is deleting or deleted, and what the provider
  has erased belongs to such an account, so that no customer of an active one is erased.
- *Billing.* `CallerOK` (an answer of the provider includes the event its request works
  on, and the account was known before), `NewestLast` (while nobody has begun a later
  synchronization, nothing newer is stored) and `ProgressOK` (the customers dealt with
  are reflected). The generation is what makes `NewestLast` inductive; dates are not.
- *Catalog and quotas.* A replacement under way was validated against the catalog of its
  revision and continues it unless there is a newer revision (`EditorOK`); every limit in
  the catalog and in a request's hands is at most the highest ever offered (`Bounded`,
  `RequestOK`), and usage is finite, so that an insertion adds at most one to the count.
- *Tabs.* A token that is still to be sent is in one place only, the storage or one tab
  (`UnsentOnce`), a new login likewise (`NewLoginOnce`), and a tab renews under the lock.
- *Callbacks.* The row of an attempt is gone once a callback may exchange its code, and
  one callback at a time may (`ExchangeAlone`).
- *Keys.* The version being rotated away is older than any a worker seals with or may
  start with (`OldIsBehind`); from the count of its envelopes until its keys go nobody
  can make new ones (`RetiresUnused`); the key in a worker's hand is the table's
  (`HandOK`). The first is where the order of `docs/key-rotation.md` is needed: a writer of the
  previous version could seal after the count, and `Paused` excludes it as the procedure does.
- *Device.* A session whose opening a sign-out overtook is of an older generation
  (`OpeningOK`); the manager in use knows its exchange, abandoned ones cannot save, and a
  sign-out waits for the exchange that could (`TaskOK`); the call at the head of the
  queue, and no other, takes part in an exchange (`ExchangeOK`); a task empties an
  account's rows after it has fenced it (`LocalTaskOK`); queued work of the present is for
  the account in use (`WorkOK`).
- *Controller.* `ScheduledIsPending` is inductive with the types and with the fact that a
  disposed controller has nothing scheduled (`ControllerInv`).
- *Types.* Most type invariants are conjuncts of the invariants above. Those of the quotas
  need that an entitlement names a plan of its catalog (`NamedPlans`), those of the local
  accounts that a task past the switch holds a checkpoint (`TaskTyped`), those of the
  billing page what it shows and the identity of the SDK (`ShownTyped`). The runs that
  put components side by side are covered by the theorems of the components: a behaviour
  of such a run is one of each component, or stutters there. Devices and accounts occur
  in `MCLiveness` under other constants, and the theorems are used for those.
- *What remains of the findings.* A base is never newer than the revision applied because
  that revision only grows (`AppliedGrows`) while an entry waits. After a sign-out began,
  whatever is being opened is of an older generation, *given* that no call still awaits
  the identity's token (`NoTokenAwaited`), and is dropped; a binding that is left is about
  to be cleared. An exchange is for the user who is there, *given* that no sign-out begins
  during it and that it does not end with the grant withdrawn (`GrantEndsAlone`). For
  switches, `SwitchInv` says that checkpoints belong to the account in use and to those
  that were cleared, that a task between two transactions holds the checkpoint of the
  account in use or none (`TaskSwitches`), and that otherwise the pages are there; the
  hypotheses are `Undisturbed` and that no account in use is erased while another one is
  away (`LeavesNoneAway`), which is the trace of finding 5.

Assumptions: those the modules declare by name, which TLC evaluates in the runs. Most
say that a bound is a number, that a null is not a value it stands for (`NoneAssumption`,
`DraftAssumption` and their like), or that a table of the environment has the shape it is
used with (`OwnerAssumption`, `DeviceAssumption`, `LegacyAssumption`, `OrdersAssumption`:
an order is an array). `CatalogAssumption` and `QuotaAssumption` say that catalogs are
records with finitely many plans and that a host's own catalog has numbers for limits,
which its type has. `LocalAssumption` and `ModelAssumption` are of the first kind.

Five theorems have a hypothesis of their own. `OnlyRemovalsComeBack`,
`SignOutEmptiesTheStore`, `TokensAreTheUsers` and `SwitchesKeepPages` are what remains of
properties that the code does not have in general (section 3, findings), and
`RefreshedTokensFit` is for providers that give refresh tokens (the end of section 3). TLC
finds the conclusions violated without the hypotheses.

Only model-checked: liveness (`EveryMutationAcknowledged`, `WorkSettles`), which is out of
the prover's reach, as is `ENABLED`. No module declares a recursive operator. The
library's induction theorems take an operator and cannot be used; where a proof needs
induction (the least position, the greatest limit) it takes a minimal counterexample
from the well-foundedness of the natural numbers instead.

## 5. Plan

1. `SyncServer` under a clock of attempts per mutation: which mutations a 409 refuses.
2. Devices and the account lifecycle in one model, where a run meets a deletion at any of
   its steps; today `LocalAccount` has the refusal (`RunRefused`) and `AccountLifecycle`
   the fence.
3. Seeding, with the outbox it fills before the first pull.

Not modelled, and why: seeding of local records into an account's outbox (a
migration of products that had no account); the compatibility repository
`d1_account_deletion.ts`; the expiry of account sessions and identity tokens, which
is the nondeterministic `EndSession` on the server and `RunRefused` or `Invalidated` on
the device; the installation id and the secure store, which are reads and writes of
the platform's storage; `usecases/admin_payments.ts`, `revenuecat_admin.ts` and the
administration's queries, which change nothing or pass a call on; markup and
contracts of the administration, transport encoding, templates, scripts and
examples, which have no protocol. The library below the OIDC manager and the
payment SDK are external and modelled from how the code uses them. Delays (backoff,
jitter, `Retry-After`) are left out. Request validation (sizes, formats,
`UNKNOWN_COLLECTION`) is assumed to have passed: a refused request changes nothing
on either side.
