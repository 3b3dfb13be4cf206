# TLA+ models of the Infinity Financial API

The repository is a NestJS back end: HTTP handlers over PostgreSQL (Prisma), domain
events turned into Bull jobs in Redis, two Socket.IO gateways, and an object storage
behind two adapters. Its handlers are `async` functions that send one statement after
another, mostly outside transactions, so any other request can run between two
statements of one. These models cut handlers where the code does, let requests
interleave, and ask what of the intended behaviour is left. Everything below refers to
`src/` of the repository root.

## 1. Inventory

| component | state it keeps | operations | hard behaviour | what makes it correct |
|---|---|---|---|---|
| **Sessions** (`features/auth`: `auth.service`, `auth-refresh`, strategies) | `refresh_tokens` (token unique, revoked, device, expiry); tokens clients hold; announced devices | sign-in with new-device detection, refresh with rotation and reuse detection, logout, revocation by a user deletion | 2 to 6 statements per request, none in a transaction; JWTs without an id, signed at one-second resolution; crashes between statements | a rotated session's predecessor is revoked; a token reaches the device of its row; no silent device; revoked stays revoked; deletion ends access |
| **UserTokens** (`forgot-password`, `auth-first-access`, `auth-verify-code`, `auth-change-password`, `user-resend-first-access-link`) | `user_tokens`, `users.password` | issue / verify / redeem reset codes and first-access links, temporary passwords, change of password | token checked in one statement and spent in a later one; deleteMany and create interleave; expiry | only a mailed token of the right flow changes a password, and ends spent; no temporary password is set silently; deletion freezes the account |
| **Accounts** (`user-create`, `admin-users-create`, `user-update`, `user-delete`) | `users`: e-mail (unique), tenant, `deletedAt` | create, update, soft delete, release of a deleted user's address as an alias | look-up, release and insert are three statements; writes are by id, whatever happened since the read | distinct addresses of active accounts; aliases only on deleted rows; a MASTER stays in its tenant; nobody deletes the last account but by a race |
| **EventPipeline** (`core/events`, `core/queue`, `core/integrations/email`) | listeners in flight, Bull jobs | dispatch, add e-mail job, add log job, process, retry, stall recovery | lost answers, crashes between effect and acknowledgement, retry limits | nothing unsent is taken for sent, bounded duplicates, mail queued before its log row, every job settles |
| **Billing** (`features/admin/plans`, `subscriptions`, `invoices`; the seed's plan and subscription) | `plans` (name unique), `subscriptions` (tenant unique), `invoices` | create, update, deactivate a plan; assign, change, cancel a subscription; mark an invoice; seed | looked up in one statement and written in a later one; `paidAt` is read, then written back; the seed upserts beside all of it | one subscription a tenant, one plan a name; a status agrees with its dates; a payment date is not lost; a trial is given once |
| **Access guards** (`features/auth/guards`, `jwt.strategy`, `app.module`) | none of their own: they read `users`, `role_profiles`, `subscriptions` | authenticate, check permissions, check the subscription, check the super administrator | two look-ups with waits in between, and the handler after that; a clock that is read later than the row it is compared with | whoever is served, or refused, had cause at some moment of its checks; a deleted user is shut out |
| **Notifications gateway** (`core/websocket`, `io.guard`) | map from user to sockets, the rooms | connect, register, join and leave, disconnect, send | a token check that answers after the socket closed; a registry beside the server's rooms | a notification reaches the user's open sockets, all and only |
| **Scan gateway and store** | scan sessions in memory, `socketMeta`, rooms | create, connect, join, code, submit, expire, sweep | the mobile is faster than the desktop; expiry and sweep between the steps of a join | no code is lost to a joined desktop; only the session's mobile and its owner's desktops listen |
| **ProfileImages** (`user-upload`, both storage adapters) | objects in the bucket, `profileImageUrl` | upload: delete the old, put the new, store the URL | three effects on two systems; an adapter's error may hide that the storage obeyed; one key for all uploads of an extension | the URL leads to an image, and no replaced image is left behind |
| **RoleProfiles** (`features/role-profile`) | `role_profiles` | create, update, list | the update runs beside the guards that read the permissions | as for the guards |
| Notifications, logs, lists, `auth-me` | rows read or flagged one statement at a time | read, mark as read | none across statements | pagination and filters; out of scope |

Interactions. *Accounts* deletion revokes *Sessions* and spends *UserTokens* in its one
transaction: each of those modules contains that half of the transaction (`DeleteUser`).
*Accounts* creation continues in *UserTokens* (`CreateUser` on). *Sessions* and
*UserTokens* end their handlers by dispatching an event, synchronously, to the
*EventPipeline*; nothing comes back from it. An update of a user changes the claims of
later session tokens (`ChangeProfile`), and its optional password is written by id
exactly as `ChangePassword`/`StorePassword` of *UserTokens* do. The *guards* stand in
front of every handler that is not public and read what *Accounts*, *RoleProfiles* and
*Billing* write: `Access` lets contracts move as `SubscriptionLedger` says, and
`Billing` implements `SubscriptionLedger` statement by statement, so that the two meet
in one abstract specification. The two *gateways* share the socket server, the token
check and the process, whose restart empties the maps of both; `Gateways` composes them.

## 2. Modules

| module | role |
|---|---|
| `Sessions` | request-level model of sessions |
| `SessionLineage` | what sessions promise: opened once, succeeded only when dead, never alive again |
| `UserTokens` | request-level model of tokens and passwords |
| `Accounts` | request-level model of the rows of `users` |
| `AccountDirectory` | what the users feature promises: a directory of distinct addresses |
| `EventPipeline` | from event to e-mail and log row |
| `Deliveries` | what the pipeline promises: an effect at least once when its job is done, a bounded number of times, none after it settled |
| `Billing` | request-level model of plans, subscriptions and invoices |
| `SubscriptionLedger` | what billing promises, and the guards rely on: one contract a tenant, its trial fixed when it is opened |
| `Access` | the guards of a request, beside the requests that change what they read |
| `SocketServer` | sockets, handshakes, rooms and token checks: what the gateways share |
| `NotificationsGateway`, `ScanGateway` | the two gateways, each over `SocketServer` |
| `Gateways` | their composition in one process, with restarts |
| `Presence` | what the notifications gateway promises: a socket listens for one user, enters once and never comes back |
| `ProfileImages` | uploads over a storage and a database |
| `Sessions_proofs`, `UserTokens_proofs`, `Accounts_proofs`, `EventPipeline_proofs`, `Billing_proofs`, `Access_proofs`, `Gateways_proofs`, `ProfileImages_proofs` | theorems about the module of that name |
| `MC...` | instances for TLC: symmetry sets, function-valued constants |

### How a model corresponds to the code

*One request is one element of `Procs`.* `pc[p]` is the `await` it stands at and `req[p]`
holds its local variables; `Goto(p, from, to, r)` is the step between two awaits. A step
contains the statement that was sent and the code up to the next statement. A Prisma
`$transaction` is one step. `Promise.all` is a set of statements that run in any order
(`CheckDevice`). Handlers that fail validation before their first statement, or whose
failure has no effect, do not appear. Early returns are the `Reject`/`End` branches.
Variables marked HISTORY in a module guard nothing: they remember what a property asks.

*Sessions.* `rows` is `refresh_tokens`, a partial function of the token because the
column is unique: `Store` fails on a conflict, as the insertion does. A token is the
triple (user, claims, iat): that is all the JWT is a function of, there being no `jti`.
`parent` is no column; it records which consumed token the row replaced. `held` is what
clients have received. `Fault` stops a request anywhere, for a crash or a database
error.

*UserTokens.* Random strings (token, code, temporary password) are the number of the
request that drew them. The code is in the same e-mail as the token, so it adds no
state; `codeVerified` does. `mailed` holds the requests whose event was dispatched: only
those tokens can be presented. `request` and `resend` have the same statements in the
same order and are one action sequence; `create` enters it after its deleteMany or
before, as the two creation services do. A tick is five minutes.

*Accounts.* An address is an element of `Emails` or an alias `[of, id]`; that an alias
is never a valid address for `IsEmail` is why the two sets are disjoint. Bodies may
hold the address the user already has (no look-up then, but it is written all the same,
`UpdateUser`). A unique-column failure is `WriteEmail` not being enabled: the request
then ends by `Fail`, which may also happen anywhere. The actor of a deletion is a user
who was active when the guards let the request in.

*EventPipeline.* The listener of an event is a small program: queue the e-mail, await,
queue the log entry, await. Redis, Bull and the provider are external and modelled from
the options the code passes: attempts, backoff, one worker per queue, stalled jobs run
again once. `Send` distinguishes the answer from the effect, for a call that failed may
have been done. Bull keeps the last settled jobs; the model keeps them all.

*Billing.* `plans` and `subs` are partial functions on ids; the unique columns (plan
name, subscription's tenant) are guards of the writing steps, so that a request which
looked, waited and was overtaken fails at its write. Nothing removes a plan, a
subscription or a tenant: the look-ups that ask only whether a given one exists are not
steps. A request holds what it computed from the row it read: the end of the trial
(`CheckSubscription`), the payment date (`ReadInvoice`). Of `canceledAt` and `paidAt`
only whether there is a date is kept. `SeedPlan` and `SeedSub` are the two upserts.
`ContractsOf(subs)` forgets ids and plans: it is the refinement mapping to the ledger.

*Access.* `Authenticate` is the strategy's look-up with `PermissionsGuard`, which goes
by the profile that look-up brought; `ReadSubscription` and `Decide` are
`SubscriptionGuard` before and after its await, the second by the clock of that moment,
with `SuperAdminGuard` behind it on the admin routes. Handlers take one step each, for
their own statements are cut up in `Accounts` and `Billing`; contracts step as
`SubscriptionLedger`. `seen` collects, at every state while a request is being checked,
which of the facts the guards ask for were true.

*Gateways.* A socket's `link` is new, open or closed, and an id is used once.
`handleConnection` is cut at `await checkToken`; the answer (`CheckPasses`,
`CheckFails`) may come after the socket was closed, and then still registers it, which
is what `raced` remembers. `userSockets` is the map itself, with its missing and
deleted entries. `handleJoin` is cut at `await client.join`: what follows (`Replay`) works
on the session object it found, which the sweep may have dropped from the map
meanwhile; so `sessions` are the objects and `stored` the ids the map holds. Sending to
a user changes no state: `Reached` computes whom it reaches.

*ProfileImages.* The key of an object is the user and the extension. `publicUrl` is the
form of the adapter's public URL, since the key of an old image is taken from the path
of its URL: under a bare host it is right, under a host with a path it names no image.
`UploadFails` distinguishes an adapter's answer from what the storage did.

## 3. Runs

The bounds are the smallest at which every action fires and each hazard can happen; the
interleavings that matter are those of two requests about the same row.

| run | bounds | what it shows |
|---|---|---|
| `Sessions_safety` | 1 user, 2 requests, 1 device and none, 3 ticks, 1 fault, row lifetime 1 | `TypeOK`; `RotationConsumes`; `DeliveredToItsDevice`; `DevicesAnnounced` |
| `Sessions_lifecycle` | 1 user, 2 requests, 2 claim values, 1 tick, 1 fault, fair | `LineageSpec` (refinement), `DeletionBarrier` (action), `DeletionSettles` (liveness) |
| `UserTokens_safety` | 2 users, 2 requests, 1 chosen password, 2 random values, 2 ticks, 1 fault, fair | `TypeOK`; `ChangesAreEarned`; `SpentIsFinal` and `DeletionFreezes` (actions); `TemporaryIsMailed` (liveness) |
| `Accounts_directory` | 3 ids, 2 of them first users, 3 addresses, 2 tenants, 2 requests | `TypeOK`; `AliasNamesDeleted`; `MasterStaysHome` and `NotLastAlone` (actions); `DirectorySpec` (refinement) |
| `EventPipeline_jobs` | 2 events (one logged), 2 and 1 attempts, 1 stall, 2 crashes, fair | `TypeOK`; `DuplicatesBounded`; `SettledRightly`; `QueuedInOrder`; `JobsSettle` (liveness) |
| `Billing_ledger` | 2 plan ids and names, 2 subscription ids, 1 tenant, 1 invoice, 2 requests, 2 ticks | `TypeOK`; `KeysUnique`; `StatusExplained`; `PaymentDateKept` (action); `LedgerSpec` (refinement) |
| `Access_guards` | a user of the tenant and a super administrator, 1 profile, 1 tenant, 2 requests, 2 ticks, fair | `TypeOK`; `ServedWithCause`; `RefusedWithCause`; `DeletionShutsOut` (liveness) |
| `Gateways_sockets` | 3 sockets, 2 users, 1 tenant, 1 team, 1 scan session, 1 code, 2 ticks, any number of restarts, fair | `TypeOK`; `ReachedExactly`; `LeftoversAreRaces`; `RoomsAreAuthorised`; `NoCodeLost`; `JoinedGetsCodes` (liveness) |
| `ProfileImages_uploads` | 2 users, 2 extensions, 3 requests, the three forms of public URL | `TypeOK`; `ImageResolves`; `NoLitter` |
| `Sessions_ended_for_good` | 1 user, 2 requests, no fault | VIOLATED: a refresh overtaken by a logout stores a live session |
| `UserTokens_one_time` | 1 user, 2 requests, 1 random value | VIOLATED: two completions that both read the token unused both change the password |
| `Gateways_registry` | as `Gateways_sockets` | VIOLATED: a socket closed while its token is checked is registered after its disconnection, and its user counts as connected for good |

A violated run states what a comment or document of the repository says, and the
counterexample is the interleaving that does not keep it (`findings` in `PROJECT.json`
quotes the line). Four more disagreements were met on the way and are stated here only:

* two refreshes that both read a token before either revokes it both succeed
  (`auth-refresh.service.ts`): the token is rotated twice, and `RotationConsumes` says
  what is left of rotation;
* a refresh in the second in which its token was signed produces the same JWT: it
  revokes the old row and then fails on the unique column, and the session is gone;
* a reset code is announced as valid for 15 minutes and expires after 5
  (`forgot-password.service.ts:56` and `:63`);
* an update that a deletion overtakes writes the plain address back on the deleted row,
  where the alias was (`user-update.service.ts:113`); the address is then taken until
  the next creation releases it again.

Why these bounds: one user is enough for sessions since no statement of theirs spans
two users; two requests exhibit every pairwise race, and a third request adds only
races of requests already seen in pairs, except over images, where a request that puts,
one that deletes and one that stores a URL meet in `ImageResolves`: there it is three.
Lifetimes of one tick let a row, a trial or a scan session expire between two
statements. Three ids in `Accounts` are two existing users and one to create, three
addresses one to take, one to leave, one to change to. Two subscription ids for one
tenant are what a unique column is about, two plan names one to keep and one to take.
Three sockets are two of one user, one of them closing, beside a mobile. Attempts are 2
and 1 instead of 3 and 5: a retry after a failure, a crash in a first and in a last
attempt, and a final failure all occur. What the proofs of section 4 cover does not
depend on any of these bounds. `SYMMETRY` is declared only in runs without liveness.
`CHECK_DEADLOCK FALSE` is set where the program may stop: ids, sockets or users are used
up (`UserTokens`, `Billing`, `Gateways`), all users are deleted (`Accounts`), every job
has settled (`EventPipeline`); an upload may always fail and the next one begin, so for
`ProfileImages` it is only a precaution.

Every passing property is paired in `PROJECT.json` with a mutation of a definition that
breaks it; the mutated definitions are marked `MUTANT` and stand just before the ones
they stand for.

### Fairness

`FairSpec` of `Sessions` and `UserTokens` is weak fairness of `Proceed(p)`, that of
`Access` of `Check(p) \/ Handle(p)`: the event loop runs the continuation of an await
that has resolved, and a statement is answered or fails (`Fault` is never required). The
arrival of requests, the clock, profile changes and faults are not fair. `FairSpec` of
`EventPipeline` is weak fairness of each job's `Work`: a Bull worker that is free and
sees a waiting job takes it, the call to the provider or the database returns, a backoff
ends. Listeners are not fair (Redis may never answer); crashes are bounded by
`MaxCrashes`, since a process that always dies settles nothing. Weak fairness suffices
because the worker of a queue leaves its job after finitely many steps, and the jobs are
finitely many and stop coming back. `FairSpec` of `Gateways` is weak fairness, for each
socket, of the answer of `checkToken` and of the continuation of an awaited join; that
clients connect, send or close, that sessions expire or that the process restarts is not
assumed.

## 4. Proofs

Eight modules hold proofs that `tlapm` checks to the last leaf. Each has one inductive
invariant, `Inv`, with what a request knows at each await (`LocalsOK`, `RequestOK`) as
its core, a lemma per action that preserves it, and the theorems as its consequences.
They hold for every value of the constants that the module's named assumptions admit:
sets of any size, `None` different from every value, bounds natural numbers.

`Sessions_proofs` (`NoneAssumption`, `BoundAssumption`):

* `TypeCorrect`: `TypeOK` is not inductive, since what is stored depends on what the
  request read before. `TypeInv` adds `LocalsOK`: which locals are known at each await
  (a token at "storing" is one of the request's user, the consumed token at "loading"
  is in the table).
* `RotationTheorem`, `DeliveryTheorem`: `RotationInv` adds that a request past
  "revoking" has its consumed token revoked, with its own user and device, and that one at
  "responding" has its row stored with its device. It is preserved because rows are
  never removed, never change device or parent and never become live again
  (`RowsPersist`), and `Store` never overwrites.
* `DevicesTheorem`: `DeviceInv` adds that a request which judged its device trusted saw a
  row of its user with that device, and the row is still there (`TrustOK`).
* `LineageTheorem`: refinement of `SessionLineage` under `live`, `dead`, `heir` (rows not
  revoked, revoked, pairs parent and child). `Store` maps to `Open` or `Succeed` (the
  parent is dead by `RotationInv`), every revocation to `End`, the rest to stuttering.
* `BarrierTheorem`: an action property. The steps that make an issuer read the user
  active, so a deleted one gets none.
* `RevocationBarrierTheorem`, `HeirsTheorem`: nobody begins to rotate a revoked session, and
  a rotation under way uses up its request when it stores. So the successors of a session
  and its rotators together are at most the requests that can be in flight.
* `SerialEndedForGood`: one request at a time, what a logout, a wipe or a deletion ended
  is not being rotated (`SerialInv`).

`UserTokens_proofs` (`ConstantAssumption`):

* `EarnedTheorem`: a request that is about to change a password holds a mailed token of
  its flow, verified if it is a reset token; the token may be gone by then only if it is
  unused, and the change spends it in one transaction. Needed for it: random values are
  drawn once (`DrawnOnce`), so that a token stored later is never one already mailed
  (`Ripens`, `Own`). Without that, a deleteMany between the look-up and the change could
  make room for a token of another flow under the same name.
* `SpentTheorem`, `FreezeTheorem`: action properties, from the same invariant: no
  statement deletes or renews a used row, and whoever becomes a writer of an account has
  read it active.
* `UseBarrierTheorem`, `UsesTheorem`, `SerialOneTime`: whoever presents a token found it
  unspent, and the presentation that spends it ends. So the changes a token made and its
  presenters together are at most the requests that can be in flight; with one it is
  one-time.
* `TemporaryTheorem`: a temporary password in force was mailed, is carried by a request
  that has still to mail it, or was cut short by a fault.

`Accounts_proofs` (`AccountsAssumption`: addresses and aliases are disjoint):

* `TypeCorrect`, `AliasTheorem`: `Inv` is the table in order (`UsersOK`: typed, unique
  addresses, aliases only on the deleted rows they name) and what each request knows at
  its await (`LocalsOK`): the holder to be released is deleted, a MASTER's target is in its
  tenant, a deletion holds a plain address. The last is why aliases never nest: the target
  was active when it was read, and active rows hold no alias. `LocalsKept` shows that no
  other request can falsify what one knows, because rows stay, stay in their tenant and
  stay deleted (`UsersPersist`); nothing a request knows needs its target to be still
  active, which is the very thing that may change.
* `MasterTheorem`: the four writing steps change one row each, the target or a deleted one.
* `LastTheorem`: an actor is a row other than its target, so that a deletion which leaves
  nobody active found the actor's row already deleted.
* `DirectoryTheorem`: refinement of `AccountDirectory` under the active rows' addresses and
  the set of deleted rows. `InsertUser` maps to `Register`, `UpdateUser` to `Move` or a
  stutter (equal address, or a row deleted meanwhile), `DeleteUser` to `Leave` or a stutter
  (deleted twice), `ReleaseEmail` to a stutter.
* `SerialAddresses`, `SerialLast`: a lone request finds its target, its actor and the table
  as it read them (`Alone`), so that deleted rows hold aliases and only they do, no address
  has ever to be released, and somebody is always left.

`EventPipeline_proofs` (`PipelineAssumption`):

* `TypeCorrect`, `DuplicatesTheorem`, `SettledTheorem`: `JobOK` counts every run of a job
  once, by a used attempt, by a stall, or by its status (`Uncounted`). Effects are at most
  runs, a job that is not failed has an attempt and a stall left, and that gives the
  bound attempts plus stalls.
* `OrderTheorem`: `QueuedOK` ties where a listener is to what it has queued, and says that
  a listener which was lost leaves at most the log entry missing.
* `DuplicatesExplainedTheorem`: a stall is counted only by a crash, so that effects are at
  most attempts plus crashes; it is the bound of `DuplicatesBounded` where no process dies.
* `WorkTheorem`: the measure `Left`, six steps for each attempt and stall a job has not
  used, falls with every step on the job, a failure or a crash included.
* `OutboxTheorem`: refinement of `Deliveries` under the jobs queued, their `effects`, and
  those done and dropped. A crash maps to one `Drop` of all the jobs whose stalls it used up.

`Billing_proofs` (`BillingAssumption`):

* `KeysTheorem`, `StatusTheorem`: `PlansOK` and `SubsOK` are the tables in order, `LocalsOK`
  what a request knows of them, and nothing removes a row (`RowsPersist`).
* `PaymentTheorem`: `Fresh` says that whoever read an invoice nobody wrote since has its
  payment date, so that what it writes back is no less.
* `LedgerTheorem`: refinement of `SubscriptionLedger` under `ContractsOf`: since tenants
  are unique in the table, a write to one row changes the contract of one tenant
  (`WriteContract`). `InsertSub` maps to `OpenContract`, `StoreChange` to `Activate`,
  `StoreCancel` to `CancelContract`, `SeedSub` to `SetUp`, the rest to stuttering.
* `SerialPayments`: one request at a time overtakes nobody, and a payment date stays.

`Access_proofs` (`AccessAssumption`):

* `ServedTheorem`, `RefusedTheorem`: `Current` says that a request being checked has seen
  what is true now; so a guard that reads sees its cause at that moment. The subscription
  guard decides later than it reads, and a contract may lapse only by the clock while it
  waits: `ReadInForce` says that a contract which the guard still lets pass was in force
  when it was read. A refusal has no such converse, and there `changed` remains.
* `AdmissionTheorem`: a deleted user stays deleted and enters no handler but by a request
  that passed the strategy before.
* `SerialServedNow`: one request at a time, who is served is active, permitted and in a
  contract not canceled all the while; the seed and the clock, which still run beside it,
  change none of that. (A trial may end while its user is served.)

`Gateways_proofs` (`SocketAssumption`, `ScanAssumption`): `Inv` is one part for the server,
one for each gateway. `NoticeQuiet` and `ScanQuiet` say what a step of the server must
leave alone for a gateway not to notice it (`ServerStep`, `PlacesKept`, the rooms of its
kind), so that each action is examined once.

* `ReachedTheorem`: the rooms of users and the registry are tied to the open sockets of
  known users one by one; a socket is in neither as long as nobody has spoken for it
  (`Fresh`), which is why an answer that comes late cannot put it in twice.
* `LeftoversTheorem`: a place in a map belongs to a socket that is open or has `raced`.
* `RoomsTheorem`: what the scan gateway knows of a socket is what its handshake holds
  (`MetaOK`), and sessions keep their owner.
* `CodesTheorem`: `NoCodeLost` is inductive once the members of a room are known to be open
  and to have spoken: codes grow only by what the whole room is sent, and a member that
  came later waits in `joining`.
* `ConnectedTheorem`: the registry names the user of each socket it holds (`Owned`), so that
  a user who looks connected has an open socket as long as no socket has `raced`: the race
  that run `Gateways_registry` exhibits is the only one.
* `JoinBarrierTheorem`, `CodesKeptTheorem`: a code that a waiting join is due stays due until
  it is sent or the socket closes, because the join works on the session object, which
  expiry and sweep leave as it is; `Joiners` says that who waits is open and has spoken.
* `AudienceTheorem`: refinement of `Presence` under whom `Reached` names for each user and
  the closed sockets. `Enter` is the registration of an open socket, `Leave` a disconnection
  or, for all sockets at once, a restart; every step of the scan gateway stutters.

`ProfileImages_proofs` (`ImagesAssumption`):

* `ResolvesTheorem`: a URL leads to an image or the request that deleted it is under way
  (`Resolves`). To keep that when a URL is stored, an uploaded image is there, or whoever
  deleted it has still to put it again under the same key (`Uploaded`), which holds
  because the requests of a user upload one extension or the user is marked (`SameExt`);
  the repair of a marked user needs that a request which met no other was alone (`Alone`).
* `LitterTheorem`: the URL a request has read is still the user's or its own image's
  (`OldKnown`), so that past its deletion the user has images of the new extension only
  (`Swept`).

### Theorems under a hypothesis

`HeirsTheorem` and `UsesTheorem` assume `IsFiniteSet(Procs)`: they count requests. The
theorems named `Serial...` assume `OneAtATime` (`\A p, q \in Procs : p = q`) or, where a
bound is counted, `\E p : Procs = {p}`: a server that answers a request before it takes the
next. Both are hypotheses of those theorems and of no other, and instances with one
request satisfy them. Nothing in the code serialises requests, so they do not describe
the deployed system; they say where its races come from. What the violated runs and the
weakened invariants show to be lost (`EndedForGood`, `OneTime`, a payment date, the last
account, the entitlement of whoever is being served) is lost to an overlap of two requests
alone, and not to the clock, to a fault or to the order of whole requests.

### Liveness

Liveness under fairness (`DeletionSettles`, `TemporaryIsMailed`, `JobsSettle`,
`DeletionShutsOut`, `JoinedGetsCodes`) is only model-checked: it needs ENABLED, which is out
of the proof system's reach. The half of each that is safety is proved for all constants,
so that what stays with TLC is that a fair step is enabled:

| liveness property | what bounds the wait | what nothing takes back |
|---|---|---|
| `DeletionSettles` | `RequestsEndTheorem` of `Sessions_proofs` | `BarrierTheorem` |
| `TemporaryIsMailed` | `RequestsEndTheorem` of `UserTokens_proofs` | `TemporaryTheorem` |
| `JobsSettle` | `WorkTheorem` | `WorkTheorem` (settled is final) |
| `DeletionShutsOut` | `RequestsEndTheorem` of `Access_proofs` | `AdmissionTheorem` |
| `JoinedGetsCodes` | one awaited continuation (`Replay`) | `JoinBarrierTheorem`, `CodesKeptTheorem` |

The measures are functions of where a request or a job is (`Left`); each of its own steps
lowers it, whatever the others do in between.

Every invariant, action property and refinement that a passing run checks is also proved.
`OutboxTheorem` and `AudienceTheorem` are refinements that no run checks: their mappings are
defined beside their proofs.

## 5. Not modelled

* The generated Prisma client (`core/database/generated`) is about two thirds of the lines
  under `src/src`: types and delegates without behaviour of this system. A model of it
  would be one of Prisma; it is why the models, which cover the handlers that change
  state, cover a small share of all lines.
* Read-only lists and look-ups (`user-list`, `user-find`, logs, `findAll` of the admin
  services), `auth-me`, and the notifications a user lists and marks as read: one
  statement each, with no interleaving to check.
* `StorageController`, whose callers name the keys themselves; what it does to an image
  of a user is an upload or a deletion by somebody else, about which `user-upload` says
  nothing.
* The names of role profiles: looked up before they are inserted, with no unique column
  and no look-up in the update.
* The period of a subscription (`setMonth`), prices, limits, features; the wording,
  templates, hashing, cookies, HTTP status codes and validation of bodies; team, tenant
  and broadcast notifications, which are emitted to a room and change nothing.
* Access tokens beyond whose they are. The database is serial (each statement is atomic),
  which is what a single-row statement gives at PostgreSQL's default isolation level;
  nothing models replicas. The Node.js process is one: several instances would
  interleave as requests do, except that each would have its own socket maps.

## 6. Plan

1. *Done:* every component of section 1 that changes state across statements, its abstract
   specifications (`SessionLineage`, `AccountDirectory`, `SubscriptionLedger`), and proofs
   of all safety properties that the runs check.
2. *Left to model:* the names of role profiles; `StorageController` beside uploads;
   deletion composed with `Sessions`, `UserTokens` and `Access` behind one transaction, if
   the state space allows (their alphabets already agree on it).
3. *Left to state:* an abstract specification of the scan gateway, a set of codes per
   session and per desktop; the notifications gateway (`Presence`) and the pipeline
   (`Deliveries`) have theirs.
4. *Left to prove:* that `Access` serves nobody under the contracts of `Billing`, by
   composing `LedgerTheorem` with `ServedTheorem`. In the way: the ledger of `Access` has
   only dates up to the clock's bound, that of `Billing` the deadlines a trial beyond it, so
   `Access` has to take the wider set first.
