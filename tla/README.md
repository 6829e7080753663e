# TLA+ models of the NoTIP management API

The management API is a NestJS service. It keeps tenants, their users and
gateways, the gateways' keys, commands, alerts and thresholds in PostgreSQL
(TypeORM), keeps accounts, roles and groups in Keycloak (its admin REST API),
and talks to gateways and to the other services over NATS: core request-reply
and JetStream streams. Several processes of it may run at once. It holds almost
no state in memory: what can go wrong happens between the awaits of its
handlers, in the three stores that no transaction spans.

Paths below are relative to the repository (`src/...` is its source directory).

## How the modules read the code

* **One action per stretch between two awaits.** A handler's state is where it
  waits, and what it loaded. Statements between two awaits are one action,
  with the guards and early returns of the code.
* **`save()` is what TypeORM does with it**: it reads the row by its id, updates
  the columns that differ from what the handler holds, and inserts the row again
  when it has gone. `TenantSettings` has these as steps of their own. The other
  modules take them as one atomic statement, which writes what was loaded.
  A handler that did `findOne`, awaited something and then does `save` carries
  its snapshot in the model's state. The exceptions are where the source has
  them: a column with `select: false` is in no snapshot, an `insert` meets
  foreign keys and unique indexes, a `transaction` is one action unless it
  calls something outside the database in between.
* **A failure** is a call that the database, Keycloak or NATS refuses, an
  answer that is lost, or a process that dies between two actions. Each model
  bounds their number by `MaxFailures` (`MaxMishaps`, `MaxEvents`), in the guard of
  the failing action. The commit and the end of a completion or validation in
  `Provisioning` may fail without a bound, and so may the undoing of what is stored
  (`LeaveStored`), which needs a lost answer first.
* **A lost answer** is a call that took effect and throws at its caller. Where
  the caller then does something else than stop, it is a disjunct of its own: the
  completion that committed and answers INTERNAL (`CommitCompletion`), the row that
  is stored while `createUser` or `createApiClient` undo what they made in Keycloak
  (`LoseInsert` of `Accounts` and `ApiClients`, `InsertUser` of `Suspension`), the
  stored event that is not acknowledged (`Store` of `Events`), the saved status that
  is apologised for (`DatabaseFails` of `StatusRequests`), the change that ends in a
  500 and so without an audit entry (`FailLate` of `Access`). Everywhere else the
  caller stops, or does what it does when its next call is refused, so a lost answer
  is the call followed by a refusal, a failure or an abandoned request.
* **Requests** start at any time, in any number that the constants allow.
  Whatever a client may send stays nondeterministic; data is reduced to what a
  property tells apart.
* **History variables** only record (marked `history:` at their declaration);
  no guard of the code's own steps reads them.

Bounds appear only in guards and are named by their constants (`MaxReports`,
`MaxEdits`, `MaxUpdates`, `MaxTime`, `MaxFailures`, `MaxMishaps`, `MaxEvents`); sets of processes
(`Workers`, `Editors`, `Updates`, ...) bound what runs at the same time.
None of the configurations checks for deadlock: requests are bounded, so every
run of a model ends, and the service may be idle for ever.

## Inventory

| Part (source) | State | Operations | Hard about it | Module |
|---|---|---|---|---|
| Gateway commands (`src/command`) | rows of `commands`; streams COMMANDS and COMMAND_ACKS; durable consumer | send configuration or firmware, publish, consume reports, apply effects | redelivery, reports in any order, failure between status and effect, stale saves, deletion | `Commands` |
| Gateway provisioning (`src/keys`) | rows of `keys`; `provisioned`, `factory_key_hash` of `gateways` | `validateFactoryKey`, `completeProvisioning` over HTTP and NATS | check outside the transaction, every process handles every NATS request, lost answers and retries, stale saves | `Provisioning`, `Onboarding` |
| Gateway registry (`src/gateways`, `src/admin/gateways`) | `gateways`, `gateways_metadata` | register, rename, update runtime status, delete | two saves without a transaction, read-modify-write of whole rows | in `Commands` and `Provisioning` |
| Tenants and suspension (`src/admin/tenants`, `src/auth/access-policy.guard.ts`, `src/auth/controller`) | `admin.tenants`: status, end of suspension | PATCH, lifting by service, guard and controller, synchronisation of accounts | clock, many writers with stale rows, Keycloak calls that fail half way | `Suspension` |
| Users and their accounts (`src/users`, `tenants.service.ts`, `keycloak-admin.service.ts`) | `users`; Keycloak accounts, roles, groups | create, update and delete users; found and delete tenants | two stores, compensations that fail, decisions on roles read earlier | `Accounts` |
| API clients (`src/api-client`) | `api_clients`; Keycloak clients | create, list, delete | the same two-store problem | `ApiClients` |
| JetStream and NATS client (`src/nats`) | connection, durable consumers, one loop per subscription | connect, publish, subscribe, consume | loops that end unseen, a connection that is given up, redelivery to any process | `NatsClient`, `Events`, `Commands` |
| Alerts and alert configuration (`src/alerts`) | `alerts`, `alerts_configs` | store offline events, set and read timeouts, list them over NATS | redelivered events, find-then-insert that no index stops, removal of rows listed earlier, two responders for one list | offline events in `Events`, default timeout in `TenantSettings`, lists in `StatusRequests` |
| Thresholds (`src/thresholds`) | `thresholds` | set defaults and per-sensor limits, delete | find-then-save upsert, columns of two requests in one row | `TenantSettings` |
| Audit log (`src/audit-log`, `audit.interceptor.ts`) | `audits` | consume provisioning audits, write after requests and before refusals | redelivery, foreign key against deleted tenants, writes nobody waits for, a tenant that the query may name | `Events`, `Access` |
| Authentication and access (`src/auth`, every controller's decorators) | none of its own; lifts suspensions | claims to role and tenant, four guards, impersonation, tenant status | which of several claims decides, order of guards, decisions on a tenant that changes meanwhile | `Access`, `Suspension` |
| Gateway status responder (`src/gateways`) | its subscriptions | update and query of runtime status over NATS | every process answers and saves every request, each at its pace; same row as commands and provisioning | `StatusRequests`; its update is an editor in `Commands` and `Provisioning` |
| Start of the application (`main.ts`, `app.module.ts`) | life of the process | connect and subscribe module by module, then serve HTTP | a start that fails half way | `NatsClient` |

### Not modelled

* Costs (two counts and a sum, asked over NATS with a fallback), last-access and
  metrics interceptors (best-effort writes that no decision reads back), the
  encryption of key material (a pure column transformer).
* The exchange of tokens for an impersonation: it is Keycloak's, and changes
  nothing here. `Access` starts from the claims of the token.
* Bodies of requests: DTO validation, mappers and filters keep no state; a refused
  body is a handler that throws.
* `closeConnection` and the `onModuleDestroy` hooks: `main.ts` enables no shutdown
  hooks, so no running server calls them. A stopped process just goes.
* `MockAuthGuard` and the `MOCK_*` switches, which are for development.
* Migrations, generated contracts and scripts.
* `GatewaysNatsService`, `KeysNatsService` and `GatewaysListener` are providers of no
  module of the application and never run.

### Interactions

```
HTTP ── controllers ── services ── persistence ── PostgreSQL
                        │   │
                        │   └── KeycloakAdminService ── Keycloak
                        └── JetStreamClient ── NATS ── gateways, provisioning,
consumers, responders ──┘                              data API
```

Components meet in shared rows more than in calls. The row of a gateway is
written whole by status updates, renames, acknowledged commands and (column by
column, in its transaction) by a completion. The row of a tenant is written
whole by PATCHes, by the guard of every request, by the tenant-status endpoint
and by the list of tenants. Deleting a tenant or gateway cascades in the
database to everything below it, not to Keycloak.

## The modules

### `Commands` (core)

`SendCommand`, `QueueCommand` and `PublishToNats` are `CommandService`'s
`sendConfig`/`sendFirmware`, `queueCommand` and `publishToNats`; the row is
inserted before the publish, and a failed publish is only logged. Devices
(external) install firmware and report on COMMAND_ACKS any number of times, for
any command they received, in any order, with known and unknown status words.
`Deliver` to `AckMessage` follow `commands-ack.consumer.ts` and the persistence
service: normalise the status (words it does not know are skipped) and find the command
(`FindCommand`), save its status (`SaveStatus`), load the gateway (`LoadGateway`),
save the effect (`ApplyEffects`), acknowledge. A failure or crash anywhere leaves
the message for redelivery, until `max_deliver` is used up. A process may lose its
loop instead (`LoopEnds`, or with the message that it was handling): the error is
logged, the process goes on without it and is deaf until somebody restarts it
(`Restart`). `EditorLoad` and
`EditorSave` stand for the other handlers that hold a snapshot of the gateway
(`updateGatewayRuntimeStatus`, renames); `CompleteProvisioning` is the committed
transaction of a completion, which declares a frequency and, if the device names
one, a firmware version (how completions race is in `Provisioning`);
`DeleteGateway` cascades.

Left out: reading a command's status; tenant scoping (a foreign gateway is an
absent one).

| Property | Says |
|---|---|
| `ConfigurationIsConfirmed` | the firmware and frequency a row shows are factory values, were declared at its provisioning, or were asked of this gateway by a command that it confirmed |
| `AckedMeansApplied` | an acknowledged message was understood, and its effect is saved, or the gateway deleted |
| `StatusIsReported` | a status was reported for that very command, or is QUEUED and no report of it was acknowledged |
| `NoOrphanCommand` | no command outlives its gateway, though saves insert rows again |
| `UnderstoodReportsSettle` | every report the consumer understands is acknowledged or expires, unless the loops of all processes have ended |

`FirmwareShownIsInstalled`, the contract's "current firmware version installed",
is stated in the module and not kept by the code (finding 1).

### `Provisioning` and `Onboarding`

`FindByFactoryId`/`CompareKey` are `validateFactoryKey`; `CheckGateway`,
`CommitCompletion` and `AbortCompletion` are `completeProvisioning` as
`ProvisioningController` and `ProvisioningNatsResponderService` call it. The
responder subscribes without a queue group (`provisioning-nats-responder.service.ts:77`),
so every process handles every request on NATS: a call is a request and the
process that handles it (`NatsCalls`). A process handles its messages one after
the other (the loop of `startResponder` awaits each one, `MayStart`), and knows
nothing of the other processes; HTTP calls come as they like. The transaction
may abort; the database's answer to it or the reply may be lost, and callers retry.
`AddGateway`/`AddMetadata` are the two saves of registration; editors hold snapshots
as above.

`Onboarding` is the contract, in terms of the key table alone: a call is let in
only while its gateway has no key (`Enter`), a key is stored only for a call that
was let in, a confirmation comes only with the key (`Onboard`), and only deletion
takes keys away. Nothing in the code keeps two calls apart that are let in
together, in two processes or over HTTP, and the contract allows it; what may let a
call in late is nothing but a handler's save of what it loaded before the first
key (`Load`, `Save`, `spoiled`). `OnboardingPromise` maps `Provisioning` to it, whose
check does not look at the key table but at a flag: who was let in is read off the
pending calls, and what handlers are unaware of off the flag in their snapshots.

| Property | Says |
|---|---|
| `ProvisionedHasKey` | a row that says provisioned has metadata and a key, but for rows inserted again after deletion |
| `FactoryKeyIsSpent` | a validation begun after a completion or deletion never says valid |
| `SecondKeyNeedsRace` | two keys of one gateway need overlapping calls or a stale save of the flag |
| `SuccessIsStored` | who was told success has its key in the table until the gateway is deleted |
| `OnboardingPromise` | refinement: the flag guards the key table as `Onboarding` says, in all processes together |

`ProvisionedSticks`, the contract's "sets provisioned=true", is stated and not
kept (finding 2).

### `Suspension`

`StartUpdate` to `FinishUpdate` are `updateTenant`, await by await: lifting an
expired suspension (load, save), loading, deriving the new row, saving,
listing the users, one Keycloak call per user. `MeetExpired`, `LoadAgain` and
`LiftExpired` are the guard, the tenant-status endpoint and the list of tenants.
`Tick` is a day. Creations and deletions appear as far as they change who the
users of a tenant are.

| Property | Says |
|---|---|
| `SuspensionHolds` | a suspension holds to its end, unless a lifting of an earlier one was under way when it was saved |
| `AccountsFollow` | after a change of status that nothing disturbed, accounts are enabled exactly when the tenant is active, whatever failed before |
| `ActiveTenantsEnabled` | users of an active tenant can log in (a test's title); violated |

### `Accounts`

Call by call: `createTenant` (row and founder become visible with the commit),
`createUser`, `updateUser` (row, then read, remove and add roles), `deleteUsers`
(accounts all at once, then rows) and `deleteTenant` (list users, delete
accounts, delete the group, commit or roll back). Any call may be refused, with
the compensations of the code, and any request may end half way. The catch clause of
`createUser` cannot tell a refused INSERT from a committed one whose answer was
lost: `LoseInsert` stores the user, and `UndoStored` deletes the account none the
less, while other requests already work on the row (`undoing`).

Left out: emails, names, passwords, permissions; the PUT of a user's details;
API clients of a deleted tenant; `deleteTenant` for a tenant that does not
exist; and the cascade of `deleteUsers` to a whole tenant, which needs a
requester with role system_admin that the route's
`@Roles(TENANT_ADMIN)` never admits. In `Suspension`, an aborted deletion of a
tenant drops the account deletions that are in flight; here they go on.

| Property | Says |
|---|---|
| `OrphansAreExplained` | one refusal never leaves an account without a row: that takes two, a crash, or the deletion of the tenant meanwhile |
| `RowsHaveAccounts` | a row without an account belongs to a deletion under way or failed, was updated while being deleted, or was stored by an INSERT whose answer was lost |
| `RolesAgree` | after a change of role that ran alone, the account has exactly the role of the row |
| `OneGroup` | stored users of a tenant are in its one group, also after a deletion that removed the group was rolled back |

`SingleRole`, "a single application role mapping" (a test's title), is stated and
not kept (finding 4).

### `ApiClients`

`CheckName` to `UndoClient` are `createApiClient` call by call: the name among
the tenant's rows, the client (Keycloak answers 409 to a clientId that exists),
the attributes and the role of its service account, the row, and the undoing of
a refused row, or of one that is stored and whose answer was lost (`LoseInsert`,
`UndoStored`). `FindRow`, `RemoveRow`, `DeleteClient` are `deleteApiClient`,
which a request or the deletion of the tenant calls; the latter (`StartDismissal`
to `DeleteTenantRow`) keeps the connection of its transaction while its clients'
rows go over other connections of the same pool. `BeginFounding`/`EndFounding`
are `createTenant` as a user of the pool. `LiftExpired` saves the row of a
tenant that may have gone meanwhile. `ClientIdOf` is `name.toLowerCase()` with
every other character turned into `-`, any function that maps names to clientIds.

Left out: listing, the secret, the audience of tokens, and Keycloak's
`updateApiClient`, which nobody calls.

| Property | Says |
|---|---|
| `RowsWork` | every client in a tenant's list exists in Keycloak, with that tenant and the role, or was undone after the answer to its INSERT was lost |
| `ConflictsAreEarly` | whoever is about to insert a row finds name and clientId free, Keycloak having refused the others, or taken by a row that lost its client in that way |
| `UnlistedStayOut` | a client that no list shows and that would be let in is the rest of a request that died or of a refused deletion, or of a tenant that came back |
| `DismissalsEnd` | deletions of tenants get their second connection, if there are fewer of them than connections |

### `TenantSettings`

`FindThreshold` checks the range as `validateValueRange` does and is the `findOne`
of `setThresholdDefaultType` and `setThresholdSensor`; `ReloadThreshold`,
`UpdateThreshold` and `InsertThreshold` are what `save()` sends: a read by id, an
update of the columns that differ, which may find the row gone, or an insert,
which a unique index may refuse. `FindDefaults` to `Prune` are
`setDefaultAlertsConfig`: nothing but the primary key refuses a second row, as
the index of `alert_configs` contains the gateway, which is NULL. Each save keeps
the `updated_at` that it loaded when another one has changed it meanwhile,
and lets the database set it otherwise (`UpdateDefault`). Any request
may end after any step.

Left out: the sensor type that a sensor's row may carry, `created_at`, and a
gateway's own timeout, which is one upsert; deleting the tenant.

| Property | Says |
|---|---|
| `RangesAreAsked` | the range of a threshold is one that a request sent, and so checked, unless two requests read the row again before either wrote |
| `LoneRequestSettles` | a request for a default timeout that overlaps with no other one leaves exactly one default row, with its timeout, whatever earlier ones left |
| `DefaultRemains` | a tenant whose default was set has one, unless a request removed, as a duplicate, the row that another one, still under way, had chosen to set |

### `NatsClient`, `Events` and `Intake`

`NatsClient` is one process from its start to its end: `Boot` connects,
`Subscribe` makes or finds a durable consumer and starts its loop, `Serve` is
`app.listen` after every hook. `LoopFails` is a `consume()` that rejects inside the
loop that nobody waits for: it is logged and the process goes on. `LinkLost`,
`Reconnect` and `GiveUp` are nats.js; after `GiveUp` the fields of the client are
still set, so `ensureConnected` connects nothing again.

`Events` extends it by the two streams that only the management API reads.
`Deliver` gives a message to any process that hears its subject, at most
`MaxDeliver` times; again when the delivery before is over, or while its handler is
still busy (the ack wait runs out). An INSERT may commit and its answer get lost (`Store`):
the handler logs a failure and acknowledges nothing. `Skip` to `Ack` are the handlers of
`AlertsNatsService` and `ProvisioningAuditConsumer`, from their different orders of
subject and body to their acknowledgements (`AckOver` may lose them). A row of
`audits` needs its tenant (`LogAuditEvent`), one of `alerts` does not.

`Intake` is the contract of both consumers: a message is taken again and again until
it is settled; every attempt records it at most once, an overtaken one also late;
what is settled was recorded, and a record stays until those to whom it belongs go.
`Events` implements it with `Inbox`: an attempt is a delivery, a record is a row, and a
message is void when it is an audit event that nobody can read or whose tenant is gone,
and stuck when it is an alert that nobody can read.

Left out: what a row says beside its tenant; the order in which durable consumers
deliver, as every message is stored on its own.

| Property | Says |
|---|---|
| `DuplicatesArePaid` | a message is stored once, and once more only for each ack wait that ran out, database's answer or acknowledgement that got lost or process that ended between its row and its acknowledgement |
| `IntakePromise` | every step is a step of `Intake` or changes nothing of it: an acknowledged message is stored, or it is void, no row goes but with its tenant, and no delivery begins after the acknowledgement |
| `EventsSettle` | with fewer failures than attempts, what can be understood is stored in the end, unless the tenant goes or the loops of all processes have ended |

### `Access`

`Arrive` is `JwtAuthGuard`, `JwtStrategy.validate` (`EffectiveRole`, `ValidClaims`,
`UserOf`) and `AccessPolicyGuard` up to its first await; `LoadTenant` and
`LiftSuspension` are its two awaits, `AfterPolicy` the two guards behind it, and
`RecordBlocked` the entry of `BlockImpersonationGuard`. The routes are those of the
controllers, name by name, with their decorators (`TenantsController`, ...). Handlers
change tenants in one step each, as far as the guards see it (their own steps are in
`Suspension` and `Accounts`), and may fail after it (`FailLate`); `WriteEntry` is the
INSERT of `AuditInterceptor` after the answer. `AuditId` is its `resolveTenantId`: the
tenant of the session, for users who have none an id in the query, which nobody checks,
and then what path or answer name. `Queries`
lists the routes where the query is reached; `Unknown` is an id of no tenant.

Left out: what entries say beside request, kind and tenant; signature and expiry
of tokens; user ids.

| Property | Says |
|---|---|
| `HandledInGoodStanding` | whoever reaches a handler of a tenant's route had a tenant that was there and not suspended at some moment since it arrived |
| `TrailIsTrue` | every entry tells what happened, under the tenant it happened to or the one that the query of a user without tenant named, and every success on an audited route has one, unless its write failed, that tenant was deleted, or the query named none |
| `BlockedLeavesTrace` | who is refused because of an impersonation has left an entry, unless its session has no tenant at all |

### `StatusRequests`

Three responders (`Responders`) on four subscriptions of each process, without a
queue group. `TakeUpdate` and `SaveStatus` are `handleUpdate` with the `findOne` and
`save` of `updateGatewayRuntimeStatus`; `TakeGet` is `handleGetStatus`; `TakeList` is
the list of alert configurations that `AlertConfigNatsResponderService` and
`AlertsNatsService` both answer. `DatabaseFails` gives what each says then
(`Apology`), `Reply` reaches whoever still waits. A loop takes one request after the
other (`InTurn`). `OtherWrites` and `ChangeConfig` stand for the handlers whose steps
are in other modules.

Left out: `last_seen_at` (written with the status, and by nothing else), names and
tenants of gateways beyond own and foreign, requests without a reply subject, which
are skipped.

| Property | Says |
|---|---|
| `AnswersWereTrue` | the first answer, from whichever process, says what was so at some moment between request and answer, or is the apology of a responder whose database failed |
| `UpdatesConverge` | when no process has an update of a gateway left, the row has the status asked for last, unless another handler wrote the row or a process lost an update |

## Runs

| Run | Instance | States | Shows |
|---|---|---|---|
| `commands` | 2 consumers, 1 editor, 1 command of any shape, 2 reports, 2 deliveries, 1 failure or ended loop, completions that declare both values | 2,564,813 | the four safety invariants under every interleaving |
| `commands_live` | 2 consumers, 1 command, 2 reports, 4 deliveries, 1 failure or ended loop, completions without firmware | 389,984 | reports settle, unless everybody is deaf |
| `provisioning` | 1 NATS request that 2 processes handle, 1 HTTP call, 1 validation, 2 editors | 1,113,384 | the four safety invariants |
| `provisioning_promise` | 2 NATS requests that 2 processes handle, 1 editor | 367,875 | the refinement of `Onboarding` |
| `suspension` | 1 tenant, 2 users, 2 updates, 1 reader, 1 day, 1 failure | 1,232,850 | both safety invariants |
| `suspension_disabled` | 1 update, 1 reader, 1 user, no failure | – | counterexample to `ActiveTenantsEnabled` |
| `accounts` | 1 tenant, 2 users, 2 updates at a time, 1 deletion of users, 1 failure or lost answer | 694,113 | the four safety invariants |
| `api_clients` | 2 tenants, 2 clients of one name, 1 deletion of a client and 1 of a tenant, 1 foundation, 2 connections, 1 failure or lost answer | 479,160 | the three safety invariants and `DismissalsEnd` |
| `tenant_settings` | 1 threshold, 3 ranges, 2 timeouts, 5 requests, at most 3 of them for the threshold | 691,659 | the three safety invariants |
| `events` | 2 processes, 1 message of any of four kinds, 3 deliveries, 1 tenant, 2 failures | 212,062 | `DuplicatesArePaid`, the refinement of `Intake`, and `EventsSettle` |
| `access` | 2 requests for any route with six sets of claims and any query, 2 tenants, 1 failure | 605,949 | the three safety invariants |
| `status_requests` | 2 processes, 2 requests, 1 failure, lost answer, crash or write of another handler | 1,306,368 | both safety invariants |

Why these bounds are enough to be interesting. Two consumers and two reports of
one command give a late report of another outcome and two effects in flight; a
second gateway would only repeat the first, as no action of `Commands` relates
two. Three completions are a race of two and one more, over another transport, in
`provisioning`; a request and its retry in two processes are four in
`provisioning_promise`: each overlaps with those of the other process, or comes after
an answer that was lost. One day separates a suspension in force from one that is over;
two updates give every order of two saves and their synchronisations. Two users
in `Accounts` suffice for a founder and one more, the case in which groups and
deletions interact; two updates give every order of rows and roles; one failure
decides what one failure may leave behind, and a second one is what
`OrphansAreExplained` excuses. In `ApiClients` two clients that share a clientId
are the only interesting pair: one name does it, in one tenant (which its list of names
refuses) and in two (which only Keycloak refuses, as it does for two names in one
tenant); one dismissal on two connections, beside a
foundation that holds the other one, is the tightest pool that `DismissalsEnd`
allows. In `TenantSettings` a range that no request sent takes three requests (one
makes the row, two cross), and five are the fewest that can lose the default: two
insert a row each, and three later ones disagree on which is the latest; so
both excuses occur. In `Events` messages share nothing but the failures, so one at
a time, of each kind, shows all that can happen to it; two failures and three deliveries
are the most that `EventsSettle` allows (`MaxMishaps < MaxDeliver`), and enough for a
duplicate that is paid twice. Two processes in `StatusRequests` and two updates give
every order of two finds and two saves; one event is a failure or a foreign write in
any of their gaps. Two requests in `Access` are one that changes a tenant and one
that is judged by it. Where a theorem exists (below), the bounds no
longer matter for it.

Symmetry is declared for processes, requests and ids whose constants appear in no
definition and no `CHOOSE` (`MC*.tla`); the liveness runs use none. Each Access request is
as good as the other, so `access` counts one of two orders.

### Fairness

`commands_live` assumes weak fairness of the delivery of each stored
report to a process that listens, and of each step of the consumer's handler. NATS
redelivers what is not acknowledged, and the event loop continues a handler whose
await has settled. Failing, crashing, restarting, deleting and reporting are never
forced. That a process listens is not assumed: its loop may end with a log line
(`nats-jetstream.client.ts:196-206`), nothing in the code starts it again, and a
restart is nobody's duty. So the property excepts the case that the loops of all
processes have ended; `events` makes the same exception. One process that still
listens is enough. The property needs
`MaxFailures + Cardinality(Workers) < MaxDeliver`: each failure uses up a delivery,
and the deletion of a gateway under a save makes one more delivery fail in each
process. The run has four deliveries where the code's `max_deliver` is 3, because
with two processes three are too few once something fails: with as many failures as
deliveries the property is false, which is what `max_deliver` means.

`api_clients` assumes weak fairness of the steps of a tenant's deletion, of the
deletions of clients within it, and of the end of a foundation: the database and
Keycloak answer, and a request that was answered goes on. New requests, failures
and the creation of clients are never forced. The property needs
`Cardinality(Dismissals) < PoolSize`. With as many deletions as connections all
of them can hold one and wait for another one, and since `app.module.ts` sets no
`connectionTimeoutMillis` they wait for ever, and with them every other request
that needs the database (`tenants.service.ts:221-230`; TLC shows it with one
deletion and `PoolSize = 1`).

`events` assumes that a stopped process is started again, that a hook of a booting
process gets an answer or an error, that nats.js reconnects or gives up, that the
server delivers what is due and that the event loop continues a handler whose await
has settled. Failures, ends of loops and deletions are never forced. The
exception for processes that are deaf is needed: nothing restarts a loop.

### Findings

Numbers without a run: TLC finds the counterexample when the property is put into
a configuration of the module, as said.

1. `FirmwareShownIsInstalled` (`Commands`, one firmware command, one editor, no
   failure): `updateGatewayRuntimeStatus` (`gateways.persistence.service.ts:91`)
   saves every column it loaded. A firmware version that an acknowledged command
   wrote in between is overwritten; the row then contradicts the contract's
   "current firmware version installed on the device" for good.
2. `ProvisionedSticks` (`Provisioning`, one call, one editor): the same save takes back `provisioned`, and the
   gateway can be completed again.
3. Run `suspension_disabled`: a suspension that runs out is lifted in the row only;
   the accounts that it had disabled stay disabled, and a later PATCH to active
   sees no change of status and repairs nothing.
4. `SingleRole` (`Accounts`, one founder, two updates, no failure): two changes of one user's role leave both roles on
   the account, whose tokens are then refused as ambiguous.
5. By reading only: `gateway.decommissioned` is never published, because
   `GatewaysListener` is registered in no module.
6. By reading only: the 409 of POST /api-clients is documented as "API client with
   the same name already exists" (`api-client.controller.ts:28`). Keycloak answers
   it for an equal clientId, which another name, another tenant or a client left
   over by a failed request may have.
7. The excuse in `RangesAreAsked` is needed, although `thresholds.service.ts:105`
   refuses a range whose minimum is not below its maximum: on a row 1..4 the requests
   1..2 and 3..4 can each write one column, and the row says 3..2. (TLC
   shows it when `crossed` is left out of the property.)
8. The excuse in `DefaultRemains` is needed as well, although a test says
   "updates latest default config and removes stale duplicates"
   (`alerts.persistence.service.spec.ts:76`): two requests that saw
   different rows as the latest remove each other's, and the default is gone.
9. `alert.*.gw_offline` (`alerts.nats.service.ts:55`) is not the contract's
   `alert.gw_offline.{tenantId}`, and the durable consumer's name is derived from it
   (`nats-jetstream.client.ts:322-326`) instead of the contract's
   `mgmt-alert-consumer` (`nats-contracts.yaml:118-124`). An alert published as the
   contract says is never stored. By reading only.
10. The entry of `DELETE_TENANT` is inserted after its tenant is gone; the foreign key
    refuses it and `audit.interceptor.ts:82` ignores the error. An administrator
    without a tenant of his own leaves no trace of a deletion: `TrailIsTrue` needs the
    exception for tenants that are gone, and TLC finds the deletion without it.
11. When the database fails it, `AlertConfigNatsResponderService` answers an empty list
    (`alert-config-nats-responder.service.ts:95`), the same as for an empty table; the
    contract's "Startup operations (alert-configs.list): 10 retries"
    (`nats-contracts.yaml:186-187`) then never happen. `Apology` in
    `StatusRequests` is where the two cannot be told apart.

### What the properties excuse

Some hazards of this code happen, and the passing properties do not catch them: they
name them as exceptions and say that nothing else goes wrong.

| What happens | Excused in | Reported |
|---|---|---|
| a stale save brings an older confirmed firmware or frequency back, or an older status | `ConfigurationIsConfirmed` (any confirmed value will do), `UpdatesConverge` (rows that another handler wrote) | finding 1 |
| a stale save takes the provisioned flag back | `SecondKeyNeedsRace` and `OnboardingPromise` (`reset`, `spoiled`) | finding 2 |
| a late report replaces a final status of a command | `StatusIsReported` (any reported status will do) | no document forbids it |
| the guard saves an expired suspension over a new one | `SuspensionHolds` (a lifting was under way) | – |
| two changes of one user's role mix | `RolesAgree` (changes that ran alone) | finding 4 |
| a tenant is suspended between the guard's read and the handler | `HandledInGoodStanding` (at some moment) | – |
| the empty list of a failed responder | `AnswersWereTrue` (`Apology`) | finding 11 |
| an undone account or client of a row that is stored | `RowsHaveAccounts`, `RowsWork`, `ConflictsAreEarly` (`unheard`) | – |
| the query of an administrator without tenant moves or hides an audit entry | `TrailIsTrue` (`Astray`) | – |
| every process has lost its loop | `UnderstoodReportsSettle`, `EventsSettle` | – |

## Proofs

TLAPS proves, for every value of the constants that the modules' assumptions
allow:

| Module | Theorem | Property |
|---|---|---|
| `CommandsProofs` | `TypeCorrect`, `CommandsHaveGateways`, `StatusesAreReported`, `ConfigurationsConfirmed`, `AcksFollowEffects` | `TypeOK` and the four safety invariants of `Commands` |
| `ProvisioningProofs` | `ProvisioningTypes`, `FactoryKeysAreSpent`, `SuccessesAreStored`, `SecondKeysNeedRaces`, `ProvisionedGatewaysHaveKeys` | `TypeOK` and the four of `Provisioning` |
| | `OnboardingKeepsPromise` | `OnboardingPromise`: `Provisioning` implements `Onboarding`, for any processes, requests on NATS and over HTTP, and other handlers |
| `SuspensionProofs` | `SuspensionTypes`, `SuspensionsHold`, `AccountsFollowStatus` | `TypeOK` and both of `Suspension` |
| `AccountsProofs` | `AccountsTypes`, `OrphansHaveReasons`, `StoredUsersHaveAccounts`, `RowsAndAccountsAgree`, `TenantsHaveOneGroup` | `TypeOK` and the four of `Accounts` |
| `ApiClientsProofs` | `ApiClientsTypes`, `ListedClientsWork`, `ConflictsComeEarly`, `UnlistedClientsStayOut` | `TypeOK` and the three safety invariants of `ApiClients` |
| `SettingsAndRequestsProofs` | `TenantSettingsTypes`, `ThresholdsAreAsked`, `LoneRequestsSettle`, `TheDefaultRemains` | `TypeOK` and the three of `TenantSettings` |
| | `RequestsTyped`, `AnswersWereTrueAlways`, `UpdatesConvergeAlways` | `RequestsTypeOK` and both of `StatusRequests` |
| `EventsProofs` | `EventsTypes`, `DuplicatesAreBounded` | `TypeOK` and `DuplicatesArePaid` of `Events` |
| | `AcknowledgedIsStored` | `AcksAreEarned`: what is acknowledged is stored, or its tenant gone, or nobody can read it |
| | `EventsAreTakenIn` | `IntakePromise`: `Events` implements `Intake` |
| `AccessProofs` | `AccessTypes`, `HandlersSeeGoodStanding`, `TheTrailIsTrue`, `BlockedRequestsLeaveTraces` | `TypeOK` and the three of `Access` |

Assumptions: `Null` differs from every value it stands beside, the bounds are
natural numbers, default values belong to their sets, requests have the shape
of the DTOs, no request over HTTP is one on NATS, `Unknown` is no tenant, the requests of
`TenantSettings` are finitely many (its clock counts them), the claims and routes of
`Access` have their shapes. TLC evaluates them in every run.

The arguments:

* **Commands.** `Structure` adds to the types what each consumer holds at each
  await and that a command's immutable columns come before everything that
  refers to it. `Confirmed` extends `ConfigurationIsConfirmed` to the snapshots
  that consumers and editors hold: a stale save can only write what was
  confirmed or declared once. For `StatusIsReported`, `SeenInRow` says that the row shows
  a report once it is not as inserted, once a consumer is past its save, and once a
  report of it is acknowledged. Its last part survives a deletion because nothing
  inserts a row as QUEUED again: a command is published after its only INSERT
  (`PublishedClosed`), and saves write what some report says. `AckOrder` says how far a message is settled at each await:
  the acknowledgement is the last step, so it inherits "the effect is saved".
  The invariant needs `GoneMeansDeleted`, because a save inserts deleted rows
  again and the excuse must survive that.

* **Provisioning.** `Spent` ties the hash, which no snapshot carries, to
  completions: no save restores it. `ClaimsRace` says that two calls with a claim
  to one gateway (past the check, or with a key) overlapped or the flag was
  taken back in between; with `KeysMatch` it yields `SecondKeyNeedsRace`.
  `Marked` covers snapshots that say provisioned. The refinement
  (`PromiseInv`) needs that a key is its call's and that a row whose flag is down has
  no key or was taken back (`KeysMatch`, which makes a passed check an `Open` gateway
  of the contract), and that a call that is under way has been told nothing yet
  (`Waiting`), so its key and its confirmation come together or not at all.

* **Suspension.** `Promises` and `Untouched` suffice for `SuspensionHolds`: as
  long as nothing overtook it, the row is the promise, and nothing that could
  lift it started before the promise ended. `AccountsFollow` needs eight named
  parts (`IInv`): who is on an update's list (`Listed`), that a calm update is
  alone in its tenant (`Alone`), that it knows the row it saved (`Knows`), and
  that every user not on its list any more has the account that the row asks
  for (`Reached`).

* **Accounts.** The invariant is one per user (`UserInv`), as no step but the start
  of a deletion concerns two. `Young`: nobody updates or deletes a user who is being
  created, so the creation knows account and roles as it left them. `Home`: all that
  refers to a user agrees on the tenant, so a tenant's deletion and a deletion of
  users cannot miss each other. `Cleared`: what an unfailed deletion is done with has
  no account, which is what it may commit. `Overlapping`: who was not added meanwhile
  is on the tenant's list. `Missed` and `Orphaned` carry the excuses of
  `RowsHaveAccounts` and `OrphansAreExplained` through the steps between; a user who
  is being undone although stored is `unheard`, which excuses whatever the others
  do to the row meanwhile.
  `RolesAgree` needs `LoneUpdate`, what an update that is alone on its user knows at
  each await (the roles it read are still there; after the removals only its own is
  left), and `OneGroup` needs `Grouped`.

* **API clients.** `Structure` says what each creation and deletion knows of its
  client: until the row exists nobody else touches the client, so it is exactly as
  far set up as the creation got (`SetUp`); a row's client is `Working`; past
  "found" the row has gone for good, so a second deletion cannot remove the client
  of a listed row. `Distinct` (clientIds in Keycloak) gives `ConflictsAreEarly`, as
  every complete creation has its client there and every row too, unless it is one of
  the `unheard` that were undone: those are the only takers left. `Out` weakens
  `UnlistedStayOut` to be inductive: only a deletion about to remove the client
  counts as busy, and `Phases` says when a tenant's deletion can have one.

* **Tenant settings.** `WriterKnows` says what a request about to write, and
  overtaken by nobody, knows: the columns it will leave alone are already as it
  wants them. So its write completes its own range (`Asked`). `LoneInv` follows
  the request that runs alone: the row it will write is there, and it has listed
  every other one (`LoneKnows`); ids are unique, so what remains is one row.
  `LatestExists` justifies the `CHOOSE` of the latest row (dates are bounded).
  `HasRow` gives `DefaultRemains`: a request past its save, unless robbed, has its
  own row in the table and will not remove it. An earlier form of the property,
  which excused a request only by what others had set meanwhile, held up to five
  requests and not for every number; hence `robbed`.

* **Events.** `Linked` ties rows to the messages they come from; `StoredKept`: a
  handler that comes to its acknowledgement has a row in the table, or its tenant is
  gone. So what is acknowledged is `Earned`, and only the tenant's deletion takes a
  row away. `Paid` counts: rows of a message, and deliveries that still may insert
  one, are at most its slips, and one more while a delivery is under way or after
  the acknowledgement (`Free`). The refinement of `Intake` adds `Placed`: a row
  comes from an attempt that is past its INSERT, so no attempt records twice; and a
  row of `alerts` is no audit message's, so a deletion erases what it should.

* **Access.** `Knows` is what a request knows at each await, `Standing` that a request
  past the guard met a tenant in good standing. For the trail, `Entries` belong to
  requests that did what the entry says, `Complete` is the other direction, and
  `Grounded` keeps the excuse: tenants that requests refer to were created, and a
  deletion is remembered although a save inserts the row again. `AuditIdIs` splits the id of an
  entry into the tenant that the request acts on and one that its query names.

* **Status requests.** `LoopsFit` says what each loop has taken and still has queued:
  requests of its own subject, and found ones only with a word that can be stored.
  `AnswersReady` and `AnswersRightful` carry `AnswersWereTrue` back to the moment a
  responder made its answer up: from then on the answer is `Rightful`, unless the
  requester does not wait any more. What was true once remains in the history, so it
  survives whatever others write. For `UpdatesConverge` the order of the loops
  matters: every process gets the requests in the order in which they were sent and
  handles them one by one, so the last update of a gateway that a process still has
  is the latest that anyone was asked for (`LastsAreLatest`), and with it the row
  ends there. `AllSettled` is the property for each gateway as it stands: its row has
  the latest status, or some process still has an update of it.

What all have in common: none of the properties is inductive, because what a handler
is about to write matters as much as what the tables say; the strengthenings say what
each handler knows at each await.

Only model-checked: `UnderstoodReportsSettle`, `DismissalsEnd` and `EventsSettle`.
They are liveness properties under fairness, which the prover does not support.
Every safety property of a passing run has its theorem.

## Plan

Done, in this order: `Commands`, `Onboarding`/`Provisioning`, `Suspension`,
`Accounts`, `ApiClients`, `TenantSettings`, `NatsClient`/`Events`, `Access`,
`StatusRequests`, completions of provisioning composed into `Commands`, the proofs
of all safety properties, and `Intake` with the proof that `Events` implements it. To
come:

1. `Costs`, as a fourth responder of `StatusRequests` when its numbers are given a
   meaning that more than one read can break.
2. A contract like `Intake` for the dual writes of `ApiClients` and `Accounts`: one
   directory, in which a creation or a deletion is one step, and what their races and
   failures may leave beside it.
