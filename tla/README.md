# Verification of the Authentik server operator

The repository is a Juju charm, in Python, that runs the Authentik identity provider on
Kubernetes. This directory has TLA+ models of the charm's core logic, TLC configurations that
check them on small instances, and theorems about them with proofs for TLAPS. `PROJECT.json`
lists the components, runs, findings, hazards and theorems, and maps every definition to the
lines it models. Paths below are relative to the repository, whose root is `src/`.

- [The system](#the-system)
- [What a Juju hook is](#what-a-juju-hook-is)
- [Plan](#plan)
- [Models](#models): [OAuth](#oauth), [API client](#api-client), [CA bundle](#ca-bundle), [credentials](#credentials), [shared secret](#shared-secret), [handler](#handler)
- [Runs](#runs), [bounds](#bounds), [fairness](#fairness)
- [Where the code and its documentation disagree](#where-the-code-and-its-documentation-disagree)
- [Proofs](#proofs)
- [What is not modelled](#what-is-not-modelled)

## The system

Every unit of the charm handles Juju events one at a time. Nearly every event runs the same
idempotent *holistic handler*, which compares what Juju says with what is there and repairs the
difference. The handler drives four systems that share no transaction: Juju (databags, secrets),
Pebble in the workload container, Authentik's REST API (and, behind it, PostgreSQL), and the
charm's own files.

| Component | State | Operations | Correct if |
|---|---|---|---|
| Holistic handler, `src/charm.py` | `_tls_cert_changed` for one hook; everything else is read anew | no-op conditions, then secrets, cluster, Traefik, API token, server-info, TLS, oauth, each skipped once one says no; plan | an event that is handled leaves nothing half-done which no later event repairs |
| OAuth reconciler, `src/oauth.py` | sync cache and flow UUIDs in the peer databag; endpoints and credentials in each relation's databag | `reconcile`, `_sync_relation`, `_sync_authentik_objects`, `garbage_collect` | a client's published credentials work; no duplicate, orphan or stranger's object is made, changed or deleted; every relation is provisioned and every gone one collected |
| Authentik client, `src/authentik_api.py` | cached availability, for one client object | GET, POST, PUT, PATCH, DELETE with retries, pagination, recovery of ambiguous creates | a retried or lost call has the effect of one call |
| Consolidated secret, `src/secret.py` | secret id, key, token, password in one labelled Juju secret | look up, create, adopt, refresh | one secret per deployment, the same in every unit, in Authentik and with the consumers |
| CA bundle, `charm.py:437-479` | a file and the merged store in the charm container, the store in the workload container | compare, merge, push, restart | the running process trusts what the relations publish |
| Workload services, `src/services.py`, `src/cli.py` | Pebble layer, service, checks | plan, restart, stop, push, readiness, token reset, diagnostics | the running process has the latest environment |
| Integrations, `src/integrations.py` | none of their own; read and write databags | database, S3, Traefik, CA bundle, peer data | what is read is complete or taken as absent |
| Status, conditions, `src/utils.py` | none | no-op conditions, `collect_status` | no error is hidden by an active status |
| `authentik_cluster`, `authentik_server_info` libraries | consolidated credentials in a Juju secret owned by the library; its id in the databag | publish, grant, revoke, remove; read, refresh | what is published can be read; no consumer goes back to an older credential or is left with one; the secret goes with its last relation |
| Configuration, environment | none | mapping to environment variables | - |

How they meet:

- the secret feeds the workload's environment (`plan`), the API client, server-info and the
  cluster relation;
- the workload's readiness gates the API token step, server-info and oauth; these talk to
  the Authentik of the unit's own pod;
- the TLS step sets `_tls_cert_changed`, which `plan` reads at the end of the same hook;
- the peer databag is written by the leader and read by every unit; the databags of the oauth
  relations are the interface to the clients;
- a step that says no skips the steps after it, so an oauth error withholds the plan, and an
  absent cluster relation withholds oauth.

What is hard: a hook is retried over its own effects on Authentik; calls are lost, and creates
executed after their timeout; leadership moves while a hook runs; a hash, a key or a file
stands for the state of another system and goes stale; steps of one hook fail while others have
been done; the handler reports success after errors it has caught. `PROJECT.json` has 40 such hazards with
their lines and the properties aimed at each.

## What a Juju hook is

All models rest on the same reading of Juju, which is not in the repository:

1. A unit runs one hook at a time. Hooks of different units may overlap, also the hook of a deposed leader and
   the new leader's: a leader keeps its lease for about a minute, and one hook may take longer (many REST calls
   with timeouts of 5 s and three attempts each). `OauthReconciler` allows it if its constant `Overlap` says so;
   `Credentials` always does, and its variable `deposed` remembers that it has happened.
2. Writes to databags and secrets are kept until the hook ends. They reach Juju if it succeeds
   and are dropped if it fails; if it is not the leader any more, writing
   application data is an error. REST calls, files, and Pebble calls take effect when they are made.
3. A failed hook runs again, before any other event of its unit, unless an operator resolves it without a
   retry (constant `NoRetry`).
4. `update-status` runs for ever.
5. The relation whose `relation-broken` hook runs is not among those the charm sees.

In the handler (`charm.py:267-301`), a transient API error fails the hook, so Juju retries it.
Any other API or charm error is caught: the handler skips the plan, the hook succeeds and what it wrote is
kept. An exception that is neither (`TypeError`) fails the hook.

## Plan

Most important first. Done:

1. `AuthentikStore`, `OauthReconciler`, `OauthProperties`: the reconciler, call by call.
2. `OauthPromise`: what clients are promised, abstractly; refinement checked as `KeepsPromise` and proved.
3. `TlsTrust`: the CA bundle.
4. `Credentials`: the secret, the token, server-info and the plan.
5. `HolisticHandler`: the no-op conditions, what each step asks for, the plan and its errors, the database's
   departure, and the status.
6. `SharedSecret`: the two `authentik_*` libraries, both ends.
7. `AuthentikObjects`, `RequestPromise`, `AuthentikRequest`: the API client attempt by attempt, and what its calls
   promise, abstractly; the refinement checked and proved.
8. Theorems: types of all six, and every safety property that a passing run checks: ownership in Authentik, what collection
   spares, one provider for a relation; tracking, working credentials, truthful hashes, what is skipped, and the refinement of the
   reconciler's promise; no duplicate and no unasked-for provider after a lost answer, and the calls' promise; the accepted
   token; the shared secret's readability and order; what the CA file means and what a plan trusts; nothing runs without
   a database, and what active means.

To do:

9. `OauthReconciler` with `AuthentikRequest` for its calls: the two meet in the documentation only, as both say which outcomes
    a call has.
10. An abstract handler ("each step has either converged or been reported"), for the models to implement; and the
    early step that says no and holds up collection (`charm.py:284`), which needs two of them in one.

## Models

### OAuth

`AuthentikStore` is the slice of Authentik's database the charm uses. `provs` maps primary keys
to providers (name, credentials, configuration hash), `apps` maps slugs to the provider they refer to, to
nothing (`NoPk`) or to no application (`AppAbsent`). Deleting a provider
nulls the references to it. This module is external: it says what the client relies on.

`OauthReconciler` is `src/oauth.py` with the calls it makes to `src/authentik_api.py`.

| State | Code |
|---|---|
| `provs`, `apps`, `flows` | Authentik's providers, applications and the UUIDs of the two default flows |
| `late` | provider POSTs whose client has given up, still to be executed |
| `cache` | `oauth_sync_cache`: per relation `pk`, `slug`, `config_hash`; an entry without hash is work not finished |
| `flowCache` | the cached flow UUIDs |
| `bag` | the provider side of each relation: credentials, slug of the endpoints |
| `conf`, `rel`, `left` | the client's configuration; the relation's life; the units whose `relation-broken` has run |
| `leader`, `failed` | the leader; the event a unit in error has to run again |
| `hook[u]` | the hook `u` runs: `pc` names the next REST call, `seen` is what it read, `cache`/`flow`/`bag` what it is going to write |

One action is one REST call with the local code up to the next one, so every order of two units'
calls, and a failure between any two calls, is a behaviour. `StartHook` is the snapshot at
dispatch. `ResolveFlow`, `SkipRelation`, `BeginRelation`, `ResolveMappings` are `reconcile` and
`_sync_relation`; `GetCachedApplication` to `FindProvider` the discovery;
`CreateProvider`, `CreateProviderInvalid`, `CreateProviderConflict`, `CreateProviderLost` and
`RecoverProvider` one POST with its outcomes; `UpdateProvider`, `CreateApplication`, `UpdateApplication`
the other writes; `CollectNext`, `DeleteApplication`, `DeleteProvider` the collection; `Commit` the end of the hook.
`HookFails` is a failure at any point. A call that took effect and whose answer was
lost is its success followed by `HookFails`. `SkippedHook` is a hook of the leader that an
earlier step has held up.

Abstractions. SHA-256 is injective: a hash *is* the configuration and flows it digests. The client id and the
secret are one value; the secret's Juju object is not modelled, only its loss (`ClientSecretLost`). A new
credential or key differs from every one in use: taking the least unused one keeps TLC's state space finite.
Fields of providers that no property tells apart are left out.

`OauthProperties` has the properties, `OauthPromise` the abstract specification: Authentik accepts
for each client exactly the credentials it was given, until the relation has ended (`PromiseKept`). The
refinement maps `accepts` to the credentials of a relation's providers, `given` to `bag`, `member` to the active relations.

### API client

`AuthentikObjects` is what the calls are about: the providers of one name with what they are configured to (`provider`)
and the application of one slug with the provider it refers to (`app`), and what each call that writes does to them (`Applied`).
Authentik's rules are external; a second provider of the same name is one it may refuse but need not.

`RequestPromise` says what a caller may rely on, without attempts and lookups: a call that returns has left
Authentik as it asked, at that very moment; a create is carried out at most once; a request whose caller has gone may
still be carried out, once, at any time.

`AuthentikRequest` is `src/authentik_api.py` with every attempt.

| State | Code |
|---|---|
| `call`, `phase`, `tries` | the method, whether it sends its request or looks for what its POST may have created, and the attempt it is at (`_request`, `create_oauth_provider`, `create_application`) |
| `result` | what the last call returned or that it raised |
| `late` | requests Authentik may still carry out |
| `absent` | the caller has looked for the provider and found none: only then it creates one (`oauth.py:294-309`) |
| `crossed` | history: a POST was left under way, or a caller looked for the provider, or wrote it, while another was about to create it |

An attempt with its outcome is one action: `Answered`, `Unusable` (no key in the answer), `AlreadyGone` (a 404 of a
deletion), `Conflict`, `Refused`, `Unreached`, `AnswerLost`, `TimedOut`; the recovery is `Found`, `NotFound` or `LookupFails`. `Straggles` is
a request that arrives after its timeout, or not at all. Callers make any call at any time and every attempt may fail: there is no budget of
faults. The state space is finite, as nothing counts up but the attempts.

### CA bundle

`TlsTrust` is `_ensure_tls` (`charm.py:437-479`), `TLSCertificates`, and `plan`/`update_ca_certs` of the services. A
bundle goes from the databags to `charmFile`, is merged with the system's certificates into `hostStore`, pushed to
`podStore`, and read by the process into `loaded`. `step` is the place in the hook, `changed` its
`_tls_cert_changed`. A store is named by the bundle merged into it; `ImageStore` is the one the workload's image has.
The order matters and is the code's: the file is written *before* the merge and is what the next hook
compares with.

`HookCut` ends a hook at a step of `Cuts`, whatever the reason; `MergeFails` is an error
of `update-ca-certificates`; `ContainerRestarts` and `PodRecreated` are Kubernetes. `harmed` is a history variable: it is set by
the four events after which the process may never trust the bundle (see the counterexamples), so that the
properties can say that there are no others. `HostMerged`, which is about the charm's container only, needs just one of
them excused, and names it by the state it leaves: no file, nothing published, and a store with the last bundle (`RemovalMissed`).

### Credentials

`Credentials` is `src/secret.py` with the steps of the handler that use it: `_ensure_secrets`, `_ensure_api_token`,
`_ensure_server_info_relation` and the plan. The secret key, token and password are generated together and are
one *key* in the model.

| State | Code |
|---|---|
| `secret` | the labelled Juju secret |
| `shared` | the token published on server-info |
| `token`, `password` | what Authentik's database has: the token it accepts, the admin user's password |
| `env[u]`, `up[u]` | the environment of the unit's process; it is ready |
| `hook[u]` | step, key, whether the hook generated it, the client's cached availability, whether it publishes |

The database may be new or of an earlier deployment (`OldKey`), and may be replaced.
`Bootstrap` is Authentik creating its admin user at its first start. `ResetApiToken` needs that user.
Every unit's process runs against the one database. `deposed` is a history variable: a leader has been replaced
while its hook was running.

### Shared secret

`SharedSecret` is `authentik_cluster.py` and `authentik_server_info.py`, provider and requirer, with the handler's steps that call
them. The two do the same, so `lib` says which it is: only the cluster credential changes (the database's), and
only its requirer observes `secret-changed`. A credential is a version number.

| State | Code |
|---|---|
| `source` | the credential as the charm computes it |
| `secret`, `granted` | the labelled Juju secret, its latest content (and the newest it ever had), and who may read it |
| `bag[r]` | the databag: the secret's id, and the data beside it |
| `requirer[r]` | the related application: the secret it has read, the revision it tracks, what it works with |
| `life[r]`, `heard[r]` | the relation, and the units whose `relation-broken` has run |
| `hook[u]` | what the hook started with (`src`, `rels`) and what it will write (`op`, `id`, `set`) |
| `disturbed` | history: a leader was elected while a hook ran or a relation was going |

`UpdateRelationsAppData` and `OnRelationBroken` decide; `Commit` stores, `CommitRefused` is a hook that may not any more and runs
again; `Nothing` is every way to write nothing, the earlier step that says no among them. The owner reads the secret without
refreshing it, so it compares with any content so far (`Contents`). `RequirerHook` and `OnSecretChanged` are the other end.

### Handler

`HolisticHandler` is one unit and the hook it runs: `_holistic_handler`, `_on_database_relation_broken`, or nothing, each followed by
`_on_collect_status`. Not every event has a handler (`charm.py:152-221`): the `relation-broken` of SMTP, the relation events of
the cluster, logging and Grafana, `upgrade-charm`, a failed check (`charm.py:561-564`) and the actions only report (`StartUnhandled`).

| State | Code |
|---|---|
| `given`, `dying`, `leads` | what Juju has: database, route, cluster relation, secret, configuration; the database is being removed; leadership |
| `layer`, `running`, `reach` | the environment in Pebble's plan and that of the process; Pebble answers |
| `step`, `saw`, `broken`, `created` | the hook: where it is, what it saw when it started, whether it is the removal's, whether it made the secret |
| `short` | history: this hook runs no handler, or a step of it has failed or found no Pebble |
| `planned`, `missed` | history: the environment the last plan that succeeded started the process with; the process was not stopped with its database |
| `status` | active, or anything else |

`Gate` is `NOOP_CONDITIONS` (`Operable`) and the three steps that can say no by what they read (`Admits`); `Rest` the
steps of the other modules, which here succeed or fail; `AddLayer` and `Restart` the two halves of
`PebbleService.plan`, of which only the second's errors are caught; `Stop` the only attempt to stop the process;
`Report` the status and the end of the hook. What the gate writes for the worker and for Traefik is left out.

`_on_collect_status` compares nothing with what runs, so active says more or less depending on the hook: `ActiveMeansCurrent`
says it of a hook that has run the handler without a failure, and of any other as far as the environment it sees has been planned.
A hook that only reports may come before the one that plans a change, and reports active all the same (`ActiveAlwaysCurrent`, below);
for the removal of SMTP no hook of its own plans it, and the old environment stays until `update-status`.

What the model brought out, besides the counterexamples below: the followers start Authentik on less than the leader does (an insecure
route, a database without endpoints: only the leader checks, `charm.py:320-325` and `340-364`); a leader whose database
has no endpoints skips its plan, and the status does not say so; a process that was not stopped because Pebble did not
answer is never stopped later, as the handler is a no-op without a database.

## Runs

| Run | Asks | States |
|---|---|---|
| `OauthCore` | Two units, failures, elections, configuration changes, removal. Do credentials work (`PublishedCredentialsWork`), is work recorded only when done (`RecordedOnlyWhenSynchronized`), tracking kept until deletion (`TrackedUntilDeleted`), the promise kept (`KeepsPromise`), everything provisioned (`ActiveProvisioned`) and collected (`GoneCollected`)? | 248,626 |
| `OauthTwoRelations` | Two relations with any legacy state, perhaps asking for a scope that does not exist, a failure, a failed hook resolved without retry. One provider each (`OneProviderPerRelation`), nothing of an active relation collected while the other is going or fails (`ActiveNeverCollected`), none forgotten (`TrackedUntilDeleted`), and, as no configuration changes, only synchronized ones skipped (`SkippedMeansSynchronized`; `OauthRevert` asks it with changes)? | 350,234 |
| `OauthContested` | Hooks of two leaders overlap, creates are late, a stranger's application has the legacy slug, an administrator deletes or recreates things. Is the stranger's left alone (`ForeignUntouched`, `OnlyOwnHeld`), is what a gone relation leaves collected all the same (`GoneCollected`)? | 380,900 |
| `AuthentikRequest` | Two clients make any calls while requests are refused, lost, answered in vain or carried out late. Do the calls keep the abstract promise (`KeepsPromise`), does a lost POST make no second provider (`NoDuplicates`), is the provider a create returns the one asked for (`CreatedAsAsked`)? | 684,800 |
| `TlsHost` | Bundles change, `update-ca-certificates` fails, hooks are cut anywhere but between the file and the merge, the container restarts, the pod is recreated. Does a present file mean a merged store (`FileMeansMerged`), does the charm's store follow what is published, nothing included, but for a removal whose merge has failed (`HostMerged`), and, unless one of the four known things happens, does the process trust it in the end (`TrustedUnlessHarmed`) and right after a plan (`PlannedMeansTrusted`)? | 47,932 |
| `Credentials` | Two units whose hooks overlap, a failure at any step, an election, a new database or a restarted container. Do consumers hold an accepted token (`PublishedTokenAccepted`), do secret, processes, database and consumers agree in the end (`Converges`)? | 553,386 |
| `SharedSecret` | Either library, two units, two relations made and removed, a new credential; an election, a failed hook or a skipped publication. Can what is published be read (`PublishedReadable`), does no consumer go back (`NeverOlder`), do secret, databags and consumers agree in the end (`Converges`, `ReadableInTheEnd`), does the secret go with the last relation (`RemovedWithLast`)? | 433,467 |
| `Holistic` | A unit of a deployment in any state, two changes of relations or configuration, a failure, an election, a restart; hooks that run the handler and hooks that only report. Does nothing run without a database (`StoppedWithoutDatabase`), does active mean the environment the hook saw, if the handler has planned it (`ActiveMeansCurrent`), does the process get the last one in the end (`Settles`)? | 1,166,126 |
| `OauthRevert`, `OauthLostProvider`, `TlsFailedRemoval`, `CredentialsLost` | Counterexamples, see below. | |

Each property of a passing run is violated by a *mutant* of some definition (the `Mutant...` operators, one
for each bug a change to the code might introduce): a hash recorded early, an entry dropped early, adoption by
slug alone, a store pushed without a restart, a token published without asking, a process started on the existence of a relation. `PROJECT.json` pairs them.

### Bounds

- Relations: one, or two where relations can disturb each other (the order of the loop, collection of one while the other is
  active, names): `OauthTwoRelations`. The code treats them alike and in one loop, so a third adds nothing the second does not.
- Units: two, a leader and its successor. The others only handle their events. `OauthTwoRelations` has one, whose hooks
  fail and are resolved without a retry: its properties need that (see *Further counterexamples*), but for `ActiveNeverCollected`, which is proved for any number of units (`ActiveSafe`).
- `MaxFaults` 2 is enough for a failure while the recovery of the first is going on; each failure may come
  at any call. `MaxEdits` 2: change and revert. `MaxTampers` 2: delete both objects of a relation. `MaxLate` 1: POSTs of one name exclude each other.
- `MaxPk`, `MaxCred`, `MaxKeys` bound what is alive at one time and are never reached in the passing runs: raising them changes no state count.
- `MaxFlow` is how often a flow may be recreated, plus one.
- TLS: two bundles and none, so that change, removal and return are told apart.
- Credentials: one fault, one election, one new database or restart, each at any point.
- Shared secret: two relations, one of which may be made again after its removal or both at once; one new credential, and one
  election, failure or skipped publication at any point. Overlapping hooks of two leaders need no more.
- API client: two clients, as a duplicate or a crossed write needs another's; two keys, the fewest with a duplicate; two payloads, told apart by
  `CreatedAsAsked`; one request under way after its timeout; two attempts of the code's three, so that there is a first, a
  last, and one that is repeated.
- Handler: every initial state of the deployment, so that two edits are enough for a change and its reversal, or for the removal
  of the database during another change; one fault, election and restart, each at any point.

Deadlock is checked in every run. Symmetry is not used: the runs with liveness may not, and the others are small enough.

### Fairness

`FairSpec` of each module assumes only that a running hook goes on (`WF(HookStep)`: every call has a
timeout), that hooks are dispatched (`WF(Dispatch)`, `WF(StartHook)`: `update-status`), and in `OauthReconciler` that Juju gets to every pending
`relation-broken` (`SF(Dispatch(u, r))`: other events may come first but Juju's queue is served in order). In `Credentials` a
process that has been started gets ready and bootstraps its database. In `SharedSecret` the
requirer gets its events too (Juju delivers `relation-changed` and `secret-changed`), and a relation all units have left goes. `AuthentikRequest` states
no fairness: its properties are about what has happened. In `HolisticHandler` a hook that runs the
handler comes for ever (`SF(StartHook)`: `update-status` is due every few minutes, whatever hooks that only report come in between), and a Pebble that does not answer
comes back (Kubernetes restarts its container). No fault, election, edit, or action of an administrator is fair,
and no fault is required to stop: the budgets stop it.

## Where the code and its documentation disagree

Four runs are expected to end in a violation:

- `OauthRevert` (`SkippedMeansSynchronized`), `oauth.py:165`. A PUT with a new configuration succeeds, the hook
  fails, the client reverts: the old hash is still in the cache and matches, so the relation is skipped while the
  provider has the new configuration. `openspec/specs/oauth-relation/spec.md:53` wants the next hook to resume.
- `OauthLostProvider` (`ActiveProvisioned`), `oauth.py:256`. A provider deleted in Authentik leaves its application with a
  null provider; `int(None)` raises before the code that should rediscover it (comment at `oauth.py:260-261`).
- `TlsFailedRemoval` (`BundleTrusted`), `charm.py:475`. If `update-ca-certificates` fails while the last certificate is
  removed, unlinking the file makes the next hook see nothing to do; the comment at `charm.py:474` says it retries.
- `CredentialsLost` (`PasswordKnown`), `charm.py:296`. The hook that generates the secret starts Authentik with it
  before Juju has stored it. If it fails then, the admin user's password is in no secret, and the action that
  "SHALL return the correct" one (`openspec/specs/admin-management/spec.md:11`) returns another.

### Further counterexamples

These are violated too. They are no runs of the project, but can be had by changing a configuration.

| Property | From | Change | What happens |
|---|---|---|---|
| `PublishedCredentialsWork` | `OauthRevert.cfg` | `MaxLate = 1`, `MaxEdits = 0` | a POST is executed late, while the next hook, with credentials of its own, is about to send the same; that one conflicts, and the recovery takes the provider it finds for the one it has just created and skips the PUT: the published credentials are not the provider's |
| `PublishedCredentialsWork` | `OauthContested.cfg` | `LegacyStates = {"none"}`, `MaxLate = 0`, `MaxTampers = 0` | two leaders generate credentials for one relation; one creates, the other updates, the first publishes |
| `OneProviderPerRelation` | `OauthTwoRelations.cfg` | `Units = {u1, u2}`, `Relations = {1}`, `LegacyStates = {"owned"}`, `Confs <- OneConf`, `Unsupported = {}`, `NoRetry = FALSE`, `MaxFaults = 3` | a legacy provider is adopted, but its PUT is refused; the relation goes, its application is deleted, the deletion of the provider is refused, and the hook commits an entry without a slug; a new leader that has not run `relation-broken` still sees the relation, does not trust the entry (`oauth.py:255`), finds neither the application nor the managed name and creates a second provider. The entry then tracks that one only |
| `NothingLeaks` | `OauthRevert.cfg` | `MaxEdits = 0` | a hook fails after its POST and the relation is removed before another hook succeeds: nothing tracks the provider |
| `ActiveProvisioned` | `OauthLostProvider.cfg` | `Relations = {1, 2}`, `Unsupported = {c2}`, `MaxEdits = 0`, `MaxTampers = 0` | a scope that does not exist, asked for by one client, ends the loop before the other |
| `BundleTrusted` | `TlsFailedRemoval.cfg` | `MaxRefusals = 0`, `Cuts = {"merge", "push"}`, `MaxCuts = 1` | the hook dies after the file is written: the next one takes it for installed |
| `BundleTrusted` | `TlsFailedRemoval.cfg` | `MaxRefusals = 0`, `MaxRestarts = 1` | only the workload container restarts: its store is the image's, the charm's file says installed |
| `BundleTrusted` | `TlsFailedRemoval.cfg` | `MaxRefusals = 0`, `Cuts = {"oauth", "plan"}`, `MaxCuts = 1` | the hook pushes the store and ends before its plan: the flag that asks for the restart is gone |
| `HostMerged` | `TlsHost.cfg` | `Cuts = {"merge"}` | the hook dies after the file is written: the charm's store never gets the bundle |
| `PlannedMeansTrusted` | `TlsHost.cfg` | `Cuts = {"merge", "push"}`, `MaxEdits = 3`, `MaxCuts = 2`, `MaxRefusals = 1`, `MaxRestarts = 0`, `MaxChurns = 0` | a hook dies between file and merge, the bundle is reverted, so the file and the charm's store differ though nothing is reported; after a failed merge a removal is taken for done, and a plan finds a process without the bundle |
| `ActiveAlwaysCurrent` | `Holistic.cfg` | `MaxFaults = 0`, `MaxElections = 0`, `MaxRestarts = 0` | "Once the charms settle into an `active` and `idle` status, the Authentik Server is ready to use" (`README.md`), but a hook that runs no handler sees a relation that has changed, plans nothing and reports active with the old process |
| `NoConflictRuns` | `Holistic.cfg` | `Conflicts = {c2}` | "the charm blocks rather than starting a workload that misbehaves" (`src/configs.py:59-60`), but the conflicts only reach the status (`charm.py:598`): the handler plans the configuration all the same |

The history variables say where other properties end. Without `~crossed`, `NoDuplicates` fails when two hooks look for a provider at the same
time, or a POST is carried out after its timeout; `CreatedAsAsked` fails when another client creates or updates the provider between the lost POST
and the recovery. `RequestPromise` allows a PUT that timed out to be carried out after its retry, and even after
another hook's PUT: it restores the old configuration, and the hash says that the relation is synchronized. A late POST of an application
brings it back after the collection. In `SharedSecret`, without `~disturbed`:

- `PublishedReadable` fails when a deposed leader's hook removes or revokes what the new one's has just published, or publishes what is being removed;
- `NeverOlder` and `Converges` fail when the new leader's hook, started before a change, overwrites what the old leader has written after it. The owner
  tracks the newer revision and finds nothing to change, so no later hook repairs it;
- the removal with the last relation fails when leadership changes between the units' `relation-broken` hooks: each unit that runs its hook as a
  follower leaves it to a leader that has already run its own. `openspec/specs/authentik-cluster-lib/spec.md:31-32` makes no such exception;
- a requirer combines new data of the databag with the old revision of the secret until `secret-changed` comes.

Three properties hold only under the assumptions of their runs: `OneProviderPerRelation` fails with two units if there is a
provider to adopt, `TrackedUntilDeleted` with overlap or tampering, `GoneCollected` with `NoRetry` (the failed hook that is skipped was the last to touch the relation).

## Proofs

The proofs hold for every value of the constants that satisfies the named assumptions (`StoreAssumption`,
`ReconcilerAssumption`, `TrustAssumption`, `CredentialsAssumption`, `HandlerAssumption`, `SharedAssumption`, `ObjectsAssumption`, `AttemptsAssumption`), all of them properties of the constants' types except two: a
relation with a legacy provider has an id that serves as its key (`Init` numbers them so), and the names of the stores that hold no bundle
(`"image"`, `"absent"`, `"down"`) are no bundles.

| Theorem | Says | Argument |
|---|---|---|
| `OauthReconcilerProofs!TypeCorrect` | `Spec => []TypeOK` | `TypeOK` includes `HookShape`: which fields of a hook are set by the time of each call. Without it the type of a stored entry, `pk \in Pks`, is not inductive. One lemma per group of actions. |
| `OauthOwnershipProofs!OwnershipKept` | `Spec => []OnlyOwnHeld` | `TypeOK /\ OnlyOwnHeld` is inductive: whatever is kept in order to write to it (cache, hook, late POST) is not a stranger's. A hook may hold a stranger's provider only between finding it and validating its name. |
| `OauthOwnershipProofs!ForeignSafe` | `Spec => []`-step property `ForeignUntouched` | From `OnlyOwnHeld`: every write goes to something held. |
| `OauthOwnershipProofs!ActiveSafe` | `Spec => []`-step property `ActiveNeverCollected` | `Tracked` is inductive: an entry, of the cache or of a hook, leads to a provider with a name of its relation, or to none; a hook has an entry of a relation it does not synchronize only if that relation is departing or gone (`Settled`), which needs the same of the events that are handled, failed or left. What is deleted is then a departing relation's, and a provider has the name of one relation only. |
| `OauthOwnershipProofs!SingleProvider` | `Spec => []OneProviderPerRelation`, if there is one unit and no tampering | `One`: names are unique (`NamesOnce`), and as long as the provider an earlier revision has left is not renamed (`Unadopted`), nothing else has been made for its relation and it can be found: by its application or a trusted entry (`Reachable`), and by the hook that synchronizes the relation, at every step of the discovery (`Adopting`). So nobody gets to create another. |
| `OauthOwnershipProofs!UniqueProvider` | the same for any number of units, overlap and tampering, if there is nothing to adopt | Authentik's names are unique and no provider has a legacy name. |
| `OauthPromiseProofs!TrackingKept` | `Spec => TrackedUntilDeleted`, if `NoOverlap` and `NoTampering` | `Solo /\ Clean` is inductive: only one hook runs and Juju's data is as it found them; an entry it has dropped, in its own copy, has nothing left in Authentik. |
| `OauthPromiseProofs!CredentialsWork` | `Spec => []PublishedCredentialsWork`, if `NoOverlap`, `NoneLate` and `NoTampering` | `PromiseKeeping`, see below. |
| `OauthPromiseProofs!HashesTruthful` | `Spec => RecordedOnlyWhenSynchronized`, likewise | From `PromiseKeeping`: only `Commit` writes a hash, and what the running hook has ready is in Authentik (`HandsOver`). |
| `OauthPromiseProofs!Refinement` | `Spec => KeepsPromise`, likewise | From `PromiseKeeping` and `Tracked`, action by action: the writes to a provider are `Accept`, `Commit` is `HandOut`, deleting a provider is `Withdraw`, the life of a relation `Join` and `Leave`, all else a stutter. |
| `OauthPromiseProofs!PromiseIsKept` | `KeepsPromise => []Promise!PromiseKept` | `PromiseKept` is inductive for the steps of the abstract specification. |
| `OauthPromiseProofs!SkipsRight` | `Spec => []SkippedMeansSynchronized`, if `NoEdits` and `NoTampering` | `Current`: every provider of a relation, and every late one, has its configuration (`Configured`); a hash in Juju or in a hook's copy is that of a provider the relation still has (`Vouched`). Only collection takes one away, and by `Tracked` from no active relation, so that hooks may overlap (`Lasting`). |
| `AuthentikRequestProofs!TypeCorrect`, `Uniqueness`, `Faithful` | `TypeOK`; `NoDuplicates`; `CreatedAsAsked` | `TypeOK /\ Counted /\ NoDuplicates /\ (~crossed => Alone)` is inductive. `Counted`: a client that sends something is at its first attempt at least, so a create, which is given one, is not sent again. `Alone`: until paths have crossed there is at most one caller that creates or is about to; while it is about to, no provider exists, and while it looks for what it created, what exists is what it asked for. |
| `AuthentikRequestProofs!Refinement` | `Spec => KeepsPromise` | With `spent` mapped to "is looking for what it created": every attempt is a `Try`, `Fail` or `Succeed` of the promise. `Counted` keeps a create from being tried twice. |
| `SharedSecretProofs!TypeCorrect` | `TypeOK` | `TypeOK` includes what a hook refers to: relations that exist, and for a removal one that is going. |
| `SharedSecretProofs!Readability`, `Monotonicity` | `PublishedReadable`; the step property `NeverOlder` | Unless `disturbed`, only the leader's hook has decided anything, and what it has decided still fits the secret. Versions are in order, from what is read to what is stored to what the hook holds to the source. |
| `TlsTrustProofs!TypeCorrect`, `FileTruthful` | `TypeOK`; `FileMeansMerged` if `"merge" \notin Cuts` | strengthened with: at `push` too, a present file is a merged one. |
| `TlsTrustProofs!PlanTrusts` | the step property `PlannedMeansTrusted` if `"merge" \notin Cuts` | `PlanInv`: between its steps a hook has installed what it has read as far as it has come (`Installing`); and unless harmed, a file that is present is in the pod's store, and so is its absence if the charm's store has no bundle either (`FileInstalled`, during the merge `AbsentInstalled`), and a process with another store is due for a restart by the hook that runs (`RestartOwed`). |
| `CredentialsProofs!TypeCorrect`, `TokenAccepted` | `TypeOK`; `PublishedTokenAccepted` | see below. |
| `HolisticHandlerProofs!TypeCorrect`, `NothingRunsWithoutDatabase` | `TypeOK`; `StoppedWithoutDatabase` | A hook that may start the process has seen a database, which is still there (`SeenStays`): the only hook that could take it away is another one, and hooks of a unit do not overlap. The hook that takes it away has stopped the process and is past all that could start it (`RemovalStops`). |
| `HolisticHandlerProofs!ActiveIsCurrent` | the step property `ActiveMeansCurrent` | `StatusInv` adds: a hook that comes to its report with the handler run and no step failed has planned the environment it saw, and the process runs that or is down (`ReportedCurrent`); and from one plan that succeeds to the next, layer and process have what it planned or nothing (`PlannedRuns`), whatever only reports in between. |

`TokenAccepted` needs the most. A published token could be rejected later if another hook reset it, or if a database were
bootstrapped from a process with another key. `Inv` says why neither happens. Only the leader's hook creates, resets
or holds an accepting answer (`LeadersOnly`, which is where `~deposed` comes in: the property and the invariant say nothing once a leader has been replaced during its hook). A hook's key is the stored one, unless
nothing is stored and it is its own (`KeysKnown`). Call the database *settled* on a key if it accepts that key's token, or if it is
empty and no process runs with another key, so that it can only be bootstrapped with that one. Then a hook with an accepting answer has a key the database is settled on
(`VouchedSettled`), and what has been published is the stored key and the database is settled on it (`SharedSettled`).

`CredentialsWork` is about the order of writes to three places: Authentik, the hook's own copy, and Juju, which gets that copy only
if the hook succeeds. Published credentials are read back at the start of the next hook and never replaced, so the invariant `PromiseKeeping` ties each provider to
the credentials *in Juju*, if any were published: all of a relation's providers have them, and while it is active its applications
reference one (`Working`). What has not been published binds nobody, so a hook cut short may leave a provider with credentials that
are lost; the next one generates others and its PUT makes up for it. Of a running hook, `PromiseKeeping` says that

- new credentials and hashes in its copy are those of relations it is done with, and in Authentik already (`HandsOver`);
- the credentials it works with are the published ones, if any (`SameCreds`);
- what it is about to call is still warranted (`UnderWay`): the name it will create is free, and what a POST has created or a PUT
  has left, before the application refers to it, is what was asked for.

Names have to be unique (`NamesOnce`), or a second provider would keep the old credentials, and a provider that an earlier
revision has left belongs to a relation with published ones (`LegacyPublished`). For the step that deletes, `Tracked` says that what is
deleted is a departing relation's.

Hypotheses. None of them is about sizes; each excludes an event the code does not survive, and is needed:

- `NoOverlap`: a deposed leader's hook ends before the next leader starts one (`~Overlap`), or there is one unit. With two
  leaders at once, `PublishedCredentialsWork` and `TrackedUntilDeleted` fail;
- `NoneLate` (`MaxLate = 0`): no POST is carried out after its client has given up and gone on. With one, `PublishedCredentialsWork` fails;
- `NoTampering` (`MaxTampers = 0`): nobody but the charm deletes or recreates its objects. Who deletes a provider makes the published credentials useless;
- `NoEdits` (`MaxEdits = 0`): no requirer changes its configuration while it is related. Who changes it and changes it back meets
  `OauthRevert`. In return `SkipsRight` needs neither `NoOverlap` nor `NoneLate`: concurrent hooks write the same configuration
  (TLC agrees for two units, `Overlap`, one late create and two faults: 590,164 states);
- `"merge" \notin Cuts`: no hook is cut short between writing the CA file and merging it. With that, both properties fail.

How they fail is in *Further counterexamples*. Everything else is left free: any number of units, relations and configurations, faults at any call,
elections between hooks, edits but for `SkipsRight`, legacy state, scopes that do not exist, failed hooks resolved with or without a retry.

Only model-checked: liveness (`ActiveProvisioned`, `GoneCollected`, `TrustedUnlessHarmed`, `HostMerged`, `Converges`, `ReadableInTheEnd`, `RemovedWithLast`, `Settles`),
which is out of the prover's reach. Every invariant and every action property of a passing run is proved, and so are both refinements. `OauthPromise`
holds no proof itself: what it implies is proved of its instance in `OauthProperties`.

## What is not modelled

- Of the client: pagination (a listing is taken to fit the page bound), the kinds of errors beyond those the callers tell apart, and calls
  that only read, but for the lookups that decide about a write.
- Of the handler: what it writes to the Traefik relation, which is a function of the model's names.
- Pure mappings: configuration, environment variables, constants, URLs and the CLI's other commands.
- Actions and health diagnostics: they read and report.
- Vendored libraries: `lib/charms` but `authentik_server`. They are copies from other projects, which develop and test them, and
  the models take from them what the charm reads and writes through them: that a database has been made, a
  bundle published, a route is ready. They are 16,901 of the 20,417 lines of Python outside the tests. Of the charm's own 3,516 lines, docstrings and
  imports included, the map covers 45 %.
- Terraform, tests and documentation.
- Time: a timeout is a lost call, a lease a nondeterministic election.
