--------------------------- MODULE OauthReconciler ---------------------------
(***************************************************************************)
(* src/src/oauth.py: the leader unit reconciles the oauth relations with    *)
(* providers and applications in Authentik, one REST call at a time.        *)
(*                                                                         *)
(* Two worlds with different rules meet here.  What a hook writes to Juju   *)
(* (the peer cache, the relation databags) is kept in the hook until it     *)
(* ends and reaches Juju only if it succeeds.  What a hook does to          *)
(* Authentik is done when the call returns, whatever becomes of the hook.   *)
(*                                                                         *)
(* A hook is a record with a program counter naming the next REST call.     *)
(***************************************************************************)
EXTENDS AuthentikStore, FiniteSets

CONSTANTS
  Units,        \* the units of the application
  Unsupported,  \* configurations asking for a scope Authentik has no mapping of
  Overlap,      \* may the hook of a deposed leader overlap the new leader's?
  NoRetry,      \* may an operator resolve a failed hook without a retry?
  MaxLate,      \* bound on create requests delayed past their timeout
  MaxFaults,    \* bound on failing calls, crashed hooks, leader changes
  MaxEdits,     \* bound on changes a requirer makes to its configuration
  MaxTampers,   \* bound on changes an administrator makes in Authentik
  LegacyStates  \* what an earlier revision may have left behind for a relation

ASSUME ReconcilerAssumption ==
  /\ Units # {}
  /\ Unsupported \subseteq Confs
  /\ Overlap \in BOOLEAN /\ NoRetry \in BOOLEAN
  /\ LegacyStates \subseteq {"none", "owned", "foreign"}
  /\ LegacyStates \subseteq {"none"} \/ (Relations \subseteq Pks /\ Relations \subseteq Creds)
  /\ MaxLate \in Nat /\ MaxFaults \in Nat /\ MaxEdits \in Nat /\ MaxTampers \in Nat

VARIABLES
  provs,      \* Authentik: its providers, by primary key
  apps,       \* Authentik: its applications, by slug
  flows,      \* Authentik: the UUIDs of the two default flows
  late,       \* provider POSTs the client gave up on, still to be executed
  cache,      \* Juju: oauth_sync_cache in the peer app databag
  flowCache,  \* Juju: the cached flow UUIDs in the peer app databag
  bag,        \* Juju: what the provider side of each relation has published
  conf,       \* Juju: what the requirer side of each relation has published
  rel,        \* Juju: life cycle of each relation
  left,       \* Juju: the relations each unit has run relation-broken for
  leader,     \* Juju: the leader unit
  failed,     \* Juju: the event a unit in error state has to run again
  hook,       \* the hook each unit is running
  faults, edits, tampers   \* budgets spent on faults, edits and tampering

authentik == <<provs, apps, flows, late>>
stored    == <<cache, flowCache, bag>>
model     == <<conf, rel, left, leader>>
budgets   == <<faults, edits, tampers>>
vars      == <<authentik, stored, model, failed, hook, budgets>>

\* An entry of oauth_sync_cache; NoEntry is a missing key.  An entry has no slug
\* once its application is deleted, and no hash while its work is incomplete.
NoEntry == [pk |-> NoPk, slug |-> "none", hash |-> NoHash]
Entries == [pk : Pks, slug : Kinds \cup {"none"}, hash : Hashes \cup {NoHash}]

\* The provider side's databag: credentials and the slug its endpoints name.
EmptyBag == [creds |-> NoCred, slug |-> "none"]
Bags     == [creds : Creds \cup {NoCred}, slug : Kinds \cup {"none"}]

\* A hook is dispatched for relation-broken of a relation, or for any other
\* event (all of them reconcile in the same way).
Ordinary == 0
Events   == Relations \cup {Ordinary}

\* What the hook read from Juju when it started.
NothingStored ==
  [cache |-> [r \in Relations |-> NoEntry],
   flow  |-> [k \in FlowKeys |-> NoFlow],
   bag   |-> [r \in Relations |-> EmptyBag]]

IdleHook ==
  [pc |-> "idle", event |-> Ordinary, active |-> {}, todo |-> {}, cur |-> 0,
   seen |-> NothingStored,
   cache |-> NothingStored.cache, flow |-> NothingStored.flow, bag |-> NothingStored.bag,
   conf |-> [r \in Relations |-> NoConf],
   mapped |-> FALSE, creds |-> NoCred, slug |-> "none", pk |-> NoPk,
   app |-> FALSE, made |-> FALSE, lost |-> FALSE]

At(u, pc) == hook[u].pc = pc
Busy(u)   == ~At(u, "idle")

\* Unit u goes on with hook record h.
Continue(u, h) == hook' = [hook EXCEPT ![u] = h]

------------------------------------------------------------------------------
(* Fresh values.  token_urlsafe never repeats and Authentik never reuses a   *)
(* key, so a new value differs from every value anybody still holds.         *)

CredsInUse ==
  {provs[p].creds : p \in Pks} \cup {bag[r].creds : r \in Relations}
    \cup {q.creds : q \in late}
    \cup {hook[u].creds : u \in Units}
    \cup {hook[u].bag[r].creds : u \in Units, r \in Relations}

PksInUse ==
  {p \in Pks : ProviderExists(provs, p)} \cup {apps[s] : s \in Slugs}
    \cup {cache[r].pk : r \in Relations} \cup {hook[u].pk : u \in Units}
    \cup {hook[u].cache[r].pk : u \in Units, r \in Relations}

\* Any unused value will do; taking the least keeps TLC's choice unique.
Least(x, S) == x \in S /\ \A y \in S : x <= y
FreshCred(c) == Least(c, Creds \ CredsInUse)
FreshPk(p)   == Least(p, Pks \ PksInUse)

------------------------------------------------------------------------------
(* How a hook ends.                                                          *)

\* The hook fails: Juju drops what it wrote and runs it again later.
HookFailed(u) ==
  /\ Continue(u, IdleHook)
  /\ failed' = [failed EXCEPT ![u] = {hook[u].event}]
  /\ UNCHANGED <<stored, model>>

\* An AuthentikAPIError other than a transient one is caught by the holistic
\* handler: the hook goes on to succeed with what it has written so far.
Caught(u) == Continue(u, [hook[u] EXCEPT !.pc = "commit"])

\* The same for a validation or not-found error, on which reconcile() first
\* drops the cached flows.
CaughtStaleFlow(u) ==
  Continue(u, [hook[u] EXCEPT !.pc = "commit", !.flow = IdleHook.flow])

\* Every unit has left a departing relation: Juju destroys it.
AfterLeaving(r, newLeft) ==
  IF \A v \in Units : r \in newLeft[v]
  THEN [rel EXCEPT ![r] = "gone"]
  ELSE rel

FinishEvent(u) ==
  LET e == hook[u].event IN
  /\ failed' = [failed EXCEPT ![u] = {}]
  /\ IF e = Ordinary
     THEN UNCHANGED <<left, rel>>
     ELSE /\ left' = [left EXCEPT ![u] = @ \cup {e}]
          /\ rel' = AfterLeaving(e, left')

Wrote(h) == h.seen # [cache |-> h.cache, flow |-> h.flow, bag |-> h.bag]

\* The hook succeeds and Juju stores its writes; a unit that has lost
\* leadership may not write application data, so its hook fails instead.
Commit(u) ==
  LET h == hook[u] IN
  /\ At(u, "commit")
  /\ IF Wrote(h) /\ u # leader
     THEN HookFailed(u)
     ELSE /\ FinishEvent(u)
          /\ Continue(u, IdleHook)
          /\ cache' = IF h.cache # h.seen.cache THEN h.cache ELSE cache
          /\ flowCache' = IF h.flow # h.seen.flow THEN h.flow ELSE flowCache
          /\ bag' = [r \in Relations |->
                       IF h.bag[r] # h.seen.bag[r] THEN h.bag[r] ELSE bag[r]]
          /\ UNCHANGED <<conf, leader>>
  /\ UNCHANGED <<authentik, budgets>>

\* A call fails transiently past its retries, the client secret cannot be
\* read, or the charm container dies: at any point of a hook.  A call whose
\* effect took place and whose answer was lost is its success, then this.
HookFails(u) ==
  /\ Busy(u) /\ faults < MaxFaults
  /\ faults' = faults + 1
  /\ HookFailed(u)
  /\ UNCHANGED <<authentik, edits, tampers>>

\* The REST calls, by the program counter they are made at.
SyncCalls == {"mappings", "cachedApp", "cachedProv", "managedApp", "validate",
              "legacyApp", "find", "create", "recover", "update", "createApp", "updateApp"}
Calls == SyncCalls \cup {"flow", "gcApp", "gcProv"}

\* A call is refused for good: 401, 403, or a request found invalid (400).
CallRefused(u) ==
  /\ \E pc \in Calls : At(u, pc)
  /\ At(u, "mappings") => ~hook[u].mapped
  /\ faults < MaxFaults
  /\ faults' = faults + 1
  /\ \/ Caught(u)
     \/ /\ \E pc \in SyncCalls : At(u, pc)
        /\ CaughtStaleFlow(u)
  /\ UNCHANGED <<authentik, stored, model, failed, edits, tampers>>

\* Steps of a hook that touch neither Authentik nor Juju.
Local == UNCHANGED <<authentik, stored, model, failed, budgets>>

------------------------------------------------------------------------------
(* reconcile(): which relations are active, and the flow UUIDs.              *)

\* Juju no longer lists a relation once its relation-broken hook runs.
ActiveFor(u, e) == {r \in Relations : rel[r] \in {"active", "dying"}
                                        /\ r \notin left[u] /\ r # e}

MayDispatch(u, e) ==
  /\ ~Busy(u)
  /\ failed[u] \in {{}, {e}}
  /\ e \in Relations => rel[e] = "dying" /\ e \notin left[u]

NeedsFlow(f) == \E k \in FlowKeys : f[k] = NoFlow

StartHook(u, e) ==
  /\ MayDispatch(u, e)
  /\ u = leader
  /\ Overlap \/ \A v \in Units : ~Busy(v)
  /\ LET active == ActiveFor(u, e) IN
     Continue(u, [IdleHook EXCEPT
       !.pc = IF active = {} THEN "gc"
              ELSE IF NeedsFlow(flowCache) THEN "flow" ELSE "next",
       !.event = e, !.active = active, !.todo = active,
       !.seen = [cache |-> cache, flow |-> flowCache, bag |-> bag],
       !.cache = cache, !.flow = flowCache, !.bag = bag, !.conf = conf])
  /\ Local

\* A hook that handles its event and does not reconcile.
HandleEvent(u, e) ==
  /\ MayDispatch(u, e)
  /\ e \in Relations \/ failed[u] # {}
  /\ failed' = [failed EXCEPT ![u] = {}]
  /\ left' = IF e = Ordinary THEN left ELSE [left EXCEPT ![u] = @ \cup {e}]
  /\ rel' = IF e = Ordinary THEN rel ELSE AfterLeaving(e, left')
  /\ UNCHANGED <<authentik, stored, conf, leader, hook, edits, tampers>>

\* A unit that is not the leader leaves oauth alone.
FollowerHook(u, e) == u # leader /\ HandleEvent(u, e) /\ UNCHANGED faults

\* So does the leader while the workload or its API is not available, or an
\* earlier step of the holistic handler holds the hook up.
SkippedHook(u, e) ==
  /\ u = leader /\ faults < MaxFaults
  /\ faults' = faults + 1
  /\ HandleEvent(u, e)

ResolveFlow(u) ==
  /\ At(u, "flow")
  /\ LET h == hook[u]
         k == IF h.flow["auth"] = NoFlow THEN "auth" ELSE "inval"
         f == [h.flow EXCEPT ![k] = flows[k]]
     IN Continue(u, [h EXCEPT !.flow = f, !.pc = IF NeedsFlow(f) THEN "flow" ELSE "next"])
  /\ Local

------------------------------------------------------------------------------
(* _sync_relation(), up to the first REST call.                              *)

HashOf(h, r) == [conf |-> h.conf[r], flow |-> h.flow]

CachedSlug(h, r) == IF h.cache[r].slug # "none" THEN h.cache[r].slug ELSE "managed"

Published(h, r) == [h EXCEPT !.bag[r].slug = CachedSlug(h, r)]

\* A partial entry taken for a finished one.
MutantPartialIsSynced(h, r) == h.cache[r].pk # NoPk /\ h.cache[r].slug # "none"

AlreadySynced(h, r) ==
  /\ h.cache[r].hash = HashOf(h, r)
  /\ h.cache[r].pk # NoPk
  /\ h.cache[r].slug # "none"

TakesTurn(u, r) == At(u, "next") /\ Least(r, hook[u].todo)

\* Nothing to do: no valid client configuration, or one synchronized before.
SkipRelation(u) ==
  \E r \in Relations :
    LET h == Published(hook[u], r) IN
    /\ TakesTurn(u, r)
    /\ h.conf[r] = NoConf \/ AlreadySynced(h, r)
    /\ Continue(u, [h EXCEPT !.todo = @ \ {r}])
    /\ Local

\* _get_or_generate_credentials: those in the databag, else new ones.
MutantAlwaysGenerate(h, r) == FALSE
HasCredentials(h, r) == h.bag[r].creds # NoCred

BeginRelation(u) ==
  \E r \in Relations :
    LET h == Published(hook[u], r)
        begun == [h EXCEPT !.pc = "mappings", !.cur = r, !.pk = h.cache[r].pk,
                           !.slug = CachedSlug(h, r)]
    IN
    /\ TakesTurn(u, r)
    /\ h.conf[r] # NoConf /\ ~AlreadySynced(h, r)
    /\ IF HasCredentials(h, r)
       THEN Continue(u, [begun EXCEPT !.creds = h.bag[r].creds])
       ELSE \E c \in Creds : FreshCred(c) /\ Continue(u, [begun EXCEPT !.creds = c])
    /\ Local

ToGarbage(u) ==
  /\ At(u, "next") /\ hook[u].todo = {}
  /\ Continue(u, [hook[u] EXCEPT !.pc = "gc"])
  /\ Local

\* get_property_mappings, fetched once per hook.
ResolveMappings(u) ==
  LET h == hook[u]
      trusted == h.pk # NoPk /\ h.cache[h.cur].slug # "none"
  IN
  /\ At(u, "mappings")
  /\ IF h.conf[h.cur] \in Unsupported
     THEN CaughtStaleFlow(u)
     ELSE Continue(u, [h EXCEPT !.mapped = TRUE,
                                !.pc = IF trusted THEN "cachedApp" ELSE "managedApp"])
  /\ Local

------------------------------------------------------------------------------
(* _sync_authentik_objects(): discovery.                                     *)

Cur(u)    == hook[u].cur
SlugOf(h) == <<h.slug, h.cur>>
ManagedName(r) == <<"managed", r>>
LegacyName(r)  == <<"legacy", r>>

\* The hash recorded too early.
MutantPersistedAsDone(h) ==
  [h EXCEPT !.cache[h.cur] = [pk |-> h.pk, slug |-> h.slug, hash |-> HashOf(h, h.cur)]]

\* _persist_partial_state: no config_hash, so incomplete work.
Persisted(h) ==
  [h EXCEPT !.cache[h.cur] = [pk |-> h.pk, slug |-> h.slug, hash |-> NoHash]]

\* GET the cached application.  int(None) is a TypeError, which fails the hook.
GetCachedApplication(u) ==
  LET h == hook[u]
      a == apps[SlugOf(h)]
  IN
  /\ At(u, "cachedApp")
  /\ \/ /\ a \in {AppAbsent, h.pk}
        /\ Continue(u, [h EXCEPT !.app = (a # AppAbsent), !.pc = "cachedProv"])
        /\ Local
     \/ /\ a \in Pks \ {h.pk}
        /\ Caught(u)
        /\ Local
     \/ /\ a = NoPk
        /\ HookFailed(u)
        /\ UNCHANGED <<authentik, budgets>>

\* GET the cached provider; if it is gone, drop the entry and rediscover.
GetCachedProvider(u) ==
  LET h == hook[u] IN
  /\ At(u, "cachedProv")
  /\ IF ProviderExists(provs, h.pk)
     THEN Continue(u, [h EXCEPT !.pc = "update"])
     ELSE Continue(u, [h EXCEPT !.cache[h.cur] = NoEntry, !.pc = "managedApp",
                                !.pk = NoPk, !.slug = "managed", !.app = FALSE])
  /\ Local

\* GET the application of the managed, then of the legacy slug.
GetApplication(u, pc, kind, otherwise) ==
  LET h == hook[u]
      a == apps[<<kind, h.cur>>]
  IN
  /\ At(u, pc)
  /\ \/ a = AppAbsent /\ Continue(u, [h EXCEPT !.pc = otherwise, !.slug = "managed"])
     \/ a = NoPk /\ Caught(u)
     \/ a \in Pks /\ Continue(u, [h EXCEPT !.pc = "validate", !.slug = kind, !.pk = a])
  /\ Local

MutantSkipLegacy(u) == GetApplication(u, "managedApp", "managed", "find")
GetManagedApplication(u) == GetApplication(u, "managedApp", "managed", "legacyApp")
GetLegacyApplication(u)  == GetApplication(u, "legacyApp", "legacy", "find")

\* Adoption without looking at the provider's name.
MutantAnyName(h) == Names

\* The names under which a provider may be adopted through an application.
ExpectedNames(h) ==
  {ManagedName(h.cur)} \cup (IF h.slug = "legacy" THEN {LegacyName(h.cur)} ELSE {})

ValidateProvider(u) ==
  LET h == hook[u] IN
  /\ At(u, "validate")
  /\ IF ProviderExists(provs, h.pk) /\ provs[h.pk].name \in ExpectedNames(h)
     THEN Continue(u, Persisted([h EXCEPT !.pc = "update", !.app = TRUE]))
     ELSE Caught(u)
  /\ Local

FindProvider(u) ==
  LET h == hook[u]
      found == PksNamed(provs, ManagedName(h.cur))
  IN
  /\ At(u, "find")
  /\ IF found = {}
     THEN Continue(u, [h EXCEPT !.pc = "create", !.pk = NoPk])
     ELSE \E p \in found : Continue(u, Persisted([h EXCEPT !.pc = "update", !.pk = p]))
  /\ Local

------------------------------------------------------------------------------
(* create_oauth_provider(): one POST, its ambiguous outcomes recovered by    *)
(* looking for the name.                                                     *)

MutantDatabagCreds(h) ==
  [name |-> ManagedName(h.cur), creds |-> h.bag[h.cur].creds, hash |-> HashOf(h, h.cur)]
Request(h) == [name |-> ManagedName(h.cur), creds |-> h.creds, hash |-> HashOf(h, h.cur)]

FlowsCurrent(h) == h.flow = flows

\* The PUT is skipped after the POST, or what is taken for one.
AfterCreate(h, p) == Persisted([h EXCEPT !.pc = "createApp", !.pk = p, !.made = TRUE])

\* Authentik executes the POST.
ProviderCreated(h, p) ==
  /\ FreshPk(p)
  /\ FlowsCurrent(h) /\ NameFree(provs, ManagedName(h.cur))
  /\ provs' = WithProvider(provs, p, Request(h))

CreateProvider(u) ==
  LET h == hook[u] IN
  /\ At(u, "create")
  /\ \E p \in Pks : ProviderCreated(h, p) /\ Continue(u, AfterCreate(h, p))
  /\ UNCHANGED <<apps, flows, late, stored, model, failed, budgets>>

\* A stale flow, or a name just taken, answered with a validation error.
CreateProviderInvalid(u) ==
  LET h == hook[u] IN
  /\ At(u, "create")
  /\ ~FlowsCurrent(h) \/ ~NameFree(provs, ManagedName(h.cur))
  /\ CaughtStaleFlow(u)
  /\ Local

\* A name just taken, answered with 409.
CreateProviderConflict(u) ==
  LET h == hook[u] IN
  /\ At(u, "create")
  /\ FlowsCurrent(h) /\ ~NameFree(provs, ManagedName(h.cur))
  /\ Continue(u, [h EXCEPT !.pc = "recover"])
  /\ Local

\* No answer: the POST was executed, never arrived, or is executed later.
CreateProviderLost(u) ==
  LET h == hook[u] IN
  /\ At(u, "create") /\ faults < MaxFaults
  /\ faults' = faults + 1
  /\ Continue(u, [h EXCEPT !.pc = "recover", !.lost = TRUE])
  /\ \/ UNCHANGED <<provs, late>>
     \/ /\ \E p \in Pks : ProviderCreated(h, p)
        /\ UNCHANGED late
     \/ /\ Cardinality(late) < MaxLate
        /\ late' = late \cup {Request(h)}
        /\ UNCHANGED provs
  /\ UNCHANGED <<apps, flows, stored, model, failed, edits, tampers>>

\* The lookup: found is taken for created, not found raises the first error.
RecoverProvider(u) ==
  LET h == hook[u]
      found == PksNamed(provs, ManagedName(h.cur))
  IN
  /\ At(u, "recover")
  /\ \/ /\ \E p \in found : Continue(u, AfterCreate(h, p))
        /\ Local
     \/ /\ found = {} /\ h.lost
        /\ HookFailed(u)
        /\ UNCHANGED <<authentik, budgets>>
     \/ /\ found = {} /\ ~h.lost
        /\ Caught(u)
        /\ Local

\* Authentik gets to a POST whose client has given up.
LateCreate ==
  \E q \in late :
    /\ late' = late \ {q}
    /\ \/ /\ NameFree(provs, q.name) /\ q.hash.flow = flows
          /\ \E p \in Pks : FreshPk(p) /\ provs' = WithProvider(provs, p, q)
       \/ /\ ~NameFree(provs, q.name) \/ q.hash.flow # flows
          /\ UNCHANGED provs
    /\ UNCHANGED <<apps, flows, stored, model, failed, hook, budgets>>

------------------------------------------------------------------------------
(* The remaining writes of _sync_authentik_objects(), and its success.       *)

\* PUT: a missing provider, a stale flow or a name held by another provider.
UpdateAccepted(h) ==
  /\ ProviderExists(provs, h.pk)
  /\ FlowsCurrent(h)
  /\ PksNamed(provs, ManagedName(h.cur)) \subseteq {h.pk}

UpdateProvider(u) ==
  LET h == hook[u] IN
  /\ At(u, "update")
  /\ \/ /\ UpdateAccepted(h)
        /\ provs' = WithProvider(provs, h.pk, Request(h))
        /\ Continue(u, [h EXCEPT !.pc = IF h.app THEN "updateApp" ELSE "createApp"])
     \/ /\ ~UpdateAccepted(h)
        /\ CaughtStaleFlow(u)
        /\ UNCHANGED provs
  /\ UNCHANGED <<apps, flows, late, stored, model, failed, budgets>>

\* The relation is done: endpoints, credentials and config_hash, in the hook.
Synchronized(h) ==
  [h EXCEPT !.pc = "next", !.todo = @ \ {h.cur}, !.cur = 0,
            !.bag[h.cur] = [creds |-> h.creds, slug |-> h.slug],
            !.cache[h.cur] = [pk |-> h.pk, slug |-> h.slug, hash |-> HashOf(h, h.cur)],
            !.creds = NoCred, !.slug = "none", !.pk = NoPk,
            !.app = FALSE, !.made = FALSE, !.lost = FALSE]

CreateApplication(u) ==
  LET h == hook[u] IN
  /\ At(u, "createApp")
  /\ apps[SlugOf(h)] = AppAbsent /\ ProviderExists(provs, h.pk)
  /\ apps' = WithApp(apps, SlugOf(h), h.pk)
  /\ Continue(u, Synchronized(h))
  /\ UNCHANGED <<provs, flows, late, stored, model, failed, budgets>>

\* The slug is taken, or the provider gone: a validation error.  A taken slug
\* may also be answered with 409, which is a success if the application found
\* references the provider.
CreateApplicationRefused(u) ==
  LET h == hook[u] IN
  /\ At(u, "createApp")
  /\ apps[SlugOf(h)] # AppAbsent \/ ~ProviderExists(provs, h.pk)
  /\ \/ CaughtStaleFlow(u)
     \/ apps[SlugOf(h)] = h.pk /\ Continue(u, Synchronized(h))
     \/ apps[SlugOf(h)] \notin {AppAbsent, h.pk} /\ Caught(u)
  /\ Local

UpdateApplication(u) ==
  LET h == hook[u] IN
  /\ At(u, "updateApp")
  /\ \/ /\ apps[SlugOf(h)] # AppAbsent /\ ProviderExists(provs, h.pk)
        /\ apps' = WithApp(apps, SlugOf(h), h.pk)
        /\ Continue(u, Synchronized(h))
     \/ /\ apps[SlugOf(h)] = AppAbsent \/ ~ProviderExists(provs, h.pk)
        /\ CaughtStaleFlow(u)
        /\ UNCHANGED apps
  /\ UNCHANGED <<provs, flows, late, stored, model, failed, budgets>>

------------------------------------------------------------------------------
(* garbage_collect().                                                        *)

\* Collection against the relations still to be synchronized; and of finished
\* entries only.
MutantOrphansOfTodo(h)   == {r \in Relations : h.cache[r] # NoEntry /\ r \notin h.todo}
MutantFinishedOrphans(h) == {r \in Relations : h.cache[r].hash # NoHash /\ r \notin h.active}

Orphans(h) == {r \in Relations : h.cache[r] # NoEntry /\ r \notin h.active}

CollectNext(u) ==
  LET h == hook[u] IN
  /\ At(u, "gc")
  /\ \/ /\ Orphans(h) = {}
        /\ Continue(u, [h EXCEPT !.pc = "commit"])
     \/ \E r \in Orphans(h) :
          Continue(u, [h EXCEPT !.cur = r, !.pk = h.cache[r].pk,
                                !.pc = IF h.cache[r].slug # "none" THEN "gcApp" ELSE "gcProv"])
  /\ Local

Forgotten(h) == [h EXCEPT !.pc = "gc", !.cache[h.cur] = NoEntry, !.cur = 0, !.pk = NoPk]

\* The entry dropped with the application, the provider still there.
MutantForgetEarly(u) ==
  LET h == hook[u] IN
  /\ At(u, "gcApp")
  /\ apps' = WithoutApp(apps, <<h.cache[h.cur].slug, h.cur>>)
  /\ Continue(u, Forgotten(h))
  /\ UNCHANGED <<provs, flows, late, stored, model, failed, budgets>>

DeleteApplication(u) ==
  LET h == hook[u] IN
  /\ At(u, "gcApp")
  /\ apps' = WithoutApp(apps, <<h.cache[h.cur].slug, h.cur>>)
  /\ Continue(u, [h EXCEPT !.pc = "gcProv", !.cache[h.cur].slug = "none",
                            !.cache[h.cur].hash = NoHash])
  /\ UNCHANGED <<provs, flows, late, stored, model, failed, budgets>>

DeleteProvider(u) ==
  LET h == hook[u] IN
  /\ At(u, "gcProv")
  /\ provs' = WithoutProvider(provs, h.pk)
  /\ apps' = Detach(apps, h.pk)
  /\ Continue(u, Forgotten(h))
  /\ UNCHANGED <<flows, late, stored, model, failed, budgets>>

------------------------------------------------------------------------------
(* The world around the charm.                                               *)

Integrate(r) ==
  /\ rel[r] = "none"
  /\ rel' = [rel EXCEPT ![r] = "active"]
  /\ \E c \in Confs \cup {NoConf} : conf' = [conf EXCEPT ![r] = c]
  /\ UNCHANGED <<authentik, stored, left, leader, failed, hook, budgets>>

ChangeConf(r) ==
  /\ rel[r] = "active" /\ edits < MaxEdits
  /\ \E c \in Confs \ {conf[r]} : conf' = [conf EXCEPT ![r] = c]
  /\ edits' = edits + 1
  /\ UNCHANGED <<authentik, stored, rel, left, leader, failed, hook, faults, tampers>>

RemoveRelation(r) ==
  /\ rel[r] = "active"
  /\ rel' = [rel EXCEPT ![r] = "dying"]
  /\ UNCHANGED <<authentik, stored, conf, left, leader, failed, hook, budgets>>

\* The leader's lease runs out, which may happen while its hook is running.
Elect(u) ==
  /\ u # leader /\ faults < MaxFaults
  /\ leader' = u
  /\ faults' = faults + 1
  /\ UNCHANGED <<authentik, stored, conf, rel, left, failed, hook, edits, tampers>>

\* juju resolved --no-retry: the failed event counts as handled.
ResolveWithoutRetry(u) ==
  /\ NoRetry
  /\ \E e \in failed[u] :
       /\ left' = IF e = Ordinary THEN left ELSE [left EXCEPT ![u] = @ \cup {e}]
       /\ rel' = IF e = Ordinary THEN rel ELSE AfterLeaving(e, left')
  /\ failed' = [failed EXCEPT ![u] = {}]
  /\ UNCHANGED <<authentik, stored, conf, leader, hook, budgets>>

Tamper == tampers < MaxTampers /\ tampers' = tampers + 1

AdminDeletesProvider ==
  /\ Tamper
  /\ \E p \in Pks :
       /\ ProviderExists(provs, p)
       /\ provs' = WithoutProvider(provs, p)
       /\ apps' = Detach(apps, p)
  /\ UNCHANGED <<flows, late, stored, model, failed, hook, faults, edits>>

AdminDeletesApplication ==
  /\ Tamper
  /\ \E s \in Slugs : apps[s] # AppAbsent /\ apps' = WithoutApp(apps, s)
  /\ UNCHANGED <<provs, flows, late, stored, model, failed, hook, faults, edits>>

AdminRecreatesFlow ==
  /\ Tamper
  /\ \E k \in FlowKeys : flows[k] < MaxFlow /\ flows' = [flows EXCEPT ![k] = @ + 1]
  /\ UNCHANGED <<provs, apps, late, stored, model, failed, hook, faults, edits>>

\* The Juju secret holding a client secret is removed (between hooks).
ClientSecretLost(r) ==
  /\ Tamper
  /\ \A u \in Units : ~Busy(u)
  /\ bag[r].creds # NoCred
  /\ bag' = [bag EXCEPT ![r].creds = NoCred]
  /\ UNCHANGED <<authentik, cache, flowCache, model, failed, hook, faults, edits>>

------------------------------------------------------------------------------
(* The specification.                                                        *)

\* Before this revision of the charm, an active relation may have been given a
\* provider and application of the legacy naming; or an application of that
\* slug belongs to somebody else.
Init ==
  /\ \E l \in [Relations -> LegacyStates], c \in [Relations -> Confs] :
       LET old(p) == p \in Relations /\ l[p] # "none"
           firstFlow == [k \in FlowKeys |-> 1]
       IN
       /\ provs = [p \in Pks |->
            IF old(p)
            THEN [name |-> IF l[p] = "owned" THEN LegacyName(p) ELSE Foreign,
                  creds |-> p, hash |-> [conf |-> c[p], flow |-> firstFlow]]
            ELSE NoProvider]
       /\ apps = [s \in Slugs |-> IF s[1] = "legacy" /\ old(s[2]) THEN s[2] ELSE AppAbsent]
       /\ flows = firstFlow
       /\ rel = [r \in Relations |-> IF l[r] = "owned" THEN "active" ELSE "none"]
       /\ conf = [r \in Relations |-> IF l[r] = "owned" THEN c[r] ELSE NoConf]
       /\ bag = [r \in Relations |->
            IF l[r] = "owned" THEN [creds |-> r, slug |-> "legacy"] ELSE EmptyBag]
  /\ late = {}
  /\ cache = [r \in Relations |-> NoEntry]
  /\ flowCache = [k \in FlowKeys |-> NoFlow]
  /\ left = [u \in Units |-> {}]
  /\ leader \in Units
  /\ failed = [u \in Units |-> {}]
  /\ hook = [u \in Units |-> IdleHook]
  /\ faults = 0 /\ edits = 0 /\ tampers = 0

\* The next step of the hook a unit is running, its calls being answered.
Discovery(u) ==
  \/ GetCachedApplication(u) \/ GetCachedProvider(u)
  \/ GetManagedApplication(u) \/ GetLegacyApplication(u)
  \/ ValidateProvider(u) \/ FindProvider(u)

Writes(u) ==
  \/ CreateProvider(u) \/ CreateProviderInvalid(u) \/ CreateProviderConflict(u)
  \/ RecoverProvider(u) \/ UpdateProvider(u)
  \/ CreateApplication(u) \/ CreateApplicationRefused(u) \/ UpdateApplication(u)

Collection(u) == CollectNext(u) \/ DeleteApplication(u) \/ DeleteProvider(u)

HookStep(u) ==
  \/ ResolveFlow(u) \/ SkipRelation(u) \/ BeginRelation(u) \/ ToGarbage(u)
  \/ ResolveMappings(u) \/ Discovery(u) \/ Writes(u) \/ Collection(u) \/ Commit(u)

Faults(u) ==
  \/ HookFails(u) \/ CallRefused(u) \/ CreateProviderLost(u) \/ Elect(u)
  \/ \E e \in Events : SkippedHook(u, e)

Dispatch(u, e) == StartHook(u, e) \/ FollowerHook(u, e)

Environment ==
  \/ LateCreate
  \/ \E r \in Relations : \/ Integrate(r) \/ ChangeConf(r) \/ RemoveRelation(r)
                          \/ ClientSecretLost(r)
  \/ \E u \in Units : ResolveWithoutRetry(u)
  \/ AdminDeletesProvider \/ AdminDeletesApplication \/ AdminRecreatesFlow

Next ==
  \/ \E u \in Units : HookStep(u) \/ Faults(u) \/ \E e \in Events : Dispatch(u, e)
  \/ Environment

Spec == Init /\ [][Next]_vars

\* A hook that runs goes on; update-status keeps dispatching hooks; Juju gets
\* to every event of a unit, so to relation-broken of a departing relation.
Fairness ==
  /\ \A u \in Units : WF_vars(HookStep(u))
  /\ \A u \in Units : WF_vars(\E e \in Events : Dispatch(u, e))
  /\ \A u \in Units, r \in Relations : SF_vars(Dispatch(u, r))

FairSpec == Spec /\ Fairness
===============================================================================
