---------------------------- MODULE OauthProperties ----------------------------
(***************************************************************************)
(* What makes the OAuth reconciler correct.  Quotations are from            *)
(* src/openspec/specs/oauth-relation/spec.md and                            *)
(* src/openspec/specs/authentik-api-resilience/spec.md.                     *)
(***************************************************************************)
EXTENDS OauthReconciler

Stored == [cache : [Relations -> Entries \cup {NoEntry}],
           flow : [FlowKeys -> FlowUuids \cup {NoFlow}],
           bag : [Relations -> Bags]]

Positions == Calls \cup {"idle", "next", "gc", "commit"}

HookTypes ==
  [pc : Positions,
   event : Events, active : SUBSET Relations, todo : SUBSET Relations,
   cur : Relations \cup {0},
   seen : Stored,
   cache : [Relations -> Entries \cup {NoEntry}],
   flow : [FlowKeys -> FlowUuids \cup {NoFlow}],
   bag : [Relations -> Bags],
   conf : [Relations -> Confs \cup {NoConf}],
   mapped : BOOLEAN, creds : Creds \cup {NoCred}, slug : Kinds \cup {"none"},
   pk : Pks \cup {NoPk}, app : BOOLEAN, made : BOOLEAN, lost : BOOLEAN]

\* What a hook has at hand by the time it makes a call: the relation it works
\* on, its configuration and credentials, resolved flows, a provider key.
HookShape(h) ==
  /\ h.pc \in SyncCalls =>
       /\ h.cur \in Relations /\ h.conf[h.cur] \in Confs
       /\ h.creds \in Creds /\ h.slug \in Kinds
  /\ h.pc \in SyncCalls \cup {"next"} => h.flow \in [FlowKeys -> FlowUuids]
  /\ h.pc \in {"cachedApp", "cachedProv", "validate", "update", "createApp", "updateApp",
               "gcApp", "gcProv"} => h.pk \in Pks
  /\ h.pc \in {"gcApp", "gcProv"} =>
       h.cur \in Relations /\ h.cache[h.cur] \in Entries
  /\ h.pc = "gcApp" => h.cache[h.cur].slug \in Kinds

\* Every variable has a value the code can give it, and no call is made before
\* its arguments are known.
TypeOK ==
  /\ provs \in [Pks -> Providers \cup {NoProvider}]
  /\ apps \in [Slugs -> AppStates]
  /\ flows \in [FlowKeys -> FlowUuids]
  /\ late \subseteq Providers
  /\ cache \in [Relations -> Entries \cup {NoEntry}]
  /\ flowCache \in [FlowKeys -> FlowUuids \cup {NoFlow}]
  /\ bag \in [Relations -> Bags]
  /\ conf \in [Relations -> Confs \cup {NoConf}]
  /\ rel \in [Relations -> {"none", "active", "dying", "gone"}]
  /\ left \in [Units -> SUBSET Relations]
  /\ leader \in Units
  /\ failed \in [Units -> SUBSET Events]
  /\ hook \in [Units -> HookTypes]
  /\ \A u \in Units : HookShape(hook[u])
  /\ faults \in Nat /\ edits \in Nat /\ tampers \in Nat

NamesOf(r) == {ManagedName(r), LegacyName(r)}
ProvidersOf(r) == {p \in Pks : provs[p].name \in NamesOf(r)}

\* "expose client credentials only after those Authentik resources are
\* synchronized": while a relation is active, the credentials in its databag
\* are those of a provider of that relation which an application references.
PublishedCredentialsWork ==
  \A r \in Relations : rel[r] = "active" /\ bag[r].creds # NoCred =>
    \E p \in ProvidersOf(r) :
      /\ provs[p].creds = bag[r].creds
      /\ \E kind \in Kinds : apps[<<kind, r>>] = p

\* However often a create is cut short and taken up again, a relation never
\* owns two providers (with several units, if none is there to be adopted).
OneProviderPerRelation == \A r \in Relations : Cardinality(ProvidersOf(r)) <= 1

\* "record a relation configuration hash only after every required provider
\* and application mutation succeeds": when a hash reaches the peer databag,
\* the provider has that configuration and the application references it.
RecordedOnlyWhenSynchronized ==
  [][\A r \in Relations :
       LET e == cache'[r] IN
       e.hash # cache[r].hash /\ e.hash # NoHash =>
         /\ provs[e.pk] = [name |-> ManagedName(r), creds |-> bag'[r].creds, hash |-> e.hash]
         /\ apps[<<e.slug, r>>] = e.pk]_vars

\* "retain cleanup tracking until both the owned application and provider are
\* confirmed deleted or already absent".
TrackedUntilDeleted ==
  [][\A r \in Relations :
       cache[r] # NoEntry /\ cache'[r] = NoEntry =>
         /\ ~ProviderExists(provs, cache[r].pk)
         /\ cache[r].slug # "none" => apps[<<cache[r].slug, r>>] = AppAbsent]_vars

\* The charm never changes or deletes what it does not own, also when a
\* relation's legacy slug is somebody else's application.
ForeignUntouched ==
  [][tampers' = tampers =>
       \A p \in Pks : provs[p].name = Foreign =>
         /\ provs'[p] = provs[p]
         /\ \A s \in Slugs : apps[s] = p => apps'[s] = p]_vars

\* Why ForeignUntouched holds: whatever the reconciler keeps in order to write
\* to it later (an entry of the cache, the provider and the slug a hook works
\* on, a delayed POST) is not somebody else's.  A hook may hold a provider it has
\* not validated yet, or has rejected.
NotForeign(ps, p) == p \in Pks => ps[p].name # Foreign

OwnEntry(ps, as, r, e) ==
  /\ NotForeign(ps, e.pk)
  /\ e.slug # "none" => NotForeign(ps, as[<<e.slug, r>>])

OwnHook(ps, as, h) ==
  /\ \A r \in Relations : OwnEntry(ps, as, r, h.cache[r])
  /\ h.pc \notin {"validate", "commit"} => NotForeign(ps, h.pk)
  /\ h.pc \in SyncCalls \ {"validate"} => NotForeign(ps, as[SlugOf(h)])
  /\ h.pc = "validate" => as[SlugOf(h)] = h.pk \/ NotForeign(ps, as[SlugOf(h)])

OnlyOwnHeld ==
  /\ \A q \in late : q.name # Foreign
  /\ \A r \in Relations : NotForeign(provs, apps[ManagedName(r)])
  /\ \A r \in Relations : OwnEntry(provs, apps, r, cache[r])
  /\ \A u \in Units : OwnHook(provs, apps, hook[u])

\* Whatever relations come and go, and whichever unit leads, what an active
\* relation has been given in Authentik is not collected.
ActiveNeverCollected ==
  [][tampers' = tampers =>
       \A r \in Relations : rel[r] = "active" =>
         /\ \A p \in ProvidersOf(r) : ProviderExists(provs', p)
         /\ \A k \in Kinds : apps[<<k, r>>] # AppAbsent => apps'[<<k, r>>] # AppAbsent]_vars

\* A configuration the charm takes for synchronized, and will skip from now
\* on, is the one the provider has.
SkippedMeansSynchronized ==
  \A r \in Relations :
    LET e == cache[r] IN
    /\ rel[r] = "active" /\ \A u \in Units : ~Busy(u)
    /\ e.hash.conf = conf[r] /\ e.hash.flow = flowCache /\ e.hash # NoHash
    => provs[e.pk].hash = e.hash

\* "never leave duplicate or orphaned resources": once a relation is gone,
\* whatever it still has in Authentik is tracked for collection.
NothingLeaks ==
  \A r \in Relations : rel[r] = "gone" =>
    \A p \in ProvidersOf(r) : cache[r].pk = p \/ \E u \in Units : hook[u].cache[r].pk = p

Provisioned(r) == cache[r].hash.conf = conf[r] /\ cache[r].pk # NoPk

\* Every active relation with a configuration is provisioned in the end.
ActiveProvisioned ==
  \A r \in Relations :
    rel[r] = "active" /\ conf[r] \in Confs \ Unsupported
      ~> rel[r] # "active" \/ conf[r] \notin Confs \ Unsupported \/ Provisioned(r)

\* What is tracked of a relation that is gone is collected in the end, also if
\* the collection is cut short or the provider deleted by somebody else.
GoneCollected ==
  \A r \in Relations : rel[r] = "gone" /\ cache[r] # NoEntry ~> cache[r] = NoEntry

\* The reconciler keeps the promise made to clients: Authentik accepts for a
\* relation the credentials of its providers, and a relation being removed is
\* no member any more.
Promise == INSTANCE OauthPromise WITH
  Clients <- Relations, Credentials <- Creds, Nothing <- NoCred,
  accepts <- [r \in Relations |-> {provs[p].creds : p \in ProvidersOf(r)}],
  given   <- [r \in Relations |-> bag[r].creds],
  member  <- {r \in Relations : rel[r] = "active"}

\* Every step of the reconciler is a step the promise allows.
KeepsPromise == Promise!PromiseSpec
===============================================================================
