------------------------ MODULE OauthReconcilerProofs ------------------------
(***************************************************************************)
(* Type correctness of OauthReconciler, for every value of its constants.   *)
(***************************************************************************)
EXTENDS OauthProperties, TLAPS

------------------------------------------------------------------------------
(* Hook records and their updates.                                           *)

WellFormed(h) == h \in HookTypes /\ HookShape(h)

HooksWellFormed == /\ hook \in [Units -> HookTypes]
                   /\ \A u \in Units : HookShape(hook[u])

\* A unit that goes on with a well-formed hook leaves all hooks well-formed.
LEMMA ContinueWellFormed ==
  ASSUME HooksWellFormed, NEW u \in Units, NEW h, WellFormed(h), Continue(u, h)
  PROVE  HooksWellFormed'
<1>1. hook' \in [Units -> HookTypes] BY DEF Continue, HooksWellFormed, WellFormed
<1>2. \A v \in Units : HookShape(hook'[v])
  <2> TAKE v \in Units
  <2>1. CASE v = u BY <2>1 DEF Continue, HooksWellFormed, WellFormed
  <2>2. CASE v # u BY <2>2 DEF Continue, HooksWellFormed
  <2> QED BY <2>1, <2>2
<1> QED BY <1>1, <1>2 DEF HooksWellFormed, HookShape

LEMMA HookWellFormed ==
  ASSUME TypeOK, NEW u \in Units
  PROVE  WellFormed(hook[u])
BY DEF TypeOK, WellFormed

LEMMA IdleWellFormed == WellFormed(IdleHook)
<1>1. IdleHook \in HookTypes
  BY StoreAssumption DEF IdleHook, HookTypes, Positions, NothingStored, Stored, NoEntry,
    EmptyBag, Entries, Bags, Calls, SyncCalls, Events, Ordinary, NoHash
<1>2. HookShape(IdleHook) BY DEF IdleHook, HookShape, SyncCalls
<1> QED BY <1>1, <1>2 DEF WellFormed

\* Positions at which nothing is required of a hook.
LEMMA FreeWellFormed ==
  ASSUME NEW h \in HookTypes, h.pc \in {"idle", "gc", "commit", "flow"}
  PROVE  WellFormed(h)
BY DEF WellFormed, HookShape, SyncCalls

LEMMA FreePositionWellFormed ==
  ASSUME NEW h, WellFormed(h), NEW pc \in {"gc", "commit", "flow"}
  PROVE  WellFormed([h EXCEPT !.pc = pc])
<1> DEFINE g == [h EXCEPT !.pc = pc]
<1>1. g \in HookTypes BY DEF WellFormed, HookTypes, Positions, Calls, SyncCalls
<1>2. g.pc = pc BY DEF WellFormed, HookTypes
<1> QED BY <1>1, <1>2, FreeWellFormed

\* An error that is caught leaves a hook that only has to commit.
LEMMA CaughtWellFormed ==
  ASSUME TypeOK, NEW u \in Units, Caught(u) \/ CaughtStaleFlow(u)
  PROVE  HooksWellFormed'
<1> DEFINE h == hook[u]
           g == [h EXCEPT !.pc = "commit", !.flow = IdleHook.flow]
<1>1. WellFormed(h) BY HookWellFormed
<1>2. CASE Caught(u)
  <2>1. WellFormed([h EXCEPT !.pc = "commit"]) BY <1>1, FreePositionWellFormed
  <2> QED BY <1>2, <2>1, ContinueWellFormed DEF Caught, TypeOK, HooksWellFormed
<1>3. CASE CaughtStaleFlow(u)
  <2>1. IdleHook.flow \in [FlowKeys -> FlowUuids \cup {NoFlow}]
    BY DEF IdleHook, NothingStored
  <2>2. g \in HookTypes
    BY <1>1, <2>1 DEF WellFormed, HookTypes, Positions, Calls, SyncCalls
  <2>3. HookShape(g) BY <1>1 DEF HookShape, SyncCalls, WellFormed, HookTypes
  <2> QED BY <1>3, <2>2, <2>3, ContinueWellFormed DEF CaughtStaleFlow, TypeOK, HooksWellFormed,
        WellFormed
<1> QED BY <1>2, <1>3

\* A hook that fails.
LEMMA HookFailedTypes ==
  ASSUME TypeOK, NEW u \in Units, HookFailed(u)
  PROVE  HooksWellFormed' /\ failed' \in [Units -> SUBSET Events]
<1>1. HooksWellFormed'
  BY IdleWellFormed, ContinueWellFormed DEF HookFailed, TypeOK, HooksWellFormed
<1>2. hook[u].event \in Events BY DEF TypeOK, HookTypes
<1> QED BY <1>1, <1>2 DEF HookFailed, TypeOK

\* Steps that change nothing but a hook.
LEMMA LocalTypes ==
  ASSUME TypeOK, Local, HooksWellFormed'
  PROVE  TypeOK'
BY DEF TypeOK, Local, HooksWellFormed, authentik, stored, model, budgets

LEMMA PublishedTypes ==
  ASSUME NEW h, WellFormed(h), NEW r \in Relations
  PROVE  /\ Published(h, r) \in HookTypes
         /\ CachedSlug(h, r) \in Kinds
         /\ Published(h, r) = [h EXCEPT !.bag = Published(h, r).bag]
<1> DEFINE s == CachedSlug(h, r)
           b == [h.bag EXCEPT ![r].slug = s]
<1>1. s \in Kinds BY DEF CachedSlug, WellFormed, HookTypes, Entries, NoEntry, Kinds
<1>2. b \in [Relations -> Bags]
  <2>1. [h.bag[r] EXCEPT !.slug = s] \in Bags BY <1>1 DEF Bags, HookTypes, WellFormed
  <2> QED BY <2>1 DEF HookTypes, WellFormed
<1>3. Published(h, r) = [h EXCEPT !.bag = b] BY DEF Published
<1> HIDE DEF b, s
<1> QED BY <1>1, <1>2, <1>3 DEF HookTypes, s, WellFormed

LEMMA PersistedTypes ==
  ASSUME NEW h \in HookTypes, h.cur \in Relations, h.pk \in Pks
  PROVE  Persisted(h) \in HookTypes
<1> DEFINE e == [pk |-> h.pk, slug |-> h.slug, hash |-> NoHash]
           c == [h.cache EXCEPT ![h.cur] = e]
<1>1. e \in Entries BY DEF Entries, HookTypes
<1>2. c \in [Relations -> Entries \cup {NoEntry}] BY <1>1 DEF HookTypes
<1>3. Persisted(h) = [h EXCEPT !.cache = c] BY DEF Persisted
<1> HIDE DEF c
<1> QED BY <1>2, <1>3 DEF HookTypes

\* Hashes of a hook that synchronizes a relation are complete.
LEMMA HashType ==
  ASSUME NEW h, WellFormed(h), h.pc \in SyncCalls
  PROVE  HashOf(h, h.cur) \in Hashes /\ Request(h) \in Providers
BY DEF WellFormed, HookShape, HookTypes, HashOf, Hashes, Request, Providers, ManagedName,
   Names, Kinds

------------------------------------------------------------------------------
(* Type correctness, action by action.                                       *)

LEMMA StartHookTypes ==
  ASSUME TypeOK, NEW u \in Units, NEW e \in Events, StartHook(u, e)
  PROVE  TypeOK'
<1> DEFINE active == ActiveFor(u, e)
           start(pc) == [IdleHook EXCEPT
             !.pc = pc,
             !.event = e, !.active = active, !.todo = active,
             !.seen = [cache |-> cache, flow |-> flowCache, bag |-> bag],
             !.cache = cache, !.flow = flowCache, !.bag = bag, !.conf = conf]
<1>1. active \in SUBSET Relations BY DEF ActiveFor
<1>2. [cache |-> cache, flow |-> flowCache, bag |-> bag] \in Stored BY DEF TypeOK, Stored
<1>3. IdleHook \in HookTypes BY IdleWellFormed DEF WellFormed
<1>4. \A pc \in Positions : start(pc) \in HookTypes
  <2> HIDE DEF active
  <2> QED BY ZenonT(60), <1>1, <1>2, <1>3 DEF TypeOK, HookTypes
<1>5. \A pc \in {"gc", "flow"} : WellFormed(start(pc))
  <2> TAKE pc \in {"gc", "flow"}
  <2>1. start(pc) \in HookTypes BY <1>4 DEF Positions, Calls
  <2>2. start(pc).pc = pc BY <1>3 DEF HookTypes
  <2> QED BY <2>1, <2>2, FreeWellFormed
<1>6. ASSUME ~NeedsFlow(flowCache) PROVE WellFormed(start("next"))
  <2>1. flowCache \in [FlowKeys -> FlowUuids] BY <1>6 DEF TypeOK, NeedsFlow
  <2>2. start("next").pc = "next" /\ start("next").flow = flowCache
    BY <1>3 DEF HookTypes
  <2>3. start("next") \in HookTypes BY <1>4 DEF Positions
  <2> HIDE DEF start
  <2> QED BY <2>1, <2>2, <2>3 DEF WellFormed, HookShape, SyncCalls
<1>7. \E pc \in {"gc", "flow", "next"} :
        Continue(u, start(pc)) /\ (pc = "next" => ~NeedsFlow(flowCache))
  <2>1. CASE active = {} BY <2>1 DEF StartHook
  <2>2. CASE active # {} /\ NeedsFlow(flowCache) BY <2>2 DEF StartHook
  <2>3. CASE active # {} /\ ~NeedsFlow(flowCache) BY <2>3 DEF StartHook
  <2> QED BY <2>1, <2>2, <2>3
<1>8. HooksWellFormed'
  <2> HIDE DEF start
  <2> QED BY <1>5, <1>6, <1>7, ContinueWellFormed DEF TypeOK, HooksWellFormed
<1> QED BY <1>8, LocalTypes DEF StartHook

\* The end of a departing relation.
LEMMA LeavingTypes ==
  ASSUME TypeOK, NEW r \in Relations, NEW newLeft
  PROVE  AfterLeaving(r, newLeft) \in [Relations -> {"none", "active", "dying", "gone"}]
BY DEF AfterLeaving, TypeOK

LEMMA HandleEventTypes ==
  ASSUME TypeOK, NEW u \in Units, NEW e \in Events, HandleEvent(u, e), faults' \in Nat
  PROVE  TypeOK'
<1>1. failed' \in [Units -> SUBSET Events] BY DEF HandleEvent, TypeOK
<1>2. left' \in [Units -> SUBSET Relations] BY DEF HandleEvent, TypeOK, Events, Ordinary
<1>3. rel' \in [Relations -> {"none", "active", "dying", "gone"}]
  BY LeavingTypes DEF HandleEvent, Events, TypeOK
<1> QED BY <1>1, <1>2, <1>3 DEF TypeOK, HandleEvent, authentik, stored

LEMMA FollowerHookTypes ==
  ASSUME TypeOK, NEW u \in Units, NEW e \in Events, FollowerHook(u, e)
  PROVE  TypeOK'
<1>1. faults' \in Nat BY DEF FollowerHook, TypeOK
<1> QED BY <1>1, HandleEventTypes DEF FollowerHook

LEMMA SkippedHookTypes ==
  ASSUME TypeOK, NEW u \in Units, NEW e \in Events, SkippedHook(u, e)
  PROVE  TypeOK'
<1>1. faults' \in Nat BY DEF SkippedHook, TypeOK
<1> QED BY <1>1, HandleEventTypes DEF SkippedHook

LEMMA ResolveFlowTypes ==
  ASSUME TypeOK, NEW u \in Units, ResolveFlow(u)
  PROVE  TypeOK'
<1> DEFINE h == hook[u]
           k == IF h.flow["auth"] = NoFlow THEN "auth" ELSE "inval"
           f == [h.flow EXCEPT ![k] = flows[k]]
           next(pc) == [h EXCEPT !.flow = f, !.pc = pc]
<1>1. h \in HookTypes BY HookWellFormed DEF WellFormed
<1>2. f \in [FlowKeys -> FlowUuids \cup {NoFlow}] BY <1>1 DEF TypeOK, HookTypes, FlowKeys
<1>3. \A pc \in Positions : next(pc) \in HookTypes
  <2> HIDE DEF f, h
  <2> QED BY <1>1, <1>2 DEF HookTypes
<1>4. WellFormed(next("flow"))
  <2> HIDE DEF f, h
  <2> QED BY ZenonT(60), <1>1, <1>3 DEF HookTypes, WellFormed, HookShape, Positions, Calls, SyncCalls
<1>5. ASSUME ~NeedsFlow(f) PROVE WellFormed(next("next"))
  <2>1. f \in [FlowKeys -> FlowUuids]
    <3> HIDE DEF f
    <3> QED BY <1>2, <1>5 DEF NeedsFlow
  <2> HIDE DEF f, h
  <2>2. next("next").pc = "next" /\ next("next").flow = f BY <1>1 DEF HookTypes
  <2>3. next("next") \in HookTypes BY <1>3 DEF Positions
  <2> HIDE DEF next
  <2> QED BY <2>1, <2>2, <2>3 DEF WellFormed, HookShape, SyncCalls
<1>6. \E pc \in {"flow", "next"} : Continue(u, next(pc)) /\ (pc = "next" => ~NeedsFlow(f))
  <2>1. CASE NeedsFlow(f) BY <2>1 DEF ResolveFlow
  <2>2. CASE ~NeedsFlow(f) BY <2>2 DEF ResolveFlow
  <2> QED BY <2>1, <2>2
<1>7. HooksWellFormed'
  <2> HIDE DEF next, f
  <2> QED BY <1>4, <1>5, <1>6, ContinueWellFormed DEF TypeOK, HooksWellFormed
<1> QED BY <1>7, LocalTypes DEF ResolveFlow

LEMMA SkipRelationTypes ==
  ASSUME TypeOK, NEW u \in Units, SkipRelation(u)
  PROVE  TypeOK'
<1>1. PICK r \in Relations :
        /\ TakesTurn(u, r)
        /\ Continue(u, [Published(hook[u], r) EXCEPT !.todo = @ \ {r}])
        /\ Local
  BY DEF SkipRelation
<1> DEFINE h == hook[u]
           p == Published(h, r)
           g == [p EXCEPT !.todo = p.todo \ {r}]
<1>2. WellFormed(h) /\ h.pc = "next" BY <1>1, HookWellFormed DEF TakesTurn, At
<1>3. p \in HookTypes /\ p = [h EXCEPT !.bag = p.bag] BY <1>2, PublishedTypes
<1>4. WellFormed(g)
  <2> HIDE DEF p, h
  <2>1. g \in HookTypes BY <1>3 DEF HookTypes
  <2>2. g.pc = "next" /\ g.flow = h.flow BY <1>2, <1>3 DEF HookTypes, WellFormed
  <2> QED BY <1>2, <2>1, <2>2 DEF WellFormed, HookShape, SyncCalls
<1> QED BY <1>1, <1>4, ContinueWellFormed, LocalTypes DEF TypeOK, HooksWellFormed

LEMMA BeginRelationTypes ==
  ASSUME TypeOK, NEW u \in Units, BeginRelation(u)
  PROVE  TypeOK'
<1>1. PICK r \in Relations :
        LET h == Published(hook[u], r)
            begun == [h EXCEPT !.pc = "mappings", !.cur = r, !.pk = h.cache[r].pk,
                               !.slug = CachedSlug(h, r)]
        IN /\ TakesTurn(u, r)
           /\ h.conf[r] # NoConf
           /\ \E c \in Creds : Continue(u, [begun EXCEPT !.creds = c])
           /\ Local
  <2>1. PICK r \in Relations :
          LET h == Published(hook[u], r)
              begun == [h EXCEPT !.pc = "mappings", !.cur = r, !.pk = h.cache[r].pk,
                                 !.slug = CachedSlug(h, r)]
          IN /\ TakesTurn(u, r)
             /\ h.conf[r] # NoConf
             /\ IF HasCredentials(h, r)
                THEN Continue(u, [begun EXCEPT !.creds = h.bag[r].creds])
                ELSE \E c \in Creds : FreshCred(c) /\ Continue(u, [begun EXCEPT !.creds = c])
             /\ Local
    BY DEF BeginRelation
  <2>2. Published(hook[u], r) \in HookTypes BY HookWellFormed, PublishedTypes
  <2>3. HasCredentials(Published(hook[u], r), r)
          => Published(hook[u], r).bag[r].creds \in Creds
    BY <2>2 DEF HasCredentials, HookTypes, Bags
  <2> QED BY <2>1, <2>3
<1> DEFINE h == hook[u]
           p == Published(h, r)
           s == CachedSlug(p, r)
           k == p.cache[r].pk
           begun == [p EXCEPT !.pc = "mappings", !.cur = r, !.pk = k, !.slug = s]
<1>2. WellFormed(h) /\ h.pc = "next" BY <1>1, HookWellFormed DEF TakesTurn, At
<1>3. p \in HookTypes /\ p = [h EXCEPT !.bag = p.bag] BY <1>2, PublishedTypes
<1>4. s \in Kinds BY <1>3 DEF CachedSlug, HookTypes, Entries, NoEntry, Kinds
<1>5. k \in Pks \cup {NoPk} BY <1>3 DEF HookTypes, Entries, NoEntry
<1>6. p.conf[r] \in Confs /\ p.flow = h.flow BY <1>1, <1>2, <1>3 DEF HookTypes, WellFormed
<1>7. PICK c \in Creds : Continue(u, [begun EXCEPT !.creds = c]) BY <1>1
<1>8. WellFormed([begun EXCEPT !.creds = c])
  <2> DEFINE g == [begun EXCEPT !.creds = c]
  <2>0. h.flow \in [FlowKeys -> FlowUuids] BY <1>2 DEF WellFormed, HookShape
  <2> HIDE DEF p, h, s, k
  <2>1. begun \in HookTypes
    BY <1>3, <1>4, <1>5 DEF HookTypes, Positions, Calls, SyncCalls
  <2>2. g \in HookTypes BY <2>1 DEF HookTypes
  <2>3. /\ g.pc = "mappings" /\ g.cur = r /\ g.slug = s /\ g.creds = c
        /\ g.conf = p.conf /\ g.flow = p.flow
    BY <1>3 DEF HookTypes
  <2>4. g.conf[g.cur] \in Confs /\ g.flow \in [FlowKeys -> FlowUuids]
    BY <1>6, <2>0, <2>3
  <2>5. WellFormed(g)
    <3> HIDE DEF g
    <3> QED BY <1>4, <2>2, <2>3, <2>4 DEF WellFormed, HookShape, SyncCalls
  <2> QED BY <2>5
<1>9. HooksWellFormed'
  <2> HIDE DEF begun
  <2> QED BY <1>7, <1>8, ContinueWellFormed DEF TypeOK, HooksWellFormed
<1> QED BY <1>1, <1>9, LocalTypes

LEMMA ToGarbageTypes ==
  ASSUME TypeOK, NEW u \in Units, ToGarbage(u)
  PROVE  TypeOK'
BY HookWellFormed, FreePositionWellFormed, ContinueWellFormed, LocalTypes
   DEF ToGarbage, TypeOK, HooksWellFormed

\* A hook at one call goes on to another, some of its fields set on the way.
LEMMA NextCallWellFormed ==
  ASSUME NEW h, WellFormed(h), h.pc \in SyncCalls, NEW g \in HookTypes,
         g.pc \in SyncCalls,
         g.cur = h.cur, g.conf = h.conf, g.creds = h.creds, g.flow = h.flow,
         g.slug \in Kinds,
         g.pc \in {"cachedApp", "cachedProv", "validate", "update", "createApp", "updateApp"}
           => g.pk \in Pks
  PROVE  WellFormed(g)
BY DEF WellFormed, HookShape, SyncCalls

LEMMA ResolveMappingsTypes ==
  ASSUME TypeOK, NEW u \in Units, ResolveMappings(u)
  PROVE  TypeOK'
<1> DEFINE h == hook[u]
           g(pc) == [h EXCEPT !.mapped = TRUE, !.pc = pc]
<1>1. WellFormed(h) /\ h.pc = "mappings" BY HookWellFormed DEF ResolveMappings, At
<1>2. \A pc \in {"cachedApp", "managedApp"} :
        (pc = "cachedApp" => h.pk \in Pks) => WellFormed(g(pc))
  <2> TAKE pc \in {"cachedApp", "managedApp"}
  <2> HAVE pc = "cachedApp" => h.pk \in Pks
  <2>1. g(pc) \in HookTypes BY <1>1 DEF WellFormed, HookTypes, Positions, Calls, SyncCalls
  <2>2. /\ g(pc).pc = pc /\ g(pc).cur = h.cur /\ g(pc).conf = h.conf
        /\ g(pc).creds = h.creds /\ g(pc).flow = h.flow /\ g(pc).slug = h.slug
        /\ g(pc).pk = h.pk
    BY <1>1 DEF WellFormed, HookTypes
  <2>3. h.slug \in Kinds BY <1>1 DEF WellFormed, HookShape, SyncCalls
  <2> HIDE DEF g, h
  <2> QED BY <1>1, <2>1, <2>2, <2>3, NextCallWellFormed DEF SyncCalls
<1>3. \/ CaughtStaleFlow(u)
      \/ Continue(u, g("cachedApp")) /\ h.pk # NoPk
      \/ Continue(u, g("managedApp"))
  BY DEF ResolveMappings
<1>4. h.pk # NoPk => h.pk \in Pks BY <1>1 DEF WellFormed, HookTypes
<1>5. HooksWellFormed'
  <2> HIDE DEF g
  <2> QED BY <1>2, <1>3, <1>4, CaughtWellFormed, ContinueWellFormed DEF TypeOK, HooksWellFormed
<1> QED BY <1>5, LocalTypes DEF ResolveMappings

\* A hook that goes on at another call, its other fields kept.
Moved(h, pc, slug, pk, app, made, lost) ==
  [h EXCEPT !.pc = pc, !.slug = slug, !.pk = pk, !.app = app, !.made = made, !.lost = lost]

KeyCalls == {"cachedApp", "cachedProv", "validate", "update", "createApp", "updateApp"}

LEMMA MovedWellFormed ==
  ASSUME NEW h, WellFormed(h), h.pc \in SyncCalls, NEW pc \in SyncCalls,
         NEW slug \in Kinds, NEW pk \in Pks \cup {NoPk}, NEW app \in BOOLEAN,
         NEW made \in BOOLEAN, NEW lost \in BOOLEAN,
         pc \in KeyCalls => pk \in Pks
  PROVE  WellFormed(Moved(h, pc, slug, pk, app, made, lost))
<1> DEFINE g == Moved(h, pc, slug, pk, app, made, lost)
<1>1. g \in HookTypes BY ZenonT(60) DEF WellFormed, HookTypes, Positions, Calls, Moved
<1>2. /\ g.pc = pc /\ g.cur = h.cur /\ g.conf = h.conf /\ g.creds = h.creds
      /\ g.flow = h.flow /\ g.slug = slug /\ g.pk = pk
  BY DEF WellFormed, HookTypes, Moved
<1>3. WellFormed(g)
  <2> HIDE DEF g
  <2> QED BY <1>1, <1>2, NextCallWellFormed DEF KeyCalls
<1> QED BY <1>3

\* What is known of the hook of a unit that is making a call.
LEMMA CallingHook ==
  ASSUME TypeOK, NEW u \in Units, hook[u].pc \in SyncCalls
  PROVE  /\ WellFormed(hook[u]) /\ hook[u] \in HookTypes
         /\ hook[u].cur \in Relations /\ hook[u].slug \in Kinds
         /\ hook[u].creds \in Creds /\ hook[u].pk \in Pks \cup {NoPk}
         /\ hook[u].pc \in KeyCalls => hook[u].pk \in Pks
         /\ hook[u].app \in BOOLEAN /\ hook[u].made \in BOOLEAN /\ hook[u].lost \in BOOLEAN
         /\ HashOf(hook[u], hook[u].cur) \in Hashes
         /\ Request(hook[u]) \in Providers
<1>1. WellFormed(hook[u]) BY HookWellFormed
<1>2. HashOf(hook[u], hook[u].cur) \in Hashes /\ Request(hook[u]) \in Providers
  BY <1>1, HashType
<1> HIDE DEF Request
<1> QED BY <1>1, <1>2 DEF WellFormed, HookShape, HookTypes, KeyCalls

LEMMA GetCachedApplicationTypes ==
  ASSUME TypeOK, NEW u \in Units, GetCachedApplication(u)
  PROVE  TypeOK'
<1> DEFINE h == hook[u]
           g(app) == [h EXCEPT !.app = app, !.pc = "cachedProv"]
<1>1. h.pc = "cachedApp" BY DEF GetCachedApplication, At
<1>2. /\ h \in HookTypes /\ WellFormed(h) /\ h.pk \in Pks /\ h.slug \in Kinds
      /\ h.made \in BOOLEAN /\ h.lost \in BOOLEAN
  BY <1>1, CallingHook DEF SyncCalls, KeyCalls
<1>3. \A app \in BOOLEAN : WellFormed(g(app))
  <2> TAKE app \in BOOLEAN
  <2> HIDE DEF h
  <2>1. g(app) = Moved(h, "cachedProv", h.slug, h.pk, app, h.made, h.lost)
    BY <1>2 DEF HookTypes, Moved
  <2> HIDE DEF g
  <2> QED BY <1>1, <1>2, <2>1, MovedWellFormed DEF SyncCalls
<1>4. \/ \E app \in BOOLEAN : Continue(u, g(app)) /\ Local
      \/ Caught(u) /\ Local
      \/ HookFailed(u) /\ UNCHANGED <<authentik, budgets>>
  BY DEF GetCachedApplication
<1>5. CASE \E app \in BOOLEAN : Continue(u, g(app)) /\ Local
  <2> HIDE DEF g
  <2> QED BY <1>3, <1>5, ContinueWellFormed, LocalTypes DEF TypeOK, HooksWellFormed
<1>6. CASE Caught(u) /\ Local BY <1>6, CaughtWellFormed, LocalTypes
<1>7. CASE HookFailed(u) /\ UNCHANGED <<authentik, budgets>>
  BY <1>7, HookFailedTypes
     DEF HookFailed, TypeOK, HooksWellFormed, authentik, stored, model, budgets
<1> QED BY <1>4, <1>5, <1>6, <1>7

\* The three ways in which a call that changes nothing else can end.
LEMMA ContinueTypes ==
  ASSUME TypeOK, NEW u \in Units, NEW h, WellFormed(h), Continue(u, h), Local
  PROVE  TypeOK'
BY ContinueWellFormed, LocalTypes DEF TypeOK, HooksWellFormed

LEMMA CaughtTypes ==
  ASSUME TypeOK, NEW u \in Units, Caught(u) \/ CaughtStaleFlow(u), Local
  PROVE  TypeOK'
BY CaughtWellFormed, LocalTypes

LEMMA FailedTypes ==
  ASSUME TypeOK, NEW u \in Units, HookFailed(u), UNCHANGED authentik,
         faults' \in Nat, edits' = edits, tampers' = tampers
  PROVE  TypeOK'
BY HookFailedTypes
   DEF HookFailed, TypeOK, HooksWellFormed, authentik, stored, model

\* A step that writes to Authentik.
LEMMA StoreTypes ==
  ASSUME TypeOK, HooksWellFormed',
         provs' \in [Pks -> Providers \cup {NoProvider}], apps' \in [Slugs -> AppStates],
         UNCHANGED <<flows, stored, model, failed>>,
         late' \subseteq Providers, faults' \in Nat, edits' = edits, tampers' = tampers
  PROVE  TypeOK'
BY DEF TypeOK, HooksWellFormed, stored, model

LEMMA PersistedWellFormed ==
  ASSUME NEW h, WellFormed(h), h.pc \in SyncCalls, h.pk \in Pks
  PROVE  WellFormed(Persisted(h))
<1>1. h \in HookTypes /\ h.cur \in Relations /\ h.slug \in Kinds
  BY DEF WellFormed, HookShape
<1>2. Persisted(h) \in HookTypes BY <1>1, PersistedTypes
<1>3. /\ Persisted(h).pc = h.pc /\ Persisted(h).cur = h.cur /\ Persisted(h).conf = h.conf
      /\ Persisted(h).creds = h.creds /\ Persisted(h).flow = h.flow
      /\ Persisted(h).slug = h.slug /\ Persisted(h).pk = h.pk
  BY <1>1 DEF Persisted, HookTypes
<1> QED BY <1>1, <1>2, <1>3, NextCallWellFormed

LEMMA GetApplicationTypes ==
  ASSUME TypeOK, NEW u \in Units, NEW pc \in SyncCalls, NEW kind \in Kinds,
         NEW otherwise \in SyncCalls \ KeyCalls, GetApplication(u, pc, kind, otherwise)
  PROVE  TypeOK'
<1> DEFINE h == hook[u]
           absent == [h EXCEPT !.pc = otherwise, !.slug = "managed"]
           found(a) == [h EXCEPT !.pc = "validate", !.slug = kind, !.pk = a]
<1>1. h.pc = pc BY DEF GetApplication, At
<1>2. /\ h \in HookTypes /\ WellFormed(h) /\ h.pk \in Pks \cup {NoPk}
      /\ h.app \in BOOLEAN /\ h.made \in BOOLEAN /\ h.lost \in BOOLEAN
  BY <1>1, CallingHook
<1>3. WellFormed(absent)
  <2> HIDE DEF h
  <2>1. absent = Moved(h, otherwise, "managed", h.pk, h.app, h.made, h.lost)
    BY <1>2 DEF HookTypes, Moved
  <2> HIDE DEF absent
  <2> QED BY <1>1, <1>2, <2>1, MovedWellFormed DEF Kinds
<1>4. \A a \in Pks : WellFormed(found(a))
  <2> TAKE a \in Pks
  <2> HIDE DEF h
  <2>1. found(a) = Moved(h, "validate", kind, a, h.app, h.made, h.lost)
    BY <1>2 DEF HookTypes, Moved
  <2> HIDE DEF found
  <2> QED BY <1>1, <1>2, <2>1, MovedWellFormed DEF SyncCalls
<1>5. \/ Continue(u, absent)
      \/ Caught(u)
      \/ \E a \in Pks : Continue(u, found(a))
  BY DEF GetApplication
<1> HIDE DEF absent, found
<1> QED BY <1>3, <1>4, <1>5, CaughtTypes, ContinueTypes DEF GetApplication

LEMMA ValidateProviderTypes ==
  ASSUME TypeOK, NEW u \in Units, ValidateProvider(u)
  PROVE  TypeOK'
<1> DEFINE h == hook[u]
           g == [h EXCEPT !.pc = "update", !.app = TRUE]
<1>1. h.pc = "validate" BY DEF ValidateProvider, At
<1>2. /\ h \in HookTypes /\ WellFormed(h) /\ h.pk \in Pks /\ h.slug \in Kinds
      /\ h.made \in BOOLEAN /\ h.lost \in BOOLEAN
  BY <1>1, CallingHook DEF SyncCalls, KeyCalls
<1>3. WellFormed(g) /\ g.pc = "update" /\ g.pk = h.pk
  <2> HIDE DEF h
  <2>1. g = Moved(h, "update", h.slug, h.pk, TRUE, h.made, h.lost)
    BY <1>2 DEF HookTypes, Moved
  <2>2. g.pc = "update" /\ g.pk = h.pk BY <1>2 DEF HookTypes
  <2> HIDE DEF g
  <2> QED BY <1>1, <1>2, <2>1, <2>2, MovedWellFormed DEF SyncCalls
<1>4. Continue(u, Persisted(g)) \/ Caught(u) BY DEF ValidateProvider
<1> HIDE DEF g
<1>5. WellFormed(Persisted(g)) BY <1>2, <1>3, PersistedWellFormed DEF SyncCalls
<1> QED BY <1>4, <1>5, CaughtTypes, ContinueTypes DEF ValidateProvider

LEMMA FindProviderTypes ==
  ASSUME TypeOK, NEW u \in Units, FindProvider(u)
  PROVE  TypeOK'
<1> DEFINE h == hook[u]
           none == [h EXCEPT !.pc = "create", !.pk = NoPk]
           g(p) == [h EXCEPT !.pc = "update", !.pk = p]
<1>1. h.pc = "find" BY DEF FindProvider, At
<1>2. /\ h \in HookTypes /\ WellFormed(h) /\ h.slug \in Kinds
      /\ h.app \in BOOLEAN /\ h.made \in BOOLEAN /\ h.lost \in BOOLEAN
  BY <1>1, CallingHook DEF SyncCalls
<1>3. WellFormed(none)
  <2> HIDE DEF h
  <2>1. none = Moved(h, "create", h.slug, NoPk, h.app, h.made, h.lost)
    BY <1>2 DEF HookTypes, Moved
  <2> HIDE DEF none
  <2> QED BY ZenonT(60), <1>1, <1>2, <2>1, MovedWellFormed DEF SyncCalls, KeyCalls
<1>4. \A p \in Pks : WellFormed(Persisted(g(p)))
  <2> TAKE p \in Pks
  <2> HIDE DEF h
  <2>1. g(p) = Moved(h, "update", h.slug, p, h.app, h.made, h.lost)
    BY <1>2 DEF HookTypes, Moved
  <2>2. g(p).pc = "update" /\ g(p).pk = p BY <1>2 DEF HookTypes
  <2> HIDE DEF g
  <2>3. WellFormed(g(p)) BY <1>1, <1>2, <2>1, MovedWellFormed DEF SyncCalls
  <2> QED BY <2>2, <2>3, PersistedWellFormed DEF SyncCalls
<1>5. Continue(u, none) \/ \E p \in Pks : Continue(u, Persisted(g(p)))
  BY DEF FindProvider, PksNamed
<1> HIDE DEF none, g
<1> QED BY <1>3, <1>4, <1>5, ContinueTypes DEF FindProvider

LEMMA GetCachedProviderTypes ==
  ASSUME TypeOK, NEW u \in Units, GetCachedProvider(u)
  PROVE  TypeOK'
<1> DEFINE h == hook[u]
           update == [h EXCEPT !.pc = "update"]
           c == [h.cache EXCEPT ![h.cur] = NoEntry]
           forgotten == [h EXCEPT !.cache = c]
           again == [h EXCEPT !.cache[h.cur] = NoEntry, !.pc = "managedApp",
                              !.pk = NoPk, !.slug = "managed", !.app = FALSE]
<1>1. h.pc = "cachedProv" BY DEF GetCachedProvider, At
<1>2. /\ h \in HookTypes /\ WellFormed(h) /\ h.pk \in Pks /\ h.slug \in Kinds
      /\ h.cur \in Relations
      /\ h.app \in BOOLEAN /\ h.made \in BOOLEAN /\ h.lost \in BOOLEAN
  BY <1>1, CallingHook DEF SyncCalls, KeyCalls
<1>3. WellFormed(update)
  <2> HIDE DEF h
  <2>1. update = Moved(h, "update", h.slug, h.pk, h.app, h.made, h.lost)
    BY <1>2 DEF HookTypes, Moved
  <2> HIDE DEF update
  <2> QED BY <1>1, <1>2, <2>1, MovedWellFormed DEF SyncCalls
<1>4. WellFormed(again)
  <2> HIDE DEF h
  <2>1. c \in [Relations -> Entries \cup {NoEntry}] BY <1>2 DEF HookTypes
  <2>2. again = [h EXCEPT !.cache = c, !.pc = "managedApp", !.pk = NoPk, !.slug = "managed",
                          !.app = FALSE]
    OBVIOUS
  <2> HIDE DEF c
  <2>3. again \in HookTypes
    BY <1>2, <2>1, <2>2 DEF HookTypes, Positions, Calls, SyncCalls, Kinds
  <2>4. /\ again.pc = "managedApp" /\ again.cur = h.cur /\ again.conf = h.conf
        /\ again.creds = h.creds /\ again.flow = h.flow /\ again.slug = "managed"
    BY <1>2, <2>2 DEF HookTypes
  <2> HIDE DEF again
  <2> QED BY <1>1, <1>2, <2>3, <2>4, NextCallWellFormed DEF SyncCalls, Kinds
<1>5. Continue(u, update) \/ Continue(u, again) BY DEF GetCachedProvider
<1> HIDE DEF update, again
<1> QED BY <1>3, <1>4, <1>5, ContinueTypes DEF GetCachedProvider

\* The hook after a POST, or after what is taken for one.
LEMMA AfterCreateWellFormed ==
  ASSUME TypeOK, NEW u \in Units, hook[u].pc \in {"create", "recover"}, NEW p \in Pks
  PROVE  WellFormed(AfterCreate(hook[u], p))
<1> DEFINE h == hook[u]
           g == [h EXCEPT !.pc = "createApp", !.pk = p, !.made = TRUE]
<1>1. /\ h \in HookTypes /\ WellFormed(h) /\ h.slug \in Kinds
      /\ h.app \in BOOLEAN /\ h.lost \in BOOLEAN
  BY CallingHook DEF SyncCalls
<1> HIDE DEF h
<1>2. g = Moved(h, "createApp", h.slug, p, h.app, TRUE, h.lost) BY <1>1 DEF HookTypes, Moved
<1>3. g.pc = "createApp" /\ g.pk = p BY <1>1 DEF HookTypes
<1>4. AfterCreate(hook[u], p) = Persisted(g) BY DEF AfterCreate, h
<1> HIDE DEF g
<1>5. WellFormed(g) BY <1>1, <1>2, MovedWellFormed DEF SyncCalls, h
<1> QED BY <1>3, <1>4, <1>5, PersistedWellFormed DEF SyncCalls

\* Authentik executing a POST.
LEMMA WithProviderTypes ==
  ASSUME TypeOK, NEW p \in Pks, NEW rec \in Providers
  PROVE  WithProvider(provs, p, rec) \in [Pks -> Providers \cup {NoProvider}]
BY DEF TypeOK, WithProvider

LEMMA CreateProviderTypes ==
  ASSUME TypeOK, NEW u \in Units, CreateProvider(u)
  PROVE  TypeOK'
<1>1. hook[u].pc = "create" BY DEF CreateProvider, At
<1>2. PICK p \in Pks : ProviderCreated(hook[u], p) /\ Continue(u, AfterCreate(hook[u], p))
  BY DEF CreateProvider
<1>3. HooksWellFormed'
  BY <1>1, <1>2, AfterCreateWellFormed, ContinueWellFormed DEF TypeOK, HooksWellFormed
<1>4. provs' \in [Pks -> Providers \cup {NoProvider}]
  BY <1>1, <1>2, CallingHook, WithProviderTypes DEF ProviderCreated, SyncCalls
<1> QED BY <1>3, <1>4, StoreTypes DEF CreateProvider, TypeOK, budgets

\* The hook that has to look whether its POST was executed.
LEMMA RecoveringWellFormed ==
  ASSUME TypeOK, NEW u \in Units, hook[u].pc = "create", NEW lost \in BOOLEAN
  PROVE  WellFormed([hook[u] EXCEPT !.pc = "recover", !.lost = lost])
<1> DEFINE h == hook[u]
           g == [h EXCEPT !.pc = "recover", !.lost = lost]
<1>1. /\ h \in HookTypes /\ WellFormed(h) /\ h.slug \in Kinds /\ h.pk \in Pks \cup {NoPk}
      /\ h.app \in BOOLEAN /\ h.made \in BOOLEAN /\ h.pc = "create"
  BY CallingHook DEF SyncCalls
<1>2. WellFormed(g)
  <2> HIDE DEF h
  <2>1. g = Moved(h, "recover", h.slug, h.pk, h.app, h.made, lost)
    BY <1>1 DEF HookTypes, Moved
  <2> HIDE DEF g
  <2> QED BY <1>1, <2>1, MovedWellFormed DEF SyncCalls, KeyCalls
<1> QED BY <1>2

LEMMA CreateProviderConflictTypes ==
  ASSUME TypeOK, NEW u \in Units, CreateProviderConflict(u)
  PROVE  TypeOK'
<1> DEFINE h == hook[u]
           g == [h EXCEPT !.pc = "recover"]
<1>1. h.pc = "create" /\ h \in HookTypes /\ h.lost \in BOOLEAN
  BY CallingHook DEF CreateProviderConflict, At, SyncCalls
<1>2. g = [h EXCEPT !.pc = "recover", !.lost = h.lost]
  <2> HIDE DEF h
  <2> QED BY <1>1 DEF HookTypes
<1>3. Continue(u, g) /\ Local BY DEF CreateProviderConflict
<1> HIDE DEF g
<1>4. WellFormed(g) BY <1>1, <1>2, RecoveringWellFormed
<1> QED BY <1>3, <1>4, ContinueTypes

LEMMA CreateProviderLostTypes ==
  ASSUME TypeOK, NEW u \in Units, CreateProviderLost(u)
  PROVE  TypeOK'
<1>1. hook[u].pc = "create" BY DEF CreateProviderLost, At
<1>2. Request(hook[u]) \in Providers BY <1>1, CallingHook DEF SyncCalls
<1>3. HooksWellFormed'
  <2>1. Continue(u, [hook[u] EXCEPT !.pc = "recover", !.lost = TRUE])
    BY DEF CreateProviderLost
  <2> QED BY <1>1, <2>1, RecoveringWellFormed, ContinueWellFormed DEF TypeOK, HooksWellFormed
<1>4. provs' \in [Pks -> Providers \cup {NoProvider}] /\ late' \subseteq Providers
  BY <1>2, WithProviderTypes DEF CreateProviderLost, ProviderCreated, TypeOK
<1>5. faults' \in Nat BY DEF CreateProviderLost, TypeOK
<1> QED BY <1>3, <1>4, <1>5, StoreTypes DEF CreateProviderLost, TypeOK

LEMMA RecoverProviderTypes ==
  ASSUME TypeOK, NEW u \in Units, RecoverProvider(u)
  PROVE  TypeOK'
<1>1. hook[u].pc = "recover" BY DEF RecoverProvider, At
<1>2. \/ \E p \in Pks : Continue(u, AfterCreate(hook[u], p)) /\ Local
      \/ HookFailed(u) /\ UNCHANGED <<authentik, budgets>>
      \/ Caught(u) /\ Local
  BY DEF RecoverProvider, PksNamed
<1>3. faults \in Nat BY DEF TypeOK
<1> QED BY <1>1, <1>2, <1>3, AfterCreateWellFormed, ContinueTypes, CaughtTypes, FailedTypes
        DEF budgets

LEMMA LateCreateTypes ==
  ASSUME TypeOK, LateCreate
  PROVE  TypeOK'
<1>1. PICK q \in late : /\ late' = late \ {q}
                        /\ \/ \E p \in Pks : provs' = WithProvider(provs, p, q)
                           \/ UNCHANGED provs
  BY DEF LateCreate
<1>2. q \in Providers BY DEF TypeOK
<1>3. provs' \in [Pks -> Providers \cup {NoProvider}] BY <1>1, <1>2, WithProviderTypes DEF TypeOK
<1>4. late' \subseteq Providers BY <1>1 DEF TypeOK
<1>5. HooksWellFormed' BY DEF LateCreate, TypeOK, HooksWellFormed
<1> QED BY <1>3, <1>4, <1>5, StoreTypes DEF LateCreate, TypeOK, budgets

LEMMA UpdateProviderTypes ==
  ASSUME TypeOK, NEW u \in Units, UpdateProvider(u)
  PROVE  TypeOK'
<1> DEFINE h == hook[u]
           g(pc) == [h EXCEPT !.pc = pc]
<1>1. h.pc = "update" BY DEF UpdateProvider, At
<1>2. /\ h \in HookTypes /\ WellFormed(h) /\ h.pk \in Pks /\ h.slug \in Kinds
      /\ h.app \in BOOLEAN /\ h.made \in BOOLEAN /\ h.lost \in BOOLEAN
      /\ Request(h) \in Providers
  BY <1>1, CallingHook DEF SyncCalls, KeyCalls
<1>3. \A pc \in {"createApp", "updateApp"} : WellFormed(g(pc))
  <2> TAKE pc \in {"createApp", "updateApp"}
  <2> HIDE DEF h
  <2>1. g(pc) = Moved(h, pc, h.slug, h.pk, h.app, h.made, h.lost)
    BY <1>2 DEF HookTypes, Moved
  <2> HIDE DEF g
  <2> QED BY <1>1, <1>2, <2>1, MovedWellFormed DEF SyncCalls
<1>4. \/ /\ provs' = WithProvider(provs, h.pk, Request(h))
         /\ \E pc \in {"createApp", "updateApp"} : Continue(u, g(pc))
      \/ CaughtStaleFlow(u) /\ provs' = provs
  <2>1. CASE h.app BY <2>1 DEF UpdateProvider
  <2>2. CASE ~h.app BY <2>2 DEF UpdateProvider
  <2> QED BY <2>1, <2>2
<1>5. provs' \in [Pks -> Providers \cup {NoProvider}]
  <2> HIDE DEF h
  <2> QED BY <1>2, <1>4, WithProviderTypes DEF TypeOK
<1>6. HooksWellFormed'
  <2> HIDE DEF g
  <2> QED BY <1>3, <1>4, CaughtWellFormed, ContinueWellFormed DEF TypeOK, HooksWellFormed
<1> QED BY <1>5, <1>6, StoreTypes DEF UpdateProvider, TypeOK, budgets

LEMMA SynchronizedWellFormed ==
  ASSUME TypeOK, NEW u \in Units, hook[u].pc \in {"createApp", "updateApp"}
  PROVE  WellFormed(Synchronized(hook[u]))
<1> DEFINE h == hook[u]
           b == [h.bag EXCEPT ![h.cur] = [creds |-> h.creds, slug |-> h.slug]]
           e == [pk |-> h.pk, slug |-> h.slug, hash |-> HashOf(h, h.cur)]
           c == [h.cache EXCEPT ![h.cur] = e]
           t == h.todo \ {h.cur}
           g == [h EXCEPT !.pc = "next", !.todo = t, !.cur = 0, !.bag = b, !.cache = c,
                          !.creds = NoCred, !.slug = "none", !.pk = NoPk,
                          !.app = FALSE, !.made = FALSE, !.lost = FALSE]
<1>1. /\ h \in HookTypes /\ WellFormed(h) /\ h.pk \in Pks /\ h.slug \in Kinds
      /\ h.creds \in Creds /\ h.cur \in Relations /\ HashOf(h, h.cur) \in Hashes
      /\ h.pc \in SyncCalls
  BY CallingHook DEF SyncCalls, KeyCalls
<1>2. h.flow \in [FlowKeys -> FlowUuids] BY <1>1 DEF WellFormed, HookShape
<1> HIDE DEF h
<1>3. b \in [Relations -> Bags] BY <1>1 DEF HookTypes, Bags
<1>4. c \in [Relations -> Entries \cup {NoEntry}]
  <2>1. e \in Entries BY <1>1 DEF Entries
  <2> HIDE DEF e
  <2> QED BY <1>1, <2>1 DEF HookTypes
<1>5. t \in SUBSET Relations BY <1>1 DEF HookTypes
<1>6. Synchronized(h) = g BY DEF Synchronized
<1> HIDE DEF b, c, t
<1>7. g \in HookTypes BY <1>1, <1>3, <1>4, <1>5 DEF HookTypes, Positions
<1>8. g.pc = "next" /\ g.flow = h.flow BY <1>1 DEF HookTypes
<1> HIDE DEF g
<1>9. WellFormed(g) BY <1>2, <1>7, <1>8 DEF WellFormed, HookShape, SyncCalls
<1> QED BY <1>6, <1>9 DEF h

LEMMA WithAppTypes ==
  ASSUME TypeOK, NEW s \in Slugs, NEW a \in AppStates
  PROVE  WithApp(apps, s, a) \in [Slugs -> AppStates]
BY DEF TypeOK, WithApp

LEMMA CreateApplicationTypes ==
  ASSUME TypeOK, NEW u \in Units, CreateApplication(u)
  PROVE  TypeOK'
<1>1. hook[u].pc = "createApp" BY DEF CreateApplication, At
<1>2. SlugOf(hook[u]) \in Slugs /\ hook[u].pk \in AppStates
  BY <1>1, CallingHook DEF SyncCalls, KeyCalls, SlugOf, Slugs, AppStates
<1>3. HooksWellFormed'
  BY <1>1, SynchronizedWellFormed, ContinueWellFormed
     DEF CreateApplication, TypeOK, HooksWellFormed
<1>4. apps' \in [Slugs -> AppStates] BY <1>2, WithAppTypes DEF CreateApplication
<1> QED BY <1>3, <1>4, StoreTypes DEF CreateApplication, TypeOK, budgets

LEMMA CreateApplicationRefusedTypes ==
  ASSUME TypeOK, NEW u \in Units, CreateApplicationRefused(u)
  PROVE  TypeOK'
<1>1. hook[u].pc = "createApp" BY DEF CreateApplicationRefused, At
<1> QED BY <1>1, SynchronizedWellFormed, ContinueTypes, CaughtTypes DEF CreateApplicationRefused

LEMMA UpdateApplicationTypes ==
  ASSUME TypeOK, NEW u \in Units, UpdateApplication(u)
  PROVE  TypeOK'
<1>1. hook[u].pc = "updateApp" BY DEF UpdateApplication, At
<1>2. SlugOf(hook[u]) \in Slugs /\ hook[u].pk \in AppStates
  BY <1>1, CallingHook DEF SyncCalls, KeyCalls, SlugOf, Slugs, AppStates
<1>3. HooksWellFormed'
  BY <1>1, SynchronizedWellFormed, ContinueWellFormed, CaughtWellFormed
     DEF UpdateApplication, TypeOK, HooksWellFormed
<1>4. apps \in [Slugs -> AppStates] BY DEF TypeOK
<1>5. WithApp(apps, SlugOf(hook[u]), hook[u].pk) \in [Slugs -> AppStates]
  BY <1>2, WithAppTypes
<1>6. apps' = WithApp(apps, SlugOf(hook[u]), hook[u].pk) \/ apps' = apps
  BY DEF UpdateApplication
<1>7. apps' \in [Slugs -> AppStates] BY <1>4, <1>5, <1>6
<1> QED BY <1>3, <1>7, StoreTypes DEF UpdateApplication, TypeOK, budgets

\* A hook that garbage-collects at a call of its own.
LEMMA CollectingWellFormed ==
  ASSUME NEW h \in HookTypes, h.pc \in {"gcApp", "gcProv"}, h.cur \in Relations,
         h.pk \in Pks, h.cache[h.cur] \in Entries,
         h.pc = "gcApp" => h.cache[h.cur].slug \in Kinds
  PROVE  WellFormed(h)
BY DEF WellFormed, HookShape, SyncCalls

LEMMA CollectNextTypes ==
  ASSUME TypeOK, NEW u \in Units, CollectNext(u)
  PROVE  TypeOK'
<1> DEFINE h == hook[u]
           done == [h EXCEPT !.pc = "commit"]
           g(r, pc) == [h EXCEPT !.cur = r, !.pk = h.cache[r].pk, !.pc = pc]
<1>1. h \in HookTypes /\ WellFormed(h) BY HookWellFormed DEF WellFormed
<1>2. WellFormed(done)
  <2> HIDE DEF h
  <2> QED BY <1>1, FreePositionWellFormed
<1>3. \A r \in Relations, pc \in {"gcApp", "gcProv"} :
        h.cache[r] # NoEntry /\ (pc = "gcApp" => h.cache[r].slug # "none")
          => WellFormed(g(r, pc))
  <2> TAKE r \in Relations, pc \in {"gcApp", "gcProv"}
  <2> HAVE h.cache[r] # NoEntry /\ (pc = "gcApp" => h.cache[r].slug # "none")
  <2> HIDE DEF h
  <2>1. h.cache[r] \in Entries BY <1>1 DEF HookTypes
  <2>2. h.cache[r].pk \in Pks /\ (pc = "gcApp" => h.cache[r].slug \in Kinds)
    BY <2>1 DEF Entries
  <2>3. g(r, pc) \in HookTypes
    BY <1>1, <2>2 DEF HookTypes, Positions, Calls
  <2>4. /\ g(r, pc).pc = pc /\ g(r, pc).cur = r /\ g(r, pc).pk = h.cache[r].pk
        /\ g(r, pc).cache = h.cache
    BY <1>1 DEF HookTypes
  <2> HIDE DEF g
  <2> QED BY <2>1, <2>2, <2>3, <2>4, CollectingWellFormed
<1>4. \/ Continue(u, done)
      \/ \E r \in Relations, pc \in {"gcApp", "gcProv"} :
           /\ h.cache[r] # NoEntry /\ (pc = "gcApp" => h.cache[r].slug # "none")
           /\ Continue(u, g(r, pc))
  <2>1. ASSUME NEW r \in Orphans(h),
               Continue(u, [h EXCEPT !.cur = r, !.pk = h.cache[r].pk,
                                     !.pc = IF h.cache[r].slug # "none" THEN "gcApp"
                                            ELSE "gcProv"])
        PROVE  \E pc \in {"gcApp", "gcProv"} :
                 /\ h.cache[r] # NoEntry /\ (pc = "gcApp" => h.cache[r].slug # "none")
                 /\ Continue(u, g(r, pc))
    <3>1. CASE h.cache[r].slug # "none" BY <2>1, <3>1 DEF Orphans
    <3>2. CASE h.cache[r].slug = "none" BY <2>1, <3>2 DEF Orphans
    <3> QED BY <3>1, <3>2
  <2>2. Orphans(h) \subseteq Relations BY DEF Orphans
  <2> HIDE DEF g, done
  <2> QED BY <2>1, <2>2 DEF CollectNext, done
<1> HIDE DEF g, done
<1> QED BY <1>2, <1>3, <1>4, ContinueTypes DEF CollectNext

\* A hook that is deleting what a relation has in Authentik.
LEMMA CollectingHook ==
  ASSUME TypeOK, NEW u \in Units, hook[u].pc \in {"gcApp", "gcProv"}
  PROVE  /\ hook[u] \in HookTypes /\ hook[u].cur \in Relations /\ hook[u].pk \in Pks
         /\ hook[u].cache[hook[u].cur] \in Entries
BY HookWellFormed DEF WellFormed, HookShape

LEMMA DeleteApplicationTypes ==
  ASSUME TypeOK, NEW u \in Units, DeleteApplication(u)
  PROVE  TypeOK'
<1> DEFINE h == hook[u]
           e == h.cache[h.cur]
           e2 == [e EXCEPT !.slug = "none", !.hash = NoHash]
           c == [h.cache EXCEPT ![h.cur] = e2]
           g == [h EXCEPT !.pc = "gcProv", !.cache = c]
<1>1. h.pc = "gcApp" BY DEF DeleteApplication, At
<1>2. h \in HookTypes /\ h.cur \in Relations /\ h.pk \in Pks /\ e \in Entries
  BY <1>1, CollectingHook
<1>3. e.slug \in Kinds BY <1>1, HookWellFormed DEF WellFormed, HookShape
<1>4. e2 \in Entries BY <1>2 DEF Entries
<1>5. [h EXCEPT !.pc = "gcProv", !.cache[h.cur].slug = "none", !.cache[h.cur].hash = NoHash]
        = g
  <2> HIDE DEF h
  <2> QED BY <1>2 DEF HookTypes
<1>6. WellFormed(g)
  <2> HIDE DEF h, e2
  <2>1. c \in [Relations -> Entries \cup {NoEntry}] /\ c[h.cur] = e2
    BY <1>2, <1>4 DEF HookTypes
  <2> HIDE DEF c
  <2>2. g \in HookTypes BY <1>2, <2>1 DEF HookTypes, Positions, Calls
  <2>3. g.pc = "gcProv" /\ g.cur = h.cur /\ g.pk = h.pk /\ g.cache = c
    BY <1>2 DEF HookTypes
  <2> HIDE DEF g
  <2> QED BY <1>2, <1>4, <2>1, <2>2, <2>3, CollectingWellFormed
<1>7. Continue(u, g) BY <1>5 DEF DeleteApplication
<1>8. HooksWellFormed'
  <2> HIDE DEF g
  <2> QED BY <1>6, <1>7, ContinueWellFormed DEF TypeOK, HooksWellFormed
<1>9. apps' \in [Slugs -> AppStates]
  <2>1. apps' = [apps EXCEPT ![<<e.slug, h.cur>>] = AppAbsent]
    BY DEF DeleteApplication, WithoutApp
  <2> QED BY <2>1 DEF TypeOK, AppStates
<1> QED BY <1>8, <1>9, StoreTypes DEF DeleteApplication, TypeOK, budgets

\* Deleting a provider leaves its applications without one.
LEMMA DeletedTypes ==
  ASSUME TypeOK, NEW p \in Pks
  PROVE  /\ WithoutProvider(provs, p) \in [Pks -> Providers \cup {NoProvider}]
         /\ Detach(apps, p) \in [Slugs -> AppStates]
BY DEF TypeOK, WithoutProvider, Detach, AppStates

LEMMA DeleteProviderTypes ==
  ASSUME TypeOK, NEW u \in Units, DeleteProvider(u)
  PROVE  TypeOK'
<1> DEFINE h == hook[u]
           c == [h.cache EXCEPT ![h.cur] = NoEntry]
           g == [h EXCEPT !.pc = "gc", !.cache = c, !.cur = 0, !.pk = NoPk]
<1>1. h.pc = "gcProv" BY DEF DeleteProvider, At
<1>2. h \in HookTypes /\ h.cur \in Relations /\ h.pk \in Pks BY <1>1, CollectingHook
<1>3. Forgotten(h) = g BY DEF Forgotten
<1>4. WellFormed(g)
  <2> HIDE DEF h
  <2>1. c \in [Relations -> Entries \cup {NoEntry}] BY <1>2 DEF HookTypes
  <2> HIDE DEF c
  <2>2. g \in HookTypes BY <1>2, <2>1 DEF HookTypes, Positions
  <2>3. g.pc = "gc" BY <1>2 DEF HookTypes
  <2> HIDE DEF g
  <2> QED BY <2>2, <2>3, FreeWellFormed
<1>5. HooksWellFormed'
  <2>1. Continue(u, g) BY <1>3 DEF DeleteProvider
  <2> HIDE DEF g
  <2> QED BY <1>4, <2>1, ContinueWellFormed DEF TypeOK, HooksWellFormed
<1>6. /\ provs' \in [Pks -> Providers \cup {NoProvider}]
      /\ apps' \in [Slugs -> AppStates]
  BY <1>2, DeletedTypes DEF DeleteProvider
<1> QED BY <1>5, <1>6, StoreTypes DEF DeleteProvider, TypeOK, budgets

LEMMA CommitTypes ==
  ASSUME TypeOK, NEW u \in Units, Commit(u)
  PROVE  TypeOK'
<1> DEFINE h == hook[u]
<1>1. CASE Wrote(h) /\ u # leader
  BY <1>1, FailedTypes DEF Commit, TypeOK, budgets
<1>2. CASE ~(Wrote(h) /\ u # leader)
  <2>1. /\ FinishEvent(u)
        /\ Continue(u, IdleHook)
        /\ cache' = IF h.cache # h.seen.cache THEN h.cache ELSE cache
        /\ flowCache' = IF h.flow # h.seen.flow THEN h.flow ELSE flowCache
        /\ bag' = [r \in Relations |-> IF h.bag[r] # h.seen.bag[r] THEN h.bag[r] ELSE bag[r]]
        /\ UNCHANGED <<conf, leader>>
        /\ UNCHANGED <<authentik, budgets>>
    BY <1>2 DEF Commit
  <2>2. h \in HookTypes BY HookWellFormed DEF WellFormed
  <2>3. HooksWellFormed'
    BY <2>1, IdleWellFormed, ContinueWellFormed DEF TypeOK, HooksWellFormed
  <2>4. /\ cache' \in [Relations -> Entries \cup {NoEntry}]
        /\ flowCache' \in [FlowKeys -> FlowUuids \cup {NoFlow}]
        /\ bag' \in [Relations -> Bags]
    <3>1. cache' = h.cache \/ cache' = cache BY <2>1
    <3>2. flowCache' = h.flow \/ flowCache' = flowCache BY <2>1
    <3>3. h.bag \in [Relations -> Bags] /\ bag \in [Relations -> Bags]
      BY <2>2 DEF HookTypes, TypeOK
    <3>4. bag' \in [Relations -> Bags]
      <4>1. \A r \in Relations : (IF h.bag[r] # h.seen.bag[r] THEN h.bag[r] ELSE bag[r]) \in Bags
        BY <3>3
      <4> QED BY <2>1, <4>1
    <3> HIDE DEF h
    <3> QED BY <2>2, <3>1, <3>2, <3>4 DEF HookTypes, TypeOK
  <2>5. /\ failed' \in [Units -> SUBSET Events]
        /\ left' \in [Units -> SUBSET Relations]
        /\ rel' \in [Relations -> {"none", "active", "dying", "gone"}]
    <3>1. h.event \in Events BY <2>2 DEF HookTypes
    <3>2. failed' = [failed EXCEPT ![u] = {}] BY <2>1 DEF FinishEvent
    <3>3. CASE h.event = Ordinary BY <2>1, <3>2, <3>3 DEF FinishEvent, TypeOK
    <3>4. CASE h.event # Ordinary
      <4>1. h.event \in Relations BY <3>1, <3>4 DEF Events
      <4>2. left' = [left EXCEPT ![u] = left[u] \cup {h.event}]
            /\ rel' = AfterLeaving(h.event, left')
        BY <2>1, <3>4 DEF FinishEvent
      <4> HIDE DEF h
      <4> QED BY <3>2, <4>1, <4>2, LeavingTypes DEF TypeOK
    <3> QED BY <3>3, <3>4
  <2> QED BY <2>1, <2>3, <2>4, <2>5 DEF TypeOK, HooksWellFormed, authentik, budgets
<1> QED BY <1>1, <1>2

LEMMA HookFailsTypes ==
  ASSUME TypeOK, NEW u \in Units, HookFails(u)
  PROVE  TypeOK'
<1>1. faults' \in Nat BY DEF HookFails, TypeOK
<1> QED BY <1>1, FailedTypes DEF HookFails

LEMMA CallRefusedTypes ==
  ASSUME TypeOK, NEW u \in Units, CallRefused(u)
  PROVE  TypeOK'
<1>1. HooksWellFormed' BY CaughtWellFormed DEF CallRefused
<1>2. faults' \in Nat BY DEF CallRefused, TypeOK
<1> QED BY <1>1, <1>2 DEF CallRefused, TypeOK, HooksWellFormed, authentik, stored, model

\* Steps of Juju, of the requirers and of Authentik's administrator.
LEMMA ModelTypes ==
  ASSUME TypeOK, NEW r \in Relations,
         Integrate(r) \/ ChangeConf(r) \/ RemoveRelation(r) \/ ClientSecretLost(r)
  PROVE  TypeOK'
<1>1. CASE Integrate(r)
  BY <1>1 DEF Integrate, TypeOK, authentik, stored, budgets, HookShape
<1>2. CASE ChangeConf(r)
  <2>1. edits' \in Nat BY <1>2 DEF ChangeConf, TypeOK
  <2>2. conf' \in [Relations -> Confs \cup {NoConf}] BY <1>2 DEF ChangeConf, TypeOK
  <2> QED BY <1>2, <2>1, <2>2 DEF ChangeConf, TypeOK, authentik, stored
<1>3. CASE RemoveRelation(r)
  BY <1>3 DEF RemoveRelation, TypeOK, authentik, stored, budgets
<1>4. CASE ClientSecretLost(r)
  <2>1. [bag[r] EXCEPT !.creds = NoCred] \in Bags BY DEF TypeOK, Bags
  <2>2. bag' \in [Relations -> Bags] BY <1>4, <2>1 DEF ClientSecretLost, TypeOK
  <2>3. tampers' \in Nat BY <1>4 DEF ClientSecretLost, Tamper, TypeOK
  <2> QED BY <1>4, <2>2, <2>3 DEF ClientSecretLost, TypeOK, authentik, model
<1> QED BY <1>1, <1>2, <1>3, <1>4

LEMMA ElectTypes ==
  ASSUME TypeOK, NEW u \in Units, Elect(u)
  PROVE  TypeOK'
<1>1. faults' \in Nat BY DEF Elect, TypeOK
<1> QED BY <1>1 DEF Elect, TypeOK, authentik, stored

LEMMA ResolveWithoutRetryTypes ==
  ASSUME TypeOK, NEW u \in Units, ResolveWithoutRetry(u)
  PROVE  TypeOK'
<1>1. PICK e \in failed[u] :
        /\ left' = IF e = Ordinary THEN left ELSE [left EXCEPT ![u] = left[u] \cup {e}]
        /\ rel' = IF e = Ordinary THEN rel ELSE AfterLeaving(e, left')
  BY DEF ResolveWithoutRetry
<1>2. e = Ordinary \/ e \in Relations BY DEF TypeOK, Events
<1>3. left' \in [Units -> SUBSET Relations] BY <1>1, <1>2 DEF TypeOK
<1>4. rel' \in [Relations -> {"none", "active", "dying", "gone"}]
  BY <1>1, <1>2, LeavingTypes DEF TypeOK
<1>5. failed' \in [Units -> SUBSET Events] BY DEF ResolveWithoutRetry, TypeOK
<1> QED BY <1>3, <1>4, <1>5 DEF ResolveWithoutRetry, TypeOK, authentik, stored, budgets

LEMMA AdminTypes ==
  ASSUME TypeOK, AdminDeletesProvider \/ AdminDeletesApplication \/ AdminRecreatesFlow
  PROVE  TypeOK'
<1>1. tampers' \in Nat
  BY DEF AdminDeletesProvider, AdminDeletesApplication, AdminRecreatesFlow, Tamper, TypeOK
<1>2. CASE AdminDeletesProvider
  <2>1. /\ provs' \in [Pks -> Providers \cup {NoProvider}]
        /\ apps' \in [Slugs -> AppStates]
    BY <1>2, DeletedTypes DEF AdminDeletesProvider
  <2> QED BY <1>1, <1>2, <2>1 DEF AdminDeletesProvider, TypeOK, stored, model
<1>3. CASE AdminDeletesApplication
  <2>1. apps' \in [Slugs -> AppStates]
    BY <1>3 DEF AdminDeletesApplication, WithoutApp, TypeOK, AppStates
  <2> QED BY <1>1, <1>3, <2>1 DEF AdminDeletesApplication, TypeOK, stored, model
<1>4. CASE AdminRecreatesFlow
  <2>1. flows' \in [FlowKeys -> FlowUuids]
    <3>1. PICK k \in FlowKeys : flows[k] < MaxFlow /\ flows' = [flows EXCEPT ![k] = flows[k] + 1]
      BY <1>4 DEF AdminRecreatesFlow
    <3>2. flows[k] + 1 \in FlowUuids BY <3>1, StoreAssumption DEF TypeOK, FlowUuids
    <3> QED BY <3>1, <3>2 DEF TypeOK
  <2> QED BY <1>1, <1>4, <2>1 DEF AdminRecreatesFlow, TypeOK, stored, model
<1> QED BY <1>2, <1>3, <1>4

LEMMA EnvironmentTypes ==
  ASSUME TypeOK, Environment
  PROVE  TypeOK'
BY LateCreateTypes, ModelTypes, ResolveWithoutRetryTypes, AdminTypes DEF Environment

LEMMA HookStepTypes ==
  ASSUME TypeOK, NEW u \in Units, HookStep(u)
  PROVE  TypeOK'
<1>1. CASE Discovery(u)
  <2>1. ASSUME GetManagedApplication(u) \/ GetLegacyApplication(u) PROVE TypeOK'
    BY <2>1, GetApplicationTypes
       DEF GetManagedApplication, GetLegacyApplication, SyncCalls, KeyCalls, Kinds
  <2> QED BY <1>1, <2>1, GetCachedApplicationTypes, GetCachedProviderTypes,
             ValidateProviderTypes, FindProviderTypes DEF Discovery
<1>2. CASE Writes(u)
  <2>1. ASSUME CreateProviderInvalid(u) PROVE TypeOK'
    BY <2>1, CaughtTypes DEF CreateProviderInvalid
  <2> QED BY <1>2, <2>1, CreateProviderTypes, CreateProviderConflictTypes, RecoverProviderTypes,
             UpdateProviderTypes, CreateApplicationTypes, CreateApplicationRefusedTypes,
             UpdateApplicationTypes DEF Writes
<1>3. CASE Collection(u)
  BY <1>3, CollectNextTypes, DeleteApplicationTypes, DeleteProviderTypes DEF Collection
<1> QED BY <1>1, <1>2, <1>3, ResolveFlowTypes, SkipRelationTypes, BeginRelationTypes,
           ToGarbageTypes, ResolveMappingsTypes, CommitTypes DEF HookStep

LEMMA NextTypes ==
  ASSUME TypeOK, Next
  PROVE  TypeOK'
<1>1. CASE \E u \in Units : HookStep(u) BY <1>1, HookStepTypes
<1>2. CASE \E u \in Units : Faults(u)
  BY <1>2, HookFailsTypes, CallRefusedTypes, CreateProviderLostTypes, ElectTypes,
     SkippedHookTypes DEF Faults
<1>3. CASE \E u \in Units, e \in Events : Dispatch(u, e)
  BY <1>3, StartHookTypes, FollowerHookTypes DEF Dispatch
<1>4. CASE Environment BY <1>4, EnvironmentTypes
<1> QED BY <1>1, <1>2, <1>3, <1>4 DEF Next

LEMMA StutterTypes ==
  ASSUME TypeOK, UNCHANGED vars
  PROVE  TypeOK'
BY DEF TypeOK, vars, authentik, stored, model, budgets

LEMMA InitTypes ==
  ASSUME Init
  PROVE  TypeOK
<1>1. PICK l \in [Relations -> LegacyStates], c \in [Relations -> Confs] :
        LET old(p) == p \in Relations /\ l[p] # "none"
            firstFlow == [k \in FlowKeys |-> 1]
        IN
        /\ provs = [p \in Pks |->
             IF old(p)
             THEN [name |-> IF l[p] = "owned" THEN LegacyName(p) ELSE Foreign,
                   creds |-> p, hash |-> [conf |-> c[p], flow |-> firstFlow]]
             ELSE NoProvider]
        /\ apps = [s \in Slugs |-> IF s[1] = "legacy" /\ old(s[2]) THEN s[2] ELSE AppAbsent]
        /\ flows = firstFlow
        /\ rel = [r \in Relations |-> IF l[r] = "owned" THEN "active" ELSE "none"]
        /\ conf = [r \in Relations |-> IF l[r] = "owned" THEN c[r] ELSE NoConf]
        /\ bag = [r \in Relations |->
             IF l[r] = "owned" THEN [creds |-> r, slug |-> "legacy"] ELSE EmptyBag]
  BY DEF Init
<1>2. ASSUME NEW r \in Relations, l[r] # "none" PROVE r \in Pks /\ r \in Creds
  BY <1>2, ReconcilerAssumption
<1>3. 1 \in FlowUuids BY StoreAssumption DEF FlowUuids
<1>4. flows \in [FlowKeys -> FlowUuids] BY <1>1, <1>3
<1>5. provs \in [Pks -> Providers \cup {NoProvider}]
  <2>1. ASSUME NEW p \in Pks, p \in Relations, l[p] # "none",
               NEW n \in {LegacyName(p), Foreign}
        PROVE  [name |-> n, creds |-> p, hash |-> [conf |-> c[p], flow |-> flows]] \in Providers
    <3>1. n \in Names BY <2>1 DEF LegacyName, Foreign, Names, Kinds
    <3>2. p \in Creds BY <1>2, <2>1
    <3>3. [conf |-> c[p], flow |-> flows] \in Hashes BY <1>4, <2>1 DEF Hashes
    <3> QED BY <3>1, <3>2, <3>3 DEF Providers
  <2> QED BY <1>1, <2>1
<1>6. apps \in [Slugs -> AppStates]
  <2>1. ASSUME NEW s \in Slugs PROVE s[2] \in Relations BY DEF Slugs
  <2> QED BY <1>1, <1>2, <2>1 DEF AppStates
<1>7. bag \in [Relations -> Bags]
  BY <1>1, <1>2 DEF Bags, EmptyBag, Kinds
<1>8. /\ rel \in [Relations -> {"none", "active", "dying", "gone"}]
      /\ conf \in [Relations -> Confs \cup {NoConf}]
  BY <1>1
<1>9. hook \in [Units -> HookTypes] /\ \A u \in Units : HookShape(hook[u])
  BY IdleWellFormed DEF Init, WellFormed
<1>10. NoEntry \in Entries \cup {NoEntry} /\ flowCache \in [FlowKeys -> FlowUuids \cup {NoFlow}]
  BY DEF Init
<1> QED BY <1>4, <1>5, <1>6, <1>7, <1>8, <1>9, <1>10 DEF Init, TypeOK

\* Every variable keeps its type, and no call is made before its arguments are
\* known, whatever the relations, units, configurations and bounds.
THEOREM TypeCorrect == Spec => []TypeOK
<1>1. Init => TypeOK BY InitTypes
<1>2. TypeOK /\ [Next]_vars => TypeOK' BY NextTypes, StutterTypes
<1> QED BY <1>1, <1>2, PTL DEF Spec
===============================================================================
